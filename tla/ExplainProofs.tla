---------------------------- MODULE ExplainProofs ---------------------------
(* How long an explanation is waited for, for every timeout, number of      *)
(* retries and pause.                                                       *)
EXTENDS Explain, Integers, TLAPS

-----------------------------------------------------------------------------
(* The pauses: each is one Backoff longer than the one before. *)
LEMMA Product == ASSUME NEW a \in Nat, NEW b \in Nat, NEW c \in Nat, a <= b PROVE a * c <= b * c
<1>1. (b - a) * c >= 0
    BY SMT
<1>2. (b - a) * c = b * c - a * c
    BY SMT
<1>3. a * c \in Nat /\ b * c \in Nat
    BY SMT
<1>4. QED BY <1>1, <1>2, <1>3

LEMMA PausesTyped == ASSUME NEW n \in Nat PROVE Pauses(n) \in Nat /\ n * Backoff \in Nat
<1>1. n * (n + 1) \in Nat
    BY SMT
<1>2. (n * (n + 1)) \div 2 \in Nat
    BY <1>1
<1>3. QED BY <1>2, ExplainAssumption DEF Pauses

LEMMA PausesNext == ASSUME NEW n \in Nat PROVE Pauses(n + 1) = Pauses(n) + (n + 1) * Backoff
<1> DEFINE m == n * (n + 1)
<1>1. m \in Nat
    BY SMT
<1>2. (n + 1) * ((n + 1) + 1) = m + 2 * (n + 1)
    BY SMT
<1>3. (m + 2 * (n + 1)) \div 2 = (m \div 2) + (n + 1)
  <2> HIDE DEF m
  <2>1. QED BY <1>1
<1>4. m \div 2 \in Nat
    BY <1>1
<1>5. \A k \in Nat : Backoff * (k + (n + 1)) = Backoff * k + (n + 1) * Backoff
    BY ExplainAssumption, SMT
<1>6. Pauses(n) = Backoff * (m \div 2) /\ Pauses(n + 1) = Backoff * ((m \div 2) + (n + 1))
    BY <1>2, <1>3 DEF Pauses
<1> HIDE DEF m
<1>7. QED BY <1>4, <1>5, <1>6

LEMMA PausesGrow == ASSUME NEW a \in Nat, NEW b \in Nat, a <= b PROVE Pauses(a) <= Pauses(b)
<1>1. a * (a + 1) \in Nat /\ b * (b + 1) \in Nat /\ b * (a + 1) \in Nat
    BY SMT
<1>2. a * (a + 1) <= b * (a + 1)
    BY Product
<1>3. (a + 1) * b <= (b + 1) * b
    BY Product
<1>4. b * (a + 1) = (a + 1) * b /\ b * (b + 1) = (b + 1) * b
    BY SMT
<1>5. (a * (a + 1)) \div 2 <= (b * (b + 1)) \div 2
  <2>1. \A i, j \in Nat : i <= j => i \div 2 <= j \div 2
      OBVIOUS
  <2>2. a * (a + 1) <= b * (b + 1)
      BY <1>1, <1>2, <1>3, <1>4
  <2>3. QED BY <1>1, <2>1, <2>2
<1>6. (a * (a + 1)) \div 2 \in Nat /\ (b * (b + 1)) \div 2 \in Nat
    BY <1>1
<1>7. \A i, j \in Nat : i <= j => Backoff * i <= Backoff * j
  <2>1. SUFFICES ASSUME NEW i \in Nat, NEW j \in Nat, i <= j PROVE Backoff * i <= Backoff * j
      OBVIOUS
  <2>2. Backoff * i = i * Backoff /\ Backoff * j = j * Backoff
      BY ExplainAssumption, SMT
  <2>3. QED BY <2>1, <2>2, Product, ExplainAssumption
<1>8. QED BY <1>5, <1>6, <1>7 DEF Pauses

-----------------------------------------------------------------------------
Requests == [pc : Labels, found : Statuses, attempt : Nat, timer : Nat, gone : BOOLEAN,
             elapsed : Nat]

(* The ticks that n attempts may have taken, with the pauses after them.    *)
Spent(n) == n * Timeout + Pauses(n)

(* Where a request stands in its attempts, and what it may have taken.      *)
Timing(r, tries) ==
    /\ r.pc \in {"idle", "load", "gate"} => r.attempt = 0 /\ r.elapsed = 0
    /\ r.pc = "send" => r.attempt <= tries /\ r.elapsed <= Spent(r.attempt)
    /\ r.pc = "out" => /\ r.attempt \in 1..(tries + 1)
                       /\ r.elapsed + r.timer <= Spent(r.attempt - 1) + Timeout
    /\ r.pc = "pause" => r.attempt \in 1..tries /\ r.elapsed + r.timer <= Spent(r.attempt)

Good(r, tries) == r \in Requests /\ Timing(r, tries)

(* The job, and the outcome an explanation reads from it.                   *)
Jobs == [conv : Nat, converted : BOOLEAN, results : Outcomes \union {Nothing}]
JobInv == job \in Jobs /\ (job.converted => job.results \in Outcomes)

AskInv == retries \in RetryCounts /\ ask \in [Places -> Requests] /\ \A p \in Places : Good(ask[p], retries)

LEMMA SpentTyped == ASSUME NEW n \in Nat PROVE Spent(n) \in Nat
<1>1. n * Timeout \in Nat
    BY ExplainAssumption, SMT
<1>2. QED BY <1>1, PausesTyped DEF Spent

LEMMA SpentNext == ASSUME NEW n \in Nat PROVE Spent(n + 1) = (Spent(n) + Timeout) + (n + 1) * Backoff
<1>1. (n + 1) * Timeout = n * Timeout + Timeout /\ n * Timeout \in Nat
    BY ExplainAssumption, SMT
<1>2. /\ Pauses(n) \in Nat /\ (n + 1) * Backoff \in Nat
      /\ Pauses(n + 1) = Pauses(n) + (n + 1) * Backoff
    BY PausesNext, PausesTyped
<1>3. \A t, u, q, b \in Nat : (t + Timeout) + (q + b) = ((t + q) + Timeout) + b
    BY ExplainAssumption
<1>4. ((n * Timeout) + Timeout) + (Pauses(n) + (n + 1) * Backoff)
      = ((n * Timeout + Pauses(n)) + Timeout) + (n + 1) * Backoff
    BY <1>1, <1>2, <1>3, Zenon
<1>5. QED BY <1>1, <1>2, <1>4, Zenon DEF Spent

LEMMA SpentGrows == ASSUME NEW a \in Nat, NEW b \in Nat, a <= b PROVE Spent(a) <= Spent(b)
<1>1. a * Timeout <= b * Timeout /\ a * Timeout \in Nat /\ b * Timeout \in Nat
  <2>1. a * Timeout \in Nat /\ b * Timeout \in Nat
      BY ExplainAssumption, SMT
  <2>2. QED BY <2>1, Product, ExplainAssumption
<1>2. QED BY <1>1, PausesGrow, PausesTyped DEF Spent

LEMMA IdleGood == ASSUME NEW tries PROVE Good(Idle, tries)
BY DEF Good, Idle, Requests, Labels, Statuses, Timing

(* One request changes, or ends. *)
LEMMA OneChanges ==
    ASSUME AskInv, UNCHANGED retries, NEW p \in Places, NEW r, Become(p, r), Good(r, retries)
    PROVE  AskInv'
<1>1. ask' \in [Places -> Requests] /\ ask'[p] = r /\ \A q \in Places \ {p} : ask'[q] = ask[q]
    BY DEF AskInv, Become, Good
<1>2. QED BY <1>1 DEF AskInv

LEMMA Answered ==
    ASSUME AskInv, UNCHANGED retries, NEW p \in Places, NEW panel, Answer(p, panel)
    PROVE  AskInv'
BY IdleGood, OneChanges DEF Answer

(* A failure after the n-th attempt, at most a timeout after its beginning. *)
LEMMA FailureKeeps ==
    ASSUME AskInv, UNCHANGED retries, NEW p \in Places, NEW n \in Nat \ {0},
           ask[p].elapsed <= Spent(n - 1) + Timeout,
           AfterFailure(p, n)
    PROVE  AskInv'
<1>1. CASE Answer(p, Panel("unavailable"))
    BY <1>1, Answered
<1>2. CASE ~GivesUp(n) /\ Become(p, [ask[p] EXCEPT !.pc = "pause", !.attempt = n,
                                                   !.timer = n * Backoff])
  <2> DEFINE r == [ask[p] EXCEPT !.pc = "pause", !.attempt = n, !.timer = n * Backoff]
  <2>1. n <= retries /\ retries \in Nat /\ ask[p] \in Requests
      BY <1>2, ExplainAssumption DEF GivesUp, AskInv
  <2>2. n - 1 \in Nat /\ (n - 1) + 1 = n
      OBVIOUS
  <2>3. Spent(n) = (Spent(n - 1) + Timeout) + n * Backoff
      BY <2>2, SpentNext
  <2>4. n * Backoff \in Nat /\ Spent(n - 1) \in Nat /\ Timeout \in Nat
      BY <2>2, PausesTyped, SpentTyped, ExplainAssumption
  <2>5. r \in Requests
      BY <2>1, <2>4 DEF Requests, Labels
  <2>6. r.pc = "pause" /\ r.attempt = n /\ r.timer = n * Backoff /\ r.elapsed = ask[p].elapsed
      BY <2>1 DEF Requests
  <2>7. ask[p].elapsed \in Nat
      BY <2>1 DEF Requests
  <2> HIDE DEF r
  <2>8. Timing(r, retries)
      BY <2>1, <2>3, <2>4, <2>6, <2>7 DEF Timing
  <2>9. Good(r, retries)
      BY <2>5, <2>6, <2>8 DEF Good
  <2>10. QED BY <1>2, <2>9, OneChanges DEF r
<1>3. QED BY <1>1, <1>2 DEF AfterFailure

-----------------------------------------------------------------------------
LEMMA ServeKeeps == ASSUME AskInv, JobInv, NEW p \in Places, Serve(p) PROVE AskInv'
<1>1. UNCHANGED retries /\ ask[p] \in Requests /\ Good(ask[p], retries) /\ retries \in Nat
    BY ExplainAssumption DEF Serve, Load, Gate, Send, SendNot, Pause, AskInv
<1>2. CASE Load(p)
  <2>1. CASE HasIssue(p) /\ Become(p, [ask[p] EXCEPT !.pc = "gate", !.found = job.results[p]])
    <3> DEFINE r == [ask[p] EXCEPT !.pc = "gate", !.found = job.results[p]]
    <3>0. job.results[p] \in Statuses
        BY <2>1, ExplainAssumption DEF HasIssue, JobInv
    <3>1. Good(r, retries)
      <4>1. r \in Requests /\ r.pc = "gate" /\ r.attempt = ask[p].attempt /\ r.elapsed = ask[p].elapsed
          BY <1>1, <3>0 DEF Requests, Labels
      <4>2. QED BY <1>1, <1>2, <4>1 DEF Good, Timing, Load, At
    <3>2. QED BY <1>1, <2>1, <3>1, OneChanges
  <2>2. QED BY <1>1, <1>2, <2>1, Answered DEF Load
<1>3. CASE Gate(p)
  <2>1. Good([ask[p] EXCEPT !.pc = "send"], retries)
    <3>1. ask[p].attempt = 0 /\ ask[p].elapsed = 0
        BY <1>1, <1>3 DEF Gate, At, Good, Timing
    <3>2. Spent(0) \in Nat
        BY SpentTyped
    <3>3. QED BY <1>1, <3>1, <3>2 DEF Good, Requests, Labels, Timing
  <2>2. QED BY <1>1, <1>3, <2>1, Answered, OneChanges DEF Gate
<1>4. CASE Send(p)
  <2> DEFINE r == [ask[p] EXCEPT !.pc = "out", !.timer = Timeout, !.attempt = @ + 1]
  <2>1. ask[p].attempt \in Nat /\ ask[p].elapsed \in Nat
        /\ ask[p].attempt <= retries /\ ask[p].elapsed <= Spent(ask[p].attempt)
      BY <1>1, <1>4 DEF Send, At, Good, Timing, Requests
  <2>2. /\ r \in Requests /\ r.pc = "out" /\ r.timer = Timeout /\ r.attempt = ask[p].attempt + 1
        /\ r.elapsed = ask[p].elapsed
    <3>1. Timeout \in Nat /\ ask[p].attempt + 1 \in Nat
        BY <2>1, ExplainAssumption
    <3>2. r \in Requests
        BY <1>1, <3>1 DEF Requests, Labels
    <3>3. QED BY <1>1, <3>2 DEF Requests
  <2> HIDE DEF r
  <2>3. r.attempt - 1 = ask[p].attempt
      BY <2>1, <2>2
  <2>4. Timing(r, retries)
    <3>1. r.attempt \in 1..(retries + 1)
        BY <1>1, <2>1, <2>2
    <3>2. r.elapsed + r.timer <= Spent(r.attempt - 1) + Timeout
      <4>1. Spent(ask[p].attempt) \in Nat
          BY <2>1, SpentTyped
      <4>2. Timeout \in Nat
          BY ExplainAssumption
      <4>3. ask[p].elapsed + Timeout <= Spent(ask[p].attempt) + Timeout
          BY <2>1, <4>1, <4>2
      <4>4. QED BY <2>2, <2>3, <4>3
    <3>3. QED BY <2>2, <3>1, <3>2 DEF Timing
  <2>5. Good(r, retries)
      BY <1>1, <2>2, <2>4 DEF Good
  <2>6. QED BY <1>1, <1>4, <2>5, OneChanges DEF Send, r
<1>5. CASE SendNot(p)
  <2>1. ask[p].attempt \in Nat /\ ask[p].elapsed <= Spent(ask[p].attempt) /\ ask[p].elapsed \in Nat
      BY <1>1, <1>5 DEF SendNot, At, Good, Timing, Requests
  <2>2. (ask[p].attempt + 1) - 1 = ask[p].attempt /\ ask[p].attempt + 1 \in Nat \ {0}
      BY <2>1
  <2>3. ask[p].elapsed <= Spent((ask[p].attempt + 1) - 1) + Timeout
      BY <2>1, <2>2, SpentTyped, ExplainAssumption
  <2>4. AfterFailure(p, ask[p].attempt + 1)
      BY <1>5 DEF SendNot
  <2>5. QED BY <1>1, <2>2, <2>3, <2>4, FailureKeeps
<1>6. CASE Pause(p)
  <2>1. CASE ask[p].timer = 0 /\ Become(p, [ask[p] EXCEPT !.pc = "send"])
    <3>1. /\ ask[p].attempt \in 1..retries /\ ask[p].elapsed + ask[p].timer <= Spent(ask[p].attempt)
          /\ ask[p].elapsed \in Nat
        BY <1>1, <1>6 DEF Pause, At, Good, Timing, Requests
    <3>2. Spent(ask[p].attempt) \in Nat
        BY <3>1, SpentTyped, <1>1
    <3>3. Good([ask[p] EXCEPT !.pc = "send"], retries)
        BY <1>1, <2>1, <3>1, <3>2 DEF Good, Requests, Labels, Timing
    <3>4. QED BY <1>1, <2>1, <3>3, OneChanges
  <2>2. QED BY <1>1, <1>6, <2>1, Answered DEF Pause
<1>7. QED BY <1>2, <1>3, <1>4, <1>5, <1>6 DEF Serve

(* The sidecar answers, or the attempt fails, before its timeout or at it.  *)
LEMMA OutKeeps == ASSUME AskInv, NEW p \in Places, Reply(p) \/ Fails(p) PROVE AskInv'
<1>1. UNCHANGED retries /\ ask[p] \in Requests /\ Good(ask[p], retries) /\ At(p, "out") /\ retries \in Nat
    BY ExplainAssumption DEF Reply, Fails, AskInv
<1>2. /\ ask[p].attempt \in Nat \ {0} /\ ask[p].attempt - 1 \in Nat
      /\ ask[p].elapsed <= Spent(ask[p].attempt - 1) + Timeout
  <2>1. /\ ask[p].attempt \in 1..(retries + 1) /\ ask[p].elapsed \in Nat /\ ask[p].timer \in Nat
        /\ ask[p].elapsed + ask[p].timer <= Spent(ask[p].attempt - 1) + Timeout
      BY <1>1 DEF At, Good, Timing, Requests
  <2>2. Spent(ask[p].attempt - 1) \in Nat
    <3>1. ask[p].attempt - 1 \in Nat
        BY <1>1, <2>1
    <3>2. QED BY <3>1, SpentTyped
  <2>3. ask[p].attempt \in Nat \ {0} /\ ask[p].attempt - 1 \in Nat
      BY <1>1, <2>1
  <2>4. Timeout \in Nat
      BY ExplainAssumption
  <2>5. ask[p].elapsed <= Spent(ask[p].attempt - 1) + Timeout
      BY <2>1, <2>2, <2>4
  <2>6. QED BY <2>3, <2>5
<1>3. CASE Fails(p)
  <2>1. AfterFailure(p, ask[p].attempt)
      BY <1>3 DEF Fails
  <2>2. QED BY <1>1, <1>2, <2>1, FailureKeeps
<1>4. CASE Reply(p)
  <2>1. PICK r \in Responses :
          \/ Judge(r) = "retry" /\ AfterFailure(p, ask[p].attempt)
          \/ \E panel : Answer(p, panel)
      BY <1>4 DEF Reply
  <2>2. QED BY <1>1, <1>2, <2>1, FailureKeeps, Answered
<1>5. QED BY <1>3, <1>4

LEMMA TickKeeps == ASSUME AskInv, Tick PROVE AskInv'
<1>1. UNCHANGED retries /\ retries \in Nat
    BY ExplainAssumption DEF Tick, AskInv
<1>2. ASSUME NEW p \in Places PROVE ask'[p] \in Requests /\ Good(ask'[p], retries)
  <2>1. ask[p] \in Requests /\ Good(ask[p], retries)
      BY DEF AskInv
  <2>2. CASE ~Waiting(p)
      BY <2>1, <2>2 DEF Tick
  <2>3. CASE Waiting(p)
    <3>1. ask'[p] = [ask[p] EXCEPT !.timer = @ - 1, !.elapsed = @ + 1] /\ ask[p].timer > 0
        BY <2>3 DEF Tick, Waiting, At
    <3>2. /\ ask'[p] \in Requests /\ ask'[p].pc = ask[p].pc /\ ask'[p].attempt = ask[p].attempt
          /\ ask'[p].elapsed + ask'[p].timer = ask[p].elapsed + ask[p].timer
      <4>1. ask[p].timer - 1 \in Nat /\ ask[p].elapsed + 1 \in Nat
          BY <2>1, <3>1 DEF Requests
      <4>2. ask'[p] \in Requests
          BY <2>1, <3>1, <4>1 DEF Requests
      <4>3. /\ ask'[p].pc = ask[p].pc /\ ask'[p].attempt = ask[p].attempt
            /\ ask'[p].timer = ask[p].timer - 1 /\ ask'[p].elapsed = ask[p].elapsed + 1
          BY <2>1, <3>1 DEF Requests
      <4>4. ask[p].timer \in Nat /\ ask[p].elapsed \in Nat
          BY <2>1 DEF Requests
      <4>5. QED BY <4>2, <4>3, <4>4
    <3>3. Timing(ask'[p], retries)
        BY <2>1, <2>3, <3>2 DEF Good, Timing, Waiting
    <3>4. QED BY <2>1, <3>2, <3>3 DEF Good
  <2>4. QED BY <2>2, <2>3
<1>3. ask' \in [Places -> Requests]
    BY <1>2 DEF Tick
<1>4. QED BY <1>1, <1>2, <1>3 DEF AskInv

-----------------------------------------------------------------------------
LEMMA JobInit == Init => JobInv
BY DEF Init, JobInv, Jobs

LEMMA JobNext == ASSUME JobInv, [Next]_vars PROVE JobInv'
<1>1. CASE Convert
  <2>1. PICK res \in Outcomes : job' = [conv |-> job.conv + 1, converted |-> TRUE, results |-> res]
      BY <1>1 DEF Convert
  <2>2. QED BY <2>1 DEF JobInv, Jobs
<1>2. CASE Remap
    BY <1>2 DEF Remap, JobInv, Jobs
<1>3. CASE UNCHANGED job
    BY <1>3 DEF JobInv, Jobs
<1>4. QED BY <1>1, <1>2, <1>3
      DEF Next, vars, Click, Serve, Load, Gate, Send, SendNot, Pause, Reply, Fails, Tick, Reload, License

LEMMA AskInit == Init => AskInv
BY IdleGood DEF Init, AskInv, Good

LEMMA ClickKeeps == ASSUME AskInv, NEW p \in Places, Click(p) PROVE AskInv'
<1>1. Good([Idle EXCEPT !.pc = "load"], retries)
    BY DEF Good, Idle, Requests, Labels, Statuses, Timing
<1>2. UNCHANGED retries /\ Become(p, [Idle EXCEPT !.pc = "load"])
    BY DEF Click
<1>3. QED BY <1>1, <1>2, OneChanges

LEMMA ReloadKeeps == ASSUME AskInv, Reload PROVE AskInv'
<1>1. UNCHANGED retries
    BY DEF Reload
<1>2. ASSUME NEW p \in Places PROVE Good(ask'[p], retries)
  <2>1. Good(ask[p], retries) /\ ask[p] \in Requests
      BY DEF AskInv, Good
  <2>2. ask'[p] = ask[p] \/ ask'[p] = [ask[p] EXCEPT !.gone = TRUE]
      BY DEF Reload
  <2>3. /\ ask'[p] \in Requests /\ ask'[p].pc = ask[p].pc /\ ask'[p].attempt = ask[p].attempt
        /\ ask'[p].elapsed = ask[p].elapsed /\ ask'[p].timer = ask[p].timer
      BY <2>1, <2>2 DEF Requests
  <2>4. QED BY <2>1, <2>3 DEF Good, Timing
<1>3. ask' \in [Places -> Requests]
    BY <1>2 DEF Reload, Good
<1>4. QED BY <1>1, <1>2, <1>3 DEF AskInv

LEMMA AskNext == ASSUME AskInv, JobInv, [Next]_vars PROVE AskInv'
<1>1. CASE \E p \in Places : Click(p) \/ Serve(p) \/ Reply(p) \/ Fails(p)
    BY <1>1, ClickKeeps, ServeKeeps, OutKeeps
<1>2. CASE Tick
    BY <1>2, TickKeeps
<1>3. CASE Reload
    BY <1>3, ReloadKeeps
<1>4. CASE UNCHANGED <<ask, retries>>
    BY <1>4 DEF AskInv
<1>5. QED BY <1>1, <1>2, <1>3, <1>4 DEF Next, vars, Convert, Remap, License

LEMMA AskCorrect == Spec => [](AskInv /\ JobInv)
<1>1. Init => AskInv /\ JobInv
    BY AskInit, JobInit
<1>2. (AskInv /\ JobInv) /\ [Next]_vars => (AskInv /\ JobInv)'
    BY AskNext, JobNext
<1>3. QED BY <1>1, <1>2, PTL DEF Spec

-----------------------------------------------------------------------------
LEMMA WaitFromTiming == AskInv => WaitBounded
<1>1. SUFFICES ASSUME AskInv, NEW p \in Places
               PROVE  ask[p].elapsed <= (retries + 1) * Timeout + Pauses(retries)
    BY DEF WaitBounded
<1>2. ask[p] \in Requests /\ Timing(ask[p], retries) /\ retries \in Nat
    BY <1>1, ExplainAssumption DEF AskInv, Good
<1>3. ask[p].elapsed \in Nat /\ ask[p].timer \in Nat /\ ask[p].attempt \in Nat /\ ask[p].pc \in Labels
    BY <1>2 DEF Requests
<1>4. (retries + 1) * Timeout + Pauses(retries) = Spent(retries) + Timeout
  <2>1. (retries + 1) * Timeout = retries * Timeout + Timeout /\ retries * Timeout \in Nat
      BY <1>2, ExplainAssumption, SMT
  <2>2. \A t, q \in Nat : (t + Timeout) + q = (t + q) + Timeout
      BY ExplainAssumption
  <2>3. Pauses(retries) \in Nat
      BY <1>2, PausesTyped
  <2>4. QED BY <2>1, <2>2, <2>3, Zenon DEF Spent
<1>5. Spent(retries) \in Nat /\ Timeout \in Nat
    BY <1>2, SpentTyped, ExplainAssumption
<1>6. ASSUME NEW n \in Nat, n <= retries, ask[p].elapsed <= Spent(n) + Timeout
      PROVE  ask[p].elapsed <= Spent(retries) + Timeout
  <2>1. Spent(n) \in Nat /\ Spent(n) <= Spent(retries)
      BY <1>2, <1>6, SpentTyped, SpentGrows
  <2>2. QED BY <1>3, <1>5, <1>6, <2>1
<1>7. CASE ask[p].pc \in {"idle", "load", "gate"}
    BY <1>2, <1>4, <1>5, <1>7 DEF Timing
<1>8. CASE ask[p].pc \in {"send", "pause"}
  <2>1. ask[p].attempt <= retries /\ ask[p].elapsed <= Spent(ask[p].attempt)
    <3>1. CASE ask[p].pc = "send"
        BY <1>2, <3>1 DEF Timing
    <3>2. CASE ask[p].pc = "pause"
      <4>1. ask[p].attempt <= retries /\ ask[p].elapsed + ask[p].timer <= Spent(ask[p].attempt)
          BY <1>2, <3>2 DEF Timing
      <4>2. QED BY <1>3, <4>1, SpentTyped
    <3>3. QED BY <1>8, <3>1, <3>2
  <2>2. ask[p].elapsed <= Spent(ask[p].attempt) + Timeout
      BY <1>3, <1>5, <2>1, SpentTyped
  <2>3. QED BY <1>3, <1>4, <1>6, <2>1, <2>2
<1>9. CASE ask[p].pc = "out"
  <2>1. ask[p].attempt \in 1..(retries + 1) /\ ask[p].elapsed + ask[p].timer <= Spent(ask[p].attempt - 1) + Timeout
      BY <1>2, <1>9 DEF Timing
  <2>2. ask[p].attempt - 1 \in Nat /\ ask[p].attempt - 1 <= retries
      BY <1>2, <1>3, <2>1
  <2>3. ask[p].elapsed <= Spent(ask[p].attempt - 1) + Timeout
      BY <1>3, <1>5, <2>1, <2>2, SpentTyped
  <2>4. QED BY <1>4, <1>6, <2>2, <2>3
<1>10. QED BY <1>3, <1>7, <1>8, <1>9 DEF Labels

(* However the sidecar behaves, an explanation keeps a person waiting for   *)
(* the attempts and the pauses between them, no longer (client.go:109-145,  *)
(* 340-382), for every timeout, pause and number of retries.                *)
THEOREM WaitIsBounded == Spec => []WaitBounded
<1>1. AskInv /\ JobInv => WaitBounded
    BY WaitFromTiming
<1>2. QED BY <1>1, AskCorrect, PTL

-----------------------------------------------------------------------------
PanelStates == {"none", "loading", "unavailable", "done"}

(* What the dashboard and the process keep, beside requests and the job.    *)
PageInv ==
    /\ endpoint \in Endpoints /\ tier \in Tiers
    /\ job.conv \in 0..MaxConvs /\ page \in Outcomes \union {Nothing}
    /\ shown = [p \in Places |-> shown[p]]
    /\ \A p \in Places : shown[p].state \in PanelStates
    /\ asks \in 0..MaxAsks

LEMMA PageInit == Init => PageInv
BY ExplainAssumption DEF Init, PageInv, Panel, PanelStates

(* The panel of one place says something else. *)
LEMMA PanelKept ==
    ASSUME PageInv, NEW p \in Places, NEW panel, panel.state \in PanelStates,
           shown' \in {shown, [shown EXCEPT ![p] = panel]}
    PROVE  shown' = [q \in Places |-> shown'[q]] /\ \A q \in Places : shown'[q].state \in PanelStates
BY DEF PageInv

LEMMA PageNext == ASSUME JobInv, PageInv, [Next]_vars PROVE PageInv'
<1>1. CASE Convert
    BY <1>1, ExplainAssumption DEF Convert, PageInv, JobInv, Jobs
<1>2. CASE Remap
    BY <1>2 DEF Remap, PageInv, JobInv, Jobs
<1>3. CASE Reload
    BY <1>3 DEF Reload, PageInv, JobInv, Jobs, Panel, PanelStates
<1>4. CASE License
    BY <1>4 DEF License, PageInv
<1>5. CASE Tick
    BY <1>5 DEF Tick, PageInv
<1>6. ASSUME NEW p \in Places, Click(p) PROVE PageInv'
  <2>1. Panel("loading").state \in PanelStates
      BY DEF Panel, PanelStates
  <2>2. shown' = [shown EXCEPT ![p] = Panel("loading")]
      BY <1>6 DEF Click
  <2>3. asks' \in 0..MaxAsks
      BY <1>6, ExplainAssumption DEF Click, PageInv
  <2>4. UNCHANGED <<endpoint, tier, job, page>>
      BY <1>6 DEF Click
  <2>5. QED BY <2>1, <2>2, <2>3, <2>4, PanelKept DEF PageInv
<1>7. ASSUME NEW p \in Places, Serve(p) \/ Reply(p) \/ Fails(p) PROVE PageInv'
  <2>1. UNCHANGED <<endpoint, tier, job, page, asks>>
      BY <1>7 DEF Serve, Load, Gate, Send, SendNot, Pause, Reply, Fails
  <2>2. \E panel : /\ panel.state \in PanelStates
                   /\ shown' \in {shown, [shown EXCEPT ![p] = panel]}
    <3>1. Panel("unavailable").state \in PanelStates
        BY DEF Panel, PanelStates
    <3>2. ASSUME NEW panel, panel.state \in PanelStates, Answer(p, panel) PROVE <2>2
        BY <3>2 DEF Answer
    <3>3. ASSUME NEW n, AfterFailure(p, n) PROVE <2>2
        BY <3>1, <3>2, <3>3 DEF AfterFailure
    <3>4. CASE UNCHANGED shown
        BY <3>1, <3>4
    <3>5. CASE Serve(p)
        BY <3>1, <3>2, <3>3, <3>4, <3>5 DEF Serve, Load, Gate, Send, SendNot, Pause
    <3>6. CASE Fails(p)
        BY <3>3, <3>6 DEF Fails
    <3>7. CASE Reply(p)
      <4>1. ASSUME NEW text
            PROVE  [state |-> "done", of |-> ask[p].found, text |-> Guarded(text)].state \in PanelStates
          BY DEF PanelStates
      <4>2. QED BY <3>1, <3>2, <3>3, <3>7, <4>1 DEF Reply
    <3>8. QED BY <1>7, <3>5, <3>6, <3>7
  <2>3. QED BY <2>1, <2>2, PanelKept DEF PageInv
<1>8. CASE UNCHANGED vars
    BY <1>8 DEF vars, PageInv
<1>9. QED BY <1>1, <1>2, <1>3, <1>4, <1>5, <1>6, <1>7, <1>8 DEF Next

(* AI Assist is well typed: whatever the sidecar answers, a panel shows one *)
(* of four states and no request is past its last attempt.                  *)
THEOREM ExplainTypeCorrect == Spec => []ETypeOK
<1>1. AskInv /\ JobInv /\ PageInv => ETypeOK
  <2> SUFFICES ASSUME AskInv, JobInv, PageInv PROVE ETypeOK
      OBVIOUS
  <2>1. retries \in Nat
      BY ExplainAssumption DEF AskInv
  <2>2. ASSUME NEW p \in Places
        PROVE  /\ ask[p].pc \in Labels /\ ask[p].found \in Statuses /\ ask[p].timer \in Nat
               /\ ask[p].attempt \in 0..(retries + 1)
      BY <2>1 DEF AskInv, Good, Requests, Timing, Labels
  <2>3. QED BY <2>2 DEF ETypeOK, AskInv, JobInv, Jobs, PageInv, PanelStates
<1>2. PageInv /\ JobInv /\ [Next]_vars => PageInv'
    BY PageNext
<1>3. QED BY AskCorrect, PageInit, <1>1, <1>2, PTL DEF Spec
=============================================================================
