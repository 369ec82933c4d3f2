------------------------------ MODULE Explain --------------------------------
(***************************************************************************)
(* AI Assist: the dashboard's Explain button (index.html), the handler      *)
(* behind it (src/webui/ai.go) and the client that asks the sidecar, with   *)
(* its timeout, its retries and the cancellation of the request             *)
(* (src/internal/aiclient).  The sidecar is the environment: it may answer  *)
(* anything, late or never.                                                 *)
(*                                                                         *)
(* One dashboard looks at one job.  A place is what a request names, the    *)
(* context and the index of an item; one request per place runs at a time,  *)
(* its button being disabled.  Time is counted in ticks; the server's own   *)
(* steps take none.                                                         *)
(***************************************************************************)
EXTENDS Naturals, FiniteSets, Sequences, SequencesExt

CONSTANTS
    Places,      \* <<context, index>> pairs a dashboard can name
    Outcomes,    \* results of a conversion: functions from places to statuses
    Narrations,  \* what the sidecar may tell: sequences of sentences
    Endpoints,   \* of {"off", "open", "keyed"}: how the process was started
    Tiers,       \* tiers the activation may take
    RetryCounts, \* values of WithMaxRetries; the dashboard's is 0
    Timeout,     \* ticks of one attempt
    Backoff,     \* ticks of the first pause between attempts
    MaxConvs,    \* bound: conversions
    MaxAsks,     \* bound: clicks on a button
    Nothing      \* no job, no results

Statuses == {"converted", "partial", "manual", "failed", "info"}
Sentences == {"plain", "other severity"}

ASSUME ExplainAssumption ==
    /\ Outcomes # {} /\ \A res \in Outcomes : res \in [DOMAIN res -> Statuses] /\ DOMAIN res \subseteq Places
    /\ Narrations \subseteq Seq(Sentences) \ {<<>>}
    /\ Endpoints \subseteq {"off", "open", "keyed"}
    /\ RetryCounts \subseteq Nat /\ Timeout \in Nat \ {0} /\ Backoff \in Nat \ {0}
    /\ MaxConvs \in Nat /\ MaxAsks \in Nat

VARIABLES
    endpoint,   \* Server.AI: off, without a key, with one
    retries,    \* Client.maxRetries
    tier,       \* Server.activation
    job,        \* the stored job: conversions so far, status, results
    page,       \* the results on screen
    shown,      \* place -> AI.state: what the panel under the item says
    ask,        \* place -> its request
    asks        \* clicks so far

vars == <<endpoint, retries, tier, job, page, shown, ask, asks>>

Paid(t) == t \in {"pro", "team"}

Labels == {"idle", "load", "gate", "send", "out", "pause"}

(* What comes back: a status and a body, which may break off, be an error   *)
(* object, a narration in the schema, or anything else (no JSON, no choices,*)
(* off the schema, a blank explanation).  No connection, a timeout and a    *)
(* context that is done give nothing.                                       *)
Responses == [status : {200, 400, 500}, body : {"cut", "error", "narration", "other"}]

(* A request: the outcome it found, attempts made, the ticks left of the    *)
(* attempt or the pause, whether its client has gone; and, for the          *)
(* properties, the ticks gone by.                                           *)
Idle == [pc |-> "idle", found |-> "converted", attempt |-> 0, timer |-> 0, gone |-> FALSE,
         elapsed |-> 0]

Panel(state) == [state |-> state, of |-> "converted", text |-> <<>>]

(* NewAIAssist: no URL is AI Assist off; a bad URL or an empty key file     *)
(* keeps the process from starting.                                         *)
Init ==
    /\ endpoint \in Endpoints /\ retries \in RetryCounts /\ tier \in Tiers
    /\ job = [conv |-> 0, converted |-> FALSE, results |-> Nothing]
    /\ page = Nothing
    /\ shown = [p \in Places |-> Panel("none")]
    /\ ask = [p \in Places |-> Idle] /\ asks = 0

-----------------------------------------------------------------------------
At(p, label) == ask[p].pc = label
Become(p, request) == ask' = [ask EXCEPT ![p] = request]

(* The handler answers.  Nobody reads the answer to a client that has gone. *)
Answer(p, panel) ==
    /\ Become(p, Idle)
    /\ shown' = IF ask[p].gone THEN shown ELSE [shown EXCEPT ![p] = panel]

(* explainIssue: the button of an item on screen that is no clean one.      *)
Click(p) ==
    /\ asks < MaxAsks /\ asks' = asks + 1
    /\ endpoint # "off" /\ At(p, "idle")
    /\ page # Nothing /\ p \in DOMAIN page /\ page[p] # "converted"
    /\ shown' = [shown EXCEPT ![p] = Panel("loading")]
    /\ Become(p, [Idle EXCEPT !.pc = "load"])
    /\ UNCHANGED <<endpoint, retries, tier, job, page>>

(* findIssue and issueSeverity, on the job as it is stored now: an index    *)
(* past the items is a 404, an item that converted cleanly a 400.           *)
HasIssue(p) ==
    /\ job.converted /\ p \in DOMAIN job.results
    /\ job.results[p] # "converted"

Load(p) ==
    /\ At(p, "load")
    /\ \/ ~HasIssue(p) /\ Answer(p, Panel("unavailable"))
       \/ /\ HasIssue(p) /\ UNCHANGED shown
          /\ Become(p, [ask[p] EXCEPT !.pc = "gate", !.found = job.results[p]])
    /\ UNCHANGED <<endpoint, retries, tier, job, page, asks>>

(* aiAllowed: an endpoint with a key is for the paid tiers. *)
AiAllowed(t) == endpoint # "off" /\ (endpoint = "keyed" => Paid(t))

(* A packet that NewFindingPacket does not build is nothing to explain.     *)
Gate(p) ==
    /\ At(p, "gate")
    /\ \/ Answer(p, Panel("unavailable"))
       \/ /\ AiAllowed(tier) /\ UNCHANGED shown
          /\ Become(p, [ask[p] EXCEPT !.pc = "send"])
    /\ UNCHANGED <<endpoint, retries, tier, job, page, asks>>

-----------------------------------------------------------------------------
(* Client.Explain.  The attempt is under way; a request whose context is    *)
(* done does not reach the sidecar (net/http).                              *)
Send(p) ==
    /\ At(p, "send") /\ ~ask[p].gone
    /\ Become(p, [ask[p] EXCEPT !.pc = "out", !.timer = Timeout, !.attempt = @ + 1])
    /\ UNCHANGED <<endpoint, retries, tier, job, page, shown, asks>>

(* Mutant: one attempt more. *)
GiveUpLate(n) == n > retries + 1

(* The attempts are used. *)
GivesUp(n) == n > retries

(* A failure of the n-th attempt that may pass: pause, or give up.          *)
AfterFailure(p, n) ==
    \/ GivesUp(n) /\ Answer(p, Panel("unavailable"))
    \/ /\ ~GivesUp(n) /\ UNCHANGED shown
       /\ Become(p, [ask[p] EXCEPT !.pc = "pause", !.attempt = n,
                                   !.timer = n * Backoff])

(* doRequest, in its order: the body is read before the status is looked at.*)
Judge(r) ==
    CASE r.body = "cut" -> "retry"
      [] r.body # "cut" /\ r.status >= 500 -> "retry"
      [] r.body # "cut" /\ r.status = 400 -> "refused"
      [] r.status = 200 /\ r.body = "error" -> "retry"
      [] r.status = 200 /\ r.body = "narration" -> "ok"
      [] r.status = 200 /\ r.body = "other" -> "refused"

(* dropConflictingSeverity: the sentences that name another severity go,    *)
(* unless that leaves nothing.                                              *)
Guarded(text) ==
    LET kept == SelectSeq(text, LAMBDA sentence : sentence # "other severity") IN
    IF kept = <<>> THEN text ELSE kept

Reply(p) ==
    /\ At(p, "out") /\ ~ask[p].gone
    /\ \E r \in Responses :
          \/ Judge(r) = "retry" /\ AfterFailure(p, ask[p].attempt)
          \/ Judge(r) = "refused" /\ Answer(p, Panel("unavailable"))
          \/ /\ Judge(r) = "ok"
             /\ \E text \in Narrations :
                   Answer(p, [state |-> "done", of |-> ask[p].found, text |-> Guarded(text)])
    /\ UNCHANGED <<endpoint, retries, tier, job, page, asks>>

(* Mutant: an attempt has no timeout of its own. *)
FailsUndue(p) ==
    /\ At(p, "out") /\ ask[p].gone /\ AfterFailure(p, ask[p].attempt)
    /\ UNCHANGED <<endpoint, retries, tier, job, page, asks>>

(* No connection, or the attempt's timeout, or the request's context.       *)
Fails(p) ==
    /\ At(p, "out") /\ AfterFailure(p, ask[p].attempt)
    /\ UNCHANGED <<endpoint, retries, tier, job, page, asks>>

(* select: the timer, or the context; when both are ready, either.          *)
Pause(p) ==
    /\ At(p, "pause")
    /\ \/ ask[p].timer = 0 /\ Become(p, [ask[p] EXCEPT !.pc = "send"]) /\ UNCHANGED shown
       \/ ask[p].gone /\ Answer(p, Panel("unavailable"))
    /\ UNCHANGED <<endpoint, retries, tier, job, page, asks>>

(* An attempt in a context that is done fails at once. *)
SendNot(p) ==
    /\ At(p, "send") /\ ask[p].gone /\ AfterFailure(p, ask[p].attempt + 1)
    /\ UNCHANGED <<endpoint, retries, tier, job, page, asks>>

(* A tick.  What is due happens first.                                      *)
Waiting(p) == ask[p].pc \in {"out", "pause"}
Tick ==
    /\ \E p \in Places : Waiting(p)
    /\ \A p \in Places : At(p, "idle") \/ (Waiting(p) /\ ask[p].timer > 0)
    /\ ask' = [p \in Places |->
                  IF Waiting(p) THEN [ask[p] EXCEPT !.timer = @ - 1, !.elapsed = @ + 1]
                                ELSE ask[p]]
    /\ UNCHANGED <<endpoint, retries, tier, job, page, shown, asks>>

-----------------------------------------------------------------------------
(* handleConvert, asked for here (renderJob shows the answer) or elsewhere. *)
Convert ==
    /\ job.conv < MaxConvs
    /\ \E res \in Outcomes :
          /\ job' = [conv |-> job.conv + 1, converted |-> TRUE, results |-> res]
          /\ page' \in {res, page}
    /\ UNCHANGED <<endpoint, retries, tier, shown, ask, asks>>

(* handleMapping elsewhere: the results stay, under another status. *)
Remap ==
    /\ job' = [job EXCEPT !.converted = FALSE]
    /\ UNCHANGED <<endpoint, retries, tier, page, shown, ask, asks>>

(* The dashboard is opened anew: its panels are gone, and its requests are  *)
(* broken off.                                                              *)
Reload ==
    /\ page' = job.results
    /\ shown' = [p \in Places |-> Panel("none")]
    /\ ask' = [p \in Places |-> IF At(p, "idle") THEN ask[p] ELSE [ask[p] EXCEPT !.gone = TRUE]]
    /\ UNCHANGED <<endpoint, retries, tier, job, asks>>

License == tier' \in Tiers /\ UNCHANGED <<endpoint, retries, job, page, shown, ask, asks>>

Serve(p) == Load(p) \/ Gate(p) \/ Send(p) \/ SendNot(p) \/ Pause(p)

Next ==
    \/ \E p \in Places : Click(p) \/ Serve(p) \/ Reply(p) \/ Fails(p)
    \/ Tick \/ Convert \/ Remap \/ Reload \/ License

(* The handler's goroutine runs, time passes, and a context's deadline ends *)
(* the attempt.  The sidecar owes nothing.                                  *)
Fairness ==
    /\ WF_vars(Tick)
    /\ \A p \in Places : WF_vars(Serve(p)) /\ WF_vars(ask[p].timer = 0 /\ Fails(p))

Spec == Init /\ [][Next]_vars /\ Fairness

-----------------------------------------------------------------------------
ETypeOK ==
    /\ endpoint \in Endpoints /\ retries \in RetryCounts /\ tier \in Tiers
    /\ job.conv \in 0..MaxConvs /\ job.converted \in BOOLEAN
    /\ job.results \in Outcomes \union {Nothing} /\ page \in Outcomes \union {Nothing}
    /\ \A p \in Places :
          /\ shown[p].state \in {"none", "loading", "unavailable", "done"}
          /\ ask[p].pc \in Labels /\ ask[p].found \in Statuses
          /\ ask[p].attempt \in 0..(retries + 1) /\ ask[p].timer \in Nat
    /\ asks \in 0..MaxAsks

(* However the sidecar behaves, a person waits for the attempts and the     *)
(* pauses between them, no longer (client.go:109-145).                      *)
Pauses(n) == Backoff * ((n * (n + 1)) \div 2)
WaitBounded ==
    \A p \in Places : ask[p].elapsed <= (retries + 1) * Timeout + Pauses(retries)

(* Whoever asks gets an answer, with the sidecar down, slow or broken.      *)
EveryAskAnswered == \A p \in Places : ~At(p, "idle") ~> At(p, "idle")
=============================================================================
