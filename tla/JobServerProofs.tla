--------------------------- MODULE JobServerProofs --------------------------
(* Theorems about JobServer and Creation, for every number of concurrent    *)
(* requests, jobs, edits and conversions, and every multipart request.      *)
EXTENDS Creation, WellFoundedInduction, SequenceTheorems, FiniteSetTheorems, TLAPS

(* A request at one of these steps holds a copy of the job it will write.   *)
HolderLabels == {"create.put", "map.put", "conv.caps", "conv.build", "conv.put"}
NamerLabels == HolderLabels \union {"map.get", "map.ok", "conv.get"}

ReqOK ==
    \A c \in Clients :
        /\ pc[c] \in NamerLabels => req[c].id \in JobIds
        /\ pc[c] \in HolderLabels => loc[c] \in Jobs
        /\ pc[c] = "create.count" => req[c].tier \in Tiers

TypeInv == TypeOK /\ ReqOK

LEMMA TypeInit == Init => TypeInv
BY ServerAssumption
   DEF Init, TypeInv, TypeOK, ReqOK, NoReq, Labels, HolderLabels, NamerLabels,
       Maps, AllTiers

(* The jobs the handlers build are jobs. *)
LEMMA NewJobTyped == ASSUME NEW source \in Sources PROVE NewJob(source) \in Jobs
BY ServerAssumption DEF NewJob, Jobs, Maps

LEMMA ApproveTyped ==
    ASSUME NEW job \in Jobs, NEW ents \in Maps
    PROVE  Approve(job, ents) \in Jobs
BY DEF Approve, Jobs

LEMMA ConvertedTyped ==
    ASSUME NEW job \in Jobs, NEW n \in Convs, NEW caps \in AllTiers, NEW now \in AllTiers
    PROVE  Converted(job, n, caps, now) \in Jobs
<1>1. [conv |-> n, free |-> now = "free"] \in Reports
    BY DEF Reports
<1>2. [conv |-> n, ents |-> job.ents] \in Results
    BY DEF Results, Jobs
<1>3. QED BY <1>1, <1>2 DEF Converted, Jobs

(* The end of a request is well typed. *)
LEMMA EndTyped ==
    ASSUME NEW c \in Clients, TypeInv, End(c)
    PROVE  /\ pc' \in [Clients -> Labels]
           /\ req' \in [Clients -> [id : JobIds \union {Absent}, tier : AllTiers]]
           /\ loc' \in [Clients -> Jobs \union {Absent}]
           /\ ReqOK'
<1>1. NoReq \in [id : JobIds \union {Absent}, tier : AllTiers]
    BY DEF NoReq, AllTiers
<1>2. /\ pc' \in [Clients -> Labels]
      /\ req' \in [Clients -> [id : JobIds \union {Absent}, tier : AllTiers]]
      /\ loc' \in [Clients -> Jobs \union {Absent}]
    BY <1>1 DEF End, Goto, TypeInv, TypeOK, Labels
<1>3. ReqOK'
    BY DEF End, Goto, TypeInv, TypeOK, ReqOK, HolderLabels, NamerLabels
<1>4. QED BY <1>2, <1>3

(* A request that goes on is well typed if what it now relies on is there.  *)
LEMMA GotoTyped ==
    ASSUME NEW c \in Clients, TypeInv, NEW label \in Labels, Goto(c, label),
           NEW r \in [id : JobIds \union {Absent}, tier : AllTiers],
           req' = [req EXCEPT ![c] = r],
           NEW l \in Jobs \union {Absent}, loc' = [loc EXCEPT ![c] = l],
           label \in NamerLabels => r.id \in JobIds,
           label \in HolderLabels => l \in Jobs,
           label = "create.count" => r.tier \in Tiers
    PROVE  /\ pc' \in [Clients -> Labels]
           /\ req' \in [Clients -> [id : JobIds \union {Absent}, tier : AllTiers]]
           /\ loc' \in [Clients -> Jobs \union {Absent}]
           /\ ReqOK'
BY DEF Goto, TypeInv, TypeOK, ReqOK

LEMMA ShowTyped ==
    ASSUME NEW c \in Clients, TypeInv, NEW id \in JobIds, NEW ents \in Maps,
           Show(c, id, ents)
    PROVE  shown' \in [Clients -> SUBSET (JobIds \X Maps)]
BY DEF Show, TypeInv, TypeOK

LEMMA StoreTyped ==
    ASSUME TypeInv, NEW id \in JobIds, NEW job \in Jobs \union {Absent},
           jobs' = [jobs EXCEPT ![id] = job]
    PROVE  jobs' \in [JobIds -> Jobs \union {Absent}]
BY DEF TypeInv, TypeOK

LEMMA TypeNext == TypeInv /\ [Next]_vars => TypeInv'
<1> SUFFICES ASSUME TypeInv, [Next]_vars PROVE TypeInv'
    OBVIOUS
<1>0. /\ \A c \in Clients : req[c] \in [id : JobIds \union {Absent}, tier : AllTiers]
      /\ \A c \in Clients : req[c] = [id |-> req[c].id, tier |-> req[c].tier]
      /\ \A c \in Clients : req = [req EXCEPT ![c] = req[c]]
      /\ \A c \in Clients : loc = [loc EXCEPT ![c] = loc[c]]
      /\ \A c \in Clients : loc[c] \in Jobs \union {Absent}
      /\ tier \in AllTiers
    BY ServerAssumption DEF TypeInv, TypeOK
<1>1. ASSUME NEW c \in Clients, CreateCall(c) PROVE TypeInv'
  <2>. DEFINE r == [req[c] EXCEPT !.tier = tier]
  <2>1. /\ r \in [id : JobIds \union {Absent}, tier : AllTiers]
        /\ r.tier \in Tiers /\ req' = [req EXCEPT ![c] = r]
      BY <1>0, <1>1 DEF CreateCall, TypeInv, TypeOK
  <2>. HIDE DEF r
  <2>2. /\ Goto(c, "create.count") /\ loc' = [loc EXCEPT ![c] = loc[c]]
        /\ UNCHANGED <<jobs, used, tier, loc, shown, maps, convs>>
      BY <1>0, <1>1 DEF CreateCall
  <2>3. "create.count" \in Labels /\ "create.count" \notin HolderLabels
        /\ "create.count" \notin NamerLabels
      BY DEF Labels, HolderLabels, NamerLabels
  <2>4. loc[c] \in Jobs \union {Absent}
      BY <1>0
  <2>5. /\ pc' \in [Clients -> Labels]
        /\ req' \in [Clients -> [id : JobIds \union {Absent}, tier : AllTiers]]
        /\ loc' \in [Clients -> Jobs \union {Absent}]
        /\ ReqOK'
      BY <2>1, <2>2, <2>3, <2>4, GotoTyped
  <2>6. QED BY <2>2, <2>5 DEF TypeInv, TypeOK
<1>2. ASSUME NEW c \in Clients, NEW id \in JobIds, NEW label \in {"map.get", "conv.get"},
             Goto(c, label), req' = [req EXCEPT ![c].id = id],
             UNCHANGED <<jobs, used, tier, loc, shown, maps, convs>>
      PROVE  TypeInv'
  <2>. DEFINE r == [req[c] EXCEPT !.id = id]
  <2>1. /\ r \in [id : JobIds \union {Absent}, tier : AllTiers]
        /\ r.id \in JobIds /\ req' = [req EXCEPT ![c] = r]
      BY <1>0, <1>2 DEF TypeInv, TypeOK
  <2>. HIDE DEF r
  <2>2. /\ label \in Labels /\ label \notin HolderLabels /\ label # "create.count"
        /\ loc' = [loc EXCEPT ![c] = loc[c]]
      BY <1>0, <1>2 DEF Labels, HolderLabels
  <2>3. /\ pc' \in [Clients -> Labels]
        /\ req' \in [Clients -> [id : JobIds \union {Absent}, tier : AllTiers]]
        /\ loc' \in [Clients -> Jobs \union {Absent}]
        /\ ReqOK'
      BY <1>0, <1>2, <2>1, <2>2, GotoTyped
  <2>4. QED BY <1>2, <2>3 DEF TypeInv, TypeOK
<1>3. ASSUME NEW c \in Clients, Ask(c) PROVE TypeInv'
  <2>1. CASE CreateCall(c)
      BY <1>1, <2>1
  <2>2. ASSUME NEW id \in JobIds, View(c, id) PROVE TypeInv'
    <3>1. jobs[id] \in Jobs /\ jobs[id].ents \in Maps
        BY <2>2 DEF View, TypeInv, TypeOK, Jobs
    <3>2. QED BY <2>2, <3>1, ShowTyped DEF View, TypeInv, TypeOK, ReqOK
  <2>3. ASSUME NEW id \in JobIds, Delete(c, id) PROVE TypeInv'
      BY <2>3, StoreTyped DEF Delete, TypeInv, TypeOK, ReqOK
  <2>4. ASSUME NEW id \in JobIds, MapCall(c, id) \/ ConvCall(c, id) PROVE TypeInv'
      BY <1>2, <2>4 DEF MapCall, ConvCall
  <2>5. Known \subseteq JobIds
      BY DEF Known, TypeInv, TypeOK
  <2>6. QED BY <1>3, <2>1, <2>2, <2>3, <2>4, <2>5 DEF Ask
<1>4. ASSUME NEW c \in Clients, End(c), UNCHANGED <<used, tier>>,
             jobs' \in [JobIds -> Jobs \union {Absent}],
             shown' \in [Clients -> SUBSET (JobIds \X Maps)],
             maps' \in Maps, convs' \in 0..MaxConvs
      PROVE  TypeInv'
    BY <1>4, EndTyped DEF TypeInv, TypeOK
<1>5. ASSUME NEW c \in Clients, NEW label \in Labels, Load(c, label),
             pc[c] \in NamerLabels, label \in HolderLabels,
             UNCHANGED <<jobs, used, tier, shown, maps, convs>>
      PROVE  TypeInv'
  <2>1. CASE End(c)
      BY <1>4, <1>5, <2>1 DEF TypeInv, TypeOK
  <2>2. CASE jobs[req[c].id] # Absent /\ loc' = [loc EXCEPT ![c] = jobs[req[c].id]]
             /\ Goto(c, label) /\ UNCHANGED req
    <3>1. req[c].id \in JobIds /\ jobs[req[c].id] \in Jobs
        BY <1>5, <2>2 DEF TypeInv, TypeOK, ReqOK
    <3>2. QED BY <1>0, <1>5, <2>2, <3>1, GotoTyped
              DEF TypeInv, TypeOK, HolderLabels
  <2>3. QED BY <1>5, <2>1, <2>2 DEF Load
<1>6. ASSUME NEW c \in Clients, CreateCount(c) PROVE TypeInv'
  <2>1. CASE Goto(c, "create.parse") /\ UNCHANGED <<req, loc>>
      BY <1>0, <1>6, <2>1, GotoTyped
         DEF CreateCount, TypeInv, TypeOK, Labels, HolderLabels, NamerLabels
  <2>2. CASE End(c)
      BY <1>4, <1>6, <2>2 DEF CreateCount, TypeInv, TypeOK
  <2>3. QED BY <1>6, <2>1, <2>2 DEF CreateCount
<1>7. ASSUME NEW c \in Clients, CreateParse(c) PROVE TypeInv'
  <2>1. CASE End(c) /\ UNCHANGED used
      BY <1>4, <1>7, <2>1 DEF CreateParse, TypeInv, TypeOK
  <2>2. ASSUME NEW id \in JobIds \ used, NEW source \in Sources,
               used' = used \union {id}, req' = [req EXCEPT ![c].id = id],
               loc' = [loc EXCEPT ![c] = NewJob(source)], Goto(c, "create.put")
        PROVE  TypeInv'
    <3>. DEFINE r == [req[c] EXCEPT !.id = id]
    <3>1. /\ r \in [id : JobIds \union {Absent}, tier : AllTiers]
          /\ r.id \in JobIds /\ req' = [req EXCEPT ![c] = r]
        BY <1>0, <2>2 DEF TypeInv, TypeOK
    <3>2. NewJob(source) \in Jobs
        BY NewJobTyped
    <3>. HIDE DEF r
    <3>3. /\ pc' \in [Clients -> Labels]
          /\ req' \in [Clients -> [id : JobIds \union {Absent}, tier : AllTiers]]
          /\ loc' \in [Clients -> Jobs \union {Absent}]
          /\ ReqOK'
        BY <2>2, <3>1, <3>2, GotoTyped DEF Labels, HolderLabels, NamerLabels
    <3>4. QED BY <1>7, <2>2, <3>3 DEF CreateParse, TypeInv, TypeOK
  <2>3. QED BY <1>7, <2>1, <2>2 DEF CreateParse
<1>8. ASSUME NEW c \in Clients, CreatePut(c) \/ ConvPut(c) PROVE TypeInv'
  <2>1. req[c].id \in JobIds /\ loc[c] \in Jobs /\ loc[c].ents \in Maps
      BY <1>8 DEF CreatePut, ConvPut, At, TypeInv, ReqOK, HolderLabels, NamerLabels, Jobs
  <2>2. CASE jobs' = [jobs EXCEPT ![req[c].id] = loc[c]]
             /\ Show(c, req[c].id, loc[c].ents) /\ End(c)
    <3>1. /\ jobs' \in [JobIds -> Jobs \union {Absent}]
          /\ shown' \in [Clients -> SUBSET (JobIds \X Maps)]
        BY <2>1, <2>2, ShowTyped, StoreTyped
    <3>2. QED BY <1>4, <1>8, <2>2, <3>1 DEF CreatePut, ConvPut, TypeInv, TypeOK
  <2>3. CASE PutFails(c)
      BY <1>4, <1>8, <2>3 DEF PutFails, CreatePut, ConvPut, TypeInv, TypeOK
  <2>4. QED BY <1>8, <2>2, <2>3 DEF CreatePut, ConvPut
<1>9. ASSUME NEW c \in Clients, MapGet(c) PROVE TypeInv'
  <2>1. CASE Load(c, "map.put")
      BY <1>5, <1>9, <2>1 DEF MapGet, At, Labels, HolderLabels, NamerLabels
  <2>2. CASE End(c)
      BY <1>4, <1>9, <2>2 DEF MapGet, TypeInv, TypeOK
  <2>3. QED BY <1>9, <2>1, <2>2 DEF MapGet
<1>10. ASSUME NEW c \in Clients, MapPut(c) PROVE TypeInv'
  <2>1. req[c].id \in JobIds /\ loc[c] \in Jobs
      BY <1>10 DEF MapPut, At, TypeInv, ReqOK, HolderLabels, NamerLabels
  <2>2. CASE PutFails(c) /\ UNCHANGED maps
      BY <1>4, <1>10, <2>2 DEF PutFails, MapPut, TypeInv, TypeOK
  <2>3. ASSUME NEW ents \in {loc[c].ents, maps + 1} \cap Maps,
               jobs' = [jobs EXCEPT ![req[c].id] = Approve(loc[c], ents)],
               maps' = IF ents > maps THEN ents ELSE maps,
               Show(c, req[c].id, ents),
               \/ /\ Goto(c, "map.ok") /\ UNCHANGED req
                  /\ loc' = [loc EXCEPT ![c] = Absent]
               \/ End(c)
        PROVE  TypeInv'
    <3>1. /\ jobs' \in [JobIds -> Jobs \union {Absent}] /\ maps' \in Maps
          /\ shown' \in [Clients -> SUBSET (JobIds \X Maps)]
        BY <2>1, <2>3, ShowTyped, StoreTyped, ApproveTyped DEF TypeInv, TypeOK
    <3>2. CASE End(c)
        BY <1>4, <1>10, <3>1, <3>2 DEF MapPut, TypeInv, TypeOK
    <3>3. CASE Goto(c, "map.ok") /\ UNCHANGED req /\ loc' = [loc EXCEPT ![c] = Absent]
      <4>1. /\ pc' \in [Clients -> Labels]
            /\ req' \in [Clients -> [id : JobIds \union {Absent}, tier : AllTiers]]
            /\ loc' \in [Clients -> Jobs \union {Absent}]
            /\ ReqOK'
          BY <1>0, <2>1, <3>3, GotoTyped DEF Labels, HolderLabels, NamerLabels
      <4>2. QED BY <1>10, <3>1, <4>1 DEF MapPut, TypeInv, TypeOK
    <3>4. QED BY <2>3, <3>2, <3>3
  <2>4. QED BY <1>10, <2>2, <2>3 DEF MapPut
<1>11. ASSUME NEW c \in Clients, ConvGet(c) PROVE TypeInv'
    BY <1>5, <1>11 DEF ConvGet, At, Labels, HolderLabels, NamerLabels
<1>12. ASSUME NEW c \in Clients, ConvCaps(c) PROVE TypeInv'
  <2>1. req[c].id \in JobIds /\ loc[c] \in Jobs
      BY <1>12 DEF ConvCaps, At, TypeInv, ReqOK, HolderLabels, NamerLabels
  <2>2. CASE Goto(c, "conv.build") /\ req' = [req EXCEPT ![c].tier = tier] /\ UNCHANGED loc
    <3>. DEFINE r == [req[c] EXCEPT !.tier = tier]
    <3>1. /\ r \in [id : JobIds \union {Absent}, tier : AllTiers]
          /\ r.id \in JobIds /\ req' = [req EXCEPT ![c] = r]
        BY <1>0, <2>1, <2>2 DEF TypeInv, TypeOK
    <3>. HIDE DEF r
    <3>2. /\ pc' \in [Clients -> Labels]
          /\ req' \in [Clients -> [id : JobIds \union {Absent}, tier : AllTiers]]
          /\ loc' \in [Clients -> Jobs \union {Absent}]
          /\ ReqOK'
        BY <1>0, <2>1, <2>2, <3>1, GotoTyped DEF Labels, HolderLabels, NamerLabels
    <3>3. QED BY <1>12, <3>2 DEF ConvCaps, TypeInv, TypeOK
  <2>3. CASE End(c)
      BY <1>4, <1>12, <2>3 DEF ConvCaps, TypeInv, TypeOK
  <2>4. QED BY <1>12, <2>2, <2>3 DEF ConvCaps
<1>13. ASSUME NEW c \in Clients, ConvBuild(c) PROVE TypeInv'
  <2>. DEFINE l == Converted(loc[c], convs + 1, req[c].tier, tier)
  <2>1. /\ req[c].id \in JobIds /\ loc[c] \in Jobs
        /\ convs + 1 \in Convs /\ convs' \in 0..MaxConvs
      BY <1>13, ServerAssumption
         DEF ConvBuild, At, TypeInv, TypeOK, ReqOK, HolderLabels, NamerLabels, Convs
  <2>2. l \in Jobs
      BY <1>0, <2>1, ConvertedTyped
  <2>3. Goto(c, "conv.put") /\ UNCHANGED req /\ loc' = [loc EXCEPT ![c] = l]
      BY <1>13 DEF ConvBuild
  <2>. HIDE DEF l
  <2>4. /\ pc' \in [Clients -> Labels]
        /\ req' \in [Clients -> [id : JobIds \union {Absent}, tier : AllTiers]]
        /\ loc' \in [Clients -> Jobs \union {Absent}]
        /\ ReqOK'
      BY <1>0, <2>1, <2>2, <2>3, GotoTyped DEF Labels, HolderLabels, NamerLabels
  <2>5. QED BY <1>13, <2>1, <2>4 DEF ConvBuild, TypeInv, TypeOK
<1>14. CASE License
    BY <1>14 DEF License, TypeInv, TypeOK, ReqOK
<1>15. CASE Restart
    BY <1>15, ServerAssumption
       DEF Restart, NoReq, TypeInv, TypeOK, ReqOK, Labels, HolderLabels, NamerLabels, AllTiers
<1>16. CASE UNCHANGED vars
    BY <1>16 DEF vars, TypeInv, TypeOK, ReqOK
<1>17. QED
    BY <1>3, <1>6, <1>7, <1>8, <1>9, <1>10, <1>11, <1>12, <1>13, <1>14, <1>15, <1>16
       DEF Next, Serve

(* Every state of the server is well typed: in particular a request that is *)
(* about to write a job has a whole job to write.                           *)
THEOREM TypeCorrect == Spec => []TypeOK
<1>1. Spec => []TypeInv
    BY TypeInit, TypeNext, PTL DEF Spec
<1>2. TypeInv => TypeOK
    BY DEF TypeInv
<1>3. QED BY <1>1, <1>2, PTL

-----------------------------------------------------------------------------
(* The outputs of a job.  The stored jobs alone are not inductive: a copy   *)
(* some handler still holds will be written back, so it has to be as good   *)
(* as a stored job.                                                         *)
Good(job) == Fresh(job) /\ Unmixed(job)

StoredGood == \A id \in JobIds : jobs[id] # Absent => Good(jobs[id])
HeldGood == \A c \in Clients : pc[c] \in HolderLabels => Good(loc[c])

OutputsInv == TypeInv /\ StoredGood /\ HeldGood

LEMMA NewJobGood == ASSUME NEW source \in Sources PROVE Good(NewJob(source))
BY DEF NewJob, Good, Fresh, Unmixed, ReportAnswer

LEMMA ApproveGood ==
    ASSUME NEW job \in Jobs, Good(job), NEW ents \in Maps
    PROVE  Good(Approve(job, ents))
BY DEF Approve, Jobs, Good, Fresh, Unmixed, ReportAnswer

LEMMA ConvertedGood ==
    ASSUME NEW job \in Jobs, NEW n \in Convs, NEW caps \in AllTiers, NEW now \in AllTiers
    PROVE  Good(Converted(job, n, caps, now))
<1>. DEFINE report == [conv |-> n, free |-> now = "free"]
            res == [conv |-> n, ents |-> job.ents]
            new == Converted(job, n, caps, now)
<1>1. report \in Reports /\ res \in Results
    BY DEF Reports, Results, Jobs
<1>2. report # Absent /\ res # Absent
    BY <1>1, AbsentAssumption
<1>3. /\ new.status = "converted" /\ new.res = res /\ new.process = report
      /\ new.final = (IF FinalReport(caps) THEN report ELSE job.final)
      /\ new.exports = {"process"} \union (IF FinalReport(caps) THEN {"final"} ELSE {})
      /\ new.ents = job.ents /\ new.multi = job.multi /\ new.big = job.big
    BY DEF Converted, Jobs
<1>4. report.conv = n /\ res.conv = n /\ res.ents = job.ents
    OBVIOUS
<1>. HIDE DEF report, res, new
<1>5. Fresh(new)
    BY <1>2, <1>3, <1>4 DEF Fresh
<1>6. Unmixed(new)
    BY <1>2, <1>3, <1>4 DEF Unmixed, ReportAnswer
<1>7. QED BY <1>5, <1>6 DEF Good, new

(* Ending a request, or taking it to a step where nothing is held, leaves   *)
(* the copies of the others as they are.                                    *)
LEMMA EndGood ==
    ASSUME NEW c \in Clients, TypeInv, HeldGood, End(c)
    PROVE  HeldGood'
BY DEF HeldGood, End, Goto, TypeInv, TypeOK, HolderLabels

LEMMA HoldGood ==
    ASSUME NEW c \in Clients, TypeInv, HeldGood, NEW label \in Labels, Goto(c, label),
           NEW l, loc' = [loc EXCEPT ![c] = l], label \in HolderLabels => Good(l)
    PROVE  HeldGood'
BY DEF HeldGood, Goto, TypeInv, TypeOK

LEMMA StoreGood ==
    ASSUME NEW id \in JobIds, TypeInv, StoredGood, NEW job, Good(job),
           jobs' = [jobs EXCEPT ![id] = job]
    PROVE  StoredGood'
BY DEF StoredGood, TypeInv, TypeOK

LEMMA OutputsNext == OutputsInv /\ [Next]_vars => OutputsInv'
<1> SUFFICES ASSUME OutputsInv, [Next]_vars PROVE StoredGood' /\ HeldGood'
    BY TypeNext DEF OutputsInv
<1>0. /\ TypeInv /\ StoredGood /\ HeldGood
      /\ \A c \in Clients : loc = [loc EXCEPT ![c] = loc[c]]
    BY DEF OutputsInv, TypeInv, TypeOK
<1>00. ASSUME UNCHANGED jobs PROVE StoredGood'
    BY <1>0, <1>00 DEF StoredGood
<1>1. ASSUME NEW c \in Clients, NEW label \in Labels, label \notin HolderLabels,
             Goto(c, label), UNCHANGED <<jobs, loc>>
      PROVE  StoredGood' /\ HeldGood'
  <2>1. loc' = [loc EXCEPT ![c] = loc[c]]
      BY <1>0, <1>1
  <2>2. HeldGood'
      BY <1>0, <1>1, <2>1, HoldGood
  <2>3. QED BY <1>00, <1>1, <2>2
<1>2. ASSUME NEW c \in Clients, NEW id \in JobIds,
             CreateCall(c) \/ MapCall(c, id) \/ ConvCall(c, id)
      PROVE  StoredGood' /\ HeldGood'
    BY <1>1, <1>2 DEF CreateCall, MapCall, ConvCall, Labels, HolderLabels
<1>3. ASSUME NEW c \in Clients, Ask(c) PROVE StoredGood' /\ HeldGood'
  <2>1. CASE CreateCall(c)
      BY <1>1, <2>1 DEF CreateCall, Labels, HolderLabels
  <2>2. ASSUME NEW id \in JobIds, View(c, id) PROVE StoredGood' /\ HeldGood'
      BY <1>0, <2>2 DEF View, StoredGood, HeldGood
  <2>3. ASSUME NEW id \in JobIds, Delete(c, id) PROVE StoredGood' /\ HeldGood'
      BY <1>0, <2>3 DEF Delete, StoredGood, HeldGood, TypeInv, TypeOK
  <2>4. Known \subseteq JobIds
      BY <1>0 DEF Known, TypeInv, TypeOK
  <2>5. QED BY <1>2, <1>3, <2>1, <2>2, <2>3, <2>4 DEF Ask
<1>4. ASSUME NEW c \in Clients, End(c), UNCHANGED jobs PROVE StoredGood' /\ HeldGood'
    BY <1>0, <1>00, <1>4, EndGood
<1>5. ASSUME NEW c \in Clients, NEW label \in {"map.put", "conv.caps"}, Load(c, label),
             pc[c] \in NamerLabels, UNCHANGED jobs
      PROVE  StoredGood' /\ HeldGood'
  <2>1. CASE End(c)
      BY <1>4, <1>5, <2>1
  <2>2. CASE jobs[req[c].id] # Absent /\ loc' = [loc EXCEPT ![c] = jobs[req[c].id]]
             /\ Goto(c, label) /\ UNCHANGED req
    <3>1. Good(jobs[req[c].id])
        BY <1>0, <1>5, <2>2 DEF StoredGood, TypeInv, ReqOK
    <3>2. label \in Labels
        BY <1>5 DEF Labels
    <3>3. HeldGood'
        BY <1>0, <2>2, <3>1, <3>2, HoldGood
    <3>4. QED BY <1>00, <1>5, <3>3
  <2>3. QED BY <1>5, <2>1, <2>2 DEF Load
<1>6. ASSUME NEW c \in Clients, CreateCount(c) PROVE StoredGood' /\ HeldGood'
  <2>1. CASE Goto(c, "create.parse") /\ UNCHANGED <<req, loc>>
      BY <1>0, <1>1, <1>6, <2>1 DEF CreateCount, Labels, HolderLabels
  <2>2. QED BY <1>4, <1>6, <2>1 DEF CreateCount
<1>7. ASSUME NEW c \in Clients, CreateParse(c) PROVE StoredGood' /\ HeldGood'
  <2>1. ASSUME NEW id \in JobIds \ used, NEW source \in Sources,
               req' = [req EXCEPT ![c].id = id],
               loc' = [loc EXCEPT ![c] = NewJob(source)], Goto(c, "create.put")
        PROVE  HeldGood'
    <3>1. Good(NewJob(source))
        BY NewJobGood
    <3>2. QED BY <1>0, <2>1, <3>1, HoldGood DEF Labels
  <2>2. QED BY <1>00, <1>4, <1>7, <2>1 DEF CreateParse
<1>8. ASSUME NEW c \in Clients, CreatePut(c) \/ ConvPut(c) PROVE StoredGood' /\ HeldGood'
  <2>1. req[c].id \in JobIds /\ Good(loc[c])
      BY <1>0, <1>8
         DEF CreatePut, ConvPut, At, TypeInv, ReqOK, HeldGood, HolderLabels, NamerLabels
  <2>2. CASE jobs' = [jobs EXCEPT ![req[c].id] = loc[c]] /\ End(c)
      BY <1>0, <2>1, <2>2, EndGood, StoreGood
  <2>3. CASE PutFails(c)
      BY <1>4, <2>3 DEF PutFails
  <2>4. QED BY <1>8, <2>2, <2>3 DEF CreatePut, ConvPut
<1>9. ASSUME NEW c \in Clients, MapGet(c) PROVE StoredGood' /\ HeldGood'
    BY <1>4, <1>5, <1>9 DEF MapGet, At, NamerLabels
<1>10. ASSUME NEW c \in Clients, MapPut(c) PROVE StoredGood' /\ HeldGood'
  <2>1. req[c].id \in JobIds /\ loc[c] \in Jobs /\ Good(loc[c])
      BY <1>0, <1>10 DEF MapPut, At, TypeInv, ReqOK, HeldGood, HolderLabels, NamerLabels
  <2>2. ASSUME NEW ents \in Maps,
               jobs' = [jobs EXCEPT ![req[c].id] = Approve(loc[c], ents)],
               \/ /\ Goto(c, "map.ok") /\ UNCHANGED req
                  /\ loc' = [loc EXCEPT ![c] = Absent]
               \/ End(c)
        PROVE  StoredGood' /\ HeldGood'
    <3>1. StoredGood'
        BY <1>0, <2>1, <2>2, ApproveGood, StoreGood
    <3>2. CASE End(c)
        BY <1>0, <3>1, <3>2, EndGood
    <3>3. CASE Goto(c, "map.ok") /\ UNCHANGED req /\ loc' = [loc EXCEPT ![c] = Absent]
        BY <1>0, <3>1, <3>3, HoldGood DEF Labels, HolderLabels
    <3>4. QED BY <2>2, <3>2, <3>3
  <2>3. CASE PutFails(c)
      BY <1>4, <2>3 DEF PutFails
  <2>4. QED BY <1>10, <2>2, <2>3 DEF MapPut
<1>11. ASSUME NEW c \in Clients, ConvGet(c) PROVE StoredGood' /\ HeldGood'
    BY <1>5, <1>11 DEF ConvGet, At, NamerLabels
<1>12. ASSUME NEW c \in Clients, ConvCaps(c) PROVE StoredGood' /\ HeldGood'
  <2>1. CASE Allowed(loc[c], tier) /\ Goto(c, "conv.build")
             /\ req' = [req EXCEPT ![c].tier = tier] /\ UNCHANGED loc
    <3>1. Good(loc[c])
        BY <1>0, <1>12 DEF ConvCaps, At, HeldGood, HolderLabels
    <3>2. "conv.build" \in Labels /\ loc' = [loc EXCEPT ![c] = loc[c]]
        BY <1>0, <2>1 DEF Labels
    <3>3. HeldGood'
        BY <1>0, <2>1, <3>1, <3>2, HoldGood
    <3>4. QED BY <1>00, <1>12, <3>3 DEF ConvCaps
  <2>2. QED BY <1>4, <1>12, <2>1 DEF ConvCaps
<1>13. ASSUME NEW c \in Clients, ConvBuild(c) PROVE StoredGood' /\ HeldGood'
  <2>. DEFINE l == Converted(loc[c], convs + 1, req[c].tier, tier)
  <2>1. /\ loc[c] \in Jobs /\ convs + 1 \in Convs
        /\ req[c].tier \in AllTiers /\ tier \in AllTiers
      BY <1>0, <1>13, ServerAssumption
         DEF ConvBuild, At, TypeInv, TypeOK, ReqOK, HeldGood, HolderLabels, Convs
  <2>2. Good(l)
      BY <2>1, ConvertedGood
  <2>3. Goto(c, "conv.put") /\ loc' = [loc EXCEPT ![c] = l]
      BY <1>0, <1>13 DEF ConvBuild
  <2>. HIDE DEF l
  <2>4. HeldGood'
      BY <1>0, <2>2, <2>3, HoldGood DEF Labels
  <2>5. QED BY <1>00, <1>13, <2>4 DEF ConvBuild
<1>14. CASE License \/ UNCHANGED vars
    BY <1>0, <1>14 DEF License, vars, StoredGood, HeldGood
<1>15. CASE Restart
    BY <1>0, <1>15 DEF Restart, StoredGood, HeldGood, HolderLabels
<1>16. QED
    BY <1>3, <1>6, <1>7, <1>8, <1>9, <1>10, <1>11, <1>12, <1>13, <1>14, <1>15
       DEF Next, Serve

LEMMA OutputsCorrect == Spec => []OutputsInv
<1>1. Init => OutputsInv
    BY TypeInit DEF Init, OutputsInv, StoredGood, HeldGood, HolderLabels
<1>2. QED BY <1>1, OutputsNext, PTL DEF Spec

LEMMA StoredJobsGood == OutputsInv => \A job \in StoredJobs : Good(job)
BY DEF OutputsInv, StoredGood, StoredJobs, Stored

(* However mapping edits, conversions, deletions and restarts interleave, a *)
(* job whose status is converted carries the outcome of the map it shows.   *)
THEOREM ConvertedIsFresh == Spec => []ConvertedFresh
<1>1. OutputsInv => ConvertedFresh
    BY StoredJobsGood DEF Good, ConvertedFresh
<1>2. QED BY <1>1, OutputsCorrect, PTL

(* The results, the process report and the overflow files of a stored job   *)
(* are those of one conversion.                                             *)
THEOREM OutputsUnmixed == Spec => []OneConversion
<1>1. OutputsInv => OneConversion
    BY StoredJobsGood DEF Good, OneConversion
<1>2. QED BY <1>1, OutputsCorrect, PTL

-----------------------------------------------------------------------------
(* How far concurrent requests can overshoot the job limit.                 *)
Counted == /\ \A t \in Tiers : MaxJobs(t) > 0
           /\ "count" \notin StoreFaults

(* The stored jobs alone are not inductive: a request that holds a copy     *)
(* will store it, even if the job was deleted meanwhile, and one that       *)
(* passed the limit and still parses will store a new job.                  *)
Holding == {c \in Clients : pc[c] \in HolderLabels}
HeldIds == {req[c].id : c \in Holding}
Pending == Stored \union HeldIds
Parsing == {c \in Clients : pc[c] = "create.parse"}

Bound == LimitOf + Cardinality(Clients) - 1

LimitInv == TypeInv /\ Cardinality(Pending) + Cardinality(Parsing) <= Bound

-----------------------------------------------------------------------------
(* Some tier of the behaviour has the largest limit of them. *)
LEMMA LargestLimit ==
    /\ LimitOf \in Nat
    /\ \A u \in Tiers : MaxJobs(u) \in Nat /\ MaxJobs(u) <= LimitOf
    /\ Counted => LimitOf > 0
<1>1. \A u \in Tiers : MaxJobs(u) \in Nat /\ u \in AllTiers
    BY ServerAssumption DEF MaxJobs, Paid, AllTiers
<1>2. \E t \in Tiers : \A u \in Tiers : MaxJobs(u) <= MaxJobs(t)
  <2>1. SUFFICES ASSUME \A t \in Tiers : \E u \in Tiers : MaxJobs(u) > MaxJobs(t)
                 PROVE  FALSE
      BY <1>1
  <2>2. PICK t0 \in Tiers : TRUE
      BY ServerAssumption
  <2>3. PICK t1 \in Tiers : MaxJobs(t1) > MaxJobs(t0)
      BY <2>1
  <2>4. PICK t2 \in Tiers : MaxJobs(t2) > MaxJobs(t1)
      BY <2>1
  <2>5. PICK t3 \in Tiers : MaxJobs(t3) > MaxJobs(t2)
      BY <2>1
  <2>6. PICK t4 \in Tiers : MaxJobs(t4) > MaxJobs(t3)
      BY <2>1
  <2>7. /\ t0 # t1 /\ t0 # t2 /\ t0 # t3 /\ t0 # t4
        /\ t1 # t2 /\ t1 # t3 /\ t1 # t4
        /\ t2 # t3 /\ t2 # t4 /\ t3 # t4
      BY <1>1, <2>3, <2>4, <2>5, <2>6
  <2>8. QED BY <1>1, <2>7 DEF AllTiers
<1>. DEFINE top == CHOOSE t \in Tiers : \A u \in Tiers : MaxJobs(u) <= MaxJobs(t)
<1>3. top \in Tiers /\ \A u \in Tiers : MaxJobs(u) <= MaxJobs(top)
    BY <1>2
<1>4. LimitOf = MaxJobs(top)
    BY DEF LimitOf
<1>. HIDE DEF top
<1>5. QED BY <1>1, <1>3, <1>4 DEF Counted

LEMMA Finite ==
    ASSUME TypeInv
    PROVE  /\ IsFiniteSet(Stored) /\ Cardinality(Stored) \in Nat
           /\ IsFiniteSet(Pending) /\ Cardinality(Pending) \in Nat
           /\ IsFiniteSet(Parsing) /\ Cardinality(Parsing) \in Nat
           /\ IsFiniteSet(Holding) /\ Cardinality(Holding) \in Nat
           /\ Cardinality(Clients) \in Nat
<1>1. Stored \subseteq JobIds /\ Pending \subseteq JobIds
    BY DEF Stored, Pending, HeldIds, Holding, TypeInv, ReqOK, HolderLabels, NamerLabels
<1>2. Holding \subseteq Clients /\ Parsing \subseteq Clients
    BY DEF Holding, Parsing
<1>3. IsFiniteSet(Clients) /\ IsFiniteSet(JobIds)
    BY ServerAssumption
<1>4. QED BY <1>1, <1>2, <1>3, FS_Subset, FS_CardinalityType

(* Each holder adds at most one id. *)
LEMMA HeldFew ==
    ASSUME TypeInv
    PROVE  Cardinality(Pending) <= Cardinality(Stored) + Cardinality(Holding)
<1>. DEFINE f == [c \in Holding |-> req[c].id]
<1>1. f \in Surjection(Holding, HeldIds)
    BY DEF Surjection, HeldIds
<1>2. IsFiniteSet(HeldIds) /\ Cardinality(HeldIds) <= Cardinality(Holding)
    BY <1>1, Finite, FS_Surjection
<1>3. Cardinality(HeldIds) \in Nat
    BY <1>2, FS_CardinalityType
<1>4. Cardinality(Pending) = Cardinality(Stored) + Cardinality(HeldIds)
                             - Cardinality(Stored \cap HeldIds)
    BY <1>2, Finite, FS_Union DEF Pending
<1>5. Cardinality(Stored \cap HeldIds) \in Nat
    BY <1>2, FS_Subset, FS_CardinalityType
<1>6. QED BY <1>2, <1>3, <1>4, <1>5, Finite

(* A step that adds to neither set keeps the bound. *)
LEMMA NoMore ==
    ASSUME LimitInv, TypeInv', Pending' \subseteq Pending, Parsing' \subseteq Parsing
    PROVE  LimitInv'
<1>1. TypeInv /\ Cardinality(Pending) + Cardinality(Parsing) <= Bound
    BY DEF LimitInv
<1>2. IsFiniteSet(Pending) /\ IsFiniteSet(Parsing)
    BY <1>1, Finite
<1>3. Cardinality(Pending') <= Cardinality(Pending)
      /\ Cardinality(Parsing') <= Cardinality(Parsing)
      /\ Cardinality(Pending') \in Nat /\ Cardinality(Parsing') \in Nat
    BY <1>2, FS_Subset, FS_CardinalityType
<1>4. Cardinality(Pending) \in Nat /\ Cardinality(Parsing) \in Nat
      /\ Cardinality(Clients) \in Nat /\ LimitOf \in Nat
    BY <1>1, Finite, LargestLimit
<1>5. Cardinality(Pending') + Cardinality(Parsing') <= Bound
    BY <1>1, <1>3, <1>4 DEF Bound
<1>6. Bound' = Bound
    BY DEF Bound, LimitOf, MaxJobs, Paid
<1>7. QED BY <1>5, <1>6 DEF LimitInv

(* The end of a request that stored what it held, or nothing. *)
LEMMA EndNoMore ==
    ASSUME LimitInv, TypeInv', NEW c \in Clients, End(c),
           \/ UNCHANGED jobs
           \/ /\ pc[c] \in HolderLabels
              /\ \E job : jobs' = [jobs EXCEPT ![req[c].id] = job]
    PROVE  LimitInv'
<1>1. TypeInv
    BY DEF LimitInv
<1>2. Holding' \subseteq Holding /\ Parsing' \subseteq Parsing
      /\ \A d \in Holding' : req'[d] = req[d]
    BY <1>1 DEF End, Goto, Holding, Parsing, TypeInv, TypeOK, HolderLabels
<1>3. HeldIds' \subseteq HeldIds
    BY <1>2 DEF HeldIds
<1>4. Stored' \subseteq Pending
  <2>1. CASE UNCHANGED jobs
      BY <2>1 DEF Stored, Pending
  <2>2. CASE pc[c] \in HolderLabels /\ \E job : jobs' = [jobs EXCEPT ![req[c].id] = job]
    <3>1. req[c].id \in HeldIds
        BY <2>2 DEF HeldIds, Holding
    <3>2. QED BY <1>1, <2>2, <3>1 DEF Stored, Pending, TypeInv, TypeOK
  <2>3. QED BY <2>1, <2>2
<1>5. QED BY <1>2, <1>3, <1>4, NoMore DEF Pending

(* A request that goes from one step to another, holding as little. *)
LEMMA GotoNoMore ==
    ASSUME LimitInv, TypeInv', NEW c \in Clients, NEW label, Goto(c, label),
           label # "create.parse", UNCHANGED jobs,
           NEW r, req' = [req EXCEPT ![c] = r],
           label \in HolderLabels => r.id \in Pending
    PROVE  LimitInv'
<1>1. TypeInv
    BY DEF LimitInv
<1>2. Parsing' \subseteq Parsing
    BY <1>1 DEF Goto, Parsing, TypeInv, TypeOK
<1>3. ASSUME NEW d \in Holding' PROVE req'[d].id \in Pending
  <2>1. CASE d = c
      BY <1>1, <1>3, <2>1 DEF Goto, Holding, TypeInv, TypeOK
  <2>2. CASE d # c
    <3>1. d \in Holding /\ req'[d] = req[d]
        BY <1>1, <1>3, <2>2 DEF Goto, Holding, TypeInv, TypeOK
    <3>2. QED BY <3>1 DEF Pending, HeldIds
  <2>3. QED BY <2>1, <2>2
<1>4. HeldIds' \subseteq Pending
    BY <1>3 DEF HeldIds
<1>5. Stored' = Stored
    BY DEF Stored
<1>6. QED BY <1>2, <1>4, <1>5, NoMore DEF Pending

(* Passing the limit: every client but this one holds or parses at most one *)
(* job, and the stored ones are below the limit.                            *)
LEMMA PassesLimit ==
    ASSUME Counted, LimitInv, TypeInv', NEW c \in Clients, CreateCount(c),
           Goto(c, "create.parse"), UNCHANGED req
    PROVE  LimitInv'
<1>1. TypeInv
    BY DEF LimitInv
<1>2. UNCHANGED jobs /\ pc[c] = "create.count"
    BY DEF CreateCount, At
<1>3. Cardinality(Stored) < LimitOf
  <2>1. req[c].tier \in Tiers
      BY <1>1, <1>2 DEF TypeInv, ReqOK
  <2>2. MaxJobs(req[c].tier) > 0 /\ MaxJobs(req[c].tier) <= LimitOf
        /\ MaxJobs(req[c].tier) \in Nat /\ LimitOf \in Nat
      BY <2>1, LargestLimit DEF Counted
  <2>3. Cardinality(Stored) < MaxJobs(req[c].tier)
    <3>1. pc'[c] = "create.parse"
        BY <1>1 DEF Goto, TypeInv, TypeOK
    <3>2. ~End(c)
        BY <1>1, <3>1 DEF End, Goto, TypeInv, TypeOK
    <3>3. QED BY <2>2, <3>2 DEF CreateCount, Counted
  <2>4. Cardinality(Stored) \in Nat
      BY <1>1, Finite
  <2>5. QED BY <2>2, <2>3, <2>4
<1>4. Stored' = Stored /\ Holding' = Holding /\ Pending' = Pending
  <2>1. Stored' = Stored
      BY <1>2 DEF Stored
  <2>2. Holding' = Holding
      BY <1>1, <1>2 DEF Holding, Goto, TypeInv, TypeOK, HolderLabels
  <2>3. QED BY <2>1, <2>2 DEF Pending, HeldIds
<1>5. Cardinality(Holding') + Cardinality(Parsing') <= Cardinality(Clients)
  <2>1. Holding' \cap Parsing' = {} /\ Holding' \union Parsing' \subseteq Clients
      BY DEF Holding, Parsing, HolderLabels
  <2>2. IsFiniteSet(Holding') /\ IsFiniteSet(Parsing') /\ IsFiniteSet(Clients)
        /\ Cardinality(Holding') \in Nat /\ Cardinality(Parsing') \in Nat
      BY <2>1, ServerAssumption, FS_Subset, FS_CardinalityType
  <2>3. Cardinality(Holding' \union Parsing')
            = Cardinality(Holding') + Cardinality(Parsing') - 0
      BY <2>1, <2>2, FS_Union, FS_EmptySet
  <2>4. Cardinality(Holding' \union Parsing') <= Cardinality(Clients)
      BY <2>1, <2>2, FS_Subset
  <2>5. QED BY <2>2, <2>3, <2>4
<1>6. Cardinality(Pending') <= Cardinality(Stored') + Cardinality(Holding')
    BY <1>1, <1>4, HeldFew
<1>7. /\ Cardinality(Pending') \in Nat /\ Cardinality(Parsing') \in Nat
      /\ Cardinality(Stored) \in Nat /\ Cardinality(Holding') \in Nat
      /\ Cardinality(Clients) \in Nat /\ LimitOf \in Nat
  <2>1. IsFiniteSet(Parsing')
      BY ServerAssumption, FS_Subset DEF Parsing
  <2>2. QED BY <1>1, <1>4, <2>1, Finite, LargestLimit, FS_CardinalityType
<1>8. Cardinality(Pending') + Cardinality(Parsing') <= Bound
    BY <1>3, <1>4, <1>5, <1>6, <1>7 DEF Bound
<1>9. Bound' = Bound
    BY DEF Bound, LimitOf, MaxJobs, Paid
<1>10. QED BY <1>8, <1>9 DEF LimitInv

(* A parsed upload trades its place among the parsing for one new id. *)
LEMMA ParsesUpload ==
    ASSUME LimitInv, TypeInv', NEW c \in Clients, pc[c] = "create.parse",
           Goto(c, "create.put"), UNCHANGED jobs, NEW id,
           req' = [req EXCEPT ![c].id = id]
    PROVE  LimitInv'
<1>1. TypeInv /\ Cardinality(Pending) + Cardinality(Parsing) <= Bound
    BY DEF LimitInv
<1>2. Parsing' = Parsing \ {c} /\ c \in Parsing
    BY <1>1 DEF Goto, Parsing, TypeInv, TypeOK
<1>3. Cardinality(Parsing') = Cardinality(Parsing) - 1
    BY <1>1, <1>2, Finite, FS_RemoveElement
<1>4. Pending' \subseteq Pending \union {id}
  <2>1. Stored' = Stored
      BY DEF Stored
  <2>2. ASSUME NEW d \in Holding' PROVE req'[d].id \in Pending \union {id}
    <3>1. CASE d = c
        BY <1>1, <3>1 DEF TypeInv, TypeOK
    <3>2. CASE d # c
        BY <1>1, <2>2, <3>2 DEF Goto, Holding, HeldIds, Pending, TypeInv, TypeOK
    <3>3. QED BY <3>1, <3>2
  <2>3. HeldIds' \subseteq Pending \union {id}
      BY <2>2 DEF HeldIds
  <2>4. QED BY <2>1, <2>3 DEF Pending
<1>5. Cardinality(Pending') <= Cardinality(Pending) + 1
  <2>. DEFINE more == Pending \union {id}
  <2>0. IsFiniteSet(Pending) /\ Cardinality(Pending) \in Nat
      BY <1>1, Finite
  <2>1. IsFiniteSet(more)
        /\ Cardinality(more) = IF id \in Pending THEN Cardinality(Pending)
                                               ELSE Cardinality(Pending) + 1
      BY <2>0, FS_AddElement
  <2>. HIDE DEF more
  <2>2. Cardinality(Pending') <= Cardinality(more)
        /\ Cardinality(Pending') \in Nat /\ Cardinality(more) \in Nat
      BY <1>4, <2>1, FS_Subset, FS_CardinalityType DEF more
  <2>3. QED BY <2>0, <2>1, <2>2
<1>6. /\ Cardinality(Pending) \in Nat /\ Cardinality(Parsing) \in Nat
      /\ Cardinality(Clients) \in Nat /\ LimitOf \in Nat
    BY <1>1, Finite, LargestLimit
<1>7. Cardinality(Pending') \in Nat
  <2>1. IsFiniteSet(Pending \union {id})
      BY <1>1, Finite, FS_AddElement
  <2>2. QED BY <1>4, <2>1, FS_Subset, FS_CardinalityType
<1>8. Cardinality(Pending') + Cardinality(Parsing') <= Bound
    BY <1>1, <1>3, <1>5, <1>6, <1>7 DEF Bound
<1>9. Bound' = Bound
    BY DEF Bound, LimitOf, MaxJobs, Paid
<1>10. QED BY <1>8, <1>9 DEF LimitInv

-----------------------------------------------------------------------------
LEMMA LimitNext == Counted /\ LimitInv /\ [Next]_vars => LimitInv'
<1> SUFFICES ASSUME Counted, LimitInv, [Next]_vars PROVE LimitInv'
    OBVIOUS
<1>0. /\ TypeInv /\ TypeInv'
      /\ \A c \in Clients : req = [req EXCEPT ![c] = req[c]]
    BY TypeNext DEF LimitInv, TypeInv, TypeOK
<1>1. ASSUME NEW c \in Clients, NEW label \in Labels \ (HolderLabels \union {"create.parse"}),
             Goto(c, label), UNCHANGED jobs, \E r : req' = [req EXCEPT ![c] = r]
      PROVE  LimitInv'
    BY <1>0, <1>1, GotoNoMore
<1>2. ASSUME NEW c \in Clients, NEW id,
             CreateCall(c) \/ MapCall(c, id) \/ ConvCall(c, id)
      PROVE  LimitInv'
    BY <1>1, <1>2 DEF CreateCall, MapCall, ConvCall, Labels, HolderLabels
<1>3. ASSUME NEW c \in Clients, Ask(c) PROVE LimitInv'
  <2>1. CASE CreateCall(c)
      BY <1>1, <2>1 DEF CreateCall, Labels, HolderLabels
  <2>2. ASSUME NEW id, View(c, id) PROVE LimitInv'
    <3>1. Pending' = Pending /\ Parsing' = Parsing
        BY <2>2 DEF View, Pending, Stored, HeldIds, Holding, Parsing
    <3>2. QED BY <1>0, <3>1, NoMore
  <2>3. ASSUME NEW id, Delete(c, id) PROVE LimitInv'
    <3>1. Stored' \subseteq Stored
        BY <1>0, <2>3 DEF Delete, Stored, TypeInv, TypeOK
    <3>2. HeldIds' = HeldIds /\ Parsing' = Parsing
        BY <2>3 DEF Delete, HeldIds, Holding, Parsing
    <3>3. QED BY <1>0, <3>1, <3>2, NoMore DEF Pending
  <2>4. QED BY <1>2, <1>3, <2>1, <2>2, <2>3 DEF Ask
<1>4. ASSUME NEW c \in Clients, End(c), UNCHANGED jobs PROVE LimitInv'
    BY <1>0, <1>4, EndNoMore
<1>5. ASSUME NEW c \in Clients, NEW label \in {"map.put", "conv.caps"}, Load(c, label),
             UNCHANGED jobs, pc[c] \in NamerLabels
      PROVE  LimitInv'
  <2>1. CASE Goto(c, label) /\ UNCHANGED req /\ jobs[req[c].id] # Absent
    <3>1. req[c].id \in Pending
        BY <1>0, <1>5, <2>1 DEF TypeInv, ReqOK, Pending, Stored
    <3>2. req' = [req EXCEPT ![c] = req[c]] /\ label # "create.parse"
        BY <1>0, <1>5, <2>1
    <3>3. QED BY <1>0, <1>5, <2>1, <3>1, <3>2, GotoNoMore
  <2>2. QED BY <1>4, <1>5, <2>1 DEF Load
<1>6. ASSUME NEW c \in Clients, CreateCount(c) PROVE LimitInv'
  <2>1. CASE End(c)
      BY <1>4, <1>6, <2>1 DEF CreateCount
  <2>2. CASE Goto(c, "create.parse") /\ UNCHANGED req
      BY <1>0, <1>6, <2>2, PassesLimit
  <2>3. QED BY <1>6, <2>1, <2>2 DEF CreateCount
<1>7. ASSUME NEW c \in Clients, CreateParse(c) PROVE LimitInv'
    BY <1>0, <1>4, <1>7, ParsesUpload DEF CreateParse, At
<1>8. ASSUME NEW c \in Clients, CreatePut(c) \/ ConvPut(c) PROVE LimitInv'
  <2>1. pc[c] \in HolderLabels
      BY <1>8 DEF CreatePut, ConvPut, At, HolderLabels
  <2>2. End(c) /\ (UNCHANGED jobs \/ jobs' = [jobs EXCEPT ![req[c].id] = loc[c]])
      BY <1>8 DEF CreatePut, ConvPut, PutFails
  <2>3. QED BY <1>0, <2>1, <2>2, EndNoMore
<1>9. ASSUME NEW c \in Clients, MapGet(c) PROVE LimitInv'
    BY <1>4, <1>5, <1>9 DEF MapGet, At, NamerLabels
<1>10. ASSUME NEW c \in Clients, MapPut(c) PROVE LimitInv'
  <2>1. pc[c] \in HolderLabels
      BY <1>10 DEF MapPut, At, HolderLabels
  <2>2. CASE End(c)
    <3>1. UNCHANGED jobs \/ \E job : jobs' = [jobs EXCEPT ![req[c].id] = job]
        BY <1>10 DEF MapPut, PutFails
    <3>2. QED BY <1>0, <2>1, <2>2, <3>1, EndNoMore
  <2>3. ASSUME NEW job, jobs' = [jobs EXCEPT ![req[c].id] = job],
               Goto(c, "map.ok"), UNCHANGED req
        PROVE  LimitInv'
    <3>1. Parsing' \subseteq Parsing /\ Holding' \subseteq Holding
        BY <1>0, <2>3 DEF Goto, Parsing, Holding, TypeInv, TypeOK, HolderLabels
    <3>2. HeldIds' \subseteq HeldIds
        BY <2>3, <3>1 DEF HeldIds
    <3>3. req[c].id \in HeldIds
        BY <2>1 DEF HeldIds, Holding
    <3>4. Stored' \subseteq Stored \union {req[c].id}
        BY <1>0, <2>3 DEF Stored, TypeInv, TypeOK
    <3>5. QED BY <1>0, <3>1, <3>2, <3>3, <3>4, NoMore DEF Pending
  <2>4. QED BY <1>10, <2>2, <2>3 DEF MapPut, PutFails
<1>11. ASSUME NEW c \in Clients, ConvGet(c) PROVE LimitInv'
    BY <1>5, <1>11 DEF ConvGet, At, NamerLabels
<1>12. ASSUME NEW c \in Clients, ConvCaps(c) \/ ConvBuild(c) PROVE LimitInv'
  <2>1. UNCHANGED jobs /\ pc[c] \in HolderLabels
      BY <1>12 DEF ConvCaps, ConvBuild, At, HolderLabels
  <2>2. CASE End(c)
      BY <1>4, <2>1, <2>2
  <2>3. ASSUME NEW label \in {"conv.build", "conv.put"}, Goto(c, label),
               \/ UNCHANGED req
               \/ req' = [req EXCEPT ![c].tier = tier]
        PROVE  LimitInv'
    <3>1. PICK r : req' = [req EXCEPT ![c] = r] /\ r.id = req[c].id
      <4>1. [req[c] EXCEPT !.tier = tier].id = req[c].id
          BY <1>0 DEF TypeInv, TypeOK
      <4>2. QED BY <1>0, <2>3, <4>1
    <3>2. r.id \in Pending
        BY <2>1, <3>1 DEF Pending, HeldIds, Holding
    <3>3. QED BY <1>0, <2>1, <2>3, <3>1, <3>2, GotoNoMore
  <2>4. QED BY <1>12, <2>2, <2>3 DEF ConvCaps, ConvBuild
<1>13. CASE License \/ UNCHANGED vars
  <2>1. Pending' = Pending /\ Parsing' = Parsing
      BY <1>13 DEF License, vars, Pending, Stored, HeldIds, Holding, Parsing
  <2>2. QED BY <1>0, <2>1, NoMore
<1>14. CASE Restart
  <2>1. Pending' \subseteq Pending /\ Parsing' \subseteq Parsing
      BY <1>14 DEF Restart, Pending, Stored, HeldIds, Holding, HolderLabels, Parsing
  <2>2. QED BY <1>0, <2>1, NoMore
<1>15. QED
    BY <1>3, <1>6, <1>7, <1>8, <1>9, <1>10, <1>11, <1>12, <1>13, <1>14 DEF Next, Serve

(* The job limit is overshot by at most the number of requests that run at  *)
(* the same time, less one, when no count of the stored jobs fails.         *)
THEOREM OvershootBounded == ASSUME Counted PROVE Spec => []JobsBounded
<1>1. Init => LimitInv
  <2>1. SUFFICES ASSUME Init PROVE LimitInv
      OBVIOUS
  <2>2. Pending = {} /\ Parsing = {}
      BY <2>1 DEF Init, Pending, Stored, HeldIds, Holding, HolderLabels, Parsing
  <2>3. TypeInv /\ LimitOf \in Nat /\ LimitOf > 0 /\ Cardinality(Clients) \in Nat
      BY <2>1, TypeInit, LargestLimit, ServerAssumption, FS_CardinalityType
  <2>4. QED BY <2>2, <2>3, FS_EmptySet DEF LimitInv, Bound
<1>2. LimitInv /\ [Next]_vars => LimitInv'
    BY LimitNext
<1>3. LimitInv => JobsBounded
  <2>1. SUFFICES ASSUME LimitInv PROVE JobsBounded
      OBVIOUS
  <2>2. Stored \subseteq Pending /\ TypeInv
      BY <2>1 DEF Pending, LimitInv
  <2>3. Cardinality(Stored) <= Cardinality(Pending)
      BY <2>2, Finite, FS_Subset
  <2>4. QED BY <2>1, <2>2, <2>3, Finite, LargestLimit DEF LimitInv, Bound, JobsBounded
<1>4. QED BY <1>1, <1>2, <1>3, PTL DEF Spec

-----------------------------------------------------------------------------
(* Creation, the multipart request included. *)

(* A request that gives up is a creation without a job. *)
LEMMA RefusedParses ==
    ASSUME NEW c \in Clients, NEW status, Refuse(c, status)
    PROVE  [Next]_vars
BY DEF Refuse, Next, Serve, CreateParse

LEMMA UploadParses == ASSUME NEW c \in Clients, Upload(c) PROVE [Next]_vars
<1>1. CASE UNCHANGED vars
    BY <1>1
<1>2. CASE \E status : Refuse(c, status)
    BY <1>2, RefusedParses
<1>3. CASE CreateParse(c)
    BY <1>3 DEF Next, Serve
<1>4. QED
    BY <1>1, <1>2, <1>3
       DEF Upload, Open, NextPart, GiveUp, Copy, Weigh, Check, ReadBack, Parse, Answer,
           Clean, Leave

LEMMA CStepIsNext == [CNext]_cvars => [Next]_vars
<1>1. SUFFICES ASSUME [CNext]_cvars PROVE [Next]_vars
    OBVIOUS
<1>2. CASE UNCHANGED cvars
    BY <1>2 DEF cvars
<1>3. CASE CNext
  <2>1. ASSUME NEW c \in Clients, Upload(c) PROVE [Next]_vars
      BY <2>1, UploadParses
  <2>2. ASSUME NEW c \in Clients, Others(c) PROVE [Next]_vars
      BY <2>2 DEF Others, Next, Serve
  <2>3. ASSUME License \/ Die PROVE [Next]_vars
      BY <2>3 DEF Die, Next
  <2>4. QED BY <1>3, <2>1, <2>2, <2>3 DEF CNext
<1>4. QED BY <1>1, <1>2, <1>3

(* The steps of Creation are those of the handlers or leave their state as  *)
(* it is, by how the module is built, so invariants of Spec carry over.     *)
LEMMA CreationImplements == CSpec => Spec
<1>1. CInit => Init
    BY DEF CInit
<1>2. [CNext]_cvars => [Next]_vars
    BY CStepIsNext
<1>3. QED BY <1>1, <1>2, PTL DEF CSpec, Spec

(* The limit holds with the uploads that run between the count and the Put. *)
THEOREM OvershootBoundedByUploads == ASSUME Counted PROVE CSpec => []JobsBounded
<1>1. CSpec => Spec
    BY CreationImplements
<1>2. Spec => []JobsBounded
    BY OvershootBounded
<1>3. QED BY <1>1, <1>2, PTL

-----------------------------------------------------------------------------
(* Induction over the first n numbers, and what it gives for functions that *)
(* are defined by recursion.                                                *)

(* A non-empty set of naturals has a smallest element. *)
LEMMA Least ==
    ASSUME NEW T, T \subseteq Nat, T # {}
    PROVE  \E m \in T : \A y \in T : m <= y
<1> DEFINE R == {ss \in Nat \X Nat : ss[1] < ss[2]}
<1>1. IsWellFoundedOn(R, Nat)
    BY NatLessThanWellFounded, Zenon DEF OpToRel
<1>2. PICK m \in T : \A y \in T : ~ (<<y, m>> \in R)
    BY <1>1, WFMin
<1>3. ASSUME NEW y \in T PROVE m <= y
  <2>1. y \in Nat /\ m \in Nat
      OBVIOUS
  <2>2. ~ (<<y, m>>[1] < <<y, m>>[2])
      BY <1>2, <2>1
  <2>3. QED BY <2>1, <2>2
<1>4. QED BY <1>3

(* What holds of 0 and of the number after each, to n, holds to n. *)
LEMMA UpTo ==
    ASSUME NEW n \in Nat, NEW T, 0 \in T, \A k \in 0..n : k \in T /\ k < n => k + 1 \in T
    PROVE  0..n \subseteq T
<1> DEFINE U == {k \in 0..n : k \notin T}
<1>1. SUFFICES ASSUME U # {} PROVE FALSE
    OBVIOUS
<1>2. PICK m \in U : \A k \in U : m <= k
  <2>1. U \subseteq Nat
      OBVIOUS
  <2> HIDE DEF U
  <2>2. QED BY <1>1, <2>1, Least
<1>3. m \in 0..n /\ m # 0
    OBVIOUS
<1>4. m - 1 \in 0..n /\ m - 1 < n /\ m - 1 \notin U /\ (m - 1) + 1 = m
    BY <1>2, <1>3
<1>5. QED BY <1>3, <1>4

(* What is built up from a start, step by step, n times. *)
Builds(f, S, start, step, n) ==
    f \in [0..n -> S] /\ f[0] = start /\ \A k \in 1..n : f[k] = step[k][f[k - 1]]

LEMMA Built ==
    ASSUME NEW S, NEW start \in S, NEW step \in [Nat -> [S -> S]], NEW n \in Nat
    PROVE  \E f : Builds(f, S, start, step, n)
<1> DEFINE Goes(m) == \E f : Builds(f, S, start, step, m)
           T == {m \in Nat : Goes(m)}
<1>1. Goes(0)
  <2> DEFINE f == [k \in 0..0 |-> start]
  <2>1. f \in [0..0 -> S] /\ f[0] = start /\ 1..0 = {}
      OBVIOUS
  <2> HIDE DEF f
  <2>2. QED BY <2>1 DEF Builds
<1>2. ASSUME NEW m \in Nat, Goes(m) PROVE Goes(m + 1)
  <2>1. PICK g : g \in [0..m -> S] /\ g[0] = start /\ \A k \in 1..m : g[k] = step[k][g[k - 1]]
      BY <1>2 DEF Builds
  <2> DEFINE f == [k \in 0..(m + 1) |-> IF k <= m THEN g[k] ELSE step[m + 1][g[m]]]
  <2>2. f \in [0..(m + 1) -> S] /\ f[0] = start
      BY <2>1
  <2>3. ASSUME NEW k \in 1..(m + 1) PROVE f[k] = step[k][f[k - 1]]
    <3>1. CASE k \in 1..m
      <4>1. k - 1 \in 0..m /\ k \in 0..m /\ k - 1 \in 0..(m + 1)
          BY <3>1
      <4>2. QED BY <2>1, <3>1, <4>1
    <3>2. CASE k = m + 1
      <4>1. k - 1 = m /\ ~(k <= m) /\ m \in 0..m
          BY <3>2
      <4>2. QED BY <3>2, <4>1
    <3>3. QED BY <3>1, <3>2
  <2> HIDE DEF f
  <2>4. QED BY <2>2, <2>3 DEF Builds
<1> HIDE DEF Goes
<1>3. 0 \in T /\ \A k \in 0..n : k \in T /\ k < n => k + 1 \in T
    BY <1>1, <1>2
<1>4. 0..n \subseteq T
  <2> HIDE DEF T
  <2>1. QED BY <1>3, UpTo
<1>5. n \in T
    BY <1>4
<1>6. QED BY <1>5 DEF Goes

-----------------------------------------------------------------------------
(* The sums and selections of sizes, for requests of any length.            *)
LEMMA TotalsAre ==
    ASSUME NEW s \in Seq(Nat)
    PROVE  /\ Totals(s) \in [0..Len(s) -> Nat]
           /\ Totals(s)[0] = 0
           /\ \A k \in 1..Len(s) : Totals(s)[k] = Totals(s)[k - 1] + s[k]
<1> DEFINE n == Len(s)
           step == [k \in Nat |-> [v \in Nat |-> IF k \in 1..n THEN v + s[k] ELSE v]]
           Sum(g) == g = [k \in 0..n |-> IF k = 0 THEN 0 ELSE g[k - 1] + s[k]]
<1>1. step \in [Nat -> [Nat -> Nat]] /\ n \in Nat /\ 0 \in Nat
    OBVIOUS
<1>2. PICK f : Builds(f, Nat, 0, step, n)
  <2> HIDE DEF step, n
  <2>1. QED BY <1>1, Built, Zenon
<1>3. f \in [0..n -> Nat] /\ f[0] = 0 /\ \A k \in 1..n : f[k] = f[k - 1] + s[k]
  <2>1. f \in [0..n -> Nat] /\ f[0] = 0 /\ \A k \in 1..n : f[k] = step[k][f[k - 1]]
      BY <1>2 DEF Builds
  <2>2. ASSUME NEW k \in 1..n PROVE f[k] = f[k - 1] + s[k]
    <3>1. k - 1 \in 0..n /\ k \in Nat
        BY <1>1
    <3>2. f[k - 1] \in Nat
        BY <2>1, <3>1
    <3>3. step[k][f[k - 1]] = f[k - 1] + s[k]
        BY <3>1, <3>2
    <3>4. QED BY <2>1, <3>3
  <2>3. QED BY <2>1, <2>2
<1>4. Sum(f)
    BY <1>3
<1>5. Totals(s) = CHOOSE g : Sum(g)
    BY DEF Totals
<1>6. Sum(Totals(s))
  <2> HIDE DEF Sum
  <2>1. QED BY <1>4, <1>5
<1>7. ASSUME NEW g, Sum(g)
      PROVE  g \in [0..n -> Nat] /\ g[0] = 0 /\ \A k \in 1..n : g[k] = g[k - 1] + s[k]
  <2> DEFINE T == {k \in 0..n : g[k] \in Nat}
  <2>1. 0 \in T
      BY <1>1, <1>7
  <2>2. ASSUME NEW k \in 0..n, k \in T, k < n PROVE k + 1 \in T
    <3>1. k + 1 \in 1..n /\ (k + 1) - 1 = k /\ s[k + 1] \in Nat
        BY <1>1, <2>2
    <3>2. g[k + 1] = g[k] + s[k + 1]
        BY <1>7, <3>1
    <3>3. g[k] \in Nat /\ k + 1 \in 0..n
        BY <1>1, <2>2
    <3>4. g[k + 1] \in Nat
        BY <3>1, <3>2, <3>3
    <3>5. QED BY <3>3, <3>4
  <2>3. 0..n \subseteq T
    <3> HIDE DEF T
    <3>1. QED BY <1>1, <2>1, <2>2, UpTo
  <2>4. g[0] = 0 /\ \A k \in 1..n : g[k] = g[k - 1] + s[k]
    <3>1. 0 \in 0..n /\ \A k \in 1..n : k \in 0..n /\ k # 0
        BY <1>1
    <3>2. QED BY <1>7, <3>1
  <2>5. g \in [0..n -> Nat]
      BY <1>7, <2>3
  <2>6. QED BY <2>4, <2>5
<1>8. QED BY <1>6, <1>7

(* The same for what is not nothing.                                        *)
LEMMA ContentsAre ==
    ASSUME NEW s \in Seq(Nat)
    PROVE  /\ Contents(s) \in [0..Len(s) -> Seq(Nat)]
           /\ Contents(s)[0] = <<>>
           /\ \A k \in 1..Len(s) :
                 Contents(s)[k] = IF s[k] > 0 THEN Append(Contents(s)[k - 1], s[k]) ELSE Contents(s)[k - 1]
<1> DEFINE n == Len(s)
           step == [k \in Nat |-> [v \in Seq(Nat) |-> IF k \in 1..n /\ s[k] > 0 THEN Append(v, s[k]) ELSE v]]
           Kept(g) == g = [k \in 0..n |->
                              IF k = 0 THEN <<>> ELSE IF s[k] > 0 THEN Append(g[k - 1], s[k]) ELSE g[k - 1]]
<1>1. step \in [Nat -> [Seq(Nat) -> Seq(Nat)]] /\ n \in Nat /\ <<>> \in Seq(Nat)
    OBVIOUS
<1>2. PICK f : Builds(f, Seq(Nat), <<>>, step, n)
  <2> HIDE DEF step, n
  <2>1. QED BY <1>1, Built, Zenon
<1>3. /\ f \in [0..n -> Seq(Nat)] /\ f[0] = <<>>
      /\ \A k \in 1..n : f[k] = IF s[k] > 0 THEN Append(f[k - 1], s[k]) ELSE f[k - 1]
  <2>1. f \in [0..n -> Seq(Nat)] /\ f[0] = <<>> /\ \A k \in 1..n : f[k] = step[k][f[k - 1]]
      BY <1>2 DEF Builds
  <2>2. ASSUME NEW k \in 1..n PROVE f[k] = IF s[k] > 0 THEN Append(f[k - 1], s[k]) ELSE f[k - 1]
    <3>1. k - 1 \in 0..n /\ k \in Nat
        BY <1>1
    <3>2. f[k - 1] \in Seq(Nat)
        BY <2>1, <3>1
    <3>3. step[k][f[k - 1]] = IF s[k] > 0 THEN Append(f[k - 1], s[k]) ELSE f[k - 1]
        BY <3>1, <3>2
    <3>4. QED BY <2>1, <3>3
  <2>3. QED BY <2>1, <2>2
<1>4. Kept(f)
  <2>1. \A k \in 0..n : k = 0 \/ k \in 1..n
      BY <1>1
  <2>2. \A k \in 0..n : f[k] = IF k = 0 THEN <<>> ELSE IF s[k] > 0 THEN Append(f[k - 1], s[k]) ELSE f[k - 1]
      BY <1>3, <2>1
  <2>3. QED BY <1>3, <2>2
<1>5. Contents(s) = CHOOSE g : Kept(g)
    BY DEF Contents
<1>6. Kept(Contents(s))
  <2> HIDE DEF Kept
  <2>1. QED BY <1>4, <1>5
<1>7. ASSUME NEW g, Kept(g)
      PROVE  /\ g \in [0..n -> Seq(Nat)] /\ g[0] = <<>>
             /\ \A k \in 1..n : g[k] = IF s[k] > 0 THEN Append(g[k - 1], s[k]) ELSE g[k - 1]
  <2>1. g[0] = <<>> /\ \A k \in 1..n : g[k] = IF s[k] > 0 THEN Append(g[k - 1], s[k]) ELSE g[k - 1]
    <3>1. 0 \in 0..n /\ \A k \in 1..n : k \in 0..n /\ k # 0
        BY <1>1
    <3>2. QED BY <1>7, <3>1
  <2> DEFINE T == {k \in 0..n : g[k] \in Seq(Nat)}
  <2>2. 0 \in T
    <3>1. g[0] \in Seq(Nat) /\ 0 \in 0..n
        BY <1>1, <2>1
    <3>2. QED BY <3>1
  <2>3. ASSUME NEW k \in 0..n, k \in T, k < n PROVE k + 1 \in T
    <3>1. k + 1 \in 1..n /\ (k + 1) - 1 = k
        BY <1>1, <2>3
    <3>2. g[k + 1] = IF s[k + 1] > 0 THEN Append(g[k], s[k + 1]) ELSE g[k]
        BY <2>1, <3>1
    <3>3. s[k + 1] \in Nat /\ g[k] \in Seq(Nat)
        BY <2>3, <3>1
    <3>4. g[k + 1] \in Seq(Nat) /\ k + 1 \in 0..n
      <4>1. Append(g[k], s[k + 1]) \in Seq(Nat)
          BY <3>3
      <4>2. QED BY <1>1, <3>1, <3>2, <3>3, <4>1
    <3>5. QED BY <3>4
  <2>4. 0..n \subseteq T
    <3> HIDE DEF T
    <3>1. QED BY <1>1, <2>2, <2>3, UpTo
  <2>5. g \in [0..n -> Seq(Nat)]
      BY <1>7, <2>4
  <2>6. QED BY <2>1, <2>5
<1>8. QED BY <1>6, <1>7

(* One more part adds its size.                                             *)
LEMMA TotalAppend ==
    ASSUME NEW s \in Seq(Nat), NEW e \in Nat
    PROVE  Total(s) \in Nat /\ Total(Append(s, e)) = Total(s) + e
<1> DEFINE n == Len(s)
           t == Append(s, e)
           T == {k \in 0..n : Totals(t)[k] = Totals(s)[k]}
<1>1. /\ n \in Nat /\ t \in Seq(Nat) /\ Len(t) = n + 1 /\ t[n + 1] = e
      /\ \A k \in 1..n : t[k] = s[k]
    OBVIOUS
<1> HIDE DEF t
<1>2. 0 \in T
    BY <1>1, TotalsAre
<1>3. ASSUME NEW k \in 0..n, k \in T, k < n PROVE k + 1 \in T
  <2>1. k + 1 \in 1..n /\ k + 1 \in 1..(n + 1) /\ (k + 1) - 1 = k
      BY <1>1, <1>3
  <2>2. Totals(t)[k + 1] = Totals(t)[k] + t[k + 1] /\ Totals(s)[k + 1] = Totals(s)[k] + s[k + 1]
      BY <1>1, <2>1, TotalsAre
  <2>3. QED BY <1>1, <1>3, <2>1, <2>2
<1>4. n \in T
  <2> HIDE DEF T
  <2>1. 0..n \subseteq T
      BY <1>1, <1>2, <1>3, UpTo
  <2>2. QED BY <1>1, <2>1
<1>5. n + 1 \in 1..Len(t) /\ (n + 1) - 1 = n /\ n \in 0..n
    BY <1>1
<1>6. Totals(t)[n + 1] = Totals(t)[n] + e
    BY <1>1, <1>5, TotalsAre
<1>7. Totals(s)[n] \in Nat
    BY <1>5, TotalsAre
<1>8. QED BY <1>1, <1>4, <1>6, <1>7 DEF Total, t

(* The first parts are no more than all of them.                            *)
LEMMA TotalsGrow ==
    ASSUME NEW s \in Seq(Nat), NEW k \in 0..Len(s)
    PROVE  Totals(s)[k] \in Nat /\ Totals(s)[k] <= Total(s)
<1> DEFINE n == Len(s)
           T == {d \in 0..(n - k) : Totals(s)[k] <= Totals(s)[k + d]}
<1>1. n \in Nat /\ k \in Nat /\ n - k \in Nat /\ \A m \in 0..n : Totals(s)[m] \in Nat
    BY TotalsAre
<1>2. 0 \in T
    BY <1>1
<1>3. ASSUME NEW d \in 0..(n - k), d \in T, d < n - k PROVE d + 1 \in T
  <2>1. k + (d + 1) \in 1..n /\ (k + (d + 1)) - 1 = k + d /\ k + d \in 0..n
      BY <1>1, <1>3
  <2>2. Totals(s)[k + (d + 1)] = Totals(s)[k + d] + s[k + (d + 1)]
      BY <2>1, TotalsAre
  <2>3. s[k + (d + 1)] \in Nat
      BY <2>1
  <2>4. QED BY <1>1, <1>3, <2>1, <2>2, <2>3
<1>4. n - k \in T
  <2> HIDE DEF T
  <2>1. 0..(n - k) \subseteq T
      BY <1>1, <1>2, <1>3, UpTo
  <2>2. QED BY <1>1, <2>1
<1>5. k + (n - k) = n
    BY <1>1
<1>6. QED BY <1>1, <1>4, <1>5 DEF Total

(* Parts without content leave a sum as it is.                              *)
LEMMA ContentsTotal ==
    ASSUME NEW s \in Seq(Nat), NEW k \in 0..Len(s)
    PROVE  Total(Contents(s)[k]) = Totals(s)[k]
<1> DEFINE n == Len(s)
           T == {m \in 0..n : Total(Contents(s)[m]) = Totals(s)[m]}
<1>1. n \in Nat /\ \A m \in 0..n : Totals(s)[m] \in Nat /\ Contents(s)[m] \in Seq(Nat)
    BY TotalsAre, ContentsAre
<1>2. 0 \in T
  <2>1. <<>> \in Seq(Nat) /\ Len(<<>>) = 0
      OBVIOUS
  <2>2. Total(<<>>) = 0
      BY <2>1, TotalsAre DEF Total
  <2>3. QED BY <1>1, <2>2, TotalsAre, ContentsAre
<1>3. ASSUME NEW m \in 0..n, m \in T, m < n PROVE m + 1 \in T
  <2>1. m + 1 \in 1..n /\ (m + 1) - 1 = m
      BY <1>1, <1>3
  <2>2. Totals(s)[m + 1] = Totals(s)[m] + s[m + 1] /\ s[m + 1] \in Nat
      BY <2>1, TotalsAre
  <2>3. Contents(s)[m + 1] = IF s[m + 1] > 0 THEN Append(Contents(s)[m], s[m + 1]) ELSE Contents(s)[m]
      BY <2>1, ContentsAre
  <2>4. Total(Append(Contents(s)[m], s[m + 1])) = Total(Contents(s)[m]) + s[m + 1]
      BY <1>1, <2>2, TotalAppend
  <2>5. CASE s[m + 1] > 0
      BY <1>1, <1>3, <2>1, <2>2, <2>3, <2>4, <2>5
  <2>6. CASE s[m + 1] = 0
      BY <1>1, <1>3, <2>1, <2>2, <2>3, <2>6
  <2>7. QED BY <2>2, <2>5, <2>6
<1>4. 0..n \subseteq T
  <2> HIDE DEF T
  <2>1. QED BY <1>1, <1>2, <1>3, UpTo
<1>5. QED BY <1>4

-----------------------------------------------------------------------------
(* What an upload has at each step, client by client: the parts not read    *)
(* are the end of the request, the budget and the files are those of the    *)
(* parts before, and what is in memory is what the files had.               *)
Rest(t, s) ==
    /\ Len(t) <= Len(s)
    /\ \A k \in 1..Len(t) : t[k] = s[Len(s) - Len(t) + k]

Sent(c) == Sizes(sent[c])
Passed(c) == Len(sent[c]) - Len(todo[c])
Spent(c) == Totals(Sent(c))[Passed(c)]
Kept(c) == Contents(Sent(c))[Passed(c)]
Paste(c) == IF "paste" \in form[c] THEN <<0>> ELSE <<>>

Stuck == [Clients -> [files : Nat, bytes : Nat]]

UploadTypes ==
    /\ at \in [Clients -> Steps] /\ code \in [Clients -> Codes]
    /\ sent \in [Clients -> Seq(Parts)] /\ todo \in [Clients -> Seq(Parts)]
    /\ left \in [Clients -> Nat] /\ form \in [Clients -> SUBSET Fields]
    /\ disk \in [Clients -> Seq(Nat)] /\ inputs \in [Clients -> Seq(Nat)]
    /\ stuck \in Stuck

PartsOK(c) ==
    /\ Rest(todo[c], sent[c])
    /\ at[c] \in {"copy", "copied"} => todo[c] # <<>>
    /\ at[c] \in {"check", "read", "parse", "clean"} => todo[c] = <<>>

BudgetOK(c) ==
    IF at[c] = "none" THEN left[c] = Limit
    ELSE at[c] # "done" => left[c] + Spent(c) = Limit

FilesOK(c) ==
    CASE at[c] \in {"none", "done"} -> disk[c] = <<>>
      [] at[c] = "copy" -> disk[c] = Append(Kept(c), 0)
      [] at[c] = "copied" -> disk[c] = Append(Kept(c), Copied(c))
      [] OTHER -> disk[c] = Kept(c)

MemoryOK(c) ==
    /\ At(c, "create.put") => at[c] = "clean"
    /\ at[c] = "parse" \/ At(c, "create.put") => inputs[c] = Kept(c) \o Paste(c)

CodeOK(c) ==
    /\ at[c] = "none" => code[c] = "none"
    /\ code[c] = "413" =>
        \/ Total(Sent(c)) > Limit
        \/ \E k \in DOMAIN sent[c] : sent[c][k].kind = "huge"

(* What could not be removed is counted when the files are swept, once.     *)
StuckOK(c) ==
    /\ at[c] # "done" => stuck[c].bytes = 0
    /\ stuck[c].files = 0 => stuck[c].bytes = 0
    /\ stuck[c].bytes <= Limit + 1

UploadOK(c) ==
    PartsOK(c) /\ BudgetOK(c) /\ FilesOK(c) /\ MemoryOK(c) /\ CodeOK(c) /\ StuckOK(c)

UploadInv == TypeInv /\ UploadTypes /\ \A c \in Clients : UploadOK(c)

-----------------------------------------------------------------------------
LEMMA SizesAre ==
    ASSUME NEW s \in Seq(Parts)
    PROVE  /\ Sizes(s) \in Seq(Nat) /\ Len(Sizes(s)) = Len(s)
           /\ \A k \in 1..Len(s) : Sizes(s)[k] = s[k].size
<1>1. \A k \in 1..Len(s) : s[k].size \in Nat
  <2>1. \A part \in Parts : part.size \in Nat
      BY DEF Parts
  <2>2. QED BY <2>1
<1>2. QED BY <1>1 DEF Sizes

(* What the handler has read of a request, and the part it reads next.      *)
LEMMA ReadPart ==
    ASSUME NEW s \in Seq(Parts), NEW t \in Seq(Parts), Rest(t, s),
           NEW p, p = Len(s) - Len(t)
    PROVE  /\ p \in 0..Len(s)
           /\ Totals(Sizes(s))[p] \in Nat /\ Contents(Sizes(s))[p] \in Seq(Nat)
           /\ t = <<>> => p = Len(s)
           /\ t # <<>> =>
                 /\ Tail(t) \in Seq(Parts) /\ Rest(Tail(t), s) /\ p + 1 = Len(s) - Len(Tail(t))
                 /\ p + 1 \in 1..Len(s) /\ Head(t) = s[p + 1] /\ Head(t) \in Parts
                 /\ Head(t).size \in Nat
                 /\ Totals(Sizes(s))[p + 1] = Totals(Sizes(s))[p] + Head(t).size
                 /\ Contents(Sizes(s))[p + 1] =
                        IF Head(t).size > 0 THEN Append(Contents(Sizes(s))[p], Head(t).size)
                        ELSE Contents(Sizes(s))[p]
<1>1. Len(s) \in Nat /\ Len(t) \in Nat /\ Len(t) <= Len(s) /\ p \in 0..Len(s)
    BY DEF Rest
<1>2. Totals(Sizes(s))[p] \in Nat /\ Contents(Sizes(s))[p] \in Seq(Nat)
    BY <1>1, SizesAre, TotalsAre, ContentsAre
<1>3. t = <<>> => p = Len(s)
    BY <1>1
<1>4. ASSUME t # <<>>
      PROVE  /\ Tail(t) \in Seq(Parts) /\ Rest(Tail(t), s) /\ p + 1 = Len(s) - Len(Tail(t))
             /\ p + 1 \in 1..Len(s) /\ Head(t) = s[p + 1] /\ Head(t) \in Parts
  <2>1. /\ Tail(t) \in Seq(Parts) /\ Len(Tail(t)) = Len(t) - 1 /\ Len(t) > 0
        /\ \A k \in 1..Len(Tail(t)) : Tail(t)[k] = t[k + 1]
        /\ Head(t) = t[1] /\ Head(t) \in Parts
      BY <1>4
  <2>2. p + 1 = Len(s) - Len(Tail(t)) /\ p + 1 \in 1..Len(s) /\ Head(t) = s[p + 1]
      BY <1>1, <2>1 DEF Rest
  <2>3. ASSUME NEW k \in 1..Len(Tail(t)) PROVE Tail(t)[k] = s[Len(s) - Len(Tail(t)) + k]
    <3>1. k + 1 \in 1..Len(t) /\ Len(s) - Len(t) + (k + 1) = Len(s) - Len(Tail(t)) + k
        BY <1>1, <2>1
    <3>2. t[k + 1] = s[Len(s) - Len(t) + (k + 1)]
        BY <3>1 DEF Rest
    <3>3. QED BY <2>1, <3>1, <3>2
  <2>4. Len(Tail(t)) <= Len(s)
      BY <1>1, <2>1
  <2>5. QED BY <2>1, <2>2, <2>3, <2>4 DEF Rest
<1>5. ASSUME t # <<>>
      PROVE  /\ Head(t).size \in Nat
             /\ Totals(Sizes(s))[p + 1] = Totals(Sizes(s))[p] + Head(t).size
             /\ Contents(Sizes(s))[p + 1] =
                    IF Head(t).size > 0 THEN Append(Contents(Sizes(s))[p], Head(t).size)
                    ELSE Contents(Sizes(s))[p]
  <2>1. Sizes(s) \in Seq(Nat) /\ Len(Sizes(s)) = Len(s)
      BY SizesAre
  <2>2. (p + 1) - 1 = p /\ p + 1 \in 1..Len(Sizes(s))
      BY <1>1, <1>4, <1>5, <2>1
  <2>3. Sizes(s)[p + 1] = Head(t).size
      BY <1>4, <1>5, SizesAre
  <2>4. Head(t).size \in Nat
      BY <2>1, <2>2, <2>3
  <2>5. Totals(Sizes(s))[p + 1] = Totals(Sizes(s))[p] + Head(t).size
      BY <2>1, <2>2, <2>3, TotalsAre
  <2>6. Contents(Sizes(s))[p + 1] =
            IF Head(t).size > 0 THEN Append(Contents(Sizes(s))[p], Head(t).size)
            ELSE Contents(Sizes(s))[p]
      BY <2>1, <2>2, <2>3, ContentsAre
  <2>7. QED BY <2>4, <2>5, <2>6
<1>6. QED BY <1>1, <1>2, <1>3, <1>4, <1>5

LEMMA ReadSoFar ==
    ASSUME UploadInv, NEW c \in Clients
    PROVE  /\ Passed(c) \in 0..Len(sent[c]) /\ Spent(c) \in Nat /\ Kept(c) \in Seq(Nat)
           /\ Total(Kept(c)) = Spent(c) /\ Spent(c) <= Total(Sent(c)) /\ Total(Sent(c)) \in Nat
           /\ Paste(c) \in Seq(Nat)
<1>1. sent[c] \in Seq(Parts) /\ todo[c] \in Seq(Parts) /\ Rest(todo[c], sent[c])
    BY DEF UploadInv, UploadTypes, UploadOK, PartsOK
<1>2. Passed(c) \in 0..Len(sent[c]) /\ Spent(c) \in Nat /\ Kept(c) \in Seq(Nat)
    BY <1>1, ReadPart DEF Passed, Spent, Kept, Sent
<1>3. Sent(c) \in Seq(Nat) /\ Passed(c) \in 0..Len(Sent(c))
    BY <1>1, <1>2, SizesAre DEF Sent
<1>4. Len(Sent(c)) \in 0..Len(Sent(c))
    BY <1>3
<1>5. Total(Sent(c)) \in Nat
    BY <1>3, <1>4, TotalsAre DEF Total
<1>6. Paste(c) \in Seq(Nat)
    BY DEF Paste
<1>7. QED BY <1>2, <1>3, <1>5, <1>6, TotalsGrow, ContentsTotal DEF Spent, Kept

LEMMA ReadNext ==
    ASSUME UploadInv, NEW c \in Clients, todo[c] # <<>>
    PROVE  /\ Passed(c) + 1 \in 1..Len(sent[c]) /\ Head(todo[c]) = sent[c][Passed(c) + 1]
           /\ Head(todo[c]) \in Parts /\ Head(todo[c]).size \in Nat
           /\ Totals(Sent(c))[Passed(c) + 1] = Spent(c) + Head(todo[c]).size
           /\ Contents(Sent(c))[Passed(c) + 1] =
                  IF Head(todo[c]).size > 0 THEN Append(Kept(c), Head(todo[c]).size) ELSE Kept(c)
           /\ Tail(todo[c]) \in Seq(Parts) /\ Rest(Tail(todo[c]), sent[c])
           /\ Passed(c) + 1 = Len(sent[c]) - Len(Tail(todo[c]))
<1>1. sent[c] \in Seq(Parts) /\ todo[c] \in Seq(Parts) /\ Rest(todo[c], sent[c])
    BY DEF UploadInv, UploadTypes, UploadOK, PartsOK
<1> DEFINE s == sent[c]
           t == todo[c]
<1>2. s \in Seq(Parts) /\ t \in Seq(Parts) /\ Rest(t, s) /\ t # <<>>
    BY <1>1
<1> HIDE DEF s, t
<1>3. /\ Tail(t) \in Seq(Parts) /\ Rest(Tail(t), s)
      /\ Len(s) - Len(t) + 1 = Len(s) - Len(Tail(t))
      /\ Len(s) - Len(t) + 1 \in 1..Len(s) /\ Head(t) = s[Len(s) - Len(t) + 1] /\ Head(t) \in Parts
      /\ Head(t).size \in Nat
      /\ Totals(Sizes(s))[Len(s) - Len(t) + 1] = Totals(Sizes(s))[Len(s) - Len(t)] + Head(t).size
      /\ Contents(Sizes(s))[Len(s) - Len(t) + 1] =
             IF Head(t).size > 0 THEN Append(Contents(Sizes(s))[Len(s) - Len(t)], Head(t).size)
             ELSE Contents(Sizes(s))[Len(s) - Len(t)]
    BY <1>2, ReadPart
<1>4. QED BY <1>3 DEF s, t, Passed, Spent, Kept, Sent

(* A client whose upload no step has touched, and which is not on its way   *)
(* to the store for the first time.                                         *)
Same(d) ==
    /\ at'[d] = at[d] /\ sent'[d] = sent[d] /\ todo'[d] = todo[d] /\ left'[d] = left[d]
    /\ disk'[d] = disk[d] /\ form'[d] = form[d] /\ inputs'[d] = inputs[d] /\ code'[d] = code[d]
    /\ stuck'[d] = stuck[d]
    /\ At(d, "create.put")' => At(d, "create.put")

LEMMA SameOK == ASSUME NEW d \in Clients, UploadOK(d), Same(d) PROVE UploadOK(d)'
<1>1. /\ Spent(d)' = Spent(d) /\ Kept(d)' = Kept(d) /\ Paste(d)' = Paste(d)
      /\ Sent(d)' = Sent(d) /\ Copied(d)' = Copied(d)
    BY DEF Same, Spent, Kept, Paste, Sent, Passed, Copied
<1>2. PartsOK(d)' /\ BudgetOK(d)' /\ CodeOK(d)'
    BY <1>1 DEF UploadOK, Same, PartsOK, BudgetOK, CodeOK
<1>3. FilesOK(d)' /\ MemoryOK(d)' /\ StuckOK(d)'
    BY <1>1 DEF UploadOK, Same, FilesOK, MemoryOK, StuckOK
<1>4. QED BY <1>2, <1>3 DEF UploadOK

StepOK(c) == UploadTypes' /\ UploadOK(c)' /\ \A d \in Clients \ {c} : Same(d)

(* The failing ones of some files are no more than all of them.             *)
LEMMA OnlyOfAre ==
    ASSUME NEW s \in Seq(Nat), NEW F \in SUBSET DOMAIN s
    PROVE  /\ Total(OnlyOf(s, F)) \in Nat /\ Total(OnlyOf(s, F)) <= Total(s)
           /\ F = {} => Total(OnlyOf(s, F)) = 0
<1> DEFINE n == Len(s)
           t == OnlyOf(s, F)
           T == {k \in 0..n : /\ Totals(t)[k] \in Nat /\ Totals(s)[k] \in Nat
                              /\ Totals(t)[k] <= Totals(s)[k]
                              /\ F = {} => Totals(t)[k] = 0}
<1>1. /\ n \in Nat /\ t \in Seq(Nat) /\ Len(t) = n
      /\ \A k \in 1..n : s[k] \in Nat /\ t[k] = IF k \in F THEN s[k] ELSE 0
    BY DEF OnlyOf
<1> HIDE DEF t
<1>2. 0 \in T
    BY <1>1, TotalsAre
<1>3. ASSUME NEW k \in 0..n, k \in T, k < n PROVE k + 1 \in T
  <2>1. k + 1 \in 1..n /\ (k + 1) - 1 = k
      BY <1>1, <1>3
  <2>2. Totals(t)[k + 1] = Totals(t)[k] + t[k + 1] /\ Totals(s)[k + 1] = Totals(s)[k] + s[k + 1]
      BY <1>1, <2>1, TotalsAre
  <2>3. /\ s[k + 1] \in Nat /\ t[k + 1] \in Nat /\ t[k + 1] <= s[k + 1]
        /\ F = {} => t[k + 1] = 0
    <3>1. s[k + 1] \in Nat /\ t[k + 1] = IF k + 1 \in F THEN s[k + 1] ELSE 0
        BY <1>1, <2>1
    <3>2. QED BY <3>1
  <2>4. k + 1 \in 0..n
      BY <2>1
  <2>5. /\ Totals(t)[k] \in Nat /\ Totals(s)[k] \in Nat
        /\ Totals(t)[k] <= Totals(s)[k]
        /\ F = {} => Totals(t)[k] = 0
      BY <1>3
  <2>6. /\ Totals(t)[k + 1] \in Nat /\ Totals(s)[k + 1] \in Nat
        /\ Totals(t)[k + 1] <= Totals(s)[k + 1]
        /\ F = {} => Totals(t)[k + 1] = 0
    <3> DEFINE a == Totals(t)[k]
               b == Totals(s)[k]
               x == t[k + 1]
               y == s[k + 1]
    <3>1. /\ a \in Nat /\ b \in Nat /\ a <= b /\ x \in Nat /\ y \in Nat /\ x <= y
          /\ Totals(t)[k + 1] = a + x /\ Totals(s)[k + 1] = b + y
        BY <2>2, <2>3, <2>5
    <3>2. F = {} => a = 0 /\ x = 0
        BY <2>3, <2>5
    <3> HIDE DEF a, b, x, y
    <3>3. a + x \in Nat /\ b + y \in Nat /\ a + x <= b + y
        BY <3>1
    <3>4. F = {} => a + x = 0
        BY <3>2
    <3>5. QED BY <3>1, <3>3, <3>4
  <2>7. QED BY <2>4, <2>6
<1>4. n \in T
  <2> HIDE DEF T
  <2>1. 0..n \subseteq T
      BY <1>1, <1>2, <1>3, UpTo
  <2>2. QED BY <1>1, <2>1
<1>5. QED BY <1>1, <1>4 DEF Total, t

(* The copy in a temporary file is one byte past what is left, at most.     *)
LEMMA CopiedFew ==
    ASSUME UploadInv, NEW c \in Clients, todo[c] # <<>>
    PROVE  /\ Copied(c) \in Nat /\ Copied(c) <= left[c] + 1 /\ left[c] \in Nat
           /\ TooLarge(c) => Head(todo[c]).size > left[c]
           /\ ~TooLarge(c) => Copied(c) = Head(todo[c]).size /\ Copied(c) <= left[c]
<1>1. left[c] \in Nat /\ Head(todo[c]).size \in Nat
    BY ReadNext DEF UploadInv, UploadTypes
<1>2. QED BY <1>1 DEF Copied, TooLarge

(* The files of a request take one byte past the limit at most.             *)
LEMMA DiskFits ==
    ASSUME UploadInv, NEW c \in Clients
    PROVE  Total(disk[c]) \in Nat /\ Total(disk[c]) <= Limit + 1
<1>1. UploadTypes /\ UploadOK(c)
    BY DEF UploadInv
<1>2. /\ Spent(c) \in Nat /\ Kept(c) \in Seq(Nat) /\ Total(Kept(c)) = Spent(c)
      /\ left[c] \in Nat /\ Limit \in Nat
    BY <1>1, ReadSoFar, CreationAssumption DEF UploadTypes
<1>3. CASE disk[c] = <<>>
  <2>1. <<>> \in Seq(Nat) /\ Len(<<>>) = 0
      OBVIOUS
  <2>2. Total(disk[c]) = 0
      BY <1>3, <2>1, TotalsAre DEF Total
  <2>3. QED BY <1>2, <2>2
<1>4. CASE at[c] \in {"none", "done"}
    BY <1>1, <1>3, <1>4 DEF UploadOK, FilesOK
<1>5. CASE at[c] \notin {"none", "done"}
  <2>1. left[c] + Spent(c) = Limit
      BY <1>1, <1>5 DEF UploadOK, BudgetOK
  <2>2. CASE at[c] \in {"copy", "copied"}
    <3>1. PICK few \in Nat : few <= left[c] + 1 /\ disk[c] = Append(Kept(c), few)
      <4>1. CASE at[c] = "copy"
        <5>1. disk[c] = Append(Kept(c), 0)
            BY <1>1, <4>1 DEF UploadOK, FilesOK
        <5>2. 0 \in Nat /\ 0 <= left[c] + 1
            BY <1>2
        <5>3. QED BY <5>1, <5>2
      <4>2. CASE at[c] = "copied"
          BY <1>1, <4>2, CopiedFew DEF UploadOK, FilesOK, PartsOK
      <4>3. QED BY <2>2, <4>1, <4>2
    <3>2. Total(disk[c]) = Spent(c) + few
        BY <1>2, <3>1, TotalAppend
    <3>3. QED BY <1>2, <2>1, <3>1, <3>2
  <2>3. CASE at[c] \notin {"copy", "copied"}
    <3>1. disk[c] = Kept(c)
        BY <1>1, <1>5, <2>3 DEF UploadOK, FilesOK
    <3>2. QED BY <1>2, <2>1, <3>1
  <2>4. QED BY <2>2, <2>3
<1>6. QED BY <1>4, <1>5
(* Every file is tried, and those that stay are counted.                    *)
LEMMA Swept ==
    ASSUME UploadInv, NEW c \in Clients, at[c] # "done", Sweep(c)
    PROVE  /\ disk' = [disk EXCEPT ![c] = <<>>]
           /\ stuck' \in Stuck
           /\ \A d \in Clients \ {c} : stuck'[d] = stuck[d]
           /\ stuck'[c].files = 0 => stuck'[c].bytes = 0
           /\ stuck'[c].bytes <= Limit + 1
<1>1. UploadTypes /\ StuckOK(c) /\ Limit \in Nat
    BY CreationAssumption DEF UploadInv, UploadOK
<1>2. /\ disk[c] \in Seq(Nat) /\ stuck \in [Clients -> [files : Nat, bytes : Nat]]
      /\ stuck[c].files \in Nat /\ stuck[c].bytes = 0
    BY <1>1 DEF UploadTypes, Stuck, StuckOK
<1>3. PICK failing \in SUBSET DOMAIN disk[c] :
          stuck' = [stuck EXCEPT ![c] =
                      [files |-> @.files + Cardinality(failing),
                       bytes |-> @.bytes + Total(OnlyOf(disk[c], failing))]]
    BY DEF Sweep
<1>4. IsFiniteSet(failing) /\ Cardinality(failing) \in Nat
  <2>1. DOMAIN disk[c] = 1..Len(disk[c]) /\ Len(disk[c]) \in Nat
      BY <1>2
  <2>2. IsFiniteSet(DOMAIN disk[c])
      BY <2>1, FS_Interval
  <2>3. QED BY <2>2, FS_Subset, FS_CardinalityType
<1>5. /\ Total(OnlyOf(disk[c], failing)) \in Nat
      /\ Total(OnlyOf(disk[c], failing)) <= Limit + 1
      /\ failing = {} => Total(OnlyOf(disk[c], failing)) = 0
    BY <1>1, <1>2, OnlyOfAre, DiskFits
<1>6. /\ stuck'[c].files = stuck[c].files + Cardinality(failing)
      /\ stuck'[c].bytes = Total(OnlyOf(disk[c], failing))
      /\ stuck' \in Stuck
      /\ \A d \in Clients \ {c} : stuck'[d] = stuck[d]
    BY <1>2, <1>3, <1>4, <1>5 DEF Stuck
<1>7. stuck'[c].files = 0 => failing = {}
    BY <1>2, <1>4, <1>6, FS_EmptySet
<1>8. QED BY <1>5, <1>6, <1>7 DEF Sweep

(* A request given up: its files are gone, its parts stay as they are.      *)
LEMMA GivesUp ==
    ASSUME UploadInv, NEW c \in Clients, NEW status \in Codes, GiveUp(c, status),
           at[c] # "done", UNCHANGED <<sent, todo, left, form, inputs>>,
           status = "413" =>
               \/ Total(Sent(c)) > Limit
               \/ \E k \in DOMAIN sent[c] : sent[c][k].kind = "huge"
    PROVE  StepOK(c)
<1>1. TypeInv /\ UploadTypes /\ UploadOK(c)
    BY DEF UploadInv
<1>2. /\ at' = [at EXCEPT ![c] = "done"] /\ disk' = [disk EXCEPT ![c] = <<>>]
      /\ code' = [code EXCEPT ![c] = status] /\ pc' = [pc EXCEPT ![c] = "idle"]
    BY DEF GiveUp, Refuse, Move, End, Goto, Sweep
<1>3. /\ stuck' \in Stuck
      /\ \A d \in Clients \ {c} : stuck'[d] = stuck[d]
      /\ stuck'[c].files = 0 => stuck'[c].bytes = 0
      /\ stuck'[c].bytes <= Limit + 1
    BY Swept DEF GiveUp
<1>4. UploadTypes'
    BY <1>1, <1>2, <1>3 DEF UploadTypes, Steps
<1>5. at'[c] = "done" /\ disk'[c] = <<>> /\ code'[c] = status /\ pc'[c] = "idle"
    BY <1>1, <1>2 DEF UploadTypes, TypeInv, TypeOK
<1>6. UploadOK(c)'
  <2>1. PartsOK(c)' /\ BudgetOK(c)' /\ FilesOK(c)' /\ MemoryOK(c)'
      BY <1>1, <1>5 DEF UploadOK, PartsOK, BudgetOK, FilesOK, MemoryOK, At
  <2>2. CodeOK(c)' /\ StuckOK(c)'
      BY <1>3, <1>5 DEF CodeOK, StuckOK, Sent
  <2>3. QED BY <2>1, <2>2 DEF UploadOK
<1>7. ASSUME NEW d \in Clients \ {c} PROVE Same(d)
    BY <1>1, <1>2, <1>3 DEF Same, At, UploadTypes, TypeInv, TypeOK
<1>8. QED BY <1>4, <1>6, <1>7 DEF StepOK

(* A request answered after its parts were read: the files stay for Clean.  *)
LEMMA Answers ==
    ASSUME UploadInv, NEW c \in Clients, NEW status \in Codes \ {"413"}, Answer(c, status),
           at[c] \in {"check", "read", "parse"},
           UNCHANGED <<sent, todo, left, disk, form, inputs, stuck>>
    PROVE  StepOK(c)
<1>1. TypeInv /\ UploadTypes /\ UploadOK(c)
    BY DEF UploadInv
<1>2. /\ at' = [at EXCEPT ![c] = "clean"]
      /\ code' = [code EXCEPT ![c] = status] /\ pc' = [pc EXCEPT ![c] = "idle"]
    BY DEF Answer, Refuse, Move, End, Goto
<1>3. UploadTypes'
    BY <1>1, <1>2 DEF UploadTypes, Steps
<1>4. at'[c] = "clean" /\ code'[c] = status /\ pc'[c] = "idle"
    BY <1>1, <1>2 DEF UploadTypes, TypeInv, TypeOK
<1>5. UploadOK(c)'
  <2>1. Spent(c)' = Spent(c) /\ Kept(c)' = Kept(c)
      BY DEF Spent, Kept, Sent, Passed
  <2>2. PartsOK(c)' /\ BudgetOK(c)' /\ FilesOK(c)' /\ MemoryOK(c)'
      BY <1>1, <1>4, <2>1 DEF UploadOK, PartsOK, BudgetOK, FilesOK, MemoryOK, At
  <2>3. CodeOK(c)' /\ StuckOK(c)'
      BY <1>1, <1>4 DEF CodeOK, UploadOK, StuckOK
  <2>4. QED BY <2>2, <2>3 DEF UploadOK
<1>6. ASSUME NEW d \in Clients \ {c} PROVE Same(d)
    BY <1>1, <1>2 DEF Same, At, UploadTypes, TypeInv, TypeOK
<1>7. QED BY <1>3, <1>5, <1>6 DEF StepOK

LEMMA OpenOK == ASSUME UploadInv, NEW c \in Clients, Open(c) PROVE StepOK(c)
<1>1. TypeInv /\ UploadTypes /\ UploadOK(c) /\ at[c] = "none" /\ pc[c] = "create.parse"
    BY DEF UploadInv, Open, Doing, At
<1>2. PICK request \in Requests :
          /\ sent' = [sent EXCEPT ![c] = request] /\ todo' = [todo EXCEPT ![c] = request]
    BY DEF Open
<1>3. request \in Seq(Parts)
    BY CreationAssumption
<1>4. /\ at' = [at EXCEPT ![c] = "next"]
      /\ UNCHANGED <<pc, left, disk, form, inputs, code, stuck>>
    BY DEF Open, Move, vars
<1>5. UploadTypes'
    BY <1>1, <1>2, <1>3, <1>4 DEF UploadTypes, Steps
<1>6. at'[c] = "next" /\ sent'[c] = request /\ todo'[c] = request
    BY <1>1, <1>2, <1>4 DEF UploadTypes
<1>7. Passed(c)' = 0 /\ Spent(c)' = 0 /\ Kept(c)' = <<>>
  <2>1. Passed(c)' = 0
      BY <1>3, <1>6 DEF Passed
  <2>2. Sent(c)' = Sizes(request) /\ Sizes(request) \in Seq(Nat)
      BY <1>3, <1>6, SizesAre DEF Sent
  <2>3. QED BY <2>1, <2>2, TotalsAre, ContentsAre DEF Spent, Kept
<1>8. UploadOK(c)'
  <2>1. Rest(request, request)
      BY <1>3 DEF Rest
  <2>2. PartsOK(c)'
      BY <1>6, <2>1 DEF PartsOK
  <2>3. BudgetOK(c)' /\ FilesOK(c)'
      BY <1>1, <1>4, <1>6, <1>7, CreationAssumption DEF UploadOK, BudgetOK, FilesOK
  <2>4. MemoryOK(c)' /\ CodeOK(c)' /\ StuckOK(c)'
      BY <1>1, <1>4, <1>6 DEF UploadOK, MemoryOK, CodeOK, StuckOK, At
  <2>5. QED BY <2>2, <2>3, <2>4 DEF UploadOK
<1>9. ASSUME NEW d \in Clients \ {c} PROVE Same(d)
    BY <1>1, <1>2, <1>4 DEF Same, At, UploadTypes
<1>10. QED BY <1>5, <1>8, <1>9 DEF StepOK

LEMMA NextPartOK == ASSUME UploadInv, NEW c \in Clients, NextPart(c) PROVE StepOK(c)
<1>1. TypeInv /\ UploadTypes /\ UploadOK(c) /\ at[c] = "next" /\ pc[c] # "create.put"
    BY DEF UploadInv, NextPart, Doing, UploadOK, MemoryOK, At
<1>2. /\ sent[c] \in Seq(Parts) /\ todo[c] \in Seq(Parts) /\ Rest(todo[c], sent[c])
      /\ UNCHANGED <<sent, left, inputs>>
    BY <1>1 DEF UploadTypes, UploadOK, PartsOK, NextPart
<1> DEFINE part == Head(todo[c])
<1>3. CASE GiveUp(c, "400") /\ UNCHANGED <<todo, form>>
    BY <1>1, <1>2, <1>3, GivesUp DEF Codes
<1>4. CASE todo[c] # <<>> /\ part.kind = "huge" /\ GiveUp(c, "413") /\ UNCHANGED <<todo, form>>
  <2>1. \E k \in DOMAIN sent[c] : sent[c][k].kind = "huge"
    <3>1. Passed(c) + 1 \in 1..Len(sent[c]) /\ part = sent[c][Passed(c) + 1]
        BY <1>4, ReadNext
    <3>2. QED BY <1>2, <1>4, <3>1
  <2>2. QED BY <1>1, <1>2, <1>4, <2>1, GivesUp DEF Codes
<1>5. CASE todo[c] = <<>> /\ Move(c, "check") /\ UNCHANGED <<vars, todo, form, disk, code, stuck>>
  <2>1. UploadTypes' /\ at'[c] = "check" /\ pc' = pc
      BY <1>1, <1>2, <1>5 DEF Move, UploadTypes, Steps, vars
  <2>2. Spent(c)' = Spent(c) /\ Kept(c)' = Kept(c)
      BY <1>2, <1>5 DEF Spent, Kept, Sent, Passed
  <2>3. UploadOK(c)'
      BY <1>1, <1>2, <1>5, <2>1, <2>2
         DEF UploadOK, PartsOK, BudgetOK, FilesOK, MemoryOK, CodeOK, StuckOK, Sent, At
  <2>4. ASSUME NEW d \in Clients \ {c} PROVE Same(d)
      BY <1>1, <1>2, <1>5, <2>1 DEF Same, At, Move, UploadTypes
  <2>5. QED BY <2>1, <2>3, <2>4 DEF StepOK
<1>6. CASE /\ todo[c] # <<>> /\ part.kind \in Fields \ {"huge"}
           /\ form' = [form EXCEPT ![c] = Read(@, part.kind)]
           /\ todo' = [todo EXCEPT ![c] = Tail(@)]
           /\ UNCHANGED <<vars, at, disk, code, stuck>>
  <2>1. part \in Parts /\ part.size = 0
    <3>1. part \in Parts
        BY <1>6, ReadNext
    <3>2. QED BY <1>6, <3>1 DEF Parts, Fields
  <2>2. /\ todo'[c] = Tail(todo[c]) /\ Tail(todo[c]) \in Seq(Parts) /\ Rest(Tail(todo[c]), sent[c])
        /\ Passed(c)' = Passed(c) + 1
      BY <1>1, <1>2, <1>6, ReadNext DEF UploadTypes, Passed
  <2>3. Spent(c)' = Spent(c) /\ Kept(c)' = Kept(c)
    <3>1. /\ Totals(Sent(c))[Passed(c) + 1] = Spent(c) /\ Contents(Sent(c))[Passed(c) + 1] = Kept(c)
      <4>1. /\ Totals(Sent(c))[Passed(c) + 1] = Spent(c) + part.size
            /\ Contents(Sent(c))[Passed(c) + 1] =
                   IF part.size > 0 THEN Append(Kept(c), part.size) ELSE Kept(c)
          BY <1>6, ReadNext
      <4>2. Spent(c) \in Nat
          BY ReadSoFar
      <4>3. QED BY <2>1, <4>1, <4>2
    <3>2. QED BY <1>2, <2>2, <3>1 DEF Spent, Kept, Sent
  <2>4. Read(form[c], part.kind) \in SUBSET Fields
      BY <1>1, <1>6 DEF Read, UploadTypes, Fields
  <2>5. UploadTypes' /\ pc' = pc
      BY <1>1, <1>2, <1>6, <2>2, <2>4 DEF UploadTypes, vars
  <2>6. UploadOK(c)'
      BY <1>1, <1>2, <1>6, <2>2, <2>3, <2>5
         DEF UploadOK, PartsOK, BudgetOK, FilesOK, MemoryOK, CodeOK, StuckOK, Sent, At
  <2>7. ASSUME NEW d \in Clients \ {c} PROVE Same(d)
      BY <1>1, <1>2, <1>6, <2>5 DEF Same, At, UploadTypes
  <2>8. QED BY <2>5, <2>6, <2>7 DEF StepOK
<1>7. CASE /\ todo[c] # <<>> /\ disk' = [disk EXCEPT ![c] = Append(@, 0)] /\ Move(c, "copy")
           /\ UNCHANGED <<vars, todo, form, code, stuck>>
  <2>1. Spent(c)' = Spent(c) /\ Kept(c)' = Kept(c) /\ disk[c] = Kept(c)
      BY <1>1, <1>2, <1>7 DEF Spent, Kept, Sent, Passed, UploadOK, FilesOK
  <2>2. disk[c] \in Seq(Nat) /\ Append(disk[c], 0) \in Seq(Nat)
      BY <1>1 DEF UploadTypes
  <2>3. UploadTypes' /\ at'[c] = "copy" /\ disk'[c] = Append(Kept(c), 0) /\ pc' = pc
      BY <1>1, <1>2, <1>7, <2>1, <2>2 DEF Move, UploadTypes, Steps, vars
  <2>4. UploadOK(c)'
      BY <1>1, <1>2, <1>7, <2>1, <2>3
         DEF UploadOK, PartsOK, BudgetOK, FilesOK, MemoryOK, CodeOK, StuckOK, Sent, At
  <2>5. ASSUME NEW d \in Clients \ {c} PROVE Same(d)
      BY <1>1, <1>2, <1>7, <2>3 DEF Same, At, Move, UploadTypes
  <2>6. QED BY <2>3, <2>4, <2>5 DEF StepOK
<1>8. QED
    BY <1>3, <1>4, <1>5, <1>6, <1>7 DEF NextPart

LEMMA LastReplaced ==
    ASSUME NEW s \in Seq(Nat), NEW a \in Nat, NEW b \in Nat
    PROVE  [Append(s, a) EXCEPT ![Len(Append(s, a))] = b] = Append(s, b)
<1> DEFINE t == Append(s, a)
           u == Append(s, b)
           n == Len(s) + 1
<1>1. /\ t \in Seq(Nat) /\ u \in Seq(Nat) /\ Len(t) = n /\ Len(u) = n /\ n \in 1..n
      /\ u[n] = b /\ \A k \in 1..n : k # n => u[k] = t[k]
    OBVIOUS
<1> HIDE DEF t, u, n
<1>2. /\ [t EXCEPT ![n] = b] \in Seq(Nat) /\ Len([t EXCEPT ![n] = b]) = n
      /\ \A k \in 1..n : [t EXCEPT ![n] = b][k] = IF k = n THEN b ELSE t[k]
    BY <1>1, ExceptSeq
<1>3. [t EXCEPT ![n] = b] = u
    BY <1>1, <1>2, SeqEqual
<1>4. QED BY <1>1, <1>3 DEF t, u

LEMMA CopyOK == ASSUME UploadInv, NEW c \in Clients, Copy(c) PROVE StepOK(c)
<1>1. /\ TypeInv /\ UploadTypes /\ UploadOK(c) /\ at[c] = "copy" /\ pc[c] # "create.put"
      /\ todo[c] # <<>>
    BY DEF UploadInv, Copy, Doing, UploadOK, MemoryOK, PartsOK, At
<1>2. UNCHANGED <<sent, todo, left, form, inputs>>
    BY DEF Copy
<1>3. CASE GiveUp(c, "400")
    BY <1>1, <1>2, <1>3, GivesUp DEF Codes
<1>4. CASE /\ disk' = [disk EXCEPT ![c][Len(disk[c])] = Copied(c)]
           /\ Move(c, "copied")
           /\ UNCHANGED <<vars, code, stuck>>
  <2>1. Kept(c) \in Seq(Nat) /\ disk[c] = Append(Kept(c), 0) /\ Copied(c) \in Nat
      BY <1>1, ReadSoFar, CopiedFew DEF UploadOK, FilesOK
  <2>2. [disk[c] EXCEPT ![Len(disk[c])] = Copied(c)] = Append(Kept(c), Copied(c))
      BY <2>1, LastReplaced
  <2>3. Append(Kept(c), Copied(c)) \in Seq(Nat)
      BY <2>1
  <2>4. disk' = [disk EXCEPT ![c] = Append(Kept(c), Copied(c))]
      BY <1>1, <1>4, <2>2 DEF UploadTypes
  <2>5. UploadTypes' /\ at'[c] = "copied" /\ disk'[c] = Append(Kept(c), Copied(c)) /\ pc' = pc
      BY <1>1, <1>2, <1>4, <2>3, <2>4 DEF Move, UploadTypes, Steps, vars
  <2>6. Spent(c)' = Spent(c) /\ Kept(c)' = Kept(c) /\ Copied(c)' = Copied(c)
      BY <1>2 DEF Spent, Kept, Sent, Passed, Copied
  <2>7. UploadOK(c)'
      BY <1>1, <1>2, <1>4, <2>5, <2>6
         DEF UploadOK, PartsOK, BudgetOK, FilesOK, MemoryOK, CodeOK, StuckOK, Sent, At
  <2>8. ASSUME NEW d \in Clients \ {c} PROVE Same(d)
      BY <1>1, <1>2, <1>4, <2>4, <2>5 DEF Same, At, Move, UploadTypes
  <2>9. QED BY <2>5, <2>7, <2>8 DEF StepOK
<1>5. QED BY <1>3, <1>4 DEF Copy

LEMMA WeighOK == ASSUME UploadInv, NEW c \in Clients, Weigh(c) PROVE StepOK(c)
<1>1. /\ TypeInv /\ UploadTypes /\ UploadOK(c) /\ at[c] = "copied" /\ pc[c] # "create.put"
      /\ todo[c] # <<>>
    BY DEF UploadInv, Weigh, Doing, UploadOK, MemoryOK, PartsOK, At
<1>2. UNCHANGED <<sent, form, inputs>>
    BY DEF Weigh
<1> DEFINE size == Head(todo[c]).size
<1>3. /\ left[c] + Spent(c) = Limit /\ disk[c] = Append(Kept(c), Copied(c))
      /\ Spent(c) \in Nat /\ Kept(c) \in Seq(Nat) /\ size \in Nat /\ left[c] \in Nat
    BY <1>1, ReadSoFar, ReadNext, CopiedFew DEF UploadOK, BudgetOK, FilesOK
<1>4. CASE TooLarge(c) /\ GiveUp(c, "413") /\ UNCHANGED <<todo, left>>
  <2>1. size > left[c] /\ Totals(Sent(c))[Passed(c) + 1] = Spent(c) + size
      BY <1>1, <1>4, CopiedFew, ReadNext
  <2>2. Totals(Sent(c))[Passed(c) + 1] <= Total(Sent(c)) /\ Total(Sent(c)) \in Nat
    <3>1. sent[c] \in Seq(Parts) /\ Passed(c) + 1 \in 1..Len(sent[c])
        BY <1>1, ReadNext DEF UploadTypes
    <3>2. Sent(c) \in Seq(Nat) /\ Len(Sent(c)) = Len(sent[c])
        BY <3>1, SizesAre DEF Sent
    <3>3. Passed(c) + 1 \in 0..Len(Sent(c))
        BY <3>1, <3>2
    <3>4. QED BY <3>2, <3>3, TotalsGrow, ReadSoFar
  <2>3. Total(Sent(c)) > Limit
      BY <1>3, <2>1, <2>2
  <2>4. QED BY <1>1, <1>2, <1>4, <2>3, GivesUp DEF Codes
<1>5. CASE /\ ~TooLarge(c) /\ Move(c, "next")
           /\ disk' = [disk EXCEPT ![c] = IF Copied(c) = 0 THEN Front(@) ELSE @]
           /\ \E n \in IF Copied(c) = 0 THEN 0..1 ELSE {0} :
                 stuck' = [stuck EXCEPT ![c].files = @ + n]
           /\ left' = [left EXCEPT ![c] = Remaining(c)]
           /\ todo' = [todo EXCEPT ![c] = Tail(@)]
           /\ UNCHANGED <<vars, code>>
  <2>1. Copied(c) = size /\ size <= left[c]
      BY <1>1, <1>5, CopiedFew
  <2>2. /\ todo'[c] = Tail(todo[c]) /\ Tail(todo[c]) \in Seq(Parts) /\ Rest(Tail(todo[c]), sent[c])
        /\ Passed(c)' = Passed(c) + 1
      BY <1>1, <1>2, <1>5, ReadNext DEF UploadTypes, Passed
  <2>3. Spent(c)' = Spent(c) + size /\ Kept(c)' = IF size > 0 THEN Append(Kept(c), size) ELSE Kept(c)
    <3>1. /\ Totals(Sent(c))[Passed(c) + 1] = Spent(c) + size
          /\ Contents(Sent(c))[Passed(c) + 1] = IF size > 0 THEN Append(Kept(c), size) ELSE Kept(c)
        BY <1>1, ReadNext
    <3>2. QED BY <1>2, <2>2, <3>1 DEF Spent, Kept, Sent
  <2>4. left'[c] = left[c] - size /\ left'[c] \in Nat /\ left'[c] + Spent(c)' = Limit
    <3>1. left'[c] = left[c] - size
        BY <1>1, <1>5, <2>1 DEF Remaining, UploadTypes
    <3>2. QED BY <1>3, <2>1, <2>3, <3>1
  <2>5. disk'[c] = Kept(c)'
    <3>1. disk'[c] = IF Copied(c) = 0 THEN Front(disk[c]) ELSE disk[c]
        BY <1>1, <1>5 DEF UploadTypes
    <3>2. Front(Append(Kept(c), size)) = Kept(c)
        BY <1>3 DEF Front
    <3>3. QED BY <1>3, <2>1, <2>3, <3>1, <3>2
  <2>6. disk'[c] \in Seq(Nat)
      BY <1>3, <2>3, <2>5
  <2>7. /\ stuck' \in Stuck /\ stuck'[c].bytes = 0
        /\ \A d \in Clients \ {c} : stuck'[d] = stuck[d]
    <3>1. PICK n \in Nat : stuck' = [stuck EXCEPT ![c].files = @ + n]
      <4>1. (IF Copied(c) = 0 THEN 0..1 ELSE {0}) \subseteq Nat
          OBVIOUS
      <4>2. QED BY <1>5, <4>1
    <3>2. stuck \in [Clients -> [files : Nat, bytes : Nat]] /\ stuck[c].bytes = 0
        BY <1>1 DEF UploadTypes, Stuck, UploadOK, StuckOK
    <3>3. QED BY <3>1, <3>2 DEF Stuck
  <2>8. UploadTypes' /\ at'[c] = "next" /\ pc' = pc
    <3>1. disk' = [disk EXCEPT ![c] = disk'[c]] /\ left' = [left EXCEPT ![c] = left'[c]]
          /\ todo' = [todo EXCEPT ![c] = Tail(todo[c])]
        BY <1>1, <1>5 DEF UploadTypes
    <3>2. QED
        BY <1>1, <1>2, <1>5, <2>2, <2>4, <2>6, <2>7, <3>1 DEF Move, UploadTypes, Steps, vars
  <2>9. UploadOK(c)'
    <3>1. PartsOK(c)' /\ BudgetOK(c)' /\ FilesOK(c)' /\ MemoryOK(c)' /\ CodeOK(c)'
        BY <1>1, <1>2, <1>5, <2>2, <2>4, <2>5, <2>8
           DEF UploadOK, PartsOK, BudgetOK, FilesOK, MemoryOK, CodeOK, Sent, At
    <3>2. StuckOK(c)'
        BY <2>7, CreationAssumption DEF StuckOK
    <3>3. QED BY <3>1, <3>2 DEF UploadOK
  <2>10. ASSUME NEW d \in Clients \ {c} PROVE Same(d)
      BY <1>1, <1>2, <1>5, <2>7, <2>8 DEF Same, At, Move, UploadTypes
  <2>11. QED BY <2>8, <2>9, <2>10 DEF StepOK
<1>6. QED BY <1>4, <1>5 DEF Weigh

LEMMA CheckOK == ASSUME UploadInv, NEW c \in Clients, Check(c) PROVE StepOK(c)
<1>1. TypeInv /\ UploadTypes /\ UploadOK(c) /\ at[c] = "check" /\ pc[c] # "create.put"
    BY DEF UploadInv, Check, Doing, UploadOK, MemoryOK, At
<1>2. UNCHANGED <<sent, todo, left, disk, form, inputs, stuck>>
    BY DEF Check
<1>3. CASE Answer(c, "400")
    BY <1>1, <1>2, <1>3, Answers DEF Codes
<1>4. CASE Move(c, "read") /\ UNCHANGED <<vars, code>>
  <2>1. UploadTypes' /\ at'[c] = "read" /\ pc' = pc
      BY <1>1, <1>2, <1>4 DEF Move, UploadTypes, Steps, vars
  <2>2. Spent(c)' = Spent(c) /\ Kept(c)' = Kept(c)
      BY <1>2 DEF Spent, Kept, Sent, Passed
  <2>3. UploadOK(c)'
      BY <1>1, <1>2, <1>4, <2>1, <2>2
         DEF UploadOK, PartsOK, BudgetOK, FilesOK, MemoryOK, CodeOK, StuckOK, Sent, At
  <2>4. ASSUME NEW d \in Clients \ {c} PROVE Same(d)
      BY <1>1, <1>2, <1>4, <2>1 DEF Same, At, Move, UploadTypes
  <2>5. QED BY <2>1, <2>3, <2>4 DEF StepOK
<1>5. QED BY <1>3, <1>4 DEF Check

LEMMA ReadBackOK == ASSUME UploadInv, NEW c \in Clients, ReadBack(c) PROVE StepOK(c)
<1>1. TypeInv /\ UploadTypes /\ UploadOK(c) /\ at[c] = "read" /\ pc[c] # "create.put"
    BY DEF UploadInv, ReadBack, Doing, UploadOK, MemoryOK, At
<1>2. UNCHANGED <<sent, todo, left, disk, form, stuck>> /\ disk[c] = Kept(c)
    BY <1>1 DEF ReadBack, UploadOK, FilesOK
<1>3. CASE Answer(c, "500") /\ UNCHANGED inputs
    BY <1>1, <1>2, <1>3, Answers DEF Codes
<1>4. CASE Answer(c, "400") /\ UNCHANGED inputs
    BY <1>1, <1>2, <1>4, Answers DEF Codes
<1>5. CASE /\ Move(c, "parse") /\ inputs' = [inputs EXCEPT ![c] = Kept(c) \o Paste(c)]
           /\ UNCHANGED <<vars, code>>
  <2>1. Kept(c) \o Paste(c) \in Seq(Nat)
      BY ReadSoFar
  <2>2. UploadTypes' /\ at'[c] = "parse" /\ inputs'[c] = Kept(c) \o Paste(c) /\ pc' = pc
      BY <1>1, <1>2, <1>5, <2>1 DEF Move, UploadTypes, Steps, vars
  <2>3. Spent(c)' = Spent(c) /\ Kept(c)' = Kept(c) /\ Paste(c)' = Paste(c)
      BY <1>2 DEF Spent, Kept, Sent, Passed, Paste
  <2>4. UploadOK(c)'
      BY <1>1, <1>2, <1>5, <2>2, <2>3
         DEF UploadOK, PartsOK, BudgetOK, FilesOK, MemoryOK, CodeOK, StuckOK, Sent, At
  <2>5. ASSUME NEW d \in Clients \ {c} PROVE Same(d)
      BY <1>1, <1>2, <1>5, <2>2 DEF Same, At, Move, UploadTypes
  <2>6. QED BY <2>2, <2>4, <2>5 DEF StepOK
<1>6. QED BY <1>2, <1>3, <1>4, <1>5 DEF ReadBack, Paste

LEMMA ParseOK == ASSUME UploadInv, NEW c \in Clients, Parse(c) PROVE StepOK(c)
<1>1. TypeInv /\ UploadTypes /\ UploadOK(c) /\ at[c] = "parse"
    BY DEF UploadInv, Parse, Doing
<1>2. UNCHANGED <<sent, todo, left, disk, form, inputs, stuck>>
    BY DEF Parse
<1>3. CASE Answer(c, "422")
    BY <1>1, <1>2, <1>3, Answers DEF Codes
<1>4. CASE CreateParse(c) /\ Move(c, "clean") /\ UNCHANGED code
  <2>1. \A d \in Clients \ {c} : pc'[d] = pc[d]
      BY <1>1, <1>4 DEF CreateParse, End, Goto, TypeInv, TypeOK
  <2>2. UploadTypes' /\ at'[c] = "clean"
      BY <1>1, <1>2, <1>4 DEF Move, UploadTypes, Steps
  <2>3. Spent(c)' = Spent(c) /\ Kept(c)' = Kept(c) /\ Paste(c)' = Paste(c)
      BY <1>2 DEF Spent, Kept, Sent, Passed, Paste
  <2>4. UploadOK(c)'
      BY <1>1, <1>2, <1>4, <2>2, <2>3
         DEF UploadOK, PartsOK, BudgetOK, FilesOK, MemoryOK, CodeOK, StuckOK, Sent, At
  <2>5. ASSUME NEW d \in Clients \ {c} PROVE Same(d)
      BY <1>1, <1>2, <1>4, <2>1 DEF Same, At, Move, UploadTypes
  <2>6. QED BY <2>2, <2>4, <2>5 DEF StepOK
<1>5. QED BY <1>3, <1>4 DEF Parse

LEMMA CleanOK == ASSUME UploadInv, NEW c \in Clients, Clean(c) PROVE StepOK(c)
<1>1. TypeInv /\ UploadTypes /\ UploadOK(c) /\ at[c] = "clean" /\ pc[c] = "idle"
    BY DEF UploadInv, Clean, Doing, At
<1>2. /\ at' = [at EXCEPT ![c] = "done"] /\ disk' = [disk EXCEPT ![c] = <<>>]
      /\ pc' = pc /\ UNCHANGED <<sent, todo, left, form, inputs, code>>
    BY DEF Clean, Move, Sweep, vars
<1>3. /\ stuck' \in Stuck
      /\ \A d \in Clients \ {c} : stuck'[d] = stuck[d]
      /\ stuck'[c].files = 0 => stuck'[c].bytes = 0
      /\ stuck'[c].bytes <= Limit + 1
    BY <1>1, Swept DEF Clean
<1>4. UploadTypes'
    BY <1>1, <1>2, <1>3 DEF UploadTypes, Steps
<1>5. at'[c] = "done" /\ disk'[c] = <<>>
    BY <1>1, <1>2 DEF UploadTypes
<1>6. UploadOK(c)'
  <2>1. PartsOK(c)' /\ BudgetOK(c)' /\ FilesOK(c)' /\ MemoryOK(c)'
      BY <1>1, <1>2, <1>5 DEF UploadOK, PartsOK, BudgetOK, FilesOK, MemoryOK, At
  <2>2. CodeOK(c)' /\ StuckOK(c)'
      BY <1>1, <1>2, <1>3, <1>5 DEF UploadOK, CodeOK, StuckOK, Sent
  <2>3. QED BY <2>1, <2>2 DEF UploadOK
<1>7. ASSUME NEW d \in Clients \ {c} PROVE Same(d)
    BY <1>1, <1>2, <1>3 DEF Same, At, UploadTypes
<1>8. QED BY <1>4, <1>6, <1>7 DEF StepOK

LEMMA LeaveOK == ASSUME UploadInv, NEW c \in Clients, Leave(c) PROVE StepOK(c)
<1>1. /\ TypeInv /\ UploadTypes /\ UploadOK(c) /\ at[c] = "done" /\ pc[c] # "create.put"
      /\ disk[c] = <<>>
    BY DEF UploadInv, Leave, Doing, UploadOK, FilesOK, MemoryOK, At
<1>2. UploadTypes' /\ pc' = pc
  <2>1. stuck' \in Stuck
      BY <1>1 DEF Leave, UploadTypes, NoFiles, Stuck
  <2>2. QED
      BY <1>1, <2>1, CreationAssumption DEF Leave, Move, UploadTypes, Steps, Codes, vars
<1>3. /\ at'[c] = "none" /\ sent'[c] = <<>> /\ todo'[c] = <<>> /\ left'[c] = Limit
      /\ disk'[c] = <<>> /\ code'[c] = "none" /\ stuck'[c] = NoFiles
    BY <1>1 DEF Leave, Move, UploadTypes, Stuck
<1>4. UploadOK(c)'
    BY <1>1, <1>2, <1>3, CreationAssumption
       DEF UploadOK, PartsOK, Rest, BudgetOK, FilesOK, MemoryOK, CodeOK, StuckOK, NoFiles, At
<1>5. ASSUME NEW d \in Clients \ {c} PROVE Same(d)
    BY <1>1, <1>2 DEF Leave, Same, At, Move, UploadTypes
<1>6. QED BY <1>2, <1>4, <1>5 DEF StepOK

LEMMA UploadStep == ASSUME UploadInv, NEW c \in Clients, Upload(c) PROVE StepOK(c)
BY OpenOK, NextPartOK, CopyOK, WeighOK, CheckOK, ReadBackOK, ParseOK, CleanOK, LeaveOK DEF Upload

(* No step of the other handlers puts a request on its way to the store.    *)
LEMMA OthersSame ==
    ASSUME TypeInv, NEW c \in Clients, Others(c), NEW d \in Clients
    PROVE  Same(d)
<1>1. UNCHANGED upload
    BY DEF Others
<1>2. At(d, "create.put")' => At(d, "create.put")
  <2>1. CASE UNCHANGED pc
      BY <2>1 DEF At
  <2>2. ASSUME NEW label \in Labels \ {"create.put"}, Goto(c, label)
        PROVE  At(d, "create.put")' => At(d, "create.put")
      BY <2>2 DEF Goto, At, TypeInv, TypeOK
  <2>3. CASE Ask(c)
      BY <2>1, <2>2, <2>3 DEF Ask, CreateCall, MapCall, ConvCall, View, Delete, Labels
  <2>4. CASE CreateCount(c) \/ CreatePut(c)
      BY <2>2, <2>4 DEF CreateCount, CreatePut, PutFails, End, Labels
  <2>5. CASE MapGet(c) \/ MapPut(c)
      BY <2>2, <2>5 DEF MapGet, MapPut, Load, PutFails, End, Labels
  <2>6. CASE ConvGet(c) \/ ConvCaps(c) \/ ConvBuild(c) \/ ConvPut(c)
      BY <2>2, <2>6 DEF ConvGet, ConvCaps, ConvBuild, ConvPut, Load, PutFails, End, Labels
  <2>7. QED BY <2>3, <2>4, <2>5, <2>6 DEF Others
<1>3. QED BY <1>1, <1>2 DEF Same, upload

LEMMA UploadInit == CInit => UploadInv
<1>1. SUFFICES ASSUME CInit PROVE UploadInv
    OBVIOUS
<1>2. TypeInv /\ \A c \in Clients : pc[c] = "idle"
    BY <1>1, TypeInit DEF CInit, Init
<1>3. UploadTypes
    BY <1>1, CreationAssumption
       DEF CInit, UploadTypes, Nothing, NoneStuck, NoFiles, Stuck, Steps, Codes
<1>4. ASSUME NEW c \in Clients PROVE UploadOK(c)
    BY <1>1, <1>2, CreationAssumption
       DEF CInit, Nothing, NoneStuck, NoFiles, UploadOK, PartsOK, Rest, BudgetOK, FilesOK, MemoryOK, CodeOK, StuckOK, At
<1>5. QED BY <1>2, <1>3, <1>4 DEF UploadInv

LEMMA UploadNext == UploadInv /\ [CNext]_cvars => UploadInv'
<1>1. SUFFICES ASSUME UploadInv, [CNext]_cvars PROVE UploadInv'
    OBVIOUS
<1>2. TypeInv /\ TypeInv' /\ UploadTypes
    BY <1>1, CStepIsNext, TypeNext DEF UploadInv
<1>3. ASSUME UNCHANGED upload, \A d \in Clients : Same(d) PROVE UploadInv'
  <2>1. UploadTypes'
      BY <1>2, <1>3 DEF UploadTypes, upload
  <2>2. QED BY <1>1, <1>2, <1>3, <2>1, SameOK DEF UploadInv
<1>4. ASSUME NEW c \in Clients, Upload(c) PROVE UploadInv'
  <2>1. StepOK(c)
      BY <1>1, <1>4, UploadStep
  <2>2. ASSUME NEW d \in Clients \ {c} PROVE UploadOK(d)'
      BY <1>1, <2>1, SameOK DEF StepOK, UploadInv
  <2>3. QED BY <1>2, <2>1, <2>2 DEF StepOK, UploadInv
<1>5. ASSUME NEW c \in Clients, Others(c) PROVE UploadInv'
  <2>1. UNCHANGED upload /\ \A d \in Clients : Same(d)
      BY <1>2, <1>5, OthersSame DEF Others
  <2>2. QED BY <1>3, <2>1
<1>6. CASE License /\ UNCHANGED upload
    BY <1>3, <1>6 DEF License, Same, upload, At
<1>7. CASE Die
  <2>1. UploadTypes'
      BY <1>7, CreationAssumption
         DEF Die, UploadTypes, Nothing, NoneStuck, NoFiles, Stuck, Steps, Codes
  <2>2. ASSUME NEW c \in Clients PROVE UploadOK(c)'
      BY <1>7, CreationAssumption
         DEF Die, Restart, Nothing, NoneStuck, NoFiles,
                  UploadOK, PartsOK, Rest, BudgetOK, FilesOK, MemoryOK, CodeOK, StuckOK, At
  <2>3. QED BY <1>2, <2>1, <2>2 DEF UploadInv
<1>8. CASE UNCHANGED cvars
    BY <1>3, <1>8 DEF cvars, vars, Same, upload, At
<1>9. QED BY <1>1, <1>4, <1>5, <1>6, <1>7, <1>8 DEF CNext

LEMMA UploadCorrect == CSpec => []UploadInv
BY UploadInit, UploadNext, PTL DEF CSpec

(* A job is made of the whole of its request, in its order, however many    *)
(* and however large its parts are (upload.go:58-128, 145-188).             *)
THEOREM JobsMadeWhole == CSpec => []WholeInputs
<1>1. UploadInv => WholeInputs
  <2>1. SUFFICES ASSUME UploadInv, NEW c \in Clients, At(c, "create.put")
                 PROVE  inputs[c] = Content(sent[c]) \o Paste(c)
      BY DEF WholeInputs, Paste
  <2>2. inputs[c] = Kept(c) \o Paste(c) /\ todo[c] = <<>> /\ sent[c] \in Seq(Parts)
      BY <2>1 DEF UploadInv, UploadTypes, UploadOK, MemoryOK, PartsOK
  <2>3. Kept(c) = Content(sent[c])
      BY <2>2 DEF Kept, Sent, Passed, Content
  <2>4. QED BY <2>2, <2>3
<1>2. QED BY <1>1, UploadCorrect, PTL

(* The limit is met to the byte, for every limit and every request: a 413   *)
(* only past it, no job past it, one byte past it in the files at most      *)
(* (upload.go:69-72, 131-143).                                              *)
THEOREM LimitMetExactly == CSpec => []LimitExact
<1>1. UploadInv => LimitExact
  <2>1. SUFFICES ASSUME UploadInv, NEW c \in Clients
                 PROVE  /\ code[c] = "413" =>
                              \/ Total(Sizes(sent[c])) > Limit
                              \/ \E k \in DOMAIN sent[c] : sent[c][k].kind = "huge"
                        /\ Doing(c, "parse") => Total(Sizes(sent[c])) <= Limit
                        /\ Total(disk[c]) + stuck[c].bytes <= Limit + 1
      BY DEF LimitExact
  <2>2. UploadTypes /\ UploadOK(c)
      BY <2>1 DEF UploadInv
  <2>3. /\ Spent(c) \in Nat /\ Kept(c) \in Seq(Nat) /\ Total(Kept(c)) = Spent(c)
        /\ left[c] \in Nat /\ Limit \in Nat
      BY <2>1, <2>2, ReadSoFar, CreationAssumption DEF UploadTypes
  <2>4. ASSUME Doing(c, "parse") PROVE Total(Sizes(sent[c])) <= Limit
    <3>1. todo[c] = <<>> /\ left[c] + Spent(c) = Limit /\ sent[c] \in Seq(Parts)
        BY <2>2, <2>4 DEF UploadOK, UploadTypes, PartsOK, BudgetOK, Doing
    <3>2. Len(Sizes(sent[c])) = Len(sent[c]) /\ Passed(c) = Len(sent[c])
        BY <3>1, SizesAre DEF Passed
    <3>3. Spent(c) = Total(Sizes(sent[c]))
        BY <3>2 DEF Spent, Sent, Total
    <3>4. QED BY <2>3, <3>1, <3>3
  <2>5. Total(disk[c]) + stuck[c].bytes <= Limit + 1
    <3>1. CASE at[c] = "done"
      <4>1. disk[c] = <<>> /\ stuck[c].bytes \in Nat /\ stuck[c].bytes <= Limit + 1
          BY <2>2, <3>1 DEF UploadOK, FilesOK, StuckOK, UploadTypes, Stuck
      <4>2. Total(disk[c]) = 0
        <5>1. <<>> \in Seq(Nat) /\ Len(<<>>) = 0
            OBVIOUS
        <5>2. QED BY <4>1, <5>1, TotalsAre DEF Total
      <4>3. QED BY <4>1, <4>2
    <3>2. CASE at[c] # "done"
        BY <2>1, <2>2, <3>2, DiskFits DEF UploadOK, StuckOK
    <3>3. QED BY <3>1, <3>2
  <2>6. QED BY <2>2, <2>4, <2>5 DEF UploadOK, CodeOK, Sent
<1>2. QED BY <1>1, UploadCorrect, PTL

(* No path of a handler forgets a temporary file, whatever the requests     *)
(* hold, wherever they break off and whichever removals fail: what is left  *)
(* of a request is what os.Remove failed on (upload.go:72, 112, 152-170).   *)
THEOREM UploadsRemoved == CSpec => []FilesRemoved
<1>1. UploadInv => FilesRemoved
    BY DEF UploadInv, UploadOK, FilesOK, StuckOK, FilesRemoved, Doing
<1>2. QED BY <1>1, UploadCorrect, PTL
=============================================================================
