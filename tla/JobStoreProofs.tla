--------------------------- MODULE JobStoreProofs ---------------------------
(* Theorems about JobStore, for every number of goroutines, jobs, calls and *)
(* crashes.                                                                 *)
EXTENDS JobStoreRefinement, TLAPS

(* A goroutine between two steps of a call has that call in req. *)
Executes(t, labels, kinds) ==
    pc[t] \in labels => req[t] \in Calls /\ req[t].kind \in kinds

ReqOK ==
    \A t \in Threads :
        /\ Executes(t, PutLabels \union {"put.lock"}, {"put"})
        /\ Executes(t, {"get.row", "get.file"}, {"get"})
        /\ Executes(t, {"list.query"}, {"list", "count"})
        /\ Executes(t, {"del.select", "del.row", "del.file"}, {"delete"})

(* Only the holder of the mutex is inside Put. *)
LockInv == \A t \in Threads : pc[t] \in PutLabels => mu = t

(* What Put renames is the whole payload. *)
TmpReady == \A t \in Threads : pc[t] = "put.rename" => tmp[req[t].id] = req[t].v

WholeInv == StoreTyped /\ ReqOK /\ LockInv /\ TmpReady /\ WholeFiles

-----------------------------------------------------------------------------
(* Ending a call with an answer of the right form is well typed. *)
LEMMA FinishTyped ==
    ASSUME NEW t \in Threads, StoreTyped,
           NEW ret \in {"ok", "fault", "notfound", "gone"},
           NEW got \in Versions \union {Absent}, NEW ids \in SUBSET Ids,
           Finish(t, ret, got, ids)
    PROVE  /\ pc' = [pc EXCEPT ![t] = "done"]
           /\ pc' \in [Threads -> Labels]
           /\ out' \in [Threads -> Answers \union {NoAnswer}]
BY DEF Finish, Goto, StoreTyped, Answers, Labels

(* A call that starts is a call, and nobody else's changes. *)
LEMMA InvokeTyped ==
    ASSUME NEW t \in Threads, StoreTyped, ReqOK,
           NEW kind \in {"put", "get", "list", "count", "delete"},
           NEW id \in Ids, NEW v \in Versions, NEW label \in Labels \ PutLabels,
           Invoke(t, kind, id, v, label),
           \/ kind = "put" /\ label = "put.lock"
           \/ kind = "get" /\ label = "get.row"
           \/ kind \in {"list", "count"} /\ label = "list.query"
           \/ kind = "delete" /\ label = "del.select"
    PROVE  /\ pc' = [pc EXCEPT ![t] = label] /\ pc' \in [Threads -> Labels]
           /\ req' = [req EXCEPT ![t] = [kind |-> kind, id |-> id, v |-> v]]
           /\ req' \in [Threads -> Calls \union {NoCall}]
           /\ ReqOK'
<1>1. [kind |-> kind, id |-> id, v |-> v] \in Calls
    BY DEF Calls
<1>2. /\ pc' = [pc EXCEPT ![t] = label] /\ pc' \in [Threads -> Labels]
      /\ req' = [req EXCEPT ![t] = [kind |-> kind, id |-> id, v |-> v]]
      /\ req' \in [Threads -> Calls \union {NoCall}]
    BY <1>1 DEF Invoke, Goto, StoreTyped
<1>3. ReqOK'
    BY <1>1, <1>2 DEF ReqOK, Executes, StoreTyped, PutLabels
<1>4. QED BY <1>2, <1>3

(* A step that goes on to a later label of the same call keeps ReqOK. *)
LEMMA GotoTyped ==
    ASSUME NEW t \in Threads, StoreTyped, ReqOK, NEW label \in Labels,
           Goto(t, label), UNCHANGED req,
           \/ label \in PutLabels /\ pc[t] \in PutLabels \union {"put.lock"}
           \/ label = "get.file" /\ pc[t] = "get.row"
           \/ label \in {"del.row", "del.file"} /\ pc[t] \in {"del.select", "del.row"}
           \/ label = "done"
    PROVE  ReqOK' /\ pc' \in [Threads -> Labels]
BY DEF Goto, StoreTyped, ReqOK, Executes, PutLabels, Labels

(* A version is a number, so it is neither Absent nor Partial. *)
LEMMA VersionsApart == ASSUME NEW v \in Versions PROVE v # Absent /\ v # Partial
BY ConstantsAssumption DEF Versions

LEMMA WholeInit == Init => WholeInv
BY ConstantsAssumption
   DEF Init, WholeInv, LockInv, TmpReady, StoreTyped, ReqOK, WholeFiles, Executes, PutLabels, Labels,
       Rows, Versions, NoCall, NoAnswer

-----------------------------------------------------------------------------
LEMMA TypeNext == WholeInv /\ [Next]_vars => StoreTyped' /\ ReqOK'
<1> SUFFICES ASSUME WholeInv, [Next]_vars PROVE StoreTyped' /\ ReqOK'
    OBVIOUS
<1> USE DEF WholeInv
<1>1. ASSUME NEW t \in Threads, NEW id \in Ids, PutCall(t, id)
      PROVE  StoreTyped' /\ ReqOK'
  <2>1. puts + 1 \in Versions /\ puts' \in 0..MaxPuts
      BY <1>1, ConstantsAssumption DEF PutCall, StoreTyped, Versions
  <2>2. Invoke(t, "put", id, puts + 1, "put.lock")
      BY <1>1 DEF PutCall
  <2>3. ReqOK' /\ pc' \in [Threads -> Labels] /\ req' \in [Threads -> Calls \union {NoCall}]
      BY <2>1, <2>2, InvokeTyped DEF Labels, PutLabels
  <2>4. QED BY <1>1, <2>1, <2>2, <2>3 DEF PutCall, Invoke, disk, StoreTyped
<1>2. ASSUME NEW t \in Threads, NEW id \in Ids, GetCall(t, id)
      PROVE  StoreTyped' /\ ReqOK'
  <2>1. 0 \in Versions /\ Invoke(t, "get", id, 0, "get.row")
      BY <1>2, ConstantsAssumption DEF GetCall, Versions
  <2>2. ReqOK' /\ pc' \in [Threads -> Labels] /\ req' \in [Threads -> Calls \union {NoCall}]
      BY <2>1, InvokeTyped DEF Labels, PutLabels
  <2>3. QED BY <1>2, <2>1, <2>2 DEF GetCall, Invoke, disk, StoreTyped
<1>3. ASSUME NEW t \in Threads, NEW id \in Ids, DeleteCall(t, id)
      PROVE  StoreTyped' /\ ReqOK'
  <2>1. 0 \in Versions /\ Invoke(t, "delete", id, 0, "del.select")
      BY <1>3, ConstantsAssumption DEF DeleteCall, Versions
  <2>2. ReqOK' /\ pc' \in [Threads -> Labels] /\ req' \in [Threads -> Calls \union {NoCall}]
      BY <2>1, InvokeTyped DEF Labels, PutLabels
  <2>3. QED BY <1>3, <2>1, <2>2 DEF DeleteCall, Invoke, disk, StoreTyped
<1>4. ASSUME NEW t \in Threads, NEW kind \in {"list", "count"}, ListCall(t, kind)
      PROVE  StoreTyped' /\ ReqOK'
  <2>. DEFINE some == CHOOSE id \in Ids : TRUE
  <2>1. some \in Ids /\ 0 \in Versions /\ Invoke(t, kind, some, 0, "list.query")
      BY <1>4, ConstantsAssumption DEF ListCall, Versions
  <2>. HIDE DEF some
  <2>2. ReqOK' /\ pc' \in [Threads -> Labels] /\ req' \in [Threads -> Calls \union {NoCall}]
      BY <2>1, InvokeTyped DEF Labels, PutLabels
  <2>3. QED BY <1>4, <2>1, <2>2 DEF ListCall, Invoke, disk, StoreTyped
<1>. DEFINE IsPut(t) == req[t] \in Calls /\ req[t].id \in Ids /\ req[t].v \in Versions
<1>6. \A t \in Threads : pc[t] \in PutLabels => IsPut(t)
    BY DEF ReqOK, Executes, Calls
<1>7. ASSUME NEW t \in Threads, NEW ret \in {"ok", "fault"},
             FinishPut(t, ret), UNCHANGED req
      PROVE  /\ ReqOK' /\ pc' \in [Threads -> Labels]
             /\ out' \in [Threads -> Answers \union {NoAnswer}]
             /\ mu' \in Threads \union {Free}
  <2>1. Finish(t, ret, Absent, {}) /\ Goto(t, "done")
      BY <1>7 DEF FinishPut, Finish
  <2>2. ReqOK' BY <1>7, <2>1, GotoTyped DEF Labels
  <2>3. QED BY <1>7, <2>1, <2>2, FinishTyped DEF FinishPut
<1>5. ASSUME NEW t \in Threads, PutLock(t) PROVE StoreTyped' /\ ReqOK'
  <2>1. UNCHANGED req
      BY <1>5 DEF PutLock
  <2>2. CASE mu' = t /\ Goto(t, "put.create") /\ UNCHANGED out
    <3>1. ReqOK' /\ pc' \in [Threads -> Labels]
        BY <1>5, <2>1, <2>2, GotoTyped DEF PutLock, At, PutLabels, Labels
    <3>2. QED BY <1>5, <2>2, <3>1 DEF PutLock, disk, StoreTyped
  <2>3. CASE FinishPut(t, "fault")
      BY <1>5, <1>7, <2>1, <2>3 DEF PutLock, disk, StoreTyped
  <2>4. QED BY <1>5, <2>2, <2>3 DEF PutLock
<1>8. ASSUME NEW t \in Threads, PutCreate(t) PROVE StoreTyped' /\ ReqOK'
  <2>1. IsPut(t) /\ UNCHANGED req
      BY <1>6, <1>8 DEF PutCreate, At, PutLabels
  <2>2. CASE Goto(t, "put.write") /\ UNCHANGED <<mu, out>>
    <3>1. ReqOK' /\ pc' \in [Threads -> Labels]
        BY <1>8, <2>1, <2>2, GotoTyped DEF PutCreate, At, PutLabels, Labels
    <3>2. tmp' \in [Ids -> Versions \union {Absent, Partial}]
        BY <1>8, <2>1 DEF PutCreate, FinishPut, Finish, StoreTyped
    <3>3. QED BY <1>8, <2>2, <3>1, <3>2 DEF PutCreate, StoreTyped
  <2>3. CASE FinishPut(t, "fault") /\ UNCHANGED tmp
      BY <1>7, <1>8, <2>1, <2>3 DEF PutCreate, StoreTyped
  <2>4. QED BY <1>8, <2>2, <2>3 DEF PutCreate
<1>9. ASSUME NEW t \in Threads, PutWrite(t) PROVE StoreTyped' /\ ReqOK'
  <2>1. IsPut(t) /\ UNCHANGED req
      BY <1>6, <1>9 DEF PutWrite, At, PutLabels
  <2>2. tmp' \in [Ids -> Versions \union {Absent, Partial}]
      BY <1>9, <2>1 DEF PutWrite, DropTmp, StoreTyped
  <2>3. CASE Goto(t, "put.rename") /\ UNCHANGED <<mu, out>>
    <3>1. ReqOK' /\ pc' \in [Threads -> Labels]
        BY <1>9, <2>1, <2>3, GotoTyped DEF PutWrite, At, PutLabels, Labels
    <3>2. QED BY <1>9, <2>2, <2>3, <3>1 DEF PutWrite, StoreTyped
  <2>4. CASE FinishPut(t, "fault")
      BY <1>7, <1>9, <2>1, <2>2, <2>4 DEF PutWrite, StoreTyped
  <2>5. QED BY <1>9, <2>3, <2>4 DEF PutWrite
<1>10. ASSUME NEW t \in Threads, PutRename(t) PROVE StoreTyped' /\ ReqOK'
  <2>1. IsPut(t) /\ UNCHANGED req
      BY <1>6, <1>10 DEF PutRename, At, PutLabels
  <2>2. /\ tmp' \in [Ids -> Versions \union {Absent, Partial}]
        /\ file' \in [Ids -> Versions \union {Absent, Partial}]
      BY <1>10, <2>1 DEF PutRename, DropTmp, StoreTyped
  <2>3. CASE Goto(t, "put.upsert") /\ UNCHANGED <<mu, out>>
    <3>1. ReqOK' /\ pc' \in [Threads -> Labels]
        BY <1>10, <2>1, <2>3, GotoTyped DEF PutRename, At, PutLabels, Labels
    <3>2. QED BY <1>10, <2>2, <2>3, <3>1 DEF PutRename, StoreTyped
  <2>4. CASE FinishPut(t, "fault")
      BY <1>7, <1>10, <2>1, <2>2, <2>4 DEF PutRename, StoreTyped
  <2>5. QED BY <1>10, <2>3, <2>4 DEF PutRename
<1>11. ASSUME NEW t \in Threads, PutUpsert(t) PROVE StoreTyped' /\ ReqOK'
  <2>1. IsPut(t) /\ UNCHANGED req
      BY <1>6, <1>11 DEF PutUpsert, At, PutLabels
  <2>2. /\ row' \in [Ids -> Rows \union {Absent}]
        /\ life' \in [Ids -> {"unborn", "created", "shown"}]
    <3>1. [at |-> "file", v |-> req[t].v] \in Rows
        BY <2>1 DEF Rows
    <3>2. QED BY <1>11, <2>1, <3>1 DEF PutUpsert, StoreTyped
  <2>3. CASE Goto(t, "put.undo") /\ UNCHANGED <<mu, out>>
    <3>1. ReqOK' /\ pc' \in [Threads -> Labels]
        BY <1>11, <2>1, <2>3, GotoTyped DEF PutUpsert, At, PutLabels, Labels
    <3>2. QED BY <1>11, <2>2, <2>3, <3>1 DEF PutUpsert, StoreTyped
  <2>4. CASE FinishPut(t, "ok")
      BY <1>7, <1>11, <2>1, <2>2, <2>4 DEF PutUpsert, StoreTyped
  <2>5. QED BY <1>11, <2>3, <2>4 DEF PutUpsert
<1>12. ASSUME NEW t \in Threads, PutUndo(t) PROVE StoreTyped' /\ ReqOK'
  <2>1. IsPut(t) /\ UNCHANGED req /\ FinishPut(t, "fault")
      BY <1>6, <1>12 DEF PutUndo, At, PutLabels
  <2>2. file' \in [Ids -> Versions \union {Absent, Partial}]
      BY <1>12, <2>1 DEF PutUndo, StoreTyped
  <2>3. QED BY <1>7, <1>12, <2>1, <2>2 DEF PutUndo, StoreTyped
<1>13. ASSUME NEW t \in Threads, GetRow(t) PROVE StoreTyped' /\ ReqOK'
  <2>1. UNCHANGED req /\ req[t].id \in Ids
      BY <1>13 DEF GetRow, At, ReqOK, Executes, Calls
  <2>2. CASE Goto(t, "get.file") /\ UNCHANGED out
    <3>1. ReqOK' /\ pc' \in [Threads -> Labels]
        BY <1>13, <2>1, <2>2, GotoTyped DEF GetRow, At, Labels
    <3>2. QED BY <1>13, <2>2, <3>1 DEF GetRow, disk, StoreTyped
  <2>3. ASSUME NEW ret \in {"ok", "fault", "notfound"},
               NEW got \in Versions \union {Absent}, Finish(t, ret, got, {})
        PROVE  StoreTyped' /\ ReqOK'
    <3>1. ReqOK' BY <2>1, <2>3, GotoTyped DEF Finish, Labels
    <3>2. pc' \in [Threads -> Labels] /\ out' \in [Threads -> Answers \union {NoAnswer}]
        BY <2>3, FinishTyped
    <3>3. QED BY <1>13, <3>1, <3>2 DEF GetRow, disk, StoreTyped
  <2>4. RowAt(req[t].id) = "inline" => row[req[t].id].v \in Versions
      BY <2>1 DEF RowAt, HasRow, StoreTyped, Rows
  <2>5. QED BY <1>13, <2>2, <2>3, <2>4 DEF GetRow
<1>14. ASSUME NEW t \in Threads, GetFile(t) PROVE StoreTyped' /\ ReqOK'
  <2>1. UNCHANGED req /\ req[t].id \in Ids
      BY <1>14 DEF GetFile, At, ReqOK, Executes, Calls
  <2>2. ASSUME NEW ret \in {"ok", "gone"},
               NEW got \in Versions \union {Absent}, Finish(t, ret, got, {})
        PROVE  StoreTyped' /\ ReqOK'
    <3>1. ReqOK' BY <2>1, <2>2, GotoTyped DEF Finish, Labels
    <3>2. pc' \in [Threads -> Labels] /\ out' \in [Threads -> Answers \union {NoAnswer}]
        BY <2>2, FinishTyped
    <3>3. QED BY <1>14, <3>1, <3>2 DEF GetFile, disk, StoreTyped
  <2>3. file[req[t].id] \in Versions \union {Absent}
      BY <2>1 DEF WholeFiles, StoreTyped
  <2>4. QED BY <1>14, <2>2, <2>3 DEF GetFile
<1>15. ASSUME NEW t \in Threads, ListQuery(t) PROVE StoreTyped' /\ ReqOK'
  <2>1. UNCHANGED req
      BY <1>15 DEF ListQuery
  <2>2. ASSUME NEW ret \in {"ok", "fault"}, NEW ids \in SUBSET Ids,
               Finish(t, ret, Absent, ids)
        PROVE  StoreTyped' /\ ReqOK'
    <3>1. ReqOK' BY <2>1, <2>2, GotoTyped DEF Finish, Labels
    <3>2. pc' \in [Threads -> Labels] /\ out' \in [Threads -> Answers \union {NoAnswer}]
        BY <2>2, FinishTyped
    <3>3. QED BY <1>15, <3>1, <3>2 DEF ListQuery, disk, StoreTyped
  <2>3. {id \in Ids : HasRow(id)} \in SUBSET Ids /\ {} \in SUBSET Ids
      OBVIOUS
  <2>4. QED BY <1>15, <2>2, <2>3 DEF ListQuery
<1>16. ASSUME NEW t \in Threads, DelSelect(t) PROVE StoreTyped' /\ ReqOK'
  <2>1. UNCHANGED req /\ req[t].id \in Ids
      BY <1>16 DEF DelSelect, At, ReqOK, Executes, Calls
  <2>2. ReqOK' /\ pc' \in [Threads -> Labels]
      BY <1>16, <2>1, GotoTyped DEF DelSelect, At, Labels
  <2>3. RowAt(req[t].id) \in {"none", "inline", "file"}
      BY <2>1 DEF RowAt, HasRow, StoreTyped, Rows
  <2>4. QED BY <1>16, <2>2, <2>3 DEF DelSelect, disk, StoreTyped
<1>17. ASSUME NEW t \in Threads, DelRow(t) PROVE StoreTyped' /\ ReqOK'
  <2>1. UNCHANGED req /\ req[t].id \in Ids
      BY <1>17 DEF DelRow, At, ReqOK, Executes, Calls
  <2>2. row' \in [Ids -> Rows \union {Absent}]
      BY <1>17, <2>1 DEF DelRow, StoreTyped
  <2>3. ASSUME NEW ret \in {"fault", "notfound"}, Finish(t, ret, Absent, {})
        PROVE  StoreTyped' /\ ReqOK'
    <3>1. ReqOK' BY <2>1, <2>3, GotoTyped DEF Finish, Labels
    <3>2. pc' \in [Threads -> Labels] /\ out' \in [Threads -> Answers \union {NoAnswer}]
        BY <2>3, FinishTyped
    <3>3. QED BY <1>17, <2>2, <3>1, <3>2 DEF DelRow, StoreTyped
  <2>4. CASE /\ out' = [out EXCEPT ![t] = [ret |-> "ok", got |-> Absent, ids |-> {}]]
             /\ Goto(t, IF seen[t] = "file" THEN "del.file" ELSE "done")
    <3>1. out' \in [Threads -> Answers \union {NoAnswer}]
        BY <2>4 DEF StoreTyped, Answers
    <3>2. ReqOK' /\ pc' \in [Threads -> Labels]
        BY <1>17, <2>1, <2>4, GotoTyped DEF DelRow, At, Labels
    <3>3. QED BY <1>17, <2>2, <3>1, <3>2 DEF DelRow, StoreTyped
  <2>5. QED BY <1>17, <2>3, <2>4 DEF DelRow
<1>18. ASSUME NEW t \in Threads, DelFile(t) PROVE StoreTyped' /\ ReqOK'
  <2>1. UNCHANGED req /\ req[t].id \in Ids
      BY <1>18 DEF DelFile, At, ReqOK, Executes, Calls
  <2>2. ReqOK' /\ pc' \in [Threads -> Labels]
      BY <1>18, <2>1, GotoTyped DEF DelFile, Labels
  <2>3. QED BY <1>18, <2>1, <2>2 DEF DelFile, StoreTyped
<1>19. ASSUME NEW t \in Threads, Return(t) PROVE StoreTyped' /\ ReqOK'
  <2>1. StoreTyped'
      BY <1>19 DEF Return, Goto, disk, StoreTyped, Labels
  <2>2. ReqOK'
      BY <1>19 DEF Return, Goto, StoreTyped, ReqOK, Executes, PutLabels
  <2>3. QED BY <2>1, <2>2
<1>20. CASE Crash
  <2>1. StoreTyped'
      BY <1>20, ConstantsAssumption DEF Crash, disk, StoreTyped, Labels
  <2>2. ReqOK'
      BY <1>20 DEF Crash, ReqOK, Executes, PutLabels
  <2>3. QED BY <2>1, <2>2
<1>21. CASE UNCHANGED vars
    BY <1>21 DEF vars, StoreTyped, ReqOK, Executes
<1>22. QED
    BY <1>1, <1>2, <1>3, <1>4, <1>5, <1>8, <1>9, <1>10, <1>11, <1>12, <1>13, <1>14,
       <1>15, <1>16, <1>17, <1>18, <1>19, <1>20, <1>21 DEF Next, Call, Step

-----------------------------------------------------------------------------
(* A step outside Put that leaves the temporary files and the mutex alone,  *)
(* and at most removes payload files.                                       *)
LEMMA OutsidePut ==
    ASSUME WholeInv, NEW t \in Threads, NEW label \in Labels \ PutLabels,
           pc[t] \notin PutLabels, pc' = [pc EXCEPT ![t] = label],
           UNCHANGED <<tmp, mu>>,
           \A u \in Threads \ {t} : req'[u] = req[u],
           \A id \in Ids : file'[id] \in {file[id], Absent}
    PROVE  LockInv' /\ TmpReady' /\ WholeFiles'
<1>1. LockInv' /\ TmpReady'
    BY DEF WholeInv, StoreTyped, LockInv, TmpReady, PutLabels
<1>2. WholeFiles'
    BY ConstantsAssumption DEF WholeInv, WholeFiles
<1>3. QED BY <1>1, <1>2

(* Put returns: the mutex is free and nobody is inside. *)
LEMMA PutEnds ==
    ASSUME WholeInv, NEW t \in Threads, pc[t] \in PutLabels, NEW ret, FinishPut(t, ret),
           \A id \in Ids : file'[id] \in {file[id], Absent}
    PROVE  LockInv' /\ TmpReady' /\ WholeFiles'
<1>1. \A u \in Threads : pc'[u] \notin PutLabels
    BY DEF FinishPut, Finish, Goto, WholeInv, StoreTyped, LockInv, PutLabels
<1>2. LockInv' /\ TmpReady'
    BY <1>1 DEF LockInv, TmpReady, PutLabels
<1>3. WholeFiles'
    BY ConstantsAssumption DEF WholeInv, WholeFiles
<1>4. QED BY <1>2, <1>3

(* Put goes on: nobody else is inside, so only its own step can have        *)
(* disturbed what it is about to rename.                                    *)
LEMMA PutGoesOn ==
    ASSUME WholeInv, NEW t \in Threads, pc[t] \in PutLabels, NEW label \in PutLabels,
           Goto(t, label), UNCHANGED <<mu, req>>,
           label = "put.rename" => tmp'[req[t].id] = req[t].v,
           WholeFiles'
    PROVE  LockInv' /\ TmpReady' /\ WholeFiles'
<1>1. \A u \in Threads \ {t} : pc'[u] \notin PutLabels
    BY DEF Goto, WholeInv, StoreTyped, LockInv
<1>2. pc'[t] = label
    BY DEF Goto, WholeInv, StoreTyped
<1>3. LockInv'
    BY <1>1 DEF WholeInv, LockInv
<1>4. TmpReady'
    BY <1>1, <1>2 DEF TmpReady, PutLabels
<1>5. QED BY <1>3, <1>4

LEMMA MutexNext == WholeInv /\ [Next]_vars => LockInv' /\ TmpReady' /\ WholeFiles'
<1> SUFFICES ASSUME WholeInv, [Next]_vars PROVE LockInv' /\ TmpReady' /\ WholeFiles'
    OBVIOUS
<1> USE DEF At
<1>1. ASSUME NEW t \in Threads, Call(t) PROVE LockInv' /\ TmpReady' /\ WholeFiles'
  <2>1. PICK label \in Labels \ PutLabels : pc' = [pc EXCEPT ![t] = label]
      BY <1>1 DEF Call, PutCall, GetCall, DeleteCall, ListCall, Invoke, Goto,
                  Labels, PutLabels
  <2>2. /\ pc[t] = "idle" /\ UNCHANGED <<tmp, file, mu>>
        /\ \A u \in Threads \ {t} : req'[u] = req[u]
      BY <1>1 DEF Call, PutCall, GetCall, DeleteCall, ListCall, Invoke, disk,
                  WholeInv, StoreTyped
  <2>3. QED BY <2>1, <2>2, OutsidePut DEF PutLabels
<1>2. ASSUME NEW t \in Threads, PutLock(t) PROVE LockInv' /\ TmpReady' /\ WholeFiles'
  <2>1. \A u \in Threads : pc[u] \notin PutLabels
      BY <1>2, ConstantsAssumption DEF PutLock, WholeInv, LockInv
  <2>2. LockInv' /\ TmpReady'
      BY <1>2, <2>1 DEF PutLock, FinishPut, Finish, Goto, WholeInv, StoreTyped, LockInv,
                        TmpReady, PutLabels
  <2>3. WholeFiles'
      BY <1>2 DEF PutLock, disk, WholeInv, WholeFiles
  <2>4. QED BY <2>2, <2>3
<1>3. ASSUME NEW t \in Threads, PutCreate(t) PROVE LockInv' /\ TmpReady' /\ WholeFiles'
  <2>1. pc[t] \in PutLabels /\ WholeFiles' /\ UNCHANGED <<file, req>>
      BY <1>3 DEF PutCreate, PutLabels, WholeInv, WholeFiles
  <2>2. CASE Goto(t, "put.write") /\ UNCHANGED mu
      BY <2>1, <2>2, PutGoesOn DEF PutLabels
  <2>3. CASE FinishPut(t, "fault")
      BY <2>1, <2>3, PutEnds
  <2>4. QED BY <1>3, <2>2, <2>3 DEF PutCreate
<1>4. ASSUME NEW t \in Threads, PutWrite(t) PROVE LockInv' /\ TmpReady' /\ WholeFiles'
  <2>1. pc[t] \in PutLabels /\ WholeFiles' /\ UNCHANGED <<file, req>>
      BY <1>4 DEF PutWrite, PutLabels, WholeInv, WholeFiles
  <2>2. req[t].id \in Ids
      BY <1>4 DEF PutWrite, WholeInv, ReqOK, Executes, PutLabels, Calls
  <2>3. CASE tmp' = [tmp EXCEPT ![req[t].id] = req[t].v] /\ Goto(t, "put.rename") /\ UNCHANGED mu
    <3>1. tmp'[req[t].id] = req[t].v
        BY <2>2, <2>3 DEF WholeInv, StoreTyped
    <3>2. QED BY <2>1, <2>3, <3>1, PutGoesOn DEF PutLabels
  <2>4. CASE FinishPut(t, "fault")
      BY <2>1, <2>4, PutEnds
  <2>5. QED BY <1>4, <2>3, <2>4 DEF PutWrite
<1>5. ASSUME NEW t \in Threads, PutRename(t) PROVE LockInv' /\ TmpReady' /\ WholeFiles'
  <2>1. pc[t] = "put.rename" /\ pc[t] \in PutLabels /\ UNCHANGED req
      BY <1>5 DEF PutRename, PutLabels
  <2>2. CASE file' = [file EXCEPT ![req[t].id] = tmp[req[t].id]] /\ Goto(t, "put.upsert") /\ UNCHANGED mu
    <3>1. req[t].v \in Versions /\ tmp[req[t].id] = req[t].v
        BY <2>1 DEF WholeInv, TmpReady, ReqOK, Executes, PutLabels, Calls
    <3>2. tmp[req[t].id] # Partial
        BY <3>1, VersionsApart
    <3>3. WholeFiles'
        BY <2>2, <3>2 DEF WholeInv, WholeFiles, StoreTyped
    <3>4. QED BY <2>1, <2>2, <3>3, PutGoesOn DEF PutLabels
  <2>3. CASE FinishPut(t, "fault") /\ UNCHANGED file
      BY <2>1, <2>3, PutEnds
  <2>4. QED BY <1>5, <2>2, <2>3 DEF PutRename
<1>6. ASSUME NEW t \in Threads, PutUpsert(t) PROVE LockInv' /\ TmpReady' /\ WholeFiles'
  <2>1. pc[t] \in PutLabels /\ WholeFiles' /\ UNCHANGED <<file, req>>
      BY <1>6 DEF PutUpsert, PutLabels, WholeInv, WholeFiles
  <2>2. CASE Goto(t, "put.undo") /\ UNCHANGED mu
      BY <2>1, <2>2, PutGoesOn DEF PutLabels
  <2>3. CASE FinishPut(t, "ok")
      BY <2>1, <2>3, PutEnds
  <2>4. QED BY <1>6, <2>2, <2>3 DEF PutUpsert
<1>7. ASSUME NEW t \in Threads, PutUndo(t) PROVE LockInv' /\ TmpReady' /\ WholeFiles'
  <2>1. pc[t] \in PutLabels /\ FinishPut(t, "fault")
      BY <1>7 DEF PutUndo, PutLabels
  <2>2. \A id \in Ids : file'[id] \in {file[id], Absent}
      BY <1>7 DEF PutUndo, WholeInv, StoreTyped
  <2>3. QED BY <2>1, <2>2, PutEnds
<1>8. ASSUME NEW t \in Threads,
             \/ GetRow(t) \/ GetFile(t) \/ ListQuery(t)
             \/ DelSelect(t) \/ DelRow(t) \/ DelFile(t) \/ Return(t)
      PROVE  LockInv' /\ TmpReady' /\ WholeFiles'
  <2>1. PICK label \in Labels \ PutLabels : pc' = [pc EXCEPT ![t] = label]
      BY <1>8 DEF GetRow, GetFile, ListQuery, DelSelect, DelRow, DelFile, Return,
                  Finish, Goto, Labels, PutLabels
  <2>2. /\ pc[t] \notin PutLabels /\ UNCHANGED <<tmp, mu>>
        /\ \A u \in Threads \ {t} : req'[u] = req[u]
      BY <1>8 DEF GetRow, GetFile, ListQuery, DelSelect, DelRow, DelFile, Return,
                  disk, PutLabels, WholeInv, StoreTyped
  <2>3. \A id \in Ids : file'[id] \in {file[id], Absent}
      BY <1>8 DEF GetRow, GetFile, ListQuery, DelSelect, DelRow, DelFile, Return,
                  disk, WholeInv, StoreTyped
  <2>4. QED BY <2>1, <2>2, <2>3, OutsidePut
<1>9. CASE Crash
  <2>1. LockInv' /\ TmpReady'
      BY <1>9 DEF Crash, LockInv, TmpReady, PutLabels
  <2>2. WholeFiles'
      BY <1>9 DEF Crash, disk, WholeInv, WholeFiles
  <2>3. QED BY <2>1, <2>2
<1>10. CASE UNCHANGED vars
    BY <1>10 DEF vars, WholeInv, LockInv, TmpReady, WholeFiles
<1>11. QED
    BY <1>1, <1>2, <1>3, <1>4, <1>5, <1>6, <1>7, <1>8, <1>9, <1>10 DEF Next, Step

LEMMA StepNoted == [Next /\ Note]_<<vars, noted>> => [Next]_vars
BY DEF vars, noted

LEMMA WholeInvariant == Spec => []WholeInv
<1>1. WholeInv /\ [Next /\ Note]_<<vars, noted>> => WholeInv'
    BY StepNoted, TypeNext, MutexNext DEF WholeInv
<1>2. QED BY WholeInit, <1>1, PTL DEF Spec

(* Every state of the store is well typed, whatever fails.                  *)
THEOREM TypeCorrect == Spec => []TypeOK
<1> DEFINE Noted == loose \subseteq Ids /\ unswept \subseteq Ids
<1>1. Init => Noted
    BY DEF Init
<1>2. Noted /\ [Next /\ Note]_<<vars, noted>> => Noted'
    BY DEF Note, noted
<1>3. WholeInv /\ Noted => TypeOK
    BY DEF WholeInv, TypeOK
<1>4. QED BY <1>1, <1>2, <1>3, WholeInvariant, PTL DEF Spec

(* No reader ever opens half a payload file: for any number of concurrent   *)
(* calls, failures and crashes (writeGzipFileAtomic under the mutex of Put). *)
THEOREM PayloadsWhole == Spec => []WholeFiles
<1>1. WholeInv => WholeFiles
    BY DEF WholeInv
<1>2. QED BY <1>1, WholeInvariant, PTL

-----------------------------------------------------------------------------
(* What the steps of a call rely on between reading and acting, of a job    *)
(* that is not loose.                                                       *)
LooseNow == \A id \in Ids : Overlap(id) \/ Glimpse(id) => id \in loose
UpsertReady ==
    \A t \in Threads : pc[t] = "put.upsert" /\ req[t].id \notin loose => file[req[t].id] # Absent
UndoNoRow ==
    \A t \in Threads : pc[t] = "put.undo" /\ req[t].id \notin loose => RowAt(req[t].id) # "file"
GoneRow ==
    \A t \in Threads : pc[t] = "del.file" /\ req[t].id \notin loose => RowAt(req[t].id) # "file"

FileInv == LooseNow /\ UpsertReady /\ UndoNoRow /\ GoneRow /\ RowHasFile

LEMMA FileInit == Init => FileInv
BY DEF Init, FileInv, LooseNow, Overlap, Glimpse, InFlight, In, NoCall,
       UpsertReady, UndoNoRow, GoneRow, RowHasFile, RowAt, HasRow

LEMMA Noting ==
    ASSUME Note
    PROVE  /\ LooseNow' /\ loose \subseteq loose'
           /\ \A id \in Ids : UpdateFails(id) => id \in loose'
           /\ \A id \in Ids : SweepMissed(id) => id \in unswept'
           /\ unswept \subseteq unswept'
BY DEF Note, LooseNow

(* A Put and a Delete of a job that is not loose are never both in flight.  *)
LEMMA CallsApart ==
    ASSUME LooseNow, NEW t \in Threads, NEW u \in Threads,
           req[t].kind = "put", req[u].kind = "delete", req[t].id = req[u].id, req[t].id \in Ids
    PROVE  req[t].id \in loose
BY DEF LooseNow, Overlap, InFlight

LEMMA FileNext ==
    ASSUME WholeInv, FileInv, Next, Note
    PROVE  UpsertReady' /\ UndoNoRow' /\ GoneRow' /\ RowHasFile'
<1> DEFINE Goal == UpsertReady /\ UndoNoRow /\ GoneRow /\ RowHasFile
<1> SUFFICES Goal'
    OBVIOUS
<1> USE DEF WholeInv, FileInv
<1>0. loose \subseteq loose' /\ \A id \in Ids : UpdateFails(id) => id \in loose'
    BY Noting
(* Steps that leave rows and payload files alone and put nobody before the  *)
(* upsert, the undo or the removal of a file.                               *)
<1>1. ASSUME NEW t \in Threads,
             NEW label \in Labels \ {"put.upsert", "put.undo", "del.file"},
             pc' = [pc EXCEPT ![t] = label], UNCHANGED <<row, file>>,
             \A u \in Threads \ {t} : req'[u] = req[u]
      PROVE  Goal'
    BY <1>0, <1>1 DEF UpsertReady, UndoNoRow, GoneRow, RowHasFile, RowAt, HasRow, StoreTyped
<1>2. ASSUME NEW t \in Threads, Call(t) PROVE Goal'
  <2>1. PICK label \in {"put.lock", "get.row", "list.query", "del.select"} :
            pc' = [pc EXCEPT ![t] = label]
      BY <1>2 DEF Call, PutCall, GetCall, DeleteCall, ListCall, Invoke, Goto
  <2>2. UNCHANGED <<row, file>> /\ \A u \in Threads \ {t} : req'[u] = req[u]
      BY <1>2 DEF Call, PutCall, GetCall, DeleteCall, ListCall, Invoke, disk, StoreTyped
  <2>3. QED BY <2>1, <2>2, <1>1 DEF Labels
<1>3. ASSUME NEW t \in Threads,
             \/ PutLock(t) \/ PutCreate(t) \/ PutWrite(t) \/ GetRow(t) \/ GetFile(t)
             \/ ListQuery(t) \/ DelSelect(t) \/ Return(t)
      PROVE  Goal'
  <2>1. PICK label \in Labels \ {"put.upsert", "put.undo", "del.file"} :
            pc' = [pc EXCEPT ![t] = label]
      BY <1>3 DEF PutLock, PutCreate, PutWrite, GetRow, GetFile, ListQuery, DelSelect,
                  Return, FinishPut, Finish, Goto, Labels, PutLabels
  <2>2. UNCHANGED <<row, file>> /\ \A u \in Threads \ {t} : req'[u] = req[u]
      BY <1>3 DEF PutLock, PutCreate, PutWrite, GetRow, GetFile, ListQuery, DelSelect,
                  Return, disk, StoreTyped
  <2>3. QED BY <2>1, <2>2, <1>1
<1>4. ASSUME NEW t \in Threads, PutRename(t) PROVE Goal'
  <2>1. /\ req[t].id \in Ids /\ req[t].v \in Versions /\ pc[t] = "put.rename"
        /\ UNCHANGED <<row, req>>
      BY <1>4 DEF PutRename, At, ReqOK, Executes, PutLabels, Calls
  <2>2. CASE file' = [file EXCEPT ![req[t].id] = tmp[req[t].id]] /\ Goto(t, "put.upsert")
    <3>1. file'[req[t].id] # Absent
        BY <2>1, <2>2, VersionsApart DEF TmpReady, StoreTyped
    <3>2. \A id \in Ids : file[id] # Absent => file'[id] # Absent
        BY <2>1, <2>2, <3>1 DEF StoreTyped
    <3>3. pc' = [pc EXCEPT ![t] = "put.upsert"]
        BY <2>2 DEF Goto
    <3>4. \A u \in Threads : pc[u] = "put.upsert" => req[u].id \in Ids
        BY DEF ReqOK, Executes, PutLabels, Calls
    <3>5. UpsertReady'
        BY <1>0, <2>1, <3>1, <3>2, <3>3, <3>4 DEF UpsertReady, StoreTyped
    <3>6. UndoNoRow' /\ GoneRow' /\ RowHasFile'
        BY <1>0, <2>1, <3>2, <3>3 DEF UndoNoRow, GoneRow, RowHasFile, RowAt, HasRow, StoreTyped
    <3>7. QED BY <3>5, <3>6
  <2>3. CASE FinishPut(t, "fault") /\ UNCHANGED file
      BY <2>1, <2>3, <1>1 DEF FinishPut, Finish, Goto, Labels
  <2>4. QED BY <1>4, <2>2, <2>3 DEF PutRename
<1>5. ASSUME NEW t \in Threads, PutUpsert(t) PROVE Goal'
  <2>1. /\ req[t].id \in Ids /\ req[t].kind = "put" /\ pc[t] = "put.upsert"
        /\ UNCHANGED <<file, req>>
      BY <1>5 DEF PutUpsert, At, ReqOK, Executes, PutLabels, Calls
  <2>2. \A u \in Threads \ {t} : pc[u] \notin PutLabels
      BY <2>1 DEF LockInv, PutLabels
  <2>3. CASE row' = [row EXCEPT ![req[t].id] = [at |-> "file", v |-> req[t].v]]
             /\ FinishPut(t, "ok")
    <3>1. pc' = [pc EXCEPT ![t] = "done"]
        BY <2>3 DEF FinishPut, Finish, Goto
    <3>2. UpsertReady' /\ UndoNoRow'
        BY <2>2, <3>1 DEF UpsertReady, UndoNoRow, PutLabels, StoreTyped
    <3>3. RowHasFile'
        BY <1>0, <2>1, <2>3 DEF RowHasFile, UpsertReady, RowAt, HasRow, StoreTyped
    <3>4. ASSUME NEW u \in Threads, pc'[u] = "del.file", req[u].id \notin loose'
          PROVE  RowAt(req[u].id)' # "file"
      <4>1. pc[u] = "del.file" /\ req[u].kind = "delete"
          BY <3>1, <3>4, <2>1 DEF ReqOK, Executes, StoreTyped
      <4>2. req[u].id # req[t].id
          BY <1>0, <2>1, <3>4, <4>1, CallsApart
      <4>3. RowAt(req[u].id)' = RowAt(req[u].id)
          BY <2>1, <2>3, <4>1, <4>2 DEF RowAt, HasRow, StoreTyped
      <4>4. QED BY <1>0, <3>4, <4>1, <4>3 DEF GoneRow
    <3>5. GoneRow'
        BY <2>1, <3>4 DEF GoneRow
    <3>6. QED BY <3>2, <3>3, <3>5
  <2>4. CASE May(IF RowAt(req[t].id) = "file" THEN "update" ELSE "insert")
             /\ Goto(t, "put.undo") /\ UNCHANGED row
    <3>1. RowAt(req[t].id) # "file" \/ req[t].id \in loose'
      <4>1. pc'[t] = "put.undo"
          BY <2>4 DEF Goto, StoreTyped
      <4>2. QED BY <1>0, <2>1, <4>1 DEF UpdateFails, In
    <3>2. QED
        BY <1>0, <2>1, <2>4, <3>1 DEF Goto, UpsertReady, UndoNoRow, GoneRow, RowHasFile,
                                RowAt, HasRow, StoreTyped
  <2>5. QED BY <1>5, <2>3, <2>4 DEF PutUpsert
<1>6. ASSUME NEW t \in Threads, PutUndo(t) PROVE Goal'
  <2>1. /\ req[t].id \in Ids /\ pc[t] = "put.undo" /\ UNCHANGED <<row, req>>
        /\ pc' = [pc EXCEPT ![t] = "done"]
      BY <1>6 DEF PutUndo, At, FinishPut, Finish, Goto, ReqOK, Executes, PutLabels, Calls
  <2>2. \A u \in Threads : pc'[u] \notin PutLabels
      BY <2>1 DEF LockInv, PutLabels, StoreTyped
  <2>3. \A id \in Ids : id # req[t].id => file'[id] = file[id]
      BY <1>6, <2>1 DEF PutUndo, StoreTyped
  <2>4. UpsertReady' /\ UndoNoRow'
      BY <2>2 DEF UpsertReady, UndoNoRow, PutLabels
  <2>5. GoneRow'
      BY <1>0, <2>1 DEF GoneRow, RowAt, HasRow, StoreTyped
  <2>6. RowHasFile'
      BY <1>0, <2>1, <2>3 DEF RowHasFile, UndoNoRow, RowAt, HasRow
  <2>7. QED BY <2>4, <2>5, <2>6
<1>7. ASSUME NEW t \in Threads, DelRow(t) PROVE Goal'
  <2>1. req[t].id \in Ids /\ UNCHANGED <<file, req>>
      BY <1>7 DEF DelRow, At, ReqOK, Executes, Calls
  <2>2. CASE UNCHANGED row /\ \E ret \in {"notfound", "fault"} : Finish(t, ret, Absent, {})
      BY <2>1, <2>2, <1>1 DEF Finish, Goto, Labels
  <2>3. CASE /\ row' = [row EXCEPT ![req[t].id] = Absent]
             /\ Goto(t, IF seen[t] = "file" THEN "del.file" ELSE "done")
    <3>1. \A id \in Ids : RowAt(id)' = "file" => RowAt(id) = "file"
        BY <2>1, <2>3 DEF RowAt, HasRow, StoreTyped
    <3>2. RowAt(req[t].id)' # "file"
        BY <2>1, <2>3 DEF RowAt, HasRow, StoreTyped
    <3>3. \A u \in Threads : pc[u] \in {"put.undo", "del.file"} => req[u].id \in Ids
        BY DEF ReqOK, Executes, PutLabels, Calls
    <3>4. UpsertReady' /\ RowHasFile'
        BY <1>0, <2>1, <2>3, <3>1 DEF Goto, UpsertReady, RowHasFile, StoreTyped
    <3>5. UndoNoRow' /\ GoneRow'
        BY <1>0, <2>1, <2>3, <3>1, <3>2, <3>3 DEF Goto, UndoNoRow, GoneRow, StoreTyped
    <3>6. QED BY <3>4, <3>5
  <2>4. QED BY <1>7, <2>2, <2>3 DEF DelRow
<1>8. ASSUME NEW t \in Threads, DelFile(t) PROVE Goal'
  <2>1. /\ req[t].id \in Ids /\ req[t].kind = "delete" /\ pc[t] = "del.file"
        /\ UNCHANGED <<row, req>> /\ pc' = [pc EXCEPT ![t] = "done"]
      BY <1>8 DEF DelFile, At, Goto, ReqOK, Executes, Calls
  <2>2. \A id \in Ids : id # req[t].id => file'[id] = file[id]
      BY <1>8, <2>1 DEF DelFile, StoreTyped
  <2>3. \A u \in Threads : pc[u] = "put.upsert" /\ req[u].id \notin loose
                            => req[u].id \in Ids /\ req[u].id # req[t].id
    <3>1. \A u \in Threads : pc[u] = "put.upsert" => req[u].id \in Ids /\ req[u].kind = "put"
        BY DEF ReqOK, Executes, PutLabels, Calls
    <3>2. QED BY <2>1, <3>1, CallsApart
  <2>4. UpsertReady'
      BY <1>0, <2>1, <2>2, <2>3 DEF UpsertReady, StoreTyped
  <2>5. UndoNoRow' /\ GoneRow'
      BY <1>0, <2>1 DEF UndoNoRow, GoneRow, RowAt, HasRow, StoreTyped
  <2>6. RowHasFile'
      BY <1>0, <2>1, <2>2 DEF RowHasFile, GoneRow, RowAt, HasRow
  <2>7. QED BY <2>4, <2>5, <2>6
<1>9. CASE Crash
    BY <1>0, <1>9 DEF Crash, disk, UpsertReady, UndoNoRow, GoneRow, RowHasFile, RowAt, HasRow
<1>10. QED
    BY <1>2, <1>3, <1>4, <1>5, <1>6, <1>7, <1>8, <1>9 DEF Next, Step

LEMMA FileSteps == WholeInv /\ FileInv /\ [Next /\ Note]_<<vars, noted>> => FileInv'
<1>1. WholeInv /\ FileInv /\ Next /\ Note => FileInv'
    BY FileNext, Noting DEF FileInv
<1>2. FileInv /\ UNCHANGED <<vars, noted>> => FileInv'
    BY DEF vars, noted, FileInv, LooseNow, Overlap, Glimpse, InFlight, In, UpsertReady,
           UndoNoRow, GoneRow, RowHasFile, RowAt, HasRow
<1>3. QED BY <1>1, <1>2

(* A listed job can be opened, wherever crashes and failures fall and       *)
(* whatever happens to other jobs, unless two calls on that very job have   *)
(* clashed (a Delete beside a Put of it, above all) or an update of its row *)
(* failed, which the run jobstore_failed_update shows to be necessary.      *)
THEOREM RowsHaveFiles == Spec => []RowHasFile
<1>1. FileInv => RowHasFile
    BY DEF FileInv
<1>2. QED BY FileInit, WholeInvariant, FileSteps, <1>1, PTL DEF Spec

-----------------------------------------------------------------------------
(* The store is an atomic map.  Beside what makes files whole and rows lead *)
(* to them, the steps of a call rely on what the calls of others left: a    *)
(* Put that its file is still its own, a Get that what it is about to read  *)
(* was its job's payload since it was called.                               *)
Running == \A t \in Threads : pc[t] # "idle" => req[t] \in Calls
UpsertWhole ==
    \A t \in Threads : pc[t] = "put.upsert" /\ req[t].id \notin loose
                           => file[req[t].id] = req[t].v
GetReady ==
    \A t \in Threads : pc[t] = "get.file" /\ req[t].id \notin loose =>
        /\ RowAt(req[t].id) # "inline"
        /\ HasRow(req[t].id) \/ file[req[t].id] \in saw[t] \union {Absent}
SawNow == saw = [t \in Threads |-> IF pc[t] = "idle" THEN {}
                                   ELSE saw[t] \union {Visible[req[t].id]}]

CallInv == Running /\ UpsertWhole
MapInv == CallInv /\ GetReady /\ SawNow
LEMMA CallInit == Init => CallInv
BY DEF Init, CallInv, Running, UpsertWhole, NoCall

LEMMA RunningKept == ASSUME WholeInv, Running, Next PROVE Running'
<1> USE DEF WholeInv
<1>1. ASSUME NEW t \in Threads, NEW kind \in {"put", "get", "list", "count", "delete"},
             NEW id \in Ids, NEW v \in Versions, NEW label, Invoke(t, kind, id, v, label)
      PROVE  Running'
  <2>1. [kind |-> kind, id |-> id, v |-> v] \in Calls
      BY DEF Calls
  <2>2. QED BY <1>1, <2>1 DEF Invoke, Goto, Running, StoreTyped
<1>2. ASSUME NEW t \in Threads, Call(t) PROVE Running'
  <2>1. (CHOOSE id \in Ids : TRUE) \in Ids /\ 0 \in Versions
      BY ConstantsAssumption DEF Versions
  <2>2. ASSUME NEW id \in Ids, PutCall(t, id) PROVE Running'
    <3>1. puts + 1 \in Versions
        BY <2>2, ConstantsAssumption DEF PutCall, StoreTyped, Versions
    <3>2. QED BY <1>1, <2>2, <3>1 DEF PutCall
  <2>3. QED BY <1>1, <1>2, <2>1, <2>2 DEF Call, GetCall, DeleteCall, ListCall
<1>3. ASSUME NEW t \in Threads, PutLock(t) \/ (Step(t) /\ ~Return(t))
      PROVE  Running'
  <2>1. UNCHANGED req /\ pc[t] # "idle"
      BY <1>3 DEF PutLock, Step, PutCreate, PutWrite, PutRename, PutUpsert, PutUndo, GetRow,
                  GetFile, ListQuery, DelSelect, DelRow, DelFile, At
  <2>2. \A u \in Threads \ {t} : pc'[u] = pc[u]
      BY <1>3 DEF PutLock, Step, PutCreate, PutWrite, PutRename, PutUpsert, PutUndo, GetRow,
                  GetFile, ListQuery, DelSelect, DelRow, DelFile, FinishPut, Finish, Goto, StoreTyped
  <2>3. QED BY <2>1, <2>2 DEF Running
<1>4. ASSUME NEW t \in Threads, Return(t) PROVE Running'
    BY <1>4 DEF Return, Goto, Running, StoreTyped
<1>5. CASE Crash
    BY <1>5 DEF Crash, Running
<1>6. QED BY <1>2, <1>3, <1>4, <1>5 DEF Next

(* Between its rename and its upsert, a Put's file is its own: the mutex    *)
(* keeps other Puts away, and a Delete would make the job loose.            *)
LEMMA UpsertKept ==
    ASSUME WholeInv, FileInv, CallInv, Next, Note
    PROVE  UpsertWhole'
<1> USE DEF WholeInv, CallInv
<1>0. loose \subseteq loose'
    BY Noting
<1>1. \A u \in Threads : pc[u] = "put.upsert" => req[u].kind = "put" /\ req[u].id \in Ids
    BY DEF ReqOK, Executes, PutLabels, Calls
<1>2. ASSUME NEW t \in Threads, NEW label \in Labels \ {"put.upsert"},
             pc' = [pc EXCEPT ![t] = label], \A u \in Threads \ {t} : req'[u] = req[u],
             \A u \in Threads \ {t} : pc[u] = "put.upsert" /\ req[u].id \notin loose
                                      => file'[req[u].id] = file[req[u].id]
      PROVE  UpsertWhole'
    BY <1>0, <1>2 DEF UpsertWhole, StoreTyped
<1>3. ASSUME NEW t \in Threads, Call(t) \/ Return(t) PROVE UpsertWhole'
  <2>1. PICK label \in Labels \ {"put.upsert"} : pc' = [pc EXCEPT ![t] = label]
      BY <1>3 DEF Call, PutCall, GetCall, DeleteCall, ListCall, Invoke, Return, Goto, Labels
  <2>2. UNCHANGED file /\ \A u \in Threads \ {t} : req'[u] = req[u]
      BY <1>3 DEF Call, PutCall, GetCall, DeleteCall, ListCall, Invoke, Return, disk, StoreTyped
  <2>3. QED BY <2>1, <2>2, <1>2
<1>4. ASSUME NEW t \in Threads,
             \/ PutLock(t) \/ PutCreate(t) \/ PutWrite(t) \/ PutUpsert(t)
             \/ GetRow(t) \/ GetFile(t) \/ ListQuery(t) \/ DelSelect(t) \/ DelRow(t)
      PROVE  UpsertWhole'
  <2>1. PICK label \in Labels \ {"put.upsert"} : pc' = [pc EXCEPT ![t] = label]
      BY <1>4 DEF PutLock, PutCreate, PutWrite, PutUpsert, GetRow, GetFile, ListQuery,
                  DelSelect, DelRow, FinishPut, Finish, Goto, Labels, PutLabels
  <2>2. UNCHANGED <<file, req>>
      BY <1>4 DEF PutLock, PutCreate, PutWrite, PutUpsert, GetRow, GetFile, ListQuery,
                  DelSelect, DelRow, disk
  <2>3. QED BY <2>1, <2>2, <1>2
<1>5. ASSUME NEW t \in Threads, PutRename(t) PROVE UpsertWhole'
  <2>1. \A u \in Threads \ {t} : pc[u] # "put.upsert"
      BY <1>5 DEF PutRename, At, LockInv, PutLabels
  <2>2. req[t].id \in Ids /\ tmp[req[t].id] = req[t].v /\ UNCHANGED req
      BY <1>5 DEF PutRename, At, ReqOK, Executes, PutLabels, Calls, TmpReady
  <2>3. QED
      BY <1>5, <2>1, <2>2 DEF PutRename, FinishPut, Finish, Goto, UpsertWhole, StoreTyped
<1>6. ASSUME NEW t \in Threads, PutUndo(t) PROVE UpsertWhole'
  <2>1. \A u \in Threads \ {t} : pc[u] # "put.upsert"
      BY <1>6 DEF PutUndo, At, LockInv, PutLabels
  <2>2. QED
      BY <1>6, <2>1 DEF PutUndo, FinishPut, Finish, Goto, UpsertWhole, StoreTyped
<1>7. ASSUME NEW t \in Threads, DelFile(t) PROVE UpsertWhole'
  <2>1. pc' = [pc EXCEPT ![t] = "done"] /\ UNCHANGED req
      BY <1>7 DEF DelFile, Goto
  <2>2. req[t].kind = "delete"
      BY <1>7 DEF DelFile, At, ReqOK, Executes
  <2>3. \A u \in Threads : pc[u] = "put.upsert" /\ req[u].id \notin loose
                            => file'[req[u].id] = file[req[u].id]
    <3>1. \A u \in Threads : pc[u] = "put.upsert" /\ req[u].id \notin loose
                              => req[u].id # req[t].id
        BY <2>2, <1>1, CallsApart DEF FileInv
    <3>2. QED BY <1>7, <3>1, <1>1 DEF DelFile, StoreTyped
  <2>4. QED BY <2>1, <2>3, <1>2 DEF Labels
<1>8. CASE Crash
    BY <1>8 DEF Crash, UpsertWhole
<1>9. QED
    BY <1>3, <1>4, <1>5, <1>6, <1>7, <1>8 DEF Next, Step

LEMMA CallNext == WholeInv /\ FileInv /\ CallInv /\ [Next /\ Note]_<<vars, noted>> => CallInv'
<1>1. WholeInv /\ FileInv /\ CallInv /\ Next /\ Note => CallInv'
    BY RunningKept, UpsertKept DEF CallInv
<1>2. CallInv /\ UNCHANGED <<vars, noted>> => CallInv'
    BY DEF vars, noted, CallInv, Running, UpsertWhole
<1>3. QED BY <1>1, <1>2

(* What has been read, of a payload a Delete has overtaken, was the job's   *)
(* since the Get was called.                                                *)
LEMMA GetKept ==
    ASSUME WholeInv, FileInv, CallInv, GetReady, SawNow, Next, Note, Watch
    PROVE  GetReady'
<1> USE DEF WholeInv, At
<1>0. loose \subseteq loose' /\ LooseNow'
    BY Noting
<1>1. \A u \in Threads : pc'[u] # "idle" => saw[u] \subseteq saw'[u]
    BY DEF Watch
<1>2. \A u \in Threads : pc[u] = "get.file" => req[u].id \in Ids /\ req[u].kind = "get"
    BY DEF ReqOK, Executes, Calls
<1>3. ASSUME NEW t \in Threads, NEW label \in Labels, pc' = [pc EXCEPT ![t] = label],
             \A u \in Threads \ {t} : req'[u] = req[u], label # "get.file",
             \A u \in Threads \ {t} : pc[u] = "get.file" /\ req[u].id \notin loose' =>
                 /\ RowAt(req[u].id)' # "inline"
                 /\ HasRow(req[u].id)' \/ file'[req[u].id] \in saw[u] \union {Absent}
      PROVE  GetReady'
    BY <1>1, <1>3 DEF GetReady, StoreTyped
<1>4. ASSUME NEW t \in Threads, NEW label \in Labels, pc' = [pc EXCEPT ![t] = label],
             \A u \in Threads \ {t} : req'[u] = req[u], label # "get.file",
             UNCHANGED row, \A id \in Ids : file'[id] \in {file[id], Absent}
      PROVE  GetReady'
  <2>1. ASSUME NEW u \in Threads \ {t}, pc[u] = "get.file", req[u].id \notin loose'
        PROVE  /\ RowAt(req[u].id)' # "inline"
               /\ HasRow(req[u].id)' \/ file'[req[u].id] \in saw[u] \union {Absent}
      BY <1>0, <1>2, <1>4, <2>1 DEF GetReady, RowAt, HasRow, StoreTyped
  <2>2. QED BY <1>3, <1>4, <2>1
<1>5. ASSUME NEW t \in Threads, Call(t) \/ Return(t) PROVE GetReady'
  <2>1. PICK label \in Labels \ {"get.file"} : pc' = [pc EXCEPT ![t] = label]
      BY <1>5 DEF Call, PutCall, GetCall, DeleteCall, ListCall, Invoke, Return, Goto, Labels
  <2>2. UNCHANGED <<row, file>> /\ \A u \in Threads \ {t} : req'[u] = req[u]
      BY <1>5 DEF Call, PutCall, GetCall, DeleteCall, ListCall, Invoke, Return, disk, StoreTyped
  <2>3. QED BY <2>1, <2>2, <1>4
<1>6. ASSUME NEW t \in Threads,
             \/ PutLock(t) \/ PutCreate(t) \/ PutWrite(t) \/ PutUndo(t)
             \/ GetFile(t) \/ ListQuery(t) \/ DelSelect(t) \/ DelFile(t)
      PROVE  GetReady'
  <2>1. PICK label \in Labels \ {"get.file"} : pc' = [pc EXCEPT ![t] = label]
      BY <1>6 DEF PutLock, PutCreate, PutWrite, PutUndo, GetFile, ListQuery,
                  DelSelect, DelFile, FinishPut, Finish, Goto, Labels, PutLabels
  <2>2. UNCHANGED <<row, req>> /\ \A id \in Ids : file'[id] \in {file[id], Absent}
      BY <1>6 DEF PutLock, PutCreate, PutWrite, PutUndo, GetFile, ListQuery,
                  DelSelect, DelFile, disk, StoreTyped
  <2>3. QED BY <2>1, <2>2, <1>4
<1>7. ASSUME NEW t \in Threads, GetRow(t) PROVE GetReady'
  <2>1. UNCHANGED <<row, file, req>>
      BY <1>7 DEF GetRow, disk
  <2>2. CASE RowAt(req[t].id) = "file" /\ Goto(t, "get.file")
      BY <1>0, <1>1, <2>1, <2>2 DEF Goto, GetReady, RowAt, HasRow, StoreTyped
  <2>3. CASE Goto(t, "done")
      BY <2>1, <2>3, <1>4 DEF Goto, Labels
  <2>4. QED BY <1>7, <2>2, <2>3 DEF GetRow, Finish
<1>8. ASSUME NEW t \in Threads, PutRename(t) PROVE GetReady'
  <2>1. /\ req[t].kind = "put" /\ req[t].id \in Ids /\ UNCHANGED <<row, req>>
        /\ \E label \in {"put.upsert", "done"} : pc' = [pc EXCEPT ![t] = label]
      BY <1>8 DEF PutRename, FinishPut, Finish, Goto, ReqOK, Executes, PutLabels, Calls
  <2>2. \A id \in Ids : file'[id] = file[id] \/ (id = req[t].id /\ pc'[t] = "put.upsert")
      BY <1>8, <2>1 DEF PutRename, Goto, StoreTyped
  <2>3. ASSUME NEW u \in Threads \ {t}, pc[u] = "get.file", req[u].id \notin loose'
        PROVE  /\ RowAt(req[u].id)' # "inline"
               /\ HasRow(req[u].id)' \/ file'[req[u].id] \in saw[u] \union {Absent}
    <3>1. pc'[u] = "get.file" /\ req'[u] = req[u] /\ req'[t] = req[t]
        BY <2>1, <2>3 DEF StoreTyped
    <3>2. CASE file'[req[u].id] = file[req[u].id]
        BY <1>0, <2>1, <2>3, <3>2 DEF GetReady, RowAt, HasRow
    <3>3. CASE req[u].id = req[t].id /\ pc'[t] = "put.upsert"
      <4>1. HasRow(req[u].id)' \/ Glimpse(req[u].id)'
          BY <3>1, <3>3 DEF Glimpse, In
      <4>2. HasRow(req[u].id)'
          BY <1>0, <1>2, <2>3, <3>1, <4>1 DEF LooseNow
      <4>3. QED BY <1>0, <2>1, <2>3, <4>2 DEF GetReady, RowAt, HasRow
    <3>4. QED BY <1>2, <2>2, <2>3, <3>2, <3>3
  <2>4. QED BY <1>3, <2>1, <2>3 DEF Labels, PutLabels
<1>9. ASSUME NEW t \in Threads, PutUpsert(t) PROVE GetReady'
  <2>1. /\ req[t] \in Calls /\ UNCHANGED <<file, req>>
        /\ \E label \in {"put.undo", "done"} : pc' = [pc EXCEPT ![t] = label]
      BY <1>9 DEF PutUpsert, FinishPut, Finish, Goto, ReqOK, Executes, PutLabels
  <2>2. [at |-> "file", v |-> req[t].v] # Absent
      BY <2>1, ConstantsAssumption DEF Calls, Versions
  <2>3. \A id \in Ids : row'[id] = row[id] \/ (HasRow(id)' /\ RowAt(id)' = "file")
      BY <1>9, <2>1, <2>2 DEF PutUpsert, RowAt, HasRow, StoreTyped
  <2>4. ASSUME NEW u \in Threads \ {t}, pc[u] = "get.file", req[u].id \notin loose'
        PROVE  /\ RowAt(req[u].id)' # "inline"
               /\ HasRow(req[u].id)' \/ file'[req[u].id] \in saw[u] \union {Absent}
      BY <1>0, <1>2, <2>1, <2>3, <2>4 DEF GetReady, RowAt, HasRow
  <2>5. QED BY <1>3, <2>1, <2>4 DEF Labels, PutLabels
<1>10. ASSUME NEW t \in Threads, DelRow(t) PROVE GetReady'
  <2>1. /\ req[t].id \in Ids /\ UNCHANGED <<file, req>>
        /\ \E label \in {"del.file", "done"} : pc' = [pc EXCEPT ![t] = label]
      BY <1>10 DEF DelRow, Finish, Goto, ReqOK, Executes, Calls
  <2>2. \A id \in Ids : row'[id] \in {row[id], Absent}
      BY <1>10, <2>1 DEF DelRow, StoreTyped
  <2>3. \A u \in Threads : pc[u] = "get.file" /\ req[u].id \notin loose /\ HasRow(req[u].id) => RowAt(req[u].id) = "file"
      BY <1>2 DEF GetReady, RowAt, HasRow, StoreTyped, Rows
  <2>4. \A u \in Threads : pc[u] = "get.file" /\ req[u].id \notin loose /\ HasRow(req[u].id) => file[req[u].id] \in saw[u]
      BY <1>2, <2>3 DEF SawNow, Visible
  <2>5. ASSUME NEW u \in Threads \ {t}, pc[u] = "get.file", req[u].id \notin loose'
        PROVE  /\ RowAt(req[u].id)' # "inline"
               /\ HasRow(req[u].id)' \/ file'[req[u].id] \in saw[u] \union {Absent}
      BY <1>0, <1>2, <2>1, <2>2, <2>4, <2>5 DEF GetReady, RowAt, HasRow
  <2>6. QED BY <1>3, <2>1, <2>5 DEF Labels
<1>11. CASE Crash
    BY <1>11 DEF Crash, GetReady
<1>12. QED
    BY <1>5, <1>6, <1>7, <1>8, <1>9, <1>10, <1>11 DEF Next, Step

LEMMA SawKept == ASSUME Watch PROVE SawNow'
BY DEF Watch, SawNow

LEMMA MapInit == Init /\ saw = [t \in Threads |-> {}] => GetReady /\ SawNow
BY DEF Init, GetReady, SawNow

-----------------------------------------------------------------------------
(* What a step leaves of the calls it does not belong to.                   *)
LEMMA Others ==
    ASSUME NEW u \in Threads, pc'[u] = pc[u], req'[u] = req[u], out'[u] = out[u],
           pc[u] = "put.upsert" => (RowAt(req[u].id)' = "file" <=> RowAt(req[u].id) = "file")
    PROVE  CallSoFar(u)' = CallSoFar(u)
<1>1. Replaced(u)' = Replaced(u)
    BY DEF Replaced, At
<1>2. QED BY <1>1 DEF CallSoFar, Done, At, PutOk

LEMMA IdleCalls ==
    ASSUME NEW u
    PROVE  /\ CallSoFar(u) = Atomic!Idle <=> pc[u] = "idle"
           /\ pc[u] # "idle" => CallSoFar(u).id = req[u].id
BY DEF CallSoFar, Atomic!Idle, At

LEMMA IdleCallsNext ==
    ASSUME NEW u
    PROVE  /\ CallSoFar(u)' = Atomic!Idle <=> pc'[u] = "idle"
           /\ pc'[u] # "idle" => CallSoFar(u)'.id = req'[u].id
BY DEF CallSoFar, Atomic!Idle, At

(* Both levels keep the same history. *)
LEMMA WatchMaps == ASSUME Note, Watch PROVE Atomic!Watch /\ loose \subseteq loose'
BY IdleCallsNext, Noting DEF Watch, Atomic!Watch

(* A step that changes neither a payload nor a call is a stutter of the map. *)
LEMMA Stutters ==
    ASSUME Note, Watch, UNCHANGED Visible, \A u \in Threads : CallSoFar(u)' = CallSoFar(u)
    PROVE  Atomic!Next
BY WatchMaps DEF Atomic!Next

(* A step of a call on a loose job concerns that job and its calls alone.   *)
LEMMA LooseMaps ==
    ASSUME WholeInv, Running, Note, Watch, NEW t \in Threads,
           PutLock(t) \/ (Step(t) /\ ~Return(t)),
           req[t].id \in loose', req[t].id \in Ids
    PROVE  Atomic!Next
<1> DEFINE id == req[t].id
<1> USE DEF WholeInv, At
<1>1. UNCHANGED req /\ pc[t] # "idle" /\ pc'[t] # "idle"
    BY DEF PutLock, Step, PutCreate, PutWrite, PutRename, PutUpsert, PutUndo, GetRow, GetFile,
           ListQuery, DelSelect, DelRow, DelFile, FinishPut, Finish, Goto, StoreTyped
<1>2. \A u \in Threads \ {t} : pc'[u] = pc[u] /\ out'[u] = out[u]
    BY DEF PutLock, Step, PutCreate, PutWrite, PutRename, PutUpsert, PutUndo, GetRow, GetFile,
           ListQuery, DelSelect, DelRow, DelFile, FinishPut, Finish, Goto, StoreTyped
<1>3. \A i \in Ids \ {id} : row'[i] = row[i] /\ file'[i] = file[i]
    BY DEF PutLock, Step, PutCreate, PutWrite, PutRename, PutUpsert, PutUndo, GetRow, GetFile,
           ListQuery, DelSelect, DelRow, DelFile, disk, StoreTyped
<1>4. \A i \in Ids \ {id} : Visible'[i] = Visible[i]
    BY <1>3 DEF Visible, RowAt, HasRow
<1>5. ASSUME NEW u \in Threads, pc[u] # "idle", pc'[u] # "idle", req[u].id = id
      PROVE  CallSoFar(u).id = id /\ Atomic!SameCall(CallSoFar(u), CallSoFar(u)')
  <2>1. /\ CallSoFar(u).kind = req[u].kind /\ CallSoFar(u).id = req[u].id /\ CallSoFar(u).v = req[u].v
        /\ CallSoFar(u) # Atomic!Idle
      BY <1>5 DEF CallSoFar, Atomic!Idle
  <2>2. /\ CallSoFar(u)'.kind = req'[u].kind /\ CallSoFar(u)'.id = req'[u].id /\ CallSoFar(u)'.v = req'[u].v
        /\ CallSoFar(u)' # Atomic!Idle
      BY <1>5 DEF CallSoFar, Atomic!Idle
  <2>3. QED BY <1>1, <1>5, <2>1, <2>2 DEF Atomic!SameCall
<1>6. ASSUME NEW u \in Threads
      PROVE  \/ CallSoFar(u)' = CallSoFar(u)
             \/ CallSoFar(u).id = id /\ Atomic!SameCall(CallSoFar(u), CallSoFar(u)')
  <2>1. CASE u = t
      BY <1>1, <1>5, <2>1
  <2>2. CASE u # t /\ pc[u] # "idle" /\ req[u].id = id
      BY <1>2, <1>5, <2>2
  <2>3. CASE u # t /\ pc[u] = "idle"
      BY <1>2, <2>3 DEF CallSoFar
  <2>4. CASE u # t /\ pc[u] # "idle" /\ req[u].id # id
    <3>1. req[u].id \in Ids
        BY <2>4 DEF Running, Calls
    <3>2. pc[u] = "put.upsert" => (RowAt(req[u].id)' = "file" <=> RowAt(req[u].id) = "file")
        BY <1>1, <1>3, <2>4, <3>1 DEF RowAt, HasRow
    <3>3. QED BY <1>1, <1>2, <2>4, <3>2, Others
  <2>5. QED BY <2>1, <2>2, <2>3, <2>4
<1>7. Atomic!Loosened(id)
    BY <1>4, <1>6 DEF Atomic!Loosened
<1>8. QED BY <1>7, WatchMaps DEF Atomic!Next

(* The step that gives a call its answer.                                   *)
LEMMA CallAnswered ==
    ASSUME NEW t \in Threads, ~At(t, "idle"), ~Done(t), UNCHANGED req,
           NEW ret, NEW got, NEW ids,
           CallSoFar(t)' = [st |-> "done", kind |-> req[t].kind, id |-> req[t].id,
                            v |-> req[t].v, ret |-> ret, got |-> got, ids |-> ids],
           \A u \in Threads \ {t} : CallSoFar(u)' = CallSoFar(u)
    PROVE  /\ Atomic!Answer(t, ret, got, ids)
           /\ \A kinds : req[t].kind \in kinds => Atomic!Waiting(t, kinds)
<1>1. CallSoFar(t) = [st |-> "called", kind |-> req[t].kind, id |-> req[t].id, v |-> req[t].v]
    BY DEF CallSoFar
<1>2. /\ CallSoFar(t).st = "called" /\ CallSoFar(t).kind = req[t].kind
      /\ CallSoFar(t).id = req[t].id /\ CallSoFar(t).v = req[t].v
    BY <1>1
<1>3. Atomic!Answered(CallSoFar(t), ret, got, ids) = CallSoFar(t)'
    BY <1>2 DEF Atomic!Answered
<1>4. Atomic!Answer(t, ret, got, ids)
    BY <1>3 DEF Atomic!Answer
<1>5. QED BY <1>2, <1>4 DEF Atomic!Waiting

(* The steps of one call before its answer, and after it, are none of the   *)
(* map; the step with the answer is the one of the map.                     *)
LEMMA PutMaps ==
    ASSUME WholeInv, FileInv, CallInv, Note, Watch, NEW t \in Threads, req[t].id \notin loose',
           \/ PutLock(t) \/ PutCreate(t) \/ PutWrite(t) \/ PutRename(t)
           \/ PutUpsert(t) \/ PutUndo(t)
    PROVE  Atomic!Next
<1> DEFINE id == req[t].id
<1> USE DEF WholeInv, At
<1>1. /\ req[t].kind = "put" /\ id \in Ids /\ req[t].v \in Versions /\ UNCHANGED req
      /\ pc[t] \in PutLabels \union {"put.lock"}
    BY DEF PutLock, PutCreate, PutWrite, PutRename, PutUpsert, PutUndo, ReqOK, Executes,
           PutLabels, Calls, disk
<1>0. id \notin loose /\ ~UpdateFails(id)
    BY <1>1, Noting
<1>2. ASSUME pc[t] \in PutLabels PROVE \A u \in Threads \ {t} : pc[u] # "put.upsert"
    BY <1>2 DEF LockInv, PutLabels
<1>3. ASSUME pc[t] = "put.lock" \/ UNCHANGED row PROVE UNCHANGED row
    BY <1>3 DEF PutLock, PutCreate, PutWrite, PutRename, PutUpsert, PutUndo, disk
<1>4. \A u \in Threads \ {t} : pc'[u] = pc[u] /\ out'[u] = out[u]
    BY DEF PutLock, PutCreate, PutWrite, PutRename, PutUpsert, PutUndo,
           FinishPut, Finish, Goto, StoreTyped
<1>5. \A u \in Threads \ {t} : CallSoFar(u)' = CallSoFar(u)
    BY <1>1, <1>2, <1>3, <1>4, Others DEF RowAt, HasRow
<1>6. ASSUME FinishPut(t, "fault"), ~Replaced(t), UNCHANGED Visible
      PROVE  Atomic!Next
  <2>1. pc'[t] = "done" /\ out'[t] = [ret |-> "fault", got |-> Absent, ids |-> {}]
      BY <1>6 DEF FinishPut, Finish, Goto, StoreTyped
  <2>2. CallSoFar(t)' = [st |-> "done", kind |-> req[t].kind, id |-> req[t].id, v |-> req[t].v,
                         ret |-> "fault", got |-> Absent, ids |-> {}]
      BY <1>1, <2>1 DEF CallSoFar, Done, Replaced
  <2>3. ~Done(t) /\ pc[t] # "idle"
      BY <1>1, <1>6 DEF Done, PutLabels
  <2>4. Atomic!Answer(t, "fault", Absent, {}) /\ Atomic!Waiting(t, Atomic!Kinds)
      BY <1>1, <1>5, <2>2, <2>3, CallAnswered DEF Atomic!Kinds
  <2>5. Atomic!Fail(t)
      BY <1>6, <2>4 DEF Atomic!Fail
  <2>6. QED BY <2>5, WatchMaps DEF Atomic!Next
<1>7. ASSUME NEW label \in PutLabels, Goto(t, label), ~Replaced(t), UNCHANGED Visible,
             label = "put.upsert" => RowAt(id)' # "file"
      PROVE  Atomic!Next
  <2>1. pc'[t] = label
      BY <1>7 DEF Goto, StoreTyped
  <2>2. ~Done(t) /\ pc[t] # "idle" /\ ~Done(t)' /\ pc'[t] # "idle"
      BY <1>1, <1>7, <2>1 DEF Done, Replaced, PutLabels
  <2>3. CallSoFar(t)' = CallSoFar(t)
      BY <1>1, <2>2 DEF CallSoFar
  <2>4. QED BY <1>5, <1>7, <2>3, Stutters
<1>8. CASE PutLock(t)
  <2>1. ~Replaced(t) /\ UNCHANGED Visible
      BY <1>8 DEF PutLock, disk, Replaced, Visible, RowAt, HasRow
  <2>2. QED BY <1>8, <2>1, <1>6, <1>7 DEF PutLock, PutLabels
<1>9. CASE PutCreate(t)
  <2>1. ~Replaced(t) /\ UNCHANGED Visible
      BY <1>9 DEF PutCreate, Replaced, Visible, RowAt, HasRow
  <2>2. QED BY <1>9, <2>1, <1>6, <1>7 DEF PutCreate, PutLabels
<1>10. CASE PutWrite(t)
  <2>1. ~Replaced(t) /\ UNCHANGED Visible
      BY <1>10 DEF PutWrite, Replaced, Visible, RowAt, HasRow
  <2>2. QED BY <1>10, <2>1, <1>6, <1>7 DEF PutWrite, PutLabels
<1>11. CASE PutRename(t)
  <2>1. ~Replaced(t) /\ pc[t] = "put.rename" /\ UNCHANGED row /\ tmp[id] = req[t].v
      BY <1>11 DEF PutRename, Replaced, TmpReady
  <2>2. CASE UNCHANGED file /\ FinishPut(t, "fault")
    <3>1. UNCHANGED Visible
        BY <2>1, <2>2 DEF Visible, RowAt, HasRow
    <3>2. QED BY <2>1, <2>2, <3>1, <1>6
  <2>3. CASE file' = [file EXCEPT ![id] = tmp[id]] /\ Goto(t, "put.upsert") /\ RowAt(id) # "file"
    <3>1. \A i \in Ids : RowAt(i) = "file" => file'[i] = file[i]
        BY <1>1, <2>3 DEF StoreTyped
    <3>2. UNCHANGED Visible
        BY <2>1, <3>1 DEF Visible, RowAt, HasRow
    <3>3. RowAt(id)' # "file"
        BY <1>1, <2>1, <2>3 DEF RowAt, HasRow
    <3>4. QED BY <2>1, <2>3, <3>2, <3>3, <1>7 DEF PutLabels
  <2>4. CASE file' = [file EXCEPT ![id] = tmp[id]] /\ Goto(t, "put.upsert") /\ RowAt(id) = "file"
    <3>1. Visible' = [Visible EXCEPT ![id] = req[t].v]
        BY <1>1, <2>1, <2>4 DEF Visible, RowAt, HasRow, StoreTyped
    <3>2. pc'[t] = "put.upsert" /\ Replaced(t)'
        BY <1>1, <2>1, <2>4 DEF Goto, Replaced, RowAt, HasRow, StoreTyped
    <3>3. CallSoFar(t)' = [st |-> "done", kind |-> req[t].kind, id |-> req[t].id, v |-> req[t].v,
                           ret |-> "ok", got |-> Absent, ids |-> {}]
        BY <1>1, <3>2 DEF CallSoFar, Done, PutOk
    <3>4. ~Done(t) /\ pc[t] # "idle"
        BY <2>1 DEF Done
    <3>5. Atomic!Answer(t, "ok", Absent, {}) /\ Atomic!Waiting(t, {"put"})
        BY <1>1, <1>5, <3>3, <3>4, CallAnswered
    <3>6. CallSoFar(t).id = id /\ CallSoFar(t).v = req[t].v
        BY <3>4 DEF CallSoFar
    <3>7. Atomic!Put(t)
        BY <3>1, <3>5, <3>6 DEF Atomic!Put
    <3>8. QED BY <3>7, WatchMaps DEF Atomic!Next
  <2>5. QED BY <1>11, <2>2, <2>3, <2>4 DEF PutRename
<1>12. CASE PutUpsert(t)
  <2>1. pc[t] = "put.upsert" /\ UNCHANGED file /\ file[id] = req[t].v
      BY <1>0, <1>12 DEF PutUpsert, CallInv, UpsertWhole
  <2>2. CASE row' = [row EXCEPT ![id] = [at |-> "file", v |-> req[t].v]] /\ FinishPut(t, "ok")
    <3>1. req[t].v \in Nat
        BY <1>1 DEF Versions
    <3>2. RowAt(id)' = "file" /\ \A i \in Ids : i # id => row'[i] = row[i]
        BY <1>1, <2>2, <3>1, ConstantsAssumption DEF RowAt, HasRow, StoreTyped
    <3>3. Visible' = [Visible EXCEPT ![id] = req[t].v]
        BY <1>1, <2>1, <3>2 DEF Visible, RowAt, HasRow, StoreTyped
    <3>4. pc'[t] = "done" /\ out'[t] = PutOk
        BY <2>2 DEF FinishPut, Finish, Goto, PutOk, StoreTyped
    <3>5. CallSoFar(t)' = [st |-> "done", kind |-> req[t].kind, id |-> req[t].id, v |-> req[t].v,
                           ret |-> "ok", got |-> Absent, ids |-> {}]
      <4>1. Done(t)' /\ ~Replaced(t)' /\ ~At(t, "idle")'
          BY <3>4 DEF Done, Replaced
      <4>2. out'[t].ret = "ok" /\ out'[t].got = Absent /\ out'[t].ids = {}
          BY <3>4 DEF PutOk
      <4>3. UNCHANGED req
          BY <1>1
      <4>4. QED BY <4>1, <4>2, <4>3 DEF CallSoFar
    <3>6. CASE RowAt(id) = "file"
      <4>1. Visible' = Visible
          BY <1>1, <2>1, <3>3, <3>6 DEF Visible
      <4>2. CallSoFar(t)' = CallSoFar(t)
          BY <2>1, <3>5, <3>6 DEF CallSoFar, Done, Replaced, PutOk
      <4>3. QED BY <1>5, <4>1, <4>2, Stutters
    <3>7. CASE RowAt(id) # "file"
      <4>1. ~Done(t) /\ pc[t] # "idle"
          BY <2>1, <3>7 DEF Done, Replaced
      <4>2. Atomic!Answer(t, "ok", Absent, {}) /\ Atomic!Waiting(t, {"put"})
          BY <1>1, <1>5, <3>5, <4>1, CallAnswered
      <4>3. CallSoFar(t).id = id /\ CallSoFar(t).v = req[t].v
          BY <4>1 DEF CallSoFar
      <4>4. Atomic!Put(t)
          BY <3>3, <4>2, <4>3 DEF Atomic!Put
      <4>5. QED BY <4>4, WatchMaps DEF Atomic!Next
    <3>8. QED BY <3>6, <3>7
  <2>3. CASE UNCHANGED row /\ Goto(t, "put.undo")
    <3>1. ~Replaced(t)
        BY <1>0, <2>1, <2>3 DEF Replaced, UpdateFails, In, Goto, StoreTyped
    <3>2. UNCHANGED Visible
        BY <2>1, <2>3 DEF Visible, RowAt, HasRow
    <3>3. QED BY <2>3, <3>1, <3>2, <1>7 DEF PutLabels
  <2>4. QED BY <1>12, <2>2, <2>3 DEF PutUpsert
<1>13. CASE PutUndo(t)
  <2>1. ~Replaced(t) /\ UNCHANGED row /\ FinishPut(t, "fault") /\ RowAt(id) # "file"
      BY <1>0, <1>13 DEF PutUndo, Replaced, FileInv, UndoNoRow
  <2>2. \A i \in Ids : RowAt(i) = "file" => file'[i] = file[i]
      BY <1>13, <2>1 DEF PutUndo, StoreTyped
  <2>3. UNCHANGED Visible
      BY <2>1, <2>2 DEF Visible, RowAt, HasRow
  <2>4. QED BY <2>1, <2>3, <1>6
<1>14. QED BY <1>8, <1>9, <1>10, <1>11, <1>12, <1>13

(* The answer of a step that keeps every payload: where the code returns.   *)
LEMMA FinishMaps ==
    ASSUME WholeInv, NEW t \in Threads, NEW ret, NEW got, NEW ids,
           pc[t] \in {"get.row", "get.file", "list.query", "del.row"},
           Finish(t, ret, got, ids), UNCHANGED <<row, req>>
    PROVE  /\ \A u \in Threads \ {t} : CallSoFar(u)' = CallSoFar(u)
           /\ Atomic!Answer(t, ret, got, ids)
           /\ \A kinds : req[t].kind \in kinds => Atomic!Waiting(t, kinds)
           /\ CallSoFar(t).id = req[t].id
<1> USE DEF At
<1>1. /\ pc' = [pc EXCEPT ![t] = "done"]
      /\ out' = [out EXCEPT ![t] = [ret |-> ret, got |-> got, ids |-> ids]]
    BY DEF Finish, Goto
<1>2. \A u \in Threads \ {t} : CallSoFar(u)' = CallSoFar(u)
    BY <1>1, Others DEF WholeInv, StoreTyped, RowAt, HasRow
<1>3. ~Done(t) /\ pc[t] # "idle"
    BY DEF Done, Replaced
<1>4. pc'[t] = "done" /\ out'[t] = [ret |-> ret, got |-> got, ids |-> ids]
    BY <1>1 DEF WholeInv, StoreTyped
<1>5. CallSoFar(t)' = [st |-> "done", kind |-> req[t].kind, id |-> req[t].id,
                       v |-> req[t].v, ret |-> ret, got |-> got, ids |-> ids]
    BY <1>4 DEF CallSoFar, Done, Replaced
<1>6. Atomic!Answer(t, ret, got, ids) /\ \A kinds : req[t].kind \in kinds => Atomic!Waiting(t, kinds)
    BY <1>2, <1>3, <1>5, CallAnswered
<1>7. CallSoFar(t).id = req[t].id
    BY <1>3 DEF CallSoFar
<1>8. QED BY <1>2, <1>6, <1>7

LEMMA ReadMaps ==
    ASSUME WholeInv, FileInv, CallInv, GetReady, SawNow, Note, Watch, NEW t \in Threads,
           GetRow(t) \/ GetFile(t) \/ ListQuery(t), GetFile(t) => req[t].id \notin loose'
    PROVE  Atomic!Next
<1> DEFINE id == req[t].id
<1> USE DEF WholeInv, At
<1>1. UNCHANGED <<row, file, req>> /\ UNCHANGED Visible
    BY DEF GetRow, GetFile, ListQuery, disk, Visible, RowAt, HasRow
<1>2. pc[t] \in {"get.row", "get.file", "list.query"} /\ id \in Ids
    BY DEF GetRow, GetFile, ListQuery, ReqOK, Executes, Calls
<1>3. Visible[id] \in saw[t]
    BY <1>2 DEF SawNow
<1>4. ASSUME Finish(t, "fault", Absent, {}), req[t].kind \in {"get", "list", "count"}
      PROVE  Atomic!Next
  <2>1. Atomic!Fail(t)
      BY <1>1, <1>2, <1>4, FinishMaps DEF Atomic!Fail, Atomic!Kinds
  <2>2. QED BY <2>1, WatchMaps DEF Atomic!Next
<1>5. ASSUME NEW ret \in {"notfound", "gone"}, Finish(t, ret, Absent, {}),
             req[t].kind = "get", Absent \in saw[t]
      PROVE  Atomic!Next
  <2>1. Atomic!Get(t)
      BY <1>1, <1>2, <1>5, FinishMaps DEF Atomic!Get
  <2>2. QED BY <2>1, WatchMaps DEF Atomic!Next
<1>6. ASSUME NEW v \in saw[t] \ {Absent}, Finish(t, "ok", v, {}), req[t].kind = "get"
      PROVE  Atomic!Next
  <2>1. Atomic!Get(t)
      BY <1>1, <1>2, <1>6, FinishMaps DEF Atomic!Get
  <2>2. QED BY <2>1, WatchMaps DEF Atomic!Next
<1>7. CASE GetRow(t)
  <2>1. req[t].kind = "get" /\ pc[t] = "get.row"
      BY <1>7 DEF GetRow, ReqOK, Executes
  <2>2. CASE ~HasRow(id) /\ Finish(t, "notfound", Absent, {})
    <3>1. Visible[id] = Absent
        BY <1>2, <2>2 DEF Visible, RowAt
    <3>2. QED BY <1>3, <1>5, <2>1, <2>2, <3>1
  <2>3. CASE RowAt(id) = "inline" /\ Finish(t, "ok", row[id].v, {})
    <3>1. row[id] \in Rows
        BY <1>2, <2>3 DEF RowAt, HasRow, StoreTyped
    <3>2. Visible[id] = row[id].v /\ row[id].v # Absent
        BY <1>2, <2>3, <3>1, VersionsApart DEF Visible, Rows
    <3>3. QED BY <1>3, <1>6, <2>1, <2>3, <3>2
  <2>4. CASE RowAt(id) = "file" /\ Goto(t, "get.file") /\ UNCHANGED out
    <3>1. pc' = [pc EXCEPT ![t] = "get.file"]
        BY <2>4 DEF Goto
    <3>2. \A u \in Threads \ {t} : CallSoFar(u)' = CallSoFar(u)
        BY <1>1, <2>4, <3>1, Others DEF StoreTyped, RowAt, HasRow
    <3>3. pc'[t] = "get.file"
        BY <3>1 DEF StoreTyped
    <3>4. CallSoFar(t)' = CallSoFar(t)
        BY <1>1, <2>1, <3>3 DEF CallSoFar, Done, Replaced
    <3>5. QED BY <1>1, <3>2, <3>4, Stutters
  <2>5. QED BY <1>4, <1>7, <2>1, <2>2, <2>3, <2>4 DEF GetRow
<1>8. CASE GetFile(t)
  <2>1. req[t].kind = "get" /\ pc[t] = "get.file"
      BY <1>8 DEF GetFile, ReqOK, Executes
  <2>2. RowAt(id) # "inline" /\ (HasRow(id) \/ file[id] \in saw[t] \union {Absent})
      BY <1>8, <2>1, Noting DEF GetReady
  <2>3. CASE file[id] = Absent /\ Finish(t, "gone", Absent, {})
    <3>1. Visible[id] = Absent
        BY <1>2, <2>2, <2>3 DEF Visible
    <3>2. QED BY <1>3, <1>5, <2>1, <2>3, <3>1
  <2>4. CASE file[id] # Absent /\ Finish(t, "ok", file[id], {})
    <3>1. RowAt(id) \in {"none", "inline", "file"}
        BY <1>2 DEF RowAt, HasRow, StoreTyped, Rows
    <3>2. file[id] \in saw[t]
        BY <1>2, <1>3, <2>2, <2>4, <3>1 DEF Visible, RowAt, HasRow, StoreTyped, Rows
    <3>3. QED BY <1>6, <2>1, <2>4, <3>2
  <2>5. QED BY <1>8, <2>3, <2>4 DEF GetFile
<1>9. CASE ListQuery(t)
  <2>1. req[t].kind \in {"list", "count"} /\ pc[t] = "list.query"
      BY <1>9 DEF ListQuery, ReqOK, Executes
  <2>2. CASE Finish(t, "ok", Absent, {i \in Ids : HasRow(i)})
    <3>1. \A i \in Ids \ loose : HasRow(i) <=> Visible[i] # Absent
        BY VersionsApart DEF FileInv, RowHasFile, Visible, RowAt, HasRow, StoreTyped, Rows
    <3>2. {i \in Ids : HasRow(i)} \ loose = Atomic!Present \ loose
        BY <3>1 DEF Atomic!Present
    <3>3. Atomic!Answer(t, "ok", Absent, {i \in Ids : HasRow(i)}) /\ Atomic!Waiting(t, {"list", "count"})
        BY <1>1, <1>2, <2>1, <2>2, FinishMaps
    <3>4. \E ids \in SUBSET Ids : /\ ids \ loose = Atomic!Present \ loose
                                 /\ Atomic!Answer(t, "ok", Absent, ids)
      <4> WITNESS {i \in Ids : HasRow(i)} \in SUBSET Ids
      <4>1. QED BY <3>2, <3>3
    <3>5. Atomic!List(t)
        BY <1>1, <3>3, <3>4 DEF Atomic!List
    <3>6. QED BY <3>5, WatchMaps DEF Atomic!Next
  <2>3. QED BY <1>4, <1>9, <2>1, <2>2 DEF ListQuery
<1>10. QED BY <1>7, <1>8, <1>9

LEMMA DeleteMaps ==
    ASSUME WholeInv, FileInv, Note, Watch, NEW t \in Threads, req[t].id \notin loose',
           DelSelect(t) \/ DelRow(t) \/ DelFile(t)
    PROVE  Atomic!Next
<1> DEFINE id == req[t].id
<1> USE DEF WholeInv, At
<1>1. req[t].kind = "delete" /\ id \in Ids /\ UNCHANGED req
    BY DEF DelSelect, DelRow, DelFile, ReqOK, Executes, Calls
<1>0. id \notin loose
    BY Noting
<1>2. \A u \in Threads : pc[u] = "put.upsert" => req[u].id \in Ids /\ req[u].id # id
  <2>1. \A u \in Threads : pc[u] = "put.upsert" => req[u].id \in Ids /\ req[u].kind = "put"
      BY DEF ReqOK, Executes, PutLabels, Calls
  <2>2. QED BY <1>0, <1>1, <2>1, CallsApart DEF FileInv
<1>3. \A i \in Ids : i # id => row'[i] = row[i]
    BY DEF DelSelect, DelRow, DelFile, disk, StoreTyped
<1>4. \A u \in Threads \ {t} : pc'[u] = pc[u] /\ out'[u] = out[u]
    BY DEF DelSelect, DelRow, DelFile, Finish, Goto, StoreTyped
<1>5. \A u \in Threads \ {t} : CallSoFar(u)' = CallSoFar(u)
    BY <1>1, <1>2, <1>3, <1>4, Others DEF RowAt, HasRow
<1>6. CASE DelSelect(t)
  <2>1. UNCHANGED Visible
      BY <1>6 DEF DelSelect, disk, Visible, RowAt, HasRow
  <2>2. pc[t] = "del.select" /\ pc'[t] = "del.row"
      BY <1>6 DEF DelSelect, Goto, StoreTyped
  <2>3. CallSoFar(t)' = CallSoFar(t)
      BY <1>1, <2>2 DEF CallSoFar, Done, Replaced
  <2>4. QED BY <1>5, <2>1, <2>3, Stutters
<1>7. CASE DelRow(t)
  <2>1. pc[t] = "del.row" /\ UNCHANGED file
      BY <1>7 DEF DelRow
  <2>2. CASE ~HasRow(id) /\ Finish(t, "notfound", Absent, {}) /\ UNCHANGED row
    <3>1. UNCHANGED Visible /\ Visible[id] = Absent
        BY <1>1, <2>1, <2>2 DEF Visible, RowAt, HasRow
    <3>2. Atomic!DeleteNothing(t)
        BY <1>1, <2>1, <2>2, <3>1, FinishMaps DEF Atomic!DeleteNothing
    <3>3. QED BY <3>2, WatchMaps DEF Atomic!Next
  <2>3. CASE Finish(t, "fault", Absent, {}) /\ UNCHANGED row
    <3>1. UNCHANGED Visible
        BY <2>1, <2>3 DEF Visible, RowAt, HasRow
    <3>2. Atomic!Fail(t)
        BY <1>1, <2>1, <2>3, <3>1, FinishMaps DEF Atomic!Fail, Atomic!Kinds
    <3>3. QED BY <3>2, WatchMaps DEF Atomic!Next
  <2>4. CASE /\ HasRow(id) /\ row' = [row EXCEPT ![id] = Absent]
             /\ out' = [out EXCEPT ![t] = [ret |-> "ok", got |-> Absent, ids |-> {}]]
             /\ Goto(t, IF seen[t] = "file" THEN "del.file" ELSE "done")
    <3>1. Visible[id] # Absent
        BY <1>0, <1>1, <2>4, VersionsApart DEF FileInv, RowHasFile, Visible, RowAt, HasRow, StoreTyped, Rows
    <3>2. RowAt(id)' = "none"
        BY <1>1, <2>4 DEF RowAt, HasRow, StoreTyped
    <3>3. Visible' = [Visible EXCEPT ![id] = Absent]
        BY <1>1, <1>3, <2>1, <3>2 DEF Visible, RowAt, HasRow
    <3>4. pc'[t] \in {"del.file", "done"} /\ out'[t] = [ret |-> "ok", got |-> Absent, ids |-> {}]
        BY <2>4 DEF Goto, StoreTyped
    <3>5. CallSoFar(t)' = [st |-> "done", kind |-> req[t].kind, id |-> req[t].id, v |-> req[t].v,
                           ret |-> "ok", got |-> Absent, ids |-> {}]
        BY <1>1, <3>4 DEF CallSoFar, Done, Replaced
    <3>6. ~Done(t) /\ pc[t] # "idle"
        BY <2>1 DEF Done, Replaced
    <3>7. Atomic!Answer(t, "ok", Absent, {}) /\ Atomic!Waiting(t, {"delete"})
        BY <1>1, <1>5, <3>5, <3>6, CallAnswered
    <3>8. CallSoFar(t).id = id
        BY <3>6 DEF CallSoFar
    <3>9. Atomic!Delete(t)
        BY <3>1, <3>3, <3>7, <3>8 DEF Atomic!Delete
    <3>10. QED BY <3>9, WatchMaps DEF Atomic!Next
  <2>5. QED BY <1>7, <2>2, <2>3, <2>4 DEF DelRow
<1>8. CASE DelFile(t)
  <2>1. pc[t] = "del.file" /\ pc'[t] = "done" /\ UNCHANGED <<row, out>>
      BY <1>8 DEF DelFile, Goto, StoreTyped
  <2>2. RowAt(id) # "file" /\ \A i \in Ids : i # id => file'[i] = file[i]
      BY <1>0, <1>8, <2>1 DEF DelFile, FileInv, GoneRow, StoreTyped
  <2>3. UNCHANGED Visible
      BY <2>1, <2>2 DEF Visible, RowAt, HasRow
  <2>4. CallSoFar(t)' = CallSoFar(t)
      BY <1>1, <2>1 DEF CallSoFar, Done, Replaced
  <2>5. QED BY <1>5, <2>3, <2>4, Stutters
<1>9. QED BY <1>6, <1>7, <1>8

LEMMA CallMaps ==
    ASSUME WholeInv, CallInv, Note, Watch, NEW t \in Threads, Call(t) \/ Return(t)
    PROVE  Atomic!Next
<1> USE DEF WholeInv, At
<1>1. UNCHANGED <<row, file>> /\ UNCHANGED Visible
    BY DEF Call, PutCall, GetCall, DeleteCall, ListCall, Invoke, Return, disk,
           Visible, RowAt, HasRow
<1>2. \A u \in Threads \ {t} : pc'[u] = pc[u] /\ out'[u] = out[u] /\ req'[u] = req[u]
    BY DEF Call, PutCall, GetCall, DeleteCall, ListCall, Invoke, Return, Goto, StoreTyped
<1>3. \A u \in Threads \ {t} : CallSoFar(u)' = CallSoFar(u)
    BY <1>1, <1>2, Others DEF RowAt, HasRow
<1>4. ASSUME NEW kind \in Atomic!Kinds, NEW id \in Ids, NEW v \in Versions,
             NEW label \in {"put.lock", "get.row", "list.query", "del.select"},
             Invoke(t, kind, id, v, label)
      PROVE  Atomic!Next
  <2>1. pc[t] = "idle" /\ pc'[t] = label /\ req'[t] = [kind |-> kind, id |-> id, v |-> v]
      BY <1>4 DEF Invoke, Goto, StoreTyped
  <2>2. CallSoFar(t) = Atomic!Idle
      BY <2>1, IdleCalls
  <2>3. CallSoFar(t)' = Atomic!Called(kind, id, v)
      BY <2>1 DEF CallSoFar, Done, Replaced, Atomic!Called
  <2>4. Atomic!Call(t)
      BY <1>1, <1>3, <2>2, <2>3 DEF Atomic!Call
  <2>5. QED BY <2>4, WatchMaps DEF Atomic!Next
<1>5. CASE Call(t)
  <2>1. (CHOOSE id \in Ids : TRUE) \in Ids /\ 0 \in Versions
      BY ConstantsAssumption DEF Versions
  <2>2. ASSUME NEW id \in Ids, PutCall(t, id) PROVE Atomic!Next
    <3>1. puts + 1 \in Versions
        BY <2>2, ConstantsAssumption DEF PutCall, StoreTyped, Versions
    <3>2. QED BY <2>2, <3>1, <1>4 DEF PutCall, Atomic!Kinds
  <2>3. QED BY <1>4, <1>5, <2>1, <2>2 DEF Call, GetCall, DeleteCall, ListCall, Atomic!Kinds
<1>6. CASE Return(t)
  <2>1. pc[t] = "done" /\ pc'[t] = "idle"
      BY <1>6 DEF Return, Goto, StoreTyped
  <2>2. CallSoFar(t)' = Atomic!Idle
      BY <2>1, IdleCallsNext
  <2>3. CallSoFar(t).st = "done"
      BY <2>1 DEF CallSoFar, Done
  <2>4. Atomic!Return(t)
      BY <1>1, <1>3, <2>2, <2>3 DEF Atomic!Return
  <2>5. QED BY <2>4, WatchMaps DEF Atomic!Next
<1>7. QED BY <1>5, <1>6

LEMMA CrashMaps == ASSUME Note, Watch, Crash PROVE Atomic!Next
<1>1. UNCHANGED Visible
    BY DEF Crash, disk, Visible, RowAt, HasRow
<1>2. \A u \in Threads : pc'[u] = "idle"
    BY DEF Crash
<1>3. \A u \in Threads : CallSoFar(u)' = Atomic!Idle
    BY <1>2, IdleCallsNext
<1>4. Atomic!Crash
    BY <1>1, <1>3 DEF Atomic!Crash
<1>5. QED BY <1>4, WatchMaps DEF Atomic!Next

-----------------------------------------------------------------------------
(* The store implements the atomic map, for every number of goroutines,     *)
(* jobs, calls, failures and crashes: a call takes effect at one instant or *)
(* fails and has changed nothing, a crash loses no saved job and revives no *)
(* deleted one; and a clash of two calls on one job, or a failed update of  *)
(* its row, is the end of that for this job alone.                          *)
THEOREM StoreIsAtomicMap == HSpec => Linearizable
<1> DEFINE HInit == Init /\ saw = [t \in Threads |-> {}]
           Inv == WholeInv /\ FileInv /\ MapInv
<1>1. HInit => Inv
    BY WholeInit, FileInit, CallInit, MapInit DEF MapInv
<1>2. Inv /\ [Next /\ Note /\ Watch]_<<vars, noted, saw>> => Inv'
  <2> SUFFICES ASSUME Inv, [Next /\ Note /\ Watch]_<<vars, noted, saw>> PROVE Inv'
      OBVIOUS
  <2>1. [Next /\ Note]_<<vars, noted>>
      OBVIOUS
  <2>2. WholeInv' /\ FileInv' /\ CallInv'
      BY <2>1, StepNoted, TypeNext, MutexNext, FileSteps, CallNext DEF WholeInv, MapInv
  <2>3. CASE Next /\ Note /\ Watch
      BY <2>2, <2>3, GetKept, SawKept DEF MapInv
  <2>4. CASE UNCHANGED <<vars, noted, saw>>
    <3>1. UNCHANGED <<pc, req, file, row, saw, loose>>
        BY <2>4 DEF vars, noted
    <3>2. UNCHANGED Visible
        BY <3>1 DEF Visible, RowAt, HasRow
    <3>3. GetReady'
        BY <3>1 DEF MapInv, GetReady, RowAt, HasRow
    <3>4. SawNow'
        BY <3>1, <3>2 DEF MapInv, SawNow
    <3>5. QED BY <2>2, <3>3, <3>4 DEF MapInv
  <2>5. QED BY <2>3, <2>4
<1>3. HInit => Atomic!Init
  <2> SUFFICES ASSUME HInit PROVE Atomic!Init
      OBVIOUS
  <2>1. \A t \in Threads : CallSoFar(t) = Atomic!Idle
      BY IdleCalls DEF Init
  <2>2. Visible \in [Ids -> Versions \union {Absent}] /\ loose = {}
      BY ConstantsAssumption DEF Init, Visible, RowAt, HasRow, Versions
  <2>3. QED BY <2>1, <2>2 DEF Atomic!Init
<1>4. Inv /\ [Next /\ Note /\ Watch]_<<vars, noted, saw>> => [Atomic!Next]_(Atomic!vars)
  <2> SUFFICES ASSUME Inv, [Next /\ Note /\ Watch]_<<vars, noted, saw>>
               PROVE  Atomic!Next \/ UNCHANGED Atomic!vars
      OBVIOUS
  <2>1. ASSUME NEW t \in Threads, Call(t) \/ PutLock(t) \/ Step(t), Note, Watch
        PROVE  Atomic!Next
    <3>1. CASE Call(t) \/ Return(t)
        BY <2>1, <3>1, CallMaps DEF MapInv
    <3>2. CASE GetRow(t) \/ ListQuery(t)
      <4>1. ~GetFile(t)
          BY <3>2 DEF GetRow, ListQuery, GetFile, At
      <4>2. QED BY <2>1, <3>2, <4>1, ReadMaps DEF MapInv
    <3>3. CASE /\ ~Call(t) /\ ~Return(t) /\ ~GetRow(t) /\ ~ListQuery(t)
      <4>1. req[t].id \in Ids
          BY <2>1, <3>3 DEF Step, PutLock, PutCreate, PutWrite, PutRename, PutUpsert, PutUndo,
                            GetFile, DelSelect, DelRow, DelFile, At, WholeInv, ReqOK, Executes,
                            PutLabels, Calls
      <4>2. CASE req[t].id \in loose'
          BY <2>1, <3>3, <4>1, <4>2, LooseMaps DEF MapInv, CallInv
      <4>3. CASE req[t].id \notin loose'
          BY <2>1, <3>3, <4>3, PutMaps, ReadMaps, DeleteMaps DEF Step, MapInv
      <4>4. QED BY <4>2, <4>3
    <3>4. QED BY <3>1, <3>2, <3>3
  <2>2. CASE Next /\ Note /\ Watch
      BY <2>1, <2>2, CrashMaps DEF Next
  <2>3. CASE UNCHANGED <<vars, noted, saw>>
    <3>1. UNCHANGED <<row, file, pc, req, out, loose, saw>>
        BY <2>3 DEF vars, noted
    <3>2. \A u \in Threads : CallSoFar(u)' = CallSoFar(u)
        BY <3>1, Others DEF RowAt, HasRow
    <3>3. UNCHANGED Visible
        BY <3>1 DEF Visible, RowAt, HasRow
    <3>4. QED BY <3>1, <3>2, <3>3 DEF Atomic!vars
  <2>4. QED BY <2>2, <2>3
<1>5. QED
    BY <1>1, <1>2, <1>3, <1>4, PTL DEF HSpec, Linearizable, Atomic!Spec

-----------------------------------------------------------------------------
(* What is left on the disk.  A Put between two of its steps holds what it  *)
(* will clear away: a temporary file, a file whose row is not written yet.  *)
(* Only a missed clean-up leaves either.                                    *)
Holds(id, labels) == \E t \in Threads : In(t, id, labels)

OldRow(id) ==
    /\ RowAt(id) = "file" /\ file[id] \notin {Absent, row[id].v}
    /\ ~Holds(id, {"put.upsert", "put.undo"})
TmpLeft(id) == tmp[id] # Absent /\ ~Holds(id, {"put.write", "put.rename"})

(* Between rename and upsert only a Delete touches the file.                *)
UpsertOwn ==
    \A t \in Threads : pc[t] = "put.upsert" => file[req[t].id] \in {req[t].v, Absent}

LeftInv == UpsertOwn /\ \A id \in Ids \ unswept : ~OldRow(id) /\ ~TmpLeft(id)

LEMMA LeftInit == Init => LeftInv
BY DEF Init, LeftInv, UpsertOwn, OldRow, TmpLeft, RowAt, HasRow

(* A Put leaves to others what another step leaves to Puts.                 *)
LEMMA OutsideLeaves ==
    ASSUME WholeInv, UpsertOwn, NEW t \in Threads, pc[t] \notin PutLabels,
           NEW label \in Labels \ {"put.write", "put.rename", "put.upsert", "put.undo"},
           pc' = [pc EXCEPT ![t] = label], UNCHANGED tmp,
           \A u \in Threads \ {t} : req'[u] = req[u],
           \A id \in Ids : /\ file'[id] \in {file[id], Absent}
                           /\ row'[id] \in {row[id], Absent}
    PROVE  /\ UpsertOwn'
           /\ \A id \in Ids : (OldRow(id)' => OldRow(id)) /\ (TmpLeft(id)' => TmpLeft(id))
<1> USE DEF WholeInv
<1>1. \A u \in Threads : pc[u] = "put.upsert" => req[u].id \in Ids
    BY DEF ReqOK, Executes, PutLabels, Calls
<1>2. UpsertOwn'
    BY <1>1 DEF UpsertOwn, StoreTyped
<1>3. \A id : /\ Holds(id, {"put.upsert", "put.undo"}) => Holds(id, {"put.upsert", "put.undo"})'
              /\ Holds(id, {"put.write", "put.rename"}) => Holds(id, {"put.write", "put.rename"})'
    BY DEF Holds, In, PutLabels, StoreTyped
<1>4. ASSUME NEW id \in Ids, OldRow(id)' PROVE OldRow(id)
    BY <1>3, <1>4 DEF OldRow, RowAt, HasRow
<1>5. ASSUME NEW id \in Ids, TmpLeft(id)' PROVE TmpLeft(id)
    BY <1>3, <1>5 DEF TmpLeft
<1>6. QED BY <1>2, <1>4, <1>5

(* A step of a Put touches what belongs to its job.                         *)
LEMMA PutLeaves ==
    ASSUME WholeInv, UpsertOwn, Note, NEW t \in Threads,
           \/ PutCreate(t) \/ PutWrite(t) \/ PutRename(t) \/ PutUpsert(t) \/ PutUndo(t)
    PROVE  /\ UpsertOwn'
           /\ \A id \in Ids \ unswept' : (OldRow(id)' => OldRow(id)) /\ (TmpLeft(id)' => TmpLeft(id))
<1> DEFINE mine == req[t].id
           Goal == /\ UpsertOwn'
                   /\ \A id \in Ids \ unswept' : (OldRow(id)' => OldRow(id)) /\ (TmpLeft(id)' => TmpLeft(id))
<1> USE DEF WholeInv, At
<1>1. /\ pc[t] \in PutLabels /\ mine \in Ids /\ req[t].v \in Versions /\ UNCHANGED req
      /\ \E label \in Labels : pc' = [pc EXCEPT ![t] = label]
    BY DEF PutCreate, PutWrite, PutRename, PutUpsert, PutUndo, FinishPut, Finish, Goto,
           ReqOK, Executes, PutLabels, Labels, Calls
<1>2. \A u \in Threads \ {t} : pc[u] \notin PutLabels /\ pc'[u] = pc[u]
    BY <1>1 DEF LockInv, StoreTyped
<1>0. mine \notin unswept' => ~SweepMissed(mine)
    BY <1>1, Noting
<1>3. \A labels \in SUBSET PutLabels : \A id :
          /\ Holds(id, labels) <=> id = mine /\ pc[t] \in labels
          /\ Holds(id, labels)' <=> id = mine /\ pc'[t] \in labels
    BY <1>1, <1>2 DEF Holds, In
<1>4. \A id : /\ Holds(id, {"put.upsert", "put.undo"}) <=> id = mine /\ pc[t] \in {"put.upsert", "put.undo"}
              /\ Holds(id, {"put.upsert", "put.undo"})' <=> id = mine /\ pc'[t] \in {"put.upsert", "put.undo"}
              /\ Holds(id, {"put.write", "put.rename"}) <=> id = mine /\ pc[t] \in {"put.write", "put.rename"}
              /\ Holds(id, {"put.write", "put.rename"})' <=> id = mine /\ pc'[t] \in {"put.write", "put.rename"}
    BY <1>3 DEF PutLabels
<1>5. \A id \in Ids \ {mine} : row'[id] = row[id] /\ file'[id] = file[id] /\ tmp'[id] = tmp[id]
    BY DEF PutCreate, PutWrite, PutRename, PutUpsert, PutUndo, DropTmp, StoreTyped
<1>6. ASSUME mine \notin unswept' => /\ OldRow(mine)' => OldRow(mine)
                                     /\ TmpLeft(mine)' => TmpLeft(mine),
             pc'[t] = "put.upsert" => file'[mine] \in {req[t].v, Absent}
      PROVE  Goal
  <2>1. UpsertOwn'
      BY <1>1, <1>2, <1>6 DEF UpsertOwn, PutLabels
  <2>2. ASSUME NEW id \in Ids \ {mine}
        PROVE  (OldRow(id)' => OldRow(id)) /\ (TmpLeft(id)' => TmpLeft(id))
      BY <1>4, <1>5 DEF OldRow, TmpLeft, RowAt, HasRow
  <2>3. ASSUME NEW id \in Ids \ unswept'
        PROVE  (OldRow(id)' => OldRow(id)) /\ (TmpLeft(id)' => TmpLeft(id))
    <3>1. CASE id = mine
      <4>1. OldRow(id)' = OldRow(mine)' /\ TmpLeft(id)' = TmpLeft(mine)'
          BY <1>1, <3>1
      <4>2. QED BY <1>6, <2>3, <3>1, <4>1
    <3>2. CASE id # mine
        BY <2>2, <3>2
    <3>3. QED BY <3>1, <3>2
  <2>4. QED BY <2>1, <2>3
<1>7. CASE PutCreate(t)
  <2>1. pc[t] = "put.create" /\ UNCHANGED <<row, file>>
      BY <1>7 DEF PutCreate
  <2>2. pc'[t] = "put.write" \/ (pc'[t] = "done" /\ UNCHANGED tmp)
      BY <1>7 DEF PutCreate, FinishPut, Finish, Goto, StoreTyped
  <2>3. QED BY <1>1, <1>4, <1>6, <2>1, <2>2 DEF OldRow, TmpLeft, RowAt, HasRow
<1>8. CASE PutWrite(t)
  <2>1. pc[t] = "put.write" /\ UNCHANGED <<row, file>>
      BY <1>8 DEF PutWrite
  <2>2. \/ pc'[t] = "put.rename"
        \/ pc'[t] = "done" /\ (tmp'[mine] = Absent \/ SweepMissed(mine))
      BY <1>1, <1>8, <2>1 DEF PutWrite, FinishPut, Finish, Goto, SweepMissed, In, StoreTyped
  <2>3. QED BY <1>0, <1>1, <1>4, <1>6, <2>1, <2>2 DEF OldRow, TmpLeft, RowAt, HasRow
<1>9. CASE PutRename(t)
  <2>1. pc[t] = "put.rename" /\ UNCHANGED row
      BY <1>9 DEF PutRename
  <2>2. \/ pc'[t] = "put.upsert" /\ file'[mine] = req[t].v /\ tmp'[mine] = Absent
        \/ pc'[t] = "done" /\ UNCHANGED file /\ (tmp'[mine] = Absent \/ SweepMissed(mine))
      BY <1>1, <1>9, <2>1 DEF PutRename, FinishPut, Finish, Goto, TmpReady, SweepMissed, In, StoreTyped
  <2>3. QED BY <1>0, <1>1, <1>4, <1>6, <2>1, <2>2 DEF OldRow, TmpLeft, RowAt, HasRow
<1>10. CASE PutUpsert(t)
  <2>1. pc[t] = "put.upsert" /\ UNCHANGED <<file, tmp>> /\ file[mine] \in {req[t].v, Absent}
      BY <1>10 DEF PutUpsert, UpsertOwn
  <2>2. \/ pc'[t] = "done" /\ row'[mine] = [at |-> "file", v |-> req[t].v]
        \/ pc'[t] = "put.undo"
      BY <1>1, <1>10 DEF PutUpsert, FinishPut, Finish, Goto, StoreTyped
  <2>3. QED BY <1>1, <1>4, <1>6, <2>1, <2>2 DEF OldRow, TmpLeft
<1>11. CASE PutUndo(t)
  <2>1. /\ pc[t] = "put.undo" /\ UNCHANGED tmp /\ pc'[t] = "done"
        /\ file'[mine] = Absent \/ SweepMissed(mine)
      BY <1>1, <1>11 DEF PutUndo, FinishPut, Finish, Goto, SweepMissed, In, StoreTyped
  <2>2. QED BY <1>0, <1>1, <1>4, <1>6, <2>1 DEF OldRow, TmpLeft
<1>12. QED BY <1>7, <1>8, <1>9, <1>10, <1>11

LEMMA StepLeaves ==
    ASSUME WholeInv, UpsertOwn, Note, NEW t \in Threads,
           Call(t) \/ PutLock(t) \/ Step(t)
    PROVE  /\ UpsertOwn'
           /\ \A id \in Ids \ unswept' : (OldRow(id)' => OldRow(id)) /\ (TmpLeft(id)' => TmpLeft(id))
<1>1. CASE PutCreate(t) \/ PutWrite(t) \/ PutRename(t) \/ PutUpsert(t) \/ PutUndo(t)
    BY <1>1, PutLeaves
<1>2. CASE Call(t)
  <2>1. PICK label \in {"put.lock", "get.row", "list.query", "del.select"} :
            pc' = [pc EXCEPT ![t] = label]
      BY <1>2 DEF Call, PutCall, GetCall, DeleteCall, ListCall, Invoke, Goto
  <2>2. /\ pc[t] = "idle" /\ UNCHANGED <<row, file, tmp>>
        /\ \A u \in Threads \ {t} : req'[u] = req[u]
      BY <1>2 DEF Call, PutCall, GetCall, DeleteCall, ListCall, Invoke, disk, At, WholeInv, StoreTyped
  <2>3. QED BY <2>1, <2>2, OutsideLeaves DEF Labels, PutLabels
<1>3. CASE \/ PutLock(t) \/ GetRow(t) \/ GetFile(t) \/ ListQuery(t)
           \/ DelSelect(t) \/ DelRow(t) \/ DelFile(t) \/ Return(t)
  <2>1. PICK label \in Labels \ {"put.write", "put.rename", "put.upsert", "put.undo"} :
            pc' = [pc EXCEPT ![t] = label]
      BY <1>3 DEF PutLock, GetRow, GetFile, ListQuery, DelSelect, DelRow, DelFile, Return,
                  FinishPut, Finish, Goto, Labels, PutLabels
  <2>2. /\ pc[t] \notin PutLabels /\ UNCHANGED tmp
        /\ \A u \in Threads \ {t} : req'[u] = req[u]
      BY <1>3 DEF PutLock, GetRow, GetFile, ListQuery, DelSelect, DelRow, DelFile, Return,
                  disk, At, PutLabels, WholeInv, StoreTyped
  <2>3. \A id \in Ids : file'[id] \in {file[id], Absent} /\ row'[id] \in {row[id], Absent}
      BY <1>3 DEF PutLock, GetRow, GetFile, ListQuery, DelSelect, DelRow, DelFile, Return,
                  disk, WholeInv, StoreTyped
  <2>4. QED BY <2>1, <2>2, <2>3, OutsideLeaves
<1>4. QED BY <1>1, <1>2, <1>3 DEF Step

(* A crash leaves what the Put it breaks off has not cleared away.          *)
LEMMA CrashLeaves ==
    ASSUME WholeInv, LeftInv, Crash, Note
    PROVE  LeftInv'
<1>1. UNCHANGED <<row, file, tmp>> /\ UpsertOwn'
    BY DEF Crash, disk, UpsertOwn
<1>2. ASSUME NEW id \in Ids, NEW labels \in SUBSET Unfinished, Holds(id, labels)
      PROVE  id \in unswept'
  <2>1. SweepMissed(id)
      BY <1>2 DEF Crash, SweepMissed, Holds, In
  <2>2. QED BY <2>1, Noting
<1>3. ASSUME NEW id \in Ids \ unswept'
      PROVE  ~OldRow(id)' /\ ~TmpLeft(id)'
  <2>1. ~OldRow(id) /\ ~TmpLeft(id)
      BY <1>3, Noting DEF LeftInv
  <2>2. ~Holds(id, {"put.upsert", "put.undo"}) /\ ~Holds(id, {"put.write", "put.rename"})
      BY <1>2, <1>3 DEF Unfinished
  <2>3. QED BY <1>1, <2>1, <2>2 DEF OldRow, TmpLeft, RowAt, HasRow
<1>4. QED BY <1>1, <1>3 DEF LeftInv

LEMMA LeftNext == WholeInv /\ LeftInv /\ [Next /\ Note]_<<vars, noted>> => LeftInv'
<1>1. ASSUME WholeInv, LeftInv, Note, NEW t \in Threads, Call(t) \/ PutLock(t) \/ Step(t)
      PROVE  LeftInv'
    BY <1>1, StepLeaves, Noting DEF LeftInv
<1>2. LeftInv /\ UNCHANGED <<vars, noted>> => LeftInv'
    BY DEF vars, noted, LeftInv, UpsertOwn, OldRow, TmpLeft, Holds, In, RowAt, HasRow
<1>3. QED BY <1>1, <1>2, CrashLeaves DEF Next

LEMMA LeftCorrect == Spec => [](WholeInv /\ LeftInv)
BY LeftInit, WholeInvariant, LeftNext, PTL DEF Spec

(* The summary that List shows is that of the payload that Get returns,     *)
(* whatever fails and however calls overlap: a failed Put takes its payload *)
(* back.  Only the job of a Put that a crash broke off, or whose files      *)
(* could not be removed, is excepted.                                       *)
THEOREM SummariesCurrent == Spec => []SummaryCurrent
<1>1. WholeInv /\ LeftInv => SummaryCurrent
  <2> SUFFICES ASSUME WholeInv, LeftInv, NEW id \in Ids \ unswept, Stale(id) PROVE FALSE
      BY DEF SummaryCurrent
  <2>1. ~Holds(id, {"put.upsert", "put.undo"})
      BY ConstantsAssumption DEF Stale, Holds, In, WholeInv, LockInv, PutLabels
  <2>2. QED BY <2>1 DEF Stale, OldRow, LeftInv
<1>2. QED BY <1>1, LeftCorrect, PTL

-----------------------------------------------------------------------------
(* A payload file without a row belongs to a call that is about to write    *)
(* the row or to remove the file: a Delete has seen the row lead to it.     *)
Owned(id) ==
    \/ file[id] = Absent \/ RowAt(id) = "file"
    \/ Holds(id, {"put.upsert", "put.undo"}) \/ Holds(id, {"del.file"})

OwnedInv == \A id \in Ids \ unswept : Owned(id)

LEMMA OwnedInit == Init => OwnedInv
BY DEF Init, OwnedInv, Owned

(* A step of a thread touches the row and the file of one job at most.      *)
LEMMA OwnedStep ==
    ASSUME WholeInv, OwnedInv, Note, NEW t \in Threads, Call(t) \/ PutLock(t) \/ Step(t)
    PROVE  OwnedInv'
<1> USE DEF WholeInv, At
(* Steps that leave rows and files alone and whose thread gives up none.    *)
<1>1. ASSUME NEW label \in Labels, pc' = [pc EXCEPT ![t] = label],
             pc[t] \notin {"put.upsert", "put.undo", "del.file"},
             UNCHANGED <<row, file>>, \A u \in Threads \ {t} : req'[u] = req[u]
      PROVE  OwnedInv'
  <2>1. \A id : /\ Holds(id, {"put.upsert", "put.undo"}) => Holds(id, {"put.upsert", "put.undo"})'
                /\ Holds(id, {"del.file"}) => Holds(id, {"del.file"})'
      BY <1>1 DEF Holds, In, StoreTyped
  <2>2. QED BY <1>1, <2>1, Noting DEF OwnedInv, Owned, RowAt, HasRow
<1>2. CASE \/ Call(t) \/ PutLock(t) \/ PutCreate(t) \/ PutWrite(t)
           \/ GetRow(t) \/ GetFile(t) \/ ListQuery(t) \/ DelSelect(t) \/ Return(t)
  <2>1. /\ pc[t] \notin {"put.upsert", "put.undo", "del.file"}
        /\ \E label \in Labels : pc' = [pc EXCEPT ![t] = label]
      BY <1>2 DEF Call, PutCall, GetCall, DeleteCall, ListCall, Invoke, PutLock, PutCreate, PutWrite,
                  GetRow, GetFile, ListQuery, DelSelect, Return, FinishPut, Finish, Goto, Labels, PutLabels
  <2>2. /\ UNCHANGED <<row, file>>
        /\ \A u \in Threads \ {t} : req'[u] = req[u]
      BY <1>2 DEF Call, PutCall, GetCall, DeleteCall, ListCall, Invoke, PutLock, PutCreate, PutWrite,
                  GetRow, GetFile, ListQuery, DelSelect, Return, disk, StoreTyped
  <2>3. QED BY <2>1, <2>2, <1>1
(* Steps that touch the row or the file of one job. *)
<1>3. ASSUME NEW mine \in Ids, mine = req[t].id, UNCHANGED req,
             NEW label \in Labels, pc' = [pc EXCEPT ![t] = label],
             \A id \in Ids \ {mine} : row'[id] = row[id] /\ file'[id] = file[id],
             Owned(mine)' \/ SweepMissed(mine)
      PROVE  OwnedInv'
  <2>1. \A id \in Ids \ {mine} :
            /\ Holds(id, {"put.upsert", "put.undo"}) => Holds(id, {"put.upsert", "put.undo"})'
            /\ Holds(id, {"del.file"}) => Holds(id, {"del.file"})'
      BY <1>3 DEF Holds, In, StoreTyped
  <2>2. ASSUME NEW id \in Ids \ {mine}, id \notin unswept' PROVE Owned(id)'
      BY <1>3, <2>1, <2>2, Noting DEF OwnedInv, Owned, RowAt, HasRow
  <2>3. mine \in unswept' \/ Owned(mine)'
      BY <1>3, Noting
  <2>4. mine' = mine
      BY <1>3
  <2>5. \A id \in Ids : id = mine \/ id \in Ids \ {mine}
      OBVIOUS
  <2>6. QED BY <2>2, <2>3, <2>4, <2>5 DEF OwnedInv
<1>4. CASE PutRename(t)
  <2>1. pc[t] = "put.rename" /\ req[t].id \in Ids /\ UNCHANGED <<row, req>>
      BY <1>4 DEF PutRename, ReqOK, Executes, PutLabels, Calls
  <2>2. CASE UNCHANGED file /\ FinishPut(t, "fault")
      BY <2>1, <2>2, <1>1 DEF FinishPut, Finish, Goto, Labels
  <2>3. CASE file' = [file EXCEPT ![req[t].id] = tmp[req[t].id]] /\ Goto(t, "put.upsert")
    <3>1. pc' = [pc EXCEPT ![t] = "put.upsert"]
        BY <2>3 DEF Goto
    <3>2. \A id : id = req[t].id => Owned(id)'
        BY <2>1, <3>1 DEF Owned, Holds, In, StoreTyped
    <3>3. \A id \in Ids \ {req[t].id} : row'[id] = row[id] /\ file'[id] = file[id]
        BY <2>1, <2>3 DEF StoreTyped
    <3>4. QED BY <2>1, <3>1, <3>2, <3>3, <1>3 DEF Labels, PutLabels
  <2>4. QED BY <1>4, <2>2, <2>3 DEF PutRename
<1>5. CASE PutUpsert(t)
  <2>1. /\ pc[t] = "put.upsert" /\ req[t].id \in Ids /\ req[t].v \in Nat
        /\ UNCHANGED <<file, req>>
      BY <1>5 DEF PutUpsert, ReqOK, Executes, PutLabels, Calls, Versions
  <2>2. CASE row' = [row EXCEPT ![req[t].id] = [at |-> "file", v |-> req[t].v]] /\ FinishPut(t, "ok")
    <3>1. pc' = [pc EXCEPT ![t] = "done"]
        BY <2>2 DEF FinishPut, Finish, Goto
    <3>2. \A id : id = req[t].id => Owned(id)'
        BY <2>1, <2>2, ConstantsAssumption DEF Owned, RowAt, HasRow, StoreTyped
    <3>3. \A id \in Ids \ {req[t].id} : row'[id] = row[id] /\ file'[id] = file[id]
        BY <2>1, <2>2 DEF StoreTyped
    <3>4. QED BY <2>1, <3>1, <3>2, <3>3, <1>3 DEF Labels
  <2>3. CASE UNCHANGED row /\ Goto(t, "put.undo")
    <3>1. pc' = [pc EXCEPT ![t] = "put.undo"]
        BY <2>3 DEF Goto
    <3>2. \A id : id = req[t].id => Owned(id)'
        BY <2>1, <3>1 DEF Owned, Holds, In, StoreTyped
    <3>3. QED BY <2>1, <2>3, <3>1, <3>2, <1>3 DEF Labels, PutLabels
  <2>4. QED BY <1>5, <2>2, <2>3 DEF PutUpsert
<1>6. CASE PutUndo(t) \/ DelFile(t)
  <2>1. /\ req[t].id \in Ids /\ UNCHANGED <<row, req>> /\ pc' = [pc EXCEPT ![t] = "done"]
        /\ pc[t] \in {"put.undo", "del.file"}
        /\ \A id \in Ids \ {req[t].id} : file'[id] = file[id]
      BY <1>6 DEF PutUndo, DelFile, FinishPut, Finish, Goto, ReqOK, Executes, PutLabels, Calls, StoreTyped
  <2>2. \A id : id = req[t].id => Owned(id)' \/ SweepMissed(id)
      BY <2>1 DEF Owned, SweepMissed, In, StoreTyped
  <2>3. QED BY <2>1, <2>2, <1>3 DEF Labels
<1>7. CASE DelRow(t)
  <2>1. pc[t] = "del.row" /\ req[t].id \in Ids /\ UNCHANGED <<file, req>>
      BY <1>7 DEF DelRow, ReqOK, Executes, Calls
  <2>2. CASE UNCHANGED row /\ Goto(t, "done")
      BY <2>1, <2>2, <1>1 DEF Goto, Labels
  <2>3. CASE /\ row' = [row EXCEPT ![req[t].id] = Absent]
             /\ Goto(t, IF seen[t] = "file" THEN "del.file" ELSE "done")
    <3>1. PICK label \in {"del.file", "done"} : pc' = [pc EXCEPT ![t] = label]
        BY <2>3 DEF Goto
    <3>2. ASSUME NEW id, id = req[t].id, id \notin unswept'
          PROVE  Owned(id)' \/ SweepMissed(id)
      <4>1. CASE label = "del.file"
          BY <2>1, <3>1, <3>2, <4>1 DEF Owned, Holds, In, StoreTyped
      <4>2. CASE label = "done" /\ RowAt(id) = "file"
          BY <2>1, <2>3, <3>1, <3>2, <4>2 DEF SweepMissed, In, HasRow, StoreTyped
      <4>3. CASE RowAt(id) # "file"
        <5>1. file[id] = Absent \/ Holds(id, {"put.upsert", "put.undo"}) \/ Holds(id, {"del.file"})
            BY <2>1, <3>2, <4>3, Noting DEF OwnedInv, Owned
        <5>2. /\ Holds(id, {"put.upsert", "put.undo"}) => Holds(id, {"put.upsert", "put.undo"})'
              /\ Holds(id, {"del.file"}) => Holds(id, {"del.file"})'
            BY <2>1, <3>1 DEF Holds, In, StoreTyped
        <5>3. QED BY <2>1, <5>1, <5>2 DEF Owned
      <4>4. QED BY <4>1, <4>2, <4>3
    <3>3. \A id \in Ids \ {req[t].id} : row'[id] = row[id] /\ file'[id] = file[id]
        BY <2>1, <2>3 DEF StoreTyped
    <3>4. CASE req[t].id \in unswept'
      <4>1. \A id \in Ids \ {req[t].id} :
                /\ Holds(id, {"put.upsert", "put.undo"}) => Holds(id, {"put.upsert", "put.undo"})'
                /\ Holds(id, {"del.file"}) => Holds(id, {"del.file"})'
          BY <2>1, <3>1 DEF Holds, In, StoreTyped
      <4>2. QED BY <3>3, <3>4, <4>1, Noting DEF OwnedInv, Owned, RowAt, HasRow
    <3>5. CASE req[t].id \notin unswept'
        BY <2>1, <3>1, <3>2, <3>3, <3>5, <1>3 DEF Labels
    <3>6. QED BY <3>4, <3>5
  <2>4. QED BY <1>7, <2>2, <2>3 DEF DelRow, Finish
<1>8. QED BY <1>2, <1>4, <1>5, <1>6, <1>7 DEF Step

LEMMA OwnedNext == WholeInv /\ OwnedInv /\ [Next /\ Note]_<<vars, noted>> => OwnedInv'
<1>1. ASSUME WholeInv, OwnedInv, Crash, Note PROVE OwnedInv'
  <2>1. ASSUME NEW id \in Ids, NEW labels \in SUBSET Unfinished, Holds(id, labels)
        PROVE  id \in unswept'
    <3>1. SweepMissed(id)
        BY <1>1, <2>1 DEF Crash, SweepMissed, Holds, In
    <3>2. QED BY <1>1, <3>1, Noting
  <2>2. ASSUME NEW id \in Ids \ unswept' PROVE Owned(id)'
    <3>1. Owned(id)
        BY <1>1, <2>2, Noting DEF OwnedInv
    <3>2. ~Holds(id, {"put.upsert", "put.undo"}) /\ ~Holds(id, {"del.file"})
        BY <2>1, <2>2 DEF Unfinished
    <3>3. QED BY <1>1, <3>1, <3>2 DEF Owned, Crash, disk, RowAt, HasRow
  <2>3. QED BY <2>2 DEF OwnedInv
<1>2. OwnedInv /\ UNCHANGED <<vars, noted>> => OwnedInv'
    BY DEF vars, noted, OwnedInv, Owned, Holds, In, RowAt, HasRow
<1>3. QED BY <1>1, <1>2, OwnedStep DEF Next

(* With no call on a job in flight, the disk holds no file the job does not *)
(* need, whatever fails and however calls overlap, unless a clean-up of     *)
(* that very job was missed.                                                *)
THEOREM NothingOrphaned == Spec => []NoOrphans
<1>1. Spec => []OwnedInv
    BY OwnedInit, WholeInvariant, OwnedNext, PTL DEF Spec
<1>2. WholeInv /\ LeftInv /\ OwnedInv => NoOrphans
  <2> SUFFICES ASSUME WholeInv, LeftInv, OwnedInv, NEW id \in Ids \ unswept, Unused(id)
               PROVE  tmp[id] = Absent /\ (file[id] # Absent => RowAt(id) = "file")
      BY DEF NoOrphans
  <2>1. /\ ~Holds(id, {"put.write", "put.rename"}) /\ ~Holds(id, {"put.upsert", "put.undo"})
        /\ ~Holds(id, {"del.file"})
      BY DEF Unused, InFlight, Holds, In, WholeInv, ReqOK, Executes, PutLabels
  <2>2. QED BY <2>1 DEF LeftInv, TmpLeft, OwnedInv, Owned
<1>3. QED BY <1>1, <1>2, LeftCorrect, PTL
=============================================================================
