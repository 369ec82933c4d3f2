------------------------- MODULE JobStoreRefinement -------------------------
(***************************************************************************)
(* JobStore implements AtomicJobStore: the payload of a job is what its    *)
(* row leads to, and a call has taken effect once that has changed.        *)
(***************************************************************************)
EXTENDS JobStore

(* The payload a caller of the store would read. *)
Visible == [id \in Ids |-> IF RowAt(id) = "file" THEN file[id]
                           ELSE IF RowAt(id) = "inline" THEN row[id].v ELSE Absent]

(* A Put that replaces a payload takes effect at the rename, one that       *)
(* stores a job the row does not lead to yet at the upsert; a Delete takes  *)
(* effect with the row.                                                     *)
Replaced(t) == At(t, "put.upsert") /\ RowAt(req[t].id) = "file"

Done(t) == At(t, "done") \/ At(t, "del.file") \/ Replaced(t)

PutOk == [ret |-> "ok", got |-> Absent, ids |-> {}]

CallSoFar(t) ==
    LET ans == IF Replaced(t) THEN PutOk ELSE out[t] IN
    IF At(t, "idle") THEN [st |-> "idle"]
    ELSE IF Done(t)
           THEN [st |-> "done", kind |-> req[t].kind, id |-> req[t].id, v |-> req[t].v,
                 ret |-> ans.ret, got |-> ans.got, ids |-> ans.ids]
           ELSE [st |-> "called", kind |-> req[t].kind, id |-> req[t].id, v |-> req[t].v]

(* History variable: what a call's job has been since the call was made. *)
VARIABLE saw

Watch == saw' = [t \in Threads |->
                    IF pc'[t] = "idle" THEN {}
                    ELSE saw[t] \union {Visible'[req'[t].id]}]

HSpec == /\ Init /\ saw = [t \in Threads |-> {}]
         /\ [][Next /\ Note /\ Watch]_<<vars, noted, saw>>

FairHSpec == HSpec /\ Fairness

Atomic == INSTANCE AtomicJobStore WITH
              jobs <- Visible,
              phase <- [t \in Threads |-> CallSoFar(t)]

(* Every behaviour of the file-and-row store is one of the atomic map: each *)
(* call takes effect at one instant or, when it fails, not at all, and a    *)
(* crash loses no saved job and resurrects no deleted one.  A job is        *)
(* excepted from the moment at which two calls on it clash or an update of  *)
(* its row fails; the other jobs stay atomic.                               *)
Linearizable == Atomic!Spec
=============================================================================
