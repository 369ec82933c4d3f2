--------------------------- MODULE AtomicJobStore ---------------------------
(***************************************************************************)
(* What store.Store (src/store/jobs.go:26-32) promises its callers: a map  *)
(* from job ids to job payloads.  A call takes effect at one instant       *)
(* between its invocation and its return, or fails and changes nothing; a  *)
(* crash forgets the calls in flight and keeps the map.  Some jobs come    *)
(* loose, and of those nothing is promised any more; the others are not    *)
(* affected.                                                               *)
(*                                                                         *)
(* A payload is a version number: the detailed store never looks inside.   *)
(***************************************************************************)
EXTENDS Naturals

CONSTANTS Threads,   \* the goroutines that call the store
          Ids,       \* job ids
          Versions,  \* payloads
          Absent     \* no job, no payload

VARIABLES jobs,      \* id -> its payload, or Absent
          phase,     \* thread -> the call it is in
          saw,       \* thread -> what its job has been since it was called
          loose      \* the jobs nothing is promised of any more

vars == <<jobs, phase, saw, loose>>

Kinds == {"put", "get", "list", "count", "delete"}

Idle == [st |-> "idle"]

(* The call kind(id, v) before its effect, and after it with its answer. *)
Called(kind, id, v) == [st |-> "called", kind |-> kind, id |-> id, v |-> v]
Answered(call, ret, got, ids) ==
    [st |-> "done", kind |-> call.kind, id |-> call.id, v |-> call.v,
     ret |-> ret, got |-> got, ids |-> ids]

Init == /\ jobs \in [Ids -> Versions \union {Absent}]
        /\ phase = [t \in Threads |-> Idle]
        /\ saw = [t \in Threads |-> {}]
        /\ loose = {}

Waiting(t, kinds) == phase[t].st = "called" /\ phase[t].kind \in kinds

Answer(t, ret, got, ids) ==
    phase' = [phase EXCEPT ![t] = Answered(phase[t], ret, got, ids)]

Call(t) == /\ phase[t] = Idle
           /\ \E kind \in Kinds, id \in Ids, v \in Versions :
                 phase' = [phase EXCEPT ![t] = Called(kind, id, v)]
           /\ UNCHANGED jobs

(* Any call may fail, and then it has changed nothing. *)
Fail(t) == /\ Waiting(t, Kinds)
           /\ Answer(t, "fault", Absent, {})
           /\ UNCHANGED jobs

Put(t) == /\ Waiting(t, {"put"})
          /\ jobs' = [jobs EXCEPT ![phase[t].id] = phase[t].v]
          /\ Answer(t, "ok", Absent, {})

Delete(t) == /\ Waiting(t, {"delete"})
             /\ jobs[phase[t].id] # Absent
             /\ jobs' = [jobs EXCEPT ![phase[t].id] = Absent]
             /\ Answer(t, "ok", Absent, {})

DeleteNothing(t) == /\ Waiting(t, {"delete"})
                    /\ jobs[phase[t].id] = Absent
                    /\ Answer(t, "notfound", Absent, {})
                    /\ UNCHANGED jobs

(* A Get answers with a payload the job has had since the Get was called:   *)
(* a Get that a Delete overtakes may still be ordered before it.  "gone" is *)
(* the error of one that found the row and no longer the file.              *)
Get(t) == /\ Waiting(t, {"get"})
          /\ \/ \E v \in saw[t] \ {Absent} : Answer(t, "ok", v, {})
             \/ /\ Absent \in saw[t]
                /\ \E ret \in {"notfound", "gone"} : Answer(t, ret, Absent, {})
          /\ UNCHANGED jobs

Present == {id \in Ids : jobs[id] # Absent}

(* List and Count see all jobs at one instant, but for the loose ones.      *)
(* What a summary says is not promised: it is a cache of the payload's      *)
(* (src/store/jobs.go:103-104).                                             *)
List(t) == /\ Waiting(t, {"list", "count"})
           /\ \E ids \in SUBSET Ids : /\ ids \ loose = Present \ loose
                                      /\ Answer(t, "ok", Absent, ids)
           /\ UNCHANGED jobs

Return(t) == /\ phase[t].st = "done"
             /\ phase' = [phase EXCEPT ![t] = Idle]
             /\ UNCHANGED jobs

Crash == /\ phase' = [t \in Threads |-> Idle]
         /\ UNCHANGED jobs

(* Whatever happens to a loose job, it happens to that job and to the calls *)
(* on it alone, and no call changes what it asks for.                       *)
SameCall(before, after) ==
    /\ before # Idle /\ after # Idle
    /\ after.kind = before.kind /\ after.id = before.id /\ after.v = before.v

Loosened(id) ==
    /\ \A other \in Ids \ {id} : jobs'[other] = jobs[other]
    /\ \A t \in Threads : \/ phase'[t] = phase[t]
                          \/ phase[t].id = id /\ SameCall(phase[t], phase'[t])

Watch == saw' = [t \in Threads |->
                    IF phase'[t] = Idle THEN {}
                    ELSE saw[t] \union {jobs'[phase'[t].id]}]

Next == /\ \/ \E t \in Threads :
                 \/ Call(t) \/ Fail(t) \/ Put(t) \/ Delete(t)
                 \/ DeleteNothing(t) \/ Get(t) \/ List(t) \/ Return(t)
           \/ Crash
           \/ UNCHANGED <<jobs, phase>>
           \/ \E id \in loose' : Loosened(id)
        /\ loose \subseteq loose'
        /\ Watch

Spec == Init /\ [][Next]_vars
=============================================================================
