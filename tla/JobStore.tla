------------------------------ MODULE JobStore ------------------------------
(***************************************************************************)
(* The SQLite job store of src/store/jobs.go: a metadata row per job in a  *)
(* database and the job's payload in a file of its own, <id>.json.gz.      *)
(*                                                                         *)
(* One action per step another goroutine, or a crash, can fall between: a  *)
(* file-system call, an SQL statement, the mutex.  Put holds the mutex     *)
(* from its first step to its last; Get, List, Count and Delete never take *)
(* it.  A payload is a version number.                                     *)
(***************************************************************************)
EXTENDS Naturals

CONSTANTS
    Threads,     \* goroutines that call the store
    Ids,         \* job ids; NewID draws 64 random bits, so no id comes twice
    LegacyIds,   \* ids whose row an earlier release wrote: payload inline
    MaxPuts,     \* bound: Put calls in one behaviour
    MaxCrashes,  \* bound: crashes in one behaviour
    Faults,      \* which system calls may fail
    Absent,      \* no row, no file
    Partial,     \* the content of a file that is still being written
    Free         \* nobody holds the mutex

FaultKinds == {"marshal", "create", "write", "rename", "remove", "insert", "update",
               "delete", "query"}

ASSUME ConstantsAssumption ==
    /\ Ids # {} /\ LegacyIds \subseteq Ids
    /\ MaxPuts \in Nat /\ MaxCrashes \in Nat
    /\ Faults \subseteq FaultKinds
    /\ Absent \notin Nat /\ Partial \notin Nat /\ Absent # Partial
    /\ Absent \notin [at : {"inline", "file"}, v : Nat]
    /\ Free \notin Threads

Versions == 0..MaxPuts      \* 0 is what a legacy row carries

VARIABLES
    row,      \* id -> Absent, or where the row says the payload is, and the
              \* version of its summary (at = "file") or inline data ("inline")
    file,     \* id -> content of <id>.json.gz
    tmp,      \* id -> content of <id>.json.gz.tmp
    mu,       \* holder of SQLite.mu
    pc,       \* thread -> its next step
    req,      \* thread -> the call it executes
    seen,     \* deleting thread -> the path it read: "none", "inline" or "file"
    out,      \* thread -> what the call returns
    life,     \* id -> "unborn", "created" by a Put, "shown" by a row
    puts,     \* number of Put calls so far: the next version
    crashes,
    loose,    \* history, read by no action: the jobs whose row and file a
              \* clash of calls, or a failed update, may have torn apart
    unswept   \* history: the jobs for which a clean-up was missed

disk == <<row, file, tmp>>
threadVars == <<pc, req, seen, out>>
vars == <<row, file, tmp, mu, pc, req, seen, out, life, puts, crashes>>
noted == <<loose, unswept>>

Rows == [at : {"inline", "file"}, v : Versions]
NoCall == [kind |-> "none"]
Calls == [kind : {"put", "get", "list", "count", "delete"}, id : Ids, v : Versions]
NoAnswer == [ret |-> "none"]
Answers == [ret : {"ok", "fault", "notfound", "gone"},
            got : Versions \union {Absent}, ids : SUBSET Ids]

PutLabels == {"put.create", "put.write", "put.rename", "put.upsert", "put.undo"}
Labels == PutLabels \union {"idle", "put.lock", "get.row", "get.file", "list.query",
                            "del.select", "del.row", "del.file", "done"}

StoreTyped ==
    /\ row \in [Ids -> Rows \union {Absent}]
    /\ file \in [Ids -> Versions \union {Absent, Partial}]
    /\ tmp \in [Ids -> Versions \union {Absent, Partial}]
    /\ mu \in Threads \union {Free}
    /\ pc \in [Threads -> Labels]
    /\ req \in [Threads -> Calls \union {NoCall}]
    /\ seen \in [Threads -> {"none", "inline", "file"}]
    /\ out \in [Threads -> Answers \union {NoAnswer}]
    /\ life \in [Ids -> {"unborn", "created", "shown"}]
    /\ puts \in 0..MaxPuts /\ crashes \in 0..MaxCrashes

TypeOK == StoreTyped /\ loose \subseteq Ids /\ unswept \subseteq Ids

(* A fresh install, or a database an earlier release wrote.  NewSQLite adds *)
(* the path and summary columns and leaves every legacy row as it is.       *)
Init ==
    /\ row = [id \in Ids |-> IF id \in LegacyIds THEN [at |-> "inline", v |-> 0]
                                                 ELSE Absent]
    /\ file = [id \in Ids |-> Absent]
    /\ tmp = [id \in Ids |-> Absent]
    /\ mu = Free
    /\ pc = [t \in Threads |-> "idle"]
    /\ req = [t \in Threads |-> NoCall]
    /\ seen = [t \in Threads |-> "none"]
    /\ out = [t \in Threads |-> NoAnswer]
    /\ life = [id \in Ids |-> IF id \in LegacyIds THEN "shown" ELSE "unborn"]
    /\ puts = 0 /\ crashes = 0
    /\ loose = {} /\ unswept = {}

-----------------------------------------------------------------------------
HasRow(id) == row[id] # Absent
RowAt(id) == IF HasRow(id) THEN row[id].at ELSE "none"
May(fault) == fault \in Faults
InFlight(kind, id) == \E t \in Threads : req[t].kind = kind /\ req[t].id = id

At(t, label) == pc[t] = label
Goto(t, label) == pc' = [pc EXCEPT ![t] = label]

Invoke(t, kind, id, v, label) ==
    /\ At(t, "idle") /\ Goto(t, label)
    /\ req' = [req EXCEPT ![t] = [kind |-> kind, id |-> id, v |-> v]]
    /\ UNCHANGED <<disk, mu, seen, out, crashes>>

Finish(t, ret, got, ids) ==
    /\ Goto(t, "done")
    /\ out' = [out EXCEPT ![t] = [ret |-> ret, got |-> got, ids |-> ids]]

(* Every return of Put runs the deferred Unlock. *)
FinishPut(t, ret) == Finish(t, ret, Absent, {}) /\ mu' = Free

-----------------------------------------------------------------------------
(* A handler saves a job it has just created, under an id of its own, or    *)
(* one it has read and changed: an id that has had a row, and that another  *)
(* request may be deleting, or may have deleted since.                      *)
PutCall(t, id) ==
    /\ puts < MaxPuts
    /\ life[id] # "created"
    /\ Invoke(t, "put", id, puts + 1, "put.lock")
    /\ puts' = puts + 1
    /\ life' = [life EXCEPT ![id] = IF @ = "unborn" THEN "created" ELSE @]

(* Mutant of PutLock: Put without the mutex. *)
PutLockUnguarded(t) ==
    /\ At(t, "put.lock")
    /\ mu' = t /\ Goto(t, "put.create")
    /\ UNCHANGED <<disk, req, seen, out, life, puts, crashes>>

(* The job and its summary are marshalled under the mutex. *)
PutLock(t) ==
    /\ At(t, "put.lock") /\ mu = Free
    /\ \/ mu' = t /\ Goto(t, "put.create") /\ UNCHANGED out
       \/ May("marshal") /\ FinishPut(t, "fault")
    /\ UNCHANGED <<disk, req, seen, life, puts, crashes>>

(* Mutant of PutCreate: the old payload is given up before the new one is   *)
(* written.                                                                 *)
PutCreateInPlace(t) ==
    LET id == req[t].id IN
    /\ At(t, "put.create")
    /\ \/ /\ tmp' = [tmp EXCEPT ![id] = Partial] /\ Goto(t, "put.write")
          /\ file' = [file EXCEPT ![id] = Absent] /\ UNCHANGED <<mu, out>>
       \/ /\ May("create") /\ FinishPut(t, "fault") /\ UNCHANGED <<tmp, file>>
    /\ UNCHANGED <<row, req, seen, life, puts, crashes>>

(* os.Create truncates a temporary file an earlier crash left behind. *)
PutCreate(t) ==
    LET id == req[t].id IN
    /\ At(t, "put.create")
    /\ \/ /\ tmp' = [tmp EXCEPT ![id] = Partial] /\ Goto(t, "put.write")
          /\ UNCHANGED <<mu, out>>
       \/ /\ May("create") /\ FinishPut(t, "fault") /\ UNCHANGED tmp
    /\ UNCHANGED <<row, file, req, seen, life, puts, crashes>>

(* The deferred os.Remove of the temporary file ignores its own error. *)
DropTmp(id) == \/ tmp' = [tmp EXCEPT ![id] = Absent]
               \/ May("remove") /\ UNCHANGED tmp

(* Mutant of PutWrite: a failed write returns without Unlock. *)
PutWriteKeepsLock(t) ==
    LET id == req[t].id IN
    /\ At(t, "put.write")
    /\ \/ /\ tmp' = [tmp EXCEPT ![id] = req[t].v] /\ Goto(t, "put.rename")
          /\ UNCHANGED out
       \/ /\ May("write") /\ DropTmp(id) /\ Finish(t, "fault", Absent, {})
    /\ UNCHANGED <<row, file, mu, req, seen, life, puts, crashes>>

PutWrite(t) ==
    LET id == req[t].id IN
    /\ At(t, "put.write")
    /\ \/ /\ tmp' = [tmp EXCEPT ![id] = req[t].v] /\ Goto(t, "put.rename")
          /\ UNCHANGED <<mu, out>>
       \/ /\ May("write") /\ DropTmp(id) /\ FinishPut(t, "fault")
    /\ UNCHANGED <<row, file, req, seen, life, puts, crashes>>

PutRename(t) ==
    LET id == req[t].id IN
    /\ At(t, "put.rename")
    /\ \/ /\ file' = [file EXCEPT ![id] = tmp[id]]
          /\ tmp' = [tmp EXCEPT ![id] = Absent]
          /\ Goto(t, "put.upsert") /\ UNCHANGED <<mu, out>>
       \/ /\ May("rename") /\ DropTmp(id) /\ FinishPut(t, "fault")
          /\ UNCHANGED file
    /\ UNCHANGED <<row, req, seen, life, puts, crashes>>

(* Mutants of PutUpsert: the error of the statement is dropped; the         *)
(* conflict clause forgets the summary; a failure returns without clean-up. *)
PutUpsertUnchecked(t) ==
    LET id == req[t].id IN
    /\ At(t, "put.upsert") /\ FinishPut(t, "ok")
    /\ \/ /\ row' = [row EXCEPT ![id] = [at |-> "file", v |-> req[t].v]]
          /\ life' = [life EXCEPT ![id] = "shown"]
       \/ /\ May(IF RowAt(id) = "file" THEN "update" ELSE "insert")
          /\ UNCHANGED <<row, life>>
    /\ UNCHANGED <<file, tmp, req, seen, puts, crashes>>

PutUpsertOldSummary(t) ==
    LET id == req[t].id IN
    /\ At(t, "put.upsert") /\ FinishPut(t, "ok")
    /\ row' = [row EXCEPT ![id] = [at |-> "file",
                                   v |-> IF HasRow(id) THEN row[id].v ELSE req[t].v]]
    /\ life' = [life EXCEPT ![id] = "shown"]
    /\ UNCHANGED <<file, tmp, req, seen, puts, crashes>>

PutUpsertNoUndo(t) ==
    LET id == req[t].id IN
    /\ At(t, "put.upsert")
    /\ \/ /\ row' = [row EXCEPT ![id] = [at |-> "file", v |-> req[t].v]]
          /\ life' = [life EXCEPT ![id] = "shown"]
          /\ FinishPut(t, "ok")
       \/ /\ May(IF RowAt(id) = "file" THEN "update" ELSE "insert")
          /\ FinishPut(t, "fault") /\ UNCHANGED <<row, life>>
    /\ UNCHANGED <<file, tmp, req, seen, puts, crashes>>

(* INSERT ... ON CONFLICT(id) DO UPDATE.  It may fail: two connections of   *)
(* the pool can meet on a locked database.                                  *)
PutUpsert(t) ==
    LET id == req[t].id IN
    /\ At(t, "put.upsert")
    /\ \/ /\ row' = [row EXCEPT ![id] = [at |-> "file", v |-> req[t].v]]
          /\ life' = [life EXCEPT ![id] = "shown"]
          /\ FinishPut(t, "ok")
       \/ /\ May(IF RowAt(id) = "file" THEN "update" ELSE "insert")
          /\ Goto(t, "put.undo")
          /\ UNCHANGED <<row, life, mu, out>>
    /\ UNCHANGED <<file, tmp, req, seen, puts, crashes>>

PutUndo(t) ==
    LET id == req[t].id IN
    /\ At(t, "put.undo")
    /\ \/ file' = [file EXCEPT ![id] = Absent]
       \/ May("remove") /\ UNCHANGED file
    /\ FinishPut(t, "fault")
    /\ UNCHANGED <<row, tmp, req, seen, life, puts, crashes>>

-----------------------------------------------------------------------------
GetCall(t, id) ==
    /\ life[id] = "shown"
    /\ Invoke(t, "get", id, 0, "get.row") /\ UNCHANGED <<life, puts>>

GetRow(t) ==
    LET id == req[t].id IN
    /\ At(t, "get.row")
    /\ \/ ~HasRow(id) /\ Finish(t, "notfound", Absent, {})
       \/ RowAt(id) = "inline" /\ Finish(t, "ok", row[id].v, {})
       \/ RowAt(id) = "file" /\ Goto(t, "get.file") /\ UNCHANGED out
       \/ May("query") /\ Finish(t, "fault", Absent, {})
    /\ UNCHANGED <<disk, mu, req, seen, life, puts, crashes>>

(* Mutant of GetFile: it opens the temporary file. *)
GetFileTmp(t) ==
    LET id == req[t].id IN
    /\ At(t, "get.file")
    /\ \/ file[id] = Absent /\ Finish(t, "gone", Absent, {})
       \/ file[id] # Absent /\ Finish(t, "ok", tmp[id], {})
    /\ UNCHANGED <<disk, mu, req, seen, life, puts, crashes>>

(* Opening the file decides what is read: a later rename leaves the opened  *)
(* file as it was.                                                          *)
GetFile(t) ==
    LET id == req[t].id IN
    /\ At(t, "get.file")
    /\ \/ file[id] = Absent /\ Finish(t, "gone", Absent, {})
       \/ file[id] # Absent /\ Finish(t, "ok", file[id], {})
    /\ UNCHANGED <<disk, mu, req, seen, life, puts, crashes>>

(* One SELECT over all rows; every row has a summary or inline data.  The   *)
(* id of the call stands for none.                                          *)
ListCall(t, kind) ==
    /\ Invoke(t, kind, CHOOSE id \in Ids : TRUE, 0, "list.query")
    /\ UNCHANGED <<life, puts>>

ListQuery(t) ==
    /\ At(t, "list.query")
    /\ \/ Finish(t, "ok", Absent, {id \in Ids : HasRow(id)})
       \/ May("query") /\ Finish(t, "fault", Absent, {})
    /\ UNCHANGED <<disk, mu, req, seen, life, puts, crashes>>

-----------------------------------------------------------------------------
DeleteCall(t, id) ==
    /\ life[id] = "shown"
    /\ Invoke(t, "delete", id, 0, "del.select") /\ UNCHANGED <<life, puts>>

(* A failed SELECT leaves the path empty and Delete goes on. *)
DelSelect(t) ==
    /\ At(t, "del.select") /\ Goto(t, "del.row")
    /\ \/ seen' = [seen EXCEPT ![t] = RowAt(req[t].id)]
       \/ May("query") /\ UNCHANGED seen
    /\ UNCHANGED <<disk, mu, req, out, life, puts, crashes>>

DelRow(t) ==
    LET id == req[t].id IN
    /\ At(t, "del.row")
    /\ \/ /\ ~HasRow(id) /\ Finish(t, "notfound", Absent, {}) /\ UNCHANGED row
       \/ /\ HasRow(id)
          /\ row' = [row EXCEPT ![id] = Absent]
          /\ out' = [out EXCEPT ![t] = [ret |-> "ok", got |-> Absent, ids |-> {}]]
          /\ Goto(t, IF seen[t] = "file" THEN "del.file" ELSE "done")
       \/ /\ May("delete") /\ Finish(t, "fault", Absent, {}) /\ UNCHANGED row
    /\ UNCHANGED <<file, tmp, mu, req, seen, life, puts, crashes>>

DelFile(t) ==
    LET id == req[t].id IN
    /\ At(t, "del.file") /\ Goto(t, "done")
    /\ \/ file' = [file EXCEPT ![id] = Absent]
       \/ May("remove") /\ UNCHANGED file
    /\ UNCHANGED <<row, tmp, mu, req, seen, out, life, puts, crashes>>

-----------------------------------------------------------------------------
Return(t) ==
    /\ At(t, "done") /\ Goto(t, "idle")
    /\ req' = [req EXCEPT ![t] = NoCall]
    /\ seen' = [seen EXCEPT ![t] = "none"]
    /\ out' = [out EXCEPT ![t] = NoAnswer]
    /\ UNCHANGED <<disk, mu, life, puts, crashes>>

(* The process dies and is started again on the same directory. *)
Crash ==
    /\ crashes < MaxCrashes
    /\ crashes' = crashes + 1
    /\ mu' = Free
    /\ pc' = [t \in Threads |-> "idle"]
    /\ req' = [t \in Threads |-> NoCall]
    /\ seen' = [t \in Threads |-> "none"]
    /\ out' = [t \in Threads |-> NoAnswer]
    /\ UNCHANGED <<disk, life, puts>>

Call(t) == \E id \in Ids, kind \in {"list", "count"} :
               PutCall(t, id) \/ GetCall(t, id) \/ DeleteCall(t, id) \/ ListCall(t, kind)

Step(t) ==
    \/ PutCreate(t) \/ PutWrite(t) \/ PutRename(t) \/ PutUpsert(t) \/ PutUndo(t)
    \/ GetRow(t) \/ GetFile(t) \/ ListQuery(t)
    \/ DelSelect(t) \/ DelRow(t) \/ DelFile(t) \/ Return(t)

Next == \/ \E t \in Threads : Call(t) \/ PutLock(t) \/ Step(t)
        \/ Crash

(* What the properties below except, job by job, noted as it happens.  The  *)
(* steps of two calls can tear a row from its file: a Delete beside a Put,  *)
(* and a Get that found the row before a Delete and opens the file that a   *)
(* later Put has not given a row yet.  So can a failed update: Put removes  *)
(* the file that the old row names.                                         *)
In(t, id, labels) == pc[t] \in labels /\ req[t].id = id

Overlap(id) == InFlight("put", id) /\ InFlight("delete", id)
Glimpse(id) ==
    /\ ~HasRow(id)
    /\ \E t, u \in Threads : In(t, id, {"put.upsert"}) /\ In(u, id, {"get.file"})
UpdateFails(id) ==
    /\ RowAt(id) = "file"
    /\ \E t \in Threads : In(t, id, {"put.upsert"}) /\ pc'[t] = "put.undo"

(* A clean-up is missed when os.Remove fails, when the process dies before  *)
(* it, and when Delete did not learn of the file: its SELECT failed, or ran *)
(* before a Put gave the row one.                                           *)
Unfinished == {"put.write", "put.rename", "put.upsert", "put.undo", "del.file"}

SweepMissed(id) ==
    \E t \in Threads :
        \/ In(t, id, {"put.write", "put.rename"}) /\ pc'[t] = "done" /\ tmp'[id] # Absent
        \/ In(t, id, {"put.undo", "del.file"}) /\ pc'[t] = "done" /\ file'[id] # Absent
        \/ In(t, id, {"del.row"}) /\ pc'[t] = "done" /\ RowAt(id) = "file" /\ ~HasRow(id)'
        \/ In(t, id, Unfinished) /\ pc'[t] = "idle"

Note ==
    /\ loose' = loose \union {id \in Ids : Overlap(id)' \/ Glimpse(id)' \/ UpdateFails(id)}
    /\ unswept' = unswept \union {id \in Ids : SweepMissed(id)}

Spec == Init /\ [][Next /\ Note]_<<vars, noted>>

(* A goroutine the scheduler runs takes its next step; sync.Mutex hands     *)
(* itself to a goroutine that has waited long enough, so a Put that waits   *)
(* for it is not passed over forever.                                       *)
Fairness == \A t \in Threads : WF_vars(Step(t)) /\ SF_vars(PutLock(t))

FairSpec == Spec /\ Fairness

-----------------------------------------------------------------------------
(* No reader ever opens half a payload: a job's file is absent or whole,    *)
(* whatever fails, whoever deletes, wherever a crash falls.  It rests on    *)
(* the temporary file, the rename and the mutex of Put together.            *)
WholeFiles == \A id \in Ids : file[id] # Partial

(* A row that names a payload file finds it there: a listed job can be      *)
(* opened.  Put writes the file before the row, Delete removes the row      *)
(* before the file, so that a crash between the two cannot break it; nor    *)
(* can what happens to other jobs.                                          *)
RowHasFile == \A id \in Ids \ loose : RowAt(id) = "file" => file[id] # Absent

(* The same with no exception, as src/store/jobs.go:100-104 has it: a job's *)
(* payload is in one file per job, the row holds the path of it.            *)
RowKeepsFile == \A id \in Ids : RowAt(id) = "file" => file[id] # Absent

(* Outside a Put of that job, the summary List shows is the summary of the  *)
(* payload Get returns (the cached column of src/store/jobs.go:103-104): but*)
(* for a crash between the rename and the upsert, and a failed Put whose    *)
(* payload could not be taken back.                                         *)
Stale(id) ==
    /\ RowAt(id) = "file" /\ file[id] # Absent /\ row[id].v # file[id]
    /\ ~(mu # Free /\ req[mu].id = id)
SummaryCurrent == \A id \in Ids \ unswept : ~Stale(id)

(* When no call on a job is in flight, the disk holds a payload file only   *)
(* for a job that has a row, and no temporary file: failed Puts clean up,   *)
(* whatever failed, unless a clean-up of that very job was missed.          *)
Unused(id) == ~InFlight("put", id) /\ ~InFlight("delete", id)
NoOrphans ==
    \A id \in Ids \ unswept : Unused(id) =>
        /\ tmp[id] = Absent
        /\ file[id] # Absent => RowAt(id) = "file"

(* Every call of the store returns: no return path of Put keeps the mutex.  *)
EveryCallReturns == \A t \in Threads : ~At(t, "idle") ~> At(t, "idle")
=============================================================================
