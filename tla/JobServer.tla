----------------------------- MODULE JobServer ------------------------------
(***************************************************************************)
(* The dashboard's job handlers (src/webui/server.go) over a store whose   *)
(* calls are atomic (AtomicJobStore).  Every handler reads a whole job,    *)
(* works on its copy and writes the whole copy back: there is no lock and  *)
(* no version check between the two, and the activation may change while a *)
(* handler runs.                                                           *)
(*                                                                         *)
(* A mapping is the number of the edit it came from (0: the proposal), a   *)
(* report or a set of results the number of the conversion that made it.   *)
(***************************************************************************)
EXTENDS Naturals, FiniteSets

CONSTANTS
    Clients,     \* the requests that can be served at the same time
    JobIds,      \* ids NewID may draw; none is drawn twice
    Tiers,       \* tiers the activation may take during a behaviour
    JobLimit,    \* tier -> Caps.MaxJobs, 0 for unlimited
    Sources,     \* kinds of uploads, <<more than one context, more rules than
                 \* the free tier converts>>
    StoreFaults, \* store calls that may fail: subset of {"count", "put"}
    UiOnly,      \* TRUE: converting is asked for only by the dashboard's button
    MaxMaps,     \* bound: edits of a mapping
    MaxConvs,    \* bound: conversions
    Absent       \* no job, no report

AllTiers == {"free", "pro", "team", "other"}

ASSUME ServerAssumption ==
    /\ Tiers # {} /\ Tiers \subseteq AllTiers
    /\ JobLimit \in [AllTiers -> Nat]
    /\ IsFiniteSet(Clients) /\ IsFiniteSet(JobIds)
    /\ Sources \subseteq BOOLEAN \X BOOLEAN
    /\ StoreFaults \subseteq {"count", "put"} /\ UiOnly \in BOOLEAN
    /\ MaxMaps \in Nat /\ MaxConvs \in Nat

(* TierCaps.  A signed key may name a tier the table does not have          *)
(* ("other"): it gets the row of the free tier.                             *)
Paid(tier) == tier \in {"pro", "team"}
MaxJobs(tier) == JobLimit[IF Paid(tier) THEN tier ELSE "free"]
MultiTenant(tier) == Paid(tier)
FinalReport(tier) == Paid(tier)
AnyRules(tier) == Paid(tier)       \* no MaxRulesPerJob

VARIABLES
    jobs,     \* id -> the stored job, or Absent
    used,     \* ids drawn so far
    tier,     \* Server.activation
    pc,       \* client -> the step its request is at
    req,      \* client -> id of the job, and the tier its caps were read under
    loc,      \* client -> the handler's copy of the job
    shown,    \* client -> the maps of jobs its dashboard has shown
    maps,     \* edits so far
    convs     \* conversions so far

vars == <<jobs, used, tier, pc, req, loc, shown, maps, convs>>

Maps == 0..MaxMaps
Convs == 1..MaxConvs

(* engine.Job.  big: more rules than the free tier converts; multi: more    *)
(* than one context.  free: the report says it is of the free edition.      *)
Results == [conv : Convs, ents : Maps]
Reports == [conv : Convs, free : BOOLEAN]
Jobs == [status : {"analyzed", "mapped", "converted"}, big : BOOLEAN, multi : BOOLEAN,
         ents : Maps, res : Results \union {Absent},
         process : Reports \union {Absent}, final : Reports \union {Absent},
         exports : SUBSET {"process", "final"}]

ASSUME AbsentAssumption ==
    Absent \notin Nat /\ Absent \notin Jobs /\ Absent \notin Results /\ Absent \notin Reports

Labels == {"idle", "create.count", "create.parse", "create.put", "map.get", "map.put",
           "map.ok", "conv.get", "conv.caps", "conv.build", "conv.put"}

NoReq == [id |-> Absent, tier |-> "free"]

TypeOK ==
    /\ jobs \in [JobIds -> Jobs \union {Absent}]
    /\ used \subseteq JobIds
    /\ tier \in Tiers
    /\ pc \in [Clients -> Labels]
    /\ req \in [Clients -> [id : JobIds \union {Absent}, tier : AllTiers]]
    /\ loc \in [Clients -> Jobs \union {Absent}]
    /\ shown \in [Clients -> SUBSET (JobIds \X Maps)]
    /\ maps \in Maps /\ convs \in 0..MaxConvs

Init ==
    /\ jobs = [id \in JobIds |-> Absent]
    /\ used = {}
    /\ tier \in Tiers
    /\ pc = [c \in Clients |-> "idle"]
    /\ req = [c \in Clients |-> NoReq]
    /\ loc = [c \in Clients |-> Absent]
    /\ shown = [c \in Clients |-> {}]
    /\ maps = 0 /\ convs = 0

-----------------------------------------------------------------------------
Stored == {id \in JobIds : jobs[id] # Absent}

At(c, label) == pc[c] = label
Goto(c, label) == pc' = [pc EXCEPT ![c] = label]

(* The handler writes its answer and ends; its copy of the job is garbage.  *)
End(c) == /\ Goto(c, "idle")
          /\ req' = [req EXCEPT ![c] = NoReq]
          /\ loc' = [loc EXCEPT ![c] = Absent]

(* The answer carries the job, and the dashboard renders its map. *)
Show(c, id, ents) ==
    shown' = IF UiOnly THEN [shown EXCEPT ![c] = @ \union {<<id, ents>>}] ELSE shown

(* s.job: the handler's copy, or 404. *)
Load(c, next) ==
    LET id == req[c].id IN
    \/ jobs[id] = Absent /\ End(c)
    \/ /\ jobs[id] # Absent
       /\ loc' = [loc EXCEPT ![c] = jobs[id]] /\ Goto(c, next) /\ UNCHANGED req

(* A failed Put is a 500 and leaves the stored job as it was. *)
PutFails(c) == "put" \in StoreFaults /\ End(c) /\ UNCHANGED <<jobs, shown>>

-----------------------------------------------------------------------------
(* handleCreateJob: the limit is checked first, the job stored last; the    *)
(* upload, the parser and the analysis run in between.                      *)
CreateCall(c) ==
    /\ At(c, "idle") /\ Goto(c, "create.count")
    /\ req' = [req EXCEPT ![c].tier = tier]
    /\ UNCHANGED <<jobs, used, tier, loc, shown, maps, convs>>

(* Mutant: off by one. *)
CreateCountOneMore(c) ==
    LET limit == MaxJobs(req[c].tier) IN
    /\ At(c, "create.count")
    /\ \/ /\ limit = 0 \/ Cardinality(Stored) <= limit
          /\ Goto(c, "create.parse") /\ UNCHANGED <<req, loc>>
       \/ limit > 0 /\ Cardinality(Stored) > limit /\ End(c)
    /\ UNCHANGED <<jobs, used, tier, shown, maps, convs>>

(* An error of Count lets the request through. *)
CreateCount(c) ==
    LET limit == MaxJobs(req[c].tier) IN
    /\ At(c, "create.count")
    /\ \/ /\ limit = 0 \/ Cardinality(Stored) < limit \/ "count" \in StoreFaults
          /\ Goto(c, "create.parse") /\ UNCHANGED <<req, loc>>
       \/ limit > 0 /\ Cardinality(Stored) >= limit /\ End(c)
    /\ UNCHANGED <<jobs, used, tier, shown, maps, convs>>

(* Mutant: the status is left empty. *)
NewJobNoStatus(source) ==
    [status |-> "", multi |-> source[1], big |-> source[2], ents |-> 0, res |-> Absent,
     process |-> Absent, final |-> Absent, exports |-> {}]

NewJob(source) ==
    [status |-> "analyzed", multi |-> source[1], big |-> source[2], ents |-> 0, res |-> Absent,
     process |-> Absent, final |-> Absent, exports |-> {}]

(* The upload is refused or does not parse, or it becomes a job in memory.  *)
CreateParse(c) ==
    /\ At(c, "create.parse")
    /\ \/ End(c) /\ UNCHANGED used
       \/ \E id \in JobIds \ used, source \in Sources :
             /\ used' = used \union {id}
             /\ req' = [req EXCEPT ![c].id = id]
             /\ loc' = [loc EXCEPT ![c] = NewJob(source)]
             /\ Goto(c, "create.put")
    /\ UNCHANGED <<jobs, tier, shown, maps, convs>>

CreatePut(c) ==
    LET id == req[c].id IN
    /\ At(c, "create.put")
    /\ \/ /\ jobs' = [jobs EXCEPT ![id] = loc[c]]
          /\ Show(c, id, loc[c].ents) /\ End(c)
       \/ PutFails(c)
    /\ UNCHANGED <<used, tier, maps, convs>>

-----------------------------------------------------------------------------
MapCall(c, id) ==
    /\ At(c, "idle") /\ Goto(c, "map.get")
    /\ req' = [req EXCEPT ![c].id = id]
    /\ UNCHANGED <<jobs, used, tier, loc, shown, maps, convs>>

(* The body is decoded after the job was read; a bad one ends the request.  *)
MapGet(c) ==
    /\ At(c, "map.get")
    /\ Load(c, "map.put") \/ End(c)
    /\ UNCHANGED <<jobs, used, tier, shown, maps, convs>>

(* Mutant: a converted job stays converted under its new map. *)
ApproveKeepsStatus(job, ents) == [job EXCEPT !.ents = ents]

Approve(job, ents) == [job EXCEPT !.status = "mapped", !.ents = ents]

(* An empty list of entries approves the map as it is.  The dashboard sends *)
(* its convert request when the answer to this one is there.                *)
MapPut(c) ==
    LET id == req[c].id IN
    /\ At(c, "map.put")
    /\ \/ \E ents \in {loc[c].ents, maps + 1} \cap Maps :
             /\ jobs' = [jobs EXCEPT ![id] = Approve(loc[c], ents)]
             /\ maps' = IF ents > maps THEN ents ELSE maps
             /\ Show(c, id, ents)
             /\ IF UiOnly THEN /\ Goto(c, "map.ok") /\ UNCHANGED req
                               /\ loc' = [loc EXCEPT ![c] = Absent]
                          ELSE End(c)
       \/ PutFails(c) /\ UNCHANGED maps
    /\ UNCHANGED <<used, tier, convs>>

-----------------------------------------------------------------------------
ConvCall(c, id) ==
    /\ \/ ~UiOnly /\ At(c, "idle")
       \/ At(c, "map.ok") /\ req[c].id = id
    /\ Goto(c, "conv.get")
    /\ req' = [req EXCEPT ![c].id = id]
    /\ UNCHANGED <<jobs, used, tier, loc, shown, maps, convs>>

ConvGet(c) ==
    /\ At(c, "conv.get") /\ Load(c, "conv.caps")
    /\ UNCHANGED <<jobs, used, tier, shown, maps, convs>>

Allowed(job, t) == (job.multi => MultiTenant(t)) /\ (job.big => AnyRules(t))

(* caps is read once here; no condition on the status of the job.           *)
ConvCaps(c) ==
    /\ At(c, "conv.caps")
    /\ \/ /\ Allowed(loc[c], tier) /\ Goto(c, "conv.build")
          /\ req' = [req EXCEPT ![c].tier = tier] /\ UNCHANGED loc
       \/ ~Allowed(loc[c], tier) /\ End(c)
    /\ UNCHANGED <<jobs, used, tier, shown, maps, convs>>

(* Mutant: the overflow files are added to those of the last conversion.     *)
ConvertedKeepsExports(job, n, caps, now) ==
    LET report == [conv |-> n, free |-> now = "free"] IN
    [job EXCEPT
        !.status = "converted",
        !.res = [conv |-> n, ents |-> job.ents],
        !.process = report,
        !.final = IF FinalReport(caps) THEN report ELSE job.final,
        !.exports = @ \union {"process"} \union IF FinalReport(caps) THEN {"final"} ELSE {}]

(* The outputs of conversion n.  caps decides what is produced, now is the  *)
(* tier at the moment the reports are built: it marks them as free edition. *)
Converted(job, n, caps, now) ==
    LET report == [conv |-> n, free |-> now = "free"] IN
    [job EXCEPT
        !.status = "converted",
        !.res = [conv |-> n, ents |-> job.ents],
        !.process = report,
        !.final = IF FinalReport(caps) THEN report ELSE job.final,
        !.exports = {"process"} \union IF FinalReport(caps) THEN {"final"} ELSE {}]

(* Convert fails only for a target that is no vendor, which no stored job   *)
(* has: handleCreateJob has looked at it.                                   *)
ConvBuild(c) ==
    /\ At(c, "conv.build") /\ convs < MaxConvs
    /\ loc' = [loc EXCEPT ![c] = Converted(@, convs + 1, req[c].tier, tier)]
    /\ convs' = convs + 1
    /\ Goto(c, "conv.put")
    /\ UNCHANGED <<jobs, used, tier, req, shown, maps>>

ConvPut(c) ==
    LET id == req[c].id IN
    /\ At(c, "conv.put")
    /\ \/ /\ jobs' = [jobs EXCEPT ![id] = loc[c]]
          /\ Show(c, id, loc[c].ents) /\ End(c)
       \/ PutFails(c)
    /\ UNCHANGED <<used, tier, maps, convs>>

-----------------------------------------------------------------------------
(* handleJob: the dashboard shows the job with its map. *)
View(c, id) ==
    /\ At(c, "idle") /\ jobs[id] # Absent /\ UiOnly
    /\ Show(c, id, jobs[id].ents)
    /\ UNCHANGED <<jobs, used, tier, pc, req, loc, maps, convs>>

Delete(c, id) ==
    /\ At(c, "idle") /\ jobs[id] # Absent
    /\ jobs' = [jobs EXCEPT ![id] = Absent]
    /\ UNCHANGED <<used, tier, pc, req, loc, shown, maps, convs>>

(* handleLicense, and a restart's own activation of the stored key. *)
License ==
    /\ tier' \in Tiers
    /\ UNCHANGED <<jobs, used, pc, req, loc, shown, maps, convs>>

Restart ==
    /\ pc' = [c \in Clients |-> "idle"]
    /\ req' = [c \in Clients |-> NoReq]
    /\ loc' = [c \in Clients |-> Absent]
    /\ tier' \in Tiers
    /\ UNCHANGED <<jobs, used, shown, maps, convs>>

(* Ids a client can know: an id is told to nobody before its job is stored. *)
Known == used \ {req[c].id : c \in {d \in Clients : At(d, "create.put")}}

Ask(c) == \/ CreateCall(c)
          \/ \E id \in Known : \/ MapCall(c, id) \/ ConvCall(c, id)
                              \/ View(c, id) \/ Delete(c, id)

Serve(c) == \/ CreateCount(c) \/ CreateParse(c) \/ CreatePut(c)
            \/ MapGet(c) \/ MapPut(c)
            \/ ConvGet(c) \/ ConvCaps(c) \/ ConvBuild(c) \/ ConvPut(c)

Next == (\E c \in Clients : Ask(c) \/ Serve(c)) \/ License \/ Restart

Spec == Init /\ [][Next]_vars

-----------------------------------------------------------------------------
(* handleReport: 200, 404, or the 403 of a report this tier does not have.  *)
ReportAnswer(job, kind) ==
    LET report == IF kind = "final" THEN job.final ELSE job.process IN
    IF report # Absent THEN "200"
    ELSE IF kind = "final" /\ job.status = "converted" THEN "403" ELSE "404"

StoredJobs == {jobs[id] : id \in Stored}

(* A job that says it is converted shows the outcome of the map it shows:   *)
(* no mix of handlers leaves results of an earlier map under that status.   *)
Fresh(job) == job.status = "converted" => job.res # Absent /\ job.res.ents = job.ents

ConvertedFresh == \A job \in StoredJobs : Fresh(job)

(* The results, the process report and the overflow files of a job come     *)
(* from one conversion: whatever handlers overwrite, they never mix.        *)
Unmixed(job) ==
    /\ (job.res = Absent) = (ReportAnswer(job, "process") # "200")
    /\ job.res # Absent => /\ job.process.conv = job.res.conv
                           /\ "final" \in job.exports =>
                                 job.final # Absent /\ job.final.conv = job.res.conv

OneConversion == \A job \in StoredJobs : Unmixed(job)

(* The job limit is overshot by no more than the requests that run at the   *)
(* same time: each of them adds or brings back one job.                     *)
LimitOf == MaxJobs(CHOOSE t \in Tiers : \A u \in Tiers : MaxJobs(u) <= MaxJobs(t))
JobsBounded == Cardinality(Stored) <= LimitOf + Cardinality(Clients) - 1

(* A conversion works on a map the user who asked for it has been shown     *)
(* (README.md:20, index.html:263: never on an unseen map).                  *)
NoUnseenMap == \A c \in Clients :
                   At(c, "conv.put") => <<req[c].id, loc[c].ents>> \in shown[c]
=============================================================================
