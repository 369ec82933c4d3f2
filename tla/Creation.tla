------------------------------ MODULE Creation -------------------------------
(***************************************************************************)
(* How a job comes into being (src/webui/upload.go, handleCreateJob): what *)
(* JobServer does in one step, CreateParse, is here the whole way of a      *)
(* multipart request to temporary files, back into memory and through the  *)
(* parser.  Every other handler runs as in JobServer.                       *)
(*                                                                         *)
(* A file part is its size in bytes, a form field what the handler tells    *)
(* apart: a good pair of vendors, a bad one, a pasted configuration, a      *)
(* blank one, a field over the cap.                                         *)
(***************************************************************************)
EXTENDS JobServer, Sequences, SequencesExt

CONSTANTS
    Limit,       \* MaxUploadBytes: for the file parts of a request together
    Requests     \* the multipart requests a client may send

Fields == {"vendors", "novendors", "paste", "blank", "huge"}
Parts == [kind : {"file"}, size : Nat] \union [kind : Fields, size : {0}]

ASSUME CreationAssumption ==
    Limit \in Nat \ {0} /\ Requests \subseteq Seq(Parts)

Steps == {"none", "next", "copy", "copied", "check", "read", "parse", "clean", "done"}
Codes == {"none", "400", "413", "422", "500"}

VARIABLES
    at,         \* client -> the step of the upload, "none" outside of it
    sent,       \* client -> its request, as sent
    todo,       \* client -> the parts not read yet
    left,       \* client -> receiveUpload's remaining
    disk,       \* client -> the sizes of its temporary files
    form,       \* client -> the fields read
    inputs,     \* client -> the inputs in memory: their sizes
    code,       \* client -> the status it is refused with
    stuck       \* client -> how many of its files, of how many bytes, stay on
                \* the disk because os.Remove failed on them

upload == <<at, sent, todo, left, disk, form, inputs, code, stuck>>
cvars == <<vars, upload>>

Nothing == [c \in Clients |-> <<>>]
NoFiles == [files |-> 0, bytes |-> 0]
NoneStuck == [c \in Clients |-> NoFiles]

CInit ==
    /\ Init
    /\ at = [c \in Clients |-> "none"]
    /\ sent = Nothing /\ todo = Nothing /\ disk = Nothing /\ inputs = Nothing
    /\ left = [c \in Clients |-> Limit]
    /\ form = [c \in Clients |-> {}]
    /\ code = [c \in Clients |-> "none"]
    /\ stuck = NoneStuck

Doing(c, step) == at[c] = step
Move(c, step) == at' = [at EXCEPT ![c] = step]

(* The handler returns: JobServer's CreateParse without a job. *)
Refuse(c, status) ==
    /\ At(c, "create.parse") /\ End(c)
    /\ code' = [code EXCEPT ![c] = status]
    /\ UNCHANGED <<jobs, used, tier, shown, maps, convs>>

(* Of the first k sizes the sum.                                            *)
Totals(sizes) ==
    LET sum[k \in 0..Len(sizes)] == IF k = 0 THEN 0 ELSE sum[k - 1] + sizes[k] IN sum

Total(sizes) == Totals(sizes)[Len(sizes)]

(* The sizes with nothing but the failing ones counted.                     *)
OnlyOf(sizes, failing) == [k \in DOMAIN sizes |-> IF k \in failing THEN sizes[k] ELSE 0]

(* removeUploads, and the removal of the part at hand before it: os.Remove  *)
(* is called on every file, and its error is dropped.                       *)
Sweep(c) ==
    \E failing \in SUBSET DOMAIN disk[c] :
        /\ stuck' = [stuck EXCEPT ![c] =
                        [files |-> @.files + Cardinality(failing),
                         bytes |-> @.bytes + Total(OnlyOf(disk[c], failing))]]
        /\ disk' = [disk EXCEPT ![c] = <<>>]

(* Mutant: the error path of a part forgets the parts before it.            *)
GiveUpLast(c, status) ==
    /\ Refuse(c, status)
    /\ Move(c, "done")
    /\ disk' = [disk EXCEPT ![c] = IF @ = <<>> THEN @ ELSE Front(@)]
    /\ UNCHANGED stuck

(* receiveUpload fails: the files of the parts before are removed first.    *)
GiveUp(c, status) ==
    /\ Refuse(c, status)
    /\ Move(c, "done")
    /\ Sweep(c)

-----------------------------------------------------------------------------
Open(c) ==
    /\ At(c, "create.parse") /\ Doing(c, "none") /\ Move(c, "next")
    /\ \E request \in Requests :
          sent' = [sent EXCEPT ![c] = request] /\ todo' = [todo EXCEPT ![c] = request]
    /\ UNCHANGED <<vars, left, disk, form, inputs, code, stuck>>

(* A field: the last one of its name counts.                                *)
Read(fields, kind) ==
    CASE kind \in {"vendors", "novendors"} -> (fields \ {"vendors", "novendors"}) \union {kind}
      [] kind \in {"paste", "blank"} -> (fields \ {"paste", "blank"}) \union {kind}
      [] OTHER -> fields

(* NextPart: broken off, at the end, a field, or a file, whose temporary    *)
(* file is created.                                                         *)
NextPart(c) ==
    /\ Doing(c, "next")
    /\ \/ GiveUp(c, "400") /\ UNCHANGED <<todo, form>>
       \/ /\ todo[c] = <<>> /\ Move(c, "check")
          /\ UNCHANGED <<vars, todo, form, disk, code, stuck>>
       \/ /\ todo[c] # <<>> /\ Head(todo[c]).kind = "huge" /\ GiveUp(c, "413")
          /\ UNCHANGED <<todo, form>>
       \/ /\ todo[c] # <<>> /\ Head(todo[c]).kind \in Fields \ {"huge"}
          /\ form' = [form EXCEPT ![c] = Read(@, Head(todo[c]).kind)]
          /\ todo' = [todo EXCEPT ![c] = Tail(@)]
          /\ UNCHANGED <<vars, at, disk, code, stuck>>
       \/ /\ todo[c] # <<>> /\ Head(todo[c]).kind = "file"
          /\ disk' = [disk EXCEPT ![c] = Append(@, 0)] /\ Move(c, "copy")
          /\ UNCHANGED <<vars, todo, form, code, stuck>>
    /\ UNCHANGED <<sent, left, inputs>>

(* Mutant: one byte less is read, so a file that is too big is cut. *)
CopiedCut(c) == LET size == Head(todo[c]).size IN IF size < left[c] THEN size ELSE left[c]

(* io.Copy of a LimitReader: one byte past what is left of the limit.       *)
Copied(c) == LET size == Head(todo[c]).size IN IF size <= left[c] THEN size ELSE left[c] + 1

(* Mutant: a file that fills the limit is refused. *)
TooLargeEarly(c) == Copied(c) >= left[c]

TooLarge(c) == Copied(c) > left[c]

Remaining(c) == left[c] - Copied(c)

(* The bytes arrive, or the copy breaks off: the client is gone, the disk   *)
(* full.                                                                    *)
Copy(c) ==
    /\ Doing(c, "copy")
    /\ \/ GiveUp(c, "400")
       \/ /\ disk' = [disk EXCEPT ![c][Len(disk[c])] = Copied(c)]
          /\ Move(c, "copied")
          /\ UNCHANGED <<vars, code, stuck>>
    /\ UNCHANGED <<sent, todo, left, form, inputs>>

(* The file is past the limit, or it is kept, or empty and dropped: if it   *)
(* cannot be removed, nobody comes back for it.                             *)
Weigh(c) ==
    /\ Doing(c, "copied")
    /\ \/ TooLarge(c) /\ GiveUp(c, "413") /\ UNCHANGED <<todo, left>>
       \/ /\ ~TooLarge(c) /\ Move(c, "next")
          /\ disk' = [disk EXCEPT ![c] = IF Copied(c) = 0 THEN Front(@) ELSE @]
          /\ \E n \in IF Copied(c) = 0 THEN 0..1 ELSE {0} :
                stuck' = [stuck EXCEPT ![c].files = @ + n]
          /\ left' = [left EXCEPT ![c] = Remaining(c)]
          /\ todo' = [todo EXCEPT ![c] = Tail(@)]
          /\ UNCHANGED <<vars, code>>
    /\ UNCHANGED <<sent, form, inputs>>

-----------------------------------------------------------------------------
(* From here on removeUploads is deferred: an answer leaves the files for   *)
(* the step after it.                                                       *)
Answer(c, status) == Refuse(c, status) /\ Move(c, "clean")

(* The vendors are looked at before the files.                              *)
Check(c) ==
    /\ Doing(c, "check")
    /\ \/ "vendors" \notin form[c] /\ Answer(c, "400")
       \/ "vendors" \in form[c] /\ Move(c, "read") /\ UNCHANGED <<vars, code>>
    /\ UNCHANGED <<sent, todo, left, disk, form, inputs, stuck>>

(* readUpload, file by file; then what was pasted.  A file that cannot be   *)
(* read ends the request, and so does having no input at all.               *)
ReadBack(c) ==
    LET read == disk[c] \o IF "paste" \in form[c] THEN <<0>> ELSE <<>> IN
    /\ Doing(c, "read")
    /\ \/ disk[c] # <<>> /\ Answer(c, "500") /\ UNCHANGED inputs
       \/ read = <<>> /\ Answer(c, "400") /\ UNCHANGED inputs
       \/ /\ read # <<>> /\ Move(c, "parse")
          /\ inputs' = [inputs EXCEPT ![c] = read]
          /\ UNCHANGED <<vars, code>>
    /\ UNCHANGED <<sent, todo, left, disk, form, stuck>>

(* The parser refuses, or the job is there, in memory; it keeps the names   *)
(* and sizes of its inputs.                                                 *)
Parse(c) ==
    /\ Doing(c, "parse")
    /\ \/ Answer(c, "422")
       \/ /\ CreateParse(c) /\ ~At(c, "idle")' /\ Move(c, "clean")
          /\ UNCHANGED code
    /\ UNCHANGED <<sent, todo, left, disk, form, inputs, stuck>>

(* The deferred removeUploads, after the answer, that of CreatePut too.     *)
Clean(c) ==
    /\ Doing(c, "clean") /\ At(c, "idle")
    /\ Sweep(c) /\ Move(c, "done")
    /\ UNCHANGED <<vars, sent, todo, left, form, inputs, code>>

(* The handler is over; what it held in memory is garbage, and what it      *)
(* could not remove is nobody's any more.                                   *)
Leave(c) ==
    /\ Doing(c, "done") /\ Move(c, "none")
    /\ sent' = [sent EXCEPT ![c] = <<>>] /\ todo' = [todo EXCEPT ![c] = <<>>]
    /\ left' = [left EXCEPT ![c] = Limit] /\ form' = [form EXCEPT ![c] = {}]
    /\ inputs' = [inputs EXCEPT ![c] = <<>>] /\ code' = [code EXCEPT ![c] = "none"]
    /\ stuck' = [stuck EXCEPT ![c] = NoFiles]
    /\ UNCHANGED <<vars, disk>>

Upload(c) ==
    \/ Open(c) \/ NextPart(c) \/ Copy(c) \/ Weigh(c)
    \/ Check(c) \/ ReadBack(c) \/ Parse(c) \/ Clean(c) \/ Leave(c)

-----------------------------------------------------------------------------
(* The other handlers and the other steps of this one.  A connection asks   *)
(* again when its handler is through.                                       *)
Others(c) ==
    /\ \/ Doing(c, "none") /\ Ask(c)
       \/ CreateCount(c) \/ CreatePut(c)
       \/ MapGet(c) \/ MapPut(c) \/ ConvGet(c) \/ ConvCaps(c) \/ ConvBuild(c) \/ ConvPut(c)
    /\ UNCHANGED upload

(* The files a dying process leaves behind are nobody's any more: no later  *)
(* request has their names, and nothing removes them.                       *)
Die ==
    /\ Restart
    /\ at' = [c \in Clients |-> "none"] /\ code' = [c \in Clients |-> "none"]
    /\ sent' = Nothing /\ todo' = Nothing /\ disk' = Nothing /\ inputs' = Nothing
    /\ stuck' = NoneStuck
    /\ left' = [c \in Clients |-> Limit] /\ form' = [c \in Clients |-> {}]

CNext ==
    \/ \E c \in Clients : Upload(c) \/ Others(c)
    \/ License /\ UNCHANGED upload
    \/ Die

CSpec == CInit /\ [][CNext]_cvars

-----------------------------------------------------------------------------
Sizes(parts) == [k \in DOMAIN parts |-> parts[k].size]

(* Of the first k sizes those that are not nothing, in order.               *)
Contents(sizes) ==
    LET kept[k \in 0..Len(sizes)] ==
            IF k = 0 THEN <<>> ELSE IF sizes[k] > 0 THEN Append(kept[k - 1], sizes[k]) ELSE kept[k - 1]
    IN kept

Content(parts) == Contents(Sizes(parts))[Len(parts)]

(* A job is made of all of its request: every file that has content, whole  *)
(* and in its order, and a paste behind them.                               *)
WholeInputs ==
    \A c \in Clients : At(c, "create.put") =>
        inputs[c] = Content(sent[c]) \o (IF "paste" \in form[c] THEN <<0>> ELSE <<>>)

(* A request is too large when its files together are past the limit, and   *)
(* only then; one that fills it to the last byte is not, and however large  *)
(* it is, its files, with those that could not be removed, occupy one byte  *)
(* more than the limit (upload.go:69-72).                                   *)
LimitExact ==
    \A c \in Clients :
        /\ code[c] = "413" =>
              \/ Total(Sizes(sent[c])) > Limit
              \/ \E k \in DOMAIN sent[c] : sent[c][k].kind = "huge"
        /\ Doing(c, "parse") => Total(Sizes(sent[c])) <= Limit
        /\ Total(disk[c]) + stuck[c].bytes <= Limit + 1

(* A handler that is through, by whatever path, has called os.Remove on     *)
(* every file of its request: what stays is what os.Remove failed on.       *)
FilesRemoved ==
    \A c \in Clients :
        /\ Doing(c, "done") \/ Doing(c, "none") => disk[c] = <<>>
        /\ stuck[c].files = 0 => stuck[c].bytes = 0
=============================================================================
