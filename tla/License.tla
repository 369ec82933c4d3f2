------------------------------- MODULE License ------------------------------
(***************************************************************************)
(* License keys (src/license/license.go) and their activation by the        *)
(* dashboard (src/webui/server.go: New, handleLicense): a key is verified   *)
(* against the clock when it is pasted and when the process starts, the     *)
(* result is kept in memory, and a key that unlocks something is saved in a *)
(* file.  Memory and file are written one after the other, without a lock   *)
(* around the pair, and the file is truncated before it is written.         *)
(***************************************************************************)
EXTENDS Naturals, FiniteSets

CONSTANTS
    Clients,    \* requests that paste a key at the same time
    Keys,       \* the keys a user may paste, see KeyRecords
    Builds,     \* editions of the binary: TRUE has an issuer key baked in
    Faults,     \* subset of {"open", "write"}: failures of the key file
    MaxNow,     \* bound: the last day of the clock
    Empty,      \* no key
    Torn        \* a file that is no whole key

Tiers == {"free", "pro", "team", "other"}
PaidTiers == {"pro", "team"}

(* signed: by the issuer of this product line; ours: for this product.      *)
KeyRecords == [signed : BOOLEAN, ours : BOOLEAN, tier : Tiers, issued : Nat, expires : Nat]

ASSUME LicenseAssumption ==
    /\ Keys \subseteq KeyRecords
    /\ Builds # {} /\ Builds \subseteq BOOLEAN
    /\ Faults \subseteq {"open", "write"}
    /\ MaxNow \in Nat
    /\ Empty \notin KeyRecords /\ Torn \notin KeyRecords /\ Empty # Torn

VARIABLES
    now,         \* the day
    baked,       \* the running binary has an issuer key
    activation,  \* Server.activation
    file,        \* the key file: a key, Empty or Torn
    pc,          \* client -> the step its request is at
    key,         \* client -> the key its request pastes
    act,         \* client -> what the key was resolved to
    seen         \* history: the keys pasted so far

vars == <<now, baked, activation, file, pc, key, act, seen>>

Activations == [tier : Tiers, license : Keys \union {Empty},
                notice : {"none", "edition", "expired", "invalid"}]

Free(notice) == [tier |-> "free", license |-> Empty, notice |-> notice]

TypeOK ==
    /\ now \in 0..MaxNow /\ baked \in Builds
    /\ activation \in Activations
    /\ file \in Keys \union {Empty, Torn}
    /\ pc \in [Clients -> {"idle", "memory", "open", "write", "answer"}]
    /\ key \in [Clients -> Keys \union {Empty, Torn}]
    /\ act \in [Clients -> Activations]
    /\ seen \subseteq Keys

-----------------------------------------------------------------------------
(* Mutant: the signature is not looked at. *)
VerifyUnsigned(issuer, k, at) ==
    IF k = Torn THEN "malformed"
    ELSE IF ~issuer THEN "signature"
    ELSE IF ~k.ours THEN "product"
    ELSE IF at > k.expires THEN "expired" ELSE "ok"

(* Verify: the checks in the order of the code.  A torn key does not decode *)
(* or its signature has the wrong length; either way it is refused.         *)
Verify(issuer, k, at) ==
    IF k = Torn THEN "malformed"
    ELSE IF ~issuer \/ ~k.signed THEN "signature"
    ELSE IF ~k.ours THEN "product"
    ELSE IF at > k.expires THEN "expired" ELSE "ok"

(* Mutant: the user reads the error of Verify. *)
ActivateRawError(issuer, k, at) ==
    IF ~issuer THEN Free(IF k = Empty THEN "none" ELSE "edition")
    ELSE IF k = Empty THEN Free("none")
    ELSE LET verdict == Verify(issuer, k, at) IN
         IF verdict = "ok" THEN [tier |-> k.tier, license |-> k, notice |-> "none"]
         ELSE Free(verdict)

(* Activate never fails: every problem with a key is the free tier. *)
Activate(issuer, k, at) ==
    IF ~issuer THEN Free(IF k = Empty THEN "none" ELSE "edition")
    ELSE IF k = Empty THEN Free("none")
    ELSE LET verdict == Verify(issuer, k, at) IN
         IF verdict = "ok" THEN [tier |-> k.tier, license |-> k, notice |-> "none"]
         ELSE Free(IF verdict = "expired" THEN "expired" ELSE "invalid")

-----------------------------------------------------------------------------
Init ==
    /\ now = 0 /\ baked \in Builds
    /\ activation = Free("none")
    /\ file = Empty
    /\ pc = [c \in Clients |-> "idle"]
    /\ key = [c \in Clients |-> Empty]
    /\ act = [c \in Clients |-> Free("none")]
    /\ seen = {}

Goto(c, label) == pc' = [pc EXCEPT ![c] = label]

(* handleLicense: the key is resolved at once, before any lock is taken.    *)
Paste(c, k) ==
    /\ pc[c] = "idle" /\ Goto(c, "memory")
    /\ key' = [key EXCEPT ![c] = k]
    /\ act' = [act EXCEPT ![c] = Activate(baked, k, now)]
    /\ seen' = seen \union ({k} \cap Keys)
    /\ UNCHANGED <<now, baked, activation, file>>

(* Mutant: whatever was pasted is saved. *)
SetMemoryAndSave(c) ==
    /\ pc[c] = "memory"
    /\ activation' = act[c]
    /\ Goto(c, "open")
    /\ UNCHANGED <<now, baked, file, key, act, seen>>

(* s.activation = act under s.mu; only a key that unlocks a tier is saved.  *)
SetMemory(c) ==
    /\ pc[c] = "memory"
    /\ activation' = act[c]
    /\ Goto(c, IF act[c].tier # "free" THEN "open" ELSE "answer")
    /\ UNCHANGED <<now, baked, file, key, act, seen>>

(* os.WriteFile opens with O_TRUNC; its error is ignored. *)
OpenFile(c) ==
    /\ pc[c] = "open"
    /\ \/ file' = Empty /\ Goto(c, "write")
       \/ "open" \in Faults /\ file' = file /\ Goto(c, "answer")
    /\ UNCHANGED <<now, baked, activation, key, act, seen>>

(* The key goes over whatever another request wrote since: the tail of a    *)
(* longer key stays behind it.                                              *)
WriteFile(c) ==
    /\ pc[c] = "write" /\ Goto(c, "answer")
    /\ \/ file' = key[c]
       \/ file \notin {Empty, key[c]} /\ file' = Torn
       \/ "write" \in Faults /\ file' \in {file, Torn}
    /\ UNCHANGED <<now, baked, activation, key, act, seen>>

Answer(c) ==
    /\ pc[c] = "answer" /\ Goto(c, "idle")
    /\ key' = [key EXCEPT ![c] = Empty]
    /\ act' = [act EXCEPT ![c] = Free("none")]
    /\ UNCHANGED <<now, baked, activation, file, seen>>

Tick ==
    /\ now < MaxNow /\ now' = now + 1
    /\ UNCHANGED <<baked, activation, file, pc, key, act, seen>>

(* The process stops at any point and New reads the file; the operator may  *)
(* have installed another edition.                                          *)
Restart ==
    /\ baked' \in Builds
    /\ activation' = Activate(baked', file, now)
    /\ pc' = [c \in Clients |-> "idle"]
    /\ key' = [c \in Clients |-> Empty]
    /\ act' = [c \in Clients |-> Free("none")]
    /\ UNCHANGED <<now, file, seen>>

Next ==
    \/ \E c \in Clients :
          \/ \E k \in Keys \union {Empty, Torn} : Paste(c, k)
          \/ SetMemory(c) \/ OpenFile(c) \/ WriteFile(c) \/ Answer(c)
    \/ Tick \/ Restart

Spec == Init /\ [][Next]_vars

-----------------------------------------------------------------------------
(* A paid tier runs only under a key that the issuer signed for this        *)
(* product and that tier, that somebody pasted, in a build that can verify  *)
(* it: concurrent pastes and torn files never add up to one.                *)
Bought(a) ==
    a.tier # "free" => /\ a.license \in seen /\ a.license.tier = a.tier
                       /\ a.license.signed /\ a.license.ours /\ baked

BoughtTier == Bought(activation)

(* The file never holds a key that unlocks nothing: an expired, foreign or  *)
(* free key that is pasted does not replace the one that was bought.        *)
SavedKeyUnlocks ==
    file \in Keys => file.signed /\ file.ours /\ file.tier # "free"
=============================================================================
