---------------------------- MODULE LicenseProofs ---------------------------
(* Theorems about License, for every set of keys, every number of requests  *)
(* that paste them and every set of file faults.                            *)
EXTENDS License, TLAPS

(* The requests: what a key was resolved to is still true of it, and only a *)
(* request whose key unlocks something gets to the file.                    *)
RequestOK(c) ==
    /\ Bought(act[c])
    /\ act[c].tier # "free" => key[c] = act[c].license
    /\ key[c] \in seen \union {Empty, Torn}
    /\ pc[c] \in {"open", "write"} => act[c].tier # "free"

FileOK == file \in seen \union {Empty, Torn} /\ SavedKeyUnlocks

LicenseInv == TypeOK /\ BoughtTier /\ FileOK /\ \A c \in Clients : RequestOK(c)

(* A resolved key: a paid tier only from a key that verifies. *)
LEMMA Resolved ==
    ASSUME NEW issuer \in BOOLEAN, NEW k \in Keys \union {Empty, Torn}, NEW at \in Nat
    PROVE  LET a == Activate(issuer, k, at) IN
           /\ a \in Activations
           /\ a.tier # "free" => /\ a.license = k /\ k \in Keys /\ issuer
                                 /\ k.tier = a.tier /\ k.signed /\ k.ours
<1>. DEFINE a == Activate(issuer, k, at)
<1>1. \A n \in {"none", "edition", "expired", "invalid"} : 
         /\ Free(n) \in Activations /\ Free(n).tier = "free" /\ Free(n).license = Empty
    BY DEF Free, Activations, Tiers
<1>2. CASE issuer /\ k # Empty /\ Verify(issuer, k, at) = "ok"
  <2>1. k \in Keys /\ k \in KeyRecords
      BY <1>2, LicenseAssumption DEF Verify
  <2>2. k.signed /\ k.ours
      BY <1>2, <2>1, LicenseAssumption DEF Verify, KeyRecords
  <2>3. a = [tier |-> k.tier, license |-> k, notice |-> "none"]
      BY <1>2 DEF Activate
  <2>4. k.tier \in Tiers
      BY <2>1 DEF KeyRecords
  <2>. HIDE DEF a
  <2>5. a \in Activations
      BY <2>1, <2>3, <2>4 DEF Activations
  <2>6. a.tier = k.tier /\ a.license = k
      BY <2>3
  <2>7. QED BY <1>2, <2>1, <2>2, <2>5, <2>6 DEF a
<1>3. CASE ~(issuer /\ k # Empty /\ Verify(issuer, k, at) = "ok")
  <2>1. \E n \in {"none", "edition", "expired", "invalid"} : a = Free(n)
      BY <1>3 DEF Activate
  <2>2. QED BY <1>1, <2>1
<1>4. QED BY <1>2, <1>3

LEMMA LicenseInit == Init => LicenseInv
BY LicenseAssumption
   DEF Init, LicenseInv, TypeOK, BoughtTier, Bought, FileOK, SavedKeyUnlocks, RequestOK,
       Free, Activations, Tiers

LEMMA LicenseNext == LicenseInv /\ [Next]_vars => LicenseInv'
<1> SUFFICES ASSUME LicenseInv, [Next]_vars PROVE LicenseInv'
    OBVIOUS
<1>0. baked \in BOOLEAN /\ now \in Nat
    BY LicenseAssumption DEF LicenseInv, TypeOK
<1>1. ASSUME NEW c \in Clients, NEW k \in Keys \union {Empty, Torn}, Paste(c, k)
      PROVE  LicenseInv'
  <2>. DEFINE a == Activate(baked, k, now)
  <2>1. /\ a \in Activations
        /\ a.tier # "free" => /\ a.license = k /\ k \in Keys /\ baked
                              /\ k.tier = a.tier /\ k.signed /\ k.ours
      BY <1>0, Resolved
  <2>2. act' = [act EXCEPT ![c] = a]
      BY <1>1 DEF Paste
  <2>. HIDE DEF a
  <2>3. TypeOK'
      BY <1>1, <2>1, <2>2 DEF Paste, Goto, LicenseInv, TypeOK
  <2>4. BoughtTier' /\ FileOK'
      BY <1>1 DEF Paste, LicenseInv, BoughtTier, Bought, FileOK, SavedKeyUnlocks
  <2>5. ASSUME NEW d \in Clients PROVE RequestOK(d)'
    <3>1. CASE d = c
        BY <1>1, <2>1, <2>2, <3>1
           DEF Paste, Goto, LicenseInv, TypeOK, RequestOK, Bought
    <3>2. CASE d # c
        BY <1>1, <2>2, <3>2 DEF Paste, Goto, LicenseInv, TypeOK, RequestOK, Bought
    <3>3. QED BY <3>1, <3>2
  <2>6. QED BY <2>3, <2>4, <2>5 DEF LicenseInv
<1>2. ASSUME NEW c \in Clients, SetMemory(c) PROVE LicenseInv'
  <2>1. TypeOK' /\ BoughtTier' /\ FileOK'
      BY <1>2 DEF SetMemory, Goto, LicenseInv, TypeOK, RequestOK, Bought, BoughtTier,
                  FileOK, SavedKeyUnlocks
  <2>2. \A d \in Clients : RequestOK(d)'
      BY <1>2 DEF SetMemory, Goto, LicenseInv, TypeOK, RequestOK, Bought
  <2>3. QED BY <2>1, <2>2 DEF LicenseInv
<1>3. ASSUME NEW c \in Clients, OpenFile(c) PROVE LicenseInv'
  <2>1. TypeOK' /\ BoughtTier' /\ FileOK'
      BY <1>3, LicenseAssumption
         DEF OpenFile, Goto, LicenseInv, TypeOK, Bought, BoughtTier, FileOK, SavedKeyUnlocks
  <2>2. \A d \in Clients : RequestOK(d)'
      BY <1>3 DEF OpenFile, Goto, LicenseInv, TypeOK, RequestOK, Bought
  <2>3. QED BY <2>1, <2>2 DEF LicenseInv
<1>4. ASSUME NEW c \in Clients, WriteFile(c) PROVE LicenseInv'
  <2>1. /\ key[c] \in Keys /\ key[c].signed /\ key[c].ours /\ key[c].tier # "free"
        /\ key[c] \in seen
      BY <1>4 DEF WriteFile, LicenseInv, TypeOK, RequestOK, Bought
  <2>2. TypeOK' /\ BoughtTier'
      BY <1>4, <2>1 DEF WriteFile, Goto, LicenseInv, TypeOK, Bought, BoughtTier
  <2>3. FileOK'
      BY <1>4, <2>1, LicenseAssumption DEF WriteFile, LicenseInv, FileOK, SavedKeyUnlocks
  <2>4. \A d \in Clients : RequestOK(d)'
      BY <1>4 DEF WriteFile, Goto, LicenseInv, TypeOK, RequestOK, Bought
  <2>5. QED BY <2>2, <2>3, <2>4 DEF LicenseInv
<1>5. ASSUME NEW c \in Clients, Answer(c) PROVE LicenseInv'
  <2>0. Free("none") \in Activations /\ Bought(Free("none"))
      BY DEF Free, Activations, Tiers, Bought
  <2>1. TypeOK' /\ BoughtTier' /\ FileOK'
      BY <1>5, <2>0 DEF Answer, Goto, LicenseInv, TypeOK, Bought, BoughtTier, FileOK,
                        SavedKeyUnlocks
  <2>2. \A d \in Clients : RequestOK(d)'
      BY <1>5 DEF Answer, Goto, LicenseInv, TypeOK, RequestOK, Bought, Free
  <2>3. QED BY <2>1, <2>2 DEF LicenseInv
<1>6. CASE Tick
    BY <1>6, LicenseAssumption
       DEF Tick, LicenseInv, TypeOK, RequestOK, Bought, BoughtTier, FileOK, SavedKeyUnlocks
<1>7. CASE Restart
  <2>. DEFINE a == Activate(baked', file, now)
  <2>1. baked' \in BOOLEAN /\ file \in Keys \union {Empty, Torn}
      BY <1>7, LicenseAssumption DEF Restart, LicenseInv, TypeOK
  <2>2. /\ a \in Activations
        /\ a.tier # "free" => /\ a.license = file /\ file \in Keys /\ baked'
                              /\ file.tier = a.tier /\ file.signed /\ file.ours
      BY <1>0, <2>1, Resolved
  <2>3. activation' = a
      BY <1>7 DEF Restart
  <2>. HIDE DEF a
  <2>4. Free("none") \in Activations
      BY DEF Free, Activations, Tiers
  <2>5. TypeOK'
      BY <1>7, <2>2, <2>3, <2>4 DEF Restart, LicenseInv, TypeOK
  <2>6. BoughtTier'
      BY <1>7, <2>2, <2>3, LicenseAssumption
         DEF Restart, LicenseInv, FileOK, BoughtTier, Bought
  <2>7. FileOK'
      BY <1>7 DEF Restart, LicenseInv, FileOK, SavedKeyUnlocks
  <2>8. \A d \in Clients : RequestOK(d)'
      BY <1>7 DEF Restart, RequestOK, Bought, Free
  <2>9. QED BY <2>5, <2>6, <2>7, <2>8 DEF LicenseInv
<1>8. CASE UNCHANGED vars
    BY <1>8 DEF vars, LicenseInv, TypeOK, RequestOK, Bought, BoughtTier, FileOK,
                SavedKeyUnlocks
<1>9. QED
    BY <1>1, <1>2, <1>3, <1>4, <1>5, <1>6, <1>7, <1>8 DEF Next

LEMMA LicenseCorrect == Spec => []LicenseInv
BY LicenseInit, LicenseNext, PTL DEF Spec

THEOREM LicenseTypeCorrect == Spec => []TypeOK
<1>1. LicenseInv => TypeOK
    BY DEF LicenseInv
<1>2. QED BY <1>1, LicenseCorrect, PTL

(* No order of pastes, file writes, crashes and restarts unlocks a tier     *)
(* that no pasted, signed key of this product names.                        *)
THEOREM OnlyBought == Spec => []BoughtTier
<1>1. LicenseInv => BoughtTier
    BY DEF LicenseInv
<1>2. QED BY <1>1, LicenseCorrect, PTL

(* The saved key is one that unlocked a tier. *)
THEOREM SavedUnlocks == Spec => []SavedKeyUnlocks
<1>1. LicenseInv => SavedKeyUnlocks
    BY DEF LicenseInv, FileOK
<1>2. QED BY <1>1, LicenseCorrect, PTL
=============================================================================
