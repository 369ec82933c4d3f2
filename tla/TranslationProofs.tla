-------------------------- MODULE TranslationProofs -------------------------
(***************************************************************************)
(* Proofs about Translation, for any hosts, flows, zones, rule lists and    *)
(* references: a rule that is said to be converted keeps its addresses, and *)
(* outside the silent cases matches what it matched, and a whole list of    *)
(* such rules decides every packet as it did.                               *)
(***************************************************************************)
EXTENDS Translation, Integers, WellFoundedInduction, SequenceTheorems, TLAPS

(* A reference without IPv6 that the vendor mangles keeps its hosts.        *)
LEMMA ReferenceKept ==
    ASSUME NEW v \in Vendors, NEW ref \in Refs, ~Mangled6(v, ref),
           RefItem(v, ref) = "converted"
    PROVE  There(v, ref) = Stands(ref)
<1>1. ~(ref.kind = "fqdn" /\ v = "checkpoint")
  BY DEF RefItem
<1>2. ASSUME NEW p \in ref.six PROVE Written6(v, ref.kind, p) = p.hosts
  <2>1. p \in Forms6
    BY TranslationAssumption DEF Refs
  <2>2. p.len \in {"128", "other", "range", "name"} /\ v # "fortigate"
    BY <2>1 DEF Mangled6, Forms6, Lengths6
  <2>3. v = "asa" => p.len # "other"
    BY DEF Mangled6
  <2>4. v # "panos" => p.len # "name"
    BY DEF Mangled6
  <2>5. v = "panos" /\ p.len = "128" => ref.kind # "object"
    BY DEF Mangled6
  <2> QED BY <2>2, <2>3, <2>4, <2>5 DEF Written6, Object6, Literal6, AsPrefix
<1> QED BY <1>1, <1>2 DEF There, Stands

LEMMA ReferencesKept ==
    ASSUME NEW v \in Vendors, NEW refs \in SUBSET Refs,
           \A ref \in refs : ~Mangled6(v, ref) /\ RefItem(v, ref) = "converted"
    PROVE  HostsThere(v, refs) = HostsOf(refs)
<1>1. \A ref \in refs : There(v, ref) = Stands(ref)
  BY ReferenceKept
<1> QED BY <1>1 DEF HostsThere, HostsOf

(* What one list of references becomes at any vendor.                       *)
LEMMA AnyIsAll ==
    ASSUME NEW ref \in Refs, ref.hosts = Hosts
    PROVE  HostsOf({ref}) = Hosts
<1>1. \A p \in ref.six : p.hosts \subseteq Hosts
  BY TranslationAssumption DEF Refs, Forms6
<1>2. Stands(ref) = Hosts
  BY <1>1 DEF Stands
<1> QED BY <1>2 DEF HostsOf

LEMMA AddressesKept ==
    ASSUME NEW v \in Vendors, NEW refs \in SUBSET Refs,
           \A ref \in refs : ref.kind = "any" => refs = {ref} /\ ref.hosts = Hosts,
           \A ref \in refs : ~Mangled6(v, ref) /\ RefItem(v, ref) = "converted",
           Addresses(v, refs).status = "converted"
    PROVE  Addresses(v, refs).matches = Means(refs)
<1>1. CASE refs = {}
  BY <1>1 DEF Addresses, Means, Result
<1>0. HostsThere(v, refs) = HostsOf(refs)
  BY ReferencesKept
<1>2. CASE refs # {} /\ v # "asa"
  <2>1. Addresses(v, refs) = NamedList(v, refs)
    BY <1>2 DEF Addresses
  <2>2. \A ref \in refs : ref.kind \notin {"interface", "unknown"}
    BY <2>1 DEF NamedList, Result, Kept
  <2>3. CASE \E ref \in refs : ref.kind = "any"
    <3>1. PICK ref \in refs : ref.kind = "any" /\ refs = {ref} /\ ref.hosts = Hosts
      BY <2>3
    <3>2. Kept(refs, {"object", "fqdn", "group", "cidr", "range"}) = {}
      BY <3>1 DEF Kept
    <3>3. HostsOf(refs) = Hosts
      BY <3>1, AnyIsAll
    <3> QED BY <1>2, <2>1, <3>2, <3>3 DEF NamedList, Result, Means
  <2>4. CASE \A ref \in refs : ref.kind # "any"
    <3>1. Kept(refs, {"object", "fqdn", "group", "cidr", "range"}) = refs
      BY <2>2, <2>4 DEF Kept, Refs
    <3> QED BY <1>0, <1>2, <2>1, <3>1 DEF NamedList, Result, Means
  <2> QED BY <2>3, <2>4
<1>3. CASE refs # {} /\ v = "asa" /\ \E ref \in refs : refs = {ref}
  <2>1. PICK ref \in refs : refs = {ref}
    BY <1>3
  <2>2. Addresses(v, refs) = AsaClause(ref)
    <3>1. (CHOOSE r \in refs : TRUE) = ref
      BY <2>1
    <3> QED BY <1>3, <3>1 DEF Addresses, Several
  <2>3. HostsThere("asa", refs) = There("asa", ref)
    BY <2>1 DEF HostsThere
  <2> QED BY <1>0, <1>3, <2>2, <2>3 DEF AsaClause, Result, Means
<1>4. CASE refs # {} /\ v = "asa" /\ ~(\E ref \in refs : refs = {ref})
  <2>1. Addresses(v, refs) = AsaGroup(refs)
    BY <1>4 DEF Addresses, Several
  <2>2. Kept(refs, {"object", "fqdn", "group", "cidr"}) = refs
    BY <2>1 DEF AsaGroup, Result
  <2> QED BY <1>0, <1>4, <2>1, <2>2 DEF AsaGroup, Result, Means
<1> QED BY <1>1, <1>2, <1>3, <1>4

(* What one list of services becomes at any vendor.                         *)
LEMMA ServicesKept ==
    ASSUME NEW v \in Vendors, NEW rule \in Rules, WellFormed(rule), ~Silent(v, rule),
           \A s \in rule.services : ItsOwnItem(v, s) = "converted",
           ServiceList(v, rule.services).status = "converted"
    PROVE  ServiceList(v, rule.services).matches =
               IF rule.services = {} THEN Flows ELSE FlowsOf(rule.services)
PROOF
<1> DEFINE ss == rule.services
<1>0. ss \in SUBSET Services
  BY DEF Rules
<1>1. \A s \in ss : s.kind = "any" => ss = {s} /\ s.flows = Flows
  BY DEF WellFormed
<1>2. CASE ss = {}
  BY <1>2 DEF ServiceList, Result
<1>3. \A s \in ss : s.kind \in {"object", "group", "literal", "any"} /\ v # "panos" => Meaning(v, s) = s.flows
  <2> TAKE s \in ss
  <2> HAVE s.kind \in {"object", "group", "literal", "any"} /\ v # "panos"
  <2>0. ItsOwnItem(v, s) = "converted"
    OBVIOUS
  <2>1. CASE s.kind = "object"
    BY <1>0, <2>0, <2>1 DEF Meaning, ObjectMeaning, ItsOwnItem, FirstHalf, Ports, Silent, Services, Vendors
  <2>2. CASE s.kind = "group"
    BY <1>0, <2>0, <2>2 DEF Meaning, GroupMeaning, LiteralMeaning, ItsOwnItem, FirstHalf, Silent, Services, Vendors
  <2>3. CASE s.kind = "literal"
    BY <1>0, <2>3 DEF Meaning, LiteralMeaning, FirstHalf, Silent, Services, Vendors
  <2>4. CASE s.kind = "any"
    BY <2>4 DEF Meaning
  <2> QED BY <2>1, <2>2, <2>3, <2>4
<1>4. ASSUME NEW S \in SUBSET ss, \A s \in S : Meaning(v, s) = s.flows
      PROVE  MeaningOf(v, S) = FlowsOf(S)
  BY <1>4 DEF MeaningOf, FlowsOf
<1>5. CASE ss # {} /\ v = "asa"
  <2>1. ServiceList(v, ss) = AsaServices(ss)
    BY <1>5 DEF ServiceList
  <2>2. {s \in ss : s.kind # "unknown"} = ss
    BY <2>1 DEF AsaServices, Result
  <2>3. \A s \in ss : Meaning(v, s) = s.flows
    BY <1>0, <1>3, <1>5, <2>2 DEF Services
  <2> QED BY <1>4, <1>5, <2>1, <2>2, <2>3 DEF AsaServices, Result
<1>6. CASE ss # {} /\ v = "panos"
  <2> DEFINE icmp == {s \in Kept(ss, {"object", "literal"}) : s.proto = "icmp"}
             named == {s \in ss \ icmp : s.kind \in {"object", "group"} \/ (s.kind = "literal" /\ s.port)}
  <2>1. ServiceList(v, ss) = PanServices(ss)
    BY <1>6 DEF ServiceList
  <2>2. icmp = {} /\ Kept(ss, {"unknown"}) = {}
    BY <2>1 DEF PanServices, Result
  <2>3. PanServices(ss).matches = IF named = {} THEN Flows ELSE MeaningOf("panos", named)
    BY <2>2 DEF PanServices, Result
  <2>4. CASE \E s \in ss : s.kind = "any"
    <3>1. PICK s \in ss : s.kind = "any" /\ ss = {s} /\ s.flows = Flows
      BY <1>1, <2>4
    <3>2. named = {}
      BY <3>1
    <3>3. FlowsOf(ss) = Flows
      BY <3>1 DEF FlowsOf
    <3> QED BY <1>6, <2>1, <2>3, <3>2, <3>3
  <2>5. CASE \A s \in ss : s.kind # "any"
    <3>1. \A s \in ss : s.kind \in {"object", "group", "literal"}
      BY <1>0, <2>2, <2>5 DEF Kept, Services
    <3>2. \A s \in ss : s.kind = "literal" => s.port
      BY <1>6 DEF Silent
    <3>3. named = ss
      BY <2>2, <3>1, <3>2
    <3>4. \A s \in ss : Meaning(v, s) = s.flows
      <4> TAKE s \in ss
      <4>0. ItsOwnItem(v, s) = "converted"
        OBVIOUS
      <4>1. CASE s.kind = "object"
        BY <1>6, <4>0, <4>1 DEF Meaning, ObjectMeaning, ItsOwnItem, FirstHalf, Ports
      <4>2. CASE s.kind = "group"
        BY <1>6, <4>0, <4>2 DEF Meaning, GroupMeaning, LiteralMeaning, ItsOwnItem, FirstHalf, Silent
      <4>3. CASE s.kind = "literal"
        BY <1>6, <4>3 DEF Meaning, LiteralMeaning, FirstHalf, Silent
      <4> QED BY <3>1, <4>1, <4>2, <4>3
    <3> QED BY <1>4, <1>6, <2>1, <2>3, <3>3, <3>4
  <2> QED BY <2>4, <2>5
<1>7. CASE ss # {} /\ v \notin {"asa", "panos"}
  <2> DEFINE named == Kept(ss, {"object", "group", "literal"})
  <2>1. ServiceList(v, ss) = NamedServices(v, ss)
    BY <1>7 DEF ServiceList
  <2>2. Kept(ss, {"unknown"}) = {}
    BY <2>1 DEF NamedServices, Result
  <2>3. NamedServices(v, ss).matches = IF named = {} THEN Flows ELSE MeaningOf(v, named)
    BY DEF NamedServices, Result
  <2>4. CASE \E s \in ss : s.kind = "any"
    <3>1. PICK s \in ss : s.kind = "any" /\ ss = {s} /\ s.flows = Flows
      BY <1>1, <2>4
    <3>2. named = {}
      BY <3>1 DEF Kept
    <3>3. FlowsOf(ss) = Flows
      BY <3>1 DEF FlowsOf
    <3> QED BY <1>7, <2>1, <2>3, <3>2, <3>3
  <2>5. CASE \A s \in ss : s.kind # "any"
    <3>1. \A s \in ss : s.kind \in {"object", "group", "literal"}
      BY <1>0, <2>2, <2>5 DEF Kept, Services
    <3>2. named = ss
      BY <3>1 DEF Kept
    <3>3. \A s \in ss : Meaning(v, s) = s.flows
      BY <1>3, <1>7, <3>1
    <3> QED BY <1>4, <1>7, <2>1, <2>3, <3>2, <3>3
  <2> QED BY <2>4, <2>5
<1> QED BY <1>2, <1>5, <1>6, <1>7

(* The zones a target rule applies to are the images of the rule's own.     *)
LEMMA ZonesKept ==
    ASSUME NEW v \in Vendors, NEW rule \in Rules, ~Silent(v, rule), ~Flagged(v, rule),
           IsInjective(ZoneMap), NEW z \in Zones
    PROVE  /\ ZoneMap[z] \in FromZones(v, rule) <=> (rule.from = <<>> \/ z \in Range(rule.from))
           /\ ZoneMap[z] \in ToZones(v, rule) <=> (rule.to = {} \/ z \in rule.to)
<1>0. /\ ZoneMap \in [Zones -> Zones] /\ Global \notin Zones
      /\ rule.from \in Seq(Zones) /\ rule.to \in SUBSET Zones
  BY TranslationAssumption DEF Rules
<1>1. \A y \in Zones : ZoneMap[y] = ZoneMap[z] => y = z
  BY <1>0 DEF IsInjective
<1>2. \A S \in SUBSET Zones : ZoneMap[z] \in AnyIfEmpty(MapZones(S)) <=> (S = {} \/ z \in S)
  <2> TAKE S \in SUBSET Zones
  <2>1. CASE S = {}
    <3>1. MapZones(S) = {}
      BY <2>1 DEF MapZones
    <3>2. ZoneMap[z] \in Zones
      BY <1>0
    <3> QED BY <2>1, <3>1, <3>2 DEF AnyIfEmpty
  <2>2. CASE S # {}
    <3>1. MapZones(S) # {} /\ (ZoneMap[z] \in MapZones(S) <=> z \in S)
      BY <1>1, <2>2 DEF MapZones
    <3> QED BY <2>2, <3>1 DEF AnyIfEmpty
  <2> QED BY <2>1, <2>2
<1>3. Range(rule.from) \in SUBSET Zones /\ (Range(rule.from) = {} <=> rule.from = <<>>)
  <2>1. \A k \in DOMAIN rule.from : rule.from[k] \in Zones
    BY <1>0
  <2>2. DOMAIN rule.from = {} <=> rule.from = <<>>
    <3>1. Len(rule.from) \in Nat /\ DOMAIN rule.from = 1..Len(rule.from)
      BY <1>0
    <3>2. Len(rule.from) = 0 <=> rule.from = <<>>
      BY <1>0, EmptySeq
    <3>3. ASSUME NEW n \in Nat PROVE 1..n = {} <=> n = 0
      <4>1. n # 0 => 1 \in 1..n
        OBVIOUS
      <4>2. n = 0 => 1..n = {}
        OBVIOUS
      <4> QED BY <4>1, <4>2
    <3> QED BY <3>1, <3>2, <3>3
  <2> DEFINE f == rule.from
  <2>3. Range(f) = {f[k] : k \in DOMAIN f}
    BY DEF Range
  <2>4. Range(f) \subseteq Zones
    BY <2>1, <2>3
  <2>5. Range(f) = {} <=> DOMAIN f = {}
    BY <2>3
  <2> QED BY <2>2, <2>4, <2>5
<1>4. CASE v = "checkpoint"
  <2>1. rule.from = <<>> /\ rule.to = {}
    BY <1>4 DEF Flagged
  <2> QED BY <1>0, <1>4, <2>1 DEF FromZones, ToZones
<1>5. CASE v = "asa"
  <2>1. rule.to = {} /\ Len(rule.from) <= 1
    BY <1>0, <1>5 DEF Silent
  <2>2. CASE rule.from = <<>>
    BY <1>0, <1>5, <2>1, <2>2 DEF FromZones, ToZones, Acl
  <2>3. CASE rule.from # <<>>
    <3>1. DOMAIN rule.from = {1} /\ rule.from[1] \in Zones
      BY <1>0, <2>1, <2>3
    <3>2. Range(rule.from) = {rule.from[1]}
      BY <3>1 DEF Range
    <3>3. FromZones(v, rule) = {ZoneMap[rule.from[1]]}
      BY <1>0, <1>5, <2>3, <3>1 DEF FromZones, Acl
    <3> QED BY <1>0, <1>1, <1>5, <2>1, <2>3, <3>1, <3>2, <3>3 DEF ToZones
  <2> QED BY <2>2, <2>3
<1>6. CASE v \notin {"checkpoint", "asa"}
  BY <1>0, <1>2, <1>3, <1>6 DEF FromZones, ToZones
<1> QED BY <1>4, <1>5, <1>6

LEMMA RuleKept ==
    ASSUME NEW v \in Vendors, NEW rule \in Rules, WellFormed(rule), ~Silent(v, rule),
           IsInjective(ZoneMap), Status(v, rule) = "converted",
           \A s \in rule.services : ItsOwnItem(v, s) = "converted",
           Side(Written(v, rule), "src") = Means(rule.src),
           Side(Written(v, rule), "dst") = Means(rule.dst)
    PROVE  CoversThere(Written(v, rule)) = Covers(rule)
<1>1. ServiceList(v, rule.services).status = "converted" /\ ~Flagged(v, rule)
  BY DEF Status
<1>4. ServiceList(v, rule.services).matches =
          IF rule.services = {} THEN Flows ELSE FlowsOf(rule.services)
  BY <1>1, ServicesKept
<1>5. ASSUME NEW p \in Packets
      PROVE  p \in CoversThere(Written(v, rule)) <=> p \in Covers(rule)
  <2>1. p.from \in Zones /\ p.to \in Zones /\ p.flow \in Flows
    BY DEF Packets
  <2>2. /\ ZoneMap[p.from] \in FromZones(v, rule) <=> (rule.from = <<>> \/ p.from \in Range(rule.from))
        /\ ZoneMap[p.to] \in ToZones(v, rule) <=> (rule.to = {} \/ p.to \in rule.to)
    BY <1>1, <2>1, ZonesKept
  <2> DEFINE o == Written(v, rule)
  <2>3. /\ o.enabled = rule.enabled /\ o.from = FromZones(v, rule) /\ o.to = ToZones(v, rule)
        /\ o.flows = ServiceList(v, rule.services).matches
    BY DEF Written
  <2>4. Side(o, "src") = Means(rule.src) /\ Side(o, "dst") = Means(rule.dst)
    OBVIOUS
  <2> HIDE DEF o
  <2>5. p \in CoversThere(o) <=> p \in Covers(rule)
    BY <1>4, <2>1, <2>2, <2>3, <2>4 DEF CoversThere, Covers
  <2> QED BY <2>5 DEF o
<1> QED BY <1>5 DEF CoversThere, Covers

-----------------------------------------------------------------------------
(* What a generator writes of one list of references, and of services, is   *)
(* within the hosts and the flows.                                          *)
LEMMA AddressesTyped ==
    ASSUME NEW v \in Vendors, NEW refs \in SUBSET Refs
    PROVE  Addresses(v, refs).matches \subseteq Hosts
<1>0. ASSUME NEW ref \in refs PROVE There(v, ref) \subseteq Hosts
  <2>1. \A p \in ref.six : p \in Forms6
    BY TranslationAssumption DEF Refs
  <2>2. \A p \in ref.six : Written6(v, ref.kind, p) \subseteq Hosts
    BY <2>1 DEF Written6, Object6, Literal6, AsPrefix, Forms6
  <2> QED BY <2>2 DEF There, Refs
<1>1. \A S \in SUBSET refs : HostsThere(v, S) \subseteq Hosts
  BY <1>0 DEF HostsThere
<1>2. \A kinds : Kept(refs, kinds) \in SUBSET refs
  BY DEF Kept
<1>3. /\ NamedList(v, refs).matches \subseteq Hosts
      /\ v = "asa" => AsaGroup(refs).matches \subseteq Hosts
  BY <1>1, <1>2 DEF NamedList, AsaGroup, Result
<1>4. v = "asa" => \A ref \in refs : AsaClause(ref).matches \subseteq Hosts
  BY <1>0 DEF AsaClause, Result
<1>5. CASE \E ref \in refs : refs = {ref}
  <2>1. (CHOOSE ref \in refs : TRUE) \in refs
    BY <1>5
  <2> QED BY <1>3, <1>4, <1>5, <2>1 DEF Addresses, Result, Several
<1>6. CASE ~\E ref \in refs : refs = {ref}
  BY <1>3, <1>6 DEF Addresses, Result, Several
<1> QED BY <1>5, <1>6

LEMMA ServicesTyped ==
    ASSUME NEW v \in Vendors, NEW services \in SUBSET Services
    PROVE  ServiceList(v, services).matches \subseteq Flows
<1>1. \A s \in services : s.flows \subseteq Flows /\ s.anysrc \subseteq Flows
  BY DEF Services
<1>2. ASSUME NEW w, NEW s \in services PROVE Meaning(w, s) \subseteq Flows
  <2>1. Sctp \subseteq Flows
    BY TranslationAssumption
  <2>2. LiteralMeaning(w, s) \subseteq Flows
    BY <1>1, <2>1 DEF LiteralMeaning, FirstHalf
  <2>3. ObjectMeaning(w, s) \subseteq Flows
    BY <1>1, <2>1 DEF ObjectMeaning, FirstHalf, Ports
  <2> QED BY <1>1, <2>2, <2>3 DEF Meaning, GroupMeaning
<1>3. ASSUME NEW w, NEW S \in SUBSET services PROVE MeaningOf(w, S) \subseteq Flows
  BY <1>2 DEF MeaningOf
<1>4. AsaServices(services).matches \subseteq Flows
  BY <1>3 DEF AsaServices, Result
<1>5. PanServices(services).matches \subseteq Flows
  <2> DEFINE icmp == {s \in Kept(services, {"object", "literal"}) : s.proto = "icmp"}
             named == {s \in services \ icmp : s.kind \in {"object", "group"} \/ (s.kind = "literal" /\ s.port)}
             listed == IF named = {} THEN Flows ELSE MeaningOf("panos", named)
  <2>1. listed \subseteq Flows
    BY <1>3
  <2>2. PanServices(services).matches = IF icmp = {} THEN listed ELSE listed \intersect Icmp
    BY DEF PanServices, Result
  <2> QED BY <2>1, <2>2
<1>6. NamedServices(v, services).matches \subseteq Flows
  <2>1. Kept(services, {"object", "group", "literal"}) \in SUBSET services
    BY DEF Kept
  <2> QED BY <1>3, <2>1 DEF NamedServices, Result
<1> QED BY <1>4, <1>5, <1>6 DEF ServiceList, Result

LEMMA WrittenTyped ==
    ASSUME NEW v \in Vendors, NEW rule \in Rules
    PROVE  LET o == Written(v, rule) IN
           /\ o.acl \in Zones \union {Global}
           /\ o.from \subseteq Zones /\ o.to \subseteq Zones
           /\ o.src \subseteq Hosts /\ o.dst \subseteq Hosts
           /\ o.flows \subseteq Flows
<1>0. /\ ZoneMap \in [Zones -> Zones] /\ rule.from \in Seq(Zones) /\ rule.to \in SUBSET Zones
      /\ rule.src \in SUBSET Refs /\ rule.dst \in SUBSET Refs /\ rule.services \in SUBSET Services
  BY TranslationAssumption DEF Rules
<1>1. Acl(v, rule) \in Zones \union {Global}
  BY <1>0 DEF Acl
<1>2. \A S \in SUBSET Zones : AnyIfEmpty(MapZones(S)) \subseteq Zones
  BY <1>0 DEF AnyIfEmpty, MapZones
<1>3. Range(rule.from) \in SUBSET Zones
  BY <1>0 DEF Range
<1>4. FromZones(v, rule) \subseteq Zones
  BY <1>1, <1>2, <1>3 DEF FromZones
<1>5. ToZones(v, rule) \subseteq Zones
  BY <1>0, <1>2 DEF ToZones
<1> QED BY <1>0, <1>1, <1>4, <1>5, AddressesTyped, ServicesTyped DEF Written

-----------------------------------------------------------------------------
(* The inductive invariant: item and written rule are those of the rule at  *)
(* the same place of the context, which is as its parser made it; access    *)
(* lists are bound all together, when every rule is written; and the map of *)
(* helper groups holds what the last rule of each name put there.           *)
ParsedOK ==
    /\ target \in Targets \intersect Vendors /\ policy \in Seq(Rules)
    /\ \A k \in DOMAIN policy : WellFormed(policy[k])

InStep ==
    /\ items \in Seq(Statuses) /\ Len(items) <= Len(policy)
    /\ DOMAIN out = DOMAIN items /\ out \in Seq({Written(v, r) : v \in Vendors, r \in Rules})
    /\ \A k \in DOMAIN items :
          items[k] = Status(target, policy[k]) /\ out[k] = Written(target, policy[k])

AllBound ==
    bound # {} => Len(items) = Len(policy) /\ bound = {out[k].acl : k \in DOMAIN out}

(* A helper group is that of the last rule of the name that has one there.  *)
GroupsLast ==
    /\ helperObjs \in [Names \X Sides -> SUBSET Hosts]
    /\ \A k \in DOMAIN items, side \in Sides :
          /\ Shares(target, policy[k], side)
          /\ ~\E j \in DOMAIN items : /\ j > k /\ policy[j].name = policy[k].name
                                      /\ Shares(target, policy[j], side)
          => helperObjs[<<policy[k].name, side>>] = Addresses(target, policy[k][side]).matches

TranslationInv == ParsedOK /\ InStep /\ AllBound /\ GroupsLast

LEMMA InvInit == Init => TranslationInv
BY TranslationAssumption DEF Init, TranslationInv, ParsedOK, InStep, AllBound, GroupsLast

LEMMA InvNext == TranslationInv /\ [Next]_vars => TranslationInv'
<1> SUFFICES ASSUME TranslationInv, [Next]_vars PROVE TranslationInv'
  OBVIOUS
<1> USE DEF TranslationInv, ParsedOK, InStep, AllBound
<1>0. ASSUME UNCHANGED <<target, policy, items, helperObjs>> PROVE GroupsLast'
  BY <1>0 DEF GroupsLast
<1>1. CASE Translate
  <2> DEFINE n == Len(items) + 1
             rule == policy[n]
  <2>1. /\ items' = Append(items, Status(target, rule))
        /\ out' = Append(out, Written(target, rule))
        /\ UNCHANGED <<target, policy>>
        /\ n <= Len(policy)
    BY <1>1 DEF Translate
  <2>2. n \in DOMAIN policy /\ rule \in Rules
    BY <2>1
  <2>3. Status(target, rule) \in Statuses
    BY DEF Status, Statuses
  <2>4. Written(target, rule) \in {Written(v, r) : v \in Vendors, r \in Rules}
    BY <2>2
  <2> HIDE DEF rule
  <2>5. Len(out) = Len(items)
    OBVIOUS
  <2>6. ASSUME NEW k \in DOMAIN items'
        PROVE  items'[k] = Status(target, policy[k]) /\ out'[k] = Written(target, policy[k])
    BY <2>1, <2>3, <2>4, <2>5 DEF rule
  <2>7. bound' = {}
    <3>1. bound' = bound
      BY <1>1 DEF Translate
    <3>2. Len(items) # Len(policy)
      BY <2>1
    <3> QED BY <3>1, <3>2
  <2>8. GroupsLast'
    <3> DEFINE o == Written(target, rule)
    <3>1. /\ helperObjs' = WithHelpers(o) /\ target' = target /\ policy' = policy
          /\ o.name = rule.name /\ rule.name \in Names
          /\ \A side \in Sides : side \in o.shares <=> Shares(target, rule, side)
      BY <1>1, <2>2 DEF Translate, Written, rule, Rules
    <3>2. \A side \in Sides : o[side] = Addresses(target, rule[side]).matches
      BY DEF Written, Sides
    <3>3. \A side \in Sides : o[side] \in SUBSET Hosts
      <4>1. target \in Vendors /\ rule["src"] \in SUBSET Refs /\ rule["dst"] \in SUBSET Refs
        BY <2>2 DEF Rules
      <4>2. \A side \in Sides : rule[side] \in SUBSET Refs
        BY <4>1 DEF Sides
      <4>3. \A refs \in SUBSET Refs : Addresses(target, refs).matches \subseteq Hosts
        BY <4>1, AddressesTyped
      <4> QED BY <3>2, <4>2, <4>3
    <3> HIDE DEF o
    <3>4. helperObjs' \in [Names \X Sides -> SUBSET Hosts]
      BY <3>1, <3>3 DEF GroupsLast, WithHelpers
    <3>5. DOMAIN items' = DOMAIN items \union {n} /\ n \notin DOMAIN items
          /\ \A k \in DOMAIN items : n > k
      BY <2>1, <2>3
    <3>6. ASSUME NEW k \in DOMAIN items', NEW side \in Sides, Shares(target, policy[k], side),
                 ~\E j \in DOMAIN items' : /\ j > k /\ policy[j].name = policy[k].name
                                          /\ Shares(target, policy[j], side)
          PROVE  helperObjs'[<<policy[k].name, side>>] = Addresses(target, policy[k][side]).matches
      <4>0. policy[k].name \in Names
        <5>1. k \in DOMAIN policy
          BY <2>1, <3>5
        <5>2. policy[k] \in Rules
          BY <5>1
        <5> QED BY <5>2 DEF Rules
      <4>1. helperObjs'[<<policy[k].name, side>>] =
                IF policy[k].name = o.name /\ side \in o.shares THEN o[side]
                ELSE helperObjs[<<policy[k].name, side>>]
        BY <3>1, <4>0 DEF WithHelpers
      <4>2. CASE k = n
        BY <3>1, <3>2, <3>6, <4>1, <4>2 DEF rule
      <4>3. CASE k \in DOMAIN items
        <5>1. ~(policy[k].name = o.name /\ side \in o.shares)
          BY <3>1, <3>5, <3>6, <4>3 DEF rule
        <5>2. helperObjs[<<policy[k].name, side>>] = Addresses(target, policy[k][side]).matches
          BY <3>5, <3>6, <4>3 DEF GroupsLast
        <5> QED BY <4>1, <5>1, <5>2
      <4> QED BY <3>5, <4>2, <4>3
    <3> QED BY <3>1, <3>4, <3>6 DEF GroupsLast
  <2> QED BY <2>1, <2>3, <2>4, <2>5, <2>6, <2>7, <2>8
<1>2. CASE Bind
  BY <1>0, <1>2 DEF Bind
<1>3. CASE UNCHANGED vars
  BY <1>0, <1>3 DEF vars
<1> QED BY <1>1, <1>2, <1>3 DEF Next

(* What every reachable state satisfies.                                    *)
THEOREM TranslationInStep == Spec => []TranslationInv
<1> QED BY InvInit, InvNext, PTL DEF Spec

(* A converted rule whose references the vendor can say, and whose helper   *)
(* groups no later rule has replaced, has the addresses it had.             *)
LEMMA SidesKept ==
    ASSUME TranslationInv, NEW k \in DOMAIN items, items[k] = "converted", KeepsAddresses(k),
           \A ref \in References(policy[k]) : RefItem(target, ref) = "converted",
           NEW side \in Sides
    PROVE  Side(out[k], side) = Means(policy[k][side])
<1>1. policy[k] \in Rules /\ WellFormed(policy[k]) /\ target \in Vendors
  BY DEF TranslationInv, ParsedOK, InStep
<1>2. Status(target, policy[k]) = "converted" /\ out[k] = Written(target, policy[k])
  BY DEF TranslationInv, InStep
<1>3. Addresses(target, policy[k][side]).status = "converted"
  BY <1>2 DEF Status, Sides
<1>4. /\ policy[k][side] \in SUBSET Refs
      /\ policy[k][side] \subseteq References(policy[k])
      /\ \A ref \in policy[k][side] : ref.kind = "any" => policy[k][side] = {ref} /\ ref.hosts = Hosts
  BY <1>1 DEF Rules, References, WellFormed, Sides
<1>5. \A ref \in policy[k][side] : ~Mangled6(target, ref) /\ RefItem(target, ref) = "converted"
  BY <1>4 DEF KeepsAddresses
<1>6. Addresses(target, policy[k][side]).matches = Means(policy[k][side])
  BY <1>1, <1>3, <1>4, <1>5, AddressesKept
<1>7. /\ out[k][side] = Addresses(target, policy[k][side]).matches
      /\ out[k].name = policy[k].name
      /\ side \in out[k].shares <=> Shares(target, policy[k], side)
  BY <1>2 DEF Written, Sides
<1>8. CASE side \in out[k].shares
  <2>1. ~\E j \in DOMAIN items : /\ j > k /\ policy[j].name = policy[k].name
                                /\ Shares(target, policy[j], side)
    BY <1>7, <1>8 DEF KeepsAddresses, Replaced
  <2>2. helperObjs[<<policy[k].name, side>>] = Addresses(target, policy[k][side]).matches
    BY <1>7, <1>8, <2>1 DEF TranslationInv, GroupsLast
  <2> QED BY <1>6, <1>7, <1>8, <2>2 DEF Side
<1>9. CASE side \notin out[k].shares
  BY <1>6, <1>7, <1>9 DEF Side
<1> QED BY <1>8, <1>9

(* For any references and every vendor, but for IPv6 that a vendor mangles  *)
(* and helper groups that a namesake replaces, a rule said to be converted  *)
(* has the addresses it had: addrClause, panAddrList, fortiAddrList,        *)
(* addRefs and refListJSON report whatever else they widen or leave out.    *)
THEOREM AddressesKeptAlways == Spec => []AddressesExact
<1>1. TranslationInv => AddressesExact
  <2> SUFFICES ASSUME TranslationInv, NEW k \in DOMAIN items, items[k] = "converted", KeepsAddresses(k),
                      \A ref \in References(policy[k]) : RefItem(target, ref) = "converted"
               PROVE  /\ Side(out[k], "src") = Means(policy[k].src)
                      /\ Side(out[k], "dst") = Means(policy[k].dst)
    BY DEF AddressesExact
  <2>1. \A side \in Sides : Side(out[k], side) = Means(policy[k][side])
    BY SidesKept
  <2> QED BY <2>1 DEF Sides
<1> QED BY <1>1, TranslationInStep, PTL

LEMMA FaithfulKept ==
    ASSUME IsInjective(ZoneMap), TranslationInv, NEW k \in DOMAIN items, Faithful(k)
    PROVE  CoversThere(out[k]) = Covers(policy[k])
<1>1. policy[k] \in Rules /\ WellFormed(policy[k]) /\ target \in Vendors
  BY DEF TranslationInv, ParsedOK, InStep
<1>2. Status(target, policy[k]) = "converted" /\ out[k] = Written(target, policy[k])
  BY DEF TranslationInv, InStep, Faithful, SaidConverted
<1>3. \A side \in Sides : Side(out[k], side) = Means(policy[k][side])
  BY SidesKept DEF Faithful, SaidConverted
<1>4. /\ Side(Written(target, policy[k]), "src") = Means(policy[k].src)
      /\ Side(Written(target, policy[k]), "dst") = Means(policy[k].dst)
  BY <1>2, <1>3 DEF Sides
<1>5. ~Silent(target, policy[k]) /\ \A s \in policy[k].services : ItsOwnItem(target, s) = "converted"
  BY DEF Faithful, SaidConverted
<1> QED BY <1>1, <1>2, <1>4, <1>5, RuleKept

(* For any rule lists, when the mapping keeps zones apart: outside the six  *)
(* silent cases, mangled IPv6 and replaced helper groups, a rule said to be *)
(* converted matches the packets it matched.                                *)
THEOREM ConvertedKept ==
    ASSUME IsInjective(ZoneMap)
    PROVE  Spec => []ConvertedExact
<1>1. TranslationInv => ConvertedExact
  BY FaithfulKept DEF ConvertedExact
<1> QED BY <1>1, TranslationInStep, PTL

-----------------------------------------------------------------------------
(* Every generator writes rules over the zones, hosts and flows there are.  *)
THEOREM TranslationTypeCorrect == Spec => []TypeOK
<1>1. TranslationInv => TypeOK
  <2> SUFFICES ASSUME TranslationInv PROVE TypeOK
    OBVIOUS
  <2>1. /\ target \in Targets /\ target \in Vendors /\ items \in Seq(Statuses) /\ Len(items) <= Len(policy)
        /\ DOMAIN out = DOMAIN items /\ Len(out) = Len(items)
    BY DEF TranslationInv, ParsedOK, InStep
  <2>2. ASSUME NEW k \in DOMAIN out PROVE policy[k] \in Rules /\ out[k] = Written(target, policy[k])
    BY DEF TranslationInv, ParsedOK, InStep
  <2>3. ASSUME NEW k \in DOMAIN out
        PROVE  /\ out[k].acl \in Zones \union {Global}
               /\ out[k].from \subseteq Zones /\ out[k].to \subseteq Zones
               /\ out[k].src \subseteq Hosts /\ out[k].dst \subseteq Hosts
               /\ out[k].flows \subseteq Flows
    BY <2>1, <2>2, WrittenTyped
  <2>4. bound \subseteq Zones \union {Global} /\ helperObjs \in [Names \X Sides -> SUBSET Hosts]
    BY <2>3 DEF TranslationInv, AllBound, GroupsLast
  <2> QED BY <2>1, <2>3, <2>4 DEF TypeOK
<1> QED BY <1>1, TranslationInStep, PTL

-----------------------------------------------------------------------------
(* A non-empty set of naturals has a smallest element. *)
LEMMA Least ==
    ASSUME NEW T, T \subseteq Nat, T # {}
    PROVE  \E m \in T : \A y \in T : m <= y
<1> DEFINE R == {ss \in Nat \X Nat : ss[1] < ss[2]}
<1>1. IsWellFoundedOn(R, Nat)
    BY NatLessThanWellFounded, Zenon DEF OpToRel
<1>2. PICK m \in T : \A y \in T : ~ (<<y, m>> \in R)
    BY <1>1, WFMin
<1>3. ASSUME NEW y \in T PROVE m <= y
  <2>1. y \in Nat /\ m \in Nat
      OBVIOUS
  <2>2. ~ (<<y, m>>[1] < <<y, m>>[2])
      BY <1>2, <2>1
  <2>3. QED BY <2>1, <2>2
<1>4. QED BY <1>3

(* The first of a set of places is its least. *)
LEMMA FirstIsLeast ==
    ASSUME NEW S \in SUBSET Nat, S # {}
    PROVE  First(S) \in S /\ \A j \in S : First(S) <= j
BY Least DEF First

LEMMA FirstUnique ==
    ASSUME NEW S \in SUBSET Nat, NEW m \in S, \A j \in S : m <= j
    PROVE  First(S) = m
<1>1. First(S) \in S /\ First(S) <= m /\ m <= First(S)
  BY FirstIsLeast
<1>2. First(S) \in Nat /\ m \in Nat
  BY <1>1
<1> QED BY <1>1, <1>2

(* The rules that count for a packet, written and read by an ASA, have the  *)
(* order they had: those of the interface's list before those of the global *)
(* one.                                                                     *)
LEMMA ListsKeepOrder ==
    ASSUME NEW hits \in SUBSET Nat, hits # {}, NEW own \in SUBSET hits,
           \A i \in own, k \in hits \ own : i < k
    PROVE  First(hits) = IF own # {} THEN First(own) ELSE First(hits \ own)
<1>1. CASE own = {}
  <2>1. hits \ own = hits
    BY <1>1
  <2> QED BY <1>1, <2>1
<1>2. CASE own # {}
  <2>1. First(own) \in own /\ \A j \in own : First(own) <= j
    BY <1>2, FirstIsLeast
  <2>2. First(own) \in hits
    BY <2>1
  <2>3. ASSUME NEW j \in hits PROVE First(own) <= j
    <3>1. CASE j \in own
      BY <2>1, <3>1
    <3>2. CASE j \notin own
      <4>1. First(own) < j /\ First(own) \in Nat /\ j \in Nat
        BY <2>1, <3>2
      <4> QED BY <4>1
    <3> QED BY <3>1, <3>2
  <2> QED BY <1>2, <2>2, <2>3, FirstUnique
<1> QED BY <1>1, <1>2

(* For any rule lists, when the mapping keeps zones apart: a list whose     *)
(* rules are all said to be converted, outside the silent cases and, for an *)
(* ASA, with the rules without a source zone behind the others, gives every *)
(* packet the verdict it had (genASA's access lists and access-groups, and  *)
(* the rule lists of the other four).                                       *)
THEOREM PolicyKeptAlways ==
    ASSUME IsInjective(ZoneMap)
    PROVE  Spec => []PolicyPreserved
<1>1. TranslationInv => PolicyPreserved
  <2> SUFFICES ASSUME TranslationInv, Len(items) = Len(policy), target = "asa" => bound # {},
                      \A k \in DOMAIN policy : Faithful(k),
                      OrderKept, NEW p \in Packets
               PROVE  DecidedThere(p) = Decided(p)
    BY DEF PolicyPreserved
  <2> DEFINE hits == {k \in DOMAIN policy : p \in Covers(policy[k])}
  <2>1. /\ DOMAIN policy = DOMAIN items /\ DOMAIN out = DOMAIN policy /\ DOMAIN policy \in SUBSET Nat
        /\ target \in Vendors
        /\ \A k \in DOMAIN policy : policy[k] \in Rules /\ WellFormed(policy[k])
        /\ \A k \in DOMAIN policy : out[k] = Written(target, policy[k])
    BY DEF TranslationInv, ParsedOK, InStep
  <2>2. ASSUME NEW k \in DOMAIN policy
        PROVE  CoversThere(out[k]) = Covers(policy[k]) /\ out[k].action = policy[k].action
    <3>1. CoversThere(out[k]) = Covers(policy[k])
      BY <2>1, FaithfulKept
    <3> QED BY <2>1, <3>1 DEF Written
  <2>3. hits = {k \in DOMAIN out : p \in CoversThere(out[k])} /\ hits \in SUBSET Nat
    BY <2>1, <2>2
  <2>4. hits # {} => First(hits) \in DOMAIN policy
    BY <2>3, FirstIsLeast
  <2>5. Decided(p) = IF hits = {} THEN "none" ELSE out[First(hits)].action
    BY <2>2, <2>4 DEF Decided
  <2>6. CASE target # "asa"
    BY <2>3, <2>5, <2>6 DEF DecidedThere
  <2>7. CASE target = "asa"
    <3> DEFINE own == {k \in hits : out[k].acl # Global /\ out[k].acl \in bound}
               global == {k \in hits : out[k].acl = Global /\ Global \in bound}
    <3>1. \A k \in DOMAIN policy : out[k].acl \in bound
      BY <2>1, <2>7 DEF TranslationInv, AllBound
    <3>2. ASSUME NEW k \in DOMAIN policy PROVE out[k].acl = Global <=> policy[k].from = <<>>
      <4>1. out[k].acl = Acl("asa", policy[k]) /\ policy[k].from \in Seq(Zones)
        BY <2>1, <2>7 DEF Written, Rules
      <4>2. policy[k].from # <<>> => ZoneMap[policy[k].from[1]] \in Zones
        BY <4>1, TranslationAssumption
      <4> QED BY <4>1, <4>2, TranslationAssumption DEF Acl
    <3>3. own \in SUBSET hits /\ global = hits \ own
      BY <2>1, <3>1
    <3>4. \A i \in own, k \in hits \ own : i < k
      <4> SUFFICES ASSUME NEW i \in own, NEW k \in hits \ own PROVE i < k
        OBVIOUS
      <4>1. policy[k].from = <<>> /\ policy[i].from # <<>> /\ i \in Nat /\ k \in Nat /\ i # k
        BY <2>1, <2>3, <3>1, <3>2
      <4>2. ~(i > k)
        BY <2>7, <4>1 DEF OrderKept
      <4> QED BY <4>1, <4>2
    <3> HIDE DEF own, global, hits
    <3>5. CASE hits = {}
      <4>1. own = {} /\ global = {}
        BY <3>3, <3>5
      <4> QED BY <2>3, <2>5, <2>7, <3>5, <4>1 DEF DecidedThere, own, global
    <3>6. CASE hits # {}
      <4>1. First(hits) = IF own # {} THEN First(own) ELSE First(global)
        BY <2>3, <3>3, <3>4, <3>6, ListsKeepOrder
      <4>2. own = {} => global # {}
        BY <3>3, <3>6
      <4> QED BY <2>3, <2>5, <2>7, <3>6, <4>1, <4>2 DEF DecidedThere, own, global
    <3> QED BY <3>5, <3>6
  <2> QED BY <2>6, <2>7
<1> QED BY <1>1, TranslationInStep, PTL
=============================================================================
