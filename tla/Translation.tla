----------------------------- MODULE Translation ----------------------------
(***************************************************************************)
(* The access rules of one context on their way to a target vendor          *)
(* (src/gen/asa.go, ftd.go, panos.go, fortigate.go, checkpoint.go): rule by *)
(* rule a generator writes what the target can say of it, and an item that  *)
(* tells the user whether the rule was converted or only partly.  Text is   *)
(* abstracted to what it matches: a reference is the set of hosts it stands *)
(* for, a service the set of flows.                                         *)
(***************************************************************************)
EXTENDS Naturals, Sequences, Functions

CONSTANTS
    Hosts, Zones,
    Prefixes6,         \* IPv6 addresses and prefixes
    Flows,             \* a protocol, with its ports where it has them
    Tcp, Icmp, Sctp,   \* the flows of tcp, of icmp and of sctp
    Names,             \* names of rules
    Tidy,              \* those the ASA namer leaves as they are
    Sources, Targets,  \* vendors to convert from and to
    Policies(_),       \* the rule lists that a vendor's parser makes
    ZoneMap,           \* Mapping.ZoneMap, the approved mapping of zones
    Global             \* ASA: the access list without an interface

Vendors == {"asa", "ftd", "panos", "fortigate", "checkpoint"}
Statuses == {"converted", "partial"}

(* IPv6 by the length of its prefix, "range" of addresses, or "name": those *)
(* an FQDN resolves to.  hosts: what the source means by it; slash32: the   *)
(* /32 prefix that addr, the address it is written with, lies in.           *)
Lengths6 == {"32", "128", "other", "range", "name"}
Forms6 == [len : Lengths6, addr : Hosts, hosts : SUBSET Hosts, slash32 : SUBSET Hosts]

(* A reference, by what classifyRef finds behind it ("fqdn": an object too):*)
(* its hosts, but for those it names by IPv6; a group holds literals.       *)
Refs == [kind : {"any", "object", "fqdn", "group", "cidr", "range", "interface", "unknown"},
         hosts : SUBSET Hosts, six : SUBSET Prefixes6]

(* A service, by what classifySvc finds; port: it names one; anysrc: what   *)
(* it is without the source port of an object.                              *)
Services == [kind : {"any", "object", "group", "literal", "unknown"},
             proto : {"tcp", "udp", "tcp-udp", "icmp", "sctp", "other"}, port : BOOLEAN,
             flows : SUBSET Flows, anysrc : SUBSET Flows]

(* The order of a list matters only for the zones, to the ASA generator.    *)
(* name: r.Name, or r<Index> where it is empty.                             *)
Rules == [name : Names,
          from : Seq(Zones), to : SUBSET Zones, src : SUBSET Refs, dst : SUBSET Refs,
          services : SUBSET Services, action : {"allow", "deny"}, enabled : BOOLEAN,
          apps : BOOLEAN, urls : BOOLEAN]

(* An empty list means any; one that spells "any" out has no other member.  *)
WellFormed(rule) ==
    /\ \A refs \in {rule.src, rule.dst} : \A ref \in refs :
          ref.kind = "any" => refs = {ref} /\ ref.hosts = Hosts
    /\ \A s \in rule.services :
          /\ s.kind = "any" => rule.services = {s} /\ s.flows = Flows
          /\ s.kind # "object" => s.anysrc = s.flows

ASSUME TranslationAssumption ==
    /\ Tcp \subseteq Flows /\ Icmp \subseteq Flows /\ Sctp \subseteq Flows
    /\ Prefixes6 \subseteq Forms6 /\ Tidy \subseteq Names
    /\ Sources \subseteq Vendors /\ Targets \subseteq Vendors
    /\ ZoneMap \in [Zones -> Zones] /\ Global \notin Zones
    /\ \A v \in Sources : \A p \in Policies(v) :
          p \in Seq(Rules) /\ \A k \in DOMAIN p : WellFormed(p[k])

VARIABLES
    target, policy,   \* the target vendor, and the rules of the context
    items,            \* Result.Items: the status of each rule written so far
    out,              \* the rules written so far
    helperObjs,       \* ASA: the helper groups, by rule name and side
    bound             \* ASA: the access lists with an access-group

vars == <<target, policy, items, out, helperObjs, bound>>

-----------------------------------------------------------------------------
Sides == {"src", "dst"}
Kept(S, kinds) == {x \in S : x.kind \in kinds}
FlowsOf(services) == UNION {s.flows : s \in services}

(* What a reference stands for at the source.                               *)
Stands(ref) == ref.hosts \union UNION {p.hosts : p \in ref.six}
HostsOf(refs) == UNION {Stands(ref) : ref \in refs}

(* IPv6 as a prefix, and as IsHostCIDR, SplitCIDR and PrefixToMask make it: *)
(* a /32 becomes one host, a prefix has an IPv4 mask or "<nil>", which is   *)
(* no address, and a PAN-OS host gets /32.                                  *)
AsPrefix(p) == IF p.len = "32" THEN p.slash32 ELSE p.hosts

Literal6(v, p) ==
    IF v = "asa" /\ p.len = "other" THEN {}
    ELSE IF v \in {"asa", "checkpoint"} /\ p.len = "32" THEN {p.addr}
    ELSE AsPrefix(p)

Object6(v, p) ==
    IF v = "asa" /\ p.len \in {"32", "other"} THEN {}
    ELSE IF v = "panos" /\ p.len = "128" THEN p.slash32
    ELSE AsPrefix(p)

(* FortiGate writes all of it as IPv4; ASA and FTD resolve a name to IPv4.  *)
Written6(v, kind, p) ==
    IF v = "fortigate" \/ (p.len = "name" /\ v # "panos") THEN {}
    ELSE IF kind = "object" THEN Object6(v, p) ELSE Literal6(v, p)

(* What it stands for at the target.  Check Point has the dns-domain of an  *)
(* FQDN under another name.                                                 *)
There(v, ref) ==
    IF ref.kind = "fqdn" /\ v = "checkpoint" THEN {}
    ELSE ref.hosts \union UNION {Written6(v, ref.kind, p) : p \in ref.six}
HostsThere(v, refs) == UNION {There(v, ref) : ref \in refs}

Result(matches, exact) ==
    [matches |-> matches, status |-> IF exact THEN "converted" ELSE "partial"]

(* Mutant: the widening is not reported.                                    *)
AsaClauseUnmarked(ref) ==
    Result(IF ref.kind \in {"interface", "unknown"} THEN Hosts ELSE There("asa", ref), TRUE)

(* ASA, one reference: what is neither object nor address is widened.       *)
AsaClause(ref) ==
    IF ref.kind \in {"interface", "unknown"} THEN Result(Hosts, FALSE)
    ELSE Result(There("asa", ref), TRUE)

(* ASA, several references: a helper group without what it cannot hold.     *)
AsaGroup(refs) ==
    LET members == Kept(refs, {"object", "fqdn", "group", "cidr"})
    IN Result(HostsThere("asa", members), members = refs)

(* The other vendors: a list of what has a name; with no entry it means any.*)
NamedList(v, refs) ==
    LET named == Kept(refs, {"object", "fqdn", "group", "cidr", "range"})
    IN Result(IF named = {} THEN Hosts ELSE HostsThere(v, named),
              Kept(refs, {"interface", "unknown"}) = {})

Several(refs) == refs # {} /\ ~\E ref \in refs : refs = {ref}

Addresses(v, refs) ==
    IF refs = {} THEN Result(Hosts, TRUE)
    ELSE IF v # "asa" THEN NamedList(v, refs)
    ELSE IF Several(refs) THEN AsaGroup(refs)
    ELSE AsaClause(CHOOSE ref \in refs : TRUE)

(* ASA: the helper group is called RF-<name>-<side>; the namer gives a name *)
(* that needs no change again and again, and the map has one entry for it.  *)
Shares(v, rule, side) == v = "asa" /\ Several(rule[side]) /\ rule.name \in Tidy

-----------------------------------------------------------------------------
(* FTD and Check Point have no place for a source port, and PAN-OS writes   *)
(* none when it splits tcp-udp.                                             *)
Ports(v, s) ==
    IF v \in {"ftd", "checkpoint"} \/ (v = "panos" /\ s.proto = "tcp-udp")
    THEN s.anysrc ELSE s.flows

(* protoSplitFirst: of tcp-udp only the tcp half.                           *)
FirstHalf(s, flows) == IF s.proto = "tcp-udp" THEN flows \intersect Tcp ELSE flows

(* What the name of an object matches at the target: a vendor that splits   *)
(* tcp-udp in two has left the name to the tcp half or, Check Point, to     *)
(* neither, and PAN-OS has no object for other protocols.  Check Point      *)
(* writes sctp as a protocol without ports.                                 *)
ObjectMeaning(v, s) ==
    IF \/ v = "checkpoint" /\ s.proto = "tcp-udp"
       \/ v = "panos" /\ s.proto = "other"
    THEN {}
    ELSE IF v = "checkpoint" /\ s.proto = "sctp" THEN Sctp
    ELSE IF v \in {"panos", "ftd"} THEN FirstHalf(s, Ports(v, s)) ELSE Ports(v, s)

(* FortiGate has both halves, and writes other protocols as protocol IP.    *)
LiteralMeaning(v, s) ==
    IF v = "fortigate"
    THEN (IF s.proto \in {"sctp", "other"} THEN Flows ELSE s.flows)
    ELSE IF v = "checkpoint" /\ s.proto = "sctp" THEN Sctp
    ELSE FirstHalf(s, s.flows)

(* A group is one of literals; one of objects matches as an object does.    *)
GroupMeaning(v, s) ==
    IF v = "fortigate" \/ (v = "panos" /\ ~s.port) THEN {} ELSE LiteralMeaning(v, s)

Meaning(v, s) ==
    CASE s.kind = "object" -> ObjectMeaning(v, s)
      [] s.kind = "group" -> GroupMeaning(v, s)
      [] s.kind = "literal" -> LiteralMeaning(v, s)
      [] OTHER -> s.flows

(* Whether the item of the object or group itself tells of what is lost.    *)
ItsOwnItem(v, s) ==
    IF \/ s.kind = "object" /\ v \in {"panos", "ftd", "checkpoint"} /\ s.proto \in {"tcp-udp", "other"}
       \/ s.kind = "object" /\ v = "checkpoint" /\ s.proto = "sctp"
       \/ s.kind = "object" /\ v = "fortigate" /\ s.anysrc # s.flows
       \/ s.kind = "group" /\ (v = "fortigate" \/ (v = "panos" /\ ~s.port))
    THEN "partial" ELSE "converted"

RefItem(v, ref) == IF ref.kind = "fqdn" /\ v = "checkpoint" THEN "partial" ELSE "converted"

MeaningOf(v, services) == UNION {Meaning(v, s) : s \in services}

(* ASA: one line for each service; what has no meaning is widened to ip.    *)
AsaServices(services) ==
    LET known == {s \in services : s.kind # "unknown"}
    IN Result(IF known # services THEN Flows ELSE MeaningOf("asa", services), known = services)

(* PAN-OS: icmp is an application, which narrows the services beside it,    *)
(* and a literal without a port is left out.                                *)
PanServices(services) ==
    LET icmp == {s \in Kept(services, {"object", "literal"}) : s.proto = "icmp"}
        named == {s \in services \ icmp : s.kind \in {"object", "group"} \/ (s.kind = "literal" /\ s.port)}
        listed == IF named = {} THEN Flows ELSE MeaningOf("panos", named)
    IN Result(IF icmp = {} THEN listed ELSE listed \intersect Icmp,
              icmp = {} /\ Kept(services, {"unknown"}) = {})

(* Mutant: a service that is left out is not reported.                      *)
NamedServicesUnmarked(v, services) ==
    LET named == Kept(services, {"object", "group", "literal"})
    IN Result(IF named = {} THEN Flows ELSE MeaningOf(v, named), TRUE)

(* FTD, FortiGate and Check Point: a list of what has a name.               *)
NamedServices(v, services) ==
    LET named == Kept(services, {"object", "group", "literal"})
    IN Result(IF named = {} THEN Flows ELSE MeaningOf(v, named),
              Kept(services, {"unknown"}) = {})

ServiceList(v, services) ==
    IF services = {} THEN Result(Flows, TRUE)
    ELSE IF v = "asa" THEN AsaServices(services)
    ELSE IF v = "panos" THEN PanServices(services)
    ELSE NamedServices(v, services)

-----------------------------------------------------------------------------
MapZones(zones) == {ZoneMap[z] : z \in zones}
AnyIfEmpty(zones) == IF zones = {} THEN Zones ELSE zones

(* ASA: the access list of the first source zone, or the global one.        *)
Acl(v, rule) == IF v = "asa" /\ rule.from # <<>> THEN ZoneMap[rule.from[1]] ELSE Global

(* The ASA's other source zones, and all destination zones, are in no list. *)
(* Check Point: zones are a comment.                                        *)
FromZones(v, rule) ==
    CASE v = "checkpoint" -> Zones
      [] v = "asa" -> IF Acl(v, rule) = Global THEN Zones ELSE {Acl(v, rule)}
      [] OTHER -> AnyIfEmpty(MapZones(Range(rule.from)))

ToZones(v, rule) == IF v \in {"asa", "checkpoint"} THEN Zones ELSE AnyIfEmpty(MapZones(rule.to))

Written(v, rule) ==
    [acl |-> Acl(v, rule), from |-> FromZones(v, rule), to |-> ToZones(v, rule),
     src |-> Addresses(v, rule.src).matches, dst |-> Addresses(v, rule.dst).matches,
     name |-> rule.name, shares |-> {side \in Sides : Shares(v, rule, side)},
     flows |-> ServiceList(v, rule.services).matches,
     action |-> rule.action, enabled |-> rule.enabled]

(* What PAN-OS alone can say (apps), what nobody can (urls), and zones at   *)
(* Check Point, make a rule partial whatever its lists say.                 *)
Flagged(v, rule) ==
    \/ rule.apps /\ v # "panos"
    \/ rule.urls
    \/ v = "checkpoint" /\ (rule.from # <<>> \/ rule.to # {})

Status(v, rule) ==
    IF /\ Addresses(v, rule.src).status = "converted"
       /\ Addresses(v, rule.dst).status = "converted"
       /\ ServiceList(v, rule.services).status = "converted"
       /\ ~Flagged(v, rule)
    THEN "converted" ELSE "partial"

-----------------------------------------------------------------------------
Init ==
    /\ \E v \in Sources : policy \in Policies(v) /\ target \in Targets \ {v}
    /\ items = <<>> /\ out = <<>>
    /\ helperObjs = [key \in Names \X Sides |-> {}]
    /\ bound = {}

(* The map of helper groups after a rule: an entry of the name is replaced. *)
WithHelpers(o) ==
    [key \in Names \X Sides |->
        IF key[1] = o.name /\ key[2] \in o.shares THEN o[key[2]] ELSE helperObjs[key]]

(* Mutant: a disabled rule gets its item and is not written.                *)
TranslateSkipsDisabled ==
    /\ Len(items) < Len(policy)
    /\ LET rule == policy[Len(items) + 1]
       IN /\ items' = Append(items, Status(target, rule))
          /\ out' = IF rule.enabled THEN Append(out, Written(target, rule)) ELSE out
          /\ helperObjs' = WithHelpers(Written(target, rule))
    /\ UNCHANGED <<target, policy, bound>>

(* The next rule of the context.                                            *)
Translate ==
    /\ Len(items) < Len(policy)
    /\ LET rule == policy[Len(items) + 1]
       IN /\ items' = Append(items, Status(target, rule))
          /\ out' = Append(out, Written(target, rule))
          /\ helperObjs' = WithHelpers(Written(target, rule))
    /\ UNCHANGED <<target, policy, bound>>

(* Mutant: the global list is not bound.                                    *)
BindInterfaces ==
    /\ target = "asa"
    /\ Len(items) = Len(policy)
    /\ bound' = {out[k].acl : k \in DOMAIN out} \ {Global}
    /\ bound' # bound
    /\ UNCHANGED <<target, policy, items, out, helperObjs>>

(* ASA, after the rules: an access-group for each access list.              *)
Bind ==
    /\ target = "asa"
    /\ Len(items) = Len(policy)
    /\ bound' = {out[k].acl : k \in DOMAIN out}
    /\ bound' # bound
    /\ UNCHANGED <<target, policy, items, out, helperObjs>>

Next == Translate \/ Bind

Spec == Init /\ [][Next]_vars

-----------------------------------------------------------------------------
(* What a rule list decides: a packet goes from a zone to a zone, and the   *)
(* first rule that matches it counts.                                       *)
Packets == [from : Zones, to : Zones, src : Hosts, dst : Hosts, flow : Flows]

Means(refs) == IF refs = {} THEN Hosts ELSE HostsOf(refs)

Covers(rule) ==
    {p \in Packets :
        /\ rule.enabled
        /\ rule.from = <<>> \/ p.from \in Range(rule.from)
        /\ rule.to = {} \/ p.to \in rule.to
        /\ p.src \in Means(rule.src) /\ p.dst \in Means(rule.dst)
        /\ rule.services = {} \/ p.flow \in FlowsOf(rule.services)}

(* The addresses of a written rule: where it refers to a helper group, what *)
(* the map holds under that name in the end.                                *)
Side(o, side) == IF side \in o.shares THEN helperObjs[<<o.name, side>>] ELSE o[side]

CoversThere(o) ==
    {p \in Packets :
        /\ o.enabled
        /\ ZoneMap[p.from] \in o.from /\ ZoneMap[p.to] \in o.to
        /\ p.src \in Side(o, "src") /\ p.dst \in Side(o, "dst") /\ p.flow \in o.flows}

First(S) == CHOOSE k \in S : \A j \in S : k <= j

Decided(p) ==
    LET hits == {k \in DOMAIN policy : p \in Covers(policy[k])}
    IN IF hits = {} THEN "none" ELSE policy[First(hits)].action

(* An ASA asks the list of the interface first and the global list after    *)
(* it, and only lists that an access-group binds.                           *)
DecidedThere(p) ==
    LET hits == {k \in DOMAIN out : p \in CoversThere(out[k])}
        own == {k \in hits : out[k].acl # Global /\ out[k].acl \in bound}
        global == {k \in hits : out[k].acl = Global /\ Global \in bound}
    IN IF target # "asa" THEN (IF hits = {} THEN "none" ELSE out[First(hits)].action)
       ELSE IF own # {} THEN out[First(own)].action
       ELSE IF global # {} THEN out[First(global)].action ELSE "none"

-----------------------------------------------------------------------------
TypeOK ==
    /\ target \in Targets
    /\ items \in Seq(Statuses) /\ Len(items) <= Len(policy)
    /\ Len(out) = Len(items)
    /\ \A k \in DOMAIN out :
          /\ out[k].acl \in Zones \union {Global}
          /\ out[k].from \subseteq Zones /\ out[k].to \subseteq Zones
          /\ out[k].src \subseteq Hosts /\ out[k].dst \subseteq Hosts
          /\ out[k].flows \subseteq Flows
    /\ helperObjs \in [Names \X Sides -> SUBSET Hosts]
    /\ bound \subseteq Zones \union {Global}

(* What changes the addresses of a rule that is said to be converted: IPv6  *)
(* that a vendor writes as something else, and a helper group that a later  *)
(* rule of the same name replaces.                                          *)
Mangled6(v, ref) ==
    \E p \in ref.six :
        \/ v = "fortigate" \/ p.len = "32"
        \/ v = "asa" /\ p.len = "other"
        \/ v = "panos" /\ ref.kind = "object" /\ p.len = "128"
        \/ v # "panos" /\ p.len = "name"

Replaced(k) ==
    \E j \in DOMAIN items, side \in Sides :
        /\ j > k /\ policy[j].name = policy[k].name
        /\ Shares(target, policy[k], side) /\ Shares(target, policy[j], side)

References(rule) == rule.src \union rule.dst
KeepsAddresses(k) ==
    /\ \A ref \in References(policy[k]) : ~Mangled6(target, ref)
    /\ ~Replaced(k)

(* But for those, no generator widens or narrows the addresses of a rule    *)
(* that it and its objects report as converted, whatever they are.          *)
AddressesExact ==
    \A k \in DOMAIN items :
        /\ items[k] = "converted" /\ KeepsAddresses(k)
        /\ \A ref \in References(policy[k]) : RefItem(target, ref) = "converted"
        => /\ Side(out[k], "src") = Means(policy[k].src)
           /\ Side(out[k], "dst") = Means(policy[k].dst)

(* The conditions a generator loses without a word in any item: the zones   *)
(* an ASA access list has no place for, a PAN-OS service without a port, a  *)
(* FortiGate service of a protocol of its own, the udp half of a literal,   *)
(* the source port of an FTD or Check Point object, the port of sctp at     *)
(* Check Point.                                                             *)
Silent(v, rule) ==
    \/ v = "asa" /\ (rule.to # {} \/ Len(rule.from) > 1)
    \/ v = "panos" /\ \E s \in rule.services : s.kind = "literal" /\ ~s.port
    \/ v = "fortigate" /\ \E s \in rule.services : s.kind = "literal" /\ s.proto \in {"sctp", "other"}
    \/ v # "fortigate" /\ \E s \in rule.services : s.kind \in {"literal", "group"} /\ s.proto = "tcp-udp"
    \/ v \in {"ftd", "checkpoint"} /\ \E s \in rule.services : s.anysrc # s.flows
    \/ v = "checkpoint" /\ \E s \in rule.services : s.kind \in {"literal", "group"} /\ s.proto = "sctp"

(* No item tells of a loss, neither the rule's nor those of what it names.  *)
SaidConverted(k) ==
    /\ items[k] = "converted"
    /\ \A s \in policy[k].services : ItsOwnItem(target, s) = "converted"
    /\ \A ref \in References(policy[k]) : RefItem(target, ref) = "converted"

Faithful(k) == SaidConverted(k) /\ ~Silent(target, policy[k]) /\ KeepsAddresses(k)

(* But for the silent cases, a rule that is said to be converted matches at *)
(* the target the packets it matched at the source.                         *)
ConvertedExact ==
    \A k \in DOMAIN items : Faithful(k) => CoversThere(out[k]) = Covers(policy[k])

(* An ASA moves the rules without a source zone behind the others.          *)
OrderKept ==
    target = "asa" =>
        \A k \in DOMAIN policy : policy[k].from = <<>> =>
            \A j \in DOMAIN policy : j > k => policy[j].from = <<>>

(* A policy whose rules are all said to be converted, silent cases and      *)
(* reordered ones aside, decides every packet as it did at the source.      *)
PolicyPreserved ==
    /\ Len(items) = Len(policy)
    /\ target = "asa" => bound # {}
    /\ \A k \in DOMAIN policy : Faithful(k)
    /\ OrderKept
    => \A p \in Packets : DecidedThere(p) = Decided(p)

(* README.md:19 "Nothing is ever silently dropped", without exceptions.     *)
NothingSilentlyDropped ==
    \A k \in DOMAIN items :
        SaidConverted(k) => CoversThere(out[k]) = Covers(policy[k])
=============================================================================
