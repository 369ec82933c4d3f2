------------------------------ MODULE RoundTrip -----------------------------
(***************************************************************************)
(* A context of ASA or FTD syntax on its way to an ASA: it is parsed,       *)
(* written again (genASA in src/gen/asa.go), the written text is parsed in  *)
(* its turn, and the review compares the two and gives its verdict          *)
(* (src/engine/convert.go, review.go, valuecheck.go).  The same parser      *)
(* reads both texts.  Comments of the written text are left out.            *)
(***************************************************************************)
EXTENDS AsaText

CONSTANTS
    MapZone(_), MapIface(_),   \* the approved mapping
    AclName(_),                \* the access list of a zone
    GlobalAcl,                 \* the access list of rules without a zone
    HelperName(_),             \* the object that stands for an address
    GuessLevel(_),             \* the security level that goes with a zone's name
    Hosts, Hosts4, Hosts6,     \* all, those with an IPv4 and those with an IPv6 address
    Covers,                    \* the hosts that a literal stands for
    Fqdns,                     \* literals that are names to resolve
    Prefixes6, Slash32,        \* literals that are IPv6 prefixes; those of length 32
    HostPart(_),               \* a prefix without its length
    Flows                      \* what a service matches

VARIABLES
    pass,      \* what is parsed: the source, the generated text; then reviewed
    source,    \* the lines of the context as they were uploaded
    ir,        \* the context that was parsed from them
    items,     \* Result.Items, as a sequence of [category, status]
    verdict

vars == <<text, at, x, remark, bind, joins, pass, source, ir, items, verdict>>

-----------------------------------------------------------------------------
Item(category, status) == [category |-> category, status |-> status]
Worst(statuses) ==
    IF "failed" \in statuses THEN "failed" ELSE IF "partial" \in statuses THEN "partial" ELSE "converted"

Named(seq) == {seq[j].name : j \in DOMAIN seq}
IsNet(c, r) == r \in Named(c.nets)
IsNetGroup(c, r) == r \in Named(c.netGroups)

(* Bundles are partial when they have members, bridges always.              *)
IfaceStatus(i) ==
    IF i.kind = "bridge" \/ (i.kind = "aggregate" /\ i.members # <<>>) THEN "partial" ELSE "converted"

GenInterface(i) ==
    <<[k |-> "interface", in |-> FALSE, name |-> MapIface(i.name)]>>
    \o (IF i.kind = "subif" /\ i.vlan # "" THEN <<[k |-> "vlan", in |-> TRUE, v |-> i.vlan]>> ELSE <<>>)
    \o (IF i.alias = "" THEN <<>>
        ELSE <<[k |-> "nameif", in |-> TRUE, v |-> MapZone(i.alias)],
               [k |-> "security-level", in |-> TRUE, v |-> IF i.sec = NoLevel THEN GuessLevel(i.alias) ELSE i.sec]>>)
    \o [j \in DOMAIN i.ips |-> [k |-> "ip", in |-> TRUE, ok |-> TRUE, v |-> i.ips[j]]]
    \o (IF i.shutdown THEN <<[k |-> "shutdown", in |-> TRUE]>> ELSE <<>>)

(* An FQDN is written "fqdn v4", whatever its family was.                   *)
GenObject(o) ==
    <<[k |-> "object", in |-> FALSE, name |-> o.name],
      [k |-> "value", in |-> TRUE, ok |-> TRUE, fam |-> IF o.value \in Fqdns THEN "v4" ELSE "", v |-> o.value]>>

Clause(port) == IF port = "" THEN [op |-> "none", v |-> ""] ELSE [op |-> "eq", v |-> port]
NoClause == Clause("")

(* Mutant: of tcp-udp only tcp is written.                                  *)
GenServiceHalf(s) ==
    <<[k |-> "service", in |-> FALSE, name |-> s.name],
      [k |-> "spec", in |-> TRUE, proto |-> IF s.proto = "tcp-udp" THEN "tcp" ELSE s.proto,
       sport |-> Clause(s.sport), dport |-> Clause(s.port)]>>

GenService(s) ==
    <<[k |-> "service", in |-> FALSE, name |-> s.name],
      [k |-> "spec", in |-> TRUE, proto |-> s.proto, sport |-> Clause(s.sport), dport |-> Clause(s.port)]>>

(* SplitCIDR and PrefixToMask know IPv4: of an IPv6 prefix the address is   *)
(* left, as a host where the length is 32, before "<nil>" for other lengths.*)
Literally(r) == IF r \in Prefixes6 THEN HostPart(r) ELSE r

(* A member that is neither an object or group nor an address is left out.  *)
GenMember(c, m) ==
    IF IsNetGroup(c, m) THEN <<[k |-> "group-object", in |-> TRUE, v |-> m]>>
    ELSE IF IsNet(c, m) THEN <<[k |-> "network-object", in |-> TRUE, v |-> m]>>
    ELSE IF m \in Literals THEN <<[k |-> "network-object", in |-> TRUE, v |-> Literally(m)]>>
    ELSE <<>>

GenNetGroup(c, g) ==
    <<[k |-> "object-group", in |-> FALSE, of |-> "network", name |-> g.name]>>
    \o FlattenSeq([j \in DOMAIN g.members |-> GenMember(c, g.members[j])])

(* SplitSvcLiteral knows these protocols; protoSplitFirst keeps one of two. *)
Known(s) ==
    \/ s = <<>>
    \/ Len(s) = 2 /\ \/ s[2] = "" /\ s[1] \in {"icmp", "ip", "gre", "esp", "ah", "tcp", "udp", "sctp"}
                     \/ s[2] # "" /\ s[1] \in {"tcp", "udp", "sctp", "tcp-udp", "icmp"}
Proto(s) == IF s = <<>> THEN "ip" ELSE IF s[1] = "tcp-udp" THEN "tcp" ELSE s[1]
Port(s) == IF s = <<>> THEN "" ELSE s[2]

IsSvc(c, s) == Len(s) = 1 /\ s[1] \in Named(c.svcs)
IsSvcGroup(c, s) == Len(s) = 1 /\ s[1] \in Named(c.svcGroups)

GenSvcMember(c, s) ==
    IF IsSvc(c, s) THEN <<[k |-> "svc-object", in |-> TRUE, v |-> s[1]]>>
    ELSE IF IsSvcGroup(c, s) THEN <<[k |-> "group-object", in |-> TRUE, v |-> s[1]]>>
    ELSE IF Known(s) THEN <<[k |-> "service-object", in |-> TRUE, proto |-> Proto(s),
                             sport |-> NoClause, dport |-> Clause(Port(s))]>>
    ELSE <<>>

GenSvcGroup(c, g) ==
    <<[k |-> "object-group", in |-> FALSE, of |-> "service", proto |-> "", name |-> g.name]>>
    \o FlattenSeq([j \in DOMAIN g.members |-> GenSvcMember(c, g.members[j])])

-----------------------------------------------------------------------------
(* Access rules: one reference and one service each, as the parser makes    *)
(* them; what cannot be resolved is widened and the rule is partial.        *)
Resolved(c, r) == r = "any" \/ r \in Literals \/ IsNet(c, r) \/ IsNetGroup(c, r)
GenAddr(c, r) ==
    [form |-> IF ~Resolved(c, r) \/ r = "any" THEN "any" ELSE IF r \in Prefixes6 \ Slash32 THEN "nomask"
              ELSE IF r \in Literals THEN "host" ELSE "object",
     v |-> IF Resolved(c, r) THEN Literally(r) ELSE "any"]

AclOf(r) == IF r.from = <<>> THEN GlobalAcl ELSE AclName(MapZone(r.from[1]))

SvcResolved(c, s) == IsSvc(c, s) \/ IsSvcGroup(c, s) \/ Known(s)

GenRule(c, r) ==
    LET named == Len(r.svc) = 1
        literal == ~named /\ Known(r.svc)
    IN <<[k |-> "remark", in |-> FALSE, acl |-> AclOf(r)],
         [k |-> "ace", in |-> FALSE, acl |-> AclOf(r), action |-> IF r.action = "deny" THEN "deny" ELSE "permit",
          obj |-> IF named /\ SvcResolved(c, r.svc) THEN r.svc[1] ELSE "",
          proto |-> IF literal THEN Proto(r.svc) ELSE "ip",
          src |-> GenAddr(c, r.src), sport |-> NoClause, dst |-> GenAddr(c, r.dst),
          dport |-> IF literal THEN Clause(Port(r.svc)) ELSE NoClause,
          tail |-> (IF r.log THEN {"log"} ELSE {}) \union (IF r.enabled THEN {} ELSE {"inactive"})]>>

RuleStatus(c, r) ==
    IF Resolved(c, r.src) /\ Resolved(c, r.dst) /\ SvcResolved(c, r.svc) THEN "converted" ELSE "partial"

(* Mutant: one access-group only, for the list that is met first.           *)
GenBindingsOne(c) ==
    IF c.rules = <<>> THEN <<>>
    ELSE <<[k |-> "access-group", in |-> FALSE, acl |-> AclOf(c.rules[1]),
            dir |-> IF c.rules[1].from = <<>> THEN "global" ELSE "in",
            iface |-> IF c.rules[1].from = <<>> THEN "" ELSE MapZone(c.rules[1].from[1])]>>

(* One access-group for each list, where it is first met.                   *)
GenBindings(c) ==
    LET first == Select([j \in DOMAIN c.rules |-> j],
                           LAMBDA j : \A i \in 1..(j - 1) : AclOf(c.rules[i]) # AclOf(c.rules[j]))
        Binding(r) == [k |-> "access-group", in |-> FALSE, acl |-> AclOf(r),
                       dir |-> IF r.from = <<>> THEN "global" ELSE "in",
                       iface |-> IF r.from = <<>> THEN "" ELSE MapZone(r.from[1])]
    IN [j \in DOMAIN first |-> Binding(c.rules[first[j]])]

-----------------------------------------------------------------------------
(* NAT: an address is replaced by the name of a helper object, whose        *)
(* definition nothing writes any more at this point.  What is absent is     *)
(* "any" as well, so that orSame never finds the original to fall back to.  *)
NatRef(c, r) ==
    IF r \in {"", "any"} THEN "any"
    ELSE IF r \in Literals /\ ~IsNet(c, r) /\ ~IsNetGroup(c, r) THEN HelperName(r) ELSE r

(* Mutant: the addresses of the destination change places.                  *)
NatDstSwapped(c, n) ==
    IF n.kind \in {"pat", "dynamic"} \/ (n.odst = "" /\ n.tdst = "") THEN <<>>
    ELSE <<NatRef(c, n.odst), NatRef(c, n.tdst)>>

(* A static translation that has a destination (none of an ASA has) is      *)
(* written the other way round; dynamic ones lose theirs.                   *)
NatDst(c, n) ==
    IF n.kind \in {"pat", "dynamic"} \/ (n.odst = "" /\ n.tdst = "") THEN <<>>
    ELSE IF n.kind = "static" THEN <<NatRef(c, n.odst), NatRef(c, n.tdst)>>
    ELSE <<NatRef(c, n.tdst), NatRef(c, n.odst)>>

NatMapped(c, n) ==
    CASE n.kind = "pat" -> IF n.tsrc \in {"", "interface"} THEN <<"interface">> ELSE <<"pat-pool", NatRef(c, n.tsrc)>>
      [] n.kind = "dynamic" -> <<NatRef(c, n.tsrc)>>
      [] OTHER -> <<NatRef(c, n.tsrc)>>

(* svcToASAService: a protocol and a port, of a literal or of an object.    *)
SvcObject(c, s) == c.svcs[Min({j \in DOMAIN c.svcs : c.svcs[j].name = s[1]})]
NatSvc(c, s) ==
    IF Len(s) = 2 /\ Known(s) /\ Port(s) # "" THEN <<Proto(s), Port(s)>>
    ELSE IF IsSvc(c, s) /\ SvcObject(c, s).port # "" THEN <<SvcObject(c, s).proto, SvcObject(c, s).port>>
    ELSE <<>>

HasSvc(n) == n.osvc # <<>> /\ n.tsvc # <<>>
NatSvcOk(c, n) == HasSvc(n) => NatSvc(c, n.osvc) # <<>> /\ NatSvc(c, n.tsvc) # <<>>

IfOrAny(zone) == IF zone = "" THEN "any" ELSE zone

GenNAT(c, n) ==
    [k |-> "nat", in |-> FALSE, source |-> TRUE, from |-> IfOrAny(MapZone(n.in)), onto |-> IfOrAny(MapZone(n.out)),
     mode |-> IF n.kind \in {"pat", "dynamic"} THEN "dynamic" ELSE "static", words |-> {},
     osrc |-> NatRef(c, n.osrc), mapped |-> NatMapped(c, n), dst |-> NatDst(c, n),
     svc |-> IF HasSvc(n) /\ NatSvcOk(c, n) THEN NatSvc(c, n.osvc) \o NatSvc(c, n.tsvc) ELSE <<>>,
     active |-> n.enabled]

GenRoute(r) ==
    [k |-> "route", in |-> FALSE, ok |-> TRUE, iface |-> MapZone(MapIface(r.iface)), dest |-> r.dest, gw |-> r.gw,
     metric |-> IF r.metric = 0 THEN 1 ELSE r.metric]

-----------------------------------------------------------------------------
(* SplitCIDR refuses what is no address: nothing an ASA parser made.        *)
Written(seq, Address(_)) == Select(seq, LAMBDA e : Address(e) \in Literals)
Each(seq, Gen(_)) == [j \in DOMAIN seq |-> Gen(seq[j])]

Blocks(c) ==
    Each(c.ifs, GenInterface)
    \o Each(Written(c.nets, LAMBDA o : o.value), GenObject)
    \o Each(c.svcs, GenService)
    \o Each(c.netGroups, LAMBDA g : GenNetGroup(c, g))
    \o Each(c.svcGroups, LAMBDA g : GenSvcGroup(c, g))
    \o Each(c.rules, LAMBDA r : GenRule(c, r))
    \o Each(GenBindings(c), LAMBDA b : <<b>>)
    \o Each(c.nats, LAMBDA n : <<GenNAT(c, n)>>)
    \o Each(Written(c.routes, LAMBDA r : r.dest), LAMBDA r : <<GenRoute(r)>>)

GenASA(c) == FlattenSeq(Blocks(c))

Items(category, seq, Status(_)) == [j \in DOMAIN seq |-> Item(category, Status(seq[j]))]
Partly(exact) == IF exact THEN "converted" ELSE "partial"
NotFailed(v) == IF v \in Literals THEN "converted" ELSE "failed"

ItemsOf(c) ==
    Items("interface", c.ifs, IfaceStatus)
    \o Items("zone", Zones(c), LAMBDA z : "converted")
    \o Items("object", c.nets, LAMBDA o : NotFailed(o.value))
    \o Items("service", c.svcs, LAMBDA s : "converted")
    \o Items("group", c.netGroups,
             LAMBDA g : Partly(\A j \in DOMAIN g.members : GenMember(c, g.members[j]) # <<>>))
    \o Items("group", c.svcGroups,
             LAMBDA g : Partly(\A j \in DOMAIN g.members : GenSvcMember(c, g.members[j]) # <<>>))
    \o Items("rule", c.rules, LAMBDA r : RuleStatus(c, r))
    \o Items("nat", c.nats, LAMBDA n : Partly(NatSvcOk(c, n)))
    \o Items("route", c.routes, LAMBDA r : NotFailed(r.dest))
    \o Items("captured", SetToSeq(c.captured), LAMBDA l : "manual")
    \o Items("unparsed", SetToSeq(c.unparsed), LAMBDA l : "info")

-----------------------------------------------------------------------------
(* The value checks: what the source says has to be there, more may be.     *)
IfaceAddrs(c) == UNION {ToSet(c.ifs[j].ips) : j \in DOMAIN c.ifs}
RouteValues(c) == {<<c.routes[j].dest, c.routes[j].gw>> : j \in DOMAIN c.routes}
NetObjValues(c) == {c.nets[j].value : j \in DOMAIN c.nets}
SvcObjValues(c) ==
    UNION {IF s.proto = "tcp-udp" THEN {<<"tcp", s.port, "">>, <<"udp", s.port, "">>}
           ELSE {<<s.proto, s.port, s.sport>>} : s \in ToSet(c.svcs)}

ValuesSurvive(c, d) ==
    /\ IfaceAddrs(c) \subseteq IfaceAddrs(d)
    /\ RouteValues(c) \subseteq RouteValues(d)
    /\ NetObjValues(c) \subseteq NetObjValues(d)
    /\ SvcObjValues(c) \subseteq SvcObjValues(d)

CountsSurvive(c, d) ==
    /\ Len(c.rules) <= Len(d.rules) /\ Len(c.nats) <= Len(d.nats)
    /\ Len(c.routes) = Len(d.routes)
    /\ Len(c.nets) <= Len(d.nets) /\ Len(c.ifs) <= Len(d.ifs)

RoundTripOK(c, d) == ValuesSurvive(c, d) /\ CountsSurvive(c, d)

Statuses == {items[j].status : j \in DOMAIN items}

(* A round trip that fails replaces also the verdict "blocked".             *)
Verdict(ok) ==
    IF ~ok THEN "review-needed"
    ELSE IF "failed" \in Statuses THEN "blocked"
    ELSE IF Statuses \intersect {"partial", "manual"} # {} THEN "review-needed"
    ELSE "ready"

-----------------------------------------------------------------------------
Init ==
    /\ \E file \in Captures : \E name \in ContextsOf(file) : source = TextOf(file, name)
    /\ Begin(source)
    /\ pass = "source" /\ ir = Empty /\ items = <<>> /\ verdict = ""

Read == pass # "reviewed" /\ Parse /\ UNCHANGED <<pass, source, ir, items, verdict>>

Convert ==
    /\ pass = "source" /\ Closed
    /\ pass' = "generated" /\ ir' = x /\ items' = ItemsOf(x)
    /\ text' = GenASA(x) /\ at' = 1 /\ x' = Empty
    /\ remark' = <<>> /\ bind' = <<>> /\ joins' = <<>>
    /\ UNCHANGED <<source, verdict>>

BuildReview ==
    /\ pass = "generated" /\ Closed
    /\ pass' = "reviewed" /\ verdict' = Verdict(RoundTripOK(ir, x))
    /\ UNCHANGED <<text, at, x, remark, bind, joins, source, ir, items>>

Next == Read \/ Convert \/ BuildReview

Spec == Init /\ [][Next]_vars

-----------------------------------------------------------------------------
(* What a text means to the device, line by line.  A name is defined before *)
(* it is used; the lines of a group add up, the last value of an object     *)
(* counts.  Says: what a line makes of names, which hosts or flows it gives *)
(* them and from which other names they get theirs.                         *)
HeaderAt(t, j) == Max({i \in 1..j : ~t[i].in /\ ~Blank(t[i])})
Header(t, j) == t[HeaderAt(t, j)]
Lookup(env, name) == IF name \in DOMAIN env THEN env[name] ELSE {}

Says(names, adds, base, refs) == [names |-> names, adds |-> adds, base |-> base, refs |-> refs]
Nothing == Says({}, FALSE, {}, {})
Others(env, d) == UNION {Lookup(env, r) : r \in d.refs}
Before(env, d, n) == IF d.adds THEN Lookup(env, n) ELSE {}
Told(env, d) ==
    [n \in DOMAIN env \union d.names |->
        IF n \in d.names THEN d.base \union Others(env, d) \union Before(env, d, n) ELSE env[n]]
Meaning(lines) ==
    LET env[j \in 0..Len(lines)] == IF j = 0 THEN <<>> ELSE Told(env[j - 1], lines[j]) IN env[Len(lines)]

InFamily(fam, hosts) ==
    CASE fam = "v4" -> hosts \intersect Hosts4 [] fam = "v6" -> hosts \intersect Hosts6 [] OTHER -> hosts

HostsOf(env, r) == IF r = "any" THEN Hosts ELSE IF r \in Literals THEN Covers[r] ELSE Lookup(env, r)
RefsOf(r) == IF r = "any" \/ r \in Literals THEN {} ELSE {r}

NetLine(t, j) ==
    LET l == t[j] IN
    CASE l.k = "name" -> Says({l.name}, FALSE, Covers[l.v], {})
      [] l.k = "value" -> Says({Header(t, j).name}, FALSE, InFamily(l.fam, Covers[l.v]), {})
      [] l.k \in {"network-object", "group-object"} /\ Header(t, j).of = "network" ->
           Says({Header(t, j).name}, TRUE, HostsOf(<<>>, l.v), RefsOf(l.v))
      [] OTHER -> Nothing
Networks(t) == Meaning([j \in DOMAIN t |-> NetLine(t, j)])

Protocol(f, proto) == proto = "ip" \/ f.proto = proto \/ (proto = "tcp-udp" /\ f.proto \in {"tcp", "udp"})
InClause(port, c) == CASE c.op = "none" -> TRUE [] c.op = "neq" -> port # c.v [] OTHER -> port = c.v
FlowsOf(proto, sport, dport) ==
    {f \in Flows : Protocol(f, proto) /\ InClause(f.sport, sport) /\ InClause(f.port, dport)}

SvcLine(t, j) ==
    LET l == t[j] IN
    CASE l.k = "spec" -> Says({Header(t, j).name}, FALSE, FlowsOf(l.proto, l.sport, l.dport), {})
      [] l.k = "port-object" -> Says({Header(t, j).name}, TRUE, FlowsOf(Header(t, j).proto, NoClause, l.dport), {})
      [] l.k = "service-object" -> Says({Header(t, j).name}, TRUE, FlowsOf(l.proto, l.sport, l.dport), {})
      [] l.k \in {"svc-object", "group-object"} /\ Header(t, j).of = "service" ->
           Says({Header(t, j).name}, TRUE, {}, {l.v})
      [] OTHER -> Nothing
Services(t) == Meaning([j \in DOMAIN t |-> SvcLine(t, j)])

(* A service group in the place of a port.                                  *)
Grouped(env, c, f) == c.op = "group" => \E g \in Lookup(env, c.v) : g.proto = f.proto /\ g.port = f.port
Clauseless(c) == IF c.op = "group" THEN NoClause ELSE c
AceFlows(env, l) ==
    IF l.obj # "" THEN Lookup(env, l.obj)
    ELSE {f \in FlowsOf(l.proto, Clauseless(l.sport), Clauseless(l.dport)) :
             Grouped(env, l.dport, f) /\ Grouped(env, l.sport, [f EXCEPT !.port = f.sport])}

(* The entries that a packet meets at an interface, in order.               *)
ListAt(t, dir, iface) ==
    LET here == Select(t, LAMBDA l : l.k = "access-group" /\ l.dir = dir /\ l.iface = iface)
    IN IF here = <<>> THEN <<>>
       ELSE Select(t, LAMBDA l : l.k = "ace" /\ l.acl = Last(here).acl /\ "inactive" \notin l.tail)

AddrHosts(env, a) ==
    CASE a.form = "any4" -> Hosts4 [] a.form = "any6" -> Hosts6 [] a.form = "nomask" -> {}
      [] OTHER -> HostsOf(env, a.v)

PolicyAt(t, dir, iface) ==
    LET nets == Networks(t)
        svcs == Services(t)
        list == ListAt(t, dir, iface)
    IN [j \in DOMAIN list |->
           <<list[j].action, AddrHosts(nets, list[j].src), AddrHosts(nets, list[j].dst), AceFlows(svcs, list[j]),
             list[j].tail \intersect {"time-range"}>>]

(* A translation, written in an object or on a line of its own.             *)
NatMeaning(t, j) ==
    LET nets == Networks(t)
        svcs == Services(t)
        l == t[j]
        To(mapped) == IF mapped[1] \in {"interface", "pat-pool"}
                      THEN <<mapped[1]>> \o [i \in 1..(Len(mapped) - 1) |-> HostsOf(nets, mapped[i + 1])]
                      ELSE [i \in DOMAIN mapped |-> HostsOf(nets, mapped[i])]
    IN IF l.k = "nat"
       THEN [from |-> l.from, onto |-> l.onto, mode |-> l.mode, src |-> HostsOf(nets, l.osrc),
             to |-> To(IF l.mapped = <<>> THEN <<l.osrc>> ELSE l.mapped),
             dst |-> [i \in DOMAIN l.dst |-> HostsOf(nets, l.dst[i])],
             svc |-> [i \in DOMAIN l.svc |-> Lookup(svcs, l.svc[i])], active |-> l.active,
             words |-> l.words \ {"after-auto"}]
       ELSE [from |-> l.from, onto |-> l.onto, mode |-> l.mode, src |-> HostsOf(nets, Header(t, j).name),
             to |-> To(l.to), dst |-> <<>>, svc |-> l.svc, active |-> TRUE, words |-> {}]

(* The device asks the lines of their own, then the translations of objects *)
(* and then what comes after-auto, each in the order of the text (but for   *)
(* the objects, see InSections).                                            *)
IsNat(l) == l.k \in {"nat", "onat"}
Section(l) == IF l.k = "onat" THEN 2 ELSE IF "after-auto" \in l.words THEN 3 ELSE 1
InSection(t, n) == Select([j \in DOMAIN t |-> j], LAMBDA j : IsNat(t[j]) /\ Section(t[j]) = n)
Asked(t) == InSection(t, 1) \o InSection(t, 2) \o InSection(t, 3)
Nats(t) == [i \in DOMAIN Asked(t) |-> NatMeaning(t, Asked(t)[i])]

Zoned(nat) == [nat EXCEPT !.from = IfOrAny(MapZone(@)), !.onto = IfOrAny(MapZone(@))]

(* What the interface with a nameif has: addresses, or its level.           *)
UnderNameif(t, kind) ==
    UNION {{<<LastOf(Only(Body(t, i), "nameif"), ""), v>> : v \in ToSet(Values(Only(Body(t, i), kind)))} :
               i \in {j \in DOMAIN t : t[j].k = "interface" /\ Only(Body(t, j), "nameif") # <<>>}}
AtZone(pairs) == {<<MapZone(p[1]), p[2]>> : p \in pairs}

RoutesOf(t) ==
    LET lines == Only(t, "route")
    IN [j \in DOMAIN lines |-> [iface |-> lines[j].iface, dest |-> lines[j].dest, gw |-> lines[j].gw,
                                metric |-> IF lines[j].metric = 0 THEN 1 ELSE lines[j].metric]]

-----------------------------------------------------------------------------
(* A running configuration, as a device shows it: a command stands at the   *)
(* margin and its parts below it, an object is one thing, and a name is     *)
(* defined once, in a block that ends before the one that uses it begins;   *)
(* no word is missing, an interface has one level and "ip" has no ports.    *)
Members == {"network-object", "group-object", "port-object", "service-object", "svc-object"}
Parts == Members \union {"nameif", "security-level", "ip", "value", "onat", "spec"}
PartOf(l, h) ==
    CASE l.k \in {"nameif", "security-level", "ip"} -> h.k = "interface"
      [] l.k \in {"value", "onat"} -> h.k = "object"
      [] l.k = "spec" -> h.k = "service"
      [] l.k = "network-object" -> h.k = "object-group" /\ h.of = "network"
      [] l.k = "group-object" -> h.k = "object-group" /\ h.of \in {"network", "service"}
      [] l.k = "port-object" -> h.k = "object-group" /\ h.of = "service" /\ h.proto \in {"tcp", "udp", "tcp-udp"}
      [] OTHER -> h.k = "object-group" /\ h.of = "service"
Nested(t) ==
    \A j \in DOMAIN t :
        /\ t[j].k \in Commands => ~t[j].in
        /\ t[j].k \in Parts => /\ t[j].in /\ \E i \in 1..j : ~t[i].in /\ ~Blank(t[i])
                              /\ PartOf(t[j], Header(t, j))

Defines(l) == l.k \in {"name", "value", "spec"} \union Members
Uses(l) == l.k \in {"network-object", "group-object", "svc-object"}
NameAt(t, j) == IF t[j].k = "name" THEN t[j].name ELSE Header(t, j).name
Worded(c) == c.op # "none" => c.v # ""
Spoken(t) ==
    \A j \in DOMAIN t :
        /\ t[j].k = "spec" => Worded(t[j].sport) /\ Worded(t[j].dport)
        /\ t[j].k \in {"port-object", "service-object"} => Worded(t[j].dport)
        /\ t[j].k = "service-object" /\ t[j].proto = "ip" => t[j].dport.op = "none"
        /\ t[j].k = "value" => t[j].fam \in (IF t[j].v \in Fqdns THEN {"", "v4", "v6"} ELSE {""})
        /\ t[j].k \in {"name", "network-object"} => t[j].v \notin Fqdns
        /\ t[j].k = "nameif" => t[j].v # ""
        /\ t[j].k = "security-level" =>
              /\ t[j].v # NoLevel
              /\ \A i \in DOMAIN t : t[i].k = "security-level" /\ HeaderAt(t, i) = HeaderAt(t, j) => i = j
Running(t) ==
    /\ Nested(t) /\ Spoken(t)
    /\ \A i, j \in DOMAIN t : Defines(t[i]) =>
          /\ Defines(t[j]) /\ NameAt(t, i) = NameAt(t, j) =>
                i = j \/ (t[i].k \in Members /\ t[j].k \in Members /\ HeaderAt(t, i) = HeaderAt(t, j))
          /\ Uses(t[j]) /\ NameAt(t, i) = t[j].v => i < HeaderAt(t, j)

-----------------------------------------------------------------------------
(* What the tool loses although it calls the context ready.                 *)
(* Access lists: one without a binding becomes a global one; of two         *)
(* bindings the last is kept, and "out" is not there at all.                *)
BoundOnce(t) ==
    /\ \A j \in DOMAIN t : t[j].k = "ace" =>
          \E i \in DOMAIN t : t[i].k = "access-group" /\ t[i].acl = t[j].acl
    /\ \A i, j \in DOMAIN t : t[i].k = "access-group" /\ t[j].k = "access-group" =>
          /\ t[i].dir # "out"
          /\ i # j => t[i].acl # t[j].acl /\ <<t[i].dir, t[i].iface>> # <<t[j].dir, t[j].iface>>

(* Addresses: the family of an FQDN, which becomes v4, and of any4 and any6;*)
(* IPv6 prefixes in groups and entries.                                     *)
PlainNetwork(l) ==
    /\ l.k = "value" /\ l.v \in Fqdns => l.fam = "v4"
    /\ l.k \in {"network-object", "group-object"} => l.v \notin Prefixes6
PlainNetworks(t) == \A j \in DOMAIN t : PlainNetwork(t[j])

(* Port clauses that are not read: the source port, neq, a service group,   *)
(* the type of an ICMP message.  The schedule of a time-range is in the     *)
(* description, which the remark replaces.                                   *)
PlainClause(c) == c.op \in {"none", "eq", "range"}
PlainAddr(a) == a.form \notin {"any4", "any6", "nomask"} /\ a.v \notin Prefixes6
PlainAce(l) ==
    l.k = "ace" => /\ PlainAddr(l.src) /\ PlainAddr(l.dst)
                   /\ l.sport.op = "none" /\ PlainClause(l.dport) /\ "time-range" \notin l.tail
PlainService(l) ==
    /\ l.k = "spec" => PlainClause(l.sport) /\ PlainClause(l.dport)
    /\ l.k \in {"port-object", "service-object"} => PlainClause(l.dport)
    /\ l.k = "service-object" => l.sport.op = "none" /\ l.proto # "tcp-udp"
    /\ l.k = "object-group" /\ l.of = "service" => l.proto # "tcp-udp"
PlainServices(t) == \A j \in DOMAIN t : PlainService(t[j])

(* Translations: services, the destination of a dynamic one, the pool and   *)
(* the fallback of a manual one, an address in the place of an object, and  *)
(* words that change how it is applied.                                     *)
PlainNat(l) ==
    /\ IsNat(l) => l.svc = <<>>
    /\ l.k = "nat" => l.words = {} /\ Len(l.mapped) = 1 /\ (l.mode = "dynamic" => l.dst = <<>>)
    /\ l.k = "onat" => (Len(l.to) = 1 \/ l.to[1] = "pat-pool") /\ ToSet(l.to) \intersect Literals = {}

(* All are written as lines of their own, in the order of the text: that is *)
(* the device's when the lines come before the objects, and of objects that *)
(* share hosts the static ones first, then those with fewer hosts.          *)
AutoBefore(t, i, j) ==
    LET Real(n) == HostsOf(Networks(t), Header(t, n).name) IN
    \/ Real(i) \intersect Real(j) = {}
    \/ t[i].mode = "static" /\ t[j].mode # "static"
    \/ t[i].mode = t[j].mode /\ Cardinality(Real(i)) < Cardinality(Real(j))
InSections(t) ==
    \A i, j \in DOMAIN t : i < j /\ IsNat(t[i]) /\ IsNat(t[j]) =>
        /\ Section(t[i]) <= Section(t[j])
        /\ Section(t[i]) = 2 /\ Section(t[j]) = 2 => AutoBefore(t, i, j)

(* A value that is not read leaves no object.                               *)
AllReadable(t) == \A j \in DOMAIN t : t[j].k \in {"value", "ip"} => t[j].ok

(* The context is called ready: every element converted cleanly.            *)
Ready == verdict = "ready" /\ ir.unparsed = {}

-----------------------------------------------------------------------------
TypeOK ==
    /\ pass \in {"source", "generated", "reviewed"}
    /\ verdict \in IF pass = "reviewed" THEN {"ready", "review-needed", "blocked"} ELSE {""}
    /\ at \in 1..(Len(text) + 2)
    /\ pass = "source" => text = source /\ ir = Empty /\ items = <<>>
    /\ pass # "source" => text = GenASA(ir)
    /\ \A j \in DOMAIN x.rules : x.rules[j].line < at /\ Len(x.rules[j].from) + Len(x.rules[j].to) <= 1
    /\ DOMAIN remark \union DOMAIN bind \subseteq {text[j].acl : j \in {i \in DOMAIN text :
           text[i].k \in {"remark", "access-group"}}}

(* fwir/model.go:8, the honesty rule: a line of the source is an element or *)
(* in one, is captured or is in the list of what was not recognised.  The   *)
(* lines that leave nothing by themselves are excepted, and so are an       *)
(* object that has neither a value that could be read nor a translation, a  *)
(* service without a specification, and an MTU.                             *)
Elements(c) ==
    UNION {{s[j].line : j \in DOMAIN s} :
              s \in {c.ifs, c.nets, c.svcs, c.netGroups, c.svcGroups, c.rules, c.nats, c.routes}}

Excepted(t, i) ==
    \/ Blank(t[i]) \/ t[i].k \in {"remark", "access-group", "mtu"}
    \/ t[i].k = "object" /\ Readable(Only(Body(t, i), "value")) = <<>> /\ Only(Body(t, i), "onat") = <<>>
    \/ t[i].k = "service" /\ Only(Body(t, i), "spec") = <<>>

(* The headers that take a block, and the lines of one, unless it is itself *)
(* within a block.                                                          *)
BlockHead(l) == l.k \in {"interface", "object", "service", "object-group"} \/ (l.k = "feature" /\ l.block)
Within(t, i, h) ==
    /\ h < i /\ BlockHead(t[h]) /\ i < End(t, h)
    /\ \A g \in 1..(h - 1) : BlockHead(t[g]) => End(t, g) <= h

(* What the parser loses of a block: words it has no case for, values that  *)
(* cannot be read, and what a later line of the block takes the place of.   *)
Words(h) ==
    CASE h.k = "interface" ->
           {"nameif", "security-level", "vlan", "ip", "shutdown", "bridge-group", "channel-group"}
      [] h.k = "object" -> {"value", "onat"}
      [] h.k = "service" -> {"spec"}
      [] h.k = "object-group" /\ h.of = "network" -> {"network-object", "group-object"}
      [] h.k = "object-group" /\ h.of = "service" -> {"port-object", "service-object", "svc-object", "group-object"}
      [] OTHER -> {}
CapturedWhole(h) == h.k = "feature" \/ (h.k = "object-group" /\ h.of = "protocol")

Lost(t, h, i) ==
    LET l == t[i]
        said == Only(Body(t, h), l.k)
    IN /\ ~CapturedWhole(t[h])
       /\ \/ l.k \notin Words(t[h])
          \/ l.k \in {"value", "ip"} /\ ~l.ok
          \/ l.k \in {"nameif", "security-level", "vlan"} /\ Last(said).v # l.v
          \/ l.k = "value" /\ Last(Readable(said)).v # l.v
          \/ l.k = "spec" /\ Last(said) # l

(* Where the rest is: a member of a bundle is in the bundle at the end.     *)
Joined(c, l, name) ==
    IF Closed THEN \E b \in ToSet(c.ifs) : b.name = l.v /\ name \in ToSet(b.members)
    ELSE [k |-> l.k, bundle |-> l.v, member |-> name] \in ToSet(joins)

Has(c, f, l) ==
    CASE l.k = "nameif" -> f.alias = l.v [] l.k = "security-level" -> f.sec = l.v
      [] l.k = "vlan" -> f.vlan = l.v [] l.k = "ip" -> l.v \in ToSet(f.ips)
      [] l.k = "shutdown" -> f.shutdown [] OTHER -> Joined(c, l, f.name)

OfHeader(seq, t, h) == {e \in ToSet(seq) : e.line = h /\ e.name = t[h].name}
Carried(t, c, h, i) ==
    LET l == t[i] IN
    \/ h \in c.captured
    \/ t[h].k = "interface" /\ \E f \in OfHeader(c.ifs, t, h) : Has(c, f, l)
    \/ l.k = "value" /\ \E o \in OfHeader(c.nets, t, h) : o.value = l.v
    \/ l.k = "onat" /\ \/ l.mode = "other" /\ h \in c.unparsed
                       \/ \E n \in ToSet(c.nats) :
                             n.line = h /\ n.osrc = t[h].name /\ n.in = l.from /\ n.out = l.onto
    \/ l.k = "spec" /\ \E s \in OfHeader(c.svcs, t, h) :
          s.proto = l.proto /\ s.sport = ParsePortSpec(l.sport) /\ s.port = ParsePortSpec(l.dport)
    \/ \E g \in OfHeader(c.netGroups, t, h) : l.v \in ToSet(g.members)
    \/ \E g \in OfHeader(c.svcGroups, t, h) : ParseSvcMember(t[h].proto, l) \in ToSet(g.members)

NothingSilent ==
    pass = "source" =>
        \A i \in DOMAIN text : i < at =>
            \/ Excepted(text, i) \/ i \in Elements(x) \union x.captured \union x.unparsed
            \/ \E h \in 1..(i - 1) : Within(text, i, h) /\ (Lost(text, h, i) \/ Carried(text, x, h, i))

(* A context that is called ready decides every packet at every interface   *)
(* as it did, entry by entry, but for the losses above: bindings may come   *)
(* before or after their lists, lists be interleaved, groups be nested.     *)
PolicyKept ==
    Ready /\ BoundOnce(source) /\ PlainNetworks(source) /\ PlainServices(source) /\ AllReadable(source)
          /\ (\A j \in DOMAIN source : PlainAce(source[j]))
    => /\ PolicyAt(text, "global", "") = PolicyAt(source, "global", "")
       /\ \A j \in DOMAIN source : source[j].k = "access-group" =>
             PolicyAt(text, "in", MapZone(source[j].iface)) = PolicyAt(source, "in", source[j].iface)

(* The translations of a context that is called ready translate the same    *)
(* addresses between the same zones in the order they did, and the          *)
(* destination's two addresses keep their places, through two readings and  *)
(* a writing.                                                               *)
NatKept ==
    Ready /\ PlainNetworks(source) /\ AllReadable(source) /\ InSections(source)
          /\ (\A j \in DOMAIN source : PlainNat(source[j]))
    => Nats(text) = [j \in DOMAIN Nats(source) |-> Zoned(Nats(source)[j])]

(* Every name of a context that is called ready means the same hosts or     *)
(* flows, an address is at the interface it was at, a route leads there.    *)
(* The review's own checks compare values without what they belong to.      *)
ValuesKept ==
    Ready /\ AllReadable(source) =>
        /\ PlainNetworks(source) =>
              \A n \in DOMAIN Networks(source) : Lookup(Networks(text), n) = Networks(source)[n]
        /\ PlainServices(source) =>
              \A n \in DOMAIN Services(source) : Lookup(Services(text), n) = Services(source)[n]
        /\ AtZone(UnderNameif(source, "ip")) = UnderNameif(text, "ip")
        /\ AtZone(UnderNameif(source, "security-level")) \subseteq UnderNameif(text, "security-level")
        /\ RoutesOf(text) = [j \in DOMAIN RoutesOf(source) |->
                                 [RoutesOf(source)[j] EXCEPT !.iface = MapZone(@)]]

(* No false alarm: a round trip within the vendor never fails, so a review  *)
(* is asked for only when an item says why.                                 *)
NoFalseAlarm ==
    pass = "reviewed" /\ Statuses \subseteq {"converted", "info"} => verdict = "ready"
=============================================================================
