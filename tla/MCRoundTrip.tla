---------------------------- MODULE MCRoundTrip -----------------------------
(* TLC instance of RoundTrip: the lines of small captures, by the part of a *)
(* configuration they belong to.  The mapping swaps two zones and two       *)
(* interfaces.                                                               *)
EXTENDS RoundTrip

SomeHosts4 == {"a", "b", "c"}
SomeHosts6 == {"c", "x", "y"}
SomeHosts == SomeHosts4 \union SomeHosts6
SomeCovers ==
    [l \in {"a", "b", "x", "y", "net", "fqdn", "2001::/48", "2002::/32"} |->
        CASE l = "net" -> {"a", "b"} [] l = "fqdn" -> {"a", "x"} [] l = "2001::/48" -> {"x", "y"}
          [] l = "2002::/32" -> {"c", "y"} [] OTHER -> {l}]
SomeLiterals == DOMAIN SomeCovers
SomePrefixes6 == {"2001::/48", "2002::/32"}
SomeHostPart(p) == IF p = "2001::/48" THEN "x" ELSE "y"
Flow(proto, sport, port) == [proto |-> proto, sport |-> sport, port |-> port]
SomeFlows ==
    {Flow(p, s, d) : p \in {"tcp", "udp"}, s \in {"53", "99"}, d \in {"53", "80"}}
    \union {Flow("icmp", "", "echo"), Flow("icmp", "", "reply"), Flow("gre", "", "")}

Swap(v, p, q) == IF v = p THEN q ELSE IF v = q THEN p ELSE v
SomeZone(z) == Swap(z, "in", "dmz")
SomeIface(i) == Swap(i, "G0", "G1")
SomeAcl(z) == z \o "_in"
SomeHelper(r) == "RF-" \o r
SomeLevel(z) == IF z = "out" THEN "0" ELSE "100"
SomeShape(i) == CASE i = "G0.7" -> "subif" [] i = "Po1" -> "aggregate" [] i = "BVI1" -> "bridge" [] OTHER -> "physical"

Top(k) == [k |-> k, in |-> FALSE]
Sub(k) == [k |-> k, in |-> TRUE]
SubV(k, v) == Sub(k) @@ [v |-> v]
Marker(n) == Top("marker") @@ [name |-> n]

Object(n, body) == <<Top("object") @@ [name |-> n]>> \o body
Value(v, ok) == SubV("value", v) @@ [ok |-> ok, fam |-> ""]
Fqdn(fam) == SubV("value", "fqdn") @@ [ok |-> TRUE, fam |-> fam]
NetGroup(n, body) == <<Top("object-group") @@ [of |-> "network", name |-> n]>> \o body
SvcGroup(n, proto, body) == <<Top("object-group") @@ [of |-> "service", name |-> n, proto |-> proto]>> \o body
Eq(p) == [op |-> "eq", v |-> p]
Op(op, v) == [op |-> op, v |-> v]
Spec1(proto, s, d) == Sub("spec") @@ [proto |-> proto, sport |-> s, dport |-> d]
Service(n, proto, s, d) == <<Top("service") @@ [name |-> n], Spec1(proto, s, d)>>
PortObject(d) == Sub("port-object") @@ [dport |-> d]
ServiceObject(proto, s, d) == Sub("service-object") @@ [proto |-> proto, sport |-> s, dport |-> d]

Anyone == [form |-> "any", v |-> "any"]
Family(n) == [form |-> n, v |-> "any"]
Host(v) == [form |-> "host", v |-> v]
Obj(v) == [form |-> "object", v |-> v]
Ace(acl, action, proto, obj, src, sport, dst, dport, tail) ==
    Top("ace") @@ [acl |-> acl, action |-> action, proto |-> proto, obj |-> obj, src |-> src,
                   sport |-> sport, dst |-> dst, dport |-> dport, tail |-> tail]
Web(acl, action, src, dst) == Ace(acl, action, "tcp", "", src, NoClause, dst, Eq("80"), {})
Tcp(sport, dport, tail) == Ace("A", "permit", "tcp", "", Host("a"), sport, Anyone, dport, tail)
Group(acl, dir, iface) == Top("access-group") @@ [acl |-> acl, dir |-> dir, iface |-> iface]

Basics ==
    Object("O", <<Value("a", TRUE)>>) \o Object("P", <<Value("b", TRUE)>>)
    \o NetGroup("G", <<SubV("network-object", "O"), SubV("network-object", "b")>>)
    \o SvcGroup("S", "tcp", <<PortObject(Eq("80"))>>)

(* Access lists, their remarks and their bindings in any order.             *)
Aces ==
    {Web("A", "permit", Obj("O"), Obj("G")), Web("A", "deny", Host("net"), Anyone), Web("B", "deny", Anyone, Host("b")),
     Tcp(NoClause, NoClause, {"inactive", "log"}), Tcp(Eq("53"), NoClause, {}), Tcp(NoClause, Op("neq", "80"), {}),
     Tcp(NoClause, Op("group", "S"), {}), Tcp(Op("group", "S"), NoClause, {}), Tcp(NoClause, NoClause, {"time-range"}),
     Ace("A", "permit", "icmp", "", Anyone, NoClause, Anyone, Op("type", "echo"), {}),
     Ace("A", "permit", "", "S", Anyone, NoClause, Obj("O"), NoClause, {}),
     Ace("B", "permit", "ip", "", Obj("nowhere"), NoClause, Anyone, NoClause, {}),
     Web("A", "deny", Family("any6"), Family("any4")), Web("A", "deny", Host("x"), Host("2002::/32")),
     Web("B", "deny", Host("2001::/48"), Anyone),
     Ace("A", "permit", "ospf", "", Anyone, NoClause, Anyone, NoClause, {}),
     Ace("A", "standard", "ip", "", Anyone, NoClause, [form |-> "none", v |-> ""], NoClause, {})}
Bindings == {Group("A", "in", "in"), Group("A", "out", "out"), Group("A", "global", ""), Group("B", "in", "out")}
Policies ==
    LET parts == Aces \union Bindings \union {Top("remark") @@ [acl |-> "A"]}
    IN {Basics \o <<l, m, n>> : l \in parts, m \in Aces \union {Group("A", "in", "in")}, n \in Bindings}
       \union {Basics \o <<n, l, m, o>> : l \in Aces, m \in Aces, n \in Bindings, o \in Bindings}

(* Translations, with what they refer to.                                   *)
ObjectNat(n, mode, to, svc) ==
    Object(n, <<Sub("onat") @@ [from |-> "in", onto |-> "out", mode |-> mode, to |-> to, svc |-> svc]>>)
ManualWith(words, mode, mapped, dst, svc, active) ==
    <<Top("nat") @@ [source |-> TRUE, from |-> "in", onto |-> "dmz", mode |-> mode, osrc |-> "O", words |-> words,
                     mapped |-> mapped, dst |-> dst, svc |-> svc, active |-> active]>>
Manual(mode, mapped, dst, svc, active) == ManualWith({}, mode, mapped, dst, svc, active)
NatLines ==
    {ObjectNat("O", "static", <<"P">>, <<>>), ObjectNat("O", "static", <<"b">>, <<>>),
     ObjectNat("O", "static", <<"P">>, <<"tcp", "80", "53">>), ObjectNat("G", "dynamic", <<"interface">>, <<>>),
     ObjectNat("O", "dynamic", <<"pat-pool", "P">>, <<>>), ObjectNat("O", "other", <<>>, <<>>),
     ObjectNat("O", "dynamic", <<"P", "interface">>, <<>>),
     Manual("static", <<"O">>, <<"P", "G">>, <<>>, TRUE), Manual("static", <<"P">>, <<>>, <<>>, FALSE),
     Manual("static", <<"P">>, <<"P", "O">>, <<"T", "T">>, TRUE), Manual("static", <<>>, <<>>, <<>>, TRUE),
     Manual("dynamic", <<"interface">>, <<>>, <<>>, TRUE), Manual("dynamic", <<"P">>, <<>>, <<>>, TRUE),
     Manual("dynamic", <<"P">>, <<"P", "O">>, <<>>, TRUE), Manual("dynamic", <<"pat-pool", "P">>, <<>>, <<>>, TRUE),
     ManualWith({"unidirectional"}, "static", <<"P">>, <<"P", "G">>, <<>>, TRUE),
     ManualWith({"after-auto"}, "dynamic", <<"P">>, <<>>, <<>>, TRUE), ObjectNat("P", "static", <<"O">>, <<>>),
     <<Top("nat") @@ [source |-> FALSE]>>}
Translations ==
    {Basics \o Service("T", "tcp", NoClause, Eq("80")) \o l \o m : l \in NatLines, m \in NatLines}

(* Objects, groups and services.                                            *)
Definitions ==
    {Object("P", <<Fqdn("v6")>>), Object("P", <<Fqdn("v4")>>), Object("O", <<Fqdn("")>>),
     NetGroup("G", <<SubV("network-object", "2001::/48"), SubV("network-object", "2002::/32")>>),
     Object("O", <<Value("net", TRUE)>>), Object("O", <<Value("b", FALSE)>>), Object("P", <<>>),
     <<Top("name") @@ [name |-> "P", v |-> "b"]>>,
     NetGroup("G", <<SubV("network-object", "O"), Top("blank"), SubV("network-object", "b")>>),
     NetGroup("G", <<SubV("network-object", "net")>>),
     NetGroup("H", <<SubV("group-object", "G"), SubV("network-object", "P")>>),
     Service("T", "tcp", Eq("53"), Eq("80")), Service("T", "tcp-udp", NoClause, Eq("53")),
     Service("T", "icmp", NoClause, NoClause), Service("U", "tcp", NoClause, Op("neq", "80")),
     <<Top("service") @@ [name |-> "U"]>>,
     SvcGroup("S", "tcp-udp", <<PortObject(Eq("53"))>>), SvcGroup("S", "", <<SubV("svc-object", "T")>>),
     SvcGroup("S", "", <<ServiceObject("udp", NoClause, Eq("53")), ServiceObject("gre", NoClause, NoClause)>>),
     SvcGroup("S", "", <<ServiceObject("tcp", Eq("53"), NoClause), ServiceObject("ospf", NoClause, NoClause)>>),
     SvcGroup("V", "", <<SubV("group-object", "S")>>),
     <<Top("object-group") @@ [of |-> "protocol", name |-> "Q"], Sub("protocol-object")>>,
     <<Top("object-group") @@ [of |-> "user", name |-> "Q"], Sub("user-object")>>}
Objects == {t \in {d \o e \o f : d \in Definitions, e \in Definitions, f \in Definitions} : Running(t)}

(* Interfaces, routes, features and contexts.                               *)
Iface(n, body) == <<Top("interface") @@ [name |-> n]>> \o body
Ip(v, ok) == SubV("ip", v) @@ [ok |-> ok]
Route(iface, ok, metric) ==
    <<Top("route") @@ [iface |-> iface, dest |-> "net", gw |-> "a", metric |-> metric, ok |-> ok]>>
Settings ==
    {Iface("G0", <<SubV("nameif", "in"), SubV("security-level", "70"), Ip("a", TRUE)>>),
     Iface("G1", <<SubV("nameif", "dmz"), Ip("b", FALSE), Sub("shutdown")>>),
     Iface("G0.7", <<SubV("vlan", "7"), SubV("nameif", "out"), Ip("b", TRUE), Top("blank"), Sub("ospf")>>),
     Iface("G2", <<SubV("channel-group", "Po1")>>), Iface("G4", <<SubV("channel-group", "Po1")>>),
     Iface("Po1", <<SubV("nameif", "in"), Ip("b", TRUE)>>),
     Iface("G3", <<SubV("bridge-group", "BVI1")>>), Iface("G1", <<SubV("bridge-group", "BVI2")>>),
     <<Top("mtu") @@ [iface |-> "in", v |-> "1400"]>>,
     Route("in", TRUE, 0), Route("out", TRUE, 5), Route("in", FALSE, 1),
     <<Top("feature") @@ [block |-> TRUE], Sub("anything")>>, <<Top("feature") @@ [block |-> FALSE], Sub("anything")>>,
     <<Top("blank"), Top("comment")>>, <<Marker("c1")>>, <<Marker("c2")>>}
Devices == {d \o e \o f : d \in Settings, e \in Settings, f \in Settings}

SomeCaptures == Policies \union Translations \union Objects \union Devices
=============================================================================
