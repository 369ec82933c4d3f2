---------------------------- MODULE MCTranslation ---------------------------
(* TLC instances of Translation.  Each parser has rules of its own: an ASA  *)
(* has one zone, one reference and one service in a rule, literals and      *)
(* interface references; PAN-OS and FortiGate have lists and both zones;    *)
(* Check Point has lists and no zones.                                      *)
EXTENDS Translation, TLC

SomeHosts == {"h1", "h2"}
SomeZones == {"in", "dmz"}
SomeFlows == {"web", "webfrom20", "dnstcp", "dnsudp", "ping", "sctp1", "sctp2", "gre"}
SomeTcp == {"web", "webfrom20", "dnstcp"}
SomeSctp == {"sctp1", "sctp2"}
SomeNames == {"n1", "n2", "n 3"}
SomeTidy == {"n1", "n2"}
SwapZones == [z \in SomeZones |-> IF z = "in" THEN "dmz" ELSE "in"]

(* An IPv6 host, as ASA reads it in a rule, and prefixes.                   *)
Form6(len, hosts) == [len |-> len, addr |-> "h1", hosts |-> hosts, slash32 |-> SomeHosts]
Slash32 == Form6("32", SomeHosts)
AsaHost6 == Form6("32", {"h1"})
Slash128 == Form6("128", {"h1"})
Slash48 == Form6("other", {"h1"})
Span6 == Form6("range", {"h1"})
Name6 == Form6("name", {"h1"})
SomePrefixes6 == {Slash32, AsaHost6, Slash128, Slash48, Span6, Name6}

Ref6(kind, hosts, six) == [kind |-> kind, hosts |-> hosts, six |-> six]
Ref(kind, hosts) == Ref6(kind, hosts, {})
Host1 == Ref("object", {"h1"})
Host2 == Ref("cidr", {"h2"})
Span == Ref("range", {"h1", "h2"})
Iface == Ref("interface", {"h2"})
Lost == Ref("unknown", {"h2"})
Fqdn == Ref6("fqdn", {"h2"}, {Name6})
Group6 == Ref6("group", {"h2"}, {Slash48, Slash128})
Cidrs6 == {Ref6("cidr", {}, {p}) : p \in {Slash32, Slash128, Slash48}}
Objects6 == {Ref6("object", {}, {p}) : p \in {Slash128, Slash48}}

Svc(kind, proto, port, flows) ==
    [kind |-> kind, proto |-> proto, port |-> port, flows |-> flows, anysrc |-> flows]
Web == Svc("object", "tcp", TRUE, {"web", "webfrom20"})
From20 == [Web EXCEPT !.flows = {"webfrom20"}]
Dns == Svc("object", "tcp-udp", TRUE, {"dnstcp", "dnsudp"})
Ping == Svc("object", "icmp", FALSE, {"ping"})
Sctp1 == Svc("object", "sctp", TRUE, {"sctp1"})
Odd == Svc("unknown", "other", FALSE, {"gre"})
WebLit == Svc("literal", "tcp", TRUE, {"web", "webfrom20"})
TcpLit == Svc("literal", "tcp", FALSE, SomeTcp)
SctpLit == Svc("literal", "sctp", TRUE, {"sctp1"})
GreLit == Svc("literal", "other", FALSE, {"gre"})
PingLit == Svc("literal", "icmp", FALSE, {"ping"})
DnsGroup == Svc("group", "tcp-udp", TRUE, {"dnstcp", "dnsudp"})

RuleSet(froms, tos, srcs, dsts, svcs, flags) ==
    {[name |-> "n1", from |-> f, to |-> t, src |-> s, dst |-> d, services |-> v,
      action |-> g[1], enabled |-> g[2], apps |-> g[3], urls |-> FALSE] :
        f \in froms, t \in tos, s \in srcs, d \in dsts, v \in svcs, g \in flags}

On == {<<"allow", TRUE, FALSE>>, <<"deny", TRUE, FALSE>>}
Flags == On \union {<<"allow", FALSE, FALSE>>, <<"allow", TRUE, TRUE>>}
Allow == {<<"allow", TRUE, FALSE>>}
Each(S) == {{x} : x \in S}

AsaRules ==
    RuleSet({<<>>, <<"in">>}, {{}}, {{}, {Host1}, {Iface}, {Lost}}, {{}},
            {{}, {WebLit}, {TcpLit}, {GreLit}, {PingLit}, {Odd}, {DnsGroup}, {Dns}, {From20}}, On)
    \union RuleSet({<<>>}, {{"dmz"}}, {{}}, {{Host2}}, {{WebLit}}, Flags)
    \union RuleSet({<<>>}, {{}}, {{}}, {{Ref6("cidr", {}, {AsaHost6})}, {Fqdn}, {Group6}}, {{SctpLit}}, Allow)

PanRules ==
    RuleSet({<<>>, <<"in">>, <<"in", "dmz">>}, {{}, {"dmz"}}, {{}, {Host1}, {Host1, Lost}}, {{}},
            {{}, {Web}, {Odd, Web}}, On)
    \union RuleSet({<<"in">>}, {{}}, {{Host1, Span}, {Host1, Host2}}, {{Host2}, {Span}, {Lost}}, {{Web}}, Flags)
    \union RuleSet({<<>>}, {{}}, Each(Cidrs6 \union Objects6 \union {Fqdn, Ref6("range", {}, {Span6})}), {{}}, {{From20}}, Allow)

FortiRules ==
    RuleSet({<<>>, <<"in">>}, {{}, {"dmz"}}, {{}, {Host1}, {Lost}}, {{}},
            {{}, {Web}, {Dns}, {Web, Ping}, {Sctp1}}, On)
    \union RuleSet({<<>>}, {{}}, Each(Objects6 \union {Fqdn, Group6}), {{}}, {{}}, Allow)

CheckRules ==
    RuleSet({<<>>}, {{}}, {{}, {Host1}, {Host1, Ref("object", {"h2"})}, {Lost, Host1}}, {{}, {Host1}},
            {{}, {Web}, {From20}, {Odd}, {Web, Ping}}, On)

RulesFrom(v) ==
    CASE v = "asa" -> AsaRules [] v = "panos" -> PanRules
      [] v = "fortigate" -> FortiRules [] v = "checkpoint" -> CheckRules

(* A list of two rules over the simpler ones, and one rule of any kind.     *)
Simple(v) == {rule \in RulesFrom(v) : rule.dst = {} /\ rule.services \in {{}, {Web}, {WebLit}}
                                       /\ rule.src \in {{}, {Host1}}}

(* Check Point rules may share a name; two lists of two references.         *)
Named == [name : SomeNames, from : {<<>>}, to : {{}}, services : {{}}, action : {"allow", "deny"},
          src : {{Host1, Ref("object", {"h2"})}, {Host1, Ref("group", {"h1"})}},
          dst : {{}, {Host1, Ref("object", {"h2"})}}, enabled : {TRUE}, apps : {FALSE}, urls : {FALSE}]

SomePolicies(v) ==
    {<<rule>> : rule \in RulesFrom(v)} \union (Simple(v) \X Simple(v))
    \union (IF v = "checkpoint" THEN Named \X Named ELSE {})

(* Rules as they are found in many an ASA: a tcp-udp service group.         *)
GroupPolicies(v) == {<<rule>> : rule \in {r \in AsaRules : r.services = {DnsGroup}}}
=============================================================================
