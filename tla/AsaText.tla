------------------------------- MODULE AsaText ------------------------------
(***************************************************************************)
(* The parser of Cisco ASA and FTD configurations (src/parse/asa.go).  A    *)
(* line is a record that says what its words mean: k is the command, "in"   *)
(* whether it is indented.  The parser walks over the lines of one context; *)
(* a header takes the indented lines that follow it.  Some lines leave      *)
(* something for later ones (remarks, bindings, members of a bundle), which *)
(* only the end of the text settles.                                        *)
(***************************************************************************)
EXTENDS Integers, Sequences, SequencesExt, FiniteSetsExt, TLC

CONSTANTS
    Captures,   \* the uploaded files, as sequences of lines
    Literals,   \* addresses, prefixes and ranges of addresses, FQDNs
    Shape(_),   \* the kind of an interface, by the prefix of its name
    Unknown     \* a reference that is no name and no address

VARIABLES
    text, at,   \* the lines of the context, and the one to read next
    x,          \* the context, as far as it is read
    remark,     \* access list -> its pending remark
    bind,       \* access list -> where an access-group has bound it
    joins       \* the bridge-group and channel-group lines so far

locals == <<remark, bind, joins>>
asaVars == <<text, at, x, remark, bind, joins>>

NoLevel == ""   \* a security-level below zero: none was given
Empty == [ifs |-> <<>>, nets |-> <<>>, svcs |-> <<>>, netGroups |-> <<>>, svcGroups |-> <<>>,
          rules |-> <<>>, nats |-> <<>>, routes |-> <<>>, captured |-> {}, unparsed |-> {}]

-----------------------------------------------------------------------------
(* What of a sequence is at the places T, and what passes a test, in order. *)
Those(s, T) ==
    LET kept[n \in 0..Len(s)] ==
            IF n = 0 THEN <<>> ELSE IF n \in T THEN Append(kept[n - 1], s[n]) ELSE kept[n - 1]
    IN kept[Len(s)]
Select(s, Test(_)) == Those(s, {n \in DOMAIN s : Test(s[n])})

IsList(s) == s \in Seq(ToSet(s))
ASSUME TextAssumption == \A file \in Captures : IsList(file)

-----------------------------------------------------------------------------
(* Contexts: a line belongs to the context of the last marker before it.    *)
Context(file, i) ==
    LET markers == {j \in 1..i : file[j].k = "marker"}
    IN IF markers = {} THEN "" ELSE file[Max(markers)].name

Blank(line) == line.k \in {"blank", "marker"}

(* A context without a line that says something is none, unless the file    *)
(* has no marker at all.                                                     *)
ContextsOf(file) ==
    IF \A i \in DOMAIN file : file[i].k # "marker" THEN {""}
    ELSE {Context(file, i) : i \in {j \in DOMAIN file : ~Blank(file[j])}}

(* Segments of the same name are one context.                               *)
TextOf(file, name) ==
    Those(file, {i \in DOMAIN file : file[i].k # "marker" /\ Context(file, i) = name})

-----------------------------------------------------------------------------
(* The lines below the header i, to the first one that is neither indented  *)
(* nor blank.                                                                *)
End(t, i) == Min({j \in (i + 1)..(Len(t) + 1) : j > Len(t) \/ ~(t[j].in \/ Blank(t[j]))})
Body(t, i) == Select(SubSeq(t, i + 1, End(t, i) - 1), LAMBDA l : ~Blank(l))

Only(body, kind) == Select(body, LAMBDA l : l.k = kind)
Understood(nats) == Select(nats, LAMBDA l : l.mode # "other")
Joining(body) == Select(body, LAMBDA l : l.k \in {"bridge-group", "channel-group"})
LastOf(lines, default) == IF lines = <<>> THEN default ELSE Last(lines).v
Values(lines) == [j \in DOMAIN lines |-> lines[j].v]
Readable(lines) == Select(lines, LAMBDA l : l.ok)

Is(kind) == at <= Len(text) /\ text[at].k = kind
Line == text[at]
Block == Body(text, at)

ReadLine == at' = at + 1 /\ UNCHANGED text
ReadBlock == at' = End(text, at) /\ UNCHANGED text

-----------------------------------------------------------------------------
(* Two bundles: bridge-group n is a member of BVIn, channel-group n of      *)
(* Port-channeln.                                                            *)
InterfaceOf(name, body) ==
    LET vlans == Only(body, "vlan") IN
    [line |-> at, name |-> name,
     kind |-> IF Shape(name) = "physical" /\ vlans # <<>> THEN "subif" ELSE Shape(name),
     alias |-> LastOf(Only(body, "nameif"), ""), vlan |-> LastOf(vlans, ""),
     sec |-> LastOf(Only(body, "security-level"), NoLevel),
     ips |-> Values(Readable(Only(body, "ip"))),
     shutdown |-> Only(body, "shutdown") # <<>>, mtu |-> "", members |-> <<>>]

JoinsOf(name, lines) == [j \in DOMAIN lines |-> [k |-> lines[j].k, bundle |-> lines[j].v, member |-> name]]

ParseInterface ==
    /\ Is("interface") /\ ReadBlock
    /\ x' = [x EXCEPT !.ifs = Append(@, InterfaceOf(Line.name, Block))]
    /\ joins' = joins \o JoinsOf(Line.name, Joining(Block))
    /\ UNCHANGED <<remark, bind>>

(* A service as the rules and groups name it: none (any), a protocol and a  *)
(* port, "" for any port, or the name of an object or group.                *)
SvcLiteral(proto, port) == IF proto = "ip" THEN <<>> ELSE <<proto, port>>

ObjectNatKind(l) ==
    IF l.mode = "static" THEN "static"
    ELSE IF l.to[1] \in {"interface", "pat-pool"} THEN "pat" ELSE "dynamic"

ParseObjectNAT(name, l) ==
    [line |-> at, in |-> l.from, out |-> l.onto, kind |-> ObjectNatKind(l), osrc |-> name,
     tsrc |-> IF l.mode = "dynamic" /\ l.to[1] = "pat-pool" THEN l.to[2] ELSE l.to[1],
     odst |-> "", tdst |-> "",
     osvc |-> IF l.svc = <<>> THEN <<>> ELSE SvcLiteral(l.svc[1], l.svc[2]),
     tsvc |-> IF l.svc = <<>> THEN <<>> ELSE SvcLiteral(l.svc[1], l.svc[3]), enabled |-> TRUE]

(* The object is kept when one of its lines could be read; the translations *)
(* of its block are kept in any case.                                        *)
ParseObjectNetwork ==
    /\ Is("object") /\ ReadBlock
    /\ LET values == Readable(Only(Block, "value"))
           nats == Only(Block, "onat")
           good == Understood(nats)
       IN x' = [x EXCEPT !.nets = IF values = <<>> THEN @
                                  ELSE Append(@, [line |-> at, name |-> Line.name, value |-> Last(values).v]),
                         !.nats = @ \o [j \in DOMAIN good |-> ParseObjectNAT(Line.name, good[j])],
                         !.unparsed = IF good = nats THEN @ ELSE @ \union {at}]
    /\ UNCHANGED locals

(* neq cannot be said and becomes any port; gt, lt and range become ports.  *)
ParsePortSpec(c) == IF c.op \in {"eq", "range"} THEN c.v ELSE ""

ParseObjectService ==
    /\ Is("service") /\ ReadBlock
    /\ LET specs == Only(Block, "spec")
       IN x' = IF specs = <<>> THEN x
               ELSE [x EXCEPT !.svcs = Append(@,
                        [line |-> at, name |-> Line.name, proto |-> Last(specs).proto,
                         sport |-> ParsePortSpec(Last(specs).sport),
                         port |-> ParsePortSpec(Last(specs).dport)])]
    /\ UNCHANGED locals

(* Mutant: a group in a group is not read.                                  *)
ParseNetMembersFlat(body) == Values(Only(body, "network-object"))

(* A host or an object, a prefix, or a name that stands alone: a reference. *)
(* A prefix with a mask that is none is taken for a name.                   *)
ParseNetMembers(body) == Values(Select(body, LAMBDA l : l.k \in {"network-object", "group-object"}))

ParseSvcMember(proto, l) ==
    CASE l.k = "port-object" -> SvcLiteral(IF proto = "" THEN "tcp" ELSE proto, ParsePortSpec(l.dport))
      [] l.k = "service-object" -> SvcLiteral(l.proto, ParsePortSpec(l.dport))
      [] OTHER -> <<l.v>>

ParseSvcMembers(proto, body) ==
    LET lines == Select(body, LAMBDA l : l.k \in {"port-object", "service-object", "svc-object", "group-object"})
    IN [j \in DOMAIN lines |-> ParseSvcMember(proto, lines[j])]

ParseObjectGroup ==
    /\ Is("object-group") /\ ReadBlock
    /\ x' = CASE Line.of = "network" ->
                   [x EXCEPT !.netGroups = Append(@,
                       [line |-> at, name |-> Line.name, members |-> ParseNetMembers(Block)])]
              [] Line.of = "service" ->
                   [x EXCEPT !.svcGroups = Append(@,
                       [line |-> at, name |-> Line.name, members |-> ParseSvcMembers(Line.proto, Block)])]
              [] Line.of = "protocol" -> [x EXCEPT !.captured = @ \union {at}]
              [] OTHER -> [x EXCEPT !.unparsed = @ \union {at}]
    /\ UNCHANGED locals

(* name 10.1.1.5 dbserver                                                   *)
ParseName ==
    /\ Is("name") /\ ReadLine
    /\ x' = [x EXCEPT !.nets = Append(@, [line |-> at, name |-> Line.name, value |-> Line.v])]
    /\ UNCHANGED locals

-----------------------------------------------------------------------------
With(f, a, v) == [b \in DOMAIN f \union {a} |-> IF b = a THEN v ELSE f[b]]
Without(f, a) == [b \in DOMAIN f \ {a} |-> f[b]]

(* A second remark takes the place of the first.                            *)
ParseRemark ==
    /\ Is("remark") /\ ReadLine
    /\ remark' = With(remark, Line.acl, at)
    /\ UNCHANGED <<x, bind, joins>>

(* any4 and any6 become any; host NAME gives NAME/32, which nothing         *)
(* resolves; nomask: the generator's IPv6 prefix, whose "mask" is none.     *)
ParseAddr(c) ==
    CASE c.form = "host" -> IF c.v \in Literals THEN c.v ELSE Unknown
      [] c.form \in {"any4", "any6"} -> "any"
      [] c.form = "interface" -> Unknown
      [] OTHER -> c.v

(* An entry without an action or without a destination is refused.          *)
AceOk(l) == l.action \in {"permit", "deny"} /\ l.src.form # "none" /\ l.dst.form # "none"

(* Port clauses: the source's is dropped, an ICMP type is not looked at, and *)
(* a service group's name is not read: in the place of the source port it   *)
(* stands where the destination is expected, and what follows is skipped.   *)
(* So does a mask that is none, before the destination or before its port.  *)
ParseDst(l) ==
    IF l.sport.op = "group" THEN l.sport.v
    ELSE IF l.src.form = "nomask" THEN Unknown ELSE ParseAddr(l.dst)
ParseDport(l) ==
    IF l.sport.op = "group" \/ "nomask" \in {l.src.form, l.dst.form} THEN "" ELSE ParsePortSpec(l.dport)

ParseACL(l) ==
    [line |-> at, name |-> l.acl, action |-> IF l.action = "permit" THEN "allow" ELSE "deny",
     src |-> ParseAddr(l.src), dst |-> ParseDst(l),
     svc |-> IF l.obj # "" THEN <<l.obj>> ELSE SvcLiteral(l.proto, ParseDport(l)),
     log |-> "log" \in l.tail, enabled |-> "inactive" \notin l.tail,
     desc |-> IF l.acl \in DOMAIN remark THEN remark[l.acl] ELSE 0,
     from |-> <<>>, to |-> <<>>]

(* A refused entry leaves the remark to the next one of its list.           *)
ParseRule ==
    /\ Is("ace") /\ ReadLine
    /\ IF AceOk(Line)
       THEN /\ x' = [x EXCEPT !.rules = Append(@, ParseACL(Line))]
            /\ remark' = Without(remark, Line.acl)
       ELSE /\ x' = [x EXCEPT !.unparsed = @ \union {at}]
            /\ UNCHANGED remark
    /\ UNCHANGED <<bind, joins>>

(* The last binding of a list counts.                                       *)
ParseAccessGroup ==
    /\ Is("access-group") /\ ReadLine
    /\ bind' = With(bind, Line.acl, [dir |-> Line.dir, iface |-> Line.iface])
    /\ UNCHANGED <<x, remark, joins>>

(* nat (in,out) [after-auto] source static|dynamic A [B...] [destination    *)
(* static M R] [service S T] [unidirectional] [inactive]: of the mapped     *)
(* source only the first word is read, and M, the address as it is mapped,  *)
(* comes before R; l.words, after-auto and unidirectional, are skipped.     *)
ManualNatKind(l) ==
    IF l.mode = "dynamic"
    THEN IF l.mapped # <<>> /\ l.mapped[1] = "interface" THEN "pat" ELSE "dynamic"
    ELSE IF l.dst = <<>> THEN "static" ELSE "twice"

ParseManualNAT(l) ==
    [line |-> at, in |-> l.from, out |-> l.onto, kind |-> ManualNatKind(l), osrc |-> l.osrc,
     tsrc |-> IF l.mapped = <<>> THEN "" ELSE l.mapped[1],
     tdst |-> IF l.dst = <<>> THEN "" ELSE l.dst[1],
     odst |-> IF l.dst = <<>> THEN "" ELSE l.dst[2],
     osvc |-> IF l.svc = <<>> THEN <<>> ELSE <<l.svc[1]>>,
     tsvc |-> IF l.svc = <<>> THEN <<>> ELSE <<l.svc[2]>>, enabled |-> l.active]

ParseNAT ==
    /\ Is("nat") /\ ReadLine
    /\ x' = IF Line.source THEN [x EXCEPT !.nats = Append(@, ParseManualNAT(Line))]
            ELSE [x EXCEPT !.unparsed = @ \union {at}]
    /\ UNCHANGED locals

(* ok: the mask is one; "0 0" is not.                                       *)
ParseRoute ==
    /\ Is("route") /\ ReadLine
    /\ x' = IF Line.ok THEN [x EXCEPT !.routes = Append(@,
                [line |-> at, iface |-> Line.iface, dest |-> Line.dest, gw |-> Line.gw, metric |-> Line.metric])]
            ELSE [x EXCEPT !.unparsed = @ \union {at}]
    /\ UNCHANGED locals

(* Only the interfaces read before.                                         *)
ParseMTU ==
    /\ Is("mtu") /\ ReadLine
    /\ x' = [x EXCEPT !.ifs = [j \in DOMAIN @ |->
                 IF @[j].alias = Line.iface THEN [@[j] EXCEPT !.mtu = Line.v] ELSE @[j]]]
    /\ UNCHANGED locals

(* Features for the report; some have a block of their own and some do not. *)
Capture ==
    /\ Is("feature")
    /\ IF Line.block THEN ReadBlock ELSE ReadLine
    /\ x' = [x EXCEPT !.captured = @ \union {at}]
    /\ UNCHANGED locals

Commands == {"interface", "object", "service", "object-group", "name", "remark", "ace", "access-group",
             "nat", "route", "mtu", "feature"}

(* Everything else, also an indented line whose header has no block.        *)
ParseOther ==
    /\ at <= Len(text) /\ Line.k \notin Commands /\ ReadLine
    /\ x' = IF Blank(Line) THEN x ELSE [x EXCEPT !.unparsed = @ \union {at}]
    /\ UNCHANGED locals

-----------------------------------------------------------------------------
(* Mutant: a second member takes the place of the first.                    *)
MembersOfLast(b) ==
    LET lines == Select(joins, LAMBDA j : j.bundle = b)
    IN IF lines = <<>> THEN <<>> ELSE <<Last(lines).member>>

MembersOf(b) ==
    LET lines == Select(joins, LAMBDA j : j.bundle = b) IN [j \in DOMAIN lines |-> lines[j].member]

IsLastOf(ifs, j) == \A i \in (j + 1)..Len(ifs) : ifs[i].name # ifs[j].name

Attach(ifs) ==
    [j \in DOMAIN ifs |-> IF IsLastOf(ifs, j) THEN [ifs[j] EXCEPT !.members = @ \o MembersOf(ifs[j].name)]
                          ELSE ifs[j]]

NewBundle(b, kind) ==
    [line |-> 0, name |-> b, kind |-> kind, alias |-> "", vlan |-> "", sec |-> NoLevel, ips |-> <<>>,
     shutdown |-> FALSE, mtu |-> "", members |-> MembersOf(b)]

(* Bundles without an interface of their own, in the order of a Go map.     *)
Missing(ifs, k) == {j.bundle : j \in {i \in ToSet(joins) : i.k = k}} \ {ifs[j].name : j \in DOMAIN ifs}
NewBundles(ifs, k, kind) ==
    {[j \in DOMAIN order |-> NewBundle(order[j], kind)] : order \in SetToSeqs(Missing(ifs, k))}

(* Mutant: a list bound "out" gets both zones.                              *)
BoundBothWays(rule) ==
    IF rule.name \notin DOMAIN bind \/ bind[rule.name].dir = "global" THEN rule
    ELSE [rule EXCEPT !.to = <<bind[rule.name].iface>>, !.from = <<bind[rule.name].iface>>]

Bound(rule) ==
    IF rule.name \notin DOMAIN bind \/ bind[rule.name].dir = "global" THEN rule
    ELSE IF bind[rule.name].dir = "out" THEN [rule EXCEPT !.to = <<bind[rule.name].iface>>]
    ELSE [rule EXCEPT !.from = <<bind[rule.name].iface>>]

(* The end of the text: bundles and bindings.                               *)
Close ==
    /\ at = Len(text) + 1
    /\ \E bridges \in NewBundles(x.ifs, "bridge-group", "bridge"),
          channels \in NewBundles(x.ifs, "channel-group", "aggregate") :
          x' = [x EXCEPT !.ifs = Attach(@) \o bridges \o channels,
                         !.rules = [j \in DOMAIN @ |-> Bound(@[j])]]
    /\ at' = at + 1
    /\ UNCHANGED <<text, remark, bind, joins>>

Closed == at = Len(text) + 2

(* Context.Zones: one for each nameif.                                      *)
Zones(c) == LET named == Select(c.ifs, LAMBDA i : i.alias # "") IN [j \in DOMAIN named |-> named[j].alias]

Begin(t) ==
    /\ text = t /\ at = 1 /\ x = Empty
    /\ remark = <<>> /\ bind = <<>> /\ joins = <<>>

Parse ==
    \/ ParseInterface \/ ParseObjectNetwork \/ ParseObjectService \/ ParseObjectGroup \/ ParseName
    \/ ParseRemark \/ ParseRule \/ ParseAccessGroup \/ ParseNAT \/ ParseRoute \/ ParseMTU
    \/ Capture \/ ParseOther \/ Close
=============================================================================
