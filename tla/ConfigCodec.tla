----------------------------- MODULE ConfigCodec ----------------------------
(***************************************************************************)
(* The configuration of a network and its TOML document:                   *)
(* src/network-config.ts and src/toml-codec.ts.  A document is a record of *)
(* the keys it may have.  Fields that are treated alike stand for one      *)
(* another: `plain' for the flags written as they are, `inverse' for those *)
(* written the other way round, `method' for what is not written at all.   *)
(***************************************************************************)
EXTENDS Naturals, FiniteSets

CONSTANTS
    Ids,        \* instance ids
    Absent      \* no value: a key that is not in the document

Tri == {"null", "true", "false"}

\* The text of a field that is not filled in.
Empty == ""

MaxPort == 65535

\* Config.id, .net and so on: instance_id, network_name, dhcp,
\* virtual_ipv4, network_length, listener_urls, enable_manual_routes,
\* routes, enable_socks5, socks5_port, network_secret, enable_vpn_portal and
\* its address, enable_relay_network_whitelist and the list, dev_name.
Domains ==
    [net |-> {"easytier", "office", Empty}, secret |-> {Empty, "key"},
     dhcp |-> BOOLEAN, ip |-> {Empty, "addr"}, length |-> {24, 16},
     listen |-> {"default", "auto", "own", "none"},
     manual |-> BOOLEAN, routes |-> {Empty, "cidr"},
     socks |-> Tri, port |-> {1080, 0},
     vpn |-> BOOLEAN, client |-> {Empty, "addr"},
     plain |-> Tri, inverse |-> Tri,
     listed |-> Tri, list |-> {Empty, "nets"},
     dev |-> {Absent, <<"own">>}, method |-> {0, 1}]

\* What is undefined is told from every value a field or a key may have.
ASSUME CodecAssumption ==
    /\ Absent \notin Ids /\ Absent # <<"own">> /\ \A i \in Ids : Absent # <<"et", i>>
    /\ \A f \in DOMAIN Domains \ {"dev"} : Absent \notin Domains[f]
    /\ \A ip \in Domains.ip, length \in Domains.length : Absent # <<ip, length>>

listenersForInstance(first) == IF first THEN "default" ELSE "auto"

defaultConfig(id) ==
    [id |-> id, net |-> "easytier", secret |-> Empty, dhcp |-> TRUE, ip |-> Empty,
     length |-> 24, listen |-> listenersForInstance(TRUE), manual |-> FALSE,
     routes |-> Empty, socks |-> "null", port |-> 1080, vpn |-> FALSE, client |-> Empty,
     plain |-> "null", inverse |-> "null", listed |-> "null", list |-> Empty,
     dev |-> Absent, method |-> 1]

validateConfig(c) ==
    /\ c.net # Empty
    /\ ~c.dhcp => c.ip # Empty
    /\ c.vpn => c.client # Empty
    /\ c.socks = "true" => c.port \in 1..MaxPort

Opposite(t) == CASE t = "true" -> "false" [] t = "false" -> "true" [] OTHER -> t

Unless(gone, value) == IF gone THEN Absent ELSE value

\* The device's name in a document, made from the instance id when it is not
\* given.
DevName(c) == IF c.dev = Absent THEN <<"et", c.id>> ELSE c.dev

flagsOf(c) ==
    [plain |-> Unless(c.plain = "null", c.plain),
     inverse |-> Unless(c.inverse = "null", Opposite(c.inverse)),
     list |-> Unless(c.listed # "true" \/ c.list = Empty, c.list),
     dev |-> DevName(c)]

\* Mutant: the address is written though the network uses DHCP.
encodeAddress(c, forExport) ==
    [id |-> Unless(forExport, c.id), net |-> Unless(c.net = Empty, c.net),
     secret |-> Unless(c.secret = Empty, c.secret), dhcp |-> c.dhcp,
     ipv4 |-> Unless(c.ip = Empty, <<c.ip, c.length>>),
     listen |-> Unless(c.listen = "none", c.listen),
     routes |-> Unless(~c.manual \/ c.routes = Empty, c.routes),
     socks |-> Unless(c.socks # "true", c.port),
     vpn |-> Unless(~c.vpn, c.client),
     flags |-> flagsOf(c)]

encodeTOML(c, forExport) ==
    [id |-> Unless(forExport, c.id), net |-> Unless(c.net = Empty, c.net),
     secret |-> Unless(c.secret = Empty, c.secret), dhcp |-> c.dhcp,
     ipv4 |-> Unless(c.dhcp \/ c.ip = Empty, <<c.ip, c.length>>),
     listen |-> Unless(c.listen = "none", c.listen),
     routes |-> Unless(~c.manual \/ c.routes = Empty, c.routes),
     socks |-> Unless(c.socks # "true", c.port),
     vpn |-> Unless(~c.vpn, c.client),
     flags |-> flagsOf(c)]

\* Mutant: a key that is absent leaves the field without a value.
ElseRaw(value, default) == value

Else(value, default) == IF value = Absent THEN default ELSE value

\* What can be decoded: a prefix that is no number is refused.
Decodable(d) == d.ipv4 # Absent => d.ipv4[2] # Absent

\* A key that is absent has its default value, an address switches DHCP off,
\* and an id that is absent is a random one.
decodeTOML(d, random) ==
    LET c == defaultConfig(Else(d.id, random)) IN
    [id |-> c.id, net |-> Else(d.net, c.net), secret |-> Else(d.secret, c.secret),
     dhcp |-> IF d.ipv4 # Absent THEN FALSE ELSE Else(d.dhcp, TRUE),
     ip |-> IF d.ipv4 = Absent THEN c.ip ELSE d.ipv4[1],
     length |-> IF d.ipv4 = Absent THEN c.length ELSE d.ipv4[2],
     listen |-> Else(d.listen, c.listen),
     manual |-> d.routes # Absent, routes |-> Else(d.routes, c.routes),
     socks |-> IF d.socks = Absent THEN c.socks ELSE "true", port |-> Else(d.socks, c.port),
     vpn |-> d.vpn # Absent, client |-> Else(d.vpn, c.client),
     plain |-> Else(d.flags.plain, c.plain),
     inverse |-> Opposite(Else(d.flags.inverse, c.inverse)),
     listed |-> IF d.flags.list = Absent THEN c.listed ELSE "true",
     list |-> Else(d.flags.list, c.list),
     dev |-> d.flags.dev, method |-> c.method]

IsConfig(c) ==
    /\ DOMAIN c = DOMAIN Domains \cup {"id"} /\ c.id \in Ids
    /\ \A f \in DOMAIN Domains : c[f] \in Domains[f] \/ (f = "dev" /\ c.dev \in {"et"} \X Ids)
=============================================================================
