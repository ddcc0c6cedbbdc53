--------------------------- MODULE ConfigTab_proof ---------------------------
(***************************************************************************)
(* Proofs about the configurations of the networks: a document keeps the   *)
(* meaning of the configuration it was made from, no two networks ever     *)
(* have the same node id, and a draft is applied to the network whose text *)
(* was edited, for any set of ids and any ports that are taken.            *)
(*                                                                         *)
(* The sets of values that a field may have are named, and only the steps  *)
(* about one field expand them.                                            *)
(***************************************************************************)
EXTENDS ConfigTab, SequenceLemmas, FiniteSetTheorems

Devices == {Absent, <<"own">>} \cup ({"et"} \X Ids)
Nets == {"easytier", "office", Empty}
Secrets == {Empty, "key"}
Ips == {Empty, "addr"}
Lengths == {24, 16}
Listens == {"default", "auto", "own", "none"}
Routes == {Empty, "cidr"}
Ports == {1080, 0}
Lists == {Empty, "nets"}
Methods == {0, 1}

Configurations ==
    [id : Ids, net : Nets, secret : Secrets, dhcp : BOOLEAN, ip : Ips, length : Lengths,
     listen : Listens, manual : BOOLEAN, routes : Routes, socks : Tri, port : Ports,
     vpn : BOOLEAN, client : Ips, plain : Tri, inverse : Tri,
     listed : Tri, list : Lists, dev : Devices, method : Methods]

Addresses == {Absent} \cup (Ips \X (Lengths \cup {Absent}))

Flags ==
    [plain : Tri \cup {Absent}, inverse : Tri \cup {Absent}, list : Lists \cup {Absent},
     dev : Devices]

Documents ==
    [id : Ids \cup {Absent}, net : Nets \cup {Absent}, secret : Secrets \cup {Absent},
     dhcp : BOOLEAN, ipv4 : Addresses, listen : Listens \cup {Absent},
     routes : Routes \cup {Absent}, socks : Ports \cup {Absent}, vpn : Ips \cup {Absent},
     flags : Flags]

(***************************************************************************)
(* The codec.                                                              *)
(***************************************************************************)

\* No value of a field is taken for a key that is absent.
LEMMA ValuesArePresent ==
    /\ \A i \in Ids : i # Absent /\ <<"et", i>> # Absent
    /\ \A v \in Nets \cup Secrets \cup Listens \cup Routes \cup Ips \cup Lists : v # Absent
    /\ \A v \in Lengths \cup Ports : v # Absent
    /\ \A v \in Tri : v # Absent
    /\ \A ip \in Ips, length \in Lengths : <<ip, length>> # Absent
<1>1. \A i \in Ids : i # Absent /\ <<"et", i>> # Absent
  BY CodecAssumption
<1>2. \A f \in DOMAIN Domains \ {"dev"} : \A v \in Domains[f] : v # Absent
  BY CodecAssumption
<1>3. DOMAIN Domains = {"net", "secret", "dhcp", "ip", "length", "listen", "manual", "routes",
                        "socks", "port", "vpn", "client", "plain", "inverse", "listed", "list",
                        "dev", "method"}
  BY DEF Domains
<1>4. /\ \A v \in Domains.net \cup Domains.secret : v # Absent
      /\ \A v \in Domains.listen \cup Domains.routes : v # Absent
      /\ \A v \in Domains.ip \cup Domains.list : v # Absent
      /\ \A v \in Domains.length \cup Domains.port : v # Absent
      /\ \A v \in Domains.plain : v # Absent
  <2>1. \A f \in {"net", "secret", "listen", "routes", "ip", "list", "length", "port", "plain"} :
          \A v \in Domains[f] : v # Absent
    BY <1>2, <1>3
  <2> QED
    BY <2>1
<1>5. /\ Domains.net = Nets /\ Domains.secret = Secrets /\ Domains.listen = Listens
      /\ Domains.routes = Routes /\ Domains.ip = Ips /\ Domains.list = Lists
      /\ Domains.length = Lengths /\ Domains.port = Ports /\ Domains.plain = Tri
  BY DEF Domains, Nets, Secrets, Listens, Routes, Ips, Lists, Lengths, Ports
<1>6. \A ip \in Ips, length \in Lengths : <<ip, length>> # Absent
  BY <1>5, CodecAssumption
<1> QED
  BY <1>1, <1>4, <1>5, <1>6

LEMMA DefaultIsConfig ==
    ASSUME NEW n \in Ids
    PROVE  defaultConfig(n) \in Configurations /\ defaultConfig(n).id = n
<1>1. /\ "easytier" \in Nets /\ Empty \in Secrets /\ TRUE \in BOOLEAN /\ Empty \in Ips
      /\ 24 \in Lengths /\ listenersForInstance(TRUE) \in Listens /\ FALSE \in BOOLEAN
      /\ Empty \in Routes /\ "null" \in Tri /\ 1080 \in Ports /\ Empty \in Lists
      /\ Absent \in Devices /\ 1 \in Methods
  BY DEF Nets, Secrets, Ips, Lengths, Listens, Routes, Tri, Ports, Lists, Devices, Methods,
         listenersForInstance
<1> QED
  BY <1>1 DEF defaultConfig, Configurations

LEMMA ConfigFields ==
    ASSUME NEW c \in Configurations
    PROVE  /\ c.id \in Ids /\ c.net \in Nets /\ c.secret \in Secrets /\ c.dhcp \in BOOLEAN
           /\ c.ip \in Ips /\ c.length \in Lengths /\ c.listen \in Listens
           /\ c.manual \in BOOLEAN /\ c.routes \in Routes /\ c.socks \in Tri
           /\ c.port \in Ports /\ c.vpn \in BOOLEAN /\ c.client \in Ips /\ c.plain \in Tri
           /\ c.inverse \in Tri /\ c.listed \in Tri /\ c.list \in Lists
           /\ c.dev \in Devices /\ c.method \in Methods
BY DEF Configurations

LEMMA DocumentFields ==
    ASSUME NEW d \in Documents
    PROVE  /\ d.id \in Ids \cup {Absent} /\ d.net \in Nets \cup {Absent}
           /\ d.secret \in Secrets \cup {Absent} /\ d.dhcp \in BOOLEAN /\ d.ipv4 \in Addresses
           /\ d.listen \in Listens \cup {Absent} /\ d.routes \in Routes \cup {Absent}
           /\ d.socks \in Ports \cup {Absent} /\ d.vpn \in Ips \cup {Absent}
           /\ d.flags.plain \in Tri \cup {Absent} /\ d.flags.inverse \in Tri \cup {Absent}
           /\ d.flags.list \in Lists \cup {Absent} /\ d.flags.dev \in Devices
BY DEF Documents, Flags

\* Changes of one field.
LEMMA ConfigChanges ==
    ASSUME NEW c \in Configurations
    PROVE  /\ \A i \in Ids : [c EXCEPT !.id = i] \in Configurations
           /\ \A v \in Listens : [c EXCEPT !.listen = v] \in Configurations
           /\ \A v \in Devices : [c EXCEPT !.dev = v] \in Configurations
BY DEF Configurations

\* What the form may set a field to leaves a configuration, with its id.
LEMMA PatchIsConfig ==
    ASSUME NEW c \in Configurations, NEW f \in DOMAIN Domains, NEW v \in Domains[f]
    PROVE  [c EXCEPT ![f] = v] \in Configurations /\ [c EXCEPT ![f] = v].id = c.id
<1> DEFINE new == [c EXCEPT ![f] = v]
<1>1. f \in {"net", "secret", "dhcp", "ip", "length", "listen", "manual", "routes", "socks",
             "port", "vpn", "client", "plain", "inverse", "listed", "list", "dev", "method"}
  BY DEF Domains
<1>2. /\ Domains.net = Nets /\ Domains.secret = Secrets /\ Domains.dhcp = BOOLEAN
      /\ Domains.ip = Ips /\ Domains.length = Lengths /\ Domains.listen = Listens
      /\ Domains.manual = BOOLEAN /\ Domains.routes = Routes /\ Domains.socks = Tri
      /\ Domains.port = Ports /\ Domains.vpn = BOOLEAN /\ Domains.client = Ips
      /\ Domains.plain = Tri /\ Domains.inverse = Tri /\ Domains.listed = Tri
      /\ Domains.list = Lists /\ Domains.dev \subseteq Devices /\ Domains.method = Methods
  BY DEF Domains, Nets, Secrets, Listens, Routes, Ips, Lists, Lengths, Ports, Methods, Devices
<1>3. new.id = c.id
  BY <1>1 DEF Configurations
<1>4. CASE f \in {"net", "secret", "dhcp", "ip"}
  BY <1>2, <1>3, <1>4 DEF Configurations
<1>5. CASE f \in {"length", "listen", "manual", "routes"}
  BY <1>2, <1>3, <1>5 DEF Configurations
<1>6. CASE f \in {"socks", "port", "vpn", "client"}
  BY <1>2, <1>3, <1>6 DEF Configurations
<1>7. CASE f \in {"plain", "inverse", "listed", "list", "dev", "method"}
  BY <1>2, <1>3, <1>7 DEF Configurations
<1> QED
  BY <1>1, <1>4, <1>5, <1>6, <1>7

\* Every configuration has every field, with a value of its domain.
LEMMA ConfigurationIsConfig ==
    ASSUME NEW c \in Configurations
    PROVE  IsConfig(c)
<1>1. DOMAIN Domains = {"net", "secret", "dhcp", "ip", "length", "listen", "manual", "routes",
                        "socks", "port", "vpn", "client", "plain", "inverse", "listed", "list",
                        "dev", "method"}
  BY DEF Domains
<1>2. DOMAIN c = {"id", "net", "secret", "dhcp", "ip", "length", "listen", "manual", "routes",
                  "socks", "port", "vpn", "client", "plain", "inverse", "listed", "list",
                  "dev", "method"}
  BY DEF Configurations
<1>3. DOMAIN c = DOMAIN Domains \cup {"id"}
  BY <1>1, <1>2
<1>4. /\ Domains.net = Nets /\ Domains.secret = Secrets /\ Domains.dhcp = BOOLEAN
      /\ Domains.ip = Ips /\ Domains.length = Lengths /\ Domains.listen = Listens
      /\ Domains.manual = BOOLEAN /\ Domains.routes = Routes /\ Domains.socks = Tri
      /\ Domains.port = Ports /\ Domains.vpn = BOOLEAN /\ Domains.client = Ips
      /\ Domains.plain = Tri /\ Domains.inverse = Tri /\ Domains.listed = Tri
      /\ Domains.list = Lists /\ Domains.method = Methods
      /\ Domains.dev = {Absent, <<"own">>}
  BY DEF Domains, Nets, Secrets, Listens, Routes, Ips, Lists, Lengths, Ports, Methods
<1>5. \A f \in DOMAIN Domains \ {"dev"} : c[f] \in Domains[f]
  BY <1>1, <1>4, ConfigFields
<1>6. c.dev \in Domains.dev \/ c.dev \in {"et"} \X Ids
  BY <1>4, ConfigFields DEF Devices
<1> QED
  BY <1>3, <1>5, <1>6, ConfigFields DEF IsConfig

\* What is written for a configuration is a document that can be read again.
LEMMA EncodeIsDocument ==
    ASSUME NEW c \in Configurations, NEW out \in BOOLEAN
    PROVE  encodeTOML(c, out) \in Documents /\ Decodable(encodeTOML(c, out))
<1> DEFINE id == Unless(out, c.id)
           net == Unless(c.net = Empty, c.net)
           secret == Unless(c.secret = Empty, c.secret)
           ipv4 == Unless(c.dhcp \/ c.ip = Empty, <<c.ip, c.length>>)
           listen == Unless(c.listen = "none", c.listen)
           routes == Unless(~c.manual \/ c.routes = Empty, c.routes)
           socks == Unless(c.socks # "true", c.port)
           vpn == Unless(~c.vpn, c.client)
           flags == flagsOf(c)
<1>1. /\ id \in Ids \cup {Absent} /\ net \in Nets \cup {Absent}
      /\ secret \in Secrets \cup {Absent} /\ listen \in Listens \cup {Absent}
      /\ routes \in Routes \cup {Absent} /\ socks \in Ports \cup {Absent}
      /\ vpn \in Ips \cup {Absent} /\ c.dhcp \in BOOLEAN
  BY ConfigFields DEF Unless
<1>2. ipv4 \in Addresses /\ (ipv4 # Absent => ipv4[2] # Absent)
  BY ConfigFields, ValuesArePresent DEF Unless, Addresses
<1>3. flags \in Flags
  <2>1. /\ Unless(c.plain = "null", c.plain) \in Tri \cup {Absent}
        /\ Unless(c.listed # "true" \/ c.list = Empty, c.list) \in Lists \cup {Absent}
    BY ConfigFields DEF Unless
  <2>2. Unless(c.inverse = "null", Opposite(c.inverse)) \in Tri \cup {Absent}
    BY ConfigFields DEF Unless, Opposite, Tri
  <2>3. DevName(c) \in Devices
    BY ConfigFields DEF DevName, Devices
  <2> QED
    BY <2>1, <2>2, <2>3 DEF flagsOf, Flags
<1>4. encodeTOML(c, out) =
        [id |-> id, net |-> net, secret |-> secret, dhcp |-> c.dhcp, ipv4 |-> ipv4,
         listen |-> listen, routes |-> routes, socks |-> socks, vpn |-> vpn, flags |-> flags]
  BY DEF encodeTOML
<1> HIDE DEF id, net, secret, ipv4, listen, routes, socks, vpn, flags
<1> QED
  BY <1>1, <1>2, <1>3, <1>4 DEF Documents, Decodable

\* What is read from a document, whatever keys it lacks, is a configuration.
LEMMA DecodeIsConfig ==
    ASSUME NEW d \in Documents, Decodable(d), NEW random \in Ids
    PROVE  decodeTOML(d, random) \in Configurations
<1> DEFINE n == Else(d.id, random)
           c == defaultConfig(n)
<1>1. n \in Ids
  BY DocumentFields DEF Else
<1> HIDE DEF n
<1>2. c \in Configurations
  BY <1>1, DefaultIsConfig
<1> HIDE DEF c
<1>3. /\ Else(d.net, c.net) \in Nets /\ Else(d.secret, c.secret) \in Secrets
      /\ Else(d.dhcp, TRUE) \in BOOLEAN /\ Else(d.listen, c.listen) \in Listens
      /\ Else(d.routes, c.routes) \in Routes /\ Else(d.socks, c.port) \in Ports
      /\ Else(d.vpn, c.client) \in Ips /\ Else(d.flags.plain, c.plain) \in Tri
      /\ Else(d.flags.inverse, c.inverse) \in Tri /\ Else(d.flags.list, c.list) \in Lists
  BY <1>2, DocumentFields, ConfigFields DEF Else
<1>4. Opposite(Else(d.flags.inverse, c.inverse)) \in Tri /\ "true" \in Tri
  BY <1>3 DEF Opposite, Tri
<1>5. d.ipv4 # Absent => d.ipv4[1] \in Ips /\ d.ipv4[2] \in Lengths
  BY DocumentFields DEF Decodable, Addresses
<1> DEFINE dhcp == IF d.ipv4 # Absent THEN FALSE ELSE Else(d.dhcp, TRUE)
           ip == IF d.ipv4 = Absent THEN c.ip ELSE d.ipv4[1]
           length == IF d.ipv4 = Absent THEN c.length ELSE d.ipv4[2]
           manual == d.routes # Absent
           socks == IF d.socks = Absent THEN c.socks ELSE "true"
           vpn == d.vpn # Absent
           listed == IF d.flags.list = Absent THEN c.listed ELSE "true"
<1>6. /\ dhcp \in BOOLEAN /\ ip \in Ips /\ length \in Lengths /\ socks \in Tri
      /\ manual \in BOOLEAN /\ vpn \in BOOLEAN /\ listed \in Tri
  BY <1>2, <1>3, <1>4, <1>5, ConfigFields
<1>7. decodeTOML(d, random) =
        [id |-> c.id, net |-> Else(d.net, c.net), secret |-> Else(d.secret, c.secret),
         dhcp |-> dhcp, ip |-> ip, length |-> length,
         listen |-> Else(d.listen, c.listen),
         manual |-> manual, routes |-> Else(d.routes, c.routes),
         socks |-> socks, port |-> Else(d.socks, c.port),
         vpn |-> vpn, client |-> Else(d.vpn, c.client),
         plain |-> Else(d.flags.plain, c.plain),
         inverse |-> Opposite(Else(d.flags.inverse, c.inverse)),
         listed |-> listed,
         list |-> Else(d.flags.list, c.list),
         dev |-> d.flags.dev, method |-> c.method]
  BY DEF decodeTOML, c, n
<1> HIDE DEF dhcp, ip, length, manual, socks, vpn, listed
<1> QED
  BY <1>2, <1>3, <1>4, <1>6, <1>7, DocumentFields, ConfigFields DEF Configurations

\* What the user types leaves a document, which may not be readable.
LEMMA TypedIsDocument ==
    ASSUME NEW d \in Documents, NEW typed \in Typed(d)
    PROVE  typed \in Documents
<1>1. /\ "office" \in Nets /\ "addr" \in Ips
      /\ <<"addr", Absent>> \in Addresses
  BY DEF Nets, Ips, Addresses
<1>2. CASE \E i \in Ids \cup {Absent} : typed = [d EXCEPT !.id = i]
  BY <1>2 DEF Documents
<1>3. CASE typed = [d EXCEPT !.listen = Absent]
  BY <1>3 DEF Documents
<1>4. CASE typed = [d EXCEPT !.net = "office"]
  BY <1>1, <1>4 DEF Documents
<1>5. CASE typed = [d EXCEPT !.ipv4 = <<"addr", Absent>>]
  BY <1>1, <1>5 DEF Documents
<1> QED
  BY <1>2, <1>3, <1>4, <1>5 DEF Typed

\* The document of a valid configuration, decoded, makes the same document
\* again: each key that is left out is one whose default says the same.
LEMMA RoundTrip ==
    ASSUME NEW c \in Configurations, validateConfig(c), c.listen # "none",
           NEW out \in BOOLEAN
    PROVE  encodeTOML(decodeTOML(encodeTOML(c, FALSE), c.id), out) = encodeTOML(c, out)
<1> DEFINE d == encodeTOML(c, FALSE)
           k == decodeTOML(d, c.id)
<1>1. /\ c.net # Empty /\ c.dhcp \in BOOLEAN
      /\ ~c.dhcp => c.ip # Empty
      /\ c.vpn => c.client # Empty
  BY ConfigFields DEF validateConfig
\* What is written, key by key, and what is read.
<1>2. /\ d.id = c.id /\ d.net = Unless(c.net = Empty, c.net)
      /\ d.secret = Unless(c.secret = Empty, c.secret) /\ d.dhcp = c.dhcp
      /\ d.ipv4 = Unless(c.dhcp \/ c.ip = Empty, <<c.ip, c.length>>)
      /\ d.listen = Unless(c.listen = "none", c.listen)
      /\ d.routes = Unless(~c.manual \/ c.routes = Empty, c.routes)
      /\ d.socks = Unless(c.socks # "true", c.port)
      /\ d.vpn = Unless(~c.vpn, c.client) /\ d.flags = flagsOf(c)
  BY DEF encodeTOML, Unless
<1> HIDE DEF d
<1>3. /\ d.flags.plain = Unless(c.plain = "null", c.plain)
      /\ d.flags.inverse = Unless(c.inverse = "null", Opposite(c.inverse))
      /\ d.flags.list = Unless(c.listed # "true" \/ c.list = Empty, c.list)
      /\ d.flags.dev = DevName(c)
  BY <1>2 DEF flagsOf
<1>4. /\ k.id = Else(d.id, c.id) /\ k.net = Else(d.net, "easytier")
      /\ k.secret = Else(d.secret, Empty)
      /\ k.dhcp = (IF d.ipv4 # Absent THEN FALSE ELSE Else(d.dhcp, TRUE))
      /\ k.ip = (IF d.ipv4 = Absent THEN Empty ELSE d.ipv4[1])
      /\ k.length = (IF d.ipv4 = Absent THEN 24 ELSE d.ipv4[2])
      /\ k.listen = Else(d.listen, "default") /\ k.routes = Else(d.routes, Empty)
      /\ k.socks = (IF d.socks = Absent THEN "null" ELSE "true")
      /\ k.port = Else(d.socks, 1080) /\ k.client = Else(d.vpn, Empty)
  BY DEF decodeTOML, defaultConfig, listenersForInstance
<1>5. /\ k.plain = Else(d.flags.plain, "null")
      /\ k.inverse = Opposite(Else(d.flags.inverse, "null"))
      /\ k.listed = (IF d.flags.list = Absent THEN "null" ELSE "true")
      /\ k.list = Else(d.flags.list, Empty) /\ k.dev = d.flags.dev
      /\ (k.manual <=> d.routes # Absent) /\ (k.vpn <=> d.vpn # Absent)
  BY DEF decodeTOML, defaultConfig
<1> HIDE DEF k
\* The keys of the two documents are the same.
<1>6. k.id = c.id /\ k.net = c.net /\ k.secret = c.secret /\ k.listen = c.listen
  BY <1>1, <1>2, <1>4, ConfigFields, ValuesArePresent DEF Unless, Else
<1>7. k.dhcp = c.dhcp /\ (~c.dhcp => k.ip = c.ip /\ k.length = c.length)
  <2>1. CASE c.dhcp
    <3>1. d.ipv4 = Absent /\ d.dhcp = TRUE
      BY <1>1, <1>2, <2>1 DEF Unless
    <3>2. k.dhcp = Else(TRUE, TRUE)
      BY <1>4, <3>1
    <3> QED
      BY <1>1, <2>1, <3>2 DEF Else
  <2>2. CASE ~c.dhcp
    <3>1. d.ipv4 = <<c.ip, c.length>> /\ d.ipv4 # Absent
      BY <1>1, <1>2, <2>2, ConfigFields, ValuesArePresent DEF Unless
    <3>2. c.dhcp = FALSE
      BY <1>1, <2>2
    <3>3. k.dhcp = FALSE
      BY <1>4, <3>1, Zenon
    <3>4. k.ip = c.ip /\ k.length = c.length
      BY <1>4, <3>1
    <3> QED
      BY <3>2, <3>3, <3>4
  <2> QED
    BY <1>1, <2>1, <2>2
<1>8. Unless(k.dhcp \/ k.ip = Empty, <<k.ip, k.length>>) = d.ipv4
  BY <1>1, <1>2, <1>7 DEF Unless
<1>9. Unless(~k.manual \/ k.routes = Empty, k.routes) = d.routes
  BY <1>2, <1>4, <1>5, ConfigFields, ValuesArePresent DEF Unless, Else
<1>10. Unless(k.socks # "true", k.port) = d.socks
  BY <1>2, <1>4, ConfigFields, ValuesArePresent DEF Unless, Else
<1>11. Unless(~k.vpn, k.client) = d.vpn
  BY <1>2, <1>4, <1>5, ConfigFields, ValuesArePresent DEF Unless, Else
<1>12. Unless(k.plain = "null", k.plain) = d.flags.plain
  BY <1>3, <1>5, ConfigFields, ValuesArePresent DEF Unless, Else
<1>13. Unless(k.inverse = "null", Opposite(k.inverse)) = d.flags.inverse
  <2>1. "true" # Absent /\ "false" # Absent /\ c.inverse \in Tri
    BY ConfigFields, ValuesArePresent DEF Tri
  <2> QED
    BY <1>3, <1>5, <2>1 DEF Unless, Else, Opposite, Tri
<1>14. Unless(k.listed # "true" \/ k.list = Empty, k.list) = d.flags.list
  BY <1>3, <1>5, ConfigFields, ValuesArePresent DEF Unless, Else
<1>15. DevName(k) = d.flags.dev
  <2>1. DevName(c) # Absent
    BY ConfigFields, ValuesArePresent DEF DevName
  <2> QED
    BY <1>3, <1>5, <2>1 DEF DevName
<1>16. flagsOf(k) = flagsOf(c)
  BY <1>3, <1>12, <1>13, <1>14, <1>15 DEF flagsOf
<1>17. encodeTOML(k, out) = encodeTOML(c, out)
  BY <1>2, <1>6, <1>7, <1>8, <1>9, <1>10, <1>11, <1>16 DEF encodeTOML
<1> QED
  BY <1>17 DEF k, d

(***************************************************************************)
(* The inductive invariant.                                                *)
(***************************************************************************)

ListOK ==
    list \in Seq(Ids) /\ IsInjective(list) /\ current \in Shown

InstOK ==
    /\ inst = [n \in Networks |-> inst[n]]
    /\ \A n \in Networks \ Shown : inst[n] = Absent
    /\ \A n \in Shown :
         /\ inst[n] = [rpc |-> inst[n].rpc, status |-> inst[n].status, config |-> Config(n)]
         /\ inst[n].status \in {"running", "stopped"} /\ Config(n) \in Configurations

ClickedOK ==
    /\ clicked = [n \in Networks |-> clicked[n]]
    /\ \A n \in Networks : clicked[n] # Absent => n \in Shown

\* A draft that is called dirty is of the selected network, and an exported
\* document can be read.
DraftOK ==
    /\ draft \in Documents \cup {Absent} /\ tomlDirty \in BOOLEAN
    /\ draft # Absent /\ tomlDirty => draftOf = current

ClipboardOK ==
    clipboard \in {d \in Documents : Decodable(d)} \cup {Absent}

TabInv ==
    ListOK /\ InstOK /\ NodeIdsDistinct /\ ClickedOK /\ DraftOK /\ ClipboardOK

LEMMA ShownIds ==
    ASSUME ListOK
    PROVE  Shown \subseteq Ids
BY DEF ListOK, Shown, ToSet

\* The state of a network with two of its fields changed.
LEMMA FieldsReplaced ==
    ASSUME NEW p, NEW s, NEW k, NEW status, NEW c,
           NEW r, r = [rpc |-> p, status |-> s, config |-> k]
    PROVE  [r EXCEPT !.status = status, !.config = c] =
             [rpc |-> p, status |-> status, config |-> c]
<1> DEFINE u == [r EXCEPT !.status = status]
<1>1. u = [rpc |-> p, status |-> status, config |-> k]
  OBVIOUS
<1>2. [r EXCEPT !.status = status, !.config = c] = [u EXCEPT !.config = c]
  OBVIOUS
<1> HIDE DEF u
<1>3. [u EXCEPT !.config = c] = [rpc |-> p, status |-> status, config |-> c]
  BY <1>1
<1> QED
  BY <1>2, <1>3

\* A configuration whose id no other network has.
FreeId(n, c) ==
    \A m \in Shown \ {n} : c.id # m /\ c.id # Config(m).id

\* One network is replaced by another state of it: the others keep theirs.
LEMMA OneReplaced ==
    ASSUME ListOK, InstOK, NodeIdsDistinct,
           NEW n \in Shown, NEW rpc, NEW status \in {"running", "stopped"},
           NEW c \in Configurations, FreeId(n, c),
           inst' = [inst EXCEPT ![n] = [rpc |-> rpc, status |-> status, config |-> c]],
           list' = list, current' = current
    PROVE  /\ ListOK' /\ InstOK' /\ NodeIdsDistinct' /\ Shown' = Shown
           /\ \A m \in Shown : Config(m)' = IF m = n THEN c ELSE Config(m)
<1>1. Shown' = Shown /\ ListOK'
  BY DEF Shown, ListOK
<1> DEFINE new == [rpc |-> rpc, status |-> status, config |-> c]
<1>2. /\ new.rpc = rpc /\ new.status = status /\ new.config = c
      /\ new = [rpc |-> new.rpc, status |-> new.status, config |-> new.config]
  OBVIOUS
<1> HIDE DEF new
<1>3. inst' = [m \in Networks |-> IF m = n THEN new ELSE inst[m]]
  <2> DEFINE f == [m \in Networks |-> inst[m]]
  <2>1. inst = f /\ inst' = [inst EXCEPT ![n] = new]
    BY DEF InstOK, new
  <2>2. inst' = [f EXCEPT ![n] = new]
    BY <2>1
  <2> QED
    BY <2>2
<1>4. \A m \in Networks : inst'[m] = IF m = n THEN new ELSE inst[m]
  BY <1>3
<1>5. \A m \in Shown : Config(m)' = IF m = n THEN c ELSE Config(m)
  BY <1>2, <1>4, ShownIds DEF Config, Networks
<1>6. InstOK'
  <2>1. inst' = [m \in Networks |-> inst'[m]]
    BY <1>3
  <2>2. \A m \in Networks \ Shown' : inst'[m] = Absent
    BY <1>1, <1>4 DEF InstOK
  <2>3. ASSUME NEW m \in Shown
        PROVE  /\ inst'[m] = [rpc |-> inst'[m].rpc, status |-> inst'[m].status,
                              config |-> Config(m)']
               /\ inst'[m].status \in {"running", "stopped"} /\ Config(m)' \in Configurations
    BY <1>2, <1>4, ShownIds DEF InstOK, Config, Networks
  <2> QED
    BY <1>1, <2>1, <2>2, <2>3 DEF InstOK
<1>7. NodeIdsDistinct'
  <2>1. ASSUME NEW k \in Shown, NEW m \in Shown, k # m
        PROVE  Config(k)'.id # Config(m)'.id /\ Config(k)'.id # m
    BY <1>5, <2>1 DEF NodeIdsDistinct, FreeId
  <2> QED
    BY <1>1, <2>1 DEF NodeIdsDistinct
<1> QED
  BY <1>1, <1>5, <1>6, <1>7

\* The same when only the configuration of the network changes.
LEMMA OneConfigured ==
    ASSUME ListOK, InstOK, NodeIdsDistinct,
           NEW n \in Shown, NEW c \in Configurations, FreeId(n, c),
           inst' = [inst EXCEPT ![n].config = c],
           list' = list, current' = current
    PROVE  /\ ListOK' /\ InstOK' /\ NodeIdsDistinct' /\ Shown' = Shown
           /\ \A m \in Shown : Config(m)' = IF m = n THEN c ELSE Config(m)
<1> DEFINE r == inst[n]
           rpc == r.rpc
           status == r.status
<1>1. r = [rpc |-> rpc, status |-> status, config |-> r.config]
  BY DEF InstOK, Config
<1>2. status \in {"running", "stopped"}
  BY DEF InstOK
<1>3. inst' = [inst EXCEPT ![n] = [r EXCEPT !.config = c]]
  OBVIOUS
<1> HIDE DEF r, rpc, status
<1>4. [r EXCEPT !.config = c] = [rpc |-> rpc, status |-> status, config |-> c]
  BY <1>1
<1>5. inst' = [inst EXCEPT ![n] = [rpc |-> rpc, status |-> status, config |-> c]]
  BY <1>3, <1>4
<1> QED
  BY <1>2, <1>5, OneReplaced

\* The effect of the editor keeps a draft a document, and of the network it
\* was of.
LEMMA FollowKeeps ==
    ASSUME NEW d \in Documents \cup {Absent}, NEW dirty \in BOOLEAN,
           NEW c \in Configurations, Follow(d, dirty, current, c), current' = current,
           d # Absent /\ dirty => draftOf = current
    PROVE  DraftOK'
<1>1. encodeTOML(c, FALSE) \in Documents
  BY EncodeIsDocument
<1> QED
  BY <1>1 DEF Follow, DraftOK

(***************************************************************************)
(* The text editor and the form.                                           *)
(***************************************************************************)

\* The first network has the default configuration, and nothing is edited.
LEMMA InitTabInv ==
    TabInit => TabInv
<1> SUFFICES ASSUME TabInit
             PROVE  TabInv
  OBVIOUS
<1>1. PICK n \in Networks :
        /\ list = <<n>> /\ current = n
        /\ inst = [m \in Networks |-> IF m = n THEN NewNetwork(n, 0, TRUE) ELSE Absent]
  BY DEF TabInit
<1>2. Shown = {n} /\ ListOK
  BY <1>1 DEF Shown, ToSet, ListOK, IsInjective, Networks
<1>3. NewNetwork(n, 0, TRUE).config \in Configurations
  <2>1. "default" \in Listens
    BY DEF Listens
  <2> QED
    BY <2>1, DefaultIsConfig, ConfigChanges DEF NewNetwork, listenersForInstance, Networks
<1>4. InstOK
  <2>1. inst = [m \in Networks |-> inst[m]] /\ \A m \in Networks \ Shown : inst[m] = Absent
    BY <1>1, <1>2
  <2>2. inst[n] = NewNetwork(n, 0, TRUE)
    BY <1>1
  <2> DEFINE r == NewNetwork(n, 0, TRUE)
  <2>3. r = [rpc |-> r.rpc, status |-> r.status, config |-> r.config]
    BY DEF NewNetwork
  <2>4. r.status \in {"running", "stopped"}
    BY DEF NewNetwork
  <2>5. inst[n] = r /\ r.config \in Configurations
    BY <1>3, <2>2
  <2> HIDE DEF r
  <2> QED
    BY <1>2, <2>1, <2>3, <2>4, <2>5 DEF InstOK, Config
<1>5. NodeIdsDistinct
  BY <1>2 DEF NodeIdsDistinct
<1>6. ClickedOK /\ DraftOK /\ ClipboardOK
  BY DEF TabInit, ClickedOK, DraftOK, ClipboardOK
<1> QED
  BY <1>2, <1>4, <1>5, <1>6 DEF TabInv

\* Another network is selected: what is edited is dropped.
LEMMA SelectTabInv ==
    ASSUME TabInv, NEW n \in Networks, Select(n)
    PROVE  TabInv'
<1>1. ListOK' /\ Shown' = Shown
  BY DEF TabInv, ListOK, Select, Shown
<1>2. InstOK' /\ NodeIdsDistinct' /\ ClickedOK' /\ ClipboardOK'
  BY <1>1 DEF TabInv, InstOK, NodeIdsDistinct, ClickedOK, ClipboardOK, Select, Config
<1>3. DraftOK'
  BY DEF Select, Reset, DraftOK
<1> QED
  BY <1>1, <1>2, <1>3 DEF TabInv

\* Steps that only change the text or what was exported.
LEMMA TextsTabInv ==
    ASSUME TabInv, UNCHANGED <<list, inst, current, clicked>>, DraftOK', ClipboardOK'
    PROVE  TabInv'
<1>1. ListOK' /\ Shown' = Shown
  BY DEF TabInv, ListOK, Shown
<1>2. InstOK' /\ NodeIdsDistinct' /\ ClickedOK'
  BY <1>1 DEF TabInv, InstOK, NodeIdsDistinct, ClickedOK, Config
<1> QED
  BY <1>1, <1>2 DEF TabInv

LEMMA CurrentConfig ==
    ASSUME TabInv
    PROVE  Config(current) \in Configurations /\ current \in Ids
BY ShownIds DEF TabInv, InstOK, ListOK

LEMMA EditorTabInv ==
    ASSUME TabInv, startTomlEdit \/ TypeDraft \/ revertTomlDraft \/ exportToml
    PROVE  TabInv'
<1>1. /\ Config(current) \in Configurations
      /\ \A out \in BOOLEAN : /\ encodeTOML(Config(current), out) \in Documents
                              /\ Decodable(encodeTOML(Config(current), out))
  BY CurrentConfig, EncodeIsDocument
<1>2. CASE startTomlEdit
  <2>1. Follow(encodeTOML(Config(current), FALSE), FALSE, current, Config(current))
    BY <1>2 DEF startTomlEdit
  <2>2. DraftOK'
    BY <1>1, <1>2, <2>1 DEF startTomlEdit, Follow, DraftOK
  <2> QED
    BY <1>2, <2>2, TextsTabInv DEF startTomlEdit, TabInv, ClipboardOK
<1>3. CASE TypeDraft
  <2>1. draft' \in Documents
    <3> DEFINE d == IF draft = Absent THEN encodeTOML(Config(current), FALSE) ELSE draft
    <3>1. d \in Documents
      BY <1>1 DEF TabInv, DraftOK
    <3>2. draft' \in Typed(d)
      BY <1>3 DEF TypeDraft
    <3> HIDE DEF d
    <3> QED
      BY <3>1, <3>2, TypedIsDocument
  <2>2. DraftOK'
    BY <1>3, <2>1 DEF TypeDraft, DraftOK
  <2> QED
    BY <1>3, <2>2, TextsTabInv DEF TypeDraft, TabInv, ClipboardOK
<1>4. CASE revertTomlDraft
  <2>1. DraftOK'
    BY <1>1, <1>4 DEF revertTomlDraft, TabInv, DraftOK
  <2> QED
    BY <1>4, <2>1, TextsTabInv DEF revertTomlDraft, TabInv, ClipboardOK
<1>5. CASE exportToml
  <2>1. ClipboardOK'
    BY <1>1, <1>5 DEF exportToml, ClipboardOK
  <2>2. DraftOK'
    BY <1>5 DEF exportToml, TabInv, DraftOK, tab
  <2> QED
    BY <1>5, <2>1, <2>2, TextsTabInv DEF exportToml
<1> QED
  BY <1>2, <1>3, <1>4, <1>5

\* A configuration of the form or of the clipboard.
LEMMA SetConfigTabInv ==
    ASSUME TabInv, NEW c \in Configurations, FreeId(current, c), SetConfig(current, c),
           UNCHANGED <<list, current, clipboard, clicked>>
    PROVE  TabInv'
<1>1. inst' = [inst EXCEPT ![current].config = c]
  BY DEF SetConfig
<1>2. ListOK' /\ InstOK' /\ NodeIdsDistinct' /\ Shown' = Shown
  BY <1>1, OneConfigured DEF TabInv, ListOK
<1>3. DraftOK'
  BY FollowKeeps DEF SetConfig, TabInv, DraftOK
<1>4. ClickedOK' /\ ClipboardOK'
  BY <1>2 DEF TabInv, ClickedOK, ClipboardOK
<1> QED
  BY <1>2, <1>3, <1>4 DEF TabInv

LEMMA PatchTabInv ==
    ASSUME TabInv, ConfigEditor
    PROVE  TabInv'
<1>1. PICK f \in DOMAIN Domains : \E v \in Domains[f] : patchConfig(f, v)
  BY DEF ConfigEditor
<1>2. PICK v \in Domains[f] : patchConfig(f, v)
  BY <1>1
<1> DEFINE c == [Config(current) EXCEPT ![f] = v]
<1>3. c \in Configurations /\ c.id = Config(current).id
  BY CurrentConfig, PatchIsConfig
<1> HIDE DEF c
<1>4. FreeId(current, c)
  BY <1>3 DEF TabInv, ListOK, NodeIdsDistinct, FreeId
<1>5. SetConfig(current, c) /\ UNCHANGED <<list, current, clipboard, clicked>>
  BY <1>2 DEF patchConfig, c
<1> QED
  BY <1>3, <1>4, <1>5, SetConfigTabInv

\* An imported document is given the network's own id.
LEMMA ImportTabInv ==
    ASSUME TabInv, importToml
    PROVE  TabInv'
<1> DEFINE k == decodeTOML(clipboard, current)
           own == [k EXCEPT !.id = current]
           l == listenersForInstance(current = list[1])
           same == own.listen = Config(current).listen
           c == IF same THEN [own EXCEPT !.listen = l] ELSE own
<1>1. k \in Configurations
  BY CurrentConfig, DecodeIsConfig DEF importToml, TabInv, ClipboardOK
<1> HIDE DEF k
<1>2. own \in Configurations /\ own.id = current
  BY <1>1, CurrentConfig, ConfigChanges DEF Configurations
<1> HIDE DEF own
<1>3. l \in Listens
  BY DEF listenersForInstance, Listens
<1> HIDE DEF l
<1>4. c \in Configurations /\ c.id = current
  BY <1>2, <1>3, ConfigChanges DEF Configurations
<1>5. SetConfig(current, c) /\ UNCHANGED <<list, current, clipboard, clicked>>
  BY DEF importToml, k, own, l
<1> HIDE DEF c
<1>6. FreeId(current, c)
  BY <1>4 DEF TabInv, ListOK, NodeIdsDistinct, FreeId
<1> QED
  BY <1>4, <1>5, <1>6, SetConfigTabInv

\* A draft is decoded with its own id or with an unused one, and given the
\* id of its network when another network has the one it names.
LEMMA ApplyTabInv ==
    ASSUME TabInv, applyTomlDraft
    PROVE  TabInv'
<1>1. PICK random \in IF draft.id = Absent THEN Unused ELSE {current} :
        inst' = [inst EXCEPT ![current].config = WithOwnId(decodeTOML(draft, random))]
  BY DEF applyTomlDraft
<1>2. random \in Ids
  BY CurrentConfig DEF Unused
<1> DEFINE k == decodeTOML(draft, random)
           c == WithOwnId(k)
<1>3. k \in Configurations
  BY <1>2, DecodeIsConfig DEF applyTomlDraft, TabInv, DraftOK
<1>4. inst' = [inst EXCEPT ![current].config = c]
  BY <1>1
<1> HIDE DEF k
<1>5. c \in Configurations /\ FreeId(current, c)
  <2>1. CASE \E n \in Shown \ {current} : k.id \in {n, Config(n).id}
    <3>1. c = [k EXCEPT !.id = current]
      BY <2>1 DEF WithOwnId
    <3>2. c \in Configurations /\ c.id = current
      BY <1>3, <3>1, CurrentConfig, ConfigChanges DEF Configurations
    <3> QED
      BY <3>2 DEF FreeId, TabInv, ListOK, NodeIdsDistinct
  <2>2. CASE ~\E n \in Shown \ {current} : k.id \in {n, Config(n).id}
    <3>1. c = k
      BY <2>2 DEF WithOwnId
    <3> QED
      BY <1>3, <2>2, <3>1 DEF FreeId
  <2> QED
    BY <2>1, <2>2
<1> HIDE DEF c
<1>6. ListOK' /\ InstOK' /\ NodeIdsDistinct' /\ Shown' = Shown
  BY <1>4, <1>5, OneConfigured DEF applyTomlDraft, TabInv, ListOK
<1>7. ClickedOK' /\ ClipboardOK' /\ DraftOK'
  BY <1>6 DEF applyTomlDraft, TabInv, ClickedOK, ClipboardOK, DraftOK
<1> QED
  BY <1>6, <1>7 DEF TabInv

(***************************************************************************)
(* The list of networks.                                                   *)
(***************************************************************************)

\* A new network has an id that no network has or has in its configuration.
LEMMA AddTabInv ==
    ASSUME TabInv, addInstance
    PROVE  TabInv'
<1>1. PICK n \in Unused :
        /\ inst' = [inst EXCEPT ![n] = NewNetwork(n, nextRpcPort, FALSE)]
        /\ list' = Append(list, n) /\ current' = n
  BY DEF addInstance
<1>2. n \in Ids /\ n \notin Shown /\ \A m \in Shown : Config(m).id # n
  BY DEF Unused, Configs
<1> DEFINE r == NewNetwork(n, nextRpcPort, FALSE)
<1>3. r = [rpc |-> r.rpc, status |-> r.status, config |-> r.config]
  BY DEF NewNetwork
<1>4. r.status \in {"running", "stopped"}
  BY DEF NewNetwork
<1>5. r.config \in Configurations /\ r.config.id = n
  <2>1. "auto" \in Listens
    BY DEF Listens
  <2>2. r.config = [defaultConfig(n) EXCEPT !.listen = "auto"]
    BY DEF NewNetwork, listenersForInstance
  <2>3. defaultConfig(n) \in Configurations /\ defaultConfig(n).id = n
    BY <1>2, DefaultIsConfig
  <2> HIDE DEF r
  <2> QED
    BY <2>1, <2>2, <2>3, ConfigChanges DEF Configurations
<1> HIDE DEF r
<1>6. inst' = [m \in Networks |-> IF m = n THEN r ELSE inst[m]]
  <2> DEFINE f == [m \in Networks |-> inst[m]]
  <2>1. inst = f /\ inst' = [inst EXCEPT ![n] = r]
    BY <1>1 DEF r, TabInv, InstOK
  <2>2. inst' = [f EXCEPT ![n] = r]
    BY <2>1
  <2> QED
    BY <2>2
<1>7. Shown' = Shown \cup {n} /\ ListOK'
  BY <1>1, <1>2, AppendElements DEF Shown, TabInv, ListOK
<1>8. \A m \in Shown' : inst'[m] = IF m = n THEN r ELSE inst[m]
  BY <1>2, <1>6, <1>7, ShownIds DEF Networks, TabInv
<1>9. InstOK'
  <2>1. inst' = [m \in Networks |-> inst'[m]]
    BY <1>6
  <2>2. \A m \in Networks \ Shown' : inst'[m] = Absent
    BY <1>6, <1>7 DEF TabInv, InstOK
  <2>3. ASSUME NEW m \in Shown'
        PROVE  /\ inst'[m] = [rpc |-> inst'[m].rpc, status |-> inst'[m].status,
                              config |-> Config(m)']
               /\ inst'[m].status \in {"running", "stopped"} /\ Config(m)' \in Configurations
    BY <1>3, <1>4, <1>5, <1>7, <1>8 DEF TabInv, InstOK, Config
  <2> QED
    BY <2>1, <2>2, <2>3 DEF InstOK
<1>10. NodeIdsDistinct'
  <2>1. \A m \in Shown' : Config(m)' = IF m = n THEN r.config ELSE Config(m)
    BY <1>8 DEF Config
  <2>2. \A k, m \in Shown' :
          k # m => Config(k)'.id # Config(m)'.id /\ Config(k)'.id # m
    BY <1>2, <1>5, <1>7, <2>1 DEF TabInv, NodeIdsDistinct
  <2> QED
    BY <2>2 DEF NodeIdsDistinct
<1>11. ClickedOK' /\ ClipboardOK' /\ DraftOK'
  BY <1>7 DEF addInstance, Reset, TabInv, ClickedOK, ClipboardOK, DraftOK
<1> QED
  BY <1>7, <1>9, <1>10, <1>11 DEF TabInv

\* The selected network is removed, and the first that is left is selected.
LEMMA RemoveTabInv ==
    ASSUME TabInv, removeInstance
    PROVE  TabInv'
<1>1. list' \in Seq(Ids) /\ IsInjective(list') /\ Shown' = Shown \ {current}
  BY RemoveFirstElements DEF removeInstance, TabInv, ListOK, Shown
<1>2. current' \in Shown'
  <2>1. list[1] \in Shown /\ list[2] \in Shown /\ list[1] # list[2]
    BY DEF removeInstance, TabInv, ListOK, Shown, ToSet, IsInjective
  <2>2. ToSet(list') # {}
    BY <1>1, <2>1 DEF Shown
  <2>3. Len(list') \in Nat /\ 1 \in 1..Len(list')
    BY <1>1, <2>2 DEF ToSet
  <2>4. list'[1] \in ToSet(list')
    BY <1>1, <2>3 DEF ToSet
  <2> QED
    BY <2>4 DEF removeInstance, Shown
<1>3. ListOK'
  BY <1>1, <1>2 DEF ListOK
<1>4. inst' = [m \in Networks |-> IF m = current THEN Absent ELSE inst[m]]
  <2> DEFINE f == [m \in Networks |-> inst[m]]
  <2>1. inst = f /\ inst' = [inst EXCEPT ![current] = Absent]
    BY DEF removeInstance, TabInv, InstOK
  <2>2. inst' = [f EXCEPT ![current] = Absent]
    BY <2>1
  <2> QED
    BY <2>2
<1>5. \A m \in Shown' : inst'[m] = inst[m] /\ Config(m)' = Config(m) /\ m \in Shown
  BY <1>1, <1>4, ShownIds DEF Config, Networks, TabInv
<1>6. InstOK'
  <2>1. inst' = [m \in Networks |-> inst'[m]]
    BY <1>4
  <2>2. \A m \in Networks \ Shown' : inst'[m] = Absent
    BY <1>1, <1>4 DEF TabInv, InstOK
  <2> QED
    BY <1>5, <2>1, <2>2 DEF TabInv, InstOK
<1>7. NodeIdsDistinct'
  BY <1>5 DEF TabInv, NodeIdsDistinct
<1>8. ClickedOK'
  <2>1. clicked' = [m \in Networks |-> IF m = current THEN Absent ELSE clicked[m]]
    <3> DEFINE f == [m \in Networks |-> clicked[m]]
    <3>1. clicked = f /\ clicked' = [clicked EXCEPT ![current] = Absent]
      BY DEF removeInstance, TabInv, ClickedOK
    <3>2. clicked' = [f EXCEPT ![current] = Absent]
      BY <3>1
    <3> QED
      BY <3>2
  <2> QED
    BY <1>1, <2>1 DEF TabInv, ClickedOK
<1>9. ClipboardOK' /\ DraftOK'
  BY DEF removeInstance, Reset, TabInv, ClipboardOK, DraftOK
<1> QED
  BY <1>3, <1>6, <1>7, <1>8, <1>9 DEF TabInv

\* The list is loaded again, and every configuration takes the id of its
\* network.
LEMMA ReloadTabInv ==
    ASSUME TabInv, Reload
    PROVE  TabInv'
<1>1. Shown' = Shown /\ ListOK'
  BY DEF Reload, Shown, TabInv, ListOK
<1>2. inst' = [n \in Networks |-> IF n \notin Shown THEN Absent ELSE
                 [inst[n] EXCEPT !.status = "stopped", !.config.id = n]]
  BY DEF Reload
<1>3. ASSUME NEW n \in Shown
      PROVE  /\ inst'[n] = [rpc |-> inst'[n].rpc, status |-> inst'[n].status,
                            config |-> Config(n)']
             /\ inst'[n].status \in {"running", "stopped"}
             /\ Config(n)' \in Configurations /\ Config(n)'.id = n
  <2> DEFINE r == inst[n]
             rpc == r.rpc
             status == r.status
             c == r.config
             own == [c EXCEPT !.id = n]
  <2>1. /\ n \in Ids /\ c \in Configurations
        /\ r = [rpc |-> rpc, status |-> status, config |-> c]
    BY ShownIds DEF TabInv, InstOK, Config
  <2>2. inst'[n] = [r EXCEPT !.status = "stopped", !.config = own]
    BY <1>2, <2>1 DEF Networks
  <2> HIDE DEF r, rpc, status, c
  <2>3. own \in Configurations /\ own.id = n
    BY <2>1, ConfigChanges DEF Configurations
  <2> HIDE DEF own
  <2>4. inst'[n] = [rpc |-> rpc, status |-> "stopped", config |-> own]
    BY <2>1, <2>2, FieldsReplaced
  <2> QED
    BY <2>3, <2>4 DEF Config
<1>4. InstOK'
  <2>1. inst' = [n \in Networks |-> inst'[n]] /\ \A n \in Networks \ Shown' : inst'[n] = Absent
    BY <1>1, <1>2
  <2> QED
    BY <1>1, <1>3, <2>1 DEF InstOK
<1>5. NodeIdsDistinct'
  <2>1. \A n \in Shown : Config(n)'.id = n
    BY <1>3
  <2>2. \A m, n \in Shown : m # n => Config(m)'.id # Config(n)'.id /\ Config(m)'.id # n
    BY <2>1
  <2> QED
    BY <1>1, <2>2 DEF NodeIdsDistinct
<1>6. ClickedOK' /\ ClipboardOK' /\ DraftOK'
  BY DEF Reload, Reset, TabInv, ClickedOK, ClipboardOK, DraftOK
<1> QED
  BY <1>1, <1>4, <1>5, <1>6 DEF TabInv

(***************************************************************************)
(* Starts.                                                                 *)
(***************************************************************************)

LEMMA ClickTabInv ==
    ASSUME TabInv, Click
    PROVE  TabInv'
<1>1. Shown' = Shown /\ ListOK'
  BY DEF Click, Shown, TabInv, ListOK
<1>2. InstOK' /\ NodeIdsDistinct' /\ ClipboardOK' /\ DraftOK'
  BY <1>1 DEF Click, TabInv, InstOK, NodeIdsDistinct, Config, ClipboardOK, DraftOK, tab
<1>3. ClickedOK'
  <2> DEFINE f == [m \in Networks |-> clicked[m]]
             seen == [n \in Shown |-> inst[n]]
  <2>1. clicked = f /\ clicked' = [clicked EXCEPT ![current] = seen]
    BY DEF Click, TabInv, ClickedOK
  <2> HIDE DEF seen
  <2>2. clicked' = [f EXCEPT ![current] = seen]
    BY <2>1
  <2>3. clicked' = [m \in Networks |-> IF m = current THEN seen ELSE clicked[m]]
    BY <2>2
  <2> QED
    BY <1>1, <2>3 DEF TabInv, ListOK, ClickedOK
<1> QED
  BY <1>1, <1>2, <1>3 DEF TabInv

\* A start changes the listeners, the device and the port of its network, and
\* never its id.
LEMMA LaunchTabInv ==
    ASSUME TabInv, NEW n \in Networks, Launch(n)
    PROVE  TabInv'
<1>1. n \in Shown /\ n \in Ids
  BY DEF Launch, TabInv, ClickedOK, Networks
<1> DEFINE seen == clicked[n]
           others == DOMAIN seen \ {n}
           active == {m \in others : seen[m].status = "running"}
           rpc == FreePort(inst[n].rpc, BusyPorts \cup {seen[m].rpc : m \in active}
                                          \cup {inst[m].rpc : m \in {k \in Shown : Running(k)}})
           clash == seen[n].config.listen \notin {"auto", "none"}
                      /\ \E m \in active : seen[m].config.listen = seen[n].config.listen
           dev == seen[n].config.dev
           taken == dev = Absent \/ \E m \in others : seen[m].config.dev = dev
           old == Config(n)
           listens == IF clash THEN "auto" ELSE old.listen
           device == IF taken THEN <<"et", n>> ELSE old.dev
           c == [old EXCEPT !.listen = listens, !.dev = device]
           r == inst[n]
<1>2. /\ inst' = [inst EXCEPT ![n] = [r EXCEPT !.rpc = rpc, !.status = "running",
                                               !.config = c]]
      /\ Follow(draft, tomlDirty, current, IF n = current THEN c ELSE Config(current))
      /\ clicked' = [clicked EXCEPT ![n] = Absent]
      /\ UNCHANGED <<list, current, clipboard, edits>>
  BY DEF Launch, Config
<1> HIDE DEF seen, others, active, rpc, clash, dev, taken
<1>3. old \in Configurations
  BY <1>1 DEF TabInv, InstOK
<1> HIDE DEF old
<1>4. listens \in Listens /\ device \in Devices
  <2>1. "auto" \in Listens /\ <<"et", n>> \in Devices
    BY <1>1 DEF Listens, Devices
  <2> QED
    BY <1>3, <2>1, ConfigFields
<1> HIDE DEF listens, device
<1>5. c \in Configurations /\ c.id = old.id
  BY <1>3, <1>4 DEF Configurations
<1> HIDE DEF c
<1>6. FreeId(n, c)
  BY <1>1, <1>5 DEF TabInv, NodeIdsDistinct, FreeId, old
<1>7. inst' = [inst EXCEPT ![n] = [rpc |-> rpc, status |-> "running", config |-> c]]
  <2> DEFINE p == r.rpc
             s == r.status
             k == r.config
  <2>1. r = [rpc |-> p, status |-> s, config |-> k]
    BY <1>1 DEF TabInv, InstOK, Config
  <2> HIDE DEF r, p, s, k
  <2> DEFINE u == [r EXCEPT !.rpc = rpc]
  <2>2. u = [rpc |-> rpc, status |-> s, config |-> k]
    BY <2>1
  <2> DEFINE w == [u EXCEPT !.status = "running"]
  <2>3. inst' = [inst EXCEPT ![n] = [w EXCEPT !.config = c]]
    BY <1>2
  <2> HIDE DEF u
  <2>4. w = [rpc |-> rpc, status |-> "running", config |-> k]
    BY <2>2
  <2> HIDE DEF w
  <2>5. [w EXCEPT !.config = c] = [rpc |-> rpc, status |-> "running", config |-> c]
    BY <2>4
  <2> QED
    BY <2>3, <2>5
<1>8. /\ ListOK' /\ InstOK' /\ NodeIdsDistinct' /\ Shown' = Shown
  BY <1>1, <1>2, <1>5, <1>6, <1>7, OneReplaced DEF TabInv
<1>9. DraftOK'
  <2> DEFINE k == IF n = current THEN c ELSE Config(current)
  <2>1. k \in Configurations /\ Follow(draft, tomlDirty, current, k)
    BY <1>2, <1>5, CurrentConfig
  <2> HIDE DEF k
  <2> QED
    BY <1>2, <2>1, FollowKeeps DEF TabInv, DraftOK
<1>10. ClickedOK'
  <2> DEFINE f == [m \in Networks |-> clicked[m]]
  <2>1. clicked = f /\ clicked' = [clicked EXCEPT ![n] = Absent]
    BY <1>2 DEF TabInv, ClickedOK
  <2>2. clicked' = [f EXCEPT ![n] = Absent]
    BY <2>1
  <2>3. clicked' = [m \in Networks |-> IF m = n THEN Absent ELSE clicked[m]]
    BY <2>2
  <2> QED
    BY <1>8, <2>3 DEF TabInv, ClickedOK
<1>11. ClipboardOK'
  BY <1>2 DEF TabInv, ClipboardOK
<1> QED
  BY <1>8, <1>9, <1>10, <1>11 DEF TabInv

LEMMA StopTabInv ==
    ASSUME TabInv, NEW n \in Networks, Stop(n)
    PROVE  TabInv'
<1>1. n \in Shown /\ UNCHANGED <<list, current, tab, clipboard, edits>>
  BY DEF Stop
<1>2. DraftOK' /\ ClipboardOK'
  BY <1>1 DEF TabInv, DraftOK, ClipboardOK, tab
<1>3. CASE inst' = [inst EXCEPT ![n].status = "stopped"] /\ UNCHANGED clicked
  <2> DEFINE r == inst[n]
             rpc == r.rpc
             c == Config(n)
  <2>1. /\ r = [rpc |-> rpc, status |-> r.status, config |-> c]
        /\ c \in Configurations
    BY <1>1 DEF TabInv, InstOK
  <2>2. inst' = [inst EXCEPT ![n] = [r EXCEPT !.status = "stopped"]]
    BY <1>3
  <2>3. FreeId(n, c)
    BY <1>1 DEF TabInv, NodeIdsDistinct, FreeId
  <2> HIDE DEF r, rpc, c
  <2>4. [r EXCEPT !.status = "stopped"] = [rpc |-> rpc, status |-> "stopped", config |-> c]
    BY <2>1
  <2>5. inst' = [inst EXCEPT ![n] = [rpc |-> rpc, status |-> "stopped", config |-> c]]
    BY <2>2, <2>4
  <2>6. ListOK' /\ InstOK' /\ NodeIdsDistinct' /\ Shown' = Shown
    BY <1>1, <2>1, <2>3, <2>5, OneReplaced DEF TabInv
  <2> QED
    BY <1>2, <1>3, <2>6 DEF TabInv, ClickedOK
<1>4. CASE clicked' = [clicked EXCEPT ![n] = Absent] /\ UNCHANGED inst
  <2>1. ListOK' /\ InstOK' /\ NodeIdsDistinct' /\ Shown' = Shown
    BY <1>1, <1>4 DEF TabInv, ListOK, InstOK, NodeIdsDistinct, Config, Shown
  <2> DEFINE f == [m \in Networks |-> clicked[m]]
  <2>2. clicked = f
    BY DEF TabInv, ClickedOK
  <2>3. clicked' = [f EXCEPT ![n] = Absent]
    BY <1>4, <2>2
  <2>4. clicked' = [m \in Networks |-> IF m = n THEN Absent ELSE clicked[m]]
    BY <2>3
  <2> QED
    BY <1>2, <2>1, <2>4 DEF TabInv, ClickedOK
<1> QED
  BY <1>3, <1>4 DEF Stop

(***************************************************************************)
(* The theorems.                                                           *)
(***************************************************************************)

LEMMA NextTabInv ==
    ASSUME TabInv, [TabNext]_tabVars
    PROVE  TabInv'
<1>1. CASE \E n \in Networks : Select(n) \/ Launch(n) \/ Stop(n)
  BY <1>1, SelectTabInv, LaunchTabInv, StopTabInv
<1>2. CASE ConfigEditor \/ importToml \/ applyTomlDraft
  BY <1>2, PatchTabInv, ImportTabInv, ApplyTabInv
<1>3. CASE startTomlEdit \/ TypeDraft \/ revertTomlDraft \/ exportToml
  BY <1>3, EditorTabInv
<1>4. CASE addInstance \/ removeInstance \/ Reload \/ Click
  BY <1>4, AddTabInv, RemoveTabInv, ReloadTabInv, ClickTabInv
<1>5. CASE UNCHANGED tabVars
  <2>1. DraftOK' /\ ClipboardOK'
    BY <1>5 DEF tabVars, tab, TabInv, DraftOK, ClipboardOK
  <2> QED
    BY <1>5, <2>1, TextsTabInv DEF tabVars
<1> QED
  BY <1>1, <1>2, <1>3, <1>4, <1>5 DEF TabNext

LEMMA TabInvariant ==
    TabSpec => []TabInv
<1>1. TabInv /\ [TabNext]_tabVars => TabInv'
  BY NextTabInv
<1> QED
  BY InitTabInv, <1>1, PTL DEF TabSpec

\* No two networks ever have the same node id, nor one the id under which
\* another is stored, whatever texts are typed, applied, copied from one
\* network to another, and whatever is added, removed and loaded again
\* (applyTomlDraft, importToml, addInstance, loadInstances).
THEOREM NodeIdsDistinctAlways ==
    TabSpec => []NodeIdsDistinct
BY TabInvariant, PTL DEF TabInv

\* A document that is shown or exported means the configuration it was made
\* from: decoding it gives a configuration that makes the same document, for
\* every configuration the tab can reach (encodeTOML, decodeTOML).
THEOREM DocumentsKeepMeaningAlways ==
    TabSpec => []DocumentsKeepMeaning
<1>1. TabInv => DocumentsKeepMeaning
  BY RoundTrip DEF TabInv, InstOK, DocumentsKeepMeaning, Configs
<1> QED
  BY <1>1, TabInvariant, PTL

\* A draft is only applied to the network whose text the user has edited: it
\* does not outlive the selection of another one (applyTomlDraft and the
\* effect on the instance's id).
THEOREM DraftForItsNetworkAlways ==
    TabSpec => DraftForItsNetwork
<1> DEFINE Step == draft # Absent /\ draft' = Absent /\ inst' # inst /\ tomlDirty
                     => draftOf = current \/ list' # list \/ current' # current
<1>1. TabInv /\ [TabNext]_tabVars => [Step]_tabVars
  BY DEF TabInv, DraftOK
<1>2. TabSpec => [][Step]_tabVars
  BY <1>1, TabInvariant, PTL DEF TabSpec
<1> QED
  BY <1>2 DEF DraftForItsNetwork

\* Only edits of a text and of the form are counted.
LEMMA EditsKept ==
    ASSUME [TabNext]_tabVars, edits \in 0..MaxEdits
    PROVE  edits' \in 0..MaxEdits
<1>1. MaxEdits \in Nat
  BY TabAssumption
<1>2. CASE MayEdit
  BY <1>1, <1>2 DEF MayEdit
<1>3. CASE edits' = edits
  BY <1>3
<1>4. MayEdit \/ edits' = edits
  <2>1. CASE \E n \in Networks : Select(n) \/ Launch(n) \/ Stop(n)
    BY <2>1 DEF Select, Launch, Stop
  <2>2. CASE ConfigEditor \/ importToml \/ applyTomlDraft
    BY <2>2 DEF ConfigEditor, patchConfig, importToml, applyTomlDraft
  <2>3. CASE startTomlEdit \/ TypeDraft \/ revertTomlDraft \/ exportToml
    BY <2>3 DEF startTomlEdit, TypeDraft, revertTomlDraft, exportToml
  <2>4. CASE addInstance \/ removeInstance \/ Reload \/ Click
    BY <2>4 DEF addInstance, removeInstance, Reload, Click
  <2>5. CASE UNCHANGED tabVars
    BY <2>5 DEF tabVars
  <2> QED
    BY <2>1, <2>2, <2>3, <2>4, <2>5 DEF TabNext
<1> QED
  BY <1>2, <1>3, <1>4

\* The list names every network once.
LEMMA ListCountsShown ==
    ASSUME ListOK
    PROVE  Len(list) = Cardinality(Shown)
<1>1. Len(list) \in Nat /\ DOMAIN list = 1..Len(list) /\ list \in [1..Len(list) -> Ids]
  BY LenProperties DEF ListOK
<1>2. Shown = {list[i] : i \in 1..Len(list)}
  BY <1>1 DEF Shown, ToSet
<1>3. list \in Bijection(1..Len(list), Shown)
  <2>1. list \in [1..Len(list) -> Shown]
    BY <1>1, <1>2
  <2>2. \A x \in Shown : \E i \in 1..Len(list) : list[i] = x
    BY <1>2
  <2> QED
    BY <1>1, <2>1, <2>2 DEF ListOK, Bijection, Injection, Surjection
<1>4. ExistsBijection(1..Len(list), Shown)
  BY <1>3 DEF ExistsBijection
<1> QED
  BY <1>1, <1>4, FS_CountingElements

LEMMA TabTypes ==
    ASSUME TabInv, edits \in 0..MaxEdits
    PROVE  TabTypeOK
<1>1. Len(list) = Cardinality(Shown)
  BY ListCountsShown DEF TabInv
<1>2. ASSUME NEW n \in Shown
      PROVE  DOMAIN inst[n] = {"rpc", "status", "config"} /\ IsConfig(Config(n))
  <2>1. /\ inst[n] = [rpc |-> inst[n].rpc, status |-> inst[n].status, config |-> Config(n)]
        /\ Config(n) \in Configurations
    BY DEF TabInv, InstOK
  <2>2. \A p, s, c : DOMAIN [rpc |-> p, status |-> s, config |-> c] = {"rpc", "status", "config"}
    OBVIOUS
  <2>3. DOMAIN inst[n] = {"rpc", "status", "config"}
    BY <2>1, <2>2, Zenon
  <2> QED
    BY <2>1, <2>3, ConfigurationIsConfig
<1> QED
  BY <1>1, <1>2 DEF TabTypeOK, TabInv, ListOK, InstOK, ClickedOK, DraftOK

\* The list, the texts and what a click has seen keep their types, and every
\* network of the list has a configuration with every field, also when it was
\* read from a text that lacks keys (useInstances, decodeTOML, patchConfig,
\* toggle).
THEOREM TabTypeCorrect ==
    TabSpec => []TabTypeOK
<1>1. TabInit => edits \in 0..MaxEdits
  BY TabAssumption DEF TabInit
<1>2. edits \in 0..MaxEdits /\ [TabNext]_tabVars => (edits \in 0..MaxEdits)'
  BY EditsKept
<1>3. TabInv /\ edits \in 0..MaxEdits => TabTypeOK
  BY TabTypes
<1> QED
  BY <1>1, <1>2, <1>3, TabInvariant, PTL DEF TabSpec
=============================================================================
