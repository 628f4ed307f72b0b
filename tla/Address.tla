------------------------------- MODULE Address -------------------------------
(***************************************************************************)
(* From a request to the address it is counted under and the reputation of *)
(* that address: extractIP of main.go, Reputation, and subnetKey of the    *)
(* temperature store.  A text is a sequence of tokens: a dotted IPv4       *)
(* address is one, a colon, a bracket, a comma, a port and a group of hex  *)
(* digits are one each.                                                    *)
(***************************************************************************)
EXTENDS ReputationTables, Sequences, FiniteSetsExt

Dotted(net, host) == [kind |-> "dotted", net |-> net, host |-> host]
Hex(digits) == [kind |-> "hex", digits |-> digits]
Port(number) == [kind |-> "port", number |-> number]
Mark(mark) == [kind |-> mark]

Colon == Mark(":")

Token ==
    [kind: {"dotted"}, net: 0..Net24(255, 255, 255), host: 0..255]
    \cup [kind: {"hex"}, digits: STRING] \cup [kind: {"port"}, number: Nat]
    \cup [kind: {":", "[", "]", ","}]

-----------------------------------------------------------------------------
(***************************************************************************)
(* RemoteAddr, as net/http sets it: host and port, an IPv6 host between    *)
(* brackets.                                                               *)
(***************************************************************************)
RemoteAddr(host, port) ==
    (IF Len(host) = 1 THEN host ELSE <<Mark("[")>> \o host \o <<Mark("]")>>)
    \o <<Colon, Port(port)>>

\* The host is what stands before the last colon of RemoteAddr.
Colons(text) == {i \in DOMAIN text : text[i] = Colon}

extractIP_FirstColon(forwarded, remoteAddr) ==
    IF forwarded # <<>> THEN forwarded
    ELSE IF Colons(remoteAddr) = {} THEN remoteAddr
    ELSE SubSeq(remoteAddr, 1, Min(Colons(remoteAddr)) - 1)

extractIP(forwarded, remoteAddr) ==
    IF forwarded # <<>> THEN forwarded
    ELSE IF Colons(remoteAddr) = {} THEN remoteAddr
    ELSE SubSeq(remoteAddr, 1, Max(Colons(remoteAddr)) - 1)

-----------------------------------------------------------------------------
(***************************************************************************)
(* net.ParseIP: the dotted address of an IPv4 text or of an IPv4-mapped    *)
(* one, "v6" for another IPv6 text, and nil for a text with brackets or    *)
(* commas in it.                                                           *)
(***************************************************************************)
Mapped(dotted) == <<Colon, Colon, Hex("ffff"), Colon, dotted>>

ParseIP(text) ==
    LET last == text[Len(text)]
    IN  IF last.kind = "dotted" /\ text \in {<<last>>, Mapped(last)} THEN last
        ELSE IF \A i \in DOMAIN text : text[i].kind \in {"hex", ":"} THEN Mark("v6")
        ELSE Mark("nil")

\* How many /24 networks a prefix holds, and a network with the bits below
\* the prefix cleared.
Size(len) == 2 ^ (24 - len)
Masked_OneBitLess(net, len) == net - (net % (2 * Size(len)))
Masked(net, len) == net - (net % Size(len))

parseCIDRs(list) == {[cidr EXCEPT !.net = Masked(cidr.net, cidr.len)] : cidr \in list}

torNets == parseCIDRs(torCIDRs)
cloud == parseCIDRs(cloudCIDRs)

\* Some network of the list contains the address: with the bits below its
\* length cleared it is that network.  No list has an IPv6 network.
Listed(nets, ip) ==
    /\ ip.kind = "dotted"
    /\ \E len \in 0..24 : [net |-> Masked(ip.net, len), len |-> len] \in nets

Score(text) ==
    LET ip == ParseIP(text)
    IN  IF Listed(torNets, ip) THEN 100
        ELSE IF Listed(cloud, ip) THEN 80 ELSE 0

\* The store counts an IPv4 address also under its /24, and any other text
\* under itself.
subnetKey(text) ==
    LET ip == ParseIP(text)
    IN  IF ip.kind = "dotted" THEN <<[kind |-> "/24", net |-> ip.net]>> ELSE text
=============================================================================
