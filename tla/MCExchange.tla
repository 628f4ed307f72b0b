------------------------------ MODULE MCExchange ------------------------------
(***************************************************************************)
(* Page loads that differ from a plain one in one respect at a time: the   *)
(* digests and the difficulty; the hour and the temperature; the address.  *)
(* A byte has two bits, so that a digest of two bytes takes every value    *)
(* and a word of four bytes ends at 256.                                   *)
(***************************************************************************)
EXTENDS Exchange

V4(a, b, c, d) == <<Dotted(Net24(a, b, c), d)>>
V6(group) == <<Hex("2001"), Colon, Colon, Hex(group)>>

Plain ==
    [ random |-> [nonce |-> <<0, 2>>, digests |-> <<>>], bits |-> 1,
      salt |-> <<3, 1>>, memory |-> 2, iterations |-> 3,
      bucket |-> 1, at |-> 7, nonce |-> <<0, 1, 2, 3, 3, 2, 1, 1>>, sig |-> <<1, 0>>,
      forwarded |-> <<>>, host |-> V4(85, 1, 2, 3), origin |-> Net24(85, 1, 2),
      ports |-> <<50001, 50002>>, honest |-> TRUE ]

\* Every first digest at every difficulty, some after it; a solution whose
\* counter takes two bytes.
Puzzled ==
    {[Plain EXCEPT !.random.digests = ds, !.bits = bits, !.honest = FALSE] :
        ds \in {<<d>> : d \in Digest} \cup
               {<<<<3, 0>>, d>> : d \in Digest} \cup
               {[i \in 1..9 |-> <<1, 3>>]},
        bits \in 0..3}

\* Every hour a 32-bit word of seconds holds and some beyond, and the
\* metadata of each bucket.
Timed ==
    {[Plain EXCEPT !.at = at, !.bucket = bucket, !.honest = at % 50 # 0] :
        at \in 0..300 \cup {1020, 1023}, bucket \in 0..3}

\* The networks at either end of every listed one, and those next to them.
Ends ==
    UNION {{c.net - 1, c.net, c.net + Size(c.len) - 1, c.net + Size(c.len)} :
              c \in torCIDRs \cup cloudCIDRs}

From(text, direct, origin) ==
    IF direct THEN [Plain EXCEPT !.host = text, !.origin = origin]
    ELSE [Plain EXCEPT !.forwarded = text, !.origin = origin]

Networks ==
    {From(<<Dotted(n, 1)>>, TRUE, n) : n \in Ends}
    \cup {From(<<Dotted(n, 1)>>, FALSE, n) : n \in Ends}
    \cup {From(Mapped(Dotted(n, 1)), FALSE, n) : n \in Ends}

MCHosts == {V4(3, 5, 1, 1), V4(3, 5, 1, 2), V4(3, 5, 2, 1), V4(85, 1, 2, 3), V6("1"), V6("2")}

Origin(host) == IF host[1].kind = "dotted" THEN host[1].net ELSE -1

Placed ==
    {From(host, TRUE, Origin(host)) : host \in MCHosts}
    \cup {From(V6("1"), FALSE, -1),
          From(V4(3, 5, 1, 1) \o <<Mark(",")>> \o V4(85, 1, 2, 3), FALSE, -1)}

MCLoads == Puzzled \cup Timed \cup Networks \cup Placed
=============================================================================
