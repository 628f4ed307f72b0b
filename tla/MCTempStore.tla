----------------------------- MODULE MCTempStore -----------------------------
(***************************************************************************)
(* A small instance of TempStore: two peers in one /24 of a data centre.   *)
(* Each stands for the text Address gives it, and their one subnet and     *)
(* their reputation are those it gives the texts.                          *)
(***************************************************************************)
EXTENDS TempStore, TLC

CONSTANTS First, Second, TheSubnet

Net == INSTANCE Address

\* 3.5.1.1 and 3.5.1.2, of which the second is left out in some runs.
Text(ip) ==
    Net!extractIP(<<>>,
        Net!RemoteAddr(<<Net!Dotted(Net!Net24(3, 5, 1), IF ip = First THEN 1 ELSE 2)>>, 50001))

ASSUME AddressesAssumption ==
    /\ Net!subnetKey(Text(First)) = Net!subnetKey(Text(Second))
    /\ \A ip \in {First, Second} : Net!Score(Text(ip)) = 80

MCIP == {First, Second}
MCSubnet == {TheSubnet}
MCSubnetOf == [ip \in IP |-> TheSubnet]
MCReputation == [ip \in IP |-> 80]

Symmetry == Permutations(Thread)
=============================================================================
