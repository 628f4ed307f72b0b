---------------------------- MODULE MCTrustServer ----------------------------
(***************************************************************************)
(* Small instances of TrustServer.  One subnet holds every address and all *)
(* addresses are residential, so the bucket moves with the request rate.   *)
(***************************************************************************)
EXTENDS TrustServer, TLC

CONSTANT TheSubnet

MCSubnetOf == [ip \in IP |-> TheSubnet]
MCReputation == [ip \in IP |-> 0]
MCSubnet == {TheSubnet}

Symmetry ==
    Permutations(Handler) \cup Permutations(ChallengeID) \cup Permutations(Nonce)
=============================================================================
