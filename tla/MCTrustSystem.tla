---------------------------- MODULE MCTrustSystem ----------------------------
(***************************************************************************)
(* Small instances of TrustSystem: each page's nonce is named like it.     *)
(***************************************************************************)
EXTENDS TrustSystem, TLC

CONSTANT TheSubnet

MCSubnetOf == [ip \in IP |-> TheSubnet]
MCReputation == [ip \in IP |-> 0]
MCSubnet == {TheSubnet}
MCNonceOf == [p \in Page |-> p]

Symmetry ==
    Permutations(Handler) \cup Permutations(ChallengeID) \cup Permutations(Page)
=============================================================================
