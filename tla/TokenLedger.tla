----------------------------- MODULE TokenLedger -----------------------------
(***************************************************************************)
(* What the trust server promises a relying party about tokens, with no    *)
(* clock, no maps, no sweep and no challenges.  A token is a nonce with    *)
(* metadata.  Tokens are minted; a check of a token is begun only while    *)
(* its nonce is not spent, sees whether the token had been minted by then, *)
(* and ends by spending the nonce or by turning the token down.  A spent   *)
(* nonce may be forgotten, but never while a check of it is open: a check  *)
(* begun before the nonce was spent cannot outlive the memory of it.       *)
(*                                                                         *)
(* TrustServer shows that it implements this.                              *)
(***************************************************************************)
CONSTANTS Handler, Nonce, Meta, NoCheck

VARIABLES
    minted,    \* tokens that verify
    checking,  \* checking[h]: the check h has open, or NoCheck
    spent,     \* nonces refused for the time being
    accepted   \* tokens accepted so far

ledger == <<minted, checking, spent, accepted>>

Token == [nonce: Nonce, meta: Meta]
TokenOf(check) == [nonce |-> check.nonce, meta |-> check.meta]

Init ==
    /\ minted = {}
    /\ checking = [h \in Handler |-> NoCheck]
    /\ spent = {}
    /\ accepted = {}

Mint ==
    /\ \E token \in minted' : token \in Token /\ minted' = minted \cup {token}
    /\ UNCHANGED <<checking, spent, accepted>>

BeginCheck(h) ==
    /\ checking[h] = NoCheck
    /\ LET check == checking'[h]
       IN  /\ check \in [nonce: Nonce \ spent, meta: Meta, genuine: BOOLEAN]
           /\ check.genuine <=> TokenOf(check) \in minted
           /\ checking' = [checking EXCEPT ![h] = check]
    /\ UNCHANGED <<minted, spent, accepted>>

EndCheck(h) == checking' = [checking EXCEPT ![h] = NoCheck]

Accept(h) ==
    /\ checking[h] # NoCheck
    /\ checking[h].genuine
    /\ EndCheck(h)
    /\ spent' = spent \cup {checking[h].nonce}
    /\ accepted' = accepted \cup {TokenOf(checking[h])}
    /\ UNCHANGED minted

TurnDown(h) ==
    /\ checking[h] # NoCheck
    /\ ~checking[h].genuine
    /\ EndCheck(h)
    /\ UNCHANGED <<minted, spent, accepted>>

Forget ==
    /\ \E n \in spent :
          /\ \A h \in Handler : checking[h] # NoCheck => checking[h].nonce # n
          /\ spent' = spent \ {n}
    /\ UNCHANGED <<minted, checking, accepted>>

Next ==
    \/ Mint \/ Forget
    \/ \E h \in Handler : BeginCheck(h) \/ Accept(h) \/ TurnDown(h)

Spec == Init /\ [][Next]_ledger
=============================================================================
