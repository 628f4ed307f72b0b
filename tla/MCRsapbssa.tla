------------------------------ MODULE MCRsapbssa ------------------------------
(***************************************************************************)
(* Keys of twelve bits in bytes of six: 47 * 59 is what GenerateKey finds. *)
(* Of the given keys, 23 * 59 has eleven bits and a p' that the derived    *)
(* exponent can hit, and 47 * 107 has one bit more than two bytes.  The    *)
(* samples hold multiples of the primes and both ends of their ranges.     *)
(***************************************************************************)
EXTENDS Rsapbssa

MCComponents == {<<23, 59>>, <<47, 107>>}
MCExpansions == {0, 3, 6, 11, 23, 29, 47, 63}
MCEncodings == {1, 94, 1000, 1357, 2047}
MCFactors == {0, 1, 47, 1001, 2772, 4095}
=============================================================================
