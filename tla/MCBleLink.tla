----------------------------- MODULE MCBleLink -----------------------------
(***************************************************************************)
(* Small instances of BleLink.                                             *)
(***************************************************************************)
EXTENDS BleLinkProps, TLC

CONSTANTS p1, p2
SymmetricPhones == Permutations(Phones)
=============================================================================
