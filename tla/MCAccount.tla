------------------------------ MODULE MCAccount -------------------------------
(* Account for TLC: two logins of different accounts.                      *)
EXTENDS Account, TLC

CONSTANTS r1, r2, r3, l1, l2, ann, bob

FirstAnnThenBob == l1 :> ann @@ l2 :> bob

Symmetry == Permutations(Requests)
=============================================================================
