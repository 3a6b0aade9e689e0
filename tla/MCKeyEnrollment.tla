-------------------------- MODULE MCKeyEnrollment --------------------------
(* Instances of KeyEnrollment for TLC. *)
EXTENDS KeyEnrollment, TLC

CONSTANTS d1, d2, alice, ledger, phone, other, k1, k2

\* The wallet keys of one account.
OneAccountOf == [w \in WalletKey |-> alice]

Symmetry == Permutations(Device) \cup Permutations(Key)

\* The ledger and the phone are alike.
WalletSymmetry == Symmetry \cup Permutations({ledger, phone})
=============================================================================
