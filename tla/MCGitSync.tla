----------------------------- MODULE MCGitSync -----------------------------
(* Instances of GitSync for TLC. *)
EXTENDS GitSync, TLC

CONSTANTS d1, d2, e0, e1, e2, e3, prices, notes

\* All records go to one file; or each of two files has one of an older client's (e0, e3)
\* and one that a device writes (e2, e1), and one of the files is not JSON.
OneFileOf == [e \in Entry |-> prices]
TwoFileOf == [e \in Entry |-> IF e \in {e1, e3} THEN notes ELSE prices]

\* The older client's commit: whole, or with the markers of an unresolved merge.
CleanSeed == [f \in File |-> IF f = prices THEN {{e0}} ELSE {{}}]
DamagedSeed == [f \in File |-> IF f = prices THEN {{e0}, {}} ELSE {{}}]
TwoFileSeed == [f \in File |-> IF f = prices THEN {{e0}, {}} ELSE {{e3}}]

Symmetry == Permutations(Device)
=============================================================================
