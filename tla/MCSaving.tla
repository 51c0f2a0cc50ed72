------------------------------ MODULE MCSaving ------------------------------
(* Model-checking instance of Saving: column stamp has a DEFAULT at first,   *)
(* a migration moves the DEFAULT to column kind.                             *)
EXTENDS Saving, TLC

CONSTANTS o1, o2, stamp, kind

MCDefaultsAt == [v \in Versions |-> IF v = 0 THEN Cols \cap {stamp} ELSE Cols \cap {kind}]
MCBatches == {<<o1, o2>>, <<o2, o1>>}

Symmetry == Permutations(Callers) \cup Permutations(Objs)

=============================================================================
