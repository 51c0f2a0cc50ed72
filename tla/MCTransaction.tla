--------------------------- MODULE MCTransaction ---------------------------
(* Model-checking instances of Transaction. *)
EXTENDS TransactionRefinement, TLC

\* For runs without temporal properties: which task, instance or row is which
\* makes no difference to the specification.
Symmetry == Permutations(Tasks) \cup Permutations(Insts)

=============================================================================
