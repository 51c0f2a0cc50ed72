-------------------------- MODULE MCDefaultsCache --------------------------
(* Model-checking instance of DefaultsCache. *)
EXTENDS DefaultsCache, TLC

Symmetry == Permutations(Callers) \cup Permutations(Tables)

=============================================================================
