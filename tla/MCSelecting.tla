---------------------------- MODULE MCSelecting ----------------------------
(* Model-checking instance of Selecting: table a has two columns and its key *)
(* second, with a row whose other column is NULL; b and c have their key     *)
(* first; w is a CTE.                                                        *)
EXTENDS Selecting

CONSTANTS a, b, c, w

MCWidth == [s \in Sources |-> IF s = b THEN 1 ELSE 2]
MCKeyAt == [s \in Tables |-> IF s = a THEN 2 ELSE 1]
MCRows == [s \in Sources |->
    CASE s = a -> {<<None, "a1">>, <<"x", "a2">>}
      [] s = b -> {<<"b1">>}
      [] s = c -> {<<"c1", "y">>}
      [] s = w -> {<<"w1", None>>}]

=============================================================================
