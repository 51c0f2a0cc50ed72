---------------------------- MODULE MCRendering ----------------------------
(* Two SELECTs, of which the outer one and the writing statements embed    *)
(* the inner one; every form of item, and at least one item for every      *)
(* method.                                                                 *)
EXTENDS Derived

CONSTANTS v1, v2, v3

MCValues == {None, v1, v2, v3}
MCTables == {"t", "a"}

id == [attr |-> "id", column |-> "id"]
renamed == [attr |-> "at", column |-> "created_at"]
column == [form |-> "column", field |-> id]
everyRow == [form |-> "all"]
compared == [form |-> "predicate", op |-> "=", left |-> column, right |-> Value(v1)]
nullTest == [form |-> "predicate", op |-> "!=", left |-> column, right |-> Value(None)]
reversed == [form |-> "predicate", op |-> "=", left |-> Value(None), right |-> Value(v3)]
scaled == [form |-> "call", args |-> <<Value(v2), column>>]
listed == [form |-> "call", args |-> <<Value(v3), Value(v1)>>]
ranked == [form |-> "window", function |-> scaled, partition |-> <<listed>>, order |-> <<column>>]
inner == [form |-> "select", query |-> "inner"]
exists == [form |-> "wrapped", operand |-> inner]
joined == [form |-> "join", table |-> "a", lateral |-> <<>>, on |-> compared]
lateral == [form |-> "join", table |-> "l", lateral |-> <<inner>>, on |-> scaled]
common == [form |-> "cte", table |-> "common", recursive |-> FALSE, bodies |-> <<inner>>]
recursive == [form |-> "cte", table |-> "recursive", recursive |-> TRUE, bodies |-> <<inner, inner>>]
anchorless == [form |-> "cte", table |-> "recursive", recursive |-> TRUE, bodies |-> <<inner>>]

MCItems ==
    {Value(v) : v \in MCValues} \cup
    {column, everyRow, compared, nullTest, reversed, scaled, listed, ranked, inner,
     exists, joined, lateral, common, recursive, anchorless}

MCProjected == [inner |-> {<<>>, <<column>>, <<column, listed>>}, outer |-> {<<>>, <<scaled, inner>>}]

MCOffered ==
    [b \in {"inner", "outer", "INSERT", "UPDATE"} |->
        [m \in Methods \cup {"FOR_UPDATE"} |->
            CASE b = "inner" /\ m = "WHERE" -> {compared}
              [] b = "inner" /\ m = "DISTINCT_ON" -> {listed}
              [] b = "outer" /\ m = "WITH" -> {common, recursive, anchorless}
              [] b = "outer" /\ m = "JOIN" -> {joined, lateral}
              [] b = "outer" /\ m = "WHERE" -> {nullTest, reversed, exists, everyRow}
              [] b = "outer" /\ m = "GROUP_BY" -> {listed}
              [] b = "outer" /\ m = "HAVING" -> {compared}
              [] b = "outer" /\ m = "ORDER_BY" -> {ranked}
              [] b = "outer" /\ m = "DISTINCT_ON" -> {listed}
              [] b = "outer" /\ m = "UNION" -> {inner}
              [] b = "outer" /\ m = "FOR_UPDATE" -> {{}, {"a"}}
              [] b = "INSERT" /\ m = "SELECT" -> {inner}
              [] b = "UPDATE" /\ m = "SET" -> {Value(v1), scaled, inner}
              [] b = "UPDATE" /\ m = "WHERE" -> {compared, exists, everyRow}
              [] b = "UPDATE" /\ m = "RETURNING" -> {listed}
              [] OTHER -> {}]]

MCFields == [t |-> <<id>>, a |-> <<id, renamed>>]
MCBody == [common |-> "inner", recursive |-> "inner", l |-> "inner"]
MCGiven == [d \in DOMAIN MCBody |-> {<<"id", "n">>}]

MCObjects == {[key |-> None, fields |-> <<v1>>], [key |-> None, fields |-> <<v2>>],
              [key |-> v2, fields |-> <<v3>>]}

=============================================================================
