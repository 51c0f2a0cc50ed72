------------------------------ MODULE Derived ------------------------------
(***************************************************************************)
(* Derived tables (src/cygnet/cte.py): a CTE, a recursive CTE or a LATERAL *)
(* subquery is made from a SelectBuilder and used like a table.  Its       *)
(* column names are settled when it is made, from the builder as it is     *)
(* then or from what the program says; its SELECT is rendered with every   *)
(* statement that uses it, from the builder as it is by then.              *)
(***************************************************************************)
EXTENDS Rendering
LOCAL INSTANCE SequencesExt

CONSTANTS
    Fields,     \* Fields[t]: the fields of table t, attribute and column names
    Body,       \* Body[d]: the SelectBuilder that derived table d is made from
    Recursive,  \* those of them that are recursive CTEs
    Given,      \* Given[d]: the columns=[...] that the program may pass
    Unnamed     \* what PostgreSQL calls the column of an expression

DerivedTables == DOMAIN Body

ASSUME DerivedAssumption ==
    /\ \A d \in DerivedTables : Body[d] \in Selects
    /\ \A t \in Tables : Fields[t] \in Seq({Fields[t][i] : i \in DOMAIN Fields[t]})

VARIABLE derived    \* derived[d]: None, or d's names and what they were taken from

derivedVars == <<vars, derived>>

DerivedInit == Init /\ derived = [d \in DerivedTables |-> None]

Seen(q) == [columns |-> sel[q].columns, from |-> sel[q].from, joins |-> sel[q].joins]

\* The derived tables that a SELECT uses in WITH and JOIN ... LATERAL.
Used(q) ==
    ({sel[q].ctes[i].table : i \in DOMAIN sel[q].ctes}
     \cup {sel[q].joins[i].table : i \in DOMAIN sel[q].joins}) \cap DerivedTables

AttrNames(fields) == [i \in DOMAIN fields |-> fields[i].attr]
ColumnNames(fields) == [i \in DOMAIN fields |-> fields[i].column]

IsColumn(e) == e.form = "column"

\* Mutant of Inferred: the FROM table's fields, whatever is projected.
InferredFromTable(q) ==
    IF sel[q].from = None THEN {} ELSE {AttrNames(Fields[sel[q].from])}

\* CTE._resolve_columns without columns=[...]; {} where it raises.
Inferred(q) ==
    LET columns == sel[q].columns
    IN  IF columns = <<>>
        THEN IF sel[q].from = None THEN {} ELSE {AttrNames(Fields[sel[q].from])}
        ELSE IF \A i \in DOMAIN columns : IsColumn(columns[i])
             THEN {[i \in DOMAIN columns |-> columns[i].field.attr]}
             ELSE {}

\* cte(), lateral() and recursive_cte(), which infers nothing.
Derive(d) ==
    /\ phase = "idle" /\ calls > 0
    /\ derived[d] = None
    /\ \E inferred \in BOOLEAN :
       \E names \in IF inferred THEN Inferred(Body[d]) ELSE Given[d] :
          /\ ~(inferred /\ d \in Recursive)
          /\ derived' = [derived EXCEPT ![d] =
                [names |-> names, inferred |-> inferred, seen |-> Seen(Body[d])]]
    /\ calls' = calls - 1
    /\ UNCHANGED <<stmt, sel, ins, dml, renderVars>>

\* Everything else; only what has been made can be used.
Otherwise ==
    /\ Next
    /\ \A q \in Selects : \A d \in Used(q)' : derived[d] # None
    /\ UNCHANGED derived

DerivedNext == Otherwise \/ \E d \in DerivedTables : Derive(d)

DerivedSpec == DerivedInit /\ [][DerivedNext]_derivedVars

----------------------------------------------------------------------------

\* The fields that a bare SELECT emits: FROM's, then each joined table's.
Emitted(q) ==
    LET joined(i) ==
            LET t == sel[q].joins[i].table
            IN  IF t \notin DerivedTables THEN Fields[t]
                ELSE [k \in DOMAIN derived[t].names |-> [column |-> derived[t].names[k]]]
    IN  Fields[sel[q].from] \o FlattenSeq([i \in DOMAIN sel[q].joins |-> joined(i)])

\* The column names of a SELECT that is not refused, as it would be rendered now.
Output(q) ==
    IF sel[q].columns = <<>> THEN ColumnNames(Emitted(q))
    ELSE [i \in DOMAIN sel[q].columns |->
             IF IsColumn(sel[q].columns[i]) THEN sel[q].columns[i].field.column ELSE Unnamed]

\* The columns of d's SELECT that PostgreSQL finds under d's i-th name: only a
\* recursive CTE is rendered with its names.
Denoted(d, i) ==
    LET out == Output(Body[d])
    IN  IF d \in Recursive THEN {i} \cap DOMAIN out
        ELSE {k \in DOMAIN out : out[k] = derived[d].names[i]}

NamesDenote(d) == \A i \in DOMAIN derived[d].names : Denoted(d, i) = {i}

\* A SELECT whose columns are called as their attributes are, each one once.
PlainlyNamed(q) ==
    LET fields == IF sel[q].columns = <<>> THEN Fields[sel[q].from]
                  ELSE [i \in DOMAIN sel[q].columns |-> sel[q].columns[i].field]
    IN  /\ AttrNames(fields) = ColumnNames(fields)
        /\ \A i, j \in DOMAIN fields : fields[i].column = fields[j].column => i = j

\* d's names are inferred, and since then FROM was not replaced and no table joined.
Untouched(d) ==
    LET q == Body[d]
    IN  /\ derived[d].inferred
        /\ derived[d].seen = Seen(q)
        /\ sel[q].columns # <<>> \/ sel[q].joins = <<>>

\* "CTE column names are inferred": each inferred name denotes its own column of
\* the SELECT, whichever clauses were added since, unless FROM was replaced, a
\* table joined, or a column is called otherwise than its attribute.
InferredDenote ==
    \A d \in DerivedTables :
        (derived[d] # None /\ Untouched(d) /\ PlainlyNamed(Body[d])) => NamesDenote(d)

\* "For inner SELECTs that use opaque expressions, pass columns=[...]": in every
\* statement that uses a derived table with a name for each column, each name
\* denotes its column.
DerivedNamesDenote ==
    (phase = "rendered" /\ stmt = "SELECT") => \A d \in Used(Root) :
        Len(derived[d].names) = Len(Output(Body[d])) => NamesDenote(d)

=============================================================================
