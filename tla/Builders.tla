------------------------------ MODULE Builders ------------------------------
(***************************************************************************)
(* The query builders of src/cygnet/builders.py: mutable objects that      *)
(* collect clauses, in whatever order the program calls their methods,     *)
(* until a statement is rendered from them.  A program builds one          *)
(* statement here, of kind stmt, and the SELECTs that it embeds.  A call   *)
(* that raises leaves its builder as it was, so it is no step.             *)
(*                                                                         *)
(* A clause holds items: expressions, subqueries, joins, CTEs.  An item is *)
(* a record whose form says how it is rendered (module Rendering); which   *)
(* items a program passes to which method is given by Offered.  Arguments  *)
(* that emit text but no placeholder (LIMIT, OFFSET, lock modes, the FROM  *)
(* of an UPDATE, the USING of a DELETE) are left out.                      *)
(***************************************************************************)
EXTENDS Integers, Sequences

CONSTANTS
    Selects,     \* the SelectBuilders of the program
    Root,        \* the one that is the statement, when that is a SELECT
    Items,       \* everything that a renderer may be handed
    Projected,   \* Projected[q]: the column lists SELECT(db, ...) may be given
    Offered,     \* Offered[b][m]: what the program passes to method m of builder b
    Objects,     \* the model's instances: a key (None until the DB makes one), fields
    Values,      \* Python values that become parameters
    Tables,      \* names that FROM, INTO and OF refer to
    Aliased,     \* those of them that are aliases
    None,        \* Python's None, SQL's NULL
    MaxCalls,    \* bound: calls of builder methods
    MaxList      \* bound: length of a list of keywords or of objects

Methods == {"WITH", "JOIN", "WHERE", "GROUP_BY", "HAVING", "ORDER_BY", "DISTINCT_ON",
            "UNION", "SELECT", "SET", "RETURNING"}

Value(v) == [form |-> "value", value |-> v]

ASSUME BuildersAssumption ==
    /\ Root \in Selects
    /\ MaxCalls \in Nat
    /\ MaxList \in Nat
    /\ None \in Values
    /\ \A v \in Values : Value(v) \in Items
    /\ \A q \in Selects : Projected[q] \subseteq Seq(Items)
    /\ \A b \in Selects \cup {"INSERT", "UPDATE"}, m \in Methods : Offered[b][m] \subseteq Items
    /\ \A q \in Selects : Offered[q]["FOR_UPDATE"] \subseteq SUBSET Tables
    /\ \A o \in Objects : o.key \in Values /\ o.fields \in Seq(Values)
    /\ \A o, p \in Objects : Len(o.fields) = Len(p.fields)

VARIABLES
    stmt,    \* the kind of the statement under construction
    sel,     \* sel[q]: the SelectBuilder q
    ins,     \* the InsertBuilder
    dml,     \* the UpdateBuilder or the DeleteBuilder
    calls    \* calls left under the bound

builderVars == <<stmt, sel, ins, dml, calls>>

Lists(S) == UNION {[1..n -> S] : n \in 0..MaxList}

NewSelect(columns) ==
    [columns |-> columns, from |-> None, joins |-> <<>>, predicates |-> <<>>,
     group |-> <<>>, having |-> <<>>, order |-> <<>>, distinct |-> FALSE,
     distinctOn |-> <<>>, ctes |-> <<>>, setOps |-> <<>>, lock |-> None]

NewConflict ==
    [target |-> FALSE, constraint |-> FALSE, action |-> "none",
     set |-> <<>>, excluded |-> FALSE]

BuildersInit ==
    /\ stmt \in {"SELECT", "INSERT", "UPDATE", "DELETE"}
    /\ \E c \in [Selects -> UNION {Projected[q] : q \in Selects}] :
           /\ \A q \in Selects : c[q] \in Projected[q]
           /\ sel = [q \in Selects |-> NewSelect(c[q])]
    /\ ins = [into |-> None, values |-> <<>>, bulk |-> <<>>, source |-> <<>>,
              conflict |-> NewConflict]
    /\ dml = [table |-> None, set |-> <<>>, predicates |-> <<>>, returning |-> <<>>]
    /\ calls = MaxCalls

----------------------------------------------------------------------------
(* SelectBuilder.                                                          *)

OnSelect(q, changed) ==
    /\ sel' = [sel EXCEPT ![q] = changed]
    /\ UNCHANGED <<ins, dml>>

FROM(q) == \E t \in Tables : OnSelect(q, [sel[q] EXCEPT !.from = t])

\* The method is WITH, which TLA+ reserves.
WithCTE(q) ==
    \E c \in Offered[q]["WITH"] : OnSelect(q, [sel[q] EXCEPT !.ctes = Append(@, c)])

\* The JOIN family: a table, or a LATERAL subquery, and its ON.
JOIN(q) ==
    \E j \in Offered[q]["JOIN"] : OnSelect(q, [sel[q] EXCEPT !.joins = Append(@, j)])

WHERE(q) ==
    \E p \in Offered[q]["WHERE"] :
        OnSelect(q, [sel[q] EXCEPT !.predicates = Append(@, p)])

GROUP_BY(q) ==
    \E e \in Offered[q]["GROUP_BY"] :
        /\ sel[q].columns # <<>>
        /\ OnSelect(q, [sel[q] EXCEPT !.group = Append(@, e)])

\* cygnet.all is for rows, not for groups.
HAVING(q) ==
    \E p \in Offered[q]["HAVING"] :
        /\ p.form # "all"
        /\ OnSelect(q, [sel[q] EXCEPT !.having = Append(@, p)])

ORDER_BY(q) ==
    \E e \in Offered[q]["ORDER_BY"] :
        OnSelect(q, [sel[q] EXCEPT !.order = Append(@, e)])

DISTINCT(q) ==
    /\ sel[q].distinctOn = <<>>
    /\ OnSelect(q, [sel[q] EXCEPT !.distinct = TRUE])

DISTINCT_ON(q) ==
    \E e \in Offered[q]["DISTINCT_ON"] :
        /\ ~sel[q].distinct
        /\ OnSelect(q, [sel[q] EXCEPT !.distinctOn = <<e>>])

\* UNION, INTERSECT and EXCEPT_, with and without ALL.
SetOperation(q) ==
    \E e \in Offered[q]["UNION"] :
        OnSelect(q, [sel[q] EXCEPT !.setOps = Append(@, e)])

\* FOR_UPDATE and FOR_SHARE: one lock clause per SELECT.
Lock(q) ==
    \E of \in Offered[q]["FOR_UPDATE"] :
        /\ sel[q].lock = None
        /\ OnSelect(q, [sel[q] EXCEPT !.lock = of])

SelectCall(q) ==
    \/ FROM(q)
    \/ WithCTE(q)
    \/ JOIN(q)
    \/ WHERE(q)
    \/ GROUP_BY(q)
    \/ HAVING(q)
    \/ ORDER_BY(q)
    \/ DISTINCT(q)
    \/ DISTINCT_ON(q)
    \/ SetOperation(q)
    \/ Lock(q)

----------------------------------------------------------------------------
(* InsertBuilder.  Its row source is the single row of VALUES, the objects *)
(* of BULK_VALUES, or the SELECT of INSERT ... SELECT; <<>> when not given.*)

OnInsert(changed) ==
    /\ ins' = changed
    /\ UNCHANGED <<sel, dml>>

INTO == \E t \in Tables \ Aliased : OnInsert([ins EXCEPT !.into = t])

\* The columns an INSERT emits for an object: the key only once it has one.
Inserted(o) == IF o.key = None THEN o.fields ELSE <<o.key>> \o o.fields

\* Mutant of VALUES: VALUES after INSERT ... SELECT is not refused.
VALUESAfterSelect ==
    \E row \in {Inserted(o) : o \in Objects} \cup Lists(Values) :
        /\ ins.bulk = <<>>
        /\ OnInsert([ins EXCEPT !.values = row])

\* VALUES(obj) or VALUES(**kwargs); a second call replaces the first.
VALUES ==
    \E row \in {Inserted(o) : o \in Objects} \cup Lists(Values) :
        /\ ins.bulk = <<>>
        /\ ins.source = <<>>
        /\ OnInsert([ins EXCEPT !.values = row])

BULK_VALUES ==
    \E objs \in Lists(Objects) \ {<<>>} :
        /\ ins.values = <<>>
        /\ ins.source = <<>>
        /\ OnInsert([ins EXCEPT !.bulk = objs])

\* INSERT ... SELECT, with its target columns named.
INSERT_SELECT ==
    \E e \in Offered["INSERT"]["SELECT"] :
        /\ ins.values = <<>>
        /\ ins.bulk = <<>>
        /\ OnInsert([ins EXCEPT !.source = <<e>>])

\* _OnConflictSpec.__post_init__
Sound(spec) ==
    /\ ~(spec.target /\ spec.constraint)
    /\ spec.action = "update" =>
           /\ spec.target \/ spec.constraint
           /\ (spec.set # <<>>) # spec.excluded

Revise(spec) == Sound(spec) /\ OnInsert([ins EXCEPT !.conflict = spec])

\* Mutant of RequireNoAction: the last action wins.
RequireNothing == TRUE

RequireNoAction == ins.conflict.action = "none"

ON_CONFLICT == Revise([ins.conflict EXCEPT !.target = TRUE])

ON_CONFLICT_CONSTRAINT == Revise([ins.conflict EXCEPT !.constraint = TRUE])

ON_CONFLICT_DO_NOTHING ==
    RequireNoAction /\ Revise([ins.conflict EXCEPT !.action = "nothing"])

DO_NOTHING ==
    /\ RequireNoAction
    /\ ins.conflict.target \/ ins.conflict.constraint
    /\ Revise([ins.conflict EXCEPT !.action = "nothing"])

DO_UPDATE ==
    \E s \in Lists(Values) \ {<<>>} :
        /\ RequireNoAction
        /\ Revise([ins.conflict EXCEPT !.action = "update", !.set = s])

DO_UPDATE_FROM_EXCLUDED ==
    /\ RequireNoAction
    /\ Revise([ins.conflict EXCEPT !.action = "update", !.excluded = TRUE])

InsertCall ==
    \/ INTO
    \/ VALUES
    \/ BULK_VALUES
    \/ INSERT_SELECT
    \/ ON_CONFLICT
    \/ ON_CONFLICT_CONSTRAINT
    \/ ON_CONFLICT_DO_NOTHING
    \/ DO_NOTHING
    \/ DO_UPDATE
    \/ DO_UPDATE_FROM_EXCLUDED

----------------------------------------------------------------------------
(* UpdateBuilder and DeleteBuilder.                                        *)

OnDML(changed) ==
    /\ dml' = changed
    /\ UNCHANGED <<sel, ins>>

\* An object sets its fields and never its key.
Assigned(o) == [i \in DOMAIN o.fields |-> Value(o.fields[i])]

\* SET(table, obj, **kwargs): the object wins; a later SET replaces an earlier one.
SET ==
    \E t \in Tables \ Aliased :
    \E s \in {Assigned(o) : o \in Objects} \cup Lists(Offered["UPDATE"]["SET"]) :
        OnDML([dml EXCEPT !.table = t, !.set = s])

DELETE_FROM == \E t \in Tables \ Aliased : OnDML([dml EXCEPT !.table = t])

DML_WHERE ==
    \E p \in Offered["UPDATE"]["WHERE"] :
        OnDML([dml EXCEPT !.predicates = Append(@, p)])

RETURNING ==
    \E e \in Offered["UPDATE"]["RETURNING"] : OnDML([dml EXCEPT !.returning = <<e>>])

DMLCall ==
    \/ stmt = "UPDATE" /\ SET
    \/ stmt = "DELETE" /\ DELETE_FROM
    \/ DML_WHERE
    \/ RETURNING

BuilderCall ==
    /\ calls > 0
    /\ calls' = calls - 1
    /\ UNCHANGED stmt
    /\ \/ \E q \in Selects : (q # Root \/ stmt = "SELECT") /\ SelectCall(q)
       \/ stmt = "INSERT" /\ InsertCall
       \/ stmt \in {"UPDATE", "DELETE"} /\ DMLCall

----------------------------------------------------------------------------
SelectBuilders ==
    [columns : Seq(Items), joins : Seq(Items), predicates : Seq(Items), group : Seq(Items),
     having : Seq(Items), order : Seq(Items), distinctOn : Seq(Items), ctes : Seq(Items),
     setOps : Seq(Items), distinct : BOOLEAN, from : Tables \cup {None},
     lock : (SUBSET Tables) \cup {None}]

BuildersTypeOK ==
    /\ stmt \in {"SELECT", "INSERT", "UPDATE", "DELETE"}
    /\ sel \in [Selects -> SelectBuilders]
    /\ ins \in [into : Tables \cup {None}, values : Seq(Values), bulk : Seq(Objects),
               source : Seq(Items),
               conflict : [target : BOOLEAN, constraint : BOOLEAN, set : Seq(Values),
                           action : {"none", "nothing", "update"}, excluded : BOOLEAN]]
    /\ dml \in [table : Tables \cup {None}, set : Seq(Items), predicates : Seq(Items),
               returning : Seq(Items)]
    /\ calls \in 0..MaxCalls

(***************************************************************************)
(* Clauses of which SQL, or the library, admits one are never both present,*)
(* whatever the order of the calls: DISTINCT and DISTINCT ON, a conflict's *)
(* columns and its constraint, the three row sources of an INSERT (a       *)
(* render that finds two silently drops one, S36); and DO UPDATE always    *)
(* has a target.                                                           *)
(***************************************************************************)
ClausesAgree ==
    /\ \A q \in Selects : ~(sel[q].distinct /\ sel[q].distinctOn # <<>>)
    /\ ins.values = <<>> \/ ins.bulk = <<>>
    /\ ins.values = <<>> \/ ins.source = <<>>
    /\ ins.bulk = <<>> \/ ins.source = <<>>
    /\ ~(ins.conflict.target /\ ins.conflict.constraint)
    /\ ins.conflict.action = "update" => ins.conflict.target \/ ins.conflict.constraint

(***************************************************************************)
(* What a program asked to happen on a conflict is what the INSERT will    *)
(* do: once an action is chosen, no later call changes it or the values it *)
(* sets (S35).                                                             *)
(***************************************************************************)
ActionTerminal ==
    [][ins.conflict.action # "none" =>
           /\ ins'.conflict.action = ins.conflict.action
           /\ ins'.conflict.set = ins.conflict.set
           /\ ins'.conflict.excluded = ins.conflict.excluded]_builderVars

=============================================================================
