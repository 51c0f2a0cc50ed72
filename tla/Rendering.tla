----------------------------- MODULE Rendering -----------------------------
(***************************************************************************)
(* How a statement is rendered from its builder (src/cygnet/executor.py):  *)
(* a walk that writes the SQL text and, at each plain value it meets,      *)
(* appends the value to one params list shared by the whole statement and  *)
(* writes the placeholder $N for it.  The text is reduced to its           *)
(* placeholders: a token is the number written and the value the program   *)
(* put at that place.                                                      *)
(*                                                                         *)
(* The recursion of the code is a stack of frames, one per SELECT being    *)
(* rendered.  A frame holds the items still to render, in the code's       *)
(* order, each with the piece of the SELECT its text goes to: the pieces   *)
(* are rendered in one order and joined in another.                        *)
(***************************************************************************)
EXTENDS Builders

VARIABLES
    phase,    \* "idle", "rendering", "rendered"
    params,   \* the params list
    stack,    \* frames, the SELECT being rendered first
    text      \* the tokens of the finished statement

renderVars == <<phase, params, stack, text>>

vars == <<builderVars, renderVars>>

\* Predicate.render_sql rewrites a comparison with None to IS [NOT] NULL.
NullTest(e) ==
    /\ e.op \in {"=", "!=", "<>"}
    /\ e.right = Value(None)
    /\ e.left.form # "value"

\* Both sides of a comparison, a connective or an arithmetic operator, left first.
Compared(e) == IF NullTest(e) THEN <<e.left>> ELSE <<e.left, e.right>>

\* The function comes before its window.
Windowed(e) == <<e.function>> \o e.partition \o e.order

\* What rendering an expression renders, in order; <<>> for a column or a literal.
Operands(e) ==
    CASE e.form = "predicate" -> Compared(e)
      [] e.form = "call"      -> e.args
      [] e.form = "window"    -> Windowed(e)
      [] e.form = "wrapped"   -> <<e.operand>>
      [] e.form = "join"      -> e.lateral \o <<e.on>>
      [] e.form = "cte"       -> e.bodies
      [] OTHER                -> <<>>

Unfinished(e) == e.form = "cte" /\ e.recursive /\ Len(e.bodies) < 2

ASSUME ItemsAssumption ==
    \A e \in Items :
        /\ e.form # "row"
        /\ Operands(e) \in Seq(Items)
        /\ e.form = "value" => e.value \in Values
        /\ e.form = "select" => e.query \in Selects

----------------------------------------------------------------------------
(* What is rendered, in the order the code renders it.                     *)

Pieces == {"with", "distinct", "columns", "rest"}

On(piece, items) == [i \in DOMAIN items |-> [piece |-> piece, item |-> items[i]]]

IsAll(p) == p.form = "all"

Mixed(ps) == \E i, j \in DOMAIN ps : IsAll(ps[i]) /\ ~IsAll(ps[j])

\* _check_predicates, where it does not raise
Checked(ps) == IF \E i \in DOMAIN ps : IsAll(ps[i]) THEN <<>> ELSE ps

\* Mutant of SelectWork: the columns are rendered before the CTEs that precede them.
SelectWorkColumnsFirst(b) ==
    On("columns", b.columns)
    \o On("with", b.ctes)
    \o On("distinct", b.distinctOn)
    \o On("rest", b.joins \o Checked(b.predicates) \o b.group \o b.having
                  \o b.setOps \o b.order)

SelectWork(b) ==
    On("with", b.ctes)
    \o On("columns", b.columns)
    \o On("distinct", IF b.distinct THEN <<>> ELSE b.distinctOn)
    \o On("rest", b.joins \o Checked(b.predicates) \o b.group \o b.having
                  \o b.setOps \o b.order)

RefusesSelect(b) ==
    \/ b.from = None /\ (b.columns = <<>> \/ b.joins # <<>>)
    \/ Mixed(b.predicates)
    \/ /\ b.lock # None
       /\ ~(b.lock \subseteq {b.from} \cup {b.joins[i].table : i \in DOMAIN b.joins})

\* The rows of an INSERT.  The numbers of each are computed from the first row's width.
InsertRows ==
    IF ins.bulk # <<>>
    THEN [i \in DOMAIN ins.bulk |-> Inserted(ins.bulk[i])]
    ELSE <<ins.values>>

\* Mutant of RowWork: every row is numbered from $1.
RowWorkFromOne(rows) ==
    [i \in DOMAIN rows |->
        [piece |-> "rest",
         item |-> [form |-> "row", values |-> rows[i], width |-> Len(rows[1]), start |-> 0]]]

RowWork(rows) ==
    [i \in DOMAIN rows |->
        [piece |-> "rest",
         item |-> [form |-> "row", values |-> rows[i], width |-> Len(rows[1]),
                   start |-> (i - 1) * Len(rows[1])]]]

ConflictWork ==
    IF ins.conflict.action = "update"
    THEN On("rest", [i \in DOMAIN ins.conflict.set |-> Value(ins.conflict.set[i])])
    ELSE <<>>

InsertWork ==
    IF ins.source # <<>> THEN On("rest", ins.source) ELSE RowWork(InsertRows) \o ConflictWork

UpdateWork == On("rest", dml.set \o Checked(dml.predicates) \o dml.returning)

DeleteWork == On("rest", Checked(dml.predicates) \o dml.returning)

StatementWork ==
    CASE stmt = "SELECT" -> SelectWork(sel[Root])
      [] stmt = "INSERT" -> InsertWork
      [] stmt = "UPDATE" -> UpdateWork
      [] stmt = "DELETE" -> DeleteWork

SameShape(objs) ==
    \A i, j \in DOMAIN objs : (objs[i].key = None) = (objs[j].key = None)

RefusesInsert ==
    \/ ins.into = None
    \/ ins.conflict.action # "none" /\ (ins.source # <<>> \/ ins.bulk # <<>>)
    \/ ~SameShape(ins.bulk)

\* UPDATE and DELETE must say which rows they are for.
RefusesDML ==
    \/ dml.table = None
    \/ stmt = "UPDATE" /\ dml.set = <<>>
    \/ dml.predicates = <<>>
    \/ Mixed(dml.predicates)

RefusesStatement ==
    CASE stmt = "SELECT" -> RefusesSelect(sel[Root])
      [] stmt = "INSERT" -> RefusesInsert
      [] OTHER           -> RefusesDML

----------------------------------------------------------------------------
(* The walk.                                                               *)

Frame(work, into) == [todo |-> work, text |-> [p \in Pieces |-> <<>>], into |-> into]

\* Mutant of Assembled: the DISTINCT ON clause is left out of the text.
AssembledNoDistinct(f) == f.text["with"] \o f.text["columns"] \o f.text["rest"]

\* The order in which the pieces of a SELECT stand in its SQL.
Assembled(f) == f.text["with"] \o f.text["distinct"] \o f.text["columns"] \o f.text["rest"]

Top == stack[1]
Current == Top.todo[1].item

Written(f, piece, tokens) == [f EXCEPT !.text[piece] = @ \o tokens]

Advance(todo) == stack' = <<[Top EXCEPT !.todo = todo]>> \o Tail(stack)

Emit(tokens) ==
    stack' = <<Written([Top EXCEPT !.todo = Tail(@)], Top.todo[1].piece, tokens)>> \o Tail(stack)

Working == phase = "rendering" /\ Top.todo # <<>>

Render ==
    /\ phase = "idle"
    /\ ~RefusesStatement
    /\ phase' = "rendering"
    /\ params' = <<>>
    /\ stack' = <<Frame(StatementWork, "rest")>>
    /\ UNCHANGED text

Bind ==
    /\ Working
    /\ Current.form = "value"
    /\ params' = Append(params, Current.value)
    /\ Emit(<<[number |-> Len(params'), value |-> Current.value]>>)
    /\ UNCHANGED <<phase, text>>

BindRow ==
    /\ Working
    /\ Current.form = "row"
    /\ params' = params \o Current.values
    /\ Emit([j \in 1..Current.width |->
                [number |-> Current.start + j, value |-> Current.values[j]]])
    /\ UNCHANGED <<phase, text>>

\* An expression that renders its operands, if it has any.
Open ==
    /\ Working
    /\ Current.form \notin {"value", "row", "select"}
    /\ ~Unfinished(Current)
    /\ Advance(On(Top.todo[1].piece, Operands(Current)) \o Tail(Top.todo))
    /\ UNCHANGED <<phase, params, text>>

\* _render_select of a subquery, with the same params list.
Descend ==
    /\ Working
    /\ Current.form = "select"
    /\ ~RefusesSelect(sel[Current.query])
    /\ stack' = <<Frame(SelectWork(sel[Current.query]), Top.todo[1].piece),
                  [Top EXCEPT !.todo = Tail(@)]>> \o Tail(stack)
    /\ UNCHANGED <<phase, params, text>>

Return ==
    /\ phase = "rendering"
    /\ Top.todo = <<>>
    /\ Len(stack) > 1
    /\ stack' = <<Written(stack[2], Top.into, Assembled(Top))>> \o Tail(Tail(stack))
    /\ UNCHANGED <<phase, params, text>>

\* A refusal on the way abandons the params list; the builders are as they were.
Raise ==
    /\ Working
    /\ \/ Unfinished(Current)
       \/ Current.form = "select" /\ RefusesSelect(sel[Current.query])
    /\ phase' = "idle"
    /\ params' = <<>>
    /\ stack' = <<>>
    /\ UNCHANGED text

\* Mutant of Finish: the walk is not over when its statement is.
FinishKeepsStack ==
    /\ phase = "rendering"
    /\ Top.todo = <<>>
    /\ Len(stack) = 1
    /\ phase' = "rendered"
    /\ text' = Assembled(Top)
    /\ UNCHANGED <<params, stack>>

Finish ==
    /\ phase = "rendering"
    /\ Top.todo = <<>>
    /\ Len(stack) = 1
    /\ phase' = "rendered"
    /\ text' = Assembled(Top)
    /\ stack' = <<>>
    /\ UNCHANGED params

\* The statement goes to the adapter; its builder may be changed and awaited again.
Await ==
    /\ phase = "rendered"
    /\ phase' = "idle"
    /\ params' = <<>>
    /\ text' = <<>>
    /\ UNCHANGED stack

Walk == Bind \/ BindRow \/ Open \/ Descend \/ Return \/ Raise \/ Finish

Init ==
    /\ BuildersInit
    /\ phase = "idle"
    /\ params = <<>>
    /\ stack = <<>>
    /\ text = <<>>

Next ==
    \/ phase = "idle" /\ BuilderCall /\ UNCHANGED renderVars
    \/ (Render \/ Walk \/ Await) /\ UNCHANGED builderVars

Spec == Init /\ [][Next]_vars

----------------------------------------------------------------------------
Tokens == [number : Nat, value : Values]
RowItems == [form : {"row"}, values : Seq(Values), width : Nat, start : Nat]
WorkItems == [piece : Pieces, item : Items \cup RowItems]
Frames == [todo : Seq(WorkItems), text : [Pieces -> Seq(Tokens)], into : Pieces]

\* The builders and the walk are well formed, and there is work only while it renders.
RenderTypeOK ==
    /\ BuildersTypeOK
    /\ phase \in {"idle", "rendering", "rendered"}
    /\ params \in Seq(Values)
    /\ text \in Seq(Tokens)
    /\ stack \in Seq(Frames)
    /\ (phase = "rendering") <=> (stack # <<>>)

\* The values the two adapters give the k-th place: psycopg by position, asyncpg by number.
PsycopgGives(k) == params[k]
AsyncpgGives(k) == params[text[k].number]

(***************************************************************************)
(* Every placeholder names the value the program wrote there, across       *)
(* nested SELECTs, CTEs, set operations, rows and conflict clauses: the    *)
(* "$N numbering stays monotonic" that every comment of the renderer       *)
(* appeals to.                                                             *)
(***************************************************************************)
NumbersName ==
    phase = "rendered" =>
        \A k \in DOMAIN text :
            /\ text[k].number \in DOMAIN params
            /\ AsyncpgGives(k) = text[k].value

(***************************************************************************)
(* The statement uses each parameter exactly once: PostgreSQL refuses a    *)
(* statement whose parameters and placeholders differ in number.           *)
(***************************************************************************)
EachParameterOnce ==
    phase = "rendered" =>
        /\ Len(text) = Len(params)
        /\ {text[k].number : k \in DOMAIN text} = DOMAIN params

\* Placeholders stand in the text in the order of their numbers.
LeftToRight == phase = "rendered" => \A k \in DOMAIN text : text[k].number = k

(***************************************************************************)
(* PsycopgDB, which gives values by position, gives every place its value  *)
(* in a statement none of whose SELECTs has both DISTINCT ON and explicit  *)
(* columns.                                                                *)
(***************************************************************************)
PositionsName ==
    (phase = "rendered" /\ \A q \in Selects : sel[q].distinctOn = <<>> \/ sel[q].columns = <<>>)
        => \A k \in DOMAIN text : k \in DOMAIN params /\ PsycopgGives(k) = text[k].value

=============================================================================
