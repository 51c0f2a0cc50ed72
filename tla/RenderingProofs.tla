-------------------------- MODULE RenderingProofs --------------------------
(***************************************************************************)
(* Proofs about Rendering: whatever a program builds and however deep its  *)
(* subqueries go, every placeholder names its value.  The invariant says   *)
(* so of every token written so far, in every frame of the walk, and adds  *)
(* what the rows of an INSERT need, whose numbers are not taken from the   *)
(* params list but computed: the rows still to bind come first, and the    *)
(* next one starts where the list ends.  Two more invariants follow the    *)
(* numbers themselves: none is written twice or not at all, and, DISTINCT  *)
(* ON apart, they rise in the order of the text.                           *)
(***************************************************************************)
EXTENDS Rendering, FiniteSetTheorems, SequenceTheorems, TLAPS

Named(t, ps) == t.number \in 1..Len(ps) /\ ps[t.number] = t.value

AllNamed(ts, ps) == \A k \in DOMAIN ts : Named(ts[k], ps)

NoRows(todo) == \A k \in DOMAIN todo : todo[k].item.form # "row"

\* The rows of a list come first and are numbered on from n.
Aligned(todo, n) ==
    \A k \in DOMAIN todo :
        todo[k].item.form = "row" =>
            /\ \A j \in 1..k : todo[j].item.form = "row"
            /\ todo[k].item.width = Len(todo[k].item.values)
            /\ todo[k].item.start =
                   IF k = 1 THEN n ELSE todo[k-1].item.start + todo[k-1].item.width

TextsNamed == \A i \in DOMAIN stack, p \in Pieces : AllNamed(stack[i].text[p], params)

RowsLeft ==
    /\ \A i \in DOMAIN stack : i > 1 => NoRows(stack[i].todo)
    /\ stack # <<>> => Aligned(Top.todo, Len(params))

Assembly == phase = "rendered" => AllNamed(text, params)

IInv == RenderTypeOK /\ TextsNamed /\ RowsLeft /\ Assembly

----------------------------------------------------------------------------
(* Sequences.                                                              *)

LEMMA ConcatAt ==
    ASSUME NEW S, NEW a \in Seq(S), NEW b \in Seq(S)
    PROVE  /\ a \o b \in Seq(S)
           /\ \A k \in DOMAIN (a \o b) :
                  \/ k \in DOMAIN a /\ (a \o b)[k] = a[k]
                  \/ k - Len(a) \in DOMAIN b /\ (a \o b)[k] = b[k - Len(a)]
<1> DEFINE c == a \o b
<1>1. /\ c \in Seq(S) /\ Len(c) = Len(a) + Len(b)
      /\ \A i \in 1..(Len(a) + Len(b)) : c[i] = IF i <= Len(a) THEN a[i] ELSE b[i - Len(a)]
  BY ConcatProperties
<1> HIDE DEF c
<1>2. \A k \in DOMAIN c :
          \/ k \in DOMAIN a /\ c[k] = a[k]
          \/ k - Len(a) \in DOMAIN b /\ c[k] = b[k - Len(a)]
  BY <1>1
<1>. QED  BY <1>1, <1>2 DEF c

LEMMA TailAt ==
    ASSUME NEW S, NEW s \in Seq(S), s # <<>>
    PROVE  /\ Tail(s) \in Seq(S) /\ Len(Tail(s)) = Len(s) - 1
           /\ \A i \in 1..Len(Tail(s)) : Tail(s)[i] = s[i+1]
  OBVIOUS

LEMMA ReplaceHead ==
    ASSUME NEW S, NEW s \in Seq(S), s # <<>>, NEW x \in S
    PROVE  LET t == <<x>> \o Tail(s) IN
           /\ t \in Seq(S) /\ Len(t) = Len(s) /\ t # <<>>
           /\ t[1] = x
           /\ \A i \in DOMAIN t : i > 1 => i \in DOMAIN s /\ t[i] = s[i]
<1> DEFINE q == Tail(s)
           t == <<x>> \o q
<1>1. q \in Seq(S) /\ Len(q) = Len(s) - 1 /\ \A i \in 1..Len(q) : q[i] = s[i+1]
  BY TailAt
<1> HIDE DEF q
<1>2. \A i \in DOMAIN t : i > 1 => i - 1 \in 1..Len(q) /\ t[i] = q[i-1]
  BY <1>1
<1>3. t \in Seq(S) /\ t # <<>> /\ t[1] = x /\ Len(t) = 1 + Len(q) /\ DOMAIN t = 1..Len(t)
  BY <1>1
<1> HIDE DEF t
<1>4. \A i \in DOMAIN t : i > 1 => i \in DOMAIN s /\ t[i] = s[i]
  BY <1>1, <1>2, <1>3
<1>. QED  BY <1>1, <1>3, <1>4 DEF t, q

LEMMA PushHead ==
    ASSUME NEW S, NEW s \in Seq(S), s # <<>>, NEW x \in S, NEW y \in S
    PROVE  LET t == <<x, y>> \o Tail(s) IN
           /\ t \in Seq(S) /\ Len(t) = Len(s) + 1 /\ t # <<>>
           /\ t[1] = x /\ t[2] = y
           /\ \A i \in DOMAIN t : i > 2 => i - 1 \in DOMAIN s /\ i - 1 > 1 /\ t[i] = s[i-1]
  OBVIOUS

LEMMA PopHead ==
    ASSUME NEW S, NEW s \in Seq(S), Len(s) > 1, NEW x \in S
    PROVE  LET t == <<x>> \o Tail(Tail(s)) IN
           /\ t \in Seq(S) /\ t # <<>> /\ Len(t) = Len(s) - 1
           /\ t[1] = x
           /\ \A i \in DOMAIN t : i > 1 => i + 1 \in DOMAIN s /\ t[i] = s[i+1]
<1> DEFINE q == Tail(s)
           r == Tail(q)
           t == <<x>> \o r
<1>1. q \in Seq(S) /\ Len(q) = Len(s) - 1 /\ \A i \in 1..Len(q) : q[i] = s[i+1]
  OBVIOUS
<1> HIDE DEF q
<1>2. r \in Seq(S) /\ Len(r) = Len(q) - 1 /\ \A i \in 1..Len(r) : r[i] = q[i+1]
  BY <1>1
<1> HIDE DEF r
<1>3. \A i \in DOMAIN t : i > 1 => i - 1 \in 1..Len(r) /\ t[i] = r[i-1]
  BY <1>2
<1>4. t \in Seq(S) /\ t # <<>> /\ t[1] = x /\ DOMAIN t = 1..(1 + Len(r)) /\ Len(t) = 1 + Len(r)
  BY <1>2
<1> HIDE DEF t
<1>6. Len(t) = Len(s) - 1
  BY <1>1, <1>2, <1>4
<1>5. ASSUME NEW i \in DOMAIN t, i > 1
      PROVE  i + 1 \in DOMAIN s /\ t[i] = s[i+1]
  <2>1. i \in Nat /\ i - 1 \in 1..Len(r) /\ t[i] = r[i-1]
    BY <1>3, <1>4, <1>5
  <2>2. Len(q) \in Nat /\ Len(s) \in Nat /\ Len(r) \in Nat
    BY <1>1, <1>2
  <2>3. (i - 1) + 1 = i /\ i <= Len(r) + 1
    BY <2>1, <2>2
  <2>4. r[i-1] = q[i]
    BY <1>2, <2>1, <2>3
  <2>5. i \in 1..Len(q) /\ i + 1 \in 1..Len(s)
    BY <1>1, <1>2, <2>1, <2>2, <2>3
  <2>. QED  BY <1>1, <2>1, <2>4, <2>5
<1>. QED  BY <1>4, <1>5, <1>6 DEF t, r, q

\* What the list already holds keeps its place as it grows.
LEMMA NamedGrow ==
    ASSUME NEW ts \in Seq(Tokens), NEW ps \in Seq(Values), NEW more \in Seq(Values),
           AllNamed(ts, ps)
    PROVE  AllNamed(ts, ps \o more)
  BY DEF AllNamed, Named, Tokens

LEMMA NamedConcat ==
    ASSUME NEW a \in Seq(Tokens), NEW b \in Seq(Tokens), NEW ps \in Seq(Values),
           AllNamed(a, ps), AllNamed(b, ps)
    PROVE  AllNamed(a \o b, ps)
<1>1. \A k \in DOMAIN (a \o b) :
          \/ k \in DOMAIN a /\ (a \o b)[k] = a[k]
          \/ k - Len(a) \in DOMAIN b /\ (a \o b)[k] = b[k - Len(a)]
  BY ConcatAt
<1> SUFFICES ASSUME NEW k \in DOMAIN (a \o b)
             PROVE  Named((a \o b)[k], ps)
  BY DEF AllNamed
<1>2. CASE k \in DOMAIN a /\ (a \o b)[k] = a[k]
  BY <1>2 DEF AllNamed
<1>3. CASE k - Len(a) \in DOMAIN b /\ (a \o b)[k] = b[k - Len(a)]
  BY <1>3 DEF AllNamed
<1>. QED  BY <1>1, <1>2, <1>3

LEMMA OnWork ==
    ASSUME NEW piece \in Pieces, NEW items \in Seq(Items)
    PROVE  On(piece, items) \in Seq(WorkItems) /\ NoRows(On(piece, items))
<1>1. \A i \in DOMAIN items : items[i] \in Items
  OBVIOUS
<1>2. DOMAIN items = 1..Len(items) /\ Len(items) \in Nat
  OBVIOUS
<1>3. On(piece, items) \in [1..Len(items) -> WorkItems]
  BY <1>1, <1>2 DEF On, WorkItems
<1>. QED  BY <1>1, <1>2, <1>3, ItemsAssumption DEF On, NoRows

LEMMA NoRowsConcat ==
    ASSUME NEW a \in Seq(WorkItems), NEW b \in Seq(WorkItems), NoRows(a), NoRows(b)
    PROVE  a \o b \in Seq(WorkItems) /\ NoRows(a \o b)
<1>1. a \o b \in Seq(WorkItems)
  OBVIOUS
<1>2. ASSUME NEW k \in DOMAIN (a \o b)
      PROVE  (a \o b)[k].item.form # "row"
  <2>1. CASE k \in DOMAIN a
    BY <2>1 DEF NoRows
  <2>2. CASE k \notin DOMAIN a
    <3>1. k - Len(a) \in DOMAIN b /\ (a \o b)[k] = b[k - Len(a)]
      BY <2>2
    <3>. QED  BY <3>1 DEF NoRows
  <2>. QED  BY <2>1, <2>2
<1>. QED  BY <1>1, <1>2 DEF NoRows

LEMMA NoRowsAligned ==
    ASSUME NEW todo, NEW n, NoRows(todo)
    PROVE  Aligned(todo, n)
  BY DEF NoRows, Aligned

\* A list whose first item is no row has none.
LEMMA RowsComeFirst ==
    ASSUME NEW todo \in Seq(WorkItems), NEW n, Aligned(todo, n), todo # <<>>,
           todo[1].item.form # "row"
    PROVE  NoRows(todo) /\ NoRows(Tail(todo)) /\ Tail(todo) \in Seq(WorkItems)
<1>1. NoRows(todo)
  BY DEF Aligned, NoRows
<1>2. \A k \in DOMAIN Tail(todo) : k + 1 \in DOMAIN todo /\ Tail(todo)[k] = todo[k+1]
  OBVIOUS
<1>. QED  BY <1>1, <1>2 DEF NoRows

----------------------------------------------------------------------------
(* What is to be rendered.                                                 *)

LEMMA CheckedItems ==
    ASSUME NEW ps \in Seq(Items)
    PROVE  Checked(ps) \in Seq(Items)
  BY DEF Checked

LEMMA SelectWorkOK ==
    ASSUME NEW b \in SelectBuilders
    PROVE  SelectWork(b) \in Seq(WorkItems) /\ NoRows(SelectWork(b))
<1> DEFINE with == On("with", b.ctes)
           columns == On("columns", b.columns)
           distinct == On("distinct", IF b.distinct THEN <<>> ELSE b.distinctOn)
           body == b.joins \o Checked(b.predicates) \o b.group \o b.having
                       \o b.setOps \o b.order
           rest == On("rest", body)
<1>1. with \in Seq(WorkItems) /\ NoRows(with)
  BY OnWork DEF SelectBuilders, Pieces
<1>2. columns \in Seq(WorkItems) /\ NoRows(columns)
  BY OnWork DEF SelectBuilders, Pieces
<1>3. distinct \in Seq(WorkItems) /\ NoRows(distinct)
  <2>1. (IF b.distinct THEN <<>> ELSE b.distinctOn) \in Seq(Items)
    BY DEF SelectBuilders
  <2>. QED  BY <2>1, OnWork DEF Pieces
<1>4. rest \in Seq(WorkItems) /\ NoRows(rest)
  <2>1. /\ b.joins \in Seq(Items) /\ b.group \in Seq(Items) /\ b.having \in Seq(Items)
        /\ b.setOps \in Seq(Items) /\ b.order \in Seq(Items) /\ b.predicates \in Seq(Items)
    BY DEF SelectBuilders
  <2>2. Checked(b.predicates) \in Seq(Items)
    BY <2>1, CheckedItems
  <2>3. body \in Seq(Items)
    BY <2>1, <2>2
  <2> HIDE DEF body
  <2>. QED  BY <2>3, OnWork DEF Pieces
<1>5. SelectWork(b) = with \o columns \o distinct \o rest
  BY DEF SelectWork
<1> HIDE DEF with, columns, distinct, rest
<1>6. with \o columns \in Seq(WorkItems) /\ NoRows(with \o columns)
  BY <1>1, <1>2, NoRowsConcat
<1>7. with \o columns \o distinct \in Seq(WorkItems) /\ NoRows(with \o columns \o distinct)
  BY <1>3, <1>6, NoRowsConcat
<1>. QED  BY <1>4, <1>5, <1>7, NoRowsConcat

LEMMA InsertedValues ==
    ASSUME NEW o \in Objects
    PROVE  Inserted(o) \in Seq(Values)
<1>1. o.fields \in Seq(Values) /\ o.key \in Values
  BY BuildersAssumption
<1>. QED  BY <1>1 DEF Inserted

LEMMA InsertedWidth ==
    ASSUME NEW o \in Objects, NEW p \in Objects, (o.key = None) = (p.key = None)
    PROVE  Len(Inserted(o)) = Len(Inserted(p))
<1>1. /\ o.fields \in Seq(Values) /\ p.fields \in Seq(Values)
      /\ o.key \in Values /\ p.key \in Values /\ Len(o.fields) = Len(p.fields)
  BY BuildersAssumption
<1>2. CASE o.key = None
  BY <1>1, <1>2 DEF Inserted
<1>3. CASE o.key # None
  BY <1>1, <1>3 DEF Inserted
<1>. QED  BY <1>2, <1>3

\* The rows a statement that is not refused binds have one width.
LEMMA InsertRowsOK ==
    ASSUME BuildersTypeOK, SameShape(ins.bulk)
    PROVE  /\ InsertRows \in Seq(Seq(Values))
           /\ \A i \in DOMAIN InsertRows : Len(InsertRows[i]) = Len(InsertRows[1])
<1>1. ins.bulk \in Seq(Objects) /\ ins.values \in Seq(Values)
  BY DEF BuildersTypeOK
<1>2. CASE ins.bulk = <<>>
  BY <1>1, <1>2 DEF InsertRows
<1>3. CASE ins.bulk # <<>>
  <2>1. InsertRows = [i \in DOMAIN ins.bulk |-> Inserted(ins.bulk[i])]
    BY <1>3 DEF InsertRows
  <2>2. \A i \in DOMAIN ins.bulk : ins.bulk[i] \in Objects
    BY <1>1
  <2>3. DOMAIN ins.bulk = 1..Len(ins.bulk) /\ Len(ins.bulk) \in Nat /\ 1 \in DOMAIN ins.bulk
    BY <1>1, <1>3
  <2>4. InsertRows \in [1..Len(ins.bulk) -> Seq(Values)]
    BY <2>1, <2>2, <2>3, InsertedValues
  <2>5. \A i \in DOMAIN ins.bulk : Len(Inserted(ins.bulk[i])) = Len(Inserted(ins.bulk[1]))
    BY <2>2, <2>3, InsertedWidth DEF SameShape
  <2>. QED  BY <2>1, <2>3, <2>4, <2>5
<1>. QED  BY <1>2, <1>3

LEMMA RowStep ==
    ASSUME NEW k \in Nat, NEW w \in Nat, k > 1
    PROVE  (k - 1) * w = (k - 1 - 1) * w + w /\ (k - 1) * w \in Nat
  OBVIOUS

LEMMA RowWorkOK ==
    ASSUME NEW rows \in Seq(Seq(Values)),
           \A i \in DOMAIN rows : Len(rows[i]) = Len(rows[1])
    PROVE  RowWork(rows) \in Seq(WorkItems) /\ Aligned(RowWork(rows), 0)
<1> DEFINE w == Len(rows[1])
           item(i) == [form |-> "row", values |-> rows[i], width |-> w, start |-> (i - 1) * w]
<1>1. DOMAIN rows = 1..Len(rows) /\ Len(rows) \in Nat
  OBVIOUS
<1>2. \A i \in DOMAIN rows : rows[i] \in Seq(Values) /\ w \in Nat /\ Len(rows[i]) = w
  BY <1>1
<1>3. RowWork(rows) = [i \in DOMAIN rows |-> [piece |-> "rest", item |-> item(i)]]
  BY DEF RowWork
<1> HIDE DEF w
<1>4. \A i \in DOMAIN rows : (i - 1) * w \in Nat
  <2> TAKE i \in DOMAIN rows
  <2>1. CASE i = 1
    BY <2>1, <1>2
  <2>2. CASE i > 1
    BY <2>2, <1>1, <1>2, RowStep
  <2>. QED  BY <2>1, <2>2, <1>1
<1>5. \A i \in DOMAIN rows : item(i) \in RowItems
  BY <1>2, <1>4 DEF RowItems
<1>6. \A i \in DOMAIN rows : [piece |-> "rest", item |-> item(i)] \in WorkItems
  BY <1>5 DEF WorkItems, Pieces
<1>7. RowWork(rows) \in Seq(WorkItems)
  BY <1>1, <1>3, <1>6
<1>8. ASSUME NEW k \in DOMAIN rows
      PROVE  item(k).start = IF k = 1 THEN 0 ELSE item(k-1).start + item(k-1).width
  <2>1. CASE k = 1
    <3>1. (1 - 1) * w = 0
      BY <1>2
    <3>. QED  BY <2>1, <3>1
  <2>2. CASE k # 1
    <3>1. (k - 1) * w = (k - 1 - 1) * w + w
      BY <2>2, <1>1, <1>2, RowStep
    <3>. QED  BY <2>2, <3>1
  <2>. QED  BY <2>1, <2>2
<1>9. \A k \in DOMAIN rows : \A j \in 1..k : j \in DOMAIN rows
  BY <1>1
<1>10. \A k \in DOMAIN rows : k # 1 => k - 1 \in DOMAIN rows
  BY <1>1
<1>11. \A k \in DOMAIN rows : RowWork(rows)[k].item = item(k)
  BY <1>3
<1>12. \A k \in DOMAIN rows : item(k).form = "row" /\ item(k).width = Len(item(k).values)
  BY <1>2
<1>13. DOMAIN RowWork(rows) = DOMAIN rows
  BY <1>3
<1> HIDE DEF item
<1>14. Aligned(RowWork(rows), 0)
  BY <1>8, <1>9, <1>10, <1>11, <1>12, <1>13 DEF Aligned
<1>. QED  BY <1>7, <1>14

LEMMA AlignedConcat ==
    ASSUME NEW a \in Seq(WorkItems), NEW b \in Seq(WorkItems), NEW n,
           Aligned(a, n), NoRows(b)
    PROVE  Aligned(a \o b, n)
<1>1. \A k \in DOMAIN (a \o b) :
          \/ k \in DOMAIN a /\ (a \o b)[k] = a[k]
          \/ k - Len(a) \in DOMAIN b /\ (a \o b)[k] = b[k - Len(a)]
  BY ConcatAt
<1> SUFFICES ASSUME NEW k \in DOMAIN (a \o b), (a \o b)[k].item.form = "row"
             PROVE  /\ \A j \in 1..k : (a \o b)[j].item.form = "row"
                    /\ (a \o b)[k].item.width = Len((a \o b)[k].item.values)
                    /\ (a \o b)[k].item.start =
                         IF k = 1 THEN n
                         ELSE (a \o b)[k-1].item.start + (a \o b)[k-1].item.width
  BY DEF Aligned
<1>2. k \in DOMAIN a
  BY <1>1 DEF NoRows
<1>3. \A j \in 1..k : (a \o b)[j] = a[j]
  BY <1>2
<1>4. k \in 1..k /\ (k # 1 => k - 1 \in 1..k)
  BY <1>2
<1>. QED  BY <1>2, <1>3, <1>4 DEF Aligned

LEMMA ConflictWorkOK ==
    ASSUME BuildersTypeOK
    PROVE  ConflictWork \in Seq(WorkItems) /\ NoRows(ConflictWork)
<1> DEFINE items == [i \in DOMAIN ins.conflict.set |-> Value(ins.conflict.set[i])]
<1>1. ins.conflict.set \in Seq(Values)
  BY DEF BuildersTypeOK
<1>2. items \in Seq(Items)
  BY <1>1, BuildersAssumption
<1> HIDE DEF items
<1>3. On("rest", items) \in Seq(WorkItems) /\ NoRows(On("rest", items))
  BY <1>2, OnWork DEF Pieces
<1>4. ConflictWork = IF ins.conflict.action = "update" THEN On("rest", items) ELSE <<>>
  BY DEF ConflictWork, items
<1>. QED  BY <1>3, <1>4 DEF NoRows

LEMMA StatementWorkOK ==
    ASSUME BuildersTypeOK, ~RefusesStatement
    PROVE  StatementWork \in Seq(WorkItems) /\ Aligned(StatementWork, 0)
<1>1. CASE stmt = "SELECT"
  <2>1. sel[Root] \in SelectBuilders
    BY BuildersAssumption DEF BuildersTypeOK
  <2>2. StatementWork = SelectWork(sel[Root])
    BY <1>1 DEF StatementWork, InsertWork, UpdateWork, DeleteWork
  <2>. QED  BY <2>1, <2>2, SelectWorkOK, NoRowsAligned
<1>2. CASE stmt = "INSERT"
  <2>1. CASE ins.source # <<>>
    <3>1. StatementWork = On("rest", ins.source)
      BY <1>2, <2>1 DEF StatementWork, InsertWork, UpdateWork, DeleteWork
    <3>2. ins.source \in Seq(Items)
      BY DEF BuildersTypeOK
    <3>. QED  BY <3>1, <3>2, OnWork, NoRowsAligned DEF Pieces
  <2>2. CASE ins.source = <<>>
    <3>1. StatementWork = RowWork(InsertRows) \o ConflictWork
      BY <1>2, <2>2 DEF StatementWork, InsertWork, UpdateWork, DeleteWork
    <3>2. SameShape(ins.bulk)
      BY <1>2 DEF RefusesStatement, RefusesInsert
    <3>3. RowWork(InsertRows) \in Seq(WorkItems) /\ Aligned(RowWork(InsertRows), 0)
      BY <3>2, InsertRowsOK, RowWorkOK
    <3>. QED  BY <3>1, <3>3, ConflictWorkOK, AlignedConcat, ConcatAt
  <2>. QED  BY <2>1, <2>2
<1>3. CASE stmt = "UPDATE"
  <2>1. dml.set \o Checked(dml.predicates) \o dml.returning \in Seq(Items)
    BY CheckedItems DEF BuildersTypeOK
  <2>2. StatementWork = On("rest", dml.set \o Checked(dml.predicates) \o dml.returning)
    BY <1>3 DEF StatementWork, InsertWork, UpdateWork, DeleteWork
  <2>. QED  BY <2>1, <2>2, OnWork, NoRowsAligned DEF Pieces
<1>4. CASE stmt = "DELETE"
  <2>1. Checked(dml.predicates) \o dml.returning \in Seq(Items)
    BY CheckedItems DEF BuildersTypeOK
  <2>2. StatementWork = On("rest", Checked(dml.predicates) \o dml.returning)
    BY <1>4 DEF StatementWork, InsertWork, UpdateWork, DeleteWork
  <2>. QED  BY <2>1, <2>2, OnWork, NoRowsAligned DEF Pieces
<1>. QED  BY <1>1, <1>2, <1>3, <1>4 DEF BuildersTypeOK

----------------------------------------------------------------------------
(* The builders.                                                           *)

LEMMA ListsAreSequences ==
    ASSUME NEW S
    PROVE  Lists(S) \subseteq Seq(S)
  BY BuildersAssumption DEF Lists

LEMMA BuildersStart == BuildersInit => BuildersTypeOK
<1> SUFFICES ASSUME BuildersInit
             PROVE  BuildersTypeOK
  OBVIOUS
<1>1. ASSUME NEW columns \in Seq(Items)
      PROVE  NewSelect(columns) \in SelectBuilders
  BY DEF NewSelect, SelectBuilders
<1>2. sel \in [Selects -> SelectBuilders]
  BY <1>1, BuildersAssumption DEF BuildersInit
<1>. QED  BY <1>2, BuildersAssumption DEF BuildersInit, BuildersTypeOK, NewConflict

LEMMA SelectCallTypes ==
    ASSUME BuildersTypeOK, NEW q \in Selects, SelectCall(q)
    PROVE  sel' \in [Selects -> SelectBuilders] /\ UNCHANGED <<ins, dml>>
<1>1. sel[q] \in SelectBuilders /\ sel \in [Selects -> SelectBuilders]
  BY DEF BuildersTypeOK
<1>2. \A m \in Methods : \A e \in Offered[q][m] : e \in Items
  BY BuildersAssumption
<1>3. \A s \in Seq(Items), e \in Items : Append(s, e) \in Seq(Items)
  OBVIOUS
<1>4. ASSUME NEW changed \in SelectBuilders, OnSelect(q, changed)
      PROVE  sel' \in [Selects -> SelectBuilders] /\ UNCHANGED <<ins, dml>>
  BY <1>1, <1>4 DEF OnSelect
<1>5. CASE FROM(q)
  <2>1. \A t \in Tables : [sel[q] EXCEPT !.from = t] \in SelectBuilders
    BY <1>1 DEF SelectBuilders
  <2>. QED  BY <1>4, <1>5, <2>1 DEF FROM
<1>6. CASE WithCTE(q)
  <2>1. \A e \in Items : [sel[q] EXCEPT !.ctes = Append(@, e)] \in SelectBuilders
    BY <1>1, <1>3 DEF SelectBuilders
  <2>. QED  BY <1>2, <1>4, <1>6, <2>1 DEF WithCTE, Methods
<1>7. CASE JOIN(q)
  <2>1. \A e \in Items : [sel[q] EXCEPT !.joins = Append(@, e)] \in SelectBuilders
    BY <1>1, <1>3 DEF SelectBuilders
  <2>. QED  BY <1>2, <1>4, <1>7, <2>1 DEF JOIN, Methods
<1>8. CASE WHERE(q)
  <2>1. \A e \in Items : [sel[q] EXCEPT !.predicates = Append(@, e)] \in SelectBuilders
    BY <1>1, <1>3 DEF SelectBuilders
  <2>. QED  BY <1>2, <1>4, <1>8, <2>1 DEF WHERE, Methods
<1>9. CASE GROUP_BY(q)
  <2>1. \A e \in Items : [sel[q] EXCEPT !.group = Append(@, e)] \in SelectBuilders
    BY <1>1, <1>3 DEF SelectBuilders
  <2>. QED  BY <1>2, <1>4, <1>9, <2>1 DEF GROUP_BY, Methods
<1>10. CASE HAVING(q)
  <2>1. \A e \in Items : [sel[q] EXCEPT !.having = Append(@, e)] \in SelectBuilders
    BY <1>1, <1>3 DEF SelectBuilders
  <2>. QED  BY <1>2, <1>4, <1>10, <2>1 DEF HAVING, Methods
<1>11. CASE ORDER_BY(q)
  <2>1. \A e \in Items : [sel[q] EXCEPT !.order = Append(@, e)] \in SelectBuilders
    BY <1>1, <1>3 DEF SelectBuilders
  <2>. QED  BY <1>2, <1>4, <1>11, <2>1 DEF ORDER_BY, Methods
<1>12. CASE DISTINCT(q)
  <2>1. \A d \in BOOLEAN : [sel[q] EXCEPT !.distinct = d] \in SelectBuilders
    BY <1>1 DEF SelectBuilders
  <2>2. TRUE \in BOOLEAN
    OBVIOUS
  <2>3. [sel[q] EXCEPT !.distinct = TRUE] \in SelectBuilders
    BY <2>1, <2>2, Zenon
  <2>. QED  BY <1>4, <1>12, <2>3, Zenon DEF DISTINCT
<1>13. CASE DISTINCT_ON(q)
  <2>1. \A s \in Seq(Items) : [sel[q] EXCEPT !.distinctOn = s] \in SelectBuilders
    BY <1>1 DEF SelectBuilders
  <2>2. \A e \in Items : <<e>> \in Seq(Items)
    OBVIOUS
  <2>. QED  BY <1>2, <1>4, <1>13, <2>1, <2>2 DEF DISTINCT_ON, Methods
<1>14. CASE SetOperation(q)
  <2>1. \A e \in Items : [sel[q] EXCEPT !.setOps = Append(@, e)] \in SelectBuilders
    BY <1>1, <1>3 DEF SelectBuilders
  <2>. QED  BY <1>2, <1>4, <1>14, <2>1 DEF SetOperation, Methods
<1>15. CASE Lock(q)
  <2>1. \A of \in SUBSET Tables : [sel[q] EXCEPT !.lock = of] \in SelectBuilders
    BY <1>1 DEF SelectBuilders
  <2>2. Offered[q]["FOR_UPDATE"] \subseteq SUBSET Tables
    BY BuildersAssumption
  <2>. QED  BY <1>4, <1>15, <2>1, <2>2 DEF Lock
<1>. QED  BY <1>5, <1>6, <1>7, <1>8, <1>9, <1>10, <1>11, <1>12, <1>13, <1>14, <1>15
             DEF SelectCall

Inserts ==
    [into : Tables \cup {None}, values : Seq(Values), bulk : Seq(Objects), source : Seq(Items),
     conflict : [target : BOOLEAN, constraint : BOOLEAN, set : Seq(Values),
                 action : {"none", "nothing", "update"}, excluded : BOOLEAN]]

LEMMA InsertCallTypes ==
    ASSUME BuildersTypeOK, InsertCall
    PROVE  ins' \in Inserts /\ UNCHANGED <<sel, dml>>
<1>1. ins \in Inserts
  BY DEF BuildersTypeOK, Inserts
<1>2. ASSUME NEW changed \in Inserts, OnInsert(changed)
      PROVE  ins' \in Inserts /\ UNCHANGED <<sel, dml>>
  BY <1>2 DEF OnInsert
<1>3. CASE INTO
  <2>1. \A t \in Tables : [ins EXCEPT !.into = t] \in Inserts
    BY <1>1 DEF Inserts
  <2>. QED  BY <1>2, <1>3, <2>1 DEF INTO
<1>4. CASE VALUES
  <2>1. \A row \in Seq(Values) : [ins EXCEPT !.values = row] \in Inserts
    BY <1>1 DEF Inserts
  <2>2. {Inserted(o) : o \in Objects} \cup Lists(Values) \subseteq Seq(Values)
    BY InsertedValues, ListsAreSequences
  <2>. QED  BY <1>2, <1>4, <2>1, <2>2 DEF VALUES
<1>5. CASE BULK_VALUES
  <2>1. \A objs \in Seq(Objects) : [ins EXCEPT !.bulk = objs] \in Inserts
    BY <1>1 DEF Inserts
  <2>2. Lists(Objects) \subseteq Seq(Objects)
    BY ListsAreSequences
  <2>. QED  BY <1>2, <1>5, <2>1, <2>2 DEF BULK_VALUES
<1>6. CASE INSERT_SELECT
  <2>1. \A s \in Seq(Items) : [ins EXCEPT !.source = s] \in Inserts
    BY <1>1 DEF Inserts
  <2>3. \A e \in Items : <<e>> \in Seq(Items)
    OBVIOUS
  <2>2. Offered["INSERT"]["SELECT"] \subseteq Items
    BY BuildersAssumption DEF Methods
  <2>. QED  BY <1>2, <1>6, <2>1, <2>2, <2>3 DEF INSERT_SELECT
<1> DEFINE Conflicts == [target : BOOLEAN, constraint : BOOLEAN, set : Seq(Values),
                         action : {"none", "nothing", "update"}, excluded : BOOLEAN]
<1>7. ASSUME NEW spec \in Conflicts, Revise(spec)
      PROVE  ins' \in Inserts /\ UNCHANGED <<sel, dml>>
  <2>1. [ins EXCEPT !.conflict = spec] \in Inserts
    BY <1>1 DEF Inserts
  <2>. QED  BY <1>2, <1>7, <2>1 DEF Revise
<1>8. ins.conflict \in Conflicts
  BY <1>1 DEF Inserts
<1>9. \A b \in BOOLEAN : /\ [ins.conflict EXCEPT !.target = b] \in Conflicts
                        /\ [ins.conflict EXCEPT !.constraint = b] \in Conflicts
                        /\ [ins.conflict EXCEPT !.action = "update", !.excluded = b] \in Conflicts
  BY <1>8
<1>10. TRUE \in BOOLEAN
  OBVIOUS
<1> HIDE DEF Conflicts
<1>11. CASE ON_CONFLICT
  BY <1>7, <1>9, <1>10, <1>11, Zenon DEF ON_CONFLICT
<1>12. CASE ON_CONFLICT_CONSTRAINT
  BY <1>7, <1>9, <1>10, <1>12, Zenon DEF ON_CONFLICT_CONSTRAINT
<1>13. [ins.conflict EXCEPT !.action = "nothing"] \in Conflicts
  BY <1>8 DEF Conflicts
<1>14. CASE ON_CONFLICT_DO_NOTHING
  BY <1>7, <1>13, <1>14 DEF ON_CONFLICT_DO_NOTHING
<1>15. CASE DO_NOTHING
  BY <1>7, <1>13, <1>15 DEF DO_NOTHING
<1>16. CASE DO_UPDATE
  <2>1. \A s \in Seq(Values) : [ins.conflict EXCEPT !.action = "update", !.set = s] \in Conflicts
    BY <1>8 DEF Conflicts
  <2>2. Lists(Values) \subseteq Seq(Values)
    BY ListsAreSequences
  <2>. QED  BY <1>7, <1>16, <2>1, <2>2 DEF DO_UPDATE
<1>17. CASE DO_UPDATE_FROM_EXCLUDED
  BY <1>7, <1>9, <1>10, <1>17, Zenon DEF DO_UPDATE_FROM_EXCLUDED
<1>. QED  BY <1>3, <1>4, <1>5, <1>6, <1>11, <1>12, <1>14, <1>15, <1>16, <1>17 DEF InsertCall

Writes ==
    [table : Tables \cup {None}, set : Seq(Items), predicates : Seq(Items),
     returning : Seq(Items)]

LEMMA DMLCallTypes ==
    ASSUME BuildersTypeOK, DMLCall
    PROVE  dml' \in Writes /\ UNCHANGED <<sel, ins>>
<1>1. dml \in Writes
  BY DEF BuildersTypeOK, Writes
<1>2. ASSUME NEW changed \in Writes, OnDML(changed)
      PROVE  dml' \in Writes /\ UNCHANGED <<sel, ins>>
  BY <1>2 DEF OnDML
<1>3. \A m \in Methods : Offered["UPDATE"][m] \subseteq Items
  BY BuildersAssumption
<1>4. CASE SET
  <2>1. \A t \in Tables, s \in Seq(Items) : [dml EXCEPT !.table = t, !.set = s] \in Writes
    BY <1>1 DEF Writes
  <2>2. ASSUME NEW o \in Objects
        PROVE  Assigned(o) \in Seq(Items)
    <3>1. o.fields \in Seq(Values)
      BY BuildersAssumption
    <3>2. \A i \in DOMAIN o.fields : Value(o.fields[i]) \in Items
      BY <3>1, BuildersAssumption
    <3>. QED  BY <3>1, <3>2 DEF Assigned
  <2>3. Lists(Offered["UPDATE"]["SET"]) \subseteq Seq(Items)
    <3>1. Offered["UPDATE"]["SET"] \subseteq Items
      BY <1>3 DEF Methods
    <3>. QED  BY <3>1, ListsAreSequences
  <2>4. {Assigned(o) : o \in Objects} \cup Lists(Offered["UPDATE"]["SET"]) \subseteq Seq(Items)
    BY <2>2, <2>3
  <2>. QED  BY <1>2, <1>4, <2>1, <2>4 DEF SET
<1>5. CASE DELETE_FROM
  <2>1. \A t \in Tables : [dml EXCEPT !.table = t] \in Writes
    BY <1>1 DEF Writes
  <2>. QED  BY <1>2, <1>5, <2>1 DEF DELETE_FROM
<1>6. CASE DML_WHERE
  <2>1. \A s \in Seq(Items) : [dml EXCEPT !.predicates = s] \in Writes
    BY <1>1 DEF Writes
  <2>2. \A e \in Items : Append(dml.predicates, e) \in Seq(Items)
    BY <1>1 DEF Writes
  <2>. QED  BY <1>2, <1>3, <1>6, <2>1, <2>2 DEF DML_WHERE, Methods
<1>7. CASE RETURNING
  <2>1. \A s \in Seq(Items) : [dml EXCEPT !.returning = s] \in Writes
    BY <1>1 DEF Writes
  <2>2. \A e \in Items : <<e>> \in Seq(Items)
    OBVIOUS
  <2>. QED  BY <1>2, <1>3, <1>7, <2>1, <2>2 DEF RETURNING, Methods
<1>. QED  BY <1>4, <1>5, <1>6, <1>7 DEF DMLCall

LEMMA BuilderCallTypes ==
    ASSUME BuildersTypeOK, BuilderCall
    PROVE  BuildersTypeOK'
<1>1. stmt' = stmt /\ calls' \in 0..MaxCalls
  BY BuildersAssumption DEF BuilderCall, BuildersTypeOK
<1>2. CASE \E q \in Selects : SelectCall(q)
  BY <1>1, <1>2, SelectCallTypes DEF BuildersTypeOK
<1>3. CASE InsertCall
  BY <1>1, <1>3, InsertCallTypes DEF BuildersTypeOK, Inserts
<1>4. CASE DMLCall
  BY <1>1, <1>4, DMLCallTypes DEF BuildersTypeOK, Writes
<1>. QED  BY <1>2, <1>3, <1>4 DEF BuilderCall

----------------------------------------------------------------------------
(* Frames.                                                                 *)

LEMMA NewFrame ==
    ASSUME NEW work \in Seq(WorkItems), NEW into \in Pieces
    PROVE  /\ Frame(work, into) \in Frames
           /\ Frame(work, into).todo = work
           /\ Frame(work, into).into = into
           /\ \A p \in Pieces : Frame(work, into).text[p] = <<>>
  BY DEF Frame, Frames

LEMMA TodoFrame ==
    ASSUME NEW f \in Frames, NEW todo \in Seq(WorkItems)
    PROVE  /\ [f EXCEPT !.todo = todo] \in Frames
           /\ [f EXCEPT !.todo = todo].todo = todo
           /\ [f EXCEPT !.todo = todo].text = f.text
           /\ [f EXCEPT !.todo = todo].into = f.into
  BY DEF Frames

LEMMA WrittenFrame ==
    ASSUME NEW f \in Frames, NEW piece \in Pieces, NEW tokens \in Seq(Tokens)
    PROVE  /\ Written(f, piece, tokens) \in Frames
           /\ Written(f, piece, tokens).todo = f.todo
           /\ Written(f, piece, tokens).into = f.into
           /\ \A p \in Pieces : Written(f, piece, tokens).text[p] =
                                  IF p = piece THEN f.text[p] \o tokens ELSE f.text[p]
<1>1. f.text \in [Pieces -> Seq(Tokens)]
  BY DEF Frames
<1>2. \A t \in [Pieces -> Seq(Tokens)] : /\ [f EXCEPT !.text = t] \in Frames
                                        /\ [f EXCEPT !.text = t].todo = f.todo
                                        /\ [f EXCEPT !.text = t].text = t
                                        /\ [f EXCEPT !.text = t].into = f.into
  BY DEF Frames
<1> DEFINE new == [f.text EXCEPT ![piece] = @ \o tokens]
<1>3. /\ new \in [Pieces -> Seq(Tokens)]
      /\ \A p \in Pieces : new[p] = IF p = piece THEN f.text[p] \o tokens ELSE f.text[p]
  BY <1>1
<1>4. Written(f, piece, tokens) = [f EXCEPT !.text = new]
  BY DEF Written
<1> HIDE DEF new
<1>. QED  BY <1>2, <1>3, <1>4

LEMMA AssembledNamed ==
    ASSUME NEW f \in Frames, NEW ps \in Seq(Values),
           \A p \in Pieces : AllNamed(f.text[p], ps)
    PROVE  Assembled(f) \in Seq(Tokens) /\ AllNamed(Assembled(f), ps)
<1>1. \A p \in Pieces : f.text[p] \in Seq(Tokens)
  BY DEF Frames
<1>2. \A p \in {"with", "distinct", "columns", "rest"} : p \in Pieces
  BY DEF Pieces
<1> DEFINE w == f.text["with"]
           d == f.text["distinct"]
           c == f.text["columns"]
           r == f.text["rest"]
<1>3. /\ w \in Seq(Tokens) /\ d \in Seq(Tokens) /\ c \in Seq(Tokens) /\ r \in Seq(Tokens)
      /\ AllNamed(w, ps) /\ AllNamed(d, ps) /\ AllNamed(c, ps) /\ AllNamed(r, ps)
  BY <1>1, <1>2
<1>4. Assembled(f) = w \o d \o c \o r
  BY DEF Assembled
<1> DEFINE wd == w \o d
           wdc == wd \o c
<1> HIDE DEF w, d, c, r
<1>5. wd \in Seq(Tokens) /\ AllNamed(wd, ps)
  BY <1>3, NamedConcat
<1> HIDE DEF wd
<1>6. wdc \in Seq(Tokens) /\ AllNamed(wdc, ps)
  BY <1>3, <1>5, NamedConcat
<1> HIDE DEF wdc
<1>7. wdc \o r \in Seq(Tokens) /\ AllNamed(wdc \o r, ps)
  BY <1>3, <1>6, NamedConcat
<1>8. Assembled(f) = wdc \o r
  BY <1>4 DEF wdc, wd
<1>. QED  BY <1>7, <1>8

----------------------------------------------------------------------------
(* The walk.  Walking is what every step of it leaves true while there is  *)
(* a stack.                                                                *)

Walking ==
    /\ params \in Seq(Values)
    /\ stack \in Seq(Frames)
    /\ stack # <<>>
    /\ TextsNamed
    /\ RowsLeft

LEMMA AtWork ==
    ASSUME IInv, Working
    PROVE  /\ Walking
           /\ Top \in Frames /\ Top.todo \in Seq(WorkItems) /\ Top.todo # <<>>
           /\ Top.todo[1].piece \in Pieces
           /\ Current \in Items \cup RowItems
           /\ Tail(Top.todo) \in Seq(WorkItems)
           /\ Aligned(Top.todo, Len(params))
<1>1. Walking
  BY DEF IInv, RenderTypeOK, Working, Walking
<1>2. Top \in Frames
  BY <1>1 DEF Walking, Top
<1>3. Top.todo \in Seq(WorkItems) /\ Top.todo # <<>>
  BY <1>2 DEF Frames, Working
<1>4. Top.todo[1] \in WorkItems
  BY <1>3
<1>5. Aligned(Top.todo, Len(params))
  BY <1>1 DEF Walking, RowsLeft
<1>. QED  BY <1>1, <1>2, <1>3, <1>4, <1>5 DEF WorkItems, Current

\* The stack after tokens were written to it.
LEMMA EmitStack ==
    ASSUME IInv, Working, NEW tokens \in Seq(Tokens), Emit(tokens)
    PROVE  LET piece == Top.todo[1].piece IN
           /\ piece \in Pieces
           /\ stack' \in Seq(Frames) /\ stack' # <<>> /\ Len(stack') = Len(stack)
           /\ stack'[1].todo = Tail(Top.todo) /\ stack'[1].into = Top.into
           /\ \A p \in Pieces : stack'[1].text[p] =
                  IF p = piece THEN Top.text[p] \o tokens ELSE Top.text[p]
           /\ \A i \in DOMAIN stack' : i > 1 => i \in DOMAIN stack /\ stack'[i] = stack[i]
<1> DEFINE piece == Top.todo[1].piece
           f == [Top EXCEPT !.todo = Tail(Top.todo)]
           g == Written(f, piece, tokens)
<1>1. /\ Walking /\ Top \in Frames /\ piece \in Pieces
      /\ Tail(Top.todo) \in Seq(WorkItems)
  BY AtWork
<1>2. f \in Frames /\ f.todo = Tail(Top.todo) /\ f.text = Top.text /\ f.into = Top.into
  BY <1>1, TodoFrame
<1>3. stack' = <<g>> \o Tail(stack)
  BY DEF Emit
<1> HIDE DEF piece, f
<1>4. /\ g \in Frames /\ g.todo = Tail(Top.todo) /\ g.into = Top.into
      /\ \A p \in Pieces : g.text[p] = IF p = piece THEN Top.text[p] \o tokens ELSE Top.text[p]
  BY <1>1, <1>2, WrittenFrame
<1> HIDE DEF g
<1>5. stack \in Seq(Frames) /\ stack # <<>>
  BY <1>1 DEF Walking
<1>6. /\ stack' \in Seq(Frames) /\ stack' # <<>> /\ stack'[1] = g /\ Len(stack') = Len(stack)
      /\ \A i \in DOMAIN stack' : i > 1 => i \in DOMAIN stack /\ stack'[i] = stack[i]
  BY <1>3, <1>4, <1>5, ReplaceHead
<1>. QED  BY <1>1, <1>4, <1>6 DEF piece

\* Writing tokens that name what the list then holds.
LEMMA EmitKeeps ==
    ASSUME IInv, Working, NEW tokens \in Seq(Tokens), NEW more \in Seq(Values),
           params' = params \o more, Emit(tokens),
           AllNamed(tokens, params'), Aligned(Tail(Top.todo), Len(params'))
    PROVE  Walking'
<1> DEFINE piece == Top.todo[1].piece
           g == stack'[1]
<1>1. Walking
  BY AtWork
<1>5. stack \in Seq(Frames) /\ stack # <<>> /\ params \in Seq(Values)
  BY <1>1 DEF Walking
<1>6. /\ stack' \in Seq(Frames) /\ stack' # <<>> /\ stack'[1] = g
      /\ g.todo = Tail(Top.todo)
      /\ \A p \in Pieces : g.text[p] = IF p = piece THEN Top.text[p] \o tokens ELSE Top.text[p]
      /\ \A i \in DOMAIN stack' : i > 1 => i \in DOMAIN stack /\ stack'[i] = stack[i]
  BY EmitStack
<1> HIDE DEF piece, g
<1>7. params' \in Seq(Values)
  BY <1>5
<1>8. ASSUME NEW i \in DOMAIN stack, NEW p \in Pieces
      PROVE  stack[i].text[p] \in Seq(Tokens) /\ AllNamed(stack[i].text[p], params')
  <2>1. stack[i].text[p] \in Seq(Tokens)
    <3>1. stack[i] \in Frames
      BY <1>5
    <3>. QED  BY <3>1 DEF Frames
  <2>2. AllNamed(stack[i].text[p], params)
    BY <1>1 DEF Walking, TextsNamed
  <2>. QED  BY <2>1, <2>2, <1>5, NamedGrow
<1>9. TextsNamed'
  <2>1. ASSUME NEW p \in Pieces
        PROVE  AllNamed(g.text[p], params')
    <3>1. 1 \in DOMAIN stack /\ stack[1] = Top
      BY <1>5 DEF Top
    <3>2. Top.text[p] \in Seq(Tokens) /\ AllNamed(Top.text[p], params')
      BY <3>1, <1>8
    <3>3. AllNamed(Top.text[p] \o tokens, params')
      BY <3>2, <1>7, NamedConcat
    <3>. QED  BY <1>6, <3>2, <3>3
  <2>2. \A i \in DOMAIN stack' : i = 1 \/ i > 1
    BY <1>6
  <2>. QED  BY <1>6, <1>8, <2>1, <2>2 DEF TextsNamed
<1>10. RowsLeft'
  <2>1. \A i \in DOMAIN stack' : i > 1 => NoRows(stack'[i].todo)
    BY <1>1, <1>6 DEF Walking, RowsLeft
  <2>2. Aligned(stack'[1].todo, Len(params'))
    BY <1>6
  <2>. QED  BY <2>1, <2>2 DEF RowsLeft, Top
<1>. QED  BY <1>6, <1>7, <1>9, <1>10 DEF Walking

LEMMA BindKeeps ==
    ASSUME IInv, Bind
    PROVE  Walking'
<1> DEFINE v == Current.value
           tokens == <<[number |-> Len(params'), value |-> v]>>
<1>1. IInv /\ Working /\ Current.form = "value"
  BY DEF Bind
<1>2. /\ Walking /\ Top.todo \in Seq(WorkItems) /\ Top.todo # <<>>
      /\ Current \in Items \cup RowItems /\ Aligned(Top.todo, Len(params))
  BY <1>1, AtWork
<1>3. v \in Values
  <2>1. Current \notin RowItems
    BY <1>1 DEF RowItems
  <2>. QED  BY <1>1, <1>2, <2>1, ItemsAssumption
<1>4. params' = Append(params, v) /\ Emit(tokens)
  BY DEF Bind
<1> HIDE DEF v
<1>5. params \in Seq(Values)
  BY <1>2 DEF Walking
<1>6. /\ params' = params \o <<v>> /\ params' \in Seq(Values) /\ <<v>> \in Seq(Values)
      /\ Len(params') \in Nat /\ Len(params') \in 1..Len(params')
      /\ params'[Len(params')] = v
  BY <1>3, <1>4, <1>5
<1>7. tokens \in Seq(Tokens) /\ AllNamed(tokens, params')
  BY <1>3, <1>6 DEF Tokens, AllNamed, Named
<1>8. Aligned(Tail(Top.todo), Len(params'))
  <2>1. Top.todo[1].item.form # "row"
    BY <1>1 DEF Current
  <2>. QED  BY <1>2, <2>1, RowsComeFirst, NoRowsAligned
<1> HIDE DEF tokens
<1>. QED  BY <1>1, <1>3, <1>4, <1>6, <1>7, <1>8, EmitKeeps

\* The tokens of a row are numbered on from the list that it is added to.
LEMMA RowNamed ==
    ASSUME NEW row \in RowItems, NEW ps \in Seq(Values),
           row.width = Len(row.values), row.start = Len(ps)
    PROVE  LET tokens == [j \in 1..row.width |->
                              [number |-> row.start + j, value |-> row.values[j]]]
           IN  /\ tokens \in Seq(Tokens)
               /\ ps \o row.values \in Seq(Values)
               /\ Len(ps \o row.values) = row.start + row.width
               /\ AllNamed(tokens, ps \o row.values)
<1> DEFINE vs == row.values
           all == ps \o vs
           tokens == [j \in 1..row.width |-> [number |-> row.start + j, value |-> vs[j]]]
<1>1. vs \in Seq(Values) /\ row.width = Len(vs) /\ row.start = Len(ps)
  BY DEF RowItems
<1>2. \A j \in 1..Len(vs) : vs[j] \in Values /\ Len(ps) + j \in Nat
  BY <1>1
<1>3. tokens \in Seq(Tokens)
  <2>1. \A j \in 1..Len(vs) : [number |-> Len(ps) + j, value |-> vs[j]] \in Tokens
    BY <1>2 DEF Tokens
  <2>2. tokens \in [1..Len(vs) -> Tokens] /\ Len(vs) \in Nat
    BY <1>1, <2>1
  <2> HIDE DEF tokens
  <2>. QED  BY <2>2
<1>4. /\ all \in Seq(Values) /\ Len(all) = Len(ps) + Len(vs)
      /\ \A j \in 1..Len(vs) : Len(ps) + j \in 1..Len(all) /\ all[Len(ps) + j] = vs[j]
  BY <1>1
<1> HIDE DEF all
<1>5. AllNamed(tokens, all)
  BY <1>1, <1>4 DEF AllNamed, Named
<1>. QED  BY <1>1, <1>3, <1>4, <1>5 DEF all

LEMMA NextRow ==
    ASSUME NEW todo \in Seq(WorkItems), NEW n, Aligned(todo, n), todo # <<>>,
           todo[1].item.form = "row"
    PROVE  Aligned(Tail(todo), todo[1].item.start + todo[1].item.width)
<1> DEFINE rest == Tail(todo)
<1>1. /\ rest \in Seq(WorkItems) /\ Len(rest) = Len(todo) - 1
      /\ \A k \in 1..Len(rest) : rest[k] = todo[k+1]
  BY TailAt
<1> HIDE DEF rest
<1> SUFFICES ASSUME NEW k \in DOMAIN rest, rest[k].item.form = "row"
             PROVE  /\ \A j \in 1..k : rest[j].item.form = "row"
                    /\ rest[k].item.width = Len(rest[k].item.values)
                    /\ rest[k].item.start =
                         IF k = 1 THEN todo[1].item.start + todo[1].item.width
                         ELSE rest[k-1].item.start + rest[k-1].item.width
  BY DEF Aligned, rest
<1>2. k \in 1..Len(rest) /\ k + 1 \in DOMAIN todo /\ rest[k] = todo[k+1] /\ k + 1 # 1
  BY <1>1
<1>3. /\ \A j \in 1..(k+1) : todo[j].item.form = "row"
      /\ todo[k+1].item.width = Len(todo[k+1].item.values)
      /\ todo[k+1].item.start = todo[k].item.start + todo[k].item.width
  <2>1. (k + 1) - 1 = k
    BY <1>2
  <2>. QED  BY <1>2, <2>1 DEF Aligned
<1>4. \A j \in 1..k : rest[j] = todo[j+1] /\ j + 1 \in 1..(k+1)
  BY <1>1, <1>2
<1>5. k # 1 => rest[k-1] = todo[k]
  BY <1>1, <1>2
<1>. QED  BY <1>2, <1>3, <1>4, <1>5

LEMMA BindRowKeeps ==
    ASSUME IInv, BindRow
    PROVE  Walking'
<1> DEFINE tokens == [j \in 1..Current.width |->
                          [number |-> Current.start + j, value |-> Current.values[j]]]
<1>1. IInv /\ Working /\ Current.form = "row"
  BY DEF BindRow
<1>2. /\ Walking /\ Top.todo \in Seq(WorkItems) /\ Top.todo # <<>>
      /\ Current \in Items \cup RowItems /\ Aligned(Top.todo, Len(params))
  BY <1>1, AtWork
<1>3. Current \in RowItems
  BY <1>1, <1>2, ItemsAssumption
<1>4. params' = params \o Current.values /\ Emit(tokens)
  BY DEF BindRow
<1>5. params \in Seq(Values)
  BY <1>2 DEF Walking
<1>6. Current.width = Len(Current.values) /\ Current.start = Len(params)
  <2>1. 1 \in DOMAIN Top.todo /\ Current = Top.todo[1].item
    BY <1>2 DEF Current
  <2>. QED  BY <1>1, <1>2, <2>1 DEF Aligned
<1>7. /\ tokens \in Seq(Tokens) /\ params' \in Seq(Values)
      /\ Len(params') = Current.start + Current.width /\ AllNamed(tokens, params')
  BY <1>3, <1>4, <1>5, <1>6, RowNamed
<1>8. Aligned(Tail(Top.todo), Len(params'))
  BY <1>1, <1>2, <1>7, NextRow DEF Current
<1>9. Current.values \in Seq(Values)
  BY <1>3 DEF RowItems
<1> HIDE DEF tokens
<1>. QED  BY <1>1, <1>4, <1>7, <1>8, <1>9, EmitKeeps

\* A step that writes nothing, and after which the items of the top frame hold no row.
LEMMA AdvanceKeeps ==
    ASSUME Walking, NEW todo \in Seq(WorkItems), NoRows(todo),
           Advance(todo), UNCHANGED params
    PROVE  Walking'
<1> DEFINE g == [Top EXCEPT !.todo = todo]
<1>1. stack \in Seq(Frames) /\ stack # <<>> /\ params' \in Seq(Values) /\ params' = params
  BY DEF Walking
<1>2. Top \in Frames /\ 1 \in DOMAIN stack /\ Top = stack[1]
  BY <1>1 DEF Top
<1>3. g \in Frames /\ g.todo = todo /\ g.text = Top.text
  BY <1>2, TodoFrame
<1>4. stack' = <<g>> \o Tail(stack)
  BY DEF Advance
<1> HIDE DEF g
<1>5. /\ stack' \in Seq(Frames) /\ stack' # <<>> /\ stack'[1] = g
      /\ \A i \in DOMAIN stack' : i > 1 => i \in DOMAIN stack /\ stack'[i] = stack[i]
  BY <1>1, <1>3, <1>4, ReplaceHead
<1>6. \A i \in DOMAIN stack' : i = 1 \/ i > 1
  BY <1>5
<1>7. TextsNamed'
  BY <1>1, <1>2, <1>3, <1>5, <1>6 DEF Walking, TextsNamed
<1>8. RowsLeft'
  BY <1>3, <1>5, NoRowsAligned DEF Walking, RowsLeft, Top
<1>. QED  BY <1>1, <1>5, <1>7, <1>8 DEF Walking

\* The operands of an expression come before what is left.
LEMMA OpenWork ==
    ASSUME IInv, Open
    PROVE  LET operands == On(Top.todo[1].piece, Operands(Current))
               rest == Tail(Top.todo)
           IN  /\ Working /\ Advance(operands \o rest) /\ UNCHANGED params
               /\ Operands(Current) \in Seq(Items)
               /\ operands \in Seq(WorkItems) /\ NoRows(operands)
               /\ rest \in Seq(WorkItems) /\ NoRows(rest)
               /\ operands \o rest \in Seq(WorkItems) /\ NoRows(operands \o rest)
<1> DEFINE operands == On(Top.todo[1].piece, Operands(Current))
           rest == Tail(Top.todo)
<1>1. Working /\ Current.form \notin {"value", "row", "select"}
  BY DEF Open
<1>2. /\ Walking /\ Top.todo \in Seq(WorkItems) /\ Top.todo # <<>>
      /\ Top.todo[1].piece \in Pieces
      /\ Current \in Items \cup RowItems /\ Aligned(Top.todo, Len(params))
  BY <1>1, AtWork
<1>3. Operands(Current) \in Seq(Items)
  <2>1. Current \notin RowItems
    BY <1>1 DEF RowItems
  <2>. QED  BY <1>2, <2>1, ItemsAssumption
<1>4. operands \in Seq(WorkItems) /\ NoRows(operands)
  BY <1>2, <1>3, OnWork
<1>5. rest \in Seq(WorkItems) /\ NoRows(rest)
  BY <1>1, <1>2, RowsComeFirst DEF Current
<1>6. Working /\ Advance(operands \o rest) /\ UNCHANGED params
  BY DEF Open
<1> HIDE DEF operands, rest
<1>7. operands \o rest \in Seq(WorkItems) /\ NoRows(operands \o rest)
  BY <1>4, <1>5, NoRowsConcat
<1>. QED  BY <1>3, <1>4, <1>5, <1>6, <1>7 DEF operands, rest

LEMMA OpenKeeps ==
    ASSUME IInv, Open
    PROVE  Walking'
<1>1. PICK todo \in Seq(WorkItems) :
          Working /\ NoRows(todo) /\ Advance(todo) /\ UNCHANGED params
  BY OpenWork
<1>2. Walking
  BY <1>1, AtWork
<1>. QED  BY <1>1, <1>2, AdvanceKeeps

\* The SELECT of a subquery starts a frame of its own, above the one it will be written to.
LEMMA DescendKeeps ==
    ASSUME IInv, Descend
    PROVE  Walking'
<1> DEFINE work == SelectWork(sel[Current.query])
           piece == Top.todo[1].piece
           rest == Tail(Top.todo)
           new == Frame(work, piece)
           old == [Top EXCEPT !.todo = rest]
<1>1. Working /\ Current.form = "select"
  BY DEF Descend
<1>2. /\ Walking /\ Top.todo \in Seq(WorkItems) /\ Top.todo # <<>>
      /\ piece \in Pieces /\ Top \in Frames
      /\ Current \in Items \cup RowItems /\ Aligned(Top.todo, Len(params))
  BY <1>1, AtWork
<1>3. work \in Seq(WorkItems) /\ NoRows(work)
  <2>1. Current.query \in Selects
    <3>1. Current \notin RowItems
      BY <1>1 DEF RowItems
    <3>. QED  BY <1>1, <1>2, <3>1, ItemsAssumption
  <2>2. sel[Current.query] \in SelectBuilders
    BY <2>1 DEF IInv, RenderTypeOK, BuildersTypeOK
  <2>. QED  BY <2>2, SelectWorkOK
<1>4. rest \in Seq(WorkItems) /\ NoRows(rest)
  BY <1>1, <1>2, RowsComeFirst DEF Current
<1>5. stack' = <<new, old>> \o Tail(stack) /\ params' = params
  BY DEF Descend
<1> HIDE DEF work, piece, rest
<1>6. /\ new \in Frames /\ new.todo = work
      /\ \A p \in Pieces : new.text[p] = <<>>
  BY <1>2, <1>3, NewFrame
<1>7. old \in Frames /\ old.todo = rest /\ old.text = Top.text
  BY <1>2, <1>4, TodoFrame
<1> HIDE DEF new, old
<1>8. stack \in Seq(Frames) /\ stack # <<>> /\ params \in Seq(Values)
  BY <1>2 DEF Walking
<1>9. /\ stack' \in Seq(Frames) /\ stack' # <<>> /\ Len(stack') = Len(stack) + 1
      /\ stack'[1] = new /\ stack'[2] = old
      /\ \A i \in DOMAIN stack' :
             i > 2 => i - 1 \in DOMAIN stack /\ i - 1 > 1 /\ stack'[i] = stack[i-1]
  BY <1>5, <1>6, <1>7, <1>8, PushHead
<1>10. \A i \in DOMAIN stack' : i = 1 \/ i = 2 \/ i > 2
  BY <1>9
<1>11. 1 \in DOMAIN stack /\ Top = stack[1]
  BY <1>8 DEF Top
<1>12. TextsNamed'
  <2>1. \A p \in Pieces : AllNamed(new.text[p], params)
    BY <1>6 DEF AllNamed
  <2>. QED  BY <1>2, <1>5, <1>7, <1>9, <1>10, <1>11, <2>1 DEF Walking, TextsNamed
<1>13. RowsLeft'
  <2>1. \A i \in DOMAIN stack' : i > 1 => NoRows(stack'[i].todo)
    BY <1>2, <1>4, <1>7, <1>9, <1>10 DEF Walking, RowsLeft
  <2>2. Aligned(stack'[1].todo, Len(params'))
    BY <1>3, <1>6, <1>9, NoRowsAligned
  <2>. QED  BY <2>1, <2>2 DEF RowsLeft, Top
<1>. QED  BY <1>5, <1>8, <1>9, <1>12, <1>13 DEF Walking

\* The text of a subquery goes to the frame below, which has no rows to bind.
LEMMA ReturnKeeps ==
    ASSUME IInv, Return
    PROVE  Walking'
<1> DEFINE below == stack[2]
           tokens == Assembled(Top)
           g == Written(below, Top.into, tokens)
           after == <<g>> \o Tail(Tail(stack))
<1>1. /\ stack \in Seq(Frames) /\ params \in Seq(Values) /\ TextsNamed /\ RowsLeft
      /\ Len(stack) > 1
  BY DEF IInv, RenderTypeOK, Return
<1>2. 1 \in DOMAIN stack /\ 2 \in DOMAIN stack /\ Top = stack[1]
  BY <1>1 DEF Top
<1>3. Top \in Frames /\ below \in Frames
  BY <1>1, <1>2
<1>4. tokens \in Seq(Tokens) /\ AllNamed(tokens, params)
  BY <1>1, <1>2, <1>3, AssembledNamed DEF TextsNamed
<1>5. stack' = after /\ params' = params
  BY DEF Return
<1>6. Top.into \in Pieces
  BY <1>3 DEF Frames
<1> HIDE DEF tokens
<1>7. /\ g \in Frames /\ g.todo = below.todo
      /\ \A p \in Pieces : g.text[p] = IF p = Top.into THEN below.text[p] \o tokens
                                       ELSE below.text[p]
  BY <1>3, <1>4, <1>6, WrittenFrame
<1> HIDE DEF g
<1>8. /\ stack' \in Seq(Frames) /\ stack' # <<>> /\ stack'[1] = g
      /\ \A i \in DOMAIN stack' : i > 1 => i + 1 \in DOMAIN stack /\ stack'[i] = stack[i+1]
  <2>1. /\ after \in Seq(Frames) /\ after # <<>> /\ after[1] = g
        /\ \A i \in DOMAIN after : i > 1 => i + 1 \in DOMAIN stack /\ after[i] = stack[i+1]
    <3>1. g \in Frames
      BY <1>7
    <3>. QED  BY <1>1, <3>1, PopHead, SMTT(30)
  <2> HIDE DEF after
  <2>. QED  BY <1>5, <2>1
<1>9. \A i \in DOMAIN stack' : i \in Nat /\ (i = 1 \/ i > 1)
  BY <1>8
<1>10. TextsNamed'
  <2>1. ASSUME NEW p \in Pieces
        PROVE  AllNamed(g.text[p], params)
    <3>1. below.text[p] \in Seq(Tokens) /\ AllNamed(below.text[p], params)
      BY <1>1, <1>2, <1>3 DEF TextsNamed, Frames
    <3>2. AllNamed(below.text[p] \o tokens, params)
      BY <1>1, <1>4, <3>1, NamedConcat
    <3>. QED  BY <1>7, <3>1, <3>2
  <2>. QED  BY <1>1, <1>5, <1>8, <1>9, <2>1 DEF TextsNamed
<1>11. RowsLeft'
  <2>1. NoRows(below.todo)
    BY <1>1, <1>2 DEF RowsLeft
  <2>2. \A i \in DOMAIN stack' : i > 1 => NoRows(stack'[i].todo)
    BY <1>1, <1>8, <1>9 DEF RowsLeft
  <2>3. Aligned(stack'[1].todo, Len(params'))
    BY <1>7, <1>8, <2>1, NoRowsAligned
  <2>. QED  BY <2>2, <2>3 DEF RowsLeft, Top
<1>. QED  BY <1>1, <1>5, <1>8, <1>10, <1>11 DEF Walking

LEMMA RenderStarts ==
    ASSUME IInv, Render
    PROVE  Walking'
<1> DEFINE f == Frame(StatementWork, "rest")
<1>1. BuildersTypeOK /\ ~RefusesStatement
  BY DEF IInv, RenderTypeOK, Render
<1>2. StatementWork \in Seq(WorkItems) /\ Aligned(StatementWork, 0)
  BY <1>1, StatementWorkOK
<1>3. f \in Frames /\ f.todo = StatementWork /\ \A p \in Pieces : f.text[p] = <<>>
  BY <1>2, NewFrame DEF Pieces
<1>4. stack' = <<f>> /\ params' = <<>>
  BY DEF Render
<1> HIDE DEF f
<1>5. /\ stack' \in Seq(Frames) /\ stack' # <<>> /\ stack'[1] = f /\ DOMAIN stack' = {1}
      /\ params' \in Seq(Values) /\ Len(params') = 0
  BY <1>3, <1>4
<1>6. TextsNamed'
  BY <1>3, <1>5 DEF TextsNamed, AllNamed
<1>7. RowsLeft'
  BY <1>2, <1>3, <1>5 DEF RowsLeft, Top
<1>. QED  BY <1>5, <1>6, <1>7 DEF Walking

\* The statement is over: its text is that of its one frame.
LEMMA FinishKeeps ==
    ASSUME IInv, Finish
    PROVE  text' \in Seq(Tokens) /\ AllNamed(text', params')
<1>1. stack \in Seq(Frames) /\ Len(stack) = 1 /\ params \in Seq(Values) /\ TextsNamed
  BY DEF IInv, RenderTypeOK, Finish
<1>2. 1 \in DOMAIN stack /\ Top = stack[1] /\ Top \in Frames
  BY <1>1 DEF Top
<1>3. Assembled(Top) \in Seq(Tokens) /\ AllNamed(Assembled(Top), params)
  BY <1>1, <1>2, AssembledNamed DEF TextsNamed
<1>. QED  BY <1>3 DEF Finish

----------------------------------------------------------------------------
(* The invariant.                                                          *)

LEMMA Start == Init => IInv
<1> SUFFICES ASSUME Init
             PROVE  IInv
  OBVIOUS
<1>1. BuildersTypeOK /\ phase = "idle" /\ params = <<>> /\ stack = <<>> /\ text = <<>>
  BY BuildersStart DEF Init
<1>. QED  BY <1>1 DEF IInv, RenderTypeOK, TextsNamed, RowsLeft, Assembly

\* A step that leaves a stack in good order leaves the invariant true.
LEMMA WalkingKeeps ==
    ASSUME BuildersTypeOK', Walking', phase' = "rendering", text' \in Seq(Tokens)
    PROVE  IInv'
  BY DEF IInv, RenderTypeOK, Assembly, Walking

\* And so does one after which there is no stack.
LEMMA EmptyKeeps ==
    ASSUME BuildersTypeOK', stack' = <<>>, params' \in Seq(Values), text' \in Seq(Tokens),
           phase' \in {"idle", "rendered"}, phase' = "rendered" => AllNamed(text', params')
    PROVE  IInv'
<1>1. RenderTypeOK'
  BY DEF RenderTypeOK
<1>2. TextsNamed' /\ RowsLeft'
  BY DEF TextsNamed, RowsLeft
<1>. QED  BY <1>1, <1>2 DEF IInv, Assembly

LEMMA Step == IInv /\ [Next]_vars => IInv'
<1> SUFFICES ASSUME IInv, [Next]_vars
             PROVE  IInv'
  OBVIOUS
<1>1. /\ BuildersTypeOK /\ text \in Seq(Tokens) /\ params \in Seq(Values)
      /\ stack = <<>> <=> phase # "rendering"
  BY DEF IInv, RenderTypeOK
<1>2. CASE phase = "idle" /\ BuilderCall /\ UNCHANGED renderVars
  <2>1. BuildersTypeOK'
    BY <1>1, <1>2, BuilderCallTypes
  <2>. QED  BY <1>1, <1>2, <2>1, EmptyKeeps DEF renderVars
<1>3. ASSUME UNCHANGED builderVars
      PROVE  BuildersTypeOK'
  BY <1>1, <1>3 DEF builderVars, BuildersTypeOK
<1>4. CASE Render /\ UNCHANGED builderVars
  BY <1>1, <1>3, <1>4, RenderStarts, WalkingKeeps DEF Render
<1>5. CASE Bind /\ UNCHANGED builderVars
  BY <1>1, <1>3, <1>5, BindKeeps, WalkingKeeps DEF Bind, Working
<1>6. CASE BindRow /\ UNCHANGED builderVars
  BY <1>1, <1>3, <1>6, BindRowKeeps, WalkingKeeps DEF BindRow, Working
<1>7. CASE Open /\ UNCHANGED builderVars
  BY <1>1, <1>3, <1>7, OpenKeeps, WalkingKeeps DEF Open, Working
<1>8. CASE Descend /\ UNCHANGED builderVars
  BY <1>1, <1>3, <1>8, DescendKeeps, WalkingKeeps DEF Descend, Working
<1>9. CASE Return /\ UNCHANGED builderVars
  BY <1>1, <1>3, <1>9, ReturnKeeps, WalkingKeeps DEF Return
<1>10. CASE Raise /\ UNCHANGED builderVars
  BY <1>1, <1>3, <1>10, EmptyKeeps DEF Raise
<1>11. CASE Finish /\ UNCHANGED builderVars
  BY <1>1, <1>3, <1>11, FinishKeeps, EmptyKeeps DEF Finish
<1>12. CASE Await /\ UNCHANGED builderVars
  BY <1>1, <1>3, <1>12, EmptyKeeps DEF Await
<1>13. CASE UNCHANGED vars
  BY <1>3, <1>13 DEF vars, renderVars, IInv, RenderTypeOK, TextsNamed, RowsLeft, Assembly, Top
<1>. QED  BY <1>2, <1>4, <1>5, <1>6, <1>7, <1>8, <1>9, <1>10, <1>11, <1>12, <1>13
          DEF Next, Walk

LEMMA Always == Spec => []IInv
  BY Start, Step, PTL DEF Spec

(***************************************************************************)
(* Builders and walk keep their types: a statement that is not refused     *)
(* always renders to tokens, and nothing is left on the stack after it.    *)
(***************************************************************************)
THEOREM RenderingTypes == Spec => []RenderTypeOK
<1>1. IInv => RenderTypeOK
  BY DEF IInv
<1>. QED  BY <1>1, Always, PTL

(***************************************************************************)
(* Every placeholder of every statement names the value the program wrote  *)
(* there, however the subqueries, CTEs, rows and conflict clauses nest:    *)
(* one params list serves the whole walk and is only ever added to.        *)
(***************************************************************************)
THEOREM PlaceholdersNamed == Spec => []NumbersName
<1>1. IInv => NumbersName
  BY DEF IInv, RenderTypeOK, Assembly, NumbersName, AllNamed, Named, AsyncpgGives
<1>. QED  BY <1>1, Always, PTL

----------------------------------------------------------------------------
(* Each parameter is written once.  The numbers of all pieces of all frames *)
(* are the parameters bound so far, none of them twice.                     *)

Numbers(ts) == {ts[k].number : k \in DOMAIN ts}

Once(ts) == \A j, k \in DOMAIN ts : ts[j].number = ts[k].number => j = k

\* No number was written twice, neither in one piece of one frame nor in two.
Apart ==
    \A i, j \in DOMAIN stack, p, q \in Pieces :
        /\ Once(stack[i].text[p])
        /\ (i # j \/ p # q) =>
               Numbers(stack[i].text[p]) \cap Numbers(stack[j].text[q]) = {}

\* Every parameter that was bound has been written somewhere.
Covered ==
    stack # <<>> => \A n \in 1..Len(params) :
        \E i \in DOMAIN stack, p \in Pieces : n \in Numbers(stack[i].text[p])

AllOnce == phase = "rendered" => Once(text) /\ \A n \in 1..Len(params) : n \in Numbers(text)

OInv == Apart /\ Covered /\ AllOnce

LEMMA NumbersConcat ==
    ASSUME NEW a \in Seq(Tokens), NEW b \in Seq(Tokens)
    PROVE  /\ a \o b \in Seq(Tokens)
           /\ Numbers(a \o b) = Numbers(a) \cup Numbers(b)
<1> DEFINE c == a \o b
<1>1. /\ c \in Seq(Tokens) /\ Len(c) = Len(a) + Len(b)
      /\ \A i \in 1..(Len(a) + Len(b)) : c[i] = IF i <= Len(a) THEN a[i] ELSE b[i - Len(a)]
  BY ConcatProperties
<1>2. \A k \in DOMAIN c :
          \/ k \in DOMAIN a /\ c[k] = a[k]
          \/ k - Len(a) \in DOMAIN b /\ c[k] = b[k - Len(a)]
  BY ConcatAt
<1> HIDE DEF c
<1>3. Numbers(c) \subseteq Numbers(a) \cup Numbers(b)
  BY <1>2 DEF Numbers
<1>4. \A k \in DOMAIN a : k \in DOMAIN c /\ c[k] = a[k]
  BY <1>1
<1>5. \A k \in DOMAIN b : Len(a) + k \in DOMAIN c /\ c[Len(a) + k] = b[k]
  BY <1>1
<1>6. Numbers(a) \cup Numbers(b) \subseteq Numbers(c)
  BY <1>4, <1>5 DEF Numbers
<1>. QED  BY <1>1, <1>3, <1>6 DEF c

LEMMA OnceConcat ==
    ASSUME NEW a \in Seq(Tokens), NEW b \in Seq(Tokens), Once(a), Once(b),
           Numbers(a) \cap Numbers(b) = {}
    PROVE  Once(a \o b)
<1> DEFINE c == a \o b
<1>1. \A k \in DOMAIN c :
          \/ k \in DOMAIN a /\ c[k] = a[k]
          \/ k - Len(a) \in DOMAIN b /\ c[k] = b[k - Len(a)]
  BY ConcatAt
<1>2. c \in Seq(Tokens)
  BY ConcatAt
<1> HIDE DEF c
<1> SUFFICES ASSUME NEW j \in DOMAIN c, NEW k \in DOMAIN c, c[j].number = c[k].number
             PROVE  j = k
  BY DEF Once, c
<1>3. j \in Nat /\ k \in Nat /\ Len(a) \in Nat
  BY <1>2
<1>4. CASE j \in DOMAIN a /\ c[j] = a[j] /\ k \in DOMAIN a /\ c[k] = a[k]
  BY <1>4 DEF Once
<1>5. CASE /\ j - Len(a) \in DOMAIN b /\ c[j] = b[j - Len(a)]
           /\ k - Len(a) \in DOMAIN b /\ c[k] = b[k - Len(a)]
  <2>1. j - Len(a) = k - Len(a)
    BY <1>5 DEF Once
  <2>. QED  BY <1>3, <2>1
<1>6. \A x \in DOMAIN a, y \in DOMAIN b : a[x].number # b[y].number
  BY DEF Numbers
<1>. QED  BY <1>1, <1>4, <1>5, <1>6

\* The text of a frame has the numbers of its pieces, each once if they have.
LEMMA AssembledOnce ==
    ASSUME NEW f \in Frames,
           \A p, q \in Pieces :
               /\ Once(f.text[p])
               /\ p # q => Numbers(f.text[p]) \cap Numbers(f.text[q]) = {}
    PROVE  /\ Assembled(f) \in Seq(Tokens) /\ Once(Assembled(f))
           /\ Numbers(Assembled(f)) = UNION {Numbers(f.text[p]) : p \in Pieces}
<1> DEFINE w == f.text["with"]
           d == f.text["distinct"]
           c == f.text["columns"]
           r == f.text["rest"]
           wd == w \o d
           wdc == wd \o c
           wdcr == wdc \o r
<1>1. w \in Seq(Tokens) /\ d \in Seq(Tokens) /\ c \in Seq(Tokens) /\ r \in Seq(Tokens)
  BY DEF Frames, Pieces
<1>2. /\ Once(w) /\ Once(d) /\ Once(c) /\ Once(r)
      /\ Numbers(w) \cap Numbers(d) = {} /\ Numbers(w) \cap Numbers(c) = {}
      /\ Numbers(w) \cap Numbers(r) = {} /\ Numbers(d) \cap Numbers(c) = {}
      /\ Numbers(d) \cap Numbers(r) = {} /\ Numbers(c) \cap Numbers(r) = {}
  BY DEF Pieces
<1>3. Assembled(f) = wdcr
  BY DEF Assembled
<1>4. UNION {Numbers(f.text[p]) : p \in Pieces}
        = Numbers(w) \cup Numbers(d) \cup Numbers(c) \cup Numbers(r)
  BY DEF Pieces
<1> HIDE DEF w, d, c, r
<1>5. wd \in Seq(Tokens) /\ Once(wd) /\ Numbers(wd) = Numbers(w) \cup Numbers(d)
  BY <1>1, <1>2, NumbersConcat, OnceConcat
<1> HIDE DEF wd
<1>6. /\ wdc \in Seq(Tokens) /\ Once(wdc)
      /\ Numbers(wdc) = Numbers(w) \cup Numbers(d) \cup Numbers(c)
  <2>1. Numbers(wd) \cap Numbers(c) = {}
    BY <1>2, <1>5
  <2>. QED  BY <1>1, <1>2, <1>5, <2>1, NumbersConcat, OnceConcat
<1> HIDE DEF wdc
<1>7. /\ wdcr \in Seq(Tokens) /\ Once(wdcr)
      /\ Numbers(wdcr) = Numbers(w) \cup Numbers(d) \cup Numbers(c) \cup Numbers(r)
  <2>1. Numbers(wdc) \cap Numbers(r) = {}
    BY <1>2, <1>6
  <2>. QED  BY <1>1, <1>2, <1>6, <2>1, NumbersConcat, OnceConcat
<1> HIDE DEF wdcr
<1>. QED  BY <1>3, <1>4, <1>7

----------------------------------------------------------------------------
(* What the steps do to the stack.                                         *)

Rising(ts) == \A j, k \in DOMAIN ts : j < k => ts[j].number < ts[k].number

\* Tokens with the numbers of what is added to the list, in order.
Emits(tokens) ==
    /\ Emit(tokens)
    /\ Len(params) \in Nat /\ Len(params') \in Nat /\ Len(params) <= Len(params')
    /\ Rising(tokens)
    /\ Numbers(tokens) = (Len(params) + 1)..Len(params')

LEMMA BindEmits ==
    ASSUME IInv, Bind
    PROVE  \E tokens \in Seq(Tokens) : Emits(tokens)
<1> DEFINE v == Current.value
           tokens == <<[number |-> Len(params'), value |-> v]>>
<1>1. IInv /\ Working /\ Current.form = "value" /\ params' = Append(params, v) /\ Emit(tokens)
  BY DEF Bind
<1>2. v \in Values
  <2>1. Current \in Items \cup RowItems
    BY <1>1, AtWork
  <2>. QED  BY <1>1, <2>1, ItemsAssumption DEF RowItems
<1>3. Len(params) \in Nat /\ Len(params') = Len(params) + 1
  BY <1>1, <1>2 DEF IInv, RenderTypeOK
<1>4. tokens \in Seq(Tokens)
  BY <1>2, <1>3 DEF Tokens
<1>5. Rising(tokens) /\ Numbers(tokens) = (Len(params) + 1)..Len(params')
  BY <1>3 DEF Rising, Numbers
<1> HIDE DEF tokens
<1>. QED  BY <1>1, <1>3, <1>4, <1>5 DEF Emits

LEMMA BindRowEmits ==
    ASSUME IInv, BindRow
    PROVE  \E tokens \in Seq(Tokens) : Emits(tokens)
<1> DEFINE row == Current
           tokens == [j \in 1..row.width |-> [number |-> row.start + j, value |-> row.values[j]]]
<1>1. IInv /\ Working /\ row.form = "row" /\ params' = params \o row.values /\ Emit(tokens)
  BY DEF BindRow
<1>2. /\ Top.todo \in Seq(WorkItems) /\ Top.todo # <<>>
      /\ row \in Items \cup RowItems /\ Aligned(Top.todo, Len(params))
  BY <1>1, AtWork
<1>3. row \in RowItems
  BY <1>1, <1>2, ItemsAssumption
<1>4. row.width = Len(row.values) /\ row.start = Len(params)
  <2>1. 1 \in DOMAIN Top.todo /\ row = Top.todo[1].item
    BY <1>2 DEF Current
  <2>. QED  BY <1>1, <1>2, <2>1 DEF Aligned
<1>5. params \in Seq(Values) /\ row.width \in Nat /\ row.start \in Nat
  BY <1>3 DEF IInv, RenderTypeOK, RowItems
<1> HIDE DEF row
<1>6. tokens \in Seq(Tokens) /\ Len(params') = row.start + row.width
  BY <1>1, <1>3, <1>4, <1>5, RowNamed
<1>7. DOMAIN tokens = 1..row.width /\ \A j \in 1..row.width : tokens[j].number = row.start + j
  OBVIOUS
<1> HIDE DEF tokens
<1>8. Rising(tokens)
  BY <1>5, <1>7 DEF Rising
<1>9. Numbers(tokens) = (Len(params) + 1)..Len(params')
  <2>1. \A n \in (row.start + 1)..(row.start + row.width) :
            n - row.start \in 1..row.width /\ n = row.start + (n - row.start)
    BY <1>5
  <2>2. \A j \in 1..row.width : row.start + j \in (row.start + 1)..(row.start + row.width)
    BY <1>5
  <2>3. Numbers(tokens) = {row.start + j : j \in 1..row.width}
    BY <1>7 DEF Numbers
  <2>4. Numbers(tokens) = (row.start + 1)..(row.start + row.width)
    BY <2>1, <2>2, <2>3
  <2>. QED  BY <1>4, <1>6, <2>4
<1>. QED  BY <1>1, <1>4, <1>5, <1>6, <1>8, <1>9 DEF Emits

LEMMA AdvanceStack ==
    ASSUME IInv, Working, NEW todo \in Seq(WorkItems), Advance(todo)
    PROVE  /\ stack' \in Seq(Frames) /\ stack' # <<>> /\ Len(stack') = Len(stack)
           /\ stack'[1].todo = todo /\ stack'[1].into = Top.into
           /\ stack'[1].text = Top.text
           /\ \A i \in DOMAIN stack' : i > 1 => i \in DOMAIN stack /\ stack'[i] = stack[i]
<1> DEFINE g == [Top EXCEPT !.todo = todo]
<1>1. Top \in Frames /\ stack \in Seq(Frames) /\ stack # <<>>
  BY AtWork DEF Walking
<1>2. g \in Frames /\ g.todo = todo /\ g.text = Top.text /\ g.into = Top.into
  BY <1>1, TodoFrame
<1>3. stack' = <<g>> \o Tail(stack)
  BY DEF Advance
<1> HIDE DEF g
<1>. QED  BY <1>1, <1>2, <1>3, ReplaceHead

LEMMA DescendStack ==
    ASSUME IInv, Descend
    PROVE  /\ stack' \in Seq(Frames) /\ Len(stack') = Len(stack) + 1 /\ stack # <<>>
           /\ Current.query \in Selects
           /\ stack'[1].todo = SelectWork(sel[Current.query])
           /\ stack'[1].into = Top.todo[1].piece
           /\ \A p \in Pieces : stack'[1].text[p] = <<>>
           /\ stack'[2].todo = Tail(Top.todo) /\ stack'[2].into = Top.into
           /\ stack'[2].text = Top.text
           /\ \A i \in DOMAIN stack' :
                  i > 2 => i - 1 \in DOMAIN stack /\ i - 1 > 1 /\ stack'[i] = stack[i-1]
<1> DEFINE work == SelectWork(sel[Current.query])
           piece == Top.todo[1].piece
           new == Frame(work, piece)
           old == [Top EXCEPT !.todo = Tail(Top.todo)]
<1>1. Working /\ Current.form = "select" /\ stack' = <<new, old>> \o Tail(stack)
  BY DEF Descend
<1>2. /\ stack \in Seq(Frames) /\ stack # <<>> /\ Top \in Frames /\ piece \in Pieces
      /\ Tail(Top.todo) \in Seq(WorkItems) /\ Current \in Items \cup RowItems
  BY <1>1, AtWork DEF Walking
<1>3. Current.query \in Selects
  BY <1>1, <1>2, ItemsAssumption DEF RowItems
<1>4. work \in Seq(WorkItems)
  BY <1>3, SelectWorkOK DEF IInv, RenderTypeOK, BuildersTypeOK
<1>5. /\ new \in Frames /\ new.todo = work /\ new.into = piece
      /\ \A p \in Pieces : new.text[p] = <<>>
  BY <1>2, <1>4, NewFrame
<1>6. old \in Frames /\ old.todo = Tail(Top.todo) /\ old.text = Top.text /\ old.into = Top.into
  BY <1>2, TodoFrame
<1> HIDE DEF new, old
<1>7. /\ stack' \in Seq(Frames) /\ Len(stack') = Len(stack) + 1
      /\ stack'[1] = new /\ stack'[2] = old
      /\ \A i \in DOMAIN stack' :
             i > 2 => i - 1 \in DOMAIN stack /\ i - 1 > 1 /\ stack'[i] = stack[i-1]
  BY <1>1, <1>2, <1>5, <1>6, PushHead
<1>. QED  BY <1>2, <1>3, <1>5, <1>6, <1>7

LEMMA ReturnStack ==
    ASSUME IInv, Return, Assembled(Top) \in Seq(Tokens)
    PROVE  /\ stack \in Seq(Frames) /\ Len(stack) > 1
           /\ Top = stack[1] /\ Top \in Frames /\ Top.into \in Pieces
           /\ stack' \in Seq(Frames) /\ stack' # <<>> /\ Len(stack') = Len(stack) - 1
           /\ stack'[1].todo = stack[2].todo /\ stack'[1].into = stack[2].into
           /\ \A p \in Pieces : stack'[1].text[p] =
                  IF p = Top.into THEN stack[2].text[p] \o Assembled(Top) ELSE stack[2].text[p]
           /\ \A i \in DOMAIN stack' : i > 1 => i + 1 \in DOMAIN stack /\ stack'[i] = stack[i+1]
<1> DEFINE g == Written(stack[2], Top.into, Assembled(Top))
<1>1. stack \in Seq(Frames) /\ Len(stack) > 1
  BY DEF IInv, RenderTypeOK, Return
<1>2. /\ 1 \in DOMAIN stack /\ 2 \in DOMAIN stack /\ Top = stack[1]
      /\ Top \in Frames /\ stack[2] \in Frames
  BY <1>1 DEF Top
<1>3. Top.into \in Pieces
  BY <1>2 DEF Frames
<1>4. /\ g \in Frames /\ g.todo = stack[2].todo /\ g.into = stack[2].into
      /\ \A p \in Pieces : g.text[p] =
             IF p = Top.into THEN stack[2].text[p] \o Assembled(Top) ELSE stack[2].text[p]
  BY <1>2, <1>3, WrittenFrame
<1>5. g \in Frames
  BY <1>4
<1> DEFINE after == <<g>> \o Tail(Tail(stack))
<1>6. stack' = after
  BY DEF Return
<1> HIDE DEF g
<1>7. /\ after \in Seq(Frames) /\ after # <<>> /\ Len(after) = Len(stack) - 1 /\ after[1] = g
      /\ \A i \in DOMAIN after : i > 1 => i + 1 \in DOMAIN stack /\ after[i] = stack[i+1]
  BY <1>1, <1>5, PopHead, SMTT(30)
<1> HIDE DEF after
<1>. QED  BY <1>1, <1>2, <1>3, <1>4, <1>6, <1>7

----------------------------------------------------------------------------
(* The steps keep OInv.                                                    *)

LEMMA TextType ==
    ASSUME NEW st \in Seq(Frames), NEW i \in DOMAIN st, NEW p \in Pieces
    PROVE  st[i].text[p] \in Seq(Tokens)
<1>1. st[i] \in Frames
  OBVIOUS
<1>. QED  BY <1>1 DEF Frames

\* What is written was bound before.
LEMMA NumbersBound ==
    ASSUME IInv, NEW i \in DOMAIN stack, NEW p \in Pieces
    PROVE  /\ stack[i].text[p] \in Seq(Tokens)
           /\ Numbers(stack[i].text[p]) \subseteq 1..Len(params)
<1>1. stack \in Seq(Frames) /\ AllNamed(stack[i].text[p], params)
  BY DEF IInv, RenderTypeOK, TextsNamed
<1>. QED  BY <1>1, TextType DEF AllNamed, Named, Numbers

LEMMA RisingOnce ==
    ASSUME NEW ts \in Seq(Tokens), Rising(ts)
    PROVE  Once(ts)
<1> SUFFICES ASSUME NEW j \in DOMAIN ts, NEW k \in DOMAIN ts, ts[j].number = ts[k].number, j # k
             PROVE  FALSE
  BY DEF Once
<1>1. j \in Nat /\ k \in Nat /\ ts[j] \in Tokens
  OBVIOUS
<1>2. j < k \/ k < j
  BY <1>1
<1>3. ts[j].number \in Nat
  BY <1>1 DEF Tokens
<1>. QED  BY <1>2, <1>3 DEF Rising

LEMMA EmitOnce ==
    ASSUME IInv, OInv, Working, NEW tokens \in Seq(Tokens), Emits(tokens)
    PROVE  Apart' /\ Covered'
<1> DEFINE piece == Top.todo[1].piece
           new == (Len(params) + 1)..Len(params')
<1>1. /\ Len(params) \in Nat /\ Len(params') \in Nat /\ Len(params) <= Len(params')
      /\ Once(tokens) /\ Numbers(tokens) = new
  BY RisingOnce DEF Emits
<1>2. stack \in Seq(Frames) /\ stack # <<>> /\ 1 \in DOMAIN stack /\ Top = stack[1]
  BY AtWork DEF Walking, Top
<1>3. /\ piece \in Pieces
      /\ stack' \in Seq(Frames) /\ stack' # <<>> /\ Len(stack') = Len(stack)
      /\ \A p \in Pieces : stack'[1].text[p] =
             IF p = piece THEN Top.text[p] \o tokens ELSE Top.text[p]
      /\ \A i \in DOMAIN stack' : i > 1 => i \in DOMAIN stack /\ stack'[i] = stack[i]
  BY EmitStack DEF Emits
<1> HIDE DEF piece
<1>4. DOMAIN stack' = DOMAIN stack /\ \A i \in DOMAIN stack : i = 1 \/ i > 1
  BY <1>2, <1>3
<1>5. \A n \in new : n \notin 1..Len(params)
  BY <1>1
<1>6. ASSUME NEW p \in Pieces, p # piece
      PROVE  stack'[1].text[p] = stack[1].text[p]
  BY <1>2, <1>3, <1>6
<1>7. /\ Numbers(stack'[1].text[piece]) = Numbers(stack[1].text[piece]) \cup new
      /\ Once(stack'[1].text[piece])
  <2>1. /\ stack[1].text[piece] \in Seq(Tokens)
        /\ Numbers(stack[1].text[piece]) \subseteq 1..Len(params)
    BY <1>2, <1>3, NumbersBound
  <2>2. Once(stack[1].text[piece])
    BY <1>2, <1>3 DEF OInv, Apart
  <2>3. stack'[1].text[piece] = stack[1].text[piece] \o tokens
    BY <1>2, <1>3
  <2>4. Numbers(stack[1].text[piece]) \cap Numbers(tokens) = {}
    BY <1>1, <1>5, <2>1
  <2>. QED  BY <1>1, <2>1, <2>2, <2>3, <2>4, NumbersConcat, OnceConcat
<1>8. ASSUME NEW i \in DOMAIN stack, NEW p \in Pieces
      PROVE  /\ Once(stack'[i].text[p])
             /\ Numbers(stack[i].text[p]) \subseteq Numbers(stack'[i].text[p])
             /\ Numbers(stack'[i].text[p]) \subseteq
                    Numbers(stack[i].text[p]) \cup (IF i = 1 /\ p = piece THEN new ELSE {})
  <2>1. CASE i = 1 /\ p = piece
    BY <1>7, <2>1
  <2>2. CASE ~(i = 1 /\ p = piece)
    <3>1. stack'[i].text[p] = stack[i].text[p]
      BY <1>3, <1>4, <1>6, <2>2
    <3>. QED  BY <2>2, <3>1 DEF OInv, Apart
  <2>. QED  BY <2>1, <2>2
<1>9. ASSUME NEW i \in DOMAIN stack, NEW j \in DOMAIN stack, NEW p \in Pieces, NEW q \in Pieces,
             i # j \/ p # q
      PROVE  Numbers(stack'[i].text[p]) \cap Numbers(stack'[j].text[q]) = {}
  <2>1. Numbers(stack[i].text[p]) \cap Numbers(stack[j].text[q]) = {}
    BY <1>9 DEF OInv, Apart
  <2>2. /\ Numbers(stack[i].text[p]) \cap new = {}
        /\ Numbers(stack[j].text[q]) \cap new = {}
    BY <1>5, NumbersBound
  <2>3. CASE i = 1 /\ p = piece
    <3>1. ~(j = 1 /\ q = piece)
      BY <1>9, <2>3
    <3>. QED  BY <1>8, <2>1, <2>2, <3>1
  <2>4. CASE ~(i = 1 /\ p = piece)
    BY <1>8, <2>1, <2>2, <2>4
  <2>. QED  BY <2>3, <2>4
<1>10. Apart'
  BY <1>4, <1>8, <1>9 DEF Apart
<1>11. Covered'
  <2> SUFFICES ASSUME NEW n \in 1..Len(params')
               PROVE  \E i \in DOMAIN stack', p \in Pieces : n \in Numbers(stack'[i].text[p])
    BY DEF Covered
  <2>1. CASE n \in 1..Len(params)
    <3>1. PICK i \in DOMAIN stack, p \in Pieces : n \in Numbers(stack[i].text[p])
      BY <1>2, <2>1 DEF OInv, Covered
    <3>. QED  BY <1>4, <1>8, <3>1
  <2>2. CASE n \notin 1..Len(params)
    <3>1. n \in new
      BY <1>1, <2>2
    <3>. QED  BY <1>2, <1>3, <1>4, <1>7, <3>1
  <2>. QED  BY <2>1, <2>2
<1>. QED  BY <1>10, <1>11

\* A step that writes nothing.
LEMMA OpenOnce ==
    ASSUME IInv, OInv, Open
    PROVE  Apart' /\ Covered'
<1>1. PICK todo \in Seq(WorkItems) : Working /\ Advance(todo) /\ params' = params
  BY OpenWork DEF Open
<1>2. stack # <<>> /\ 1 \in DOMAIN stack /\ Top = stack[1]
  BY <1>1, AtWork DEF Walking, Top
<1>3. /\ stack' \in Seq(Frames) /\ stack' # <<>> /\ Len(stack') = Len(stack)
      /\ stack'[1].text = Top.text
      /\ \A i \in DOMAIN stack' : i > 1 => i \in DOMAIN stack /\ stack'[i] = stack[i]
  BY <1>1, AdvanceStack
<1>4. stack \in Seq(Frames)
  BY DEF IInv, RenderTypeOK
<1>5. DOMAIN stack' = DOMAIN stack /\ \A i \in DOMAIN stack : i = 1 \/ i > 1
  BY <1>3, <1>4
<1>6. \A i \in DOMAIN stack : stack'[i].text = stack[i].text
  BY <1>2, <1>3, <1>5
<1>7. Apart'
  BY <1>5, <1>6 DEF OInv, Apart
<1>8. Covered'
  BY <1>1, <1>2, <1>5, <1>6 DEF OInv, Covered
<1>. QED  BY <1>7, <1>8

LEMMA DescendOnce ==
    ASSUME IInv, OInv, Descend
    PROVE  Apart' /\ Covered'
<1>1. /\ stack' \in Seq(Frames) /\ Len(stack') = Len(stack) + 1
      /\ \A p \in Pieces : stack'[1].text[p] = <<>>
      /\ stack'[2].text = Top.text
      /\ \A i \in DOMAIN stack' :
             i > 2 => i - 1 \in DOMAIN stack /\ i - 1 > 1 /\ stack'[i] = stack[i-1]
  BY DescendStack
<1>2. stack \in Seq(Frames) /\ stack # <<>> /\ Top = stack[1] /\ params' = params
  BY DescendStack DEF IInv, RenderTypeOK, Top, Descend
<1>3. /\ Len(stack) \in Nat /\ DOMAIN stack = 1..Len(stack)
      /\ DOMAIN stack' = 1..(Len(stack) + 1) /\ 1 \in DOMAIN stack
  BY <1>1, <1>2
<1>4. ASSUME NEW i \in DOMAIN stack', i # 1
      PROVE  i - 1 \in DOMAIN stack /\ stack'[i].text = stack[i-1].text
  <2>1. i = 2 \/ i > 2
    BY <1>3, <1>4
  <2>2. CASE i = 2
    BY <1>1, <1>2, <1>3, <2>2
  <2>3. CASE i > 2
    BY <1>1, <2>3
  <2>. QED  BY <2>1, <2>2, <2>3
<1>5. \A p \in Pieces : Once(stack'[1].text[p]) /\ Numbers(stack'[1].text[p]) = {}
  BY <1>1 DEF Once, Numbers
<1>6. Apart'
  <2> SUFFICES ASSUME NEW i \in DOMAIN stack', NEW j \in DOMAIN stack',
                      NEW p \in Pieces, NEW q \in Pieces
               PROVE  /\ Once(stack'[i].text[p])
                      /\ (i # j \/ p # q) =>
                             Numbers(stack'[i].text[p]) \cap Numbers(stack'[j].text[q]) = {}
    BY DEF Apart
  <2>1. CASE i = 1 \/ j = 1
    <3>1. i # 1 => Once(stack'[i].text[p])
      BY <1>4 DEF OInv, Apart
    <3>. QED  BY <1>5, <2>1, <3>1
  <2>2. CASE i # 1 /\ j # 1
    <3>1. /\ i - 1 \in DOMAIN stack /\ stack'[i].text = stack[i-1].text
          /\ j - 1 \in DOMAIN stack /\ stack'[j].text = stack[j-1].text
      BY <1>4, <2>2
    <3>2. i # j => i - 1 # j - 1
      BY <1>3
    <3>. QED  BY <3>1, <3>2 DEF OInv, Apart
  <2>. QED  BY <2>1, <2>2
<1>7. Covered'
  <2> SUFFICES ASSUME NEW n \in 1..Len(params)
               PROVE  \E i \in DOMAIN stack', p \in Pieces : n \in Numbers(stack'[i].text[p])
    BY <1>2 DEF Covered
  <2>1. PICK i \in DOMAIN stack, p \in Pieces : n \in Numbers(stack[i].text[p])
    BY <1>2 DEF OInv, Covered
  <2>2. i + 1 \in DOMAIN stack' /\ i + 1 # 1 /\ (i + 1) - 1 = i
    BY <1>3
  <2>3. stack'[i+1].text = stack[i].text
    BY <1>4, <2>2
  <2>. QED  BY <2>1, <2>2, <2>3
<1>. QED  BY <1>6, <1>7

LEMMA TopAssembled ==
    ASSUME IInv, OInv, stack # <<>>
    PROVE  /\ 1 \in DOMAIN stack /\ Top = stack[1] /\ Top \in Frames
           /\ Assembled(Top) \in Seq(Tokens) /\ Once(Assembled(Top))
           /\ Numbers(Assembled(Top)) = UNION {Numbers(stack[1].text[p]) : p \in Pieces}
<1>1. stack \in Seq(Frames)
  BY DEF IInv, RenderTypeOK
<1>2. 1 \in DOMAIN stack /\ Top = stack[1] /\ Top \in Frames
  BY <1>1 DEF Top
<1>3. \A p, q \in Pieces :
          /\ Once(Top.text[p])
          /\ p # q => Numbers(Top.text[p]) \cap Numbers(Top.text[q]) = {}
  BY <1>2 DEF OInv, Apart
<1>4. /\ Assembled(Top) \in Seq(Tokens) /\ Once(Assembled(Top))
      /\ Numbers(Assembled(Top)) = UNION {Numbers(Top.text[p]) : p \in Pieces}
  BY <1>2, <1>3, AssembledOnce
<1>. QED  BY <1>2, <1>4

\* What the frame above has written moves to the one below, and nothing else does.
LEMMA ReturnOnce ==
    ASSUME IInv, OInv, Return
    PROVE  Apart' /\ Covered'
<1> DEFINE piece == Top.into
           moved == Numbers(Assembled(Top))
<1>1. stack # <<>> /\ params' = params
  BY DEF IInv, RenderTypeOK, Return
<1>2. /\ 1 \in DOMAIN stack /\ Assembled(Top) \in Seq(Tokens) /\ Once(Assembled(Top))
      /\ moved = UNION {Numbers(stack[1].text[p]) : p \in Pieces}
  BY <1>1, TopAssembled
<1>3. /\ stack \in Seq(Frames) /\ Len(stack) > 1 /\ piece \in Pieces
      /\ stack' \in Seq(Frames) /\ stack' # <<>> /\ Len(stack') = Len(stack) - 1
      /\ \A p \in Pieces : stack'[1].text[p] =
             IF p = piece THEN stack[2].text[p] \o Assembled(Top) ELSE stack[2].text[p]
      /\ \A i \in DOMAIN stack' : i > 1 => i + 1 \in DOMAIN stack /\ stack'[i] = stack[i+1]
  BY <1>2, ReturnStack
<1> DEFINE tokens == Assembled(Top)
<1>4. Numbers(tokens) = moved
  OBVIOUS
<1> HIDE DEF piece, tokens, moved
<1>5. 2 \in DOMAIN stack
  BY <1>3
<1>6. ASSUME NEW i \in DOMAIN stack'
      PROVE  i + 1 \in DOMAIN stack /\ i + 1 # 1 /\ (i > 1 => stack'[i] = stack[i+1])
             /\ (i = 1 \/ i > 1)
  <2>1. i = 1 \/ i > 1
    BY <1>3
  <2>. QED  BY <1>3, <1>5, <2>1
<1>7. \A k \in DOMAIN stack, p \in Pieces : k # 1 => Numbers(stack[k].text[p]) \cap moved = {}
  BY <1>2 DEF OInv, Apart
<1>8. ASSUME NEW i \in DOMAIN stack', NEW p \in Pieces
      PROVE  /\ Once(stack'[i].text[p])
             /\ Numbers(stack'[i].text[p]) =
                    Numbers(stack[i+1].text[p])
                    \cup (IF i = 1 /\ p = piece THEN moved ELSE {})
  <2>1. CASE i = 1 /\ p = piece
    <3>1. stack[2].text[p] \in Seq(Tokens) /\ tokens \in Seq(Tokens)
      BY <1>2, <1>3, <1>5, TextType DEF tokens
    <3>2. Once(stack[2].text[p]) /\ Once(tokens)
      BY <1>2, <1>5 DEF OInv, Apart, tokens
    <3>3. Numbers(stack[2].text[p]) \cap Numbers(tokens) = {}
      BY <1>4, <1>5, <1>7
    <3>4. stack'[1].text[p] = stack[2].text[p] \o tokens
      BY <1>3, <2>1 DEF tokens
    <3>. QED  BY <1>4, <2>1, <3>1, <3>2, <3>3, <3>4, NumbersConcat, OnceConcat
  <2>2. CASE ~(i = 1 /\ p = piece)
    <3>1. stack'[i].text[p] = stack[i+1].text[p]
      BY <1>3, <1>6, <2>2
    <3>2. Once(stack[i+1].text[p])
      BY <1>6 DEF OInv, Apart
    <3>. QED  BY <2>2, <3>1, <3>2
  <2>. QED  BY <2>1, <2>2
<1>9. ASSUME NEW i \in DOMAIN stack', NEW j \in DOMAIN stack', NEW p \in Pieces, NEW q \in Pieces,
             i # j \/ p # q
      PROVE  Numbers(stack'[i].text[p]) \cap Numbers(stack'[j].text[q]) = {}
  <2>1. i + 1 \in DOMAIN stack /\ j + 1 \in DOMAIN stack /\ i + 1 # 1 /\ j + 1 # 1
    BY <1>6
  <2>2. i # j => i + 1 # j + 1
    BY <1>3
  <2>3. Numbers(stack[i+1].text[p]) \cap Numbers(stack[j+1].text[q]) = {}
    BY <1>9, <2>1, <2>2 DEF OInv, Apart
  <2>4. /\ Numbers(stack[i+1].text[p]) \cap moved = {}
        /\ Numbers(stack[j+1].text[q]) \cap moved = {}
    BY <1>7, <2>1
  <2>5. CASE i = 1 /\ p = piece
    <3>1. ~(j = 1 /\ q = piece)
      BY <1>9, <2>5
    <3>. QED  BY <1>8, <2>3, <2>4, <3>1
  <2>6. CASE ~(i = 1 /\ p = piece)
    BY <1>8, <2>3, <2>4, <2>6
  <2>. QED  BY <2>5, <2>6
<1>10. Apart'
  BY <1>8, <1>9 DEF Apart
<1>11. Covered'
  <2> SUFFICES ASSUME NEW n \in 1..Len(params)
               PROVE  \E i \in DOMAIN stack', p \in Pieces : n \in Numbers(stack'[i].text[p])
    BY <1>1 DEF Covered
  <2>1. PICK i \in DOMAIN stack, p \in Pieces : n \in Numbers(stack[i].text[p])
    BY <1>1 DEF OInv, Covered
  <2>2. CASE i = 1
    <3>1. n \in moved
      BY <1>2, <2>1, <2>2
    <3>2. 1 \in DOMAIN stack'
      BY <1>3
    <3>. QED  BY <1>3, <1>8, <3>1, <3>2
  <2>3. CASE i # 1
    <3>1. i \in 2..Len(stack)
      BY <1>3, <2>1, <2>3
    <3>2. i - 1 \in DOMAIN stack' /\ (i - 1) + 1 = i
      BY <1>3, <3>1
    <3>. QED  BY <1>8, <2>1, <3>2
  <2>. QED  BY <2>2, <2>3
<1>. QED  BY <1>10, <1>11

LEMMA RenderOnce ==
    ASSUME IInv, Render
    PROVE  Apart' /\ Covered'
<1> DEFINE f == Frame(StatementWork, "rest")
<1>1. BuildersTypeOK /\ ~RefusesStatement
  BY DEF IInv, RenderTypeOK, Render
<1>2. f \in Frames /\ \A p \in Pieces : f.text[p] = <<>>
  <2>1. StatementWork \in Seq(WorkItems)
    BY <1>1, StatementWorkOK
  <2>. QED  BY <2>1, NewFrame DEF Pieces
<1>3. stack' = <<f>> /\ params' = <<>>
  BY DEF Render
<1> HIDE DEF f
<1>4. DOMAIN stack' = {1} /\ stack'[1] = f /\ 1..Len(params') = {}
  BY <1>3
<1>5. Apart'
  BY <1>2, <1>4 DEF Apart, Once, Numbers
<1>6. Covered'
  BY <1>4 DEF Covered
<1>. QED  BY <1>5, <1>6

LEMMA FinishOnce ==
    ASSUME IInv, OInv, Finish
    PROVE  AllOnce'
<1>1. stack \in Seq(Frames) /\ Len(stack) = 1 /\ params' = params /\ text' = Assembled(Top)
  BY DEF IInv, RenderTypeOK, Finish
<1>2. stack # <<>> /\ DOMAIN stack = {1}
  BY <1>1
<1>3. /\ Once(text')
      /\ Numbers(text') = UNION {Numbers(stack[1].text[p]) : p \in Pieces}
  BY <1>1, <1>2, TopAssembled
<1>4. ASSUME NEW n \in 1..Len(params)
      PROVE  n \in Numbers(text')
  <2>1. PICK i \in DOMAIN stack, p \in Pieces : n \in Numbers(stack[i].text[p])
    BY <1>2 DEF OInv, Covered
  <2>. QED  BY <1>2, <1>3, <2>1
<1>. QED  BY <1>1, <1>3, <1>4 DEF AllOnce

LEMMA OnceWalking ==
    ASSUME Apart', Covered', phase' = "rendering"
    PROVE  OInv'
  BY DEF OInv, AllOnce

LEMMA OnceEmpty ==
    ASSUME stack' = <<>>, phase' = "rendered" => AllOnce'
    PROVE  OInv'
  BY DEF OInv, AllOnce, Apart, Covered

LEMMA OnceStart == Init => OInv
  BY DEF Init, OInv, AllOnce, Apart, Covered

LEMMA OnceStep == IInv /\ OInv /\ [Next]_vars => OInv'
<1> SUFFICES ASSUME IInv, OInv, [Next]_vars
             PROVE  OInv'
  OBVIOUS
<1>1. stack = <<>> <=> phase # "rendering"
  BY DEF IInv, RenderTypeOK
<1>2. CASE phase = "idle" /\ BuilderCall /\ UNCHANGED renderVars
  BY <1>1, <1>2, OnceEmpty DEF renderVars
<1>3. CASE Render
  BY <1>3, RenderOnce, OnceWalking DEF Render
<1>4. CASE Bind
  BY <1>4, BindEmits, EmitOnce, OnceWalking DEF Bind, Working
<1>5. CASE BindRow
  BY <1>5, BindRowEmits, EmitOnce, OnceWalking DEF BindRow, Working
<1>6. CASE Open
  BY <1>6, OpenOnce, OnceWalking DEF Open, Working
<1>7. CASE Descend
  BY <1>7, DescendOnce, OnceWalking DEF Descend, Working
<1>8. CASE Return
  BY <1>8, ReturnOnce, OnceWalking DEF Return
<1>9. CASE Raise
  BY <1>9, OnceEmpty DEF Raise
<1>10. CASE Finish
  BY <1>10, FinishOnce, OnceEmpty DEF Finish
<1>11. CASE Await
  BY <1>1, <1>11, OnceEmpty DEF Await
<1>12. CASE UNCHANGED vars
  BY <1>12 DEF vars, renderVars, OInv, AllOnce, Apart, Covered
<1>. QED  BY <1>2, <1>3, <1>4, <1>5, <1>6, <1>7, <1>8, <1>9, <1>10, <1>11, <1>12
          DEF Next, Walk

LEMMA AlwaysOnce == Spec => [](IInv /\ OInv)
<1>1. Init => IInv /\ OInv
  BY Start, OnceStart
<1>2. IInv /\ OInv /\ [Next]_vars => (IInv /\ OInv)'
  BY Step, OnceStep
<1>. QED  BY <1>1, <1>2, PTL DEF Spec

\* A sequence without repetition is as long as its set of numbers.
LEMMA OnceLength ==
    ASSUME NEW ts \in Seq(Tokens), NEW n \in Nat, Once(ts), Numbers(ts) = 1..n
    PROVE  Len(ts) = n
<1> DEFINE number == [k \in 1..Len(ts) |-> ts[k].number]
           place == [m \in 1..n |-> CHOOSE k \in DOMAIN ts : ts[k].number = m]
<1>1. /\ Len(ts) \in Nat /\ DOMAIN ts = 1..Len(ts)
      /\ IsFiniteSet(1..Len(ts)) /\ Cardinality(1..Len(ts)) = Len(ts)
      /\ IsFiniteSet(1..n) /\ Cardinality(1..n) = n
  <2>1. Len(ts) \in Nat /\ DOMAIN ts = 1..Len(ts)
    OBVIOUS
  <2>2. \A m \in Nat : IsFiniteSet(1..m) /\ Cardinality(1..m) = m
    BY FS_Interval
  <2>. QED  BY <2>1, <2>2
<1>2. ~(Len(ts) > n)
  <2>1. number \in [1..Len(ts) -> 1..n]
    BY <1>1 DEF Numbers
  <2>2. \A j, k \in 1..Len(ts) : number[j] = number[k] => j = k
    BY <1>1 DEF Once
  <2> HIDE DEF number
  <2>. QED  BY <1>1, <2>1, <2>2, FS_PigeonHole
<1>3. ~(n > Len(ts))
  <2>1. \A m \in 1..n : place[m] \in DOMAIN ts /\ ts[place[m]].number = m
    <3>1. \A m \in 1..n : \E k \in DOMAIN ts : ts[k].number = m
      BY DEF Numbers
    <3>. QED  BY <3>1
  <2>2. place \in [1..n -> 1..Len(ts)]
    BY <1>1, <2>1
  <2>3. \A j, k \in 1..n : place[j] = place[k] => j = k
    BY <2>1
  <2> HIDE DEF place
  <2>. QED  BY <1>1, <2>2, <2>3, FS_PigeonHole
<1>4. \A l \in Nat : ~(l > n) /\ ~(n > l) => l = n
  OBVIOUS
<1>. QED  BY <1>1, <1>2, <1>3, <1>4

LEMMA RenderedOnce ==
    ASSUME IInv, OInv, phase = "rendered"
    PROVE  /\ text \in Seq(Tokens) /\ Len(params) \in Nat /\ DOMAIN params = 1..Len(params)
           /\ Once(text) /\ Numbers(text) = DOMAIN params /\ Len(text) = Len(params)
<1>1. /\ text \in Seq(Tokens) /\ params \in Seq(Values) /\ AllNamed(text, params)
      /\ Once(text) /\ \A n \in 1..Len(params) : n \in Numbers(text)
  BY DEF IInv, RenderTypeOK, Assembly, OInv, AllOnce
<1>2. Len(params) \in Nat /\ DOMAIN params = 1..Len(params)
  BY <1>1
<1>3. Numbers(text) = 1..Len(params)
  BY <1>1 DEF Numbers, AllNamed, Named
<1>. QED  BY <1>1, <1>2, <1>3, OnceLength

(***************************************************************************)
(* A statement uses each of its parameters exactly once, whatever is       *)
(* nested in it: what a step binds it writes in the same step, into one    *)
(* piece of one frame, and texts only move downwards through the stack.    *)
(***************************************************************************)
THEOREM ParametersOnce == Spec => []EachParameterOnce
<1>1. IInv /\ OInv => EachParameterOnce
  BY RenderedOnce DEF EachParameterOnce, Numbers
<1>. QED  BY <1>1, AlwaysOnce, PTL

----------------------------------------------------------------------------
(* Places and numbers.  Numbers rise along each piece; the pieces of one   *)
(* frame rise in the order in which they stand in the SQL, and what a      *)
(* frame has written lies behind all that the frames below it have.        *)

Rank(piece) ==
    CASE piece = "with"     -> 1
      [] piece = "distinct" -> 2
      [] piece = "columns"  -> 3
      [] piece = "rest"     -> 4

\* No SELECT has both DISTINCT ON and explicit columns.
Plain == \A q \in Selects : sel[q].distinctOn = <<>> \/ sel[q].columns = <<>>

RanksRise(todo) ==
    \A j, k \in DOMAIN todo : j <= k => Rank(todo[j].piece) <= Rank(todo[k].piece)

\* The pieces behind rank r have no text yet.
EmptyAfter(f, r) == \A p \in Pieces : Rank(p) > r => f.text[p] = <<>>

\* What is left to write in a frame goes behind what it has written.
Forward(f) ==
    /\ RanksRise(f.todo)
    /\ \A k \in DOMAIN f.todo : EmptyAfter(f, Rank(f.todo[k].piece))

\* There is room in a frame for a text that goes to a piece of rank r.
Room(f, r) == EmptyAfter(f, r) /\ \A k \in DOMAIN f.todo : r <= Rank(f.todo[k].piece)

Onward ==
    \A i \in DOMAIN stack :
        Forward(stack[i]) /\ (i > 1 => Room(stack[i], Rank(stack[i-1].into)))

Less(ts, us) == \A m \in Numbers(ts), n \in Numbers(us) : m < n

Ordered ==
    \A i, j \in DOMAIN stack, p, q \in Pieces :
        /\ Rising(stack[i].text[p])
        /\ i > j \/ (i = j /\ Rank(p) < Rank(q)) => Less(stack[i].text[p], stack[j].text[q])

\* Frames below hold earlier numbers: stack[1] is the top.
PInv == Plain => Onward /\ Ordered /\ (phase = "rendered" => Rising(text))

LEMMA RankType ==
    /\ \A p \in Pieces : Rank(p) \in 1..4
    /\ \A p, q \in Pieces : Rank(p) = Rank(q) => p = q
    /\ Rank("with") = 1 /\ Rank("distinct") = 2 /\ Rank("columns") = 3 /\ Rank("rest") = 4
<1>1. Rank("with") = 1
  BY DEF Rank
<1>2. Rank("distinct") = 2
  BY DEF Rank
<1>3. Rank("columns") = 3
  BY DEF Rank
<1>4. Rank("rest") = 4
  BY DEF Rank
<1>. QED  BY <1>1, <1>2, <1>3, <1>4 DEF Pieces

LEMMA RisingConcat ==
    ASSUME NEW a \in Seq(Tokens), NEW b \in Seq(Tokens), Rising(a), Rising(b), Less(a, b)
    PROVE  Rising(a \o b)
<1> DEFINE c == a \o b
<1>1. c \in Seq(Tokens) /\ Len(c) = Len(a) + Len(b)
      /\ \A i \in 1..(Len(a) + Len(b)) : c[i] = IF i <= Len(a) THEN a[i] ELSE b[i - Len(a)]
  BY ConcatProperties
<1>2. Len(a) \in Nat /\ Len(b) \in Nat /\ DOMAIN c = 1..(Len(a) + Len(b))
      /\ DOMAIN a = 1..Len(a) /\ DOMAIN b = 1..Len(b)
  BY <1>1
<1> HIDE DEF c
<1> SUFFICES ASSUME NEW j \in DOMAIN c, NEW k \in DOMAIN c, j < k
             PROVE  c[j].number < c[k].number
  BY DEF Rising, c
<1>3. j \in Nat /\ k \in Nat
  BY <1>2
<1>4. CASE k <= Len(a)
  <2>1. j \in DOMAIN a /\ k \in DOMAIN a /\ c[j] = a[j] /\ c[k] = a[k]
    BY <1>1, <1>2, <1>3, <1>4
  <2>. QED  BY <2>1 DEF Rising
<1>5. CASE ~(j <= Len(a))
  <2>1. /\ j - Len(a) \in DOMAIN b /\ k - Len(a) \in DOMAIN b /\ j - Len(a) < k - Len(a)
        /\ c[j] = b[j - Len(a)] /\ c[k] = b[k - Len(a)]
    BY <1>1, <1>2, <1>3, <1>5
  <2>. QED  BY <2>1 DEF Rising
<1>6. CASE j <= Len(a) /\ ~(k <= Len(a))
  <2>1. /\ j \in DOMAIN a /\ k - Len(a) \in DOMAIN b
        /\ c[j] = a[j] /\ c[k] = b[k - Len(a)]
    BY <1>1, <1>2, <1>3, <1>6
  <2>. QED  BY <2>1 DEF Less, Numbers
<1>. QED  BY <1>3, <1>4, <1>5, <1>6

LEMMA AssembledRising ==
    ASSUME NEW f \in Frames,
           \A p, q \in Pieces :
               Rising(f.text[p]) /\ (Rank(p) < Rank(q) => Less(f.text[p], f.text[q]))
    PROVE  Assembled(f) \in Seq(Tokens) /\ Rising(Assembled(f))
<1> DEFINE w == f.text["with"]
           d == f.text["distinct"]
           c == f.text["columns"]
           r == f.text["rest"]
           wd == w \o d
           wdc == wd \o c
           wdcr == wdc \o r
<1>1. w \in Seq(Tokens) /\ d \in Seq(Tokens) /\ c \in Seq(Tokens) /\ r \in Seq(Tokens)
  BY DEF Frames, Pieces
<1>2. /\ Rising(w) /\ Rising(d) /\ Rising(c) /\ Rising(r)
      /\ Less(w, d) /\ Less(w, c) /\ Less(w, r) /\ Less(d, c) /\ Less(d, r) /\ Less(c, r)
  BY RankType DEF Pieces
<1>3. Assembled(f) = wdcr
  BY DEF Assembled
<1> HIDE DEF w, d, c, r
<1>4. wd \in Seq(Tokens) /\ Rising(wd) /\ Numbers(wd) = Numbers(w) \cup Numbers(d)
  BY <1>1, <1>2, RisingConcat, NumbersConcat
<1> HIDE DEF wd
<1>5. /\ wdc \in Seq(Tokens) /\ Rising(wdc)
      /\ Numbers(wdc) = Numbers(w) \cup Numbers(d) \cup Numbers(c)
  <2>1. Less(wd, c)
    BY <1>2, <1>4 DEF Less
  <2>. QED  BY <1>1, <1>2, <1>4, <2>1, RisingConcat, NumbersConcat
<1> HIDE DEF wdc
<1>6. wdcr \in Seq(Tokens) /\ Rising(wdcr)
  <2>1. Less(wdc, r)
    BY <1>2, <1>5 DEF Less
  <2>. QED  BY <1>1, <1>2, <1>5, <2>1, RisingConcat, NumbersConcat
<1> HIDE DEF wdcr
<1>. QED  BY <1>3, <1>6

\* Work whose ranks rise from lo to hi.
Rises(todo, lo, hi) ==
    RanksRise(todo) /\ \A k \in DOMAIN todo : Rank(todo[k].piece) \in lo..hi

LEMMA RisesConcat ==
    ASSUME NEW a \in Seq(WorkItems), NEW b \in Seq(WorkItems),
           NEW lo \in Nat, NEW mid \in Nat, NEW hi \in Nat, lo <= mid, mid <= hi,
           Rises(a, lo, mid), Rises(b, mid, hi)
    PROVE  a \o b \in Seq(WorkItems) /\ Rises(a \o b, lo, hi)
<1> DEFINE c == a \o b
<1>1. /\ c \in Seq(WorkItems) /\ Len(c) = Len(a) + Len(b)
      /\ \A i \in 1..(Len(a) + Len(b)) : c[i] = IF i <= Len(a) THEN a[i] ELSE b[i - Len(a)]
  BY ConcatProperties
<1>2. Len(a) \in Nat /\ Len(b) \in Nat /\ DOMAIN c = 1..(Len(a) + Len(b))
      /\ DOMAIN a = 1..Len(a) /\ DOMAIN b = 1..Len(b)
  BY <1>1
<1> HIDE DEF c
<1>3. \A k \in DOMAIN c : k \in Nat
  BY <1>2
<1>4. \A k \in DOMAIN c : k <= Len(a) =>
          k \in DOMAIN a /\ c[k] = a[k] /\ Rank(c[k].piece) \in lo..mid
  BY <1>1, <1>2 DEF Rises
<1>5. ASSUME NEW k \in DOMAIN c, ~(k <= Len(a))
      PROVE  /\ k - Len(a) \in DOMAIN b /\ c[k] = b[k - Len(a)]
             /\ Rank(c[k].piece) \in mid..hi
  <2>1. k - Len(a) \in DOMAIN b /\ c[k] = b[k - Len(a)]
    BY <1>1, <1>2, <1>3, <1>5
  <2>. QED  BY <2>1 DEF Rises
<1>6. \A k \in DOMAIN c : Rank(c[k].piece) \in lo..hi
  BY <1>4, <1>5
<1>7. RanksRise(c)
  <2> SUFFICES ASSUME NEW j \in DOMAIN c, NEW k \in DOMAIN c, j <= k
               PROVE  Rank(c[j].piece) <= Rank(c[k].piece)
    BY DEF RanksRise
  <2>1. CASE k <= Len(a)
    <3>1. j <= Len(a)
      BY <1>2, <1>3, <2>1
    <3>. QED  BY <1>4, <2>1, <3>1 DEF Rises, RanksRise
  <2>2. CASE ~(j <= Len(a))
    <3>1. ~(k <= Len(a)) /\ j - Len(a) <= k - Len(a)
      BY <1>2, <1>3, <2>2
    <3>. QED  BY <1>5, <2>2, <3>1 DEF Rises, RanksRise
  <2>3. CASE j <= Len(a) /\ ~(k <= Len(a))
    BY <1>4, <1>5, <2>3
  <2>. QED  BY <2>1, <2>2, <2>3
<1>. QED  BY <1>1, <1>6, <1>7 DEF Rises, c

LEMMA OnRises ==
    ASSUME NEW piece \in Pieces, NEW items \in Seq(Items)
    PROVE  Rises(On(piece, items), Rank(piece), Rank(piece))
<1>1. Rank(piece) \in Nat
  BY RankType
<1>2. \A k \in DOMAIN On(piece, items) : On(piece, items)[k].piece = piece
  BY DEF On
<1>. QED  BY <1>1, <1>2 DEF Rises, RanksRise

LEMMA SelectRises ==
    ASSUME NEW b \in SelectBuilders, b.distinctOn = <<>> \/ b.columns = <<>>
    PROVE  RanksRise(SelectWork(b))
<1> DEFINE with == On("with", b.ctes)
           columns == On("columns", b.columns)
           distinct == On("distinct", IF b.distinct THEN <<>> ELSE b.distinctOn)
           body == b.joins \o Checked(b.predicates) \o b.group \o b.having
                       \o b.setOps \o b.order
           rest == On("rest", body)
<1>1. with \in Seq(WorkItems) /\ Rises(with, 1, 1)
  BY OnWork, OnRises, RankType DEF SelectBuilders, Pieces
<1>2. columns \in Seq(WorkItems) /\ Rises(columns, 3, 3)
  BY OnWork, OnRises, RankType DEF SelectBuilders, Pieces
<1>3. distinct \in Seq(WorkItems) /\ Rises(distinct, 2, 2)
  <2>1. (IF b.distinct THEN <<>> ELSE b.distinctOn) \in Seq(Items)
    BY DEF SelectBuilders
  <2>. QED  BY <2>1, OnWork, OnRises, RankType DEF Pieces
<1>4. rest \in Seq(WorkItems) /\ Rises(rest, 4, 4)
  <2>1. /\ b.joins \in Seq(Items) /\ b.group \in Seq(Items) /\ b.having \in Seq(Items)
        /\ b.setOps \in Seq(Items) /\ b.order \in Seq(Items) /\ b.predicates \in Seq(Items)
    BY DEF SelectBuilders
  <2>2. Checked(b.predicates) \in Seq(Items)
    BY <2>1, CheckedItems
  <2>3. body \in Seq(Items)
    BY <2>1, <2>2
  <2> HIDE DEF body
  <2>. QED  BY <2>3, OnWork, OnRises, RankType DEF Pieces
<1>5. DOMAIN columns = {} \/ DOMAIN distinct = {}
  BY DEF On
<1>6. SelectWork(b) = with \o columns \o distinct \o rest
  BY DEF SelectWork
<1> HIDE DEF with, columns, distinct, rest
<1>7. PICK mid \in 1..3 : Rises(columns, 1, mid) /\ Rises(distinct, mid, 3)
  <2>1. CASE DOMAIN columns = {}
    <3>1. Rises(columns, 1, 2) /\ Rises(distinct, 2, 3)
      BY <1>3, <2>1 DEF Rises, RanksRise
    <3>. QED  BY <3>1
  <2>2. CASE DOMAIN distinct = {}
    <3>1. Rises(columns, 1, 3) /\ Rises(distinct, 3, 3)
      BY <1>2, <2>2 DEF Rises, RanksRise
    <3>. QED  BY <3>1
  <2>. QED  BY <1>5, <2>1, <2>2
<1> DEFINE wc == with \o columns
           wcd == wc \o distinct
<1>8. wc \in Seq(WorkItems) /\ Rises(wc, 1, mid)
  BY <1>1, <1>2, <1>7, RisesConcat
<1> HIDE DEF wc
<1>9. wcd \in Seq(WorkItems) /\ Rises(wcd, 1, 3)
  BY <1>3, <1>7, <1>8, RisesConcat
<1> HIDE DEF wcd
<1>10. Rises(rest, 3, 4)
  BY <1>4 DEF Rises
<1>11. Rises(wcd \o rest, 1, 4)
  BY <1>4, <1>9, <1>10, RisesConcat
<1>. QED  BY <1>6, <1>11 DEF Rises, wcd, wc

\* Work that goes to one piece.
RestOnly(todo) == \A k \in DOMAIN todo : todo[k].piece = "rest"

LEMMA RestOnlyRises ==
    ASSUME NEW todo, RestOnly(todo)
    PROVE  RanksRise(todo)
  BY RankType DEF RestOnly, RanksRise

LEMMA StatementRises ==
    ASSUME BuildersTypeOK, ~RefusesStatement, Plain
    PROVE  StatementWork \in Seq(WorkItems) /\ RanksRise(StatementWork)
<1>1. StatementWork \in Seq(WorkItems)
  BY StatementWorkOK
<1>2. CASE stmt = "SELECT"
  <2>1. sel[Root] \in SelectBuilders /\ (sel[Root].distinctOn = <<>> \/ sel[Root].columns = <<>>)
    BY BuildersAssumption DEF BuildersTypeOK, Plain
  <2>2. StatementWork = SelectWork(sel[Root])
    BY <1>2 DEF StatementWork, InsertWork, UpdateWork, DeleteWork
  <2>. QED  BY <1>1, <2>1, <2>2, SelectRises
<1>3. CASE stmt = "INSERT"
  <2>1. CASE ins.source # <<>>
    <3>1. StatementWork = On("rest", ins.source)
      BY <1>3, <2>1 DEF StatementWork, InsertWork, UpdateWork, DeleteWork
    <3>2. RestOnly(StatementWork)
      BY <3>1 DEF On, RestOnly
    <3>. QED  BY <1>1, <3>2, RestOnlyRises
  <2>2. CASE ins.source = <<>>
    <3>1. StatementWork = RowWork(InsertRows) \o ConflictWork
      BY <1>3, <2>2 DEF StatementWork, InsertWork, UpdateWork, DeleteWork
    <3>2. SameShape(ins.bulk)
      BY <1>3 DEF RefusesStatement, RefusesInsert
    <3>3. RowWork(InsertRows) \in Seq(WorkItems) /\ ConflictWork \in Seq(WorkItems)
      BY <3>2, InsertRowsOK, RowWorkOK, ConflictWorkOK
    <3>4. RestOnly(RowWork(InsertRows)) /\ RestOnly(ConflictWork)
      BY DEF RestOnly, RowWork, ConflictWork, On
    <3>5. RestOnly(RowWork(InsertRows) \o ConflictWork)
      BY <3>3, <3>4, ConcatAt DEF RestOnly
    <3>. QED  BY <1>1, <3>1, <3>5, RestOnlyRises
  <2>. QED  BY <2>1, <2>2
<1>4. CASE stmt \in {"UPDATE", "DELETE"}
  <2>1. RestOnly(StatementWork)
    <3>1. CASE stmt = "UPDATE"
      <4>1. StatementWork = On("rest", dml.set \o Checked(dml.predicates) \o dml.returning)
        BY <3>1 DEF StatementWork, InsertWork, UpdateWork, DeleteWork
      <4>. QED  BY <4>1 DEF RestOnly, On
    <3>2. CASE stmt = "DELETE"
      <4>1. StatementWork = On("rest", Checked(dml.predicates) \o dml.returning)
        BY <3>2 DEF StatementWork, InsertWork, UpdateWork, DeleteWork
      <4>. QED  BY <4>1 DEF RestOnly, On
    <3>. QED  BY <1>4, <3>1, <3>2
  <2>. QED  BY <1>1, <2>1, RestOnlyRises
<1>. QED  BY <1>2, <1>3, <1>4 DEF BuildersTypeOK

\* Ranks are compared and texts are empty or not: all that Forward and Room ask for.
LEMMA PieceRank ==
    ASSUME NEW todo \in Seq(WorkItems), NEW k \in DOMAIN todo
    PROVE  todo[k].piece \in Pieces /\ Rank(todo[k].piece) \in 1..4
<1>1. todo[k] \in WorkItems
  OBVIOUS
<1>. QED  BY <1>1, RankType DEF WorkItems

\* A frame after text was added to a piece that none of what is left stands before.
LEMMA ForwardWritten ==
    ASSUME NEW f \in Frames, NEW g \in Frames, NEW piece \in Pieces,
           Forward(f),
           \/ g.todo = f.todo
           \/ f.todo # <<>> /\ g.todo = Tail(f.todo),
           \A k \in DOMAIN g.todo : Rank(piece) <= Rank(g.todo[k].piece),
           \A p \in Pieces : p # piece => g.text[p] = f.text[p]
    PROVE  Forward(g)
<1>1. f.todo \in Seq(WorkItems) /\ g.todo \in Seq(WorkItems)
  BY DEF Frames
<1>2. PICK s \in {0, 1} : \A k \in DOMAIN g.todo : k + s \in DOMAIN f.todo /\ g.todo[k] = f.todo[k+s]
  <2>1. CASE g.todo = f.todo
    BY <1>1, <2>1
  <2>2. CASE f.todo # <<>> /\ g.todo = Tail(f.todo)
    BY <1>1, <2>2
  <2>. QED  BY <2>1, <2>2
<1>3. RanksRise(g.todo)
  <2> SUFFICES ASSUME NEW j \in DOMAIN g.todo, NEW k \in DOMAIN g.todo, j <= k
               PROVE  Rank(g.todo[j].piece) <= Rank(g.todo[k].piece)
    BY DEF RanksRise
  <2>1. j + s <= k + s
    BY <1>1
  <2>. QED  BY <1>2, <2>1 DEF Forward, RanksRise
<1>4. ASSUME NEW k \in DOMAIN g.todo, NEW p \in Pieces, Rank(p) > Rank(g.todo[k].piece)
      PROVE  g.text[p] = <<>>
  <2>1. f.text[p] = <<>>
    BY <1>2, <1>4 DEF Forward, EmptyAfter
  <2>2. p # piece
    <3>1. Rank(p) \in Nat /\ Rank(g.todo[k].piece) \in Nat
      BY <1>1, PieceRank, RankType
    <3>. QED  BY <1>4, <3>1
  <2>. QED  BY <2>1, <2>2
<1>. QED  BY <1>3, <1>4 DEF Forward, EmptyAfter

\* What comes first in a frame has a piece no other item stands before.
LEMMA FirstRank ==
    ASSUME NEW f \in Frames, Forward(f), f.todo # <<>>
    PROVE  LET r == Rank(f.todo[1].piece) IN
           /\ f.todo[1].piece \in Pieces /\ r \in Nat
           /\ EmptyAfter(f, r)
           /\ \A k \in DOMAIN f.todo : r <= Rank(f.todo[k].piece)
           /\ \A k \in DOMAIN Tail(f.todo) : r <= Rank(Tail(f.todo)[k].piece)
<1>1. f.todo \in Seq(WorkItems) /\ 1 \in DOMAIN f.todo
  BY DEF Frames
<1>2. \A k \in DOMAIN f.todo : 1 <= k
  BY <1>1
<1>3. \A k \in DOMAIN f.todo : Rank(f.todo[1].piece) <= Rank(f.todo[k].piece)
  BY <1>1, <1>2 DEF Forward, RanksRise
<1>4. \A k \in DOMAIN Tail(f.todo) : k + 1 \in DOMAIN f.todo /\ Tail(f.todo)[k] = f.todo[k+1]
  BY <1>1
<1>5. \A k \in DOMAIN Tail(f.todo) : Rank(f.todo[1].piece) <= Rank(Tail(f.todo)[k].piece)
  BY <1>3, <1>4
<1>6. f.todo[1].piece \in Pieces /\ Rank(f.todo[1].piece) \in Nat
  BY <1>1, PieceRank
<1>. QED  BY <1>1, <1>3, <1>5, <1>6 DEF Forward

Onwards == Plain /\ Onward /\ Ordered

LEMMA EmptyLess ==
    ASSUME NEW ts, NEW us, ts = <<>> \/ us = <<>>
    PROVE  Less(ts, us)
  BY DEF Less, Numbers

LEMMA EmitOnward ==
    ASSUME IInv, Onwards, Working, NEW tokens \in Seq(Tokens), Emits(tokens)
    PROVE  Onward'
<1> DEFINE piece == Top.todo[1].piece
<1>1. stack \in Seq(Frames) /\ 1 \in DOMAIN stack /\ Top = stack[1] /\ Top \in Frames
      /\ Top.todo # <<>>
  BY AtWork DEF Walking, Top
<1>2. /\ piece \in Pieces
      /\ stack' \in Seq(Frames) /\ stack' # <<>> /\ Len(stack') = Len(stack)
      /\ stack'[1].todo = Tail(Top.todo) /\ stack'[1].into = Top.into
      /\ \A p \in Pieces : stack'[1].text[p] =
             IF p = piece THEN Top.text[p] \o tokens ELSE Top.text[p]
      /\ \A i \in DOMAIN stack' : i > 1 => i \in DOMAIN stack /\ stack'[i] = stack[i]
  BY EmitStack DEF Emits
<1>3. Forward(Top)
  BY <1>1 DEF Onwards, Onward
<1>4. \A k \in DOMAIN Tail(Top.todo) : Rank(piece) <= Rank(Tail(Top.todo)[k].piece)
  BY <1>1, <1>3, FirstRank
<1> HIDE DEF piece
<1>5. stack'[1] \in Frames
  BY <1>2
<1>6. Forward(stack'[1])
  <2>1. \A p \in Pieces : p # piece => stack'[1].text[p] = Top.text[p]
    BY <1>2
  <2>2. \A k \in DOMAIN stack'[1].todo : Rank(piece) <= Rank(stack'[1].todo[k].piece)
    BY <1>2, <1>4
  <2>3. stack'[1].todo = Tail(Top.todo)
    BY <1>2
  <2>4. \A g \in Frames :
            (/\ g.todo = Tail(Top.todo)
             /\ \A k \in DOMAIN g.todo : Rank(piece) <= Rank(g.todo[k].piece)
             /\ \A p \in Pieces : p # piece => g.text[p] = Top.text[p]) => Forward(g)
    <3>1. piece \in Pieces /\ Top \in Frames /\ Top.todo # <<>>
      BY <1>1, <1>2
    <3>. QED  BY <1>3, <3>1, ForwardWritten
  <2>. QED  BY <1>5, <2>1, <2>2, <2>3, <2>4
<1> SUFFICES ASSUME NEW i \in DOMAIN stack'
             PROVE  Forward(stack'[i]) /\ (i > 1 => Room(stack'[i], Rank(stack'[i-1].into)))
  BY DEF Onward
<1>7. CASE i = 1
  BY <1>6, <1>7
<1>8. CASE i > 1
  <2>1. i \in DOMAIN stack /\ stack'[i] = stack[i] /\ i - 1 \in DOMAIN stack' /\ i \in Nat
    BY <1>2, <1>8
  <2>2. stack'[i-1].into = stack[i-1].into
    BY <1>1, <1>2, <1>8, <2>1
  <2>. QED  BY <1>8, <2>1, <2>2 DEF Onwards, Onward
<1>. QED  BY <1>2, <1>7, <1>8

LEMMA EmitOrdered ==
    ASSUME IInv, Onwards, Working, NEW tokens \in Seq(Tokens), Emits(tokens)
    PROVE  Ordered'
<1> DEFINE piece == Top.todo[1].piece
<1>1. /\ Len(params) \in Nat
      /\ Rising(tokens) /\ \A n \in Numbers(tokens) : n \in Nat /\ n > Len(params)
  BY DEF Emits
<1>2. stack \in Seq(Frames) /\ 1 \in DOMAIN stack /\ Top = stack[1] /\ Top \in Frames
      /\ Top.todo # <<>>
  BY AtWork DEF Walking, Top
<1>3. /\ piece \in Pieces
      /\ stack' \in Seq(Frames) /\ stack' # <<>> /\ Len(stack') = Len(stack)
      /\ \A p \in Pieces : stack'[1].text[p] =
             IF p = piece THEN Top.text[p] \o tokens ELSE Top.text[p]
      /\ \A i \in DOMAIN stack' : i > 1 => i \in DOMAIN stack /\ stack'[i] = stack[i]
  BY EmitStack DEF Emits
<1>4. EmptyAfter(Top, Rank(piece))
  BY <1>2, FirstRank DEF Onwards, Onward
<1> HIDE DEF piece
<1>5. DOMAIN stack' = DOMAIN stack /\ \A i \in DOMAIN stack : i \in Nat /\ (i = 1 \/ i > 1)
  BY <1>2, <1>3
<1>6. \A i \in DOMAIN stack, p \in Pieces :
          ~(i = 1 /\ p = piece) => stack'[i].text[p] = stack[i].text[p]
  BY <1>2, <1>3, <1>5
<1>7. /\ stack[1].text[piece] \in Seq(Tokens)
      /\ stack'[1].text[piece] = stack[1].text[piece] \o tokens
      /\ Numbers(stack'[1].text[piece]) = Numbers(stack[1].text[piece]) \cup Numbers(tokens)
  BY <1>2, <1>3, TextType, NumbersConcat
<1>8. \A i \in DOMAIN stack, p \in Pieces :
          \A n \in Numbers(stack[i].text[p]) : n \in Nat /\ n <= Len(params)
  <2>1. \A i \in DOMAIN stack, p \in Pieces : Numbers(stack[i].text[p]) \subseteq 1..Len(params)
    BY NumbersBound
  <2>2. \A n \in 1..Len(params) : n \in Nat /\ n <= Len(params)
    BY <1>1
  <2>. QED  BY <2>1, <2>2
<1>9. Rising(stack'[1].text[piece])
  <2>1. Less(stack[1].text[piece], tokens)
    <3>1. piece \in Pieces /\ 1 \in DOMAIN stack
      BY <1>2, <1>3
    <3>2. \A m \in Numbers(stack[1].text[piece]) : m \in Nat /\ m <= Len(params)
      BY <1>8, <3>1
    <3>. QED  BY <1>1, <3>2 DEF Less
  <2>2. Rising(stack[1].text[piece])
    BY <1>2, <1>3 DEF Onwards, Ordered
  <2>. QED  BY <1>1, <1>7, <2>1, <2>2, RisingConcat
<1> SUFFICES ASSUME NEW i \in DOMAIN stack, NEW j \in DOMAIN stack,
                    NEW p \in Pieces, NEW q \in Pieces
             PROVE  /\ Rising(stack'[i].text[p])
                    /\ i > j \/ (i = j /\ Rank(p) < Rank(q)) =>
                           Less(stack'[i].text[p], stack'[j].text[q])
  BY <1>5 DEF Ordered
<1>10. Rising(stack'[i].text[p])
  <2>1. CASE i = 1 /\ p = piece
    BY <1>9, <2>1
  <2>2. CASE ~(i = 1 /\ p = piece)
    BY <1>6, <2>2 DEF Onwards, Ordered
  <2>. QED  BY <2>1, <2>2
<1>11. ASSUME i > j \/ (i = j /\ Rank(p) < Rank(q))
       PROVE  Less(stack'[i].text[p], stack'[j].text[q])
  <2>1. Less(stack[i].text[p], stack[j].text[q])
    BY <1>11 DEF Onwards, Ordered
  <2>2. CASE i = 1 /\ p = piece
    <3>1. j = 1 /\ Rank(q) > Rank(piece)
      BY <1>5, <1>11, <2>2
    <3>2. stack[1].text[q] = <<>>
      BY <1>2, <1>4, <3>1 DEF EmptyAfter
    <3>3. q # piece
      BY <3>1, RankType
    <3>4. stack'[j].text[q] = <<>>
      BY <1>6, <3>1, <3>2, <3>3
    <3>. QED  BY <3>4, EmptyLess
  <2>3. CASE ~(i = 1 /\ p = piece) /\ j = 1 /\ q = piece
    <3>1. stack'[i].text[p] = stack[i].text[p]
      BY <1>6, <2>3
    <3>2. \A m \in Numbers(stack[i].text[p]), n \in Numbers(tokens) : m < n
      BY <1>1, <1>8
    <3>. QED  BY <1>7, <2>1, <2>3, <3>1, <3>2 DEF Less
  <2>4. CASE ~(i = 1 /\ p = piece) /\ ~(j = 1 /\ q = piece)
    <3>1. stack'[i].text[p] = stack[i].text[p] /\ stack'[j].text[q] = stack[j].text[q]
      BY <1>6, <2>4
    <3>. QED  BY <2>1, <3>1
  <2>. QED  BY <2>2, <2>3, <2>4
<1>. QED  BY <1>10, <1>11

LEMMA OpenOnward ==
    ASSUME IInv, Onwards, Open
    PROVE  Onward' /\ Ordered'
<1> DEFINE piece == Top.todo[1].piece
           rest == Tail(Top.todo)
           operands == On(piece, Operands(Current))
           todo == operands \o rest
<1>1. /\ Working /\ Advance(todo) /\ Operands(Current) \in Seq(Items)
      /\ operands \in Seq(WorkItems) /\ rest \in Seq(WorkItems) /\ todo \in Seq(WorkItems)
  BY OpenWork
<1>2. stack \in Seq(Frames) /\ 1 \in DOMAIN stack /\ Top = stack[1] /\ Top \in Frames
      /\ Top.todo # <<>> /\ Top.todo \in Seq(WorkItems)
  BY <1>1, AtWork DEF Walking, Top
<1>3. Forward(Top)
  BY <1>2 DEF Onwards, Onward
<1>4. /\ piece \in Pieces /\ Rank(piece) \in 1..4 /\ EmptyAfter(Top, Rank(piece))
      /\ \A k \in DOMAIN rest : Rank(piece) <= Rank(rest[k].piece)
  BY <1>2, <1>3, FirstRank, RankType
<1>5. RanksRise(rest)
  BY <1>2, <1>3 DEF Forward, RanksRise
<1>6. Rises(operands, Rank(piece), Rank(piece))
  BY <1>1, <1>4, OnRises
<1>7. Rises(rest, Rank(piece), 4)
  <2>1. \A k \in DOMAIN rest : Rank(rest[k].piece) \in 1..4
    BY <1>1, PieceRank
  <2>. QED  BY <1>4, <1>5, <2>1 DEF Rises
<1>8. Advance(todo) /\ todo = operands \o rest
  BY <1>1
<1> HIDE DEF piece, rest, operands, todo
<1>9. Rises(todo, Rank(piece), 4)
  BY <1>1, <1>4, <1>6, <1>7, <1>8, RisesConcat
<1>10. /\ stack' \in Seq(Frames) /\ stack' # <<>> /\ Len(stack') = Len(stack)
       /\ stack'[1].todo = todo /\ stack'[1].into = Top.into
       /\ stack'[1].text = Top.text
       /\ \A i \in DOMAIN stack' : i > 1 => i \in DOMAIN stack /\ stack'[i] = stack[i]
  BY <1>1, AdvanceStack
<1>11. Forward(stack'[1])
  <2>1. \A k \in DOMAIN todo, p \in Pieces :
            Rank(p) > Rank(todo[k].piece) => Rank(p) > Rank(piece)
    BY <1>4, <1>9, RankType DEF Rises
  <2>. QED  BY <1>4, <1>9, <1>10, <2>1 DEF Rises, Forward, EmptyAfter
<1>12. DOMAIN stack' = DOMAIN stack /\ \A i \in DOMAIN stack : i \in Nat /\ (i = 1 \/ i > 1)
  BY <1>2, <1>10
<1>13. \A i \in DOMAIN stack : stack'[i].text = stack[i].text /\ stack'[i].into = stack[i].into
  BY <1>2, <1>10, <1>12
<1>14. Ordered'
  BY <1>12, <1>13 DEF Onwards, Ordered
<1>15. ASSUME NEW i \in DOMAIN stack'
       PROVE  Forward(stack'[i]) /\ (i > 1 => Room(stack'[i], Rank(stack'[i-1].into)))
  <2>1. CASE i = 1
    BY <1>11, <2>1
  <2>2. CASE i > 1
    <3>1. i \in DOMAIN stack /\ stack'[i] = stack[i] /\ i - 1 \in DOMAIN stack
      BY <1>2, <1>10, <1>12, <2>2
    <3>2. stack'[i-1].into = stack[i-1].into
      BY <1>13, <3>1
    <3>. QED  BY <2>2, <3>1, <3>2 DEF Onwards, Onward
  <2>. QED  BY <1>12, <2>1, <2>2
<1>. QED  BY <1>14, <1>15 DEF Onward

LEMMA DescendOnward ==
    ASSUME IInv, Onwards, Descend
    PROVE  Onward' /\ Ordered'
<1> DEFINE piece == Top.todo[1].piece
           work == SelectWork(sel[Current.query])
<1>1. /\ stack' \in Seq(Frames) /\ Len(stack') = Len(stack) + 1
      /\ Current.query \in Selects
      /\ stack'[1].todo = work /\ stack'[1].into = piece
      /\ \A p \in Pieces : stack'[1].text[p] = <<>>
      /\ stack'[2].todo = Tail(Top.todo) /\ stack'[2].into = Top.into
      /\ stack'[2].text = Top.text
      /\ \A i \in DOMAIN stack' :
             i > 2 => i - 1 \in DOMAIN stack /\ i - 1 > 1 /\ stack'[i] = stack[i-1]
  BY DescendStack
<1>2. RanksRise(work)
  BY <1>1, SelectRises DEF Onwards, Plain, IInv, RenderTypeOK, BuildersTypeOK
<1>3. stack \in Seq(Frames) /\ 1 \in DOMAIN stack /\ Top = stack[1] /\ Top \in Frames
      /\ Top.todo # <<>> /\ Top.todo \in Seq(WorkItems)
  BY AtWork DEF Descend, Walking, Top
<1>4. Forward(Top)
  BY <1>3 DEF Onwards, Onward
<1>5. /\ piece \in Pieces /\ Rank(piece) \in Nat /\ EmptyAfter(Top, Rank(piece))
      /\ \A k \in DOMAIN Tail(Top.todo) : Rank(piece) <= Rank(Tail(Top.todo)[k].piece)
  BY <1>3, <1>4, FirstRank
<1> HIDE DEF piece, work
<1>6. /\ Len(stack) \in Nat /\ DOMAIN stack = 1..Len(stack)
      /\ DOMAIN stack' = 1..(Len(stack) + 1) /\ 1 \in DOMAIN stack' /\ 2 \in DOMAIN stack'
  BY <1>1, <1>3
<1>7. stack'[1] \in Frames /\ stack'[2] \in Frames
  BY <1>1, <1>6
<1>8. Forward(stack'[1])
  BY <1>1, <1>2 DEF Forward, EmptyAfter
<1>9. Forward(stack'[2])
  <2>1. \A g \in Frames :
            (/\ g.todo = Tail(Top.todo)
             /\ \A k \in DOMAIN g.todo : Rank(piece) <= Rank(g.todo[k].piece)
             /\ \A p \in Pieces : p # piece => g.text[p] = Top.text[p]) => Forward(g)
    BY <1>3, <1>4, <1>5, ForwardWritten
  <2>2. \A k \in DOMAIN stack'[2].todo : Rank(piece) <= Rank(stack'[2].todo[k].piece)
    BY <1>1, <1>5
  <2>3. stack'[2].todo = Tail(Top.todo) /\ \A p \in Pieces : stack'[2].text[p] = Top.text[p]
    BY <1>1
  <2>. QED  BY <1>7, <2>1, <2>2, <2>3
<1>10. Room(stack'[2], Rank(stack'[1].into))
  BY <1>1, <1>5 DEF Room, EmptyAfter
<1>11. ASSUME NEW i \in DOMAIN stack', i # 1
       PROVE  /\ i - 1 \in DOMAIN stack
              /\ stack'[i].text = stack[i-1].text /\ stack'[i].into = stack[i-1].into
  <2>1. i = 2 \/ i > 2
    BY <1>6, <1>11
  <2>2. CASE i = 2
    BY <1>1, <1>3, <2>2
  <2>3. CASE i > 2
    BY <1>1, <2>3
  <2>. QED  BY <2>1, <2>2, <2>3
<1>12. ASSUME NEW i \in DOMAIN stack'
       PROVE  Forward(stack'[i]) /\ (i > 1 => Room(stack'[i], Rank(stack'[i-1].into)))
  <2>1. i = 1 \/ i = 2 \/ i > 2
    BY <1>6
  <2>2. CASE i = 1
    BY <1>8, <2>2
  <2>3. CASE i = 2
    BY <1>9, <1>10, <2>3
  <2>4. CASE i > 2
    <3>1. i - 1 \in DOMAIN stack /\ i - 1 > 1 /\ stack'[i] = stack[i-1]
      BY <1>1, <2>4
    <3>2. i - 1 \in DOMAIN stack' /\ i - 1 # 1
      BY <1>6, <2>4
    <3>3. stack'[i-1].into = stack[(i-1)-1].into
      BY <1>11, <3>2
    <3>. QED  BY <3>1, <3>3 DEF Onwards, Onward
  <2>. QED  BY <2>1, <2>2, <2>3, <2>4
<1>13. ASSUME NEW i \in DOMAIN stack', NEW j \in DOMAIN stack', NEW p \in Pieces, NEW q \in Pieces
       PROVE  /\ Rising(stack'[i].text[p])
              /\ i > j \/ (i = j /\ Rank(p) < Rank(q)) =>
                     Less(stack'[i].text[p], stack'[j].text[q])
  <2>1. CASE i = 1
    <3>1. stack'[i].text[p] = <<>>
      BY <1>1, <2>1
    <3>. QED  BY <3>1, EmptyLess DEF Rising
  <2>2. CASE i # 1
    <3>1. i - 1 \in DOMAIN stack /\ stack'[i].text = stack[i-1].text
      BY <1>11, <2>2
    <3>2. CASE j = 1
      <4>1. stack'[j].text[q] = <<>>
        BY <1>1, <3>2
      <4>. QED  BY <3>1, <4>1, EmptyLess DEF Onwards, Ordered
    <3>3. CASE j # 1
      <4>1. j - 1 \in DOMAIN stack /\ stack'[j].text = stack[j-1].text
        BY <1>11, <3>3
      <4>2. (i > j => i - 1 > j - 1) /\ (i = j => i - 1 = j - 1)
        BY <1>6
      <4>. QED  BY <3>1, <4>1, <4>2 DEF Onwards, Ordered
    <3>. QED  BY <3>2, <3>3
  <2>. QED  BY <2>1, <2>2
<1>. QED  BY <1>12, <1>13 DEF Onward, Ordered

LEMMA TopRising ==
    ASSUME IInv, Ordered, stack # <<>>
    PROVE  /\ 1 \in DOMAIN stack /\ Top = stack[1] /\ Top \in Frames
           /\ Assembled(Top) \in Seq(Tokens) /\ Rising(Assembled(Top))
<1>1. stack \in Seq(Frames)
  BY DEF IInv, RenderTypeOK
<1>2. 1 \in DOMAIN stack /\ Top = stack[1] /\ Top \in Frames
  BY <1>1 DEF Top
<1>3. \A p, q \in Pieces :
          Rising(Top.text[p]) /\ (Rank(p) < Rank(q) => Less(Top.text[p], Top.text[q]))
  BY <1>2 DEF Ordered
<1>. QED  BY <1>2, <1>3, AssembledRising

LEMMA ReturnOnward ==
    ASSUME IInv, OInv, Onwards, Return
    PROVE  Onward' /\ Ordered'
<1> DEFINE piece == Top.into
           tokens == Assembled(Top)
<1>1. stack # <<>>
  BY DEF IInv, RenderTypeOK, Return
<1>2. /\ 1 \in DOMAIN stack /\ tokens \in Seq(Tokens) /\ Rising(tokens)
      /\ Numbers(tokens) = UNION {Numbers(stack[1].text[p]) : p \in Pieces}
  BY <1>1, TopAssembled, TopRising DEF Onwards
<1>3. /\ stack \in Seq(Frames) /\ Len(stack) > 1 /\ piece \in Pieces /\ Top = stack[1]
      /\ stack' \in Seq(Frames) /\ stack' # <<>> /\ Len(stack') = Len(stack) - 1
      /\ stack'[1].todo = stack[2].todo /\ stack'[1].into = stack[2].into
      /\ \A p \in Pieces : stack'[1].text[p] =
             IF p = piece THEN stack[2].text[p] \o tokens ELSE stack[2].text[p]
      /\ \A i \in DOMAIN stack' : i > 1 => i + 1 \in DOMAIN stack /\ stack'[i] = stack[i+1]
  BY <1>2, ReturnStack
<1>4. piece = stack[1].into
  BY <1>3
<1> HIDE DEF piece, tokens
<1>5. 2 \in DOMAIN stack /\ stack[2] \in Frames /\ stack'[1] \in Frames
  BY <1>3
<1>6. Forward(stack[2]) /\ Room(stack[2], Rank(piece))
  <2>1. 2 - 1 = 1 /\ 2 > 1
    OBVIOUS
  <2>. QED  BY <1>4, <1>5, <2>1 DEF Onwards, Onward
<1>7. Forward(stack'[1])
  <2>1. \A g \in Frames :
            (/\ g.todo = stack[2].todo
             /\ \A k \in DOMAIN g.todo : Rank(piece) <= Rank(g.todo[k].piece)
             /\ \A p \in Pieces : p # piece => g.text[p] = stack[2].text[p]) => Forward(g)
    BY <1>3, <1>5, <1>6, ForwardWritten
  <2>2. \A k \in DOMAIN stack'[1].todo : Rank(piece) <= Rank(stack'[1].todo[k].piece)
    BY <1>3, <1>6 DEF Room
  <2>3. /\ stack'[1].todo = stack[2].todo
        /\ \A p \in Pieces : p # piece => stack'[1].text[p] = stack[2].text[p]
    BY <1>3
  <2>. QED  BY <1>5, <2>1, <2>2, <2>3
<1>8. ASSUME NEW i \in DOMAIN stack'
      PROVE  /\ i + 1 \in DOMAIN stack /\ i \in Nat /\ i >= 1 /\ (i > 1 => stack'[i] = stack[i+1])
             /\ stack'[i].into = stack[i+1].into
  <2>1. i = 1 \/ i > 1
    BY <1>3
  <2>2. i \in Nat /\ i >= 1
    BY <1>3
  <2>. QED  BY <1>3, <1>5, <2>1, <2>2
<1>9. ASSUME NEW i \in DOMAIN stack'
      PROVE  Forward(stack'[i]) /\ (i > 1 => Room(stack'[i], Rank(stack'[i-1].into)))
  <2>1. CASE i = 1
    BY <1>7, <2>1
  <2>2. CASE i > 1
    <3>1. i + 1 \in DOMAIN stack /\ stack'[i] = stack[i+1] /\ i + 1 > 1 /\ (i + 1) - 1 = i
      BY <1>8, <2>2
    <3>2. Forward(stack'[i]) /\ Room(stack'[i], Rank(stack[i].into))
      BY <3>1 DEF Onwards, Onward
    <3>3. i - 1 \in DOMAIN stack' /\ (i - 1) + 1 = i
      BY <1>3, <2>2
    <3>4. stack'[i-1].into = stack[i].into
      BY <1>8, <3>3
    <3>. QED  BY <3>2, <3>4
  <2>. QED  BY <1>8, <2>1, <2>2
<1>10. \A k \in DOMAIN stack, p \in Pieces : k > 1 => Less(stack[k].text[p], tokens)
  BY <1>2 DEF Onwards, Ordered, Less
<1>11. \A i \in DOMAIN stack', p \in Pieces :
           ~(i = 1 /\ p = piece) => stack'[i].text[p] = stack[i+1].text[p]
  <2>1. \A i \in DOMAIN stack' : i = 1 \/ i > 1
    BY <1>8
  <2>. QED  BY <1>3, <2>1
<1>12. /\ stack[2].text[piece] \in Seq(Tokens)
       /\ stack'[1].text[piece] = stack[2].text[piece] \o tokens
       /\ Numbers(stack'[1].text[piece]) = Numbers(stack[2].text[piece]) \cup Numbers(tokens)
  BY <1>2, <1>3, <1>5, TextType, NumbersConcat
<1>13. ASSUME NEW i \in DOMAIN stack', NEW p \in Pieces
       PROVE  Rising(stack'[i].text[p])
  <2>1. CASE i = 1 /\ p = piece
    <3>1. Rising(stack[2].text[piece]) /\ Less(stack[2].text[piece], tokens)
      BY <1>3, <1>5, <1>10 DEF Onwards, Ordered
    <3>2. Rising(stack[2].text[piece] \o tokens)
      BY <1>2, <1>12, <3>1, RisingConcat
    <3>. QED  BY <1>12, <2>1, <3>2
  <2>2. CASE ~(i = 1 /\ p = piece)
    BY <1>8, <1>11, <2>2 DEF Onwards, Ordered
  <2>. QED  BY <2>1, <2>2
<1>14. ASSUME NEW i \in DOMAIN stack', NEW j \in DOMAIN stack', NEW p \in Pieces, NEW q \in Pieces,
              i > j \/ (i = j /\ Rank(p) < Rank(q))
       PROVE  Less(stack'[i].text[p], stack'[j].text[q])
  <2>1. i + 1 \in DOMAIN stack /\ j + 1 \in DOMAIN stack /\ i + 1 > 1 /\ i \in Nat /\ j \in Nat
    BY <1>8
  <2>2. (i > j => i + 1 > j + 1) /\ (i = j => i + 1 = j + 1)
    BY <2>1
  <2>3. Less(stack[i+1].text[p], stack[j+1].text[q])
    BY <1>14, <2>1, <2>2 DEF Onwards, Ordered
  <2>4. CASE i = 1 /\ p = piece
    <3>1. j = 1 /\ Rank(q) > Rank(piece)
      <4>1. j >= 1
        BY <1>8
      <4>2. ~(i > j)
        BY <2>1, <2>4, <4>1
      <4>. QED  BY <1>14, <2>4, <4>2
    <3>2. stack[2].text[q] = <<>> /\ q # piece
      <4>1. stack[2].text[q] = <<>>
        BY <1>6, <3>1 DEF Room, EmptyAfter
      <4>. QED  BY <3>1, <4>1, RankType
    <3>3. stack'[j].text[q] = stack[j+1].text[q]
      BY <1>11, <3>2
    <3>4. stack'[j].text[q] = <<>>
      BY <3>1, <3>2, <3>3
    <3>. QED  BY <3>4, EmptyLess
  <2>5. CASE ~(i = 1 /\ p = piece) /\ j = 1 /\ q = piece
    <3>1. stack'[i].text[p] = stack[i+1].text[p]
      BY <1>11, <2>5
    <3>2. Less(stack[i+1].text[p], tokens)
      BY <1>10, <2>1
    <3>3. Less(stack[i+1].text[p], stack[2].text[piece])
      BY <2>3, <2>5
    <3>4. stack'[j].text[q] = stack'[1].text[piece]
      BY <2>5
    <3>. QED  BY <1>12, <3>1, <3>2, <3>3, <3>4 DEF Less
  <2>6. CASE ~(i = 1 /\ p = piece) /\ ~(j = 1 /\ q = piece)
    <3>1. stack'[i].text[p] = stack[i+1].text[p] /\ stack'[j].text[q] = stack[j+1].text[q]
      BY <1>11, <2>6
    <3>. QED  BY <2>3, <3>1
  <2>. QED  BY <2>4, <2>5, <2>6
<1>. QED  BY <1>9, <1>13, <1>14 DEF Onward, Ordered

LEMMA RenderOnward ==
    ASSUME IInv, Plain, Render
    PROVE  Onward' /\ Ordered'
<1> DEFINE f == Frame(StatementWork, "rest")
<1>1. BuildersTypeOK /\ ~RefusesStatement
  BY DEF IInv, RenderTypeOK, Render
<1>2. StatementWork \in Seq(WorkItems) /\ RanksRise(StatementWork)
  BY <1>1, StatementRises
<1>3. f \in Frames /\ f.todo = StatementWork /\ \A p \in Pieces : f.text[p] = <<>>
  BY <1>2, NewFrame DEF Pieces
<1>4. stack' = <<f>>
  BY DEF Render
<1> HIDE DEF f
<1>5. DOMAIN stack' = {1} /\ stack'[1] = f
  BY <1>4
<1>6. Onward'
  BY <1>2, <1>3, <1>5 DEF Onward, Forward, EmptyAfter
<1>7. Ordered'
  BY <1>3, <1>5 DEF Ordered, Rising, Less, Numbers
<1>. QED  BY <1>6, <1>7

LEMMA RisingStart == Init => PInv
  BY DEF Init, PInv, Onward, Ordered

LEMMA RisingEmpty ==
    ASSUME stack' = <<>>, phase' # "rendered"
    PROVE  PInv'
  BY DEF PInv, Onward, Ordered

LEMMA RisingWalking ==
    ASSUME Plain' => Onward' /\ Ordered', phase' = "rendering"
    PROVE  PInv'
  BY DEF PInv

LEMMA RisingStep == IInv /\ OInv /\ PInv /\ [Next]_vars => PInv'
<1> SUFFICES ASSUME IInv, OInv, PInv, [Next]_vars
             PROVE  PInv'
  OBVIOUS
<1>1. stack = <<>> <=> phase # "rendering"
  BY DEF IInv, RenderTypeOK
<1>2. ASSUME UNCHANGED builderVars
      PROVE  /\ Plain' <=> Plain
             /\ Plain' => Onwards
  BY <1>2 DEF builderVars, Plain, PInv, Onwards
<1>3. CASE phase = "idle" /\ BuilderCall /\ UNCHANGED renderVars
  BY <1>1, <1>3, RisingEmpty DEF renderVars
<1>4. CASE Render /\ UNCHANGED builderVars
  BY <1>2, <1>4, RenderOnward, RisingWalking DEF Render
<1>5. CASE Bind /\ UNCHANGED builderVars
  BY <1>2, <1>5, BindEmits, EmitOnward, EmitOrdered, RisingWalking DEF Bind, Working
<1>6. CASE BindRow /\ UNCHANGED builderVars
  BY <1>2, <1>6, BindRowEmits, EmitOnward, EmitOrdered, RisingWalking DEF BindRow, Working
<1>7. CASE Open /\ UNCHANGED builderVars
  BY <1>2, <1>7, OpenOnward, RisingWalking DEF Open, Working
<1>8. CASE Descend /\ UNCHANGED builderVars
  BY <1>2, <1>8, DescendOnward, RisingWalking DEF Descend, Working
<1>9. CASE Return /\ UNCHANGED builderVars
  BY <1>2, <1>9, ReturnOnward, RisingWalking DEF Return
<1>10. CASE Raise
  BY <1>10, RisingEmpty DEF Raise
<1>11. CASE Finish /\ UNCHANGED builderVars
  <2>1. stack' = <<>> /\ stack # <<>> /\ text' = Assembled(Top)
    BY <1>1, <1>11 DEF Finish
  <2>2. Plain' => Rising(text')
    BY <1>2, <1>11, <2>1, TopRising DEF Onwards
  <2>. QED  BY <2>1, <2>2 DEF PInv, Onward, Ordered
<1>12. CASE Await
  BY <1>1, <1>12, RisingEmpty DEF Await
<1>13. CASE UNCHANGED vars
  <2>1. UNCHANGED <<sel, phase, stack, text>>
    BY <1>13 DEF vars, builderVars, renderVars
  <2>. QED  BY <2>1 DEF PInv, Plain, Onward, Ordered
<1>. QED  BY <1>3, <1>4, <1>5, <1>6, <1>7, <1>8, <1>9, <1>10, <1>11, <1>12, <1>13
          DEF Next, Walk

LEMMA AlwaysRising == Spec => [](IInv /\ OInv /\ PInv)
<1>1. Init => IInv /\ OInv /\ PInv
  BY Start, OnceStart, RisingStart
<1>2. IInv /\ OInv /\ PInv /\ [Next]_vars => (IInv /\ OInv /\ PInv)'
  BY Step, OnceStep, RisingStep
<1>. QED  BY <1>1, <1>2, PTL DEF Spec

\* There is no rising injection of an interval into a shorter one.
LEMMA RisingPlaces ==
    ASSUME NEW ts \in Seq(Tokens), Rising(ts), Numbers(ts) \subseteq 1..Len(ts)
    PROVE  \A k \in DOMAIN ts : ts[k].number = k
<1>1. /\ Len(ts) \in Nat /\ DOMAIN ts = 1..Len(ts)
      /\ \A k \in 1..Len(ts) : ts[k].number \in 1..Len(ts)
  BY DEF Numbers
<1> SUFFICES ASSUME NEW k \in 1..Len(ts)
             PROVE  ts[k].number = k
  BY <1>1
<1> DEFINE m == ts[k].number
           n == Len(ts)
           number == [i \in 1..n |-> ts[i].number]
<1>2. n \in Nat /\ k \in 1..n /\ m \in 1..n
  BY <1>1
<1>3. number \in [1..n -> 1..n] /\ number[k] = m
  BY <1>1
<1>4. \A i, j \in 1..n : i < j => number[i] < number[j]
  BY <1>1 DEF Rising
<1>5. \A a, b \in Int : /\ IsFiniteSet(a..b)
                        /\ Cardinality(a..b) = IF a > b THEN 0 ELSE b - a + 1
  BY FS_Interval
<1> HIDE DEF m, n, number
<1>9. \A i, j \in 1..n :
          i # j => number[i] \in Int /\ number[j] \in Int /\ number[i] # number[j]
  <2> SUFFICES ASSUME NEW i \in 1..n, NEW j \in 1..n, i # j
               PROVE  number[i] \in Int /\ number[j] \in Int /\ number[i] # number[j]
    OBVIOUS
  <2>1. i < j \/ j < i
    BY <1>2
  <2>2. number[i] \in Int /\ number[j] \in Int
    BY <1>3
  <2>. QED  BY <1>4, <2>1, <2>2
<1>6. ASSUME m < k
      PROVE  FALSE
  <2> DEFINE low == [i \in 1..k |-> number[i]]
  <2>1. \A i \in 1..k : i \in 1..n /\ number[i] \in 1..n /\ (i < k \/ i = k)
    BY <1>2, <1>3
  <2>2. ASSUME NEW i \in 1..k
        PROVE  number[i] \in 1..m
    <3>1. i \in 1..n /\ number[i] \in 1..n
      BY <2>1
    <3>2. i = k \/ (i < k /\ number[i] < number[k])
      BY <1>2, <1>4, <2>1
    <3>3. CASE i = k
      BY <1>2, <1>3, <3>3
    <3>4. CASE number[i] < number[k]
      BY <1>2, <1>3, <3>1, <3>4
    <3>. QED  BY <3>2, <3>3, <3>4
  <2>3. low \in [1..k -> 1..m]
    BY <2>2
  <2>4. \A i, j \in 1..k : i # j => low[i] # low[j]
    BY <1>9, <2>1
  <2>5. /\ IsFiniteSet(1..k) /\ Cardinality(1..k) = k
        /\ IsFiniteSet(1..m) /\ Cardinality(1..m) = m
    BY <1>2, <1>5
  <2> HIDE DEF low
  <2>6. Cardinality(1..m) < Cardinality(1..k)
    BY <1>6, <2>5
  <2>7. PICK i \in 1..k, j \in 1..k : i # j /\ low[i] = low[j]
    BY <2>3, <2>5, <2>6, FS_PigeonHole
  <2>. QED  BY <2>4, <2>7
<1>7. ASSUME k < m
      PROVE  FALSE
  <2> DEFINE high == [i \in k..n |-> number[i]]
  <2>1. \A i \in k..n : i \in 1..n /\ number[i] \in 1..n /\ (k < i \/ i = k)
    BY <1>2, <1>3
  <2>2. ASSUME NEW i \in k..n
        PROVE  number[i] \in m..n
    <3>1. i \in 1..n /\ number[i] \in 1..n
      BY <2>1
    <3>2. i = k \/ (k < i /\ number[k] < number[i])
      BY <1>2, <1>4, <2>1
    <3>3. CASE i = k
      BY <1>2, <1>3, <3>3
    <3>4. CASE number[k] < number[i]
      BY <1>2, <1>3, <3>1, <3>4
    <3>. QED  BY <3>2, <3>3, <3>4
  <2>3. high \in [k..n -> m..n]
    BY <2>2
  <2>4. \A i, j \in k..n : i # j => high[i] # high[j]
    BY <1>9, <2>1
  <2>5. /\ IsFiniteSet(k..n) /\ Cardinality(k..n) = n - k + 1
        /\ IsFiniteSet(m..n) /\ Cardinality(m..n) = n - m + 1
    BY <1>2, <1>5
  <2> HIDE DEF high
  <2>6. Cardinality(m..n) < Cardinality(k..n)
    BY <1>2, <1>7, <2>5
  <2>7. PICK i \in k..n, j \in k..n : i # j /\ high[i] = high[j]
    BY <2>3, <2>5, <2>6, FS_PigeonHole
  <2>. QED  BY <2>4, <2>7
<1>8. m = k
  <2>1. m \in Nat /\ k \in Nat
    BY <1>2
  <2>2. ~(m < k) /\ ~(k < m)
    BY <1>6, <1>7
  <2>. QED  BY <2>1, <2>2
<1>. QED  BY <1>8 DEF m

(***************************************************************************)
(* While no SELECT has both DISTINCT ON and explicit columns, the          *)
(* placeholders of a statement read $1, $2, ... from left to right, so     *)
(* that psycopg, which goes by position, gives each place its value: the   *)
(* pieces are rendered in the order in which they are joined, and what is  *)
(* written while a subquery is rendered comes after all that was written.  *)
(***************************************************************************)
THEOREM PlacesNamed == Spec => []PositionsName
<1>1. IInv /\ OInv /\ PInv => PositionsName
  <2> SUFFICES ASSUME IInv, OInv, PInv, phase = "rendered", Plain,
                      NEW k \in DOMAIN text
               PROVE  k \in DOMAIN params /\ PsycopgGives(k) = text[k].value
    BY DEF PositionsName, Plain
  <2>1. /\ text \in Seq(Tokens) /\ DOMAIN params = 1..Len(params)
        /\ Numbers(text) = DOMAIN params /\ Len(text) = Len(params)
    BY RenderedOnce
  <2>2. text[k].number = k
    <3>1. Rising(text)
      BY DEF PInv
    <3>. QED  BY <2>1, <3>1, RisingPlaces
  <2>3. k \in DOMAIN params /\ params[text[k].number] = text[k].value
    BY <2>2 DEF IInv, Assembly, AllNamed, Named
  <2>. QED  BY <2>2, <2>3 DEF PsycopgGives
<1>. QED  BY <1>1, AlwaysRising, PTL

=============================================================================
