---------------------------- MODULE DerivedProofs ----------------------------
(***************************************************************************)
(* Proofs about Derived, and about the builders under it: what every chain *)
(* of calls leaves true of the clauses, and that names inferred for a      *)
(* derived table stay right for as long as what they were taken from does. *)
(***************************************************************************)
EXTENDS Derived, RenderingProofs
LOCAL INSTANCE SequencesExt

----------------------------------------------------------------------------
(* The clauses.                                                            *)

SelectClauses(s) == ~(s.distinct /\ s.distinctOn # <<>>)

InsertClauses(i) ==
    /\ i.values = <<>> \/ i.bulk = <<>>
    /\ i.values = <<>> \/ i.source = <<>>
    /\ i.bulk = <<>> \/ i.source = <<>>

ConflictClauses(c) ==
    /\ ~(c.target /\ c.constraint)
    /\ c.action = "update" => c.target \/ c.constraint

\* The action that is chosen, and what it sets, stays.
ActionKept(c, d) ==
    c.action # "none" => d.action = c.action /\ d.set = c.set /\ d.excluded = c.excluded

LEMMA ClausesParts ==
    ClausesAgree <=> /\ \A q \in Selects : SelectClauses(sel[q])
                     /\ InsertClauses(ins) /\ ConflictClauses(ins.conflict)
  BY DEF ClausesAgree, SelectClauses, InsertClauses, ConflictClauses

\* What a SELECT gets beside DISTINCT and DISTINCT ON.
LEMMA OtherClauses ==
    ASSUME NEW s \in SelectBuilders, SelectClauses(s), NEW x
    PROVE  /\ SelectClauses([s EXCEPT !.from = x])
           /\ SelectClauses([s EXCEPT !.ctes = x])
           /\ SelectClauses([s EXCEPT !.joins = x])
           /\ SelectClauses([s EXCEPT !.predicates = x])
           /\ SelectClauses([s EXCEPT !.group = x])
           /\ SelectClauses([s EXCEPT !.having = x])
           /\ SelectClauses([s EXCEPT !.order = x])
           /\ SelectClauses([s EXCEPT !.setOps = x])
           /\ SelectClauses([s EXCEPT !.lock = x])
  BY DEF SelectBuilders, SelectClauses

LEMMA SelectCallClauses ==
    ASSUME BuildersTypeOK, ClausesAgree, NEW q \in Selects, SelectCall(q)
    PROVE  ClausesAgree' /\ ins' = ins
<1>1. sel[q] \in SelectBuilders /\ SelectClauses(sel[q]) /\ sel \in [Selects -> SelectBuilders]
  BY ClausesParts DEF BuildersTypeOK
<1>2. ASSUME NEW changed, SelectClauses(changed), OnSelect(q, changed)
      PROVE  ClausesAgree' /\ ins' = ins
  <2>1. ins' = ins /\ \A r \in Selects : sel'[r] = IF r = q THEN changed ELSE sel[r]
    BY <1>1, <1>2 DEF OnSelect
  <2>2. \A r \in Selects : SelectClauses(sel'[r])
    BY <1>2, <2>1, ClausesParts
  <2>3. InsertClauses(ins') /\ ConflictClauses(ins'.conflict)
    BY <2>1, ClausesParts
  <2>. QED  BY <2>1, <2>2, <2>3 DEF ClausesAgree, SelectClauses, InsertClauses, ConflictClauses
<1>3. CASE DISTINCT(q)
  <2>1. \A s \in SelectBuilders :
            s.distinctOn = <<>> => [s EXCEPT !.distinct = TRUE].distinctOn = <<>>
    BY DEF SelectBuilders
  <2>2. SelectClauses([sel[q] EXCEPT !.distinct = TRUE])
    BY <1>1, <1>3, <2>1 DEF DISTINCT, SelectClauses
  <2>. QED  BY <1>2, <1>3, <2>2 DEF DISTINCT
<1>4. CASE DISTINCT_ON(q)
  <2>1. \A s \in SelectBuilders : \A x :
            ~s.distinct => SelectClauses([s EXCEPT !.distinctOn = x])
    BY DEF SelectBuilders, SelectClauses
  <2>2. \A x : ~sel[q].distinct => SelectClauses([sel[q] EXCEPT !.distinctOn = x])
    BY <1>1, <2>1
  <2>. QED  BY <1>2, <1>4, <2>2 DEF DISTINCT_ON
<1>5. CASE FROM(q) \/ WithCTE(q) \/ JOIN(q) \/ WHERE(q) \/ GROUP_BY(q)
  BY <1>1, <1>2, <1>5, OtherClauses DEF FROM, WithCTE, JOIN, WHERE, GROUP_BY
<1>6. CASE HAVING(q) \/ ORDER_BY(q) \/ SetOperation(q) \/ Lock(q)
  BY <1>1, <1>2, <1>6, OtherClauses DEF HAVING, ORDER_BY, SetOperation, Lock
<1>. QED  BY <1>3, <1>4, <1>5, <1>6 DEF SelectCall

Conflicts ==
    [target : BOOLEAN, constraint : BOOLEAN, set : Seq(Values),
     action : {"none", "nothing", "update"}, excluded : BOOLEAN]

LEMMA InsertCallClauses ==
    ASSUME BuildersTypeOK, ClausesAgree, InsertCall
    PROVE  ClausesAgree' /\ ActionKept(ins.conflict, ins'.conflict)
<1>1. ins \in Inserts /\ InsertClauses(ins) /\ ConflictClauses(ins.conflict)
  BY ClausesParts DEF BuildersTypeOK, Inserts
<1>2. ins.conflict \in Conflicts
  BY <1>1 DEF Inserts, Conflicts
<1>3. ASSUME UNCHANGED sel, InsertClauses(ins'), ConflictClauses(ins'.conflict)
      PROVE  ClausesAgree'
  BY <1>3, ClausesParts DEF ClausesAgree, SelectClauses, InsertClauses, ConflictClauses
<1>4. CASE INTO \/ VALUES \/ BULK_VALUES \/ INSERT_SELECT
  <2>1. \A i \in Inserts : \A x :
            /\ [i EXCEPT !.into = x].conflict = i.conflict
            /\ [i EXCEPT !.values = x].conflict = i.conflict
            /\ [i EXCEPT !.bulk = x].conflict = i.conflict
            /\ [i EXCEPT !.source = x].conflict = i.conflict
    BY DEF Inserts
  <2>2. \A i \in Inserts : \A x : InsertClauses(i) =>
            /\ InsertClauses([i EXCEPT !.into = x])
            /\ (i.bulk = <<>> /\ i.source = <<>>) => InsertClauses([i EXCEPT !.values = x])
            /\ (i.values = <<>> /\ i.source = <<>>) => InsertClauses([i EXCEPT !.bulk = x])
            /\ (i.values = <<>> /\ i.bulk = <<>>) => InsertClauses([i EXCEPT !.source = x])
    BY DEF Inserts, InsertClauses
  <2>3. \A x :
            /\ [ins EXCEPT !.into = x].conflict = ins.conflict
            /\ [ins EXCEPT !.values = x].conflict = ins.conflict
            /\ [ins EXCEPT !.bulk = x].conflict = ins.conflict
            /\ [ins EXCEPT !.source = x].conflict = ins.conflict
    BY <1>1, <2>1
  <2>4. \A x :
            /\ InsertClauses([ins EXCEPT !.into = x])
            /\ (ins.bulk = <<>> /\ ins.source = <<>>) => InsertClauses([ins EXCEPT !.values = x])
            /\ (ins.values = <<>> /\ ins.source = <<>>) => InsertClauses([ins EXCEPT !.bulk = x])
            /\ (ins.values = <<>> /\ ins.bulk = <<>>) => InsertClauses([ins EXCEPT !.source = x])
    BY <1>1, <2>2
  <2>5. CASE INTO
    BY <1>1, <1>3, <2>3, <2>4, <2>5 DEF INTO, OnInsert, ActionKept
  <2>6. CASE VALUES
    BY <1>1, <1>3, <2>3, <2>4, <2>6 DEF VALUES, OnInsert, ActionKept
  <2>7. CASE BULK_VALUES
    BY <1>1, <1>3, <2>3, <2>4, <2>7 DEF BULK_VALUES, OnInsert, ActionKept
  <2>8. CASE INSERT_SELECT
    BY <1>1, <1>3, <2>3, <2>4, <2>8 DEF INSERT_SELECT, OnInsert, ActionKept
  <2>. QED  BY <1>4, <2>5, <2>6, <2>7, <2>8
<1>5. ASSUME NEW spec, Revise(spec), ActionKept(ins.conflict, spec)
      PROVE  ClausesAgree' /\ ActionKept(ins.conflict, ins'.conflict)
  <2>1. \A i \in Inserts : /\ [i EXCEPT !.conflict = spec].conflict = spec
                           /\ [i EXCEPT !.conflict = spec].values = i.values
                           /\ [i EXCEPT !.conflict = spec].bulk = i.bulk
                           /\ [i EXCEPT !.conflict = spec].source = i.source
    BY DEF Inserts
  <2>2. ins'.conflict = spec /\ InsertClauses(ins') /\ UNCHANGED sel
    BY <1>1, <1>5, <2>1 DEF Revise, OnInsert, InsertClauses
  <2>3. ConflictClauses(spec)
    BY <1>5 DEF Revise, Sound, ConflictClauses
  <2>. QED  BY <1>3, <1>5, <2>2, <2>3
<1>6. CASE ON_CONFLICT \/ ON_CONFLICT_CONSTRAINT
  <2>1. \A c \in Conflicts : /\ ActionKept(c, [c EXCEPT !.target = TRUE])
                             /\ ActionKept(c, [c EXCEPT !.constraint = TRUE])
    BY DEF Conflicts, ActionKept
  <2>2. /\ ActionKept(ins.conflict, [ins.conflict EXCEPT !.target = TRUE])
        /\ ActionKept(ins.conflict, [ins.conflict EXCEPT !.constraint = TRUE])
    BY <1>2, <2>1
  <2>. QED  BY <1>5, <1>6, <2>2 DEF ON_CONFLICT, ON_CONFLICT_CONSTRAINT
<1>7. RequireNoAction => \A c : ActionKept(ins.conflict, c)
  BY DEF RequireNoAction, ActionKept
<1>8. CASE ON_CONFLICT_DO_NOTHING \/ DO_NOTHING \/ DO_UPDATE \/ DO_UPDATE_FROM_EXCLUDED
  BY <1>5, <1>7, <1>8 DEF ON_CONFLICT_DO_NOTHING, DO_NOTHING, DO_UPDATE, DO_UPDATE_FROM_EXCLUDED
<1>. QED  BY <1>4, <1>6, <1>8 DEF InsertCall

LEMMA SameBuildersClauses ==
    ASSUME ClausesAgree, UNCHANGED <<sel, ins>>
    PROVE  ClausesAgree' /\ ActionKept(ins.conflict, ins'.conflict)
  BY DEF ClausesAgree, ActionKept

LEMMA BuilderCallClauses ==
    ASSUME BuildersTypeOK, ClausesAgree, BuilderCall
    PROVE  ClausesAgree' /\ ActionKept(ins.conflict, ins'.conflict)
<1>1. CASE \E q \in Selects : SelectCall(q)
  BY <1>1, SelectCallClauses DEF ActionKept
<1>2. CASE InsertCall
  BY <1>2, InsertCallClauses
<1>3. CASE DMLCall
  BY <1>3, DMLCallTypes, SameBuildersClauses
<1>. QED  BY <1>1, <1>2, <1>3 DEF BuilderCall

LEMMA ClausesStart == BuildersInit => ClausesAgree
  BY DEF BuildersInit, ClausesAgree, NewSelect, NewConflict

(***************************************************************************)
(* The clauses that every chain of calls leaves, and the conflict action   *)
(* that no call changes, in the builders as a renderer uses them.          *)
(***************************************************************************)
CInv == IInv /\ ClausesAgree

LEMMA ClausesStep ==
    ASSUME CInv, [Next]_vars
    PROVE  CInv' /\ [ActionKept(ins.conflict, ins'.conflict)]_builderVars
<1>1. BuildersTypeOK /\ IInv'
  BY Step DEF CInv, IInv, RenderTypeOK
<1>2. CASE BuilderCall
  BY <1>1, <1>2, BuilderCallClauses DEF CInv
<1>3. CASE UNCHANGED builderVars
  BY <1>1, <1>3, SameBuildersClauses DEF CInv, builderVars
<1>. QED  BY <1>2, <1>3 DEF Next, vars

----------------------------------------------------------------------------
(* Derived tables.                                                         *)

\* Inferred names are those of the SELECT that they were taken from.
NamesInferred ==
    \A d \in DerivedTables : (derived[d] # None /\ derived[d].inferred) =>
        LET columns == derived[d].seen.columns
            from    == derived[d].seen.from
        IN  /\ d \notin Recursive
            /\ columns = <<>> =>
                   from # None /\ derived[d].names = AttrNames(Fields[from])
            /\ columns # <<>> =>
                   /\ \A i \in DOMAIN columns : IsColumn(columns[i])
                   /\ derived[d].names = [i \in DOMAIN columns |-> columns[i].field.attr]

DInv ==
    /\ CInv
    /\ derived = [d \in DerivedTables |-> derived[d]]
    /\ NamesInferred

LEMMA DerivedStart == DerivedInit => DInv
<1>1. Init => CInv
  BY Start, ClausesStart DEF CInv, Init
<1>2. DerivedInit => derived = [d \in DerivedTables |-> derived[d]]
  BY DEF DerivedInit
<1>3. DerivedInit => NamesInferred
  BY DEF DerivedInit, NamesInferred
<1>. QED  BY <1>1, <1>2, <1>3 DEF DInv, DerivedInit

\* Making a derived table leaves builders and statement alone.
LEMMA DeriveClauses ==
    ASSUME DInv, NEW d \in DerivedTables, Derive(d)
    PROVE  CInv' /\ ins' = ins
<1>1. /\ IInv /\ ClausesAgree /\ RenderTypeOK
      /\ UNCHANGED <<stmt, sel, ins, dml>> /\ UNCHANGED renderVars
      /\ calls' = calls - 1 /\ calls > 0 /\ calls \in 0..MaxCalls
  BY DEF DInv, CInv, IInv, RenderTypeOK, BuildersTypeOK, Derive
<1>2. calls' \in 0..MaxCalls
  BY <1>1, BuildersAssumption
<1>3. BuildersTypeOK'
  BY <1>1, <1>2 DEF RenderTypeOK, BuildersTypeOK
<1>4. IInv'
  BY <1>1, <1>3 DEF renderVars, IInv, RenderTypeOK, TextsNamed, RowsLeft, Assembly, Top
<1>. QED  BY <1>1, <1>4, SameBuildersClauses DEF CInv

LEMMA DeriveNames ==
    ASSUME DInv, NEW d \in DerivedTables, Derive(d)
    PROVE  derived' = [e \in DerivedTables |-> derived'[e]] /\ NamesInferred'
<1>0. PICK inferred \in BOOLEAN : \E names \in IF inferred THEN Inferred(Body[d]) ELSE Given[d] :
          /\ ~(inferred /\ d \in Recursive)
          /\ derived' = [derived EXCEPT ![d] =
                [names |-> names, inferred |-> inferred, seen |-> Seen(Body[d])]]
  BY DEF Derive
<1>1. PICK names \in IF inferred THEN Inferred(Body[d]) ELSE Given[d] :
          /\ ~(inferred /\ d \in Recursive)
          /\ derived' = [derived EXCEPT ![d] =
                [names |-> names, inferred |-> inferred, seen |-> Seen(Body[d])]]
  BY <1>0
<1>2. /\ derived' = [e \in DerivedTables |-> derived'[e]]
      /\ derived'[d] = [names |-> names, inferred |-> inferred, seen |-> Seen(Body[d])]
      /\ \A e \in DerivedTables : e # d => derived'[e] = derived[e]
  BY <1>1 DEF DInv
<1> DEFINE columns == sel[Body[d]].columns
           from    == sel[Body[d]].from
<1>3. /\ derived'[d].names = names /\ derived'[d].inferred = inferred
      /\ derived'[d].seen.columns = columns /\ derived'[d].seen.from = from
  BY <1>2 DEF Seen
<1>4. ASSUME inferred
      PROVE  /\ d \notin Recursive
             /\ columns = <<>> => from # None /\ names = AttrNames(Fields[from])
             /\ columns # <<>> =>
                    /\ \A i \in DOMAIN columns : IsColumn(columns[i])
                    /\ names = [i \in DOMAIN columns |-> columns[i].field.attr]
  <2>1. names \in Inferred(Body[d]) /\ d \notin Recursive
    BY <1>1, <1>4
  <2>. QED  BY <2>1 DEF Inferred
<1> HIDE DEF columns, from
<1>. QED  BY <1>2, <1>3, <1>4 DEF DInv, NamesInferred

LEMMA DerivedStep ==
    ASSUME DInv, [DerivedNext]_derivedVars
    PROVE  DInv' /\ [ActionKept(ins.conflict, ins'.conflict)]_builderVars
<1>1. CASE ([Next]_vars) /\ UNCHANGED derived
  <2>1. CInv' /\ [ActionKept(ins.conflict, ins'.conflict)]_builderVars
    BY <1>1, ClausesStep DEF DInv
  <2>2. NamesInferred'
    BY <1>1 DEF DInv, NamesInferred
  <2>. QED  BY <1>1, <2>1, <2>2 DEF DInv
<1>2. ASSUME NEW d \in DerivedTables, Derive(d)
      PROVE  DInv' /\ [ActionKept(ins.conflict, ins'.conflict)]_builderVars
  BY <1>2, DeriveClauses, DeriveNames DEF DInv, ActionKept
<1>. QED  BY <1>1, <1>2 DEF DerivedNext, Otherwise, derivedVars

LEMMA DerivedAlways ==
    DerivedSpec => []DInv /\ [][ActionKept(ins.conflict, ins'.conflict)]_builderVars
  BY DerivedStart, DerivedStep, PTL DEF DerivedSpec

(***************************************************************************)
(* What a program reads into a builder's clauses, DISTINCT or DISTINCT ON, *)
(* one source of rows, one conflict target, is all that the renderer finds *)
(* there: no order of calls, derived tables or not, leaves two clauses of  *)
(* which it would drop one (src/cygnet/builders.py, S36).                  *)
(***************************************************************************)
THEOREM ClausesNeverClash == DerivedSpec => []ClausesAgree
<1>1. DInv => ClausesAgree
  BY DEF DInv, CInv
<1>. QED  BY <1>1, DerivedAlways, PTL

(***************************************************************************)
(* The action chosen for a conflict, and the values it sets, stay: every   *)
(* later call that would change them raises (src/cygnet/builders.py, S35). *)
(***************************************************************************)
THEOREM ActionStays == DerivedSpec => ActionTerminal
<1>1. ActionKept(ins.conflict, ins'.conflict) =>
          (ins.conflict.action # "none" =>
              /\ ins'.conflict.action = ins.conflict.action
              /\ ins'.conflict.set = ins.conflict.set
              /\ ins'.conflict.excluded = ins.conflict.excluded)
  BY DEF ActionKept
<1>. QED  BY <1>1, DerivedAlways, PTL DEF ActionTerminal

(***************************************************************************)
(* Types, and the value behind every placeholder, with derived tables made *)
(* at any time between the calls of the builders.                          *)
(***************************************************************************)
THEOREM DerivedRendering == DerivedSpec => [](RenderTypeOK /\ NumbersName)
<1>1. DInv => RenderTypeOK /\ NumbersName
  BY DEF DInv, CInv, IInv, RenderTypeOK, Assembly, NumbersName, AllNamed, Named, AsyncpgGives
<1>. QED  BY <1>1, DerivedAlways, PTL

\* A SELECT of columns: each is called as its attribute is.
LEMMA ColumnsDenote ==
    ASSUME NEW d \in DerivedTables, NamesInferred, derived[d] # None, Untouched(d),
           PlainlyNamed(Body[d]), sel[Body[d]].columns # <<>>
    PROVE  NamesDenote(d)
<1> DEFINE q == Body[d]
           columns == sel[q].columns
           fields == [i \in DOMAIN columns |-> columns[i].field]
           out == Output(q)
<1>1. /\ d \notin Recursive
      /\ \A i \in DOMAIN columns : IsColumn(columns[i])
      /\ derived[d].names = [i \in DOMAIN columns |-> columns[i].field.attr]
  BY DEF NamesInferred, Untouched, Seen
<1>2. out = [i \in DOMAIN columns |->
                IF IsColumn(columns[i]) THEN columns[i].field.column ELSE Unnamed]
  BY DEF Output
<1>3. AttrNames(fields) = ColumnNames(fields)
      /\ \A i, j \in DOMAIN fields : fields[i].column = fields[j].column => i = j
  BY DEF PlainlyNamed
<1>4. DOMAIN fields = DOMAIN columns /\ \A i \in DOMAIN columns : fields[i] = columns[i].field
  OBVIOUS
<1> HIDE DEF fields, columns, out
<1>5. \A i \in DOMAIN columns : fields[i].attr = fields[i].column
  <2>1. \A i \in DOMAIN fields : AttrNames(fields)[i] = fields[i].attr
                                 /\ ColumnNames(fields)[i] = fields[i].column
    BY DEF AttrNames, ColumnNames
  <2>. QED  BY <1>3, <1>4, <2>1
<1>6. /\ DOMAIN out = DOMAIN columns /\ DOMAIN derived[d].names = DOMAIN columns
      /\ \A i \in DOMAIN columns : out[i] = fields[i].column /\ derived[d].names[i] = out[i]
  BY <1>1, <1>2, <1>4, <1>5
<1>7. \A i \in DOMAIN columns : {k \in DOMAIN out : out[k] = derived[d].names[i]} = {i}
  BY <1>3, <1>4, <1>6
<1>. QED  BY <1>1, <1>6, <1>7 DEF NamesDenote, Denoted, out, q

\* A bare SELECT over one table.
LEMMA TableDenotes ==
    ASSUME NEW d \in DerivedTables, RenderTypeOK, NamesInferred, derived[d] # None,
           Untouched(d), PlainlyNamed(Body[d]), sel[Body[d]].columns = <<>>
    PROVE  NamesDenote(d)
<1> DEFINE q == Body[d]
           fields == Fields[sel[q].from]
           out == Output(q)
<1>1. /\ d \notin Recursive /\ sel[q].from # None
      /\ derived[d].names = AttrNames(fields)
  <2>1. /\ derived[d].inferred
        /\ derived[d].seen.columns = <<>> /\ derived[d].seen.from = sel[q].from
    BY DEF Untouched, Seen
  <2>. QED  BY <2>1 DEF NamesInferred
<1>2. fields \in Seq({fields[i] : i \in DOMAIN fields})
  <2>1. sel[q].from \in Tables
    BY <1>1, DerivedAssumption DEF RenderTypeOK, BuildersTypeOK, SelectBuilders
  <2>. QED  BY <2>1, DerivedAssumption
<1>3. Emitted(q) = fields
  <2>1. sel[q].joins = <<>>
    BY DEF Untouched
  <2>. QED  BY <1>2, <2>1 DEF Emitted, FlattenSeq
<1>4. out = ColumnNames(fields)
  BY <1>3 DEF Output
<1>5. AttrNames(fields) = ColumnNames(fields)
      /\ \A i, j \in DOMAIN fields : fields[i].column = fields[j].column => i = j
  BY DEF PlainlyNamed
<1> HIDE DEF fields, out
<1>6. /\ DOMAIN out = DOMAIN fields /\ derived[d].names = out
      /\ \A i \in DOMAIN fields : out[i] = fields[i].column
  BY <1>1, <1>4, <1>5 DEF ColumnNames
<1>7. \A i \in DOMAIN out : {k \in DOMAIN out : out[k] = derived[d].names[i]} = {i}
  BY <1>5, <1>6
<1>. QED  BY <1>1, <1>6, <1>7 DEF NamesDenote, Denoted, out, q

(***************************************************************************)
(* "CTE column names are inferred" (src/cygnet/cte.py): the names inferred *)
(* for a CTE or a LATERAL subquery when it was made are each the name of   *)
(* their own column in the SELECT as it is rendered later, whatever the    *)
(* program added to it since but a FROM or a join.                         *)
(***************************************************************************)
THEOREM InferredNamesDenote == DerivedSpec => []InferredDenote
<1>1. DInv => InferredDenote
  BY ColumnsDenote, TableDenotes DEF DInv, CInv, IInv, InferredDenote
<1>. QED  BY <1>1, DerivedAlways, PTL

=============================================================================
