---------------------------- MODULE SavingProofs ----------------------------
(***************************************************************************)
(* Theorems about Saving, for any objects, columns, values and histories   *)
(* of the schema: it uses the cache as DefaultsCache allows, and an object *)
(* that was written holds what its row holds.                              *)
(***************************************************************************)
EXTENDS Saving, DefaultsCacheProofs, SequenceTheorems

----------------------------------------------------------------------------
(* Saving is an instance of the cache's protocol.                          *)

\* Every step of Saving is a step of the cache or leaves it alone, so what was
\* proved of the cache holds here.
THEOREM UsesCache == Spec => CacheSpec
<1>1. Init => CacheInit
  BY DEF Init
<1>2. [Next]_vars => [CacheNext]_cacheVars
  <2>. SUFFICES ASSUME [Next]_vars PROVE [CacheNext]_cacheVars
    OBVIOUS
  <2>1. ASSUME NEW t \in Callers, NEW a \in Adapters, NEW o \in Objs,
               NEW conflict \in Actions,
               Create(t, a, o) \/ Save(t, a, o) \/ Insert(t, a, o, conflict)
        PROVE  CacheNext
    BY <2>1, TableAssumption DEF Create, Save, Insert, Begin, CacheNext
  <2>2. ASSUME NEW t \in Callers,
               LookupGoesOn(t) \/ LookupRaises(t) \/ Render(t)
        PROVE  CacheNext
    BY <2>2 DEF LookupGoesOn, LookupRaises, Render, CacheNext
  <2>3. ASSUME NEW t \in Callers,
               \/ \E a \in Adapters, os \in Batches : BulkInsert(t, a, os)
               \/ ExecuteInsert(t) \/ ExecuteConflict(t) \/ ExecuteFails(t)
               \/ Finish(t) \/ LoseReply(t)
        PROVE  UNCHANGED cacheVars
    BY <2>3 DEF BulkInsert, ExecuteInsert, ExecuteConflict, ExecuteFails, Finish, LoseReply
  <2>4. CASE Environment
    BY <2>4 DEF Environment, CacheNext, CacheEnvironment
  <2>5. ASSUME NEW o \in Objs, NEW c \in Cols, NEW v \in Vals \cup {None}, SetField(o, c, v)
        PROVE  UNCHANGED cacheVars
    BY <2>5 DEF SetField
  <2>6. CASE UNCHANGED vars
    BY <2>6 DEF vars
  <2>. QED  BY <2>1, <2>2, <2>3, <2>4, <2>5, <2>6 DEF Next, Actions
<1>. QED  BY <1>1, <1>2, PTL DEF Spec, CacheSpec

----------------------------------------------------------------------------
(* What an operation under way looks like.                                 *)

StateTypes ==
    /\ obj \in [Objs -> Objects]
    /\ rows \in [Keys -> Fields \cup {None}]
    /\ seq \in Nat \ {0}
    /\ op \in [Callers -> Operations]
    /\ left \in [{"ops", "sets"} -> Nat]

\* A task looks defaults up for an operation that waits for them.
LookupsInUse == \A t \in Callers : look[t].at # "idle" <=> op[t].at = "looking"

\* Objects are distinct; more than one only in bulk, which looks nothing up;
\* what a DO UPDATE needs.
Shape(p) ==
    /\ p.objs # <<>>
    /\ \A i, j \in 1..Len(p.objs) : p.objs[i] = p.objs[j] => i = j
    /\ p.path # "bulk" => Len(p.objs) = 1
    /\ p.conflict # "none" => p.path = "insert"
    /\ p.at = "looking" => p.path # "bulk" /\ (p.path # "insert" => Len(p.vals) = 1)
    /\ p.path = "upsert" => p.vals[1].pk # None
    /\ p.path = "bulk" => p.since = None

\* What was sent: a column left out stands for None, and the key is left out of
\* all rows or of none.
Sent(p) ==
    /\ Len(p.vals) = Len(p.objs)
    /\ ~DBKeyed => p.vals[1].pk # None
    /\ \A k \in 1..Len(p.objs) :
          /\ \A c \in Cols \ p.cols : p.vals[k].f[c] = None
          /\ p.vals[k].pk = None <=> p.vals[1].pk = None

\* What came of it: the key and the columns that were sent are in the row.
Stored(p) ==
    /\ Len(p.result) = Len(p.objs)
    /\ \A k \in 1..Len(p.objs) : p.result[k] # None =>
          /\ p.vals[k].pk # None => p.result[k].pk = p.vals[k].pk
          /\ p.conflict \notin {"excluded", "update"} =>
                \A c \in p.cols : p.result[k].f[c] = p.vals[k].f[c]

OpInv(p) ==
    p.at # "idle" =>
        /\ Shape(p)
        /\ p.at \in {"sent", "executed"} => Sent(p)
        /\ p.at = "executed" => Stored(p)

OpsInv == \A t \in Callers : OpInv(op[t])

SavingIInv == StateTypes /\ LookupsInUse /\ OpsInv

\* The operations that are under way, by their fields.
LEMMA OpFields ==
    ASSUME NEW p \in Operations, p.at # "idle"
    PROVE  /\ p # NoOp /\ p.at \in {"looking", "sent", "executed"}
           /\ p.path \in {"create", "insert", "upsert", "bulk"} /\ p.save \in BOOLEAN
           /\ p.adapter \in Adapters /\ p.objs \in Seq(Objs) /\ p.vals \in Seq(Objects)
           /\ p.conflict \in Actions /\ p.cols \in SUBSET Cols
           /\ p.since \in Versions \cup {None}
           /\ p.result \in Seq([pk : Keys, f : Fields] \cup {None})
           /\ p = [at |-> p.at, adapter |-> p.adapter, path |-> p.path, save |-> p.save,
                   objs |-> p.objs, conflict |-> p.conflict, vals |-> p.vals, cols |-> p.cols,
                   since |-> p.since, result |-> p.result]
BY DEF Operations, NoOp, Operation

LEMMA NowValues ==
    ASSUME StateTypes, NEW os \in Seq(Objs)
    PROVE  /\ Now(os) \in Seq(Objects) /\ Len(Now(os)) = Len(os)
           /\ \A k \in 1..Len(os) : Now(os)[k] = obj[os[k]]
BY DEF Now, StateTypes

\* Replacing one task's operation.
LEMMA OneOp ==
    ASSUME SavingIInv, NEW t \in Callers, NEW p \in Operations, OpInv(p),
           op' = [op EXCEPT ![t] = p]
    PROVE  op' \in [Callers -> Operations] /\ OpsInv'
<1>1. \A u \in Callers : op'[u] = IF u = t THEN p ELSE op[u]
  BY DEF SavingIInv, StateTypes
<1>2. op' \in [Callers -> Operations]
  BY DEF SavingIInv, StateTypes
<1>3. \A u \in Callers : OpInv(op[u])' <=> OpInv(op'[u])
  BY DEF OpInv, Shape, Sent, Stored
<1>4. \A u \in Callers : OpInv(op'[u])
  BY <1>1 DEF SavingIInv, OpsInv
<1>. QED  BY <1>2, <1>3, <1>4 DEF OpsInv

LEMMA NoOpKeeps == NoOp \in Operations /\ OpInv(NoOp) /\ NoOp.at = "idle"
BY DEF Operations, NoOp, Operation, OpInv

LEMMA SavingInit == Init => SavingIInv
<1>. SUFFICES ASSUME Init PROVE SavingIInv
  OBVIOUS
<1>1. obj \in [Objs -> Objects]
  <2>1. [Cols -> Vals \cup {None}] \subseteq Fields
    BY DEF Fields, Values
  <2>2. AppKeys \subseteq Keys
    BY BoundsAssumption DEF Keys
  <2>3. [pk : AppKeys \cup {None}, f : [Cols -> Vals \cup {None}]] \subseteq Objects
    BY <2>1, <2>2 DEF Objects
  <2>4. obj \in [Objs -> [pk : AppKeys \cup {None}, f : [Cols -> Vals \cup {None}]]]
    BY DEF Init
  <2>. QED  BY <2>3, <2>4
<1>2. rows \in [Keys -> Fields \cup {None}]
  BY DEF Init, Fields, Values
<1>3. op \in [Callers -> Operations] /\ seq \in Nat \ {0}
  BY NoOpKeeps DEF Init
<1>4. left \in [{"ops", "sets"} -> Nat]
  BY BoundsAssumption DEF Init
<1>5. StateTypes
  BY <1>1, <1>2, <1>3, <1>4 DEF StateTypes
<1>6. LookupsInUse
  BY DEF Init, CacheInit, LookupsInUse, NoLookup, NoOp, Operation
<1>7. OpsInv
  BY NoOpKeeps DEF Init, OpsInv
<1>. QED  BY <1>5, <1>6, <1>7 DEF SavingIInv

----------------------------------------------------------------------------
(* Each step keeps the invariant.                                          *)

LEMMA AskLooks ==
    ASSUME CacheTypeOK, NEW t \in Callers, NEW a \in Adapters, NEW tb \in Tables,
           Ask(t, a, tb)
    PROVE  \A u \in Callers :
              IF u = t THEN look'[u].at # "idle" ELSE look'[u].at = look[u].at
<1>1. PICK at, attached, read :
         at \in {"asked", "done"} /\ Lookup(t, a, tb, at, attached, read)
  <2>. DEFINE P(at, attached, read) ==
         at \in {"asked", "done"} /\ Lookup(t, a, tb, at, attached, read)
  <2>1. \/ P("done", FALSE, None) \/ P("asked", FALSE, None)
        \/ P("done", FALSE, cache[a][tb]) \/ P("asked", TRUE, None)
    BY DEF Ask
  <2>. HIDE DEF P
  <2>2. \E at, attached, read : P(at, attached, read)
    BY <2>1
  <2>. QED  BY <2>2 DEF P
<1>. QED  BY <1>1 DEF Lookup, CacheTypeOK

LEMMA BeginKeeps ==
    ASSUME SavingIInv, CacheTypeOK, NEW t \in Callers, NEW a \in Adapters,
           NEW path \in {"create", "insert", "upsert"}, NEW save \in BOOLEAN,
           NEW o \in Objs, NEW conflict \in Actions, NEW vals \in Seq(Objects),
           conflict # "none" => path = "insert",
           path # "insert" => Len(vals) = 1,
           path = "upsert" => vals[1].pk # None,
           Begin(t, a, path, save, <<o>>, conflict, vals)
    PROVE  SavingIInv'
<1>. DEFINE p == Operation("looking", a, path, save, <<o>>, conflict, vals, {})
<1>1. op' = [op EXCEPT ![t] = p] /\ UNCHANGED <<obj, rows, seq>>
  BY DEF Begin
<1>2. p = [at |-> "looking", path |-> path, save |-> save, adapter |-> a,
           objs |-> <<o>>, vals |-> vals, conflict |-> conflict, cols |-> {},
           since |-> None, result |-> <<>>]
  BY DEF Operation
<1>. HIDE DEF p
<1>3. p \in Operations /\ OpInv(p)
  BY <1>2 DEF Operations, OpInv, Shape
<1>4. op' \in [Callers -> Operations] /\ OpsInv'
  BY <1>1, <1>3, OneOp
<1>5. left' \in [{"ops", "sets"} -> Nat]
  BY DEF Begin, Spend, SavingIInv, StateTypes
<1>6. LookupsInUse'
  <2>1. \A u \in Callers :
           IF u = t THEN look'[u].at # "idle" ELSE look'[u].at = look[u].at
    BY AskLooks, TableAssumption DEF Begin
  <2>2. \A u \in Callers : op'[u] = IF u = t THEN p ELSE op[u]
    BY <1>1 DEF SavingIInv, StateTypes
  <2>. QED  BY <1>2, <2>1, <2>2 DEF LookupsInUse, SavingIInv
<1>. QED  BY <1>1, <1>4, <1>5, <1>6 DEF SavingIInv, StateTypes

LEMMA StartsKeep ==
    ASSUME SavingIInv, CacheTypeOK, NEW t \in Callers, NEW a \in Adapters,
           NEW o \in Objs, NEW conflict \in Actions,
           Create(t, a, o) \/ Save(t, a, o) \/ Insert(t, a, o, conflict)
    PROVE  SavingIInv'
<1>1. /\ <<o>> \in Seq(Objs) /\ Len(<<o>>) = 1 /\ <<o>>[1] = o
      /\ <<>> \in Seq(Objects) /\ "none" \in Actions
  BY DEF Actions
<1>2. Now(<<o>>) \in Seq(Objects) /\ Len(Now(<<o>>)) = 1 /\ Now(<<o>>)[1] = obj[o]
  <2>1. 1 \in 1..Len(<<o>>) /\ StateTypes
    BY <1>1 DEF SavingIInv
  <2>. QED  BY <1>1, <2>1, NowValues
<1>3. CASE Create(t, a, o)
  BY <1>1, <1>2, <1>3, BeginKeeps DEF Create
<1>4. CASE Insert(t, a, o, conflict)
  BY <1>1, <1>4, BeginKeeps DEF Insert
<1>5. CASE Save(t, a, o)
  <2>1. CASE Begin(t, a, "insert", TRUE, <<o>>, "none", <<>>)
    BY <1>1, <2>1, BeginKeeps
  <2>2. CASE obj[o].pk # None /\ Begin(t, a, "upsert", TRUE, <<o>>, "none", Now(<<o>>))
    BY <1>1, <1>2, <2>2, BeginKeeps
  <2>. QED  BY <1>5, <2>1, <2>2 DEF Save
<1>. QED  BY <1>3, <1>4, <1>5

LEMMA BulkKeeps ==
    ASSUME SavingIInv, NEW t \in Callers, NEW a \in Adapters, NEW os \in Batches,
           BulkInsert(t, a, os)
    PROVE  SavingIInv'
<1>. DEFINE p == Operation("sent", a, "bulk", FALSE, os, "none", Now(os), Cols)
<1>1. /\ op' = [op EXCEPT ![t] = p] /\ UNCHANGED <<obj, rows, seq, cacheVars>>
      /\ op[t].at = "idle"
  BY DEF BulkInsert
<1>2. p = [at |-> "sent", path |-> "bulk", save |-> FALSE, adapter |-> a,
           objs |-> os, vals |-> Now(os), conflict |-> "none", cols |-> Cols,
           since |-> None, result |-> <<>>]
  BY DEF Operation
<1>. HIDE DEF p
<1>3. os \in Seq(Objs) /\ os # <<>> /\ \A i, j \in 1..Len(os) : os[i] = os[j] => i = j
  BY BatchesAssumption
<1>4. /\ Now(os) \in Seq(Objects) /\ Len(Now(os)) = Len(os)
      /\ \A k \in 1..Len(os) : Now(os)[k] = obj[os[k]]
  BY <1>3, NowValues DEF SavingIInv
<1>5. p \in Operations
  BY <1>2, <1>3, <1>4 DEF Operations, Actions
<1>6. Shape(p)
  BY <1>2, <1>3 DEF Shape
<1>7. Sent(p)
  BY <1>2, <1>3, <1>4 DEF Sent, BulkInsert
<1>8. OpInv(p)
  BY <1>2, <1>6, <1>7 DEF OpInv
<1>9. op' \in [Callers -> Operations] /\ OpsInv'
  BY <1>1, <1>5, <1>8, OneOp
<1>10. left' \in [{"ops", "sets"} -> Nat]
  BY DEF BulkInsert, Spend, SavingIInv, StateTypes
<1>11. LookupsInUse'
  BY <1>1, <1>2 DEF LookupsInUse, SavingIInv, StateTypes, cacheVars
<1>. QED  BY <1>1, <1>9, <1>10, <1>11 DEF SavingIInv, StateTypes

\* What the operation under way becomes when it is sent and when it has run.
LEMMA SentOp ==
    ASSUME NEW p \in Operations, p.at = "looking", NEW vals \in Seq(Objects),
           NEW cols \in SUBSET Cols, NEW since \in Versions \cup {None}
    PROVE  LET q == Dispatched(p, vals, cols, since)
           IN  /\ q \in Operations
               /\ q.at = "sent" /\ q.vals = vals /\ q.cols = cols /\ q.since = since
               /\ q.path = p.path /\ q.objs = p.objs /\ q.conflict = p.conflict
               /\ q.adapter = p.adapter
<1>. DEFINE q == Dispatched(p, vals, cols, since)
<1>1. q = [[at |-> p.at, adapter |-> p.adapter, path |-> p.path, save |-> p.save,
            objs |-> p.objs, conflict |-> p.conflict, vals |-> p.vals, cols |-> p.cols,
            since |-> p.since, result |-> p.result]
           EXCEPT !.at = "sent", !.vals = vals, !.cols = cols, !.since = since]
  BY OpFields DEF Dispatched
<1>2. q = [at |-> "sent", adapter |-> p.adapter, path |-> p.path, save |-> p.save,
           objs |-> p.objs, conflict |-> p.conflict, vals |-> vals, cols |-> cols,
           since |-> since, result |-> p.result]
  BY <1>1
<1>. HIDE DEF q
<1>3. QED  BY <1>2, OpFields DEF Operations, q

LEMMA ExecutedOp ==
    ASSUME NEW p \in Operations, p.at = "sent",
           NEW result \in Seq([pk : Keys, f : Fields] \cup {None})
    PROVE  LET q == Ran(p, result)
           IN  /\ q \in Operations
               /\ q.at = "executed" /\ q.result = result
               /\ q.path = p.path /\ q.objs = p.objs /\ q.conflict = p.conflict
               /\ q.vals = p.vals /\ q.cols = p.cols /\ q.adapter = p.adapter
               /\ q.since = p.since
<1>. DEFINE q == Ran(p, result)
<1>1. q = [[at |-> p.at, adapter |-> p.adapter, path |-> p.path, save |-> p.save,
            objs |-> p.objs, conflict |-> p.conflict, vals |-> p.vals, cols |-> p.cols,
            since |-> p.since, result |-> p.result]
           EXCEPT !.at = "executed", !.result = result]
  BY OpFields DEF Ran
<1>2. q = [at |-> "executed", adapter |-> p.adapter, path |-> p.path, save |-> p.save,
           objs |-> p.objs, conflict |-> p.conflict, vals |-> p.vals, cols |-> p.cols,
           since |-> p.since, result |-> result]
  BY <1>1
<1>. HIDE DEF q
<1>3. QED  BY <1>2, OpFields DEF Operations, q

\* A task whose operation ends, with its lookup over or never begun.
LEMMA EndsKeep ==
    ASSUME SavingIInv, NEW t \in Callers, op' = [op EXCEPT ![t] = NoOp],
           \A u \in Callers :
              look'[u].at = "idle" <=> (u = t \/ look[u].at = "idle")
    PROVE  op' \in [Callers -> Operations] /\ OpsInv' /\ LookupsInUse'
<1>1. op' \in [Callers -> Operations] /\ OpsInv'
  BY NoOpKeeps, OneOp
<1>2. \A u \in Callers : op'[u] = IF u = t THEN NoOp ELSE op[u]
  BY DEF SavingIInv, StateTypes
<1>. QED  BY <1>1, <1>2, NoOpKeeps DEF LookupsInUse, SavingIInv

LEMMA LookupsKeep ==
    ASSUME SavingIInv, CacheTypeOK, NEW t \in Callers,
           LookupGoesOn(t) \/ LookupRaises(t)
    PROVE  SavingIInv'
<1>1. CASE LookupGoesOn(t)
  <2>1. \A u \in Callers : look'[u].at = "idle" <=> look[u].at = "idle"
    BY <1>1 DEF LookupGoesOn, Answer, Fill, CacheTypeOK, Lookups, NoLookup
  <2>. QED  BY <1>1, <2>1 DEF LookupGoesOn, savingVars, SavingIInv, StateTypes, LookupsInUse,
       OpsInv, OpInv, Shape, Sent, Stored
<1>2. CASE LookupRaises(t)
  <2>1. /\ op' = [op EXCEPT ![t] = NoOp] /\ UNCHANGED <<obj, rows, seq, left>>
        /\ look' = [look EXCEPT ![t] = NoLookup]
    BY <1>2 DEF LookupRaises, AskFails
  <2>2. \A u \in Callers : look'[u].at = "idle" <=> (u = t \/ look[u].at = "idle")
    BY <2>1 DEF CacheTypeOK, NoLookup
  <2>. QED  BY <2>1, <2>2, EndsKeep DEF SavingIInv, StateTypes
<1>. QED  BY <1>1, <1>2

LEMMA RenderKeeps ==
    ASSUME SavingIInv, CacheTypeOK, NEW t \in Callers, Render(t)
    PROVE  SavingIInv'
<1>. DEFINE p == op[t]
            vals == IF p.path = "insert" THEN Now(p.objs) ELSE p.vals
            cols == Emitted(t, vals[1])
            q == Dispatched(p, vals, cols, look[t].since)
<1>1. /\ look' = [look EXCEPT ![t] = NoLookup] /\ UNCHANGED <<obj, rows, seq, left>>
      /\ look[t].at = "done"
  BY DEF Render, Take
<1>2. \A u \in Callers : look'[u].at = "idle" <=> (u = t \/ look[u].at = "idle")
  BY <1>1 DEF CacheTypeOK, NoLookup
<1>3. CASE vals[1].pk = None /\ ~DBKeyed
  <2>1. op' = [op EXCEPT ![t] = NoOp]
    BY <1>3 DEF Render
  <2>. QED  BY <1>1, <1>2, <2>1, EndsKeep DEF SavingIInv, StateTypes
<1>4. CASE ~(vals[1].pk = None /\ ~DBKeyed)
  <2>1. op' = [op EXCEPT ![t] = q]
    BY <1>4 DEF Render, Send
  <2>2. p \in Operations /\ p.at = "looking" /\ OpInv(p)
    BY <1>1 DEF SavingIInv, StateTypes, LookupsInUse, OpsInv
  <2>3. /\ p.path \in {"create", "insert", "upsert", "bulk"}
        /\ p.objs \in Seq(Objs) /\ p.vals \in Seq(Objects) /\ Shape(p) /\ Len(p.objs) = 1
    BY <2>2, OpFields DEF OpInv, Shape
  <2>4. /\ Now(p.objs) \in Seq(Objects) /\ Len(Now(p.objs)) = 1
    BY <2>3, NowValues DEF SavingIInv
  <2>5. vals \in Seq(Objects) /\ Len(vals) = 1
    BY <2>2, <2>3, <2>4 DEF Shape
  <2>6. cols \in SUBSET Cols /\ look[t].since \in Versions \cup {None}
    BY <1>1 DEF Emitted, CacheTypeOK, Lookups, NoLookup
  <2>7. \A c \in Cols \ cols : vals[1].f[c] = None
    BY DEF Emitted
  <2>8. p.path = "upsert" => vals[1].pk # None
    BY <2>3 DEF Shape
  <2>. HIDE DEF vals, cols
  <2>9. /\ q \in Operations /\ q.at = "sent" /\ q.vals = vals /\ q.cols = cols
        /\ q.path = p.path /\ q.objs = p.objs /\ q.conflict = p.conflict
    BY <2>2, <2>5, <2>6, SentOp
  <2>. HIDE DEF q, p
  <2>10. Shape(q)
    BY <2>2, <2>3, <2>8, <2>9 DEF Shape
  <2>11. Sent(q)
    <3>1. Len(q.objs) = 1
      BY <2>3, <2>9
    <3>2. \A k \in 1..1 : k = 1
      OBVIOUS
    <3>. QED  BY <1>4, <2>3, <2>5, <2>7, <2>9, <3>1, <3>2 DEF Sent
  <2>12. op' \in [Callers -> Operations] /\ OpsInv'
    BY <2>1, <2>9, <2>10, <2>11, OneOp DEF OpInv
  <2>13. \A u \in Callers : op'[u] = IF u = t THEN q ELSE op[u]
    BY <2>1 DEF SavingIInv, StateTypes, p
  <2>14. LookupsInUse'
    BY <1>2, <2>9, <2>13 DEF LookupsInUse, SavingIInv
  <2>. QED  BY <1>1, <2>12, <2>14 DEF SavingIInv, StateTypes
<1>. QED  BY <1>3, <1>4

\* A statement that has run, once its result is known to be in order.
LEMMA RunsKeep ==
    ASSUME SavingIInv, NEW t \in Callers, op[t].at = "sent",
           NEW result \in Seq([pk : Keys, f : Fields] \cup {None}),
           Len(result) = Len(op[t].objs),
           \A k \in 1..Len(op[t].objs) : result[k] # None =>
              /\ op[t].vals[k].pk # None => result[k].pk = op[t].vals[k].pk
              /\ op[t].conflict \notin {"excluded", "update"} =>
                    \A c \in op[t].cols : result[k].f[c] = op[t].vals[k].f[c],
           Executed(t, result), UNCHANGED look
    PROVE  op' \in [Callers -> Operations] /\ OpsInv' /\ LookupsInUse'
<1>. DEFINE p == op[t]
            q == Ran(p, result)
<1>1. op' = [op EXCEPT ![t] = q]
  BY DEF Executed
<1>2. p \in Operations /\ p.at = "sent" /\ OpInv(p)
  BY DEF SavingIInv, StateTypes, OpsInv
<1>3. Shape(p) /\ Sent(p)
  BY <1>2 DEF OpInv
<1>4. /\ q \in Operations
      /\ q.at = "executed" /\ q.result = result
      /\ q.path = p.path /\ q.objs = p.objs /\ q.conflict = p.conflict
      /\ q.vals = p.vals /\ q.cols = p.cols /\ q.since = p.since
  BY <1>2, ExecutedOp
<1>. HIDE DEF q
<1>5. Shape(q)
  BY <1>3, <1>4 DEF Shape
<1>6. Sent(q)
  BY <1>3, <1>4 DEF Sent
<1>7. Stored(q)
  BY <1>4 DEF Stored
<1>8. op' \in [Callers -> Operations] /\ OpsInv'
  BY <1>1, <1>4, <1>5, <1>6, <1>7, OneOp DEF OpInv
<1>9. \A u \in Callers : op'[u] = IF u = t THEN q ELSE op[u]
  BY <1>1 DEF SavingIInv, StateTypes
<1>10. LookupsInUse'
  BY <1>2, <1>4, <1>9 DEF LookupsInUse, SavingIInv
<1>. QED  BY <1>8, <1>10

\* What a task that has sent its statement knows of it.
LEMMA SentFacts ==
    ASSUME SavingIInv, NEW t \in Callers, op[t].at \in {"sent", "executed"}
    PROVE  /\ op[t].objs \in Seq(Objs) /\ op[t].vals \in Seq(Objects)
           /\ op[t].cols \in SUBSET Cols
           /\ Len(op[t].objs) \in Nat \ {0} /\ Len(op[t].vals) = Len(op[t].objs)
           /\ \A k \in 1..Len(op[t].objs) : op[t].vals[k] \in Objects
           /\ Shape(op[t]) /\ Sent(op[t])
           /\ op[t].at = "executed" => Stored(op[t])
<1>1. op[t] \in Operations /\ OpInv(op[t])
  BY DEF SavingIInv, StateTypes, OpsInv
<1>2. /\ op[t].objs \in Seq(Objs) /\ op[t].vals \in Seq(Objects)
      /\ op[t].cols \in SUBSET Cols
  BY <1>1, OpFields
<1>3. Shape(op[t]) /\ Sent(op[t]) /\ (op[t].at = "executed" => Stored(op[t]))
  BY <1>1 DEF OpInv
<1>4. op[t].objs # <<>> /\ Len(op[t].vals) = Len(op[t].objs)
  BY <1>3 DEF Shape, Sent
<1>5. Len(op[t].objs) \in Nat \ {0}
  BY <1>2, <1>4, EmptySeq
<1>. QED  BY <1>2, <1>3, <1>4, <1>5

LEMMA ProposedFields ==
    ASSUME SavingIInv, NEW t \in Callers, op[t].at = "sent",
           NEW k \in 1..Len(op[t].objs)
    PROVE  /\ Proposed(t, k) \in Fields
           /\ \A c \in op[t].cols : Proposed(t, k)[c] = op[t].vals[k].f[c]
<1>1. op[t].vals[k] \in Objects /\ op[t].cols \in SUBSET Cols
  BY SentFacts
<1>2. op[t].vals[k].f \in Fields
  BY <1>1 DEF Objects
<1>. QED  BY <1>1, <1>2 DEF Proposed, Fields, Values

LEMMA KeyOf ==
    ASSUME SavingIInv, NEW t \in Callers, op[t].at = "sent",
           NEW k \in 1..Len(op[t].objs), op[t].vals[k].pk # None
    PROVE  Key(t, k) = op[t].vals[k].pk
<1>1. ~Generates(t)
  BY SentFacts DEF Generates, Sent
<1>. QED  BY <1>1 DEF Key

LEMMA AdvanceTypes ==
    ASSUME SavingIInv, NEW t \in Callers, op[t].at = "sent", Advance(t)
    PROVE  seq' \in Nat \ {0}
<1>1. Len(op[t].objs) \in Nat /\ seq \in Nat \ {0}
  BY SentFacts DEF SavingIInv, StateTypes
<1>. QED  BY <1>1 DEF Advance

LEMMA ExecuteInsertKeeps ==
    ASSUME SavingIInv, NEW t \in Callers, ExecuteInsert(t)
    PROVE  SavingIInv'
<1>. DEFINE N == Len(op[t].objs)
            result == [k \in 1..N |-> [pk |-> Key(t, k), f |-> Proposed(t, k)]]
<1>1. /\ op[t].at = "sent" /\ Fits(t) /\ Advance(t) /\ Executed(t, result)
      /\ UNCHANGED <<obj, left, cacheVars>>
  BY DEF ExecuteInsert
<1>2. N \in Nat \ {0}
  BY <1>1, SentFacts
<1>3. \A k \in 1..N : Key(t, k) \in Keys /\ Proposed(t, k) \in Fields
  BY <1>1, ProposedFields DEF Fits
<1>4. result \in Seq([pk : Keys, f : Fields] \cup {None}) /\ Len(result) = N
  BY <1>2, <1>3
<1>5. \A k \in 1..N :
         /\ op[t].vals[k].pk # None => result[k].pk = op[t].vals[k].pk
         /\ \A c \in op[t].cols : result[k].f[c] = op[t].vals[k].f[c]
  BY <1>1, ProposedFields, KeyOf
<1>. HIDE DEF result
<1>6. op' \in [Callers -> Operations] /\ OpsInv' /\ LookupsInUse'
  BY <1>1, <1>4, <1>5, RunsKeep DEF cacheVars
<1>7. rows' \in [Keys -> Fields \cup {None}]
  BY <1>3 DEF ExecuteInsert, SavingIInv, StateTypes
<1>8. seq' \in Nat \ {0}
  BY <1>1, AdvanceTypes
<1>. QED  BY <1>1, <1>6, <1>7, <1>8 DEF SavingIInv, StateTypes

LEMMA ExecuteConflictKeeps ==
    ASSUME SavingIInv, NEW t \in Callers, ExecuteConflict(t)
    PROVE  SavingIInv'
<1>1. /\ op[t].at = "sent" /\ Len(op[t].objs) = 1 /\ Advance(t)
      /\ Key(t, 1) \in Keys /\ rows[Key(t, 1)] # None
      /\ UNCHANGED <<obj, left, cacheVars>>
  BY DEF ExecuteConflict
<1>2. 1 \in 1..Len(op[t].objs) /\ \A k \in 1..Len(op[t].objs) : k = 1
  BY <1>1
<1>3. seq' \in Nat \ {0}
  BY <1>1, AdvanceTypes
<1>4. CASE Executed(t, <<None>>) /\ UNCHANGED rows
  <2>0. /\ <<None>> \in Seq([pk : Keys, f : Fields] \cup {None})
        /\ Len(<<None>>) = Len(op[t].objs)
        /\ \A k \in 1..Len(op[t].objs) : <<None>>[k] = None
    BY <1>1, <1>2
  <2>1. op' \in [Callers -> Operations] /\ OpsInv' /\ LookupsInUse'
    BY <1>1, <1>4, <2>0, RunsKeep DEF cacheVars
  <2>. QED  BY <1>1, <1>3, <1>4, <2>1 DEF SavingIInv, StateTypes
<1>5. ASSUME NEW given \in [Cols -> Vals],
             op[t].path = "upsert" \/ op[t].conflict \in {"excluded", "update"},
             rows' = [rows EXCEPT ![Key(t, 1)] = Updated(t, rows[Key(t, 1)], given)],
             Executed(t, <<[pk |-> Key(t, 1), f |-> Updated(t, rows[Key(t, 1)], given)]>>)
      PROVE  SavingIInv'
  <2>. DEFINE old == rows[Key(t, 1)]
              new == Updated(t, old, given)
              result == <<[pk |-> Key(t, 1), f |-> new]>>
  <2>1. old \in Fields /\ given \in Fields
    BY <1>1 DEF SavingIInv, StateTypes, Fields, Values
  <2>2. /\ Proposed(t, 1) \in Fields
        /\ \A c \in op[t].cols : Proposed(t, 1)[c] = op[t].vals[1].f[c]
        /\ op[t].cols \subseteq Cols
    BY <1>1, <1>2, ProposedFields, SentFacts
  <2>3. /\ new \in Fields
        /\ op[t].path = "upsert" => \A c \in op[t].cols : new[c] = op[t].vals[1].f[c]
    <3>1. CASE op[t].path = "upsert"
      <4>1. new = [c \in Cols |-> IF c \in op[t].cols THEN Proposed(t, 1)[c] ELSE old[c]]
        BY <3>1 DEF Updated
      <4>. QED  BY <2>1, <2>2, <4>1 DEF Fields
    <3>2. CASE op[t].path # "upsert"
      <4>1. new = Proposed(t, 1) \/ new = given
        BY <3>2 DEF Updated
      <4>. QED  BY <2>1, <2>2, <3>2, <4>1
    <3>. QED  BY <3>1, <3>2
  <2>. HIDE DEF new
  <2>4. /\ result \in Seq([pk : Keys, f : Fields] \cup {None}) /\ Len(result) = 1
        /\ result[1].pk = Key(t, 1) /\ result[1].f = new
    BY <1>1, <2>3
  <2>5. op[t].vals[1].pk # None => result[1].pk = op[t].vals[1].pk
    BY <1>1, <1>2, <2>4, KeyOf
  <2>6. Executed(t, result)
    BY <1>5 DEF new
  <2>. HIDE DEF result
  <2>7. op' \in [Callers -> Operations] /\ OpsInv' /\ LookupsInUse'
    BY <1>1, <1>2, <1>5, <2>3, <2>4, <2>5, <2>6, RunsKeep DEF cacheVars
  <2>8. rows' \in [Keys -> Fields \cup {None}]
    BY <1>5, <2>3 DEF SavingIInv, StateTypes, new
  <2>. QED  BY <1>1, <1>3, <2>7, <2>8 DEF SavingIInv, StateTypes
<1>. QED  BY <1>1, <1>4, <1>5 DEF ExecuteConflict

LEMMA EndStepsKeep ==
    ASSUME SavingIInv, NEW t \in Callers, op[t].at \in {"sent", "executed"},
           op' = [op EXCEPT ![t] = NoOp], UNCHANGED look
    PROVE  op' \in [Callers -> Operations] /\ OpsInv' /\ LookupsInUse'
<1>1. look[t].at = "idle"
  BY DEF SavingIInv, LookupsInUse
<1>. QED  BY <1>1, EndsKeep

LEMMA FailsKeep ==
    ASSUME SavingIInv, NEW t \in Callers, ExecuteFails(t) \/ LoseReply(t)
    PROVE  SavingIInv'
<1>1. /\ op[t].at \in {"sent", "executed"} /\ op' = [op EXCEPT ![t] = NoOp]
      /\ UNCHANGED <<obj, rows, left, cacheVars>>
      /\ (op[t].at = "sent" /\ Advance(t)) \/ UNCHANGED seq
  BY DEF ExecuteFails, LoseReply
<1>2. seq' \in Nat \ {0}
  BY <1>1, AdvanceTypes DEF SavingIInv, StateTypes
<1>3. op' \in [Callers -> Operations] /\ OpsInv' /\ LookupsInUse'
  BY <1>1, EndStepsKeep DEF cacheVars
<1>. QED  BY <1>1, <1>2, <1>3 DEF SavingIInv, StateTypes

\* What Finish assigns to the object of a row that came back.
LEMMA FinishPatches ==
    ASSUME SavingIInv, NEW t \in Callers, Finish(t), NEW k \in 1..Len(op[t].objs),
           op[t].result[k] # None
    PROVE  /\ op[t].objs[k] \in Objs
           /\ op[t].result[k] \in [pk : Keys, f : Fields]
           /\ obj'[op[t].objs[k]] = Patched(t, k, obj[op[t].objs[k]])
           /\ Patched(t, k, obj[op[t].objs[k]]) \in Objects
<1>. DEFINE o == op[t].objs[k]
            N == Len(op[t].objs)
<1>1. op[t].at = "executed"
  BY DEF Finish
<1>2. /\ op[t].objs \in Seq(Objs) /\ op[t].cols \in SUBSET Cols
      /\ Shape(op[t]) /\ Stored(op[t])
  BY <1>1, SentFacts
<1>3. o \in Objs /\ obj[o] \in Objects
  BY <1>2 DEF SavingIInv, StateTypes
<1>4. (CHOOSE i \in 1..N : op[t].objs[i] = o) = k
  BY <1>2 DEF Shape
<1>5. op[t].result \in Seq([pk : Keys, f : Fields] \cup {None}) /\ Len(op[t].result) = N
  BY <1>1, <1>2, OpFields DEF SavingIInv, StateTypes, Stored
<1>6. op[t].result[k] \in [pk : Keys, f : Fields]
  BY <1>5
<1>7. obj'[o] = Patched(t, k, obj[o])
  BY <1>3, <1>4 DEF Finish
<1>8. Patched(t, k, obj[o]) \in Objects
  BY <1>2, <1>3, <1>6 DEF Patched, Objects, Fields
<1>. QED  BY <1>3, <1>6, <1>7, <1>8

LEMMA FinishKeeps ==
    ASSUME SavingIInv, NEW t \in Callers, Finish(t)
    PROVE  SavingIInv'
<1>1. op[t].at = "executed" /\ op' = [op EXCEPT ![t] = NoOp]
      /\ UNCHANGED <<rows, seq, left, cacheVars>>
  BY DEF Finish
<1>2. op' \in [Callers -> Operations] /\ OpsInv' /\ LookupsInUse'
  BY <1>1, EndStepsKeep DEF cacheVars
<1>3. ASSUME NEW o \in Objs PROVE obj'[o] \in Objects
  <2>1. CASE \E k \in 1..Len(op[t].objs) : op[t].objs[k] = o /\ op[t].result[k] # None
    BY <2>1, FinishPatches
  <2>2. CASE ~\E k \in 1..Len(op[t].objs) : op[t].objs[k] = o /\ op[t].result[k] # None
    <3>1. obj'[o] = obj[o]
      BY <2>2 DEF Finish
    <3>. QED  BY <3>1 DEF SavingIInv, StateTypes
  <2>. QED  BY <2>1, <2>2
<1>4. obj' \in [Objs -> Objects]
  BY <1>3 DEF Finish
<1>. QED  BY <1>1, <1>2, <1>4 DEF SavingIInv, StateTypes

LEMMA SetFieldKeeps ==
    ASSUME SavingIInv, NEW o \in Objs, NEW c \in Cols, NEW v \in Vals \cup {None},
           SetField(o, c, v)
    PROVE  SavingIInv'
<1>1. obj' = [obj EXCEPT ![o].f[c] = v] /\ UNCHANGED <<rows, seq, op, cacheVars>>
  BY DEF SetField
<1>2. obj[o] \in Objects
  BY DEF SavingIInv, StateTypes
<1>3. [obj[o] EXCEPT !.f[c] = v] \in Objects
  BY <1>2 DEF Objects, Fields, Values
<1>4. obj' \in [Objs -> Objects]
  BY <1>1, <1>3 DEF SavingIInv, StateTypes
<1>5. left' \in [{"ops", "sets"} -> Nat]
  BY DEF SetField, Spend, SavingIInv, StateTypes
<1>. QED  BY <1>1, <1>4, <1>5 DEF SavingIInv, StateTypes, LookupsInUse, OpsInv, OpInv, Shape,
     Sent, Stored, cacheVars

LEMMA EnvironmentKeeps ==
    ASSUME SavingIInv, CacheTypeOK, Environment
    PROVE  SavingIInv'
<1>1. \A t \in Callers : look'[t].at = look[t].at
  <2>1. CASE UNCHANGED look
    BY <2>1
  <2>2. ASSUME NEW S \in SUBSET Adapters, Detach(S)
        PROVE  \A t \in Callers : look'[t].at = look[t].at
    BY <2>2 DEF Detach, CacheTypeOK, Lookups, NoLookup
  <2>3. \A a \in Adapters : {a} \in SUBSET Adapters
    OBVIOUS
  <2>. QED  BY <2>1, <2>2, <2>3 DEF Environment, Migrate, Flush, FlushAll, Collect
<1>. QED  BY <1>1 DEF Environment, savingVars, SavingIInv, StateTypes, LookupsInUse, OpsInv,
     OpInv, Shape, Sent, Stored

----------------------------------------------------------------------------

LEMMA SavingStep == SavingIInv /\ CacheTypeOK /\ [Next]_vars => SavingIInv'
<1>. SUFFICES ASSUME SavingIInv, CacheTypeOK, [Next]_vars PROVE SavingIInv'
  OBVIOUS
<1>1. ASSUME NEW t \in Callers, NEW a \in Adapters, NEW o \in Objs,
             Create(t, a, o) \/ Save(t, a, o)
                \/ \E conflict \in Actions : Insert(t, a, o, conflict)
      PROVE  SavingIInv'
  BY <1>1, StartsKeep DEF Actions
<1>2. ASSUME NEW t \in Callers,
             \/ \E a \in Adapters, os \in Batches : BulkInsert(t, a, os)
             \/ LookupGoesOn(t) \/ LookupRaises(t) \/ Render(t)
      PROVE  SavingIInv'
  BY <1>2, BulkKeeps, LookupsKeep, RenderKeeps
<1>3. ASSUME NEW t \in Callers,
             \/ ExecuteInsert(t) \/ ExecuteConflict(t) \/ ExecuteFails(t)
             \/ Finish(t) \/ LoseReply(t)
      PROVE  SavingIInv'
  BY <1>3, ExecuteInsertKeeps, ExecuteConflictKeeps, FailsKeep, FinishKeeps
<1>4. ASSUME NEW o \in Objs, NEW c \in Cols, NEW v \in Vals \cup {None}, SetField(o, c, v)
      PROVE  SavingIInv'
  BY <1>4, SetFieldKeeps
<1>5. CASE Environment
  BY <1>5, EnvironmentKeeps
<1>6. CASE UNCHANGED vars
  BY <1>6 DEF vars, cacheVars, savingVars, SavingIInv, StateTypes, LookupsInUse, OpsInv, OpInv,
     Shape, Sent, Stored
<1>. QED  BY <1>1, <1>2, <1>3, <1>4, <1>5, <1>6 DEF Next

\* The inductive invariant, over the cache's own.
THEOREM SavingInvariance == Spec => [](CacheIInv /\ SavingIInv)
<1>1. Spec => []CacheIInv
  BY UsesCache, CacheInvariance, PTL
<1>2. CacheIInv => CacheTypeOK
  BY DEF CacheIInv
<1>. QED  BY <1>1, <1>2, SavingInit, SavingStep, PTL DEF Spec

\* Every variable has its type in every reachable state.
THEOREM SavingTypes == Spec => []TypeOK
<1>1. CacheIInv /\ SavingIInv => TypeOK
  BY DEF CacheIInv, SavingIInv, StateTypes, TypeOK
<1>. QED  BY <1>1, SavingInvariance, PTL

\* create(), save(), BULK_VALUES and INSERT without DO UPDATE: a row's object
\* that nobody assigned to since it was read holds what the row holds.
THEOREM ObjectAgrees == Spec => ObjectMatchesRow
<1>1. ASSUME SavingIInv, NEW t \in Callers, Finish(t), NEW k \in 1..Len(op[t].objs),
             op[t].result[k] # None, obj[op[t].objs[k]] = op[t].vals[k],
             op[t].conflict \notin {"excluded", "update"}
      PROVE  obj'[op[t].objs[k]] = op[t].result[k]
  <2>. DEFINE o == op[t].objs[k]
              r == op[t].result[k]
              v == op[t].vals[k]
  <2>1. r \in [pk : Keys, f : Fields] /\ obj'[o] = Patched(t, k, v)
    BY <1>1, FinishPatches
  <2>2. op[t].at = "executed"
    BY <1>1 DEF Finish
  <2>3. /\ v \in Objects /\ op[t].cols \in SUBSET Cols
        /\ Shape(op[t]) /\ Sent(op[t]) /\ Stored(op[t])
    BY <1>1, <2>2, SentFacts
  <2>4. /\ v.pk # None => r.pk = v.pk
        /\ \A c \in op[t].cols : r.f[c] = v.f[c]
    BY <1>1, <2>3 DEF Stored
  <2>5. v.pk = None => DBKeyed /\ op[t].path # "upsert"
    BY <1>1, <2>3 DEF Sent, Shape
  <2>6. Patched(t, k, v).pk = r.pk
    BY <2>4, <2>5 DEF Patched
  <2>7. Patched(t, k, v).f = r.f
    BY <2>1, <2>3, <2>4 DEF Patched, Fields
  <2>8. Patched(t, k, v) = [pk |-> Patched(t, k, v).pk, f |-> Patched(t, k, v).f]
    BY DEF Patched
  <2>. QED  BY <2>1, <2>6, <2>7, <2>8
<1>2. SavingIInv => [\A t \in Callers : Finish(t) =>
          \A k \in 1..Len(op[t].objs) :
             LET o == op[t].objs[k] IN
             (/\ op[t].result[k] # None /\ obj[o] = op[t].vals[k]
              /\ op[t].conflict \notin {"excluded", "update"})
             => obj'[o] = op[t].result[k]]_vars
  BY <1>1
<1>. QED  BY <1>2, SavingInvariance, PTL DEF ObjectMatchesRow

\* What the application gave a value for is stored as that value.
THEOREM ExplicitStored == Spec => ExplicitValuesStored
<1>1. ASSUME SavingIInv, NEW t \in Callers, Finish(t), NEW k \in 1..Len(op[t].objs),
             NEW c \in Cols, op[t].result[k] # None, op[t].vals[k].f[c] # None,
             op[t].conflict \notin {"excluded", "update"}
      PROVE  op[t].result[k].f[c] = op[t].vals[k].f[c]
  <2>1. Sent(op[t]) /\ Stored(op[t])
    BY <1>1, SentFacts DEF Finish
  <2>2. c \in op[t].cols
    BY <1>1, <2>1 DEF Sent
  <2>. QED  BY <1>1, <2>1, <2>2 DEF Stored
<1>2. SavingIInv => [\A t \in Callers : Finish(t) =>
          \A k \in 1..Len(op[t].objs), c \in Cols :
             (/\ op[t].result[k] # None /\ op[t].vals[k].f[c] # None
              /\ op[t].conflict \notin {"excluded", "update"})
             => op[t].result[k].f[c] = op[t].vals[k].f[c]]_vars
  BY <1>1
<1>. QED  BY <1>2, SavingInvariance, PTL DEF ExplicitValuesStored

----------------------------------------------------------------------------
(* What a statement knows of the schema.  Its columns were left out by the *)
(* DEFAULT clauses of a schema between that of the adapter's last flush    *)
(* and today's; where the two agree, it is today's.                        *)

\* The columns with a DEFAULT at version r that the object has no value for
\* were left out.
Knows(p, r) == \A c \in DefaultsAt[r] : p.vals[1].f[c] = None => c \notin p.cols

\* A lookup under way is for the operation that its task began.
LookupsOurs ==
    \A t \in Callers :
        look[t].at # "idle" => look[t].adapter = op[t].adapter /\ look[t].table = Table

SentKnown ==
    \A t \in Callers :
        (op[t].at = "sent" /\ op[t].since # None /\ op[t].adapter \in Introspecting) =>
            /\ op[t].since \in Versions
            /\ \E r \in op[t].since .. version[Table] : Knows(op[t], r)

KnownInv == LookupsOurs /\ SentKnown

\* The lookup that an operation begins is the operation's own.
LEMMA AskOurs ==
    ASSUME CacheTypeOK, NEW t \in Callers, NEW a \in Adapters, NEW tb \in Tables, Ask(t, a, tb)
    PROVE  /\ look'[t].adapter = a /\ look'[t].table = tb
           /\ \A u \in Callers : u # t => look'[u] = look[u]
<1>. DEFINE P(at, attached, read) == Lookup(t, a, tb, at, attached, read)
<1>1. \/ P("done", FALSE, None) \/ P("asked", FALSE, None)
      \/ P("done", FALSE, cache[a][tb]) \/ P("asked", TRUE, None)
  BY DEF Ask
<1>. HIDE DEF P
<1>2. PICK at, attached, read : P(at, attached, read)
  BY <1>1
<1>. QED  BY <1>2 DEF P, Lookup, CacheTypeOK

\* A task whose operation is not sent owes nothing to SentKnown.
LEMMA KnownUnsent ==
    ASSUME SavingIInv, KnownInv, NEW t \in Callers, NEW p, op' = [op EXCEPT ![t] = p],
           p.at = "sent" => p.since = None, UNCHANGED version
    PROVE  SentKnown'
<1>1. \A u \in Callers : op'[u] = IF u = t THEN p ELSE op[u]
  BY DEF SavingIInv, StateTypes
<1>. QED  BY <1>1 DEF KnownInv, SentKnown, Knows

LEMMA BeginKnown ==
    ASSUME SavingIInv, CacheTypeOK, KnownInv, NEW t \in Callers, NEW a \in Adapters,
           NEW path, NEW save, NEW os, NEW conflict, NEW vals,
           Begin(t, a, path, save, os, conflict, vals)
    PROVE  KnownInv'
<1>. DEFINE p == Operation("looking", a, path, save, os, conflict, vals, {})
<1>1. op' = [op EXCEPT ![t] = p] /\ Ask(t, a, Table) /\ UNCHANGED version
  BY DEF Begin, Ask
<1>2. p.at = "looking" /\ p.adapter = a
  BY DEF Operation
<1>. HIDE DEF p
<1>3. SentKnown'
  BY <1>1, <1>2, KnownUnsent
<1>4. \A u \in Callers : op'[u] = IF u = t THEN p ELSE op[u]
  BY <1>1 DEF SavingIInv, StateTypes
<1>5. LookupsOurs'
  BY <1>1, <1>2, <1>4, AskOurs, TableAssumption DEF KnownInv, LookupsOurs
<1>. QED  BY <1>3, <1>5 DEF KnownInv

\* What the lookup of a statement about to be sent has found.
LEMMA LookupKnown ==
    ASSUME CacheIInv, NeverAhead, SavingIInv, KnownInv, NEW t \in Callers, look[t].at = "done"
    PROVE  /\ op[t].adapter = look[t].adapter /\ look[t].since \in Versions
           /\ look[t].adapter \in Introspecting =>
                  look[t].read \in look[t].since .. version[Table] /\ look[t].read # None
<1>1. look[t] \in Lookups /\ look[t] # NoLookup
  BY DEF CacheIInv, CacheTypeOK, NoLookup
<1>2. /\ look[t].adapter = op[t].adapter /\ look[t].table = Table
      /\ look[t].since \in Versions
  BY <1>1, LookupFields DEF KnownInv, LookupsOurs
<1>3. ASSUME look[t].adapter \in Introspecting
      PROVE  look[t].read \in look[t].since .. version[Table] /\ look[t].read # None
  <2>1. look[t].read \in Versions /\ look[t].read >= look[t].since
    BY <1>3 DEF CacheIInv, ServedFresh
  <2>2. look[t].read # None
    BY <2>1, VersionAssumption DEF Versions
  <2>3. look[t].read <= version[Table] /\ version[Table] \in Versions
    BY <1>2, <2>2, TableAssumption DEF NeverAhead, CacheIInv, CacheTypeOK
  <2>. QED  BY <1>2, <2>1, <2>2, <2>3, VersionAssumption DEF Versions
<1>. QED  BY <1>2, <1>3

LEMMA RenderKnown ==
    ASSUME CacheIInv, NeverAhead, SavingIInv, KnownInv, NEW t \in Callers, Render(t)
    PROVE  KnownInv'
<1>. DEFINE p == op[t]
            vals == IF p.path = "insert" THEN Now(p.objs) ELSE p.vals
            cols == Emitted(t, vals[1])
            q == Dispatched(p, vals, cols, look[t].since)
<1>1. /\ look' = [look EXCEPT ![t] = NoLookup] /\ UNCHANGED version /\ look[t].at = "done"
  BY DEF Render, Take
<1>2. \A u \in Callers : look'[u] = IF u = t THEN NoLookup ELSE look[u]
  BY <1>1 DEF CacheIInv, CacheTypeOK
<1>3. PICK r : /\ op' = [op EXCEPT ![t] = r]
               /\ r = NoOp \/ r = q
  BY DEF Render, Send
<1>4. \A u \in Callers : op'[u] = IF u = t THEN r ELSE op[u]
  BY <1>3 DEF SavingIInv, StateTypes
<1>5. LookupsOurs'
  BY <1>2, <1>4 DEF KnownInv, LookupsOurs, NoLookup
<1>6. CASE r = NoOp
  <2>1. SentKnown'
    BY <1>1, <1>3, <1>6, NoOpKeeps, KnownUnsent
  <2>. QED  BY <1>5, <2>1 DEF KnownInv
<1>7. CASE r = q
  <2>1. p \in Operations /\ p.at = "looking"
    BY <1>1 DEF SavingIInv, StateTypes, LookupsInUse
  <2>2. p.adapter = look[t].adapter /\ look[t].since \in Versions
    BY <1>1, LookupKnown
  <2>3. vals \in Seq(Objects) /\ cols \in SUBSET Cols
    BY <2>1, OpFields, NowValues DEF SavingIInv, Emitted
  <2>4. /\ p.adapter \in Introspecting =>
             \E v \in look[t].since .. version[Table] :
                 \A c \in DefaultsAt[v] : vals[1].f[c] = None => c \notin cols
    <3>1. ASSUME p.adapter \in Introspecting
          PROVE  /\ look[t].read \in look[t].since .. version[Table]
                 /\ \A c \in DefaultsAt[look[t].read] : vals[1].f[c] = None => c \notin cols
      <4>1. look[t].read \in look[t].since .. version[Table] /\ look[t].read # None
        BY <1>1, <2>2, <3>1, LookupKnown
      <4>2. cols = Cols \ {c \in DefaultsAt[look[t].read] : vals[1].f[c] = None}
        BY <4>1 DEF Emitted, Known
      <4>. QED  BY <4>1, <4>2
    <3>. QED  BY <3>1
  <2>. HIDE DEF vals, cols
  <2>5. /\ q.vals = vals /\ q.cols = cols /\ q.since = look[t].since
        /\ q.adapter = p.adapter
    BY <2>1, <2>2, <2>3, SentOp
  <2>. HIDE DEF q, p
  <2>6. SentKnown'
    <3> SUFFICES ASSUME NEW u \in Callers, op'[u].at = "sent", op'[u].since # None,
                        op'[u].adapter \in Introspecting
                 PROVE  /\ op'[u].since \in Versions
                        /\ \E v \in op'[u].since .. version[Table] : Knows(op'[u], v)
      BY <1>1 DEF SentKnown, Knows
    <3>1. CASE u = t
      BY <1>4, <1>7, <2>2, <2>4, <2>5, <3>1 DEF Knows
    <3>2. CASE u # t
      BY <1>4, <3>2 DEF KnownInv, SentKnown
    <3>. QED  BY <3>1, <3>2
  <2>. QED  BY <1>5, <2>6 DEF KnownInv
<1>. QED  BY <1>3, <1>6, <1>7

LEMMA LookupsKnown ==
    ASSUME CacheTypeOK, SavingIInv, KnownInv, NEW t \in Callers,
           LookupGoesOn(t) \/ LookupRaises(t)
    PROVE  KnownInv'
<1>1. CASE LookupGoesOn(t)
  <2>1. /\ \A u \in Callers : look'[u].adapter = look[u].adapter /\ look'[u].table = look[u].table
        /\ \A u \in Callers : look'[u].at = "idle" => look[u].at = "idle"
        /\ \A u \in Callers : look[u].at = "idle" => look'[u].at = "idle"
    <3>1. \A u \in Callers : look[u] \in Lookups /\ (u # t => look'[u] = look[u])
      BY <1>1 DEF LookupGoesOn, Answer, Fill, CacheTypeOK
    <3>2. /\ look'[t].adapter = look[t].adapter /\ look'[t].table = look[t].table
          /\ look[t].at # "idle" /\ look'[t].at # "idle"
      BY <1>1, <3>1 DEF LookupGoesOn, Answer, Fill, CacheTypeOK, Lookups, NoLookup
    <3>. QED  BY <3>1, <3>2
  <2>2. UNCHANGED <<op, version>>
    BY <1>1 DEF LookupGoesOn, Answer, Fill, savingVars
  <2>. QED  BY <2>1, <2>2 DEF KnownInv, LookupsOurs, SentKnown, Knows
<1>2. CASE LookupRaises(t)
  <2>1. /\ op' = [op EXCEPT ![t] = NoOp] /\ UNCHANGED version
        /\ look' = [look EXCEPT ![t] = NoLookup]
    BY <1>2 DEF LookupRaises, AskFails
  <2>2. \A u \in Callers : look'[u] = IF u = t THEN NoLookup ELSE look[u]
    BY <2>1 DEF CacheTypeOK
  <2>3. \A u \in Callers : u # t => op'[u] = op[u]
    BY <2>1 DEF SavingIInv, StateTypes
  <2>4. LookupsOurs'
    BY <2>2, <2>3 DEF KnownInv, LookupsOurs, NoLookup
  <2>5. SentKnown'
    BY <2>1, NoOpKeeps, KnownUnsent
  <2>. QED  BY <2>4, <2>5 DEF KnownInv
<1>. QED  BY <1>1, <1>2

\* A task that is past its lookup moves on; the schema stays as it is.
LEMMA AfterKnown ==
    ASSUME SavingIInv, KnownInv, NEW t \in Callers, NEW p, op' = [op EXCEPT ![t] = p],
           p.at = "sent" => p.since = None, look[t].at = "idle", UNCHANGED cacheVars
    PROVE  KnownInv'
<1>1. SentKnown'
  BY KnownUnsent DEF cacheVars
<1>2. \A u \in Callers : u # t => op'[u] = op[u]
  BY DEF SavingIInv, StateTypes
<1>3. LookupsOurs'
  BY <1>2 DEF KnownInv, LookupsOurs, cacheVars
<1>. QED  BY <1>1, <1>3 DEF KnownInv

\* The schema only moves on, and flushes leave the lookups to their tasks.
LEMMA EnvironmentKnown ==
    ASSUME CacheTypeOK, SavingIInv, KnownInv, Environment
    PROVE  KnownInv'
<1>1. UNCHANGED op
  BY DEF Environment, savingVars
<1>2. ASSUME NEW t \in Callers
      PROVE  /\ look'[t].at = look[t].at /\ look'[t].adapter = look[t].adapter
             /\ look'[t].table = look[t].table
  <2>1. CASE UNCHANGED look
    BY <2>1
  <2>2. ASSUME NEW S \in SUBSET Adapters, Detach(S)
        PROVE  /\ look'[t].at = look[t].at /\ look'[t].adapter = look[t].adapter
               /\ look'[t].table = look[t].table
    BY <2>2 DEF Detach, CacheTypeOK, Lookups, NoLookup
  <2>3. \A a \in Adapters : {a} \in SUBSET Adapters
    OBVIOUS
  <2>. QED  BY <2>1, <2>2, <2>3 DEF Environment, Migrate, Flush, FlushAll, Collect
<1>3. version[Table] \in Nat /\ version'[Table] \in Nat /\ version[Table] <= version'[Table]
  <2>1. version[Table] \in Nat
    BY TableAssumption DEF CacheTypeOK, Versions
  <2>2. CASE UNCHANGED version
    BY <2>1, <2>2
  <2>3. ASSUME NEW tb \in Tables, Migrate(tb)
        PROVE  version'[Table] \in Nat /\ version[Table] <= version'[Table]
    BY <2>1, <2>3, TableAssumption DEF Migrate, CacheTypeOK
  <2>. QED  BY <2>1, <2>2, <2>3 DEF Environment, Flush, FlushAll, Collect, Evict
<1>4. \A s \in Versions : s .. version[Table] \subseteq s .. version'[Table]
  BY <1>3 DEF Versions
<1>5. SentKnown'
  BY <1>1, <1>4 DEF KnownInv, SentKnown, Knows
<1>. QED  BY <1>1, <1>2, <1>5 DEF KnownInv, LookupsOurs

LEMMA KnownInit == Init => KnownInv
  BY NoOpKeeps DEF Init, CacheInit, KnownInv, LookupsOurs, SentKnown, NoLookup

LEMMA KnownStep == CacheIInv /\ NeverAhead /\ SavingIInv /\ KnownInv /\ [Next]_vars => KnownInv'
<1>. SUFFICES ASSUME CacheIInv, NeverAhead, SavingIInv, KnownInv, [Next]_vars PROVE KnownInv'
  OBVIOUS
<1>0. CacheTypeOK
  BY DEF CacheIInv
<1>1. ASSUME NEW t \in Callers, NEW a \in Adapters, NEW o \in Objs,
             Create(t, a, o) \/ Save(t, a, o)
                \/ \E conflict \in Actions : Insert(t, a, o, conflict)
      PROVE  KnownInv'
  BY <1>0, <1>1, BeginKnown DEF Create, Save, Insert
<1>2. ASSUME NEW t \in Callers, NEW a \in Adapters, NEW os \in Batches, BulkInsert(t, a, os)
      PROVE  KnownInv'
  <2>. DEFINE p == Operation("sent", a, "bulk", FALSE, os, "none", Now(os), Cols)
  <2>1. op' = [op EXCEPT ![t] = p] /\ p.since = None /\ UNCHANGED cacheVars
    BY <1>2 DEF BulkInsert, Operation
  <2>2. look[t].at = "idle"
    BY <1>2 DEF BulkInsert, SavingIInv, LookupsInUse
  <2>. HIDE DEF p
  <2>. QED  BY <2>1, <2>2, AfterKnown
<1>3. ASSUME NEW t \in Callers, LookupGoesOn(t) \/ LookupRaises(t) \/ Render(t)
      PROVE  KnownInv'
  BY <1>0, <1>3, LookupsKnown, RenderKnown
<1>4. ASSUME NEW t \in Callers,
             \/ ExecuteInsert(t) \/ ExecuteConflict(t) \/ ExecuteFails(t)
             \/ Finish(t) \/ LoseReply(t)
      PROVE  KnownInv'
  <2>1. PICK p : op' = [op EXCEPT ![t] = p] /\ p.at # "sent"
    <3>1. \A result : Ran(op[t], result).at = "executed"
      <4>1. op[t] \in Operations /\ op[t].at # "idle"
        BY <1>4 DEF ExecuteInsert, ExecuteConflict, ExecuteFails, Finish, LoseReply,
           SavingIInv, StateTypes
      <4>. QED  BY <4>1, OpFields DEF Ran
    <3>2. NoOp.at = "idle"
      BY NoOpKeeps
    <3>3. (\E result : Executed(t, result)) \/ op' = [op EXCEPT ![t] = NoOp]
      BY <1>4 DEF ExecuteInsert, ExecuteConflict, ExecuteFails, Finish, LoseReply
    <3>. QED  BY <3>1, <3>2, <3>3 DEF Executed
  <2>2. UNCHANGED cacheVars
    BY <1>4 DEF ExecuteInsert, ExecuteConflict, ExecuteFails, Finish, LoseReply
  <2>3. look[t].at = "idle"
    BY <1>4 DEF ExecuteInsert, ExecuteConflict, ExecuteFails, Finish, LoseReply,
       SavingIInv, LookupsInUse
  <2>. QED  BY <2>1, <2>2, <2>3, AfterKnown
<1>5. ASSUME NEW o \in Objs, NEW c \in Cols, NEW v \in Vals \cup {None}, SetField(o, c, v)
      PROVE  KnownInv'
  BY <1>5 DEF SetField, cacheVars, KnownInv, LookupsOurs, SentKnown, Knows
<1>6. CASE Environment
  BY <1>0, <1>6, EnvironmentKnown
<1>7. CASE UNCHANGED vars
  BY <1>7 DEF vars, cacheVars, savingVars, KnownInv, LookupsOurs, SentKnown, Knows
<1>. QED  BY <1>1, <1>2, <1>3, <1>4, <1>5, <1>6, <1>7 DEF Next

LEMMA KnownInvariance == Spec => [](CacheIInv /\ SavingIInv /\ KnownInv)
<1>1. Spec => []NeverAhead
  BY UsesCache, CacheBehind, PTL
<1>. QED  BY <1>1, SavingInvariance, KnownInit, KnownStep, PTL DEF Spec

\* A current statement left out every DEFAULT column it had no value for.
LEMMA CurrentKnows ==
    ASSUME CacheTypeOK, SavingIInv, KnownInv, NEW t \in Callers, op[t].at = "sent",
           Current(t)
    PROVE  \A c \in DefaultsAt[version[Table]] : op[t].vals[1].f[c] = None => c \notin op[t].cols
<1>1. op[t].since = version[Table] /\ version[Table] \in Nat
  BY TableAssumption DEF Current, CacheTypeOK, Versions
<1>2. PICK r \in op[t].since .. version[Table] : Knows(op[t], r)
  BY <1>1, VersionAssumption DEF KnownInv, SentKnown, Current
<1>3. r = version[Table]
  BY <1>1, <1>2
<1>. QED  BY <1>2, <1>3 DEF Knows

(***************************************************************************)
(* A flush after a migration is enough: a statement whose task looked the  *)
(* DEFAULT clauses up since the table's last migration leaves out each     *)
(* column that has one and that the object has no value for, so that the   *)
(* row is never given the NULL.                                            *)
(***************************************************************************)
THEOREM FlushedDefaultsFire == Spec => DefaultsFire
<1>1. ASSUME CacheTypeOK, SavingIInv, KnownInv, NEW t \in Callers, ExecuteInsert(t), Current(t),
             NEW key \in Keys, NEW c \in DefaultsAt[version[Table]],
             rows[key] = None, rows'[key] # None
      PROVE  rows'[key][c] # None
  <2>1. op[t].at = "sent"
    BY <1>1 DEF ExecuteInsert
  <2>2. version[Table] \in Versions /\ c \in Cols
    BY <1>1, TableAssumption, DefaultsAssumption DEF CacheTypeOK
  <2>3. op[t].since # None /\ op[t].path # "bulk"
    <3>1. op[t].since # None
      BY <1>1, <2>2, VersionAssumption DEF Current, Versions
    <3>. QED  BY <1>1, <2>1, <3>1, SentFacts DEF Shape
  <2>4. Len(op[t].objs) = 1
    BY <2>1, <2>3, <1>1, SentFacts DEF Shape
  <2>5. rows'[key] = Proposed(t, 1)
    <3>1. PICK k \in 1..Len(op[t].objs) :
              Key(t, k) = key
              /\ rows'[key] = Proposed(t, CHOOSE l \in 1..Len(op[t].objs) : Key(t, l) = key)
      BY <1>1 DEF ExecuteInsert
    <3>2. \A l \in 1..Len(op[t].objs) : l = 1
      BY <2>4
    <3>3. (CHOOSE l \in 1..Len(op[t].objs) : Key(t, l) = key) = 1
      BY <3>1, <3>2
    <3>. QED  BY <3>1, <3>3
  <2>6. op[t].vals[1].f[c] = None => c \notin op[t].cols
    BY <1>1, <2>1, CurrentKnows
  <2>. QED  BY <1>1, <2>2, <2>5, <2>6, ValuesAssumption DEF Proposed
<1>2. CacheTypeOK /\ SavingIInv /\ KnownInv =>
          [\A t \in Callers : (ExecuteInsert(t) /\ Current(t)) =>
              \A key \in Keys, c \in DefaultsAt[version[Table]] :
                 (rows[key] = None /\ rows'[key] # None) => rows'[key][c] # None]_vars
  BY <1>1
<1>3. CacheIInv => CacheTypeOK
  BY DEF CacheIInv
<1>. QED  BY <1>2, <1>3, KnownInvariance, PTL DEF DefaultsFire

(***************************************************************************)
(* save() of a row that exists, with DEFAULT clauses looked up since the   *)
(* last migration, leaves the columns that have one and that the object    *)
(* has no value for as they are in the row: what was left out of the       *)
(* INSERT is left out of its DO UPDATE too.                                *)
(***************************************************************************)
THEOREM UpsertPreserves == Spec => ConflictPreserves
<1>1. ASSUME CacheTypeOK, SavingIInv, KnownInv, NEW t \in Callers, ExecuteConflict(t), Current(t),
             op[t].path = "upsert", NEW c \in DefaultsAt[version[Table]],
             op[t].vals[1].f[c] = None
      PROVE  rows'[op[t].vals[1].pk][c] = rows[op[t].vals[1].pk][c]
  <2>1. op[t].at = "sent" /\ Len(op[t].objs) = 1 /\ Key(t, 1) \in Keys
    BY <1>1 DEF ExecuteConflict
  <2>2. version[Table] \in Versions /\ c \in Cols
    BY <1>1, TableAssumption, DefaultsAssumption DEF CacheTypeOK
  <2>3. c \notin op[t].cols
    BY <1>1, <2>1, CurrentKnows
  <2>4. Key(t, 1) = op[t].vals[1].pk
    <3>1. op[t].vals[1].pk # None /\ 1 \in 1..Len(op[t].objs)
      BY <1>1, <2>1, SentFacts DEF Shape
    <3>. QED  BY <1>1, <2>1, <3>1, KeyOf
  <2>5. CASE UNCHANGED rows
    BY <2>5
  <2>6. ASSUME NEW given \in [Cols -> Vals],
               rows' = [rows EXCEPT ![Key(t, 1)] = Updated(t, rows[Key(t, 1)], given)]
        PROVE  rows'[Key(t, 1)][c] = rows[Key(t, 1)][c]
    <3>1. Updated(t, rows[Key(t, 1)], given)[c] = rows[Key(t, 1)][c]
      BY <1>1, <2>2, <2>3 DEF Updated
    <3>2. rows'[Key(t, 1)] = Updated(t, rows[Key(t, 1)], given)
      BY <1>1, <2>1, <2>6 DEF SavingIInv, StateTypes
    <3>. QED  BY <3>1, <3>2
  <2>. QED  BY <1>1, <2>4, <2>5, <2>6 DEF ExecuteConflict
<1>2. CacheTypeOK /\ SavingIInv /\ KnownInv =>
          [\A t \in Callers : (ExecuteConflict(t) /\ Current(t) /\ op[t].path = "upsert") =>
              \A c \in DefaultsAt[version[Table]] :
                 op[t].vals[1].f[c] = None =>
                    rows'[op[t].vals[1].pk][c] = rows[op[t].vals[1].pk][c]]_vars
  BY <1>1
<1>3. CacheIInv => CacheTypeOK
  BY DEF CacheIInv
<1>. QED  BY <1>2, <1>3, KnownInvariance, PTL DEF ConflictPreserves

=============================================================================
