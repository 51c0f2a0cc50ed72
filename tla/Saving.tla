------------------------------- MODULE Saving -------------------------------
(***************************************************************************)
(* Writing Python objects to a table (Executor.run_create, run_save and    *)
(* run_insert in src/cygnet/executor.py): tasks read an object's fields,   *)
(* look up which columns carry a DEFAULT (DefaultsCache), send an INSERT   *)
(* whose column list leaves out None fields that have one, and patch what  *)
(* RETURNING brings back into the object.  Other tasks, the application,   *)
(* flushes and migrations run at every await.                              *)
(***************************************************************************)
EXTENDS DefaultsCache, Sequences

CONSTANTS
    Table,        \* the table written to
    DBKeyed,      \* TRUE: the primary key is a DBKey, FALSE: an AppKey
    Objs,         \* Python objects of the table's dataclass
    Cols,         \* columns other than the primary key
    Vals,         \* values the application assigns
    Default,      \* the value a DEFAULT clause produces
    DefaultsAt,   \* DefaultsAt[v]: the columns with a DEFAULT at version v
    Batches,      \* the object lists given to BULK_VALUES
    AppKeys,      \* primary keys the application assigns itself
    MaxKey,       \* bound: the primary keys 1..MaxKey
    MaxOps,       \* bound: operations begun
    MaxSets       \* bound: assignments of the application after the start

ASSUME TableAssumption == Table \in Tables /\ DBKeyed \in BOOLEAN
ASSUME ValuesAssumption == None \notin Vals \cup {Default}
ASSUME DefaultsAssumption == DefaultsAt \in [Versions -> SUBSET Cols]
ASSUME BatchesAssumption ==
    Batches \subseteq {s \in Seq(Objs) : s # <<>> /\ \A i, j \in 1..Len(s) : s[i] = s[j] => i = j}
ASSUME BoundsAssumption ==
    AppKeys \subseteq 1..MaxKey /\ MaxKey \in Nat /\ MaxOps \in Nat /\ MaxSets \in Nat

VARIABLES
    obj,    \* obj[o]: the fields of object o
    rows,   \* rows[k]: the table's row with primary key k, or None
    seq,    \* the next value of the key's sequence
    op,     \* op[t]: task t's operation
    left    \* operations and assignments left under the bounds

savingVars == <<obj, rows, seq, op, left>>
vars == <<cacheVars, savingVars>>

Keys == 1..MaxKey
Values == Vals \cup {Default}
Fields == [Cols -> Values \cup {None}]
Objects == [pk : Keys \cup {None}, f : Fields]

Actions == {"none", "nothing", "excluded", "update"}
Operation(at, a, path, save, os, conflict, vals, cols) ==
    [at |-> at, adapter |-> a, path |-> path, save |-> save, objs |-> os,
     conflict |-> conflict, vals |-> vals, cols |-> cols, since |-> None, result |-> <<>>]

NoOp == Operation("idle", None, None, FALSE, <<>>, "none", <<>>, {})

\* The application has built its objects; the table may hold a row already.
Init ==
    /\ CacheInit
    /\ obj \in [Objs -> [pk : AppKeys \cup {None}, f : [Cols -> Vals \cup {None}]]]
    /\ \E S \in SUBSET AppKeys :
          rows = [k \in Keys |-> IF k \in S THEN [c \in Cols |-> Default] ELSE None]
    /\ seq = 1
    /\ op = [t \in Callers |-> NoOp]
    /\ left = [what \in {"ops", "sets"} |-> IF what = "ops" THEN MaxOps ELSE MaxSets]

Spend(what) == left[what] > 0 /\ left' = [left EXCEPT ![what] = @ - 1]

----------------------------------------------------------------------------
(* The client up to its statement.  A task whose lookup is "done" has not   *)
(* awaited since: no other code of the program runs before its statement.   *)

LoopFree == \A t \in Callers : look[t].at # "done"

Now(os) == [k \in 1..Len(os) |-> obj[os[k]]]

Begin(t, a, path, save, os, conflict, vals) ==
    /\ op[t].at = "idle" /\ LoopFree
    /\ op' = [op EXCEPT ![t] =
          Operation("looking", a, path, save, os, conflict, vals, {})]
    /\ Ask(t, a, Table)
    /\ Spend("ops")
    /\ UNCHANGED <<obj, rows, seq>>

\* run_create reads the object before it looks the defaults up.
Create(t, a, o) == Begin(t, a, "create", FALSE, <<o>>, "none", Now(<<o>>))

\* run_insert for VALUES(obj) reads the object after it.
Insert(t, a, o, conflict) == Begin(t, a, "insert", FALSE, <<o>>, conflict, <<>>)

\* run_save: a DBKey object without a key is handed to run_insert; an AppKey
\* object without one raises ValueError at once.
Save(t, a, o) ==
    \/ /\ obj[o].pk = None /\ DBKeyed
       /\ Begin(t, a, "insert", TRUE, <<o>>, "none", <<>>)
    \/ /\ obj[o].pk # None
       /\ Begin(t, a, "upsert", TRUE, <<o>>, "none", Now(<<o>>))

Dispatched(p, vals, cols, since) ==
    [p EXCEPT !.at = "sent", !.vals = vals, !.cols = cols, !.since = since]

Send(t, vals, cols) ==
    op' = [op EXCEPT ![t] = Dispatched(op[t], vals, cols, look[t].since)]

\* BULK_VALUES: no lookup, every field is written, and whether the key is
\* written must be the same in every row (else ValueError).
BulkInsert(t, a, os) ==
    /\ op[t].at = "idle" /\ LoopFree
    /\ \/ \A k \in 1..Len(os) : obj[os[k]].pk # None
       \/ DBKeyed /\ \A k \in 1..Len(os) : obj[os[k]].pk = None
    /\ op' = [op EXCEPT ![t] =
          Operation("sent", a, "bulk", FALSE, os, "none", Now(os), Cols)]
    /\ Spend("ops")
    /\ UNCHANGED <<obj, rows, seq, cacheVars>>

\* The lookup goes on, or raises into the operation.
LookupGoesOn(t) ==
    /\ Answer(t) \/ (Fill(t) /\ LoopFree)
    /\ UNCHANGED savingVars

\* Mutant of LookupRaises: the operation stays with the task.
LookupRaisesKeeps(t) ==
    /\ AskFails(t) /\ LoopFree
    /\ op' = [op EXCEPT ![t].at = "idle"]
    /\ UNCHANGED <<obj, rows, seq, left>>

LookupRaises(t) ==
    /\ AskFails(t) /\ LoopFree
    /\ op' = [op EXCEPT ![t] = NoOp]
    /\ UNCHANGED <<obj, rows, seq, left>>

Known(t) == IF look[t].read = None THEN {} ELSE DefaultsAt[look[t].read]

\* Mutant of Emitted: only the cached defaults count, not the field's value.
EmittedIgnoresValue(t, o) == Cols \ Known(t)

\* Mutant of Emitted: every field is written, NULL included.
EmittedAll(t, o) == Cols

\* _extract_insert_fields: a None field whose column has a DEFAULT is left out.
Emitted(t, o) == Cols \ {c \in Known(t) : o.f[c] = None}

\* The statement is rendered and sent; an AppKey of None raises ValueError.
Render(t) ==
    /\ look[t].at = "done"
    /\ Take(t)
    /\ LET vals == IF op[t].path = "insert" THEN Now(op[t].objs) ELSE op[t].vals
       IN  IF vals[1].pk = None /\ ~DBKeyed
           THEN op' = [op EXCEPT ![t] = NoOp]
           ELSE Send(t, vals, Emitted(t, vals[1]))
    /\ UNCHANGED <<obj, rows, seq, left>>

----------------------------------------------------------------------------
(* The server.  The only unique index is the primary key's.                *)

Generates(t) == op[t].vals[1].pk = None

Key(t, k) == IF Generates(t) THEN seq + k - 1 ELSE op[t].vals[k].pk

\* The row a statement proposes: what it leaves out takes its DEFAULT or NULL.
Proposed(t, k) ==
    [c \in Cols |-> IF c \in op[t].cols THEN op[t].vals[k].f[c]
                    ELSE IF c \in DefaultsAt[version[Table]] THEN Default ELSE None]

\* PostgreSQL has no empty column list: INSERT INTO t () VALUES () is refused.
WellFormed(t) == op[t].cols # {} \/ ~Generates(t)

Fits(t) ==
    LET ks == [k \in 1..Len(op[t].objs) |-> Key(t, k)]
    IN  \A k \in DOMAIN ks :
          ks[k] \in Keys /\ rows[ks[k]] = None /\ \A l \in DOMAIN ks : ks[k] = ks[l] => k = l

Ran(p, result) == [p EXCEPT !.at = "executed", !.result = result]

Executed(t, result) == op' = [op EXCEPT ![t] = Ran(op[t], result)]

\* nextval is not undone when the statement fails.  The bound ends the keys.
Advance(t) ==
    IF Generates(t)
    THEN seq + Len(op[t].objs) <= MaxKey + 1 /\ seq' = seq + Len(op[t].objs)
    ELSE UNCHANGED seq

ExecuteInsert(t) ==
    /\ op[t].at = "sent" /\ WellFormed(t) /\ Fits(t)
    /\ rows' = [key \in Keys |->
          IF \E k \in 1..Len(op[t].objs) : Key(t, k) = key
          THEN Proposed(t, CHOOSE k \in 1..Len(op[t].objs) : Key(t, k) = key)
          ELSE rows[key]]
    /\ Executed(t, [k \in 1..Len(op[t].objs) |-> [pk |-> Key(t, k), f |-> Proposed(t, k)]])
    /\ Advance(t)
    /\ UNCHANGED <<obj, left, cacheVars>>

\* Mutant of Updated: DO UPDATE SET covers the omitted columns too.
UpdatedAll(t, old, given) ==
    IF op[t].path = "upsert" \/ op[t].conflict = "excluded" THEN Proposed(t, 1) ELSE given

\* DO UPDATE: run_save sets the columns it wrote, DO_UPDATE_FROM_EXCLUDED the
\* columns it names (all of them here), DO_UPDATE the values it is given.
Updated(t, old, given) ==
    IF op[t].path = "upsert"
    THEN [c \in Cols |-> IF c \in op[t].cols THEN Proposed(t, 1)[c] ELSE old[c]]
    ELSE IF op[t].conflict = "excluded" THEN Proposed(t, 1) ELSE given

ExecuteConflict(t) ==
    /\ op[t].at = "sent" /\ WellFormed(t)
    /\ Len(op[t].objs) = 1 /\ Key(t, 1) \in Keys /\ rows[Key(t, 1)] # None
    /\ \/ /\ op[t].conflict = "nothing"
          /\ Executed(t, <<None>>)
          /\ UNCHANGED rows
       \/ /\ op[t].path = "upsert" \/ op[t].conflict \in {"excluded", "update"}
          /\ \E given \in [Cols -> Vals] :
                LET new == Updated(t, rows[Key(t, 1)], given)
                IN  /\ rows' = [rows EXCEPT ![Key(t, 1)] = new]
                    /\ Executed(t, <<[pk |-> Key(t, 1), f |-> new]>>)
    /\ Advance(t)
    /\ UNCHANGED <<obj, left, cacheVars>>

\* A duplicate key, a refused statement or a lost connection raises.
ExecuteFails(t) ==
    /\ op[t].at = "sent"
    /\ op' = [op EXCEPT ![t] = NoOp]
    /\ Advance(t) \/ UNCHANGED seq
    /\ UNCHANGED <<obj, rows, left, cacheVars>>

----------------------------------------------------------------------------
(* The client after its statement.                                         *)

\* Mutant of Patched: the columns left out are not patched.
PatchedPkOnly(t, k, o) ==
    [o EXCEPT !.pk = IF DBKeyed THEN op[t].result[k].pk ELSE @]

\* RETURNING holds the columns left out, and the key when it is a DBKey; an
\* upsert has no RETURNING unless something was left out.
Patched(t, k, o) ==
    [pk |-> IF (IF op[t].path = "upsert" THEN op[t].cols # Cols ELSE DBKeyed)
            THEN op[t].result[k].pk ELSE o.pk,
     f |-> [c \in Cols |-> IF c \in op[t].cols THEN o.f[c] ELSE op[t].result[k].f[c]]]

\* A row that DO NOTHING skipped leaves its object as it is.  Bulk rows are
\* matched to their objects by position (S30).
Finish(t) ==
    /\ op[t].at = "executed" /\ LoopFree
    /\ obj' = [o \in Objs |->
          IF \E k \in 1..Len(op[t].objs) : op[t].objs[k] = o /\ op[t].result[k] # None
          THEN Patched(t, CHOOSE k \in 1..Len(op[t].objs) : op[t].objs[k] = o, obj[o])
          ELSE obj[o]]
    /\ op' = [op EXCEPT ![t] = NoOp]
    /\ UNCHANGED <<rows, seq, left, cacheVars>>

\* The connection is lost, or the task cancelled, after the statement ran.
LoseReply(t) ==
    /\ op[t].at = "executed" /\ LoopFree
    /\ op' = [op EXCEPT ![t] = NoOp]
    /\ UNCHANGED <<obj, rows, seq, left, cacheVars>>

\* The application assigns to a field of an object, at any time.
SetField(o, c, v) ==
    /\ obj[o].f[c] # v
    /\ LoopFree
    /\ Spend("sets")
    /\ obj' = [obj EXCEPT ![o].f[c] = v]
    /\ UNCHANGED <<rows, seq, op, cacheVars>>

\* Migrations happen in the database; flushes are calls of the program.
Environment ==
    /\ \/ \E tb \in Tables : Migrate(tb)
       \/ LoopFree /\ FlushAll
       \/ \E a \in Adapters : LoopFree /\ Flush(a)
       \/ \E a \in Adapters : (\A t \in Callers : op[t].adapter # a) /\ Collect(a)
    /\ UNCHANGED savingVars

Next ==
    \/ \E t \in Callers :
          \/ \E a \in Adapters, o \in Objs :
                \/ Create(t, a, o) \/ Save(t, a, o)
                \/ \E conflict \in Actions : Insert(t, a, o, conflict)
          \/ \E a \in Adapters, os \in Batches : BulkInsert(t, a, os)
          \/ LookupGoesOn(t) \/ LookupRaises(t) \/ Render(t)
          \/ ExecuteInsert(t) \/ ExecuteConflict(t) \/ ExecuteFails(t)
          \/ Finish(t) \/ LoseReply(t)
    \/ \E o \in Objs, c \in Cols, v \in Vals \cup {None} : SetField(o, c, v)
    \/ Environment

Spec == Init /\ [][Next]_vars

----------------------------------------------------------------------------

Operations == {NoOp} \cup
    [at : {"looking", "sent", "executed"},
     path : {"create", "insert", "upsert", "bulk"}, save : BOOLEAN, adapter : Adapters,
     objs : Seq(Objs), vals : Seq(Objects),
     conflict : Actions, cols : SUBSET Cols, since : Versions \cup {None},
     result : Seq([pk : Keys, f : Fields] \cup {None})]

TypeOK ==
    /\ CacheTypeOK
    /\ obj \in [Objs -> Objects]
    /\ rows \in [Keys -> Fields \cup {None}]
    /\ seq \in Nat \ {0}
    /\ op \in [Callers -> Operations]
    /\ left \in [{"ops", "sets"} -> Nat]

\* When create(), save(), BULK_VALUES or an INSERT without DO UPDATE succeeds
\* and nobody assigned to the object since its fields were read, the object
\* holds exactly what its row held when the statement ran: the generated key,
\* the values written and the DEFAULTs that fired, each in its own field,
\* however old the cached defaults were.
ObjectMatchesRow ==
    [][\A t \in Callers : Finish(t) =>
          \A k \in 1..Len(op[t].objs) :
             LET o == op[t].objs[k] IN
             (/\ op[t].result[k] # None /\ obj[o] = op[t].vals[k]
              /\ op[t].conflict \notin {"excluded", "update"})
             => obj'[o] = op[t].result[k]]_vars

\* "A non-None value is always written through": what such an operation stored
\* in a column the object had a value for is that value, never the DEFAULT.
ExplicitValuesStored ==
    [][\A t \in Callers : Finish(t) =>
          \A k \in 1..Len(op[t].objs), c \in Cols :
             (/\ op[t].result[k] # None /\ op[t].vals[k].f[c] # None
              /\ op[t].conflict \notin {"excluded", "update"})
             => op[t].result[k].f[c] = op[t].vals[k].f[c]]_vars

\* The statement ran against the schema of the adapter's last flush: the table
\* was not migrated between that flush and the statement.  Adapters without
\* column_defaults know of no DEFAULTs.
Current(t) == op[t].adapter \in Introspecting /\ op[t].since = version[Table]

\* A flush after a migration is enough: a single-row INSERT begun after it
\* never inserts a NULL into a column that has a DEFAULT.
DefaultsFire ==
    [][\A t \in Callers : (ExecuteInsert(t) /\ Current(t)) =>
          \A key \in Keys, c \in DefaultsAt[version[Table]] :
             (rows[key] = None /\ rows'[key] # None) => rows'[key][c] # None]_vars

\* save() of an existing row leaves a column with a DEFAULT alone when the
\* object holds None in it, whatever the row holds there.
ConflictPreserves ==
    [][\A t \in Callers : (ExecuteConflict(t) /\ Current(t) /\ op[t].path = "upsert") =>
          \A c \in DefaultsAt[version[Table]] :
             op[t].vals[1].f[c] = None =>
                rows'[op[t].vals[1].pk][c] = rows[op[t].vals[1].pk][c]]_vars

\* "DBKey + pk is set -> INSERT ... ON CONFLICT DO UPDATE": the statement of a
\* save() that carries a key carries the ON CONFLICT clause with it.
SaveWithKeyUpserts ==
    \A t \in Callers :
        (op[t].at = "sent" /\ op[t].save /\ ~Generates(t)) => op[t].path = "upsert"

=============================================================================
