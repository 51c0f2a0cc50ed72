# A TLA+ model of cygnet

Cygnet maps plain dataclasses to PostgreSQL tables: fluent query builders are rendered to
SQL with `$N` placeholders, an adapter (psycopg or asyncpg) runs it, and rows come back as
dataclass instances. It is a single-process asyncio library; what is hard in it lies in the
`await`s, where other tasks, flushes of its one process-wide cache, migrations, cancellations
and connection failures may come in.

Paths are relative to the repository. `src/cygnet/__init__.py` is written `__init__`, and so on.

## 1. Inventory

| component | code | state | operations | talks to |
|---|---|---|---|---|
| transaction blocks | `__init__` 393-586 | `_in_transaction` and `_transaction_task` on the adapter, `_savepoint` on each `transaction` | `__aenter__`, `__aexit__` | the adapter's `execute`; the running task |
| defaults cache | `executor` 63-142, `psycopg_db` 131-185 | `Executor._defaults_cache`: weak adapter -> table -> columns with a DEFAULT | `_get_defaulted_columns`, `flush_column_defaults`, collection of an adapter | the adapter's `column_defaults` |
| writing objects | `executor` 552-1160, 1314-1425 | the Python object, patched in place | `run_create`, `run_insert` (VALUES, BULK_VALUES, ON CONFLICT, SELECT), `run_save` | the defaults cache; the adapter |
| derived tables | `cte`; `executor` 255-262, 330-336 | the column names of each CTE or LATERAL, settled when it is made | `cte`, `recursive_cte`, `lateral` | builders; rendering, later |
| query rendering | `executor` 185-432, 1164-1310; `expression`, `predicate`, `functions` | the shared `params` list of one statement | `render_select/insert/update/delete`, `render_sql` of each node | the adapter's `_adapt_sql` |
| result mapping | `executor` 434-550, `meta` | none (a plan per query) | `_row_mapper`, `run_select`, `stream_select` | rendered column order |
| query builders | `builders` | one mutable builder per query | `FROM`, `JOIN`, `WHERE`, `VALUES`, `ON_CONFLICT`, `FOR_UPDATE`, ... | rendering |
| table registry | `meta`, `proxy`, `annotations` | weak caches of `TableMeta` and `TableProxy` per class | `TableProxy(cls)`, `TableMeta(cls)`, `AS` | garbage collection |
| relationship loading | `__init__` 238-363 | none | `get`, `follow`, `follow_many` | the registry; SELECT |
| adapters | `psycopg_db`, `asyncpg_db` | the connection | `execute`, `execute_one`, `stream`, `column_defaults` | PostgreSQL |
| PostgreSQL helpers | `jsonb`, `arrays`, `fts` | none | expression constructors | rendering |
| stub generator, benchmarks | `stubs`, `src/bench` | none | text output, measurements | - |

What makes each one correct, and what is hard about it:

- **Transaction blocks.** The flag must agree with the server through every failure of the
  statements that open and close blocks; nested blocks must give the guarantees of nested
  transactions; the task guard (S10) must refuse intruders and only them. Hard: the flag is
  written *after* an await; any statement can fail, be cancelled, or lose its reply.
- **Defaults cache.** Nothing read before a flush may be served after it; nothing cached may
  be lost to a concurrent first lookup (S29); a new adapter must not inherit an old one's
  entries. Hard: the dict is fetched before an await and written after it.
- **Writing objects.** The object must end up holding what its row holds, explicit values must
  win over DEFAULTs, DEFAULTs must fire for `None`, and an upsert must leave alone what it
  omitted. Hard: three hand-synchronised copies of the code, one of which reads the object
  after the await and two before it; the cache may be stale.
- **Query rendering.** The order in which parameters are appended must be the order in which
  placeholders are emitted (the psycopg adapter relies on it).
- **Result mapping.** Each joined row must be cut at the right places, and each side be `None`
  exactly when the join missed.
- **Query builders.** No chain of calls may reach a state rendering cannot express.
- **Derived tables.** A name settled when the CTE is made must denote its own column in the
  statement rendered later. Hard: the SELECT inside is a mutable builder that may go on changing.
- **Table registry.** One live `TableMeta` and one proxy per class; models that are valid, cycles
  of foreign keys included, are accepted and the others refused; an introspection that fails
  leaves nothing half-built where a look-up finds it. Hard: introspection of one class runs those
  of others inside it, on entries that are already public; weak entries go whenever the collector
  runs; a failure deep inside passes through every call above it.
- **Relationship loading.** Element *i* of the result belongs to object *i*. Hard: the foreign
  keys are read before the await and again after it.

The hazards, each at its line and with the properties that cover it, are listed in
`PROJECT.json`.

## 2. Modules

    NestedTx                 what nested blocks promise (abstract)
    Transaction              cygnet.transaction on a shared handle, and PostgreSQL under it
    TransactionRefinement    Transaction implements NestedTx
    TransactionProofs        theorems about Transaction
    DefaultsCache            the process-wide cache of DEFAULT-carrying columns
    DefaultsCacheProofs      theorems about DefaultsCache
    Saving                   create, save, INSERT VALUES, BULK_VALUES; EXTENDS DefaultsCache
    SavingProofs             theorems about Saving, using those about DefaultsCache
    Selecting                SELECT over joined tables, mapped to objects, awaited or streamed
    SelectingProofs          theorems about Selecting
    Builders                 the query builders: every chain of calls they accept
    Rendering                the walk that numbers placeholders; EXTENDS Builders
    RenderingProofs          theorems about Rendering
    Derived                  CTEs and LATERAL subqueries, and their names; EXTENDS Rendering
    DerivedProofs            theorems about Derived and the builders under it
    Registry                 TableProxy, TableMeta, their weak caches
    RegistryProofs           theorems about Registry
    Following                get, follow and follow_many; EXTENDS Registry
    FollowingProofs          theorems about Following, using those about Registry
    MC*                      instances for TLC

### Transaction

Every `await db.execute(...)` is three steps: the task sends (`Enter`, `Exit`, `Write`), the
server runs the statement (`Serve*`), the task resumes (`*Returns`). `flag`, `owner` and
`savepoint` are `_in_transaction`, `_transaction_task` and `_savepoint`; `stack[t]` is the
Python nesting of `async with` blocks in task `t`, `exc[t]` an exception on its way out.

| action | code (`__init__`) |
|---|---|
| `Enter` | `__aenter__` to its await: reset of `_savepoint` 478, flag test 489, guard 497-508, SAVEPOINT 514-515 or BEGIN 521 |
| `EnterReturns` | the rest of it: the block is entered; after BEGIN the flag and owner are set, 522-527. If the statement raised, `__aexit__` never runs |
| `Exit` | `__aexit__` to its first await, branching on `_savepoint` and `exc_type`, 541-583 |
| `RollbackToReturns`, `ReleaseReturns` | 556-562: RELEASE after a ROLLBACK TO that worked (S33), errors chained (B8) |
| `EndReturns` | the `finally`, 584-586 |
| `Cancel`, `Lose` | `Task.cancel()` in any await; the connection breaks, replies under way may be lost |

The server is PostgreSQL as cygnet uses it: BEGIN in a transaction is a warning, COMMIT of an
aborted one rolls back and reports success, names of savepoints may be shadowed. The connection
is in autocommit mode. `Serialised` says whether tasks take turns on the handle (the documented
use) or use it at once (the documented misuse); `Cancellable` whether tasks are cancelled.

`NestedTx` knows nothing of flags or savepoints: it has a stack of the rows written in each open
block. `TransactionRefinement` reads that stack off the server's savepoint snapshots.

### DefaultsCache

A lookup is `Ask` (to the await, 118-140), `Answer` (the database reads its catalogue), then
`Fill` (141) or `AskFails`, then `Take`. The schema is stood for by a version number that
`Migrate` advances. A dict that a flush replaced can still be written by lookups that fetched it,
but nobody reads it again; so only the live dict of each adapter is kept, and `look[t].attached`
says whether task `t`'s dict is that one. `floor` and `filled` are history variables: they say
what a flush cut off and what has been cached since, and no guard reads them.

### Saving

One table, its sequence, and the objects of its dataclass. `Begin` starts a lookup, in `create`
and `save` after reading the object's fields (1110, 1374), in `insert` before (891, 637);
`Render` is the synchronous stretch from the lookup's answer to the statement (`Emitted` is
`_extract_insert_fields`); `ExecuteInsert`, `ExecuteConflict` and `ExecuteFails` are the server;
`Finish` unpacks RETURNING into the object (`Patched`). No code of the program runs between a
lookup that is "done" and the statement rendered from it, for asyncio switches tasks only at an
await: that is `LoopFree`. The database itself may migrate at any moment. `DBKeyed` makes the
key database-generated or application-supplied. A key collision with a row whose key the
application chose, the bound on keys, an unusable statement (`WellFormed`: `INSERT INTO t ()
VALUES ()`) and a lost connection all take `ExecuteFails`.

### Selecting

The builder collects `FROM` and joins (`JOIN` stands for the whole family, with FOLLOW and
LATERAL). `Joined` is SQL's join, tuple by tuple, with `None` for "no row": it is the reference,
and a history of each delivered row keeps the tuple next to the objects it became. `Flat` turns a
tuple into the row on the wire, where a missed side is indistinguishable from a row of NULLs;
from there on it is `_row_mapper`: `Start` and `Chunk` cut the row, `CanMiss` decides which sides
may be missing, `ObjectOrNone` detects a miss by the key or, for a CTE, by all-NULL. ON conditions
are arbitrary relations between the rows of two sources.

| action | code |
|---|---|
| `Await`, `Return` | `run_select` before and after its await (`executor` 208-215): SQL rendered from the builder as it was, mapper built from the builder as it is |
| `Stream`, `Yield`, `Leave` | `stream_select` (517-548): SQL and mapper from one state of the builder; one row at a time; early exit (S32) |
| `Serve`, `Refuse` | the server runs the statement, or refuses it or loses the connection |

### Builders and Rendering

`Builders` has one action per builder method that adds something rendered with a parameter or
that refuses a combination; a call that raises changes nothing and is no step. The clauses are
sequences of items, records whose `form` says how they are rendered. Which items a program passes
to which method is the constant `Offered`. A row's values are read when they are given: objects
changed between `VALUES` and the statement are the subject of `Saving`, as is the omission of
columns with a DEFAULT.

`Rendering` turns the recursion of `_render_select` and of the `render_sql` methods into a stack
of frames. `SelectWork`, `InsertWork`, `UpdateWork` and `DeleteWork` list what a statement
renders in the order the code renders it; `Assembled` joins the pieces of a SELECT in the order
the code writes them. `params` is the one list of the statement; a token of the text is the
number written and, as history, the value the program put there.

| action | code |
|---|---|
| `Render`, `Finish` | `render_select/insert/update/delete`: a fresh list; the refusals of the statement come first, where the code finds some of them half-way and drops the list |
| `Open` | an expression's `render_sql`: its operands in its place, left to right |
| `Bind` | a plain value: `params.append(v)`, `$len(params)` |
| `BindRow` | a row of an INSERT, whose numbers are computed from the row's index and the first row's width instead (`executor` 648, 862-871) |
| `Descend`, `Return` | `_render_select` of a subquery, CTE body, LATERAL or set operand, with the same list |
| `Raise` | a refusal below the statement: the list is dropped, the builders stay |
| `Await` | the statement is sent; the builder may be changed and rendered again |

A statement never embeds itself (`Root` is not among the queries offered to it in the runs):
the code would recurse until Python stops it.

### Derived

`Derive` is `cte()`, `lateral()` and `recursive_cte()`: the names come from the builder as it is
(`Inferred`, `CTE._resolve_columns`) or from `columns=[...]`, and `seen` remembers, as history,
what they were taken from. `Otherwise` is any step of `Rendering` that uses only derived tables
that exist. `Output` is what PostgreSQL calls the columns of the SELECT as it would be rendered
now, `Denoted` which of them a name refers to: only a recursive CTE is rendered with its list of
names (`executor` 261).

### Registry

All of it is synchronous. The Python call stack is `stack` (the `TableMeta.__init__` calls under
way, innermost last) and `caller` (the `TableProxy.__init__` that started them); `signal` is what
passes between two frames: a class asked for, a result, an exception. An object is a place in
`metas` or `proxies`; the weak dictionaries map classes to places.

| action | code |
|---|---|
| `TableCached`, `TableNew` | `TableProxy.__new__`, `__init__` (`proxy`): the cached proxy, or a new one that is entered in the cache before it is built |
| `Hit`, `Introspect` | `TableMeta.__new__`, `__init__` (`meta`): the guard on `_initialised`; pass 1, whose success sets it (B9) |
| `NextField`, `CheckTarget`, `Build` | pass 2: each foreign key asks for the `TableMeta` of its target and compares types; then the row builder |
| `Evict` | the `except` of `__init__`: the entry is taken out and the exception goes on (S26) |
| `Deliver`, `Fail` | `TableProxy.__init__` goes on with the `TableMeta`, or lets the exception pass and stays half-built |
| `AS` | an alias, which shares the `TableMeta` |
| `Forget`, `CollectMeta`, `CollectProxy` | a reference is dropped; the collector takes what nothing refers to, and the weak entry with it |

What a failed introspection leaves may stay alive for as long as a traceback refers to it: that
is why collection is an action that *may* happen. `Valid` and `Acyclic` are defined from the
classes alone, as a greatest and a least fixed point: they are what the code is measured against.

### Following

`follows[t]` is the call of task `t`. `Begin` runs to the look-up of the target's table, `LookUp`
is that call of `TableProxy` (its steps are the registry's), `Send` and `LookUpRaises` what comes
of it, `Return` and `SelectFails` the other side of the await. No other program code runs before
`Send` (`LoopFree`). While the SELECT is awaited others assign to the objects' keys (`Repoint`),
make tables and drop them. `read` holds the keys as read before the await, `now` as they are:
`follow` answers with the row of the first, `follow_many` matches rows with the second. An object
holds its class but not its proxy: `Begin` needs a holder of the proxy, since `T.col` does.

## 3. Runs

| run | instance | shows |
|---|---|---|
| `tx_turns` | 2 tasks, 3 instances, 2 rows, turns, fair | `FlagTracksServer`; the refinement `ImplementsNestedTx`; `OuterExitClearsFlag` (liveness) |
| `tx_cancel` | 2 tasks, 3 instances, turns, cancellation | the flag is never stranded; savepoints match blocks; the guard raises no false alarm |
| `tx_race` | 2 tasks at once | violated: two tasks get inside (finding) |
| `cache` | 2 callers, 3 adapters (ordinary, not weakly referenceable, not introspecting), 2 tables, 1 migration each | freshness after a flush; no cached entry lost |
| `saving` | 2 tasks, 2 objects, 1 migration, 2 operations, 1 assignment | object = row, explicit values, DEFAULTs fire, upserts preserve |
| `save_race` | 2 tasks, 1 object | violated: save() sends a plain INSERT with a key (finding) |
| `select` | 1 reader, 3 tables, 1 CTE, 3 builder calls | matched sides are their own objects; missed sides are `None` where the plan can know |
| `join_miss` | the same | violated: a missed inner side before a RIGHT JOIN (finding) |
| `render` | 4 statements, 1 embedded SELECT, 3 derived tables over it, 4 calls, 3 values and None | placeholders name their values; each parameter once; clauses agree; a conflict action is final; inferred names denote |
| `distinct_on` | the same, 3 calls | violated: `$2` before `$1` with DISTINCT ON (finding) |
| `cte_names` | the same | violated: names given with `columns=[...]` that denote nothing (finding) |
| `follow` | 7 classes, 1 task and the rest of the program, 2 keys, 3 calls | rows stay with their objects; targets are found; one proxy and one `TableMeta` per class; valid models accepted, others refused; no recursion; every call ends (liveness) |

Bounds. Two tasks are enough for every race here, since each involves one statement of one task
and one step of another; three transaction instances give three levels of nesting, so that a
RELEASE in the middle can go wrong on both sides; `MaxSavepoints` (3, 4 with cancellation) leaves
room for one leaked savepoint under a full nest. `MaxVersion = 1`: a migration moves the DEFAULT
from one version to another, so stale and fresh differ; a second one would only repeat it.
`MaxOps = 2` puts two operations on one object, `MaxSets = 1` one assignment between any two
steps, `MaxKey = 2` with `AppKeys = {2}` lets the sequence run into a key the application chose.
The model has one data column in `saving`: columns do not interact except by position, and
position is what the patch of key and column already tells apart. No reachable state is stuck for
want of a bound except where a sequence is exhausted, and there `ExecuteFails` goes on.

`MaxCalls = 3` gives FROM and two joins, the shortest chain in which one join makes an earlier side
optional, or one call fewer and one made while a stream is under way. One reader suffices: readers
share nothing but the builder, and only builder calls change it. Tables differ in width and in
where the key is, so that a shifted cut is seen; table `a` has a NULL in a column that is not the
key.

`render` has every form of item and at least one item for each method, except that the methods of
one family (`JOIN`, `UNION`, `FOR UPDATE`) share theirs. Four calls are enough for any two clauses
with a parameter on each of two nested SELECTs, or for `INTO`, `VALUES`, a conflict target and an
action; three objects, one of them with its key, give bulk inserts of equal and of unequal shape.
It stops when its calls are spent, so deadlock is not checked there.

`follow` has one class of every kind that matters: a tree that refers to itself, two classes that
refer to each other, two whose mutual reference fails in the second one's types (so the failure
happens below a call under way), one without a key, and one that refers to a valid class first
and then to the keyless one (so a call fails after it has built another's `TableMeta`). Three calls
are enough for a failed introspection, another after it and a follow through the result; three
proxies leave room for two classes and an alias; six places for `TableMeta` are never all taken.
One following task suffices: two of them share only the registry, whose other users the holder
`app` stands for. Two objects with two keys can swap rows, miss one, and be re-pointed to the
other's. It stops when its calls are spent, so deadlock is not checked there.

Fairness. `FairSpec` (`tx_turns`) is weak fairness of the event loop (a task whose statement has
returned resumes) and of the server (a statement that was sent is run or fails): asyncio runs
every ready callback, and both drivers raise when the connection is lost. Nothing is assumed of
the program in the blocks. `FollowingSpec` is weakly fair to `Construct` (`follow`): a synchronous
call, once made, runs to its end. The collector, the program and the awaited SELECTs are under no
obligation. The other runs are safety runs.

## 4. Proofs

For every value of the constants, from the named assumptions of each module:

- `TransactionProofs`. `IInv` is `TypeOK` with `FlagNeverStranded` and what it needs to be
  inductive: a statement that enters a block is SAVEPOINT exactly when its instance has one
  (`EnteringMode`), and a statement that leaves one names the innermost block, ending the
  transaction exactly when that block has no savepoint (`LeavingInnermost`). `NeverStranded` assumes nothing
  of how tasks share the handle. With `Serialised` a second invariant, `TInv`, ties the flag to
  the server's state through each phase of BEGIN, COMMIT and ROLLBACK; `NoFalseAlarm` and
  (without cancellation) `FlagAgrees` follow. Its
  part about the server (`ServerView`) is claimed only without cancellation and while the
  connection lives; a third invariant, `SInv`, survives cancellation. It says that no instance is
  entered twice (`Once`), that each nested block's savepoint is on the server's stack, above those
  of the blocks around it (`NestedSaved`), and that a SAVEPOINT that was run, whose block is yet to
  begin, is above all of them (`PendingSaved`). Only statements of the innermost block cut the
  stack, and a savepoint that was leaked lies above the blocks that remain; `SavepointsHeld`
  follows. `KeepsPromise` is the refinement `ImplementsNestedTx`. What a block has written is the
  difference of two snapshots: the rows when the next block began, or the rows of now, without
  those when it began itself. The proof therefore describes every step by what it does to the
  list of these beginnings (`Bases`) and to the rows of now (`Now`), and the lemmas on `Between`
  turn that into a step of `NestedTx`. A fourth invariant, `RInv`, has what this needs: later
  snapshots contain the earlier ones (`SnapshotsNest`), a row on its way is not yet among them
  (`WritesNew`), the RELEASE after a ROLLBACK TO finds an open transaction (`RollsBack`, so that
  it closes no block a second time), and a connection that is lost has nothing (`Grounded`).
- `DefaultsCacheProofs`. `CacheIInv` adds to the three properties that floors lie in the past
  and that an attached lookup began after its adapter's floor (else a flush would have detached
  it); that is why writing into the dict fetched before the await is right, and why fetching it
  again would not be. `CacheBehind` is the other bound: nothing cached or looked up is newer than
  the schema.
- `SavingProofs`. `UsesCache` shows that every step of the write path is a step or a stutter of
  the cache, so `CacheIInv` holds of it. `SavingIInv` says what an operation under way knows: how
  many values and results it holds, that a sent statement's proposed row agrees with the values
  it wrote, and that an executed one's result does. `ObjectAgrees` and `ExplicitStored` (action
  properties) follow from it in the step that patches the object. `DefaultsFire` and
  `ConflictPreserves` speak of the schema: `SentKnown` says that a statement left out what had a
  DEFAULT in some version between the floor of its lookup and the present one, which `CacheBehind`
  bounds from above; where the two meet, the statement knew the DEFAULTs of today
  (`FlushedDefaultsFire`, `UpsertPreserves`).
- `SelectingProofs`. The state part is short: an execution is `Good` whatever others do to the
  builder, for it depends on nothing but the query it sent and its plan; a stream's plan is the
  query it sent. The rest is about the operators, for chains of joins of any length, any tables,
  widths, rows and ON conditions. A joined row has one component per source (`Shaped`), by
  induction over the joins; where every source before a RIGHT or FULL join is optional, it is
  None only at a place that `CanMiss` expects (`JoinedMisses`); and a slice of the flat row is
  the piece that was put there (`SliceIsPiece`), by induction over the pieces: what was put
  together first stays in front, and a slice starts where the piece before it ends. These
  inductions go over sets of numbers (`SetInduction`), and the recursive functions in `Joined`,
  `Start` and `FlattenSeq` are first shown to exist (`UpToIs`, `StartsIs`, `FlattenedIs`). That no row is
  None, that rows are as wide as their table and that the key is one of the columns is assumed.
- `RenderingProofs`. `IInv` says of every token written so far, in every frame, that its number
  names its value in `params` (`TextsNamed`), which a list that is only added to never undoes.
  The rows of an INSERT need more, for their numbers are not read off the list: rows come first
  in the work and each starts where the one before it ends (`Aligned`), so that the next one to
  be bound starts at the list's end; that rests on `SameShape`, the refusal of rows that differ
  in shape. `RenderingTypes` and `PlaceholdersNamed` follow for any items, builders and nesting.
  `OInv` says that the texts of all frames share no number and that between them they have every
  number bound so far; a walk that ends has one text left, so that each parameter occurs in it
  once, and by the pigeonhole principle the text is as long as the list (`ParametersOnce`).
  `PInv` orders the texts: numbers rise within a piece, over the pieces of a frame in the order
  `Assembled` joins them, and from a frame to the one it was opened from, which has written
  nothing yet behind the place it waits at (`Room`). This holds only where no SELECT has both
  DISTINCT ON and explicit columns, whose work is done in the other order. Numbers that rise and
  fill 1..n are 1..n (`PlacesNamed`).
- `DerivedProofs`. `ClausesNeverClash` and `ActionStays` go through every builder method;
  the methods of one family need one lemma each on what they leave of the clauses.
  `InferredNamesDenote` rests on `NamesInferred`: names that were inferred are still those of
  what they were taken from (`seen`), so they can only go wrong where the builder changed since.
- `RegistryProofs`. The invariant describes the Python call stack. Every frame owns the entry of
  its class, which is not yet built (`Stacked`, `Distinct`), and all but the first were asked for
  by the foreign key at which the frame before stands (`Linked`); a built entry is of a valid
  class, or of one on a cycle (`BuiltValid`); an exception on its way belongs to a class that is
  not valid (`SignalSent`). The hard step is a foreign key that leads back to a class under way:
  the code takes its unfinished `TableMeta` on trust. The frames from that class to the top are
  then a cycle, none of its members is in `Acyclic` unless the cycle is a self-reference, and for
  those `FieldsChecked` settles it when the frame ends. `ValidAccepted` is the other direction:
  `Valid` is itself consistent, so whatever fails was not in it.
- `FollowingProofs` adds what a call under way knows: it is alone while it looks up (`Alone`),
  the class of its proxy has the key it follows (`KeyKnown`), and the proxy it has found is that
  of the target (`LookedUp`). `RegistryUndisturbed` shows that every step is a step or a stutter
  of the registry, so that its theorems hold here too.

Only model-checked: liveness (`OuterExitClearsFlag`, `CallsEnd`), which the prover does not reach.
Every other property of a passing run is a theorem.

## 5. Findings

Five statements of the repository's own text do not hold of its code; `PROJECT.json` quotes
them. Two tasks that await BEGIN together both get inside one handle (`tx_race`); `save()` of an
object that another task is saving can send a plain INSERT with a key (`save_race`); after a RIGHT
or FULL join, an inner-joined side that the join missed comes back as an object of Nones instead
of `None` (`join_miss`); a SELECT with parameters both in DISTINCT ON and in its columns numbers
them out of order, so that psycopg, which goes by position, swaps them (`distinct_on`); the names
given to a CTE or a LATERAL with `columns=[...]` are never written into the statement, so that
they denote nothing unless the SELECT happens to use them (`cte_names`).

Two more things the modules contain and no property states: BULK_VALUES stores NULL where a
DEFAULT would fire in a single INSERT, and a BEGIN that is cancelled
after the server ran it leaves the server in a transaction that the handle does not know of.

## 6. Not modelled, and the plan

Left out for good: drivers and the network below `execute`, the text of SQL beyond its
placeholders (LIMIT, OFFSET, lock modes, names), the stub generator, the benchmarks, typing.
INSERT from keyword arguments and INSERT ... SELECT patch no object; they are in `Rendering` only.

What could come next: `DO NOTHING` and its conflict target as part of the statement in `Saving`.
