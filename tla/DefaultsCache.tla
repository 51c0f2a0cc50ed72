--------------------------- MODULE DefaultsCache ---------------------------
(***************************************************************************)
(* The process-wide cache of DEFAULT-carrying columns (Executor in         *)
(* src/cygnet/executor.py): a WeakKeyDictionary from db adapter to a dict  *)
(* from table to the columns introspected for it.  A lookup that misses    *)
(* awaits the introspection query and then writes into the dict it fetched *)
(* before the await; a flush in between replaces that dict.  A dict that   *)
(* was replaced is never read again, so of the dicts only the live one of  *)
(* each adapter is kept, and each lookup knows whether its dict is live.   *)
(* What a schema's DEFAULT clauses are is stood for by its version.        *)
(***************************************************************************)
EXTENDS Naturals

CONSTANTS
    Callers,        \* tasks that run INSERTs
    Adapters,       \* db adapters (slots: a collected one's may be reused)
    Tables,
    None,
    Introspecting,  \* adapters with a column_defaults method
    Cacheable,      \* adapters that support weak references
    MaxVersion      \* bound: migrations per table

ASSUME AdaptersAssumption ==
    Introspecting \subseteq Adapters /\ Cacheable \subseteq Adapters /\ None \notin Adapters
ASSUME VersionAssumption == MaxVersion \in Nat /\ None \notin Nat

VARIABLES
    version,    \* version[tb]: the schema the database has now
    cache,      \* cache[a][tb]: the version introspected, or None
    look,       \* look[t]: task t's lookup
    floor,      \* history: version[tb] when a was created or last flushed
    filled      \* history: pairs <<a, tb>> cached since then

cacheVars == <<version, cache, look, floor, filled>>

Versions == 0..MaxVersion
Unknown == [tb \in Tables |-> None]

NoLookup == [at |-> "idle", adapter |-> None, table |-> None,
             attached |-> FALSE, read |-> None, since |-> None]
Lookups == {NoLookup} \cup
    [at : {"asked", "answered", "done"}, adapter : Adapters, table : Tables,
     attached : BOOLEAN, read : Versions \cup {None}, since : Versions]

CacheInit ==
    /\ version = [tb \in Tables |-> 0]
    /\ cache = [a \in Adapters |-> Unknown]
    /\ look = [t \in Callers |-> NoLookup]
    /\ floor = [a \in Adapters |-> [tb \in Tables |-> 0]]
    /\ filled = {}

Lookup(t, a, tb, at, attached, read) ==
    look' = [look EXCEPT ![t] =
        [at |-> at, adapter |-> a, table |-> tb, attached |-> attached,
         read |-> read, since |-> floor[a][tb]]]

\* Mutant of Ask: a miss installs a fresh dict instead of the one setdefault
\* finds, and the dict other lookups hold is no longer the live one.
AskInstallsDict(t, a, tb) ==
    /\ look[t].at = "idle" /\ a \in Introspecting \cap Cacheable
    /\ IF cache[a][tb] # None
       THEN Lookup(t, a, tb, "done", FALSE, cache[a][tb]) /\ UNCHANGED cache
       ELSE /\ cache' = [cache EXCEPT ![a] = Unknown]
            /\ Lookup(t, a, tb, "asked", TRUE, None)
    /\ UNCHANGED <<version, floor, filled>>

\* _get_defaulted_columns up to its await.  An adapter without column_defaults
\* yields the empty set (None here); one that WeakKeyDictionary refuses with
\* TypeError is asked without caching.
Ask(t, a, tb) ==
    /\ look[t].at = "idle"
    /\ \/ /\ a \notin Introspecting
          /\ Lookup(t, a, tb, "done", FALSE, None)
       \/ /\ a \in Introspecting \ Cacheable
          /\ Lookup(t, a, tb, "asked", FALSE, None)
       \/ /\ a \in Introspecting \cap Cacheable /\ cache[a][tb] # None
          /\ Lookup(t, a, tb, "done", FALSE, cache[a][tb])
       \/ /\ a \in Introspecting \cap Cacheable /\ cache[a][tb] = None
          /\ Lookup(t, a, tb, "asked", TRUE, None)
    /\ UNCHANGED <<version, cache, floor, filled>>

\* The database answers with the DEFAULT clauses it has at that moment.
Answer(t) ==
    /\ look[t].at = "asked"
    /\ look' = [look EXCEPT ![t].at = "answered", ![t].read = version[look[t].table]]
    /\ UNCHANGED <<version, cache, floor, filled>>

\* Mutant of AskFails: the failed lookup is not forgotten.
AskFailsKeeps(t) ==
    /\ look[t].at \in {"asked", "answered"}
    /\ look' = [look EXCEPT ![t].at = "idle"]
    /\ UNCHANGED <<version, cache, floor, filled>>

\* The query fails or the task is cancelled: nothing is cached.
AskFails(t) ==
    /\ look[t].at \in {"asked", "answered"}
    /\ look' = [look EXCEPT ![t] = NoLookup]
    /\ UNCHANGED <<version, cache, floor, filled>>

\* Mutant of Fill: the adapter's dict is looked up again after the await.
FillRefetched(t) ==
    /\ look[t].at = "answered"
    /\ look' = [look EXCEPT ![t].at = "done"]
    /\ IF look[t].adapter \in Cacheable
       THEN /\ cache' = [cache EXCEPT ![look[t].adapter][look[t].table] = look[t].read]
            /\ filled' = filled \cup {<<look[t].adapter, look[t].table>>}
       ELSE UNCHANGED <<cache, filled>>
    /\ UNCHANGED <<version, floor>>

\* _get_defaulted_columns after its await: the write goes to the dict fetched
\* before it, and is lost on the cache when a flush has replaced that dict.
Fill(t) ==
    /\ look[t].at = "answered"
    /\ look' = [look EXCEPT ![t].at = "done"]
    /\ IF look[t].attached
       THEN /\ cache' = [cache EXCEPT ![look[t].adapter][look[t].table] = look[t].read]
            /\ filled' = filled \cup {<<look[t].adapter, look[t].table>>}
       ELSE UNCHANGED <<cache, filled>>
    /\ UNCHANGED <<version, floor>>

\* The caller goes on with the columns it was given.
Take(t) ==
    /\ look[t].at = "done"
    /\ look' = [look EXCEPT ![t] = NoLookup]
    /\ UNCHANGED <<version, cache, floor, filled>>

Evict(S) ==
    /\ cache' = [a \in Adapters |-> IF a \in S THEN Unknown ELSE cache[a]]
    /\ floor' = [a \in Adapters |-> IF a \in S THEN version ELSE floor[a]]
    /\ filled' = {p \in filled : p[1] \notin S}
    /\ UNCHANGED version

Detach(S) ==
    look' = [t \in Callers |->
        IF look[t].adapter \in S THEN [look[t] EXCEPT !.attached = FALSE] ELSE look[t]]

\* flush_column_defaults(a) pops one adapter's dict; flush_column_defaults()
\* clears the whole dictionary.
Flush(a) == Evict({a}) /\ Detach({a})
FlushAll == Evict(Adapters) /\ Detach(Adapters)

\* Mutant of Collect: the cache is keyed by id(adapter), which a new adapter
\* at the same address inherits.
CollectById(a) ==
    /\ \A t \in Callers : look[t].adapter # a
    /\ floor' = [floor EXCEPT ![a] = version]
    /\ UNCHANGED <<version, cache, look, filled>>

\* The adapter is garbage-collected, its entry goes with the weak key, and a
\* new adapter takes the slot.
Collect(a) ==
    /\ \A t \in Callers : look[t].adapter # a
    /\ Evict({a})
    /\ UNCHANGED look

\* A migration changes a table's DEFAULT clauses; the cache is not told.
Migrate(tb) ==
    /\ version[tb] < MaxVersion
    /\ version' = [version EXCEPT ![tb] = @ + 1]
    /\ UNCHANGED <<cache, look, floor, filled>>

CacheEnvironment ==
    \/ \E a \in Adapters : Flush(a) \/ Collect(a)
    \/ FlushAll
    \/ \E tb \in Tables : Migrate(tb)

CacheNext ==
    \/ \E t \in Callers :
          \/ \E a \in Adapters, tb \in Tables : Ask(t, a, tb)
          \/ Answer(t) \/ AskFails(t) \/ Fill(t) \/ Take(t)
    \/ CacheEnvironment

CacheSpec == CacheInit /\ [][CacheNext]_cacheVars

----------------------------------------------------------------------------

CacheTypeOK ==
    /\ version \in [Tables -> Versions]
    /\ cache \in [Adapters -> [Tables -> Versions \cup {None}]]
    /\ look \in [Callers -> Lookups]
    /\ floor \in [Adapters -> [Tables -> Versions]]
    /\ filled \subseteq Adapters \X Tables

\* A flush cuts off the past: an introspection that was under way when its
\* adapter was flushed never puts what it read before into the live cache, so
\* no later INSERT is rendered from DEFAULT clauses older than the last flush.
LiveEntriesFresh ==
    \A a \in Adapters, tb \in Tables :
        cache[a][tb] # None => cache[a][tb] >= floor[a][tb]

\* What a lookup returns is no older than the flush, or the adapter, that
\* came before the lookup began.
ServedFresh ==
    \A t \in Callers :
        (look[t].at = "done" /\ look[t].adapter \in Introspecting) =>
            look[t].read \in Versions /\ look[t].read >= look[t].since

\* A concurrent first lookup never discards what another has cached (S29): an
\* entry once filled stays until it is flushed or its adapter collected.
FillsKept == \A p \in filled : cache[p[1]][p[2]] # None

=============================================================================
