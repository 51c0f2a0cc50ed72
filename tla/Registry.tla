------------------------------ MODULE Registry ------------------------------
(***************************************************************************)
(* How a dataclass becomes a table (src/cygnet/meta.py, proxy.py): Table() *)
(* yields the one TableProxy of the class, which holds the one TableMeta   *)
(* of the class.  Both live in dictionaries of weak references, entered    *)
(* before they are built.  TableMeta is built in two passes: the second    *)
(* validates the foreign keys, which builds the TableMeta of each target;  *)
(* a failure takes the entry out again and raises.                         *)
(*                                                                         *)
(* All of this is synchronous: only the garbage collector runs in between. *)
(* What nothing refers to any longer may still be there for as long as the *)
(* program keeps an exception whose traceback refers to it, or until the   *)
(* cyclic collector runs, so collection is an action that may happen.      *)
(***************************************************************************)
EXTENDS Naturals, Sequences, FiniteSets

CONSTANTS
    Classes,    \* the classes a program hands to Table
    Model,      \* Model[c]: the class as its annotations describe it
    Holders,    \* who keeps references to proxies: modules, calls under way
    Metas,      \* places for TableMeta objects
    Proxies,    \* places for TableProxy objects
    None,       \* Python's None
    MaxCalls    \* bound: calls that ask for a proxy

\* A type is the set of its alternatives, NoneType among them when it is optional.
NoneType == "None"

ASSUME ModelAssumption ==
    \A c \in Classes :
        /\ Model[c].dataclass \in BOOLEAN /\ Model[c].frozen \in BOOLEAN
        /\ DOMAIN Model[c].fields = 1..Len(Model[c].fields)
        /\ Len(Model[c].fields) \in Nat
        /\ \A i \in DOMAIN Model[c].fields :
              /\ Model[c].fields[i].pk \in {"none", "db", "app"}
              /\ Model[c].fields[i].fks \in Seq(Classes)
ASSUME PlacesAssumption ==
    None \notin Metas \cup Proxies \cup Classes /\ Metas \cap Classes = {}
ASSUME CallsAssumption == MaxCalls \in Nat

VARIABLES
    metas,       \* metas[m]: the TableMeta at m, or None
    cache,       \* meta._cache: the class's live entry, or None
    proxies,     \* proxies[p]: the TableProxy at p, or None
    proxyCache,  \* proxy._proxy_cache: the class's live entry, or None
    held,        \* held[h]: the proxies h refers to
    stack,       \* the TableMeta.__init__ calls under way, innermost last
    signal,      \* what passes between them: a request, a result, an exception
    caller,      \* the TableProxy.__init__ under way, or None
    calls        \* calls left under the bound

registryVars == <<metas, cache, proxies, proxyCache, held, stack, signal, caller, calls>>

Quiet == [kind |-> "none", of |-> None]
Asking(c) == [kind |-> "ask", of |-> c]
Returning(m) == [kind |-> "return", of |-> m]
Raising == [kind |-> "raise", of |-> None]

RegistryInit ==
    /\ metas = [m \in Metas |-> None]
    /\ cache = [c \in Classes |-> None]
    /\ proxies = [p \in Proxies |-> None]
    /\ proxyCache = [c \in Classes |-> None]
    /\ held = [h \in Holders |-> {}]
    /\ stack = <<>>
    /\ signal = Quiet
    /\ caller = None
    /\ calls = MaxCalls

----------------------------------------------------------------------------
(* The class.                                                              *)

Fields(c) == Model[c].fields
KeyFields(c) == {i \in DOMAIN Fields(c) : Fields(c)[i].pk # "none"}
IsFK(f) == f.fks # <<>>

\* _unwrap_optional: X | None is X; wider unions stay as they are.
Unwrapped(type) ==
    IF Cardinality(type \ {NoneType}) = 1 THEN type \ {NoneType} ELSE type

\* _introspect_fields does not raise: a dataclass with exactly one key, which the
\* database can assign, and no field with two targets or with a key and a target.
Structured(c) ==
    /\ Model[c].dataclass
    /\ Cardinality(KeyFields(c)) = 1
    /\ \A i \in DOMAIN Fields(c) : Len(Fields(c)[i].fks) <= 1
    /\ \A i \in KeyFields(c) :
          /\ ~IsFK(Fields(c)[i])
          /\ ~(Fields(c)[i].pk = "db" /\ Model[c].frozen)

KeyType(c) == Fields(c)[CHOOSE i \in KeyFields(c) : TRUE].type

Target(f) == f.fks[1]

\* The comparison of _validate_foreign_keys, for a target that has a key.
Matches(f) == Unwrapped(f.type) = Unwrapped(KeyType(Target(f)))

----------------------------------------------------------------------------
(* TableProxy.                                                             *)

Idle == caller = None
Spend == calls > 0 /\ calls' = calls - 1
Used(slots) == {x \in DOMAIN slots : slots[x] # None}
Room(slots) == Used(slots) # DOMAIN slots
Fresh(slots) == CHOOSE x \in DOMAIN slots : slots[x] = None
Keep(h, p) == held' = [held EXCEPT ![h] = @ \cup {p}]

\* TableProxy(c) of a class that has a proxy: __init__ returns at its guard.
TableCached(h, c) ==
    /\ Idle /\ Spend
    /\ proxyCache[c] # None
    /\ Keep(h, proxyCache[c])
    /\ UNCHANGED <<metas, cache, proxies, proxyCache, stack, signal, caller>>

\* Mutant of TableNew: the new proxy is not put into the cache.
TableNewUncached(h, c) ==
    /\ Idle /\ Spend /\ Room(proxies)
    /\ proxyCache[c] = None
    /\ proxies' = [proxies EXCEPT ![Fresh(proxies)] = [cls |-> c, meta |-> None, alias |-> FALSE]]
    /\ caller' = [holder |-> h, proxy |-> Fresh(proxies)]
    /\ signal' = Asking(c)
    /\ UNCHANGED <<metas, cache, proxyCache, held, stack>>

\* TableProxy(c) of one that has none, up to its call of TableMeta.
TableNew(h, c) ==
    /\ Idle /\ Spend /\ Room(proxies)
    /\ proxyCache[c] = None
    /\ proxies' = [proxies EXCEPT ![Fresh(proxies)] = [cls |-> c, meta |-> None, alias |-> FALSE]]
    /\ proxyCache' = [proxyCache EXCEPT ![c] = Fresh(proxies)]
    /\ caller' = [holder |-> h, proxy |-> Fresh(proxies)]
    /\ signal' = Asking(c)
    /\ UNCHANGED <<metas, cache, held, stack>>

\* TableMeta returned: the columns are stamped on the proxy.
Deliver ==
    /\ ~Idle /\ stack = <<>> /\ signal.kind = "return"
    /\ proxies' = [proxies EXCEPT ![caller.proxy].meta = signal.of]
    /\ Keep(caller.holder, caller.proxy)
    /\ caller' = None
    /\ signal' = Quiet
    /\ UNCHANGED <<metas, cache, proxyCache, stack, calls>>

\* TableMeta raised: the proxy stays in the cache as it is.
Fail ==
    /\ ~Idle /\ stack = <<>> /\ signal.kind = "raise"
    /\ caller' = None
    /\ signal' = Quiet
    /\ UNCHANGED <<metas, cache, proxies, proxyCache, held, stack, calls>>

\* T.AS(name): a proxy beside the cache that shares the TableMeta of T, which
\* a half-built T lacks (AttributeError).
AS(h, p) ==
    /\ Idle /\ Spend /\ Room(proxies)
    /\ p \in held[h]
    /\ proxies[p].meta # None
    /\ proxies' = [proxies EXCEPT ![Fresh(proxies)] = [proxies[p] EXCEPT !.alias = TRUE]]
    /\ Keep(h, Fresh(proxies))
    /\ UNCHANGED <<metas, cache, proxyCache, stack, signal, caller>>

Forget(h, p) ==
    /\ Idle
    /\ p \in held[h]
    /\ held' = [held EXCEPT ![h] = @ \ {p}]
    /\ UNCHANGED <<metas, cache, proxies, proxyCache, stack, signal, caller, calls>>

----------------------------------------------------------------------------
(* TableMeta.                                                              *)

Top == stack[Len(stack)]
TopClass == metas[Top.meta].cls
TopField == Fields(TopClass)[Top.done + 1]
Checked == stack' = [stack EXCEPT ![Len(stack)].done = @ + 1]
Pop == stack' = SubSeq(stack, 1, Len(stack) - 1)

\* __init__ of a cached entry returns at its guard once _initialised is set.
Known(c) == cache[c] # None /\ metas[cache[c]].ready

Hit ==
    /\ signal.kind = "ask" /\ Known(signal.of)
    /\ signal' = Returning(cache[signal.of])
    /\ UNCHANGED <<metas, cache, proxies, proxyCache, held, stack, caller, calls>>

\* Mutant of Introspect: _initialised is set at the end of __init__ (before B9).
IntrospectNotReady ==
    /\ signal.kind = "ask" /\ ~Known(signal.of)
    /\ cache[signal.of] # None \/ Room(metas)
    /\ LET c == signal.of
           m == IF cache[c] # None THEN cache[c] ELSE Fresh(metas)
       IN  /\ metas' = [metas EXCEPT ![m] = [cls |-> c, ready |-> FALSE, built |-> FALSE]]
           /\ cache' = [cache EXCEPT ![c] = m]
           /\ stack' = Append(stack, [meta |-> m, done |-> 0])
           /\ signal' = IF Structured(c) THEN Quiet ELSE Raising
    /\ UNCHANGED <<proxies, proxyCache, held, caller, calls>>

\* __new__ enters the instance; pass 1 discovers the fields and sets _initialised.
Introspect ==
    /\ signal.kind = "ask" /\ ~Known(signal.of)
    /\ cache[signal.of] # None \/ Room(metas)
    /\ LET c == signal.of
           m == IF cache[c] # None THEN cache[c] ELSE Fresh(metas)
       IN  /\ metas' = [metas EXCEPT ![m] = [cls |-> c, ready |-> Structured(c), built |-> FALSE]]
           /\ cache' = [cache EXCEPT ![c] = m]
           /\ stack' = Append(stack, [meta |-> m, done |-> 0])
           /\ signal' = IF Structured(c) THEN Quiet ELSE Raising
    /\ UNCHANGED <<proxies, proxyCache, held, caller, calls>>

Validating == signal = Quiet /\ stack # <<>>

\* Pass 2 looks at the next field: no foreign key, or a target to look up.
NextField ==
    /\ Validating /\ Top.done < Len(Fields(TopClass))
    /\ \/ ~IsFK(TopField) /\ Checked /\ UNCHANGED signal
       \/ IsFK(TopField) /\ signal' = Asking(Target(TopField)) /\ UNCHANGED stack
    /\ UNCHANGED <<metas, cache, proxies, proxyCache, held, caller, calls>>

\* Mutant of CheckTarget: only the referencing side is unwrapped, as it once was.
CheckTargetOneSided ==
    /\ stack # <<>> /\ signal.kind = "return"
    /\ IF Unwrapped(TopField.type) = KeyType(Target(TopField))
       THEN Checked /\ signal' = Quiet
       ELSE signal' = Raising /\ UNCHANGED stack
    /\ UNCHANGED <<metas, cache, proxies, proxyCache, held, caller, calls>>

\* Mutant of CheckTarget: the field is never done with.
CheckTargetAgain ==
    /\ stack # <<>> /\ signal.kind = "return"
    /\ signal' = IF Matches(TopField) THEN Quiet ELSE Raising
    /\ UNCHANGED <<metas, cache, proxies, proxyCache, held, stack, caller, calls>>

CheckTarget ==
    /\ stack # <<>> /\ signal.kind = "return"
    /\ IF Matches(TopField)
       THEN Checked /\ signal' = Quiet
       ELSE signal' = Raising /\ UNCHANGED stack
    /\ UNCHANGED <<metas, cache, proxies, proxyCache, held, caller, calls>>

\* All fields are checked: the row builder is chosen and __init__ returns.
Build ==
    /\ Validating /\ Top.done = Len(Fields(TopClass))
    /\ metas' = [metas EXCEPT ![Top.meta].built = TRUE]
    /\ signal' = Returning(Top.meta)
    /\ Pop
    /\ UNCHANGED <<cache, proxies, proxyCache, held, caller, calls>>

\* Mutant of Evict: the failed entry stays (before S26).
EvictNothing ==
    /\ stack # <<>> /\ signal.kind = "raise"
    /\ Pop
    /\ UNCHANGED <<metas, cache, proxies, proxyCache, held, signal, caller, calls>>

\* S26: the exception passes through __init__, which takes its entry out.  Only
\* a traceback may still refer to the TableMeta: its place is free.
Evict ==
    /\ stack # <<>> /\ signal.kind = "raise"
    /\ metas' = [metas EXCEPT ![Top.meta] = None]
    /\ cache' = [cache EXCEPT ![TopClass] = None]
    /\ Pop
    /\ UNCHANGED <<proxies, proxyCache, held, signal, caller, calls>>

----------------------------------------------------------------------------
(* The garbage collector: the weak entry goes with its object.             *)

ReferredMetas ==
    {proxies[p].meta : p \in Used(proxies)} \cup {stack[i].meta : i \in DOMAIN stack}
    \cup {signal.of}

ReferredProxies ==
    {p \in Proxies : ~Idle /\ p = caller.proxy} \cup UNION {held[h] : h \in Holders}

Without(entries, x) == [c \in Classes |-> IF entries[c] = x THEN None ELSE entries[c]]

CollectMeta(m) ==
    /\ metas[m] # None /\ m \notin ReferredMetas
    /\ metas' = [metas EXCEPT ![m] = None]
    /\ cache' = Without(cache, m)
    /\ UNCHANGED <<proxies, proxyCache, held, stack, signal, caller, calls>>

\* Mutant of CollectProxy: the entry of a collected proxy stays behind.
CollectProxyKeepsEntry(p) ==
    /\ proxies[p] # None /\ p \notin ReferredProxies
    /\ proxies' = [proxies EXCEPT ![p] = None]
    /\ UNCHANGED <<metas, cache, proxyCache, held, stack, signal, caller, calls>>

CollectProxy(p) ==
    /\ proxies[p] # None /\ p \notin ReferredProxies
    /\ proxies' = [proxies EXCEPT ![p] = None]
    /\ proxyCache' = Without(proxyCache, p)
    /\ UNCHANGED <<metas, cache, held, stack, signal, caller, calls>>

----------------------------------------------------------------------------

\* What runs by itself once TableProxy(c) is called.
Construct ==
    \/ Deliver
    \/ Fail
    \/ Hit
    \/ Introspect
    \/ NextField
    \/ CheckTarget
    \/ Build
    \/ Evict

Collect ==
    \/ \E m \in Metas : CollectMeta(m)
    \/ \E p \in Proxies : CollectProxy(p)

Program(h) ==
    \/ \E c \in Classes : TableCached(h, c) \/ TableNew(h, c)
    \/ \E p \in Proxies : AS(h, p) \/ Forget(h, p)

RegistryNext ==
    \/ \E h \in Holders : Program(h)
    \/ Construct
    \/ Collect

\* A synchronous call runs to its end.
RegistrySpec == RegistryInit /\ [][RegistryNext]_registryVars /\ WF_registryVars(Construct)

----------------------------------------------------------------------------

MetaRecords == [cls : Classes, ready : BOOLEAN, built : BOOLEAN]
ProxyRecords == [cls : Classes, meta : Metas \cup {None}, alias : BOOLEAN]
Frames == [meta : Metas, done : Nat]
Callers == [holder : Holders, proxy : Proxies]
ASSUME NoneAssumption == None \notin MetaRecords \cup ProxyRecords \cup Callers
Signals ==
    {Quiet, Raising} \cup {Asking(c) : c \in Classes} \cup {Returning(m) : m \in Metas}

\* The type invariant.  No strong reference dangles, and a weak entry names a
\* live object of its class.
RegistryTypeOK ==
    /\ metas \in [Metas -> MetaRecords \cup {None}]
    /\ cache \in [Classes -> Metas \cup {None}]
    /\ proxies \in [Proxies -> ProxyRecords \cup {None}]
    /\ proxyCache \in [Classes -> Proxies \cup {None}]
    /\ held \in [Holders -> SUBSET Proxies]
    /\ stack \in Seq(Frames)
    /\ signal \in Signals
    /\ caller \in Callers \cup {None}
    /\ calls \in 0..MaxCalls
    /\ ReferredMetas \cap Metas \subseteq Used(metas)
    /\ ReferredProxies \subseteq Used(proxies)
    /\ \A c \in Classes :
          /\ cache[c] # None => cache[c] \in Used(metas) /\ metas[cache[c]].cls = c
          /\ proxyCache[c] # None =>
                proxyCache[c] \in Used(proxies) /\ proxies[proxyCache[c]].cls = c

\* S26, "every cached entry is fully initialised": between calls each entry of
\* meta._cache is a live TableMeta of its class with all it needs, whatever
\* introspections failed half-way and whatever they built on their way.
EveryCachedInitialised ==
    Idle => \A c \in Classes : cache[c] # None =>
        /\ metas[cache[c]] # None
        /\ metas[cache[c]] = [cls |-> c, ready |-> TRUE, built |-> TRUE]

\* "cygnet.Table(X) is cygnet.Table(X)": while anybody refers to the proxy of a
\* class there is no second one, and its aliases and the proxy share one
\* TableMeta, the one later look-ups find, whatever is collected in between.
OnePerClass ==
    \A p, q \in Used(proxies) : proxies[p].cls = proxies[q].cls =>
        /\ ~proxies[p].alias /\ ~proxies[q].alias => p = q
        /\ (proxies[p].meta # None /\ proxies[q].meta # None) =>
              /\ proxies[p].meta = proxies[q].meta
              /\ cache[proxies[p].cls] = proxies[p].meta

\* The classes that are valid models: the largest set whose members pass pass 1
\* and whose foreign keys have the type of the key of a member.
Consistent(S) ==
    \A c \in S : Structured(c) /\ \A i \in DOMAIN Fields(c) :
        IsFK(Fields(c)[i]) => Target(Fields(c)[i]) \in S /\ Matches(Fields(c)[i])

Valid == UNION {IF Consistent(S) THEN S ELSE {} : S \in SUBSET Classes}

Complete(p) == ~(caller # None /\ caller.proxy = p)

\* B9: a valid model, self-referential and mutually referential ones included,
\* is never refused: a proxy whose construction ended without its TableMeta is
\* of an invalid class.
ValidNeverRefused ==
    \A p \in Used(proxies) :
        (Complete(p) /\ proxies[p].meta = None) => proxies[p].cls \notin Valid

\* The classes from which no chain of foreign keys leads round, save to themselves.
Closed(S) ==
    \A c \in Classes :
        (\A i \in DOMAIN Fields(c) :
            IsFK(Fields(c)[i]) => Target(Fields(c)[i]) \in S \cup {c}) => c \in S

Acyclic == {c \in Classes : \A S \in SUBSET Classes : Closed(S) => c \in S}

\* "Cygnet validates the reference at introspection time": a proxy that can be
\* used is of a valid class, or of one on a cycle of foreign keys, where the
\* TableMeta of one class may outlive the failure of another.
InvalidNeverUsable ==
    \A p \in Used(proxies) :
        (proxies[p].meta # None /\ proxies[p].cls \notin Valid) => proxies[p].cls \notin Acyclic

\* B9: introspection never recurses into a class it is introspecting already.
NoRecursion ==
    \A i, j \in DOMAIN stack : metas[stack[i].meta].cls = metas[stack[j].meta].cls => i = j

\* B9: every Table() call ends.
CallsEnd == caller # None ~> caller = None

=============================================================================
