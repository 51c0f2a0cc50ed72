------------------------ MODULE DefaultsCacheProofs ------------------------
(***************************************************************************)
(* That the DEFAULT-column cache never serves what was read before a flush *)
(* to whoever asks after it, for any number of tasks, adapters and tables. *)
(***************************************************************************)
EXTENDS DefaultsCache, TLAPS

Open(t) == look[t] # NoLookup

\* What a flush starts from is never ahead of the database.
FloorPast == \A a \in Adapters, tb \in Tables : floor[a][tb] <= version[tb]

\* A lookup began at or before its adapter's last flush, and one still
\* attached to the live dict began after it, so that its answer is as fresh.
LookupsInv ==
    \A t \in Callers : Open(t) =>
        /\ look[t].since <= floor[look[t].adapter][look[t].table]
        /\ look[t].at \in {"asked", "answered"} => look[t].adapter \in Introspecting
        /\ look[t].at = "answered" =>
              /\ look[t].read \in Versions
              /\ look[t].read >= look[t].since
              /\ look[t].attached =>
                    look[t].read >= floor[look[t].adapter][look[t].table]

CacheIInv ==
    CacheTypeOK /\ FloorPast /\ LookupsInv /\ LiveEntriesFresh /\ ServedFresh /\ FillsKept

LEMMA CacheInitIInv == CacheInit => CacheIInv
BY VersionAssumption DEF CacheInit, CacheIInv, CacheTypeOK, FloorPast, LookupsInv,
   LiveEntriesFresh, ServedFresh, FillsKept, Open, Unknown, NoLookup, Lookups, Versions

\* What the fields of a lookup that is under way are.
LEMMA LookupFields ==
    ASSUME NEW l \in Lookups, l # NoLookup
    PROVE  /\ l.at \in {"asked", "answered", "done"} /\ l.adapter \in Adapters
           /\ l.table \in Tables /\ l.attached \in BOOLEAN
           /\ l.read \in Versions \cup {None} /\ l.since \in Versions
           /\ \A at \in {"answered", "done"}, r \in Versions \cup {None}, b \in BOOLEAN :
                 /\ [l EXCEPT !.at = at] \in Lookups \ {NoLookup}
                 /\ [l EXCEPT !.at = at, !.read = r] \in Lookups \ {NoLookup}
                 /\ [l EXCEPT !.attached = b] \in Lookups \ {NoLookup}
<1>. DEFINE R == [at : {"asked", "answered", "done"}, adapter : Adapters, table : Tables,
                  attached : BOOLEAN, read : Versions \cup {None}, since : Versions]
<1>1. l \in R /\ R \subseteq Lookups
  BY DEF Lookups
<1>2. \A m \in R : m # NoLookup
  <2>1. \A m \in R : m.at # "idle"
    OBVIOUS
  <2>2. NoLookup.at = "idle"
    BY DEF NoLookup
  <2>. QED  BY <2>1, <2>2
<1>3. /\ l.at \in {"asked", "answered", "done"} /\ l.adapter \in Adapters
      /\ l.table \in Tables /\ l.attached \in BOOLEAN
      /\ l.read \in Versions \cup {None} /\ l.since \in Versions
  BY <1>1
<1>4. \A at \in {"answered", "done"}, r \in Versions \cup {None}, b \in BOOLEAN :
         /\ [l EXCEPT !.at = at] \in R
         /\ [l EXCEPT !.at = at, !.read = r] \in R
         /\ [l EXCEPT !.attached = b] \in R
  BY <1>1
<1>. HIDE DEF R
<1>. QED  BY <1>1, <1>2, <1>3, <1>4

LEMMA IdleLookup ==
    ASSUME NEW l \in Lookups
    PROVE  l.at = "idle" <=> l = NoLookup
BY DEF Lookups, NoLookup

LEMMA AskKeeps ==
    ASSUME CacheIInv, NEW t \in Callers, NEW a \in Adapters, NEW tb \in Tables,
           Ask(t, a, tb)
    PROVE  CacheIInv'
<1>. USE DEF CacheIInv
<1>. DEFINE Asks(at, attached, read) ==
         /\ Lookup(t, a, tb, at, attached, read)
         /\ at \in {"asked", "done"} /\ attached \in BOOLEAN
         /\ read \in Versions \cup {None}
         /\ at = "asked" => a \in Introspecting
         /\ at = "done" /\ a \in Introspecting => read = cache[a][tb] /\ cache[a][tb] # None
<1>0. PICK at, attached, read : Asks(at, attached, read)
  <2>1. cache[a][tb] \in Versions \cup {None}
    BY DEF CacheTypeOK
  <2>2. CASE Lookup(t, a, tb, "done", FALSE, None) /\ a \notin Introspecting
    <3>. Asks("done", FALSE, None)
      BY <2>2
    <3>. QED  OBVIOUS
  <2>3. CASE Lookup(t, a, tb, "asked", FALSE, None) /\ a \in Introspecting
    <3>. Asks("asked", FALSE, None)
      BY <2>3
    <3>. QED  OBVIOUS
  <2>4. CASE Lookup(t, a, tb, "done", FALSE, cache[a][tb]) /\ cache[a][tb] # None
    <3>. Asks("done", FALSE, cache[a][tb])
      BY <2>1, <2>4
    <3>. QED  OBVIOUS
  <2>5. CASE Lookup(t, a, tb, "asked", TRUE, None) /\ a \in Introspecting
    <3>. Asks("asked", TRUE, None)
      BY <2>5
    <3>. QED  OBVIOUS
  <2>. QED  BY <2>2, <2>3, <2>4, <2>5 DEF Ask
<1>1. Asks(at, attached, read)!:
  BY <1>0
<1>2. UNCHANGED <<version, cache, floor, filled>>
  BY DEF Ask
<1>. DEFINE new == [at |-> at, adapter |-> a, table |-> tb, attached |-> attached,
                    read |-> read, since |-> floor[a][tb]]
<1>3. new \in Lookups /\ floor[a][tb] \in Versions
  BY <1>1 DEF CacheTypeOK, Lookups
<1>4. look' = [look EXCEPT ![t] = new]
  BY <1>1 DEF Lookup
<1>5. \A u \in Callers : look'[u] = IF u = t THEN new ELSE look[u]
  BY <1>4 DEF CacheTypeOK
<1>6. CacheTypeOK'
  BY <1>2, <1>3, <1>4 DEF CacheTypeOK
<1>7. LookupsInv'
  BY <1>1, <1>2, <1>3, <1>5 DEF LookupsInv, Open, Versions
<1>8. ServedFresh'
  BY <1>1, <1>2, <1>3, <1>5, VersionAssumption
  DEF ServedFresh, LiveEntriesFresh, CacheTypeOK, Versions
<1>. QED  BY <1>2, <1>6, <1>7, <1>8 DEF FloorPast, LiveEntriesFresh, FillsKept

LEMMA AnswerKeeps ==
    ASSUME CacheIInv, NEW t \in Callers, Answer(t)
    PROVE  CacheIInv'
<1>. USE DEF CacheIInv
<1>. DEFINE l == look[t]
            r == version[l.table]
            new == [l EXCEPT !.at = "answered", !.read = r]
<1>1. UNCHANGED <<version, cache, floor, filled>> /\ l.at = "asked"
  BY DEF Answer
<1>2. l \in Lookups /\ l # NoLookup
  BY <1>1 DEF CacheTypeOK, NoLookup
<1>3. /\ l.adapter \in Adapters /\ l.table \in Tables
      /\ l.since \in Versions /\ r \in Versions
      /\ new \in Lookups /\ new # NoLookup
  BY <1>2, LookupFields DEF CacheTypeOK
<1>4. look' = [look EXCEPT ![t] = new]
  BY DEF Answer
<1>5. /\ new.at = "answered" /\ new.read = r /\ new.since = l.since
      /\ new.adapter = l.adapter /\ new.table = l.table
  BY <1>2 DEF Lookups, NoLookup
<1>6. \A u \in Callers : look'[u] = IF u = t THEN new ELSE look[u]
  BY <1>4 DEF CacheTypeOK
<1>7. CacheTypeOK'
  BY <1>1, <1>3, <1>4 DEF CacheTypeOK
<1>8. floor[l.adapter][l.table] \in Nat /\ l.since \in Nat /\ r \in Nat
  BY <1>3 DEF CacheTypeOK, Versions
<1>9. /\ l.since <= floor[l.adapter][l.table] /\ floor[l.adapter][l.table] <= r
      /\ l.adapter \in Introspecting
  BY <1>1, <1>2, <1>3 DEF LookupsInv, FloorPast, Open
<1>. HIDE DEF new, r, l
<1>10. LookupsInv'
  <2>. SUFFICES ASSUME NEW u \in Callers, Open(u)'
                PROVE  LookupsInv!(u)!2'
    BY DEF LookupsInv
  <2>1. CASE u = t
    BY <2>1, <1>1, <1>3, <1>5, <1>6, <1>8, <1>9
  <2>2. CASE u # t
    BY <2>2, <1>1, <1>6 DEF LookupsInv, Open
  <2>. QED  BY <2>1, <2>2
<1>11. ServedFresh'
  BY <1>1, <1>5, <1>6 DEF ServedFresh
<1>. QED  BY <1>1, <1>7, <1>10, <1>11 DEF FloorPast, LiveEntriesFresh, FillsKept

LEMMA AskFailsKeepsIInv ==
    ASSUME CacheIInv, NEW t \in Callers, AskFails(t)
    PROVE  CacheIInv'
<1>1. \A u \in Callers : look'[u] = IF u = t THEN NoLookup ELSE look[u]
  BY DEF AskFails, CacheIInv, CacheTypeOK
<1>. QED  BY <1>1 DEF AskFails, CacheIInv, CacheTypeOK, FloorPast, LookupsInv, Open,
     LiveEntriesFresh, ServedFresh, FillsKept, NoLookup, Lookups

LEMMA TakeKeeps ==
    ASSUME CacheIInv, NEW t \in Callers, Take(t)
    PROVE  CacheIInv'
<1>1. \A u \in Callers : look'[u] = IF u = t THEN NoLookup ELSE look[u]
  BY DEF Take, CacheIInv, CacheTypeOK
<1>. QED  BY <1>1 DEF Take, CacheIInv, CacheTypeOK, FloorPast, LookupsInv, Open,
     LiveEntriesFresh, ServedFresh, FillsKept, NoLookup, Lookups

LEMMA FillKeeps ==
    ASSUME CacheIInv, NEW t \in Callers, Fill(t)
    PROVE  CacheIInv'
<1>. USE DEF CacheIInv
<1>. DEFINE l == look[t]
            new == [l EXCEPT !.at = "done"]
<1>1. UNCHANGED <<version, floor>> /\ l.at = "answered"
  BY DEF Fill
<1>2. l \in Lookups /\ l # NoLookup
  BY <1>1 DEF CacheTypeOK, NoLookup
<1>3. /\ l.adapter \in Adapters /\ l.table \in Tables
      /\ new \in Lookups /\ new # NoLookup
  BY <1>2, LookupFields
<1>4. /\ new.at = "done" /\ new.read = l.read /\ new.since = l.since
      /\ new.adapter = l.adapter /\ new.table = l.table
  BY <1>2 DEF Lookups, NoLookup
<1>5. look' = [look EXCEPT ![t] = new]
  BY DEF Fill
<1>6. \A u \in Callers : look'[u] = IF u = t THEN new ELSE look[u]
  BY <1>5 DEF CacheTypeOK
<1>7. /\ l.read \in Versions /\ l.read >= l.since
      /\ l.since <= floor[l.adapter][l.table]
      /\ l.attached => l.read >= floor[l.adapter][l.table]
  BY <1>1, <1>2 DEF LookupsInv, Open
<1>. HIDE DEF new, l
<1>8. /\ cache' \in [Adapters -> [Tables -> Versions \cup {None}]]
      /\ filled' \subseteq Adapters \X Tables
      /\ \A a \in Adapters, tb \in Tables :
            \/ cache'[a][tb] = cache[a][tb]
            \/ a = l.adapter /\ tb = l.table /\ l.attached /\ cache'[a][tb] = l.read
      /\ \A p \in filled' : p \in filled \/ cache'[p[1]][p[2]] = l.read
  <2>1. CASE l.attached
    <3>1. /\ cache' = [cache EXCEPT ![l.adapter][l.table] = l.read]
          /\ filled' = filled \cup {<<l.adapter, l.table>>}
      BY <2>1 DEF Fill, l
    <3>. QED  BY <1>3, <1>7, <2>1, <3>1 DEF CacheTypeOK
  <2>2. CASE ~l.attached
    <3>1. UNCHANGED <<cache, filled>>
      BY <2>2 DEF Fill, l
    <3>. QED  BY <3>1 DEF CacheTypeOK
  <2>. QED  BY <2>1, <2>2
<1>9. CacheTypeOK'
  BY <1>1, <1>3, <1>5, <1>8 DEF CacheTypeOK
<1>10. FloorPast'
  BY <1>1 DEF FloorPast
<1>11. LookupsInv'
  BY <1>1, <1>3, <1>4, <1>6, <1>7 DEF LookupsInv, Open
<1>12. LiveEntriesFresh'
  BY <1>1, <1>7, <1>8 DEF LiveEntriesFresh
<1>13. ServedFresh'
  BY <1>4, <1>6, <1>7 DEF ServedFresh
<1>14. None \notin Versions
  BY VersionAssumption DEF Versions
<1>15. FillsKept'
  <2>. SUFFICES ASSUME NEW p \in filled' PROVE cache'[p[1]][p[2]] # None
    BY DEF FillsKept
  <2>1. CASE cache'[p[1]][p[2]] = l.read
    BY <2>1, <1>7, <1>14
  <2>2. CASE p \in filled
    BY <2>2, <2>1, <1>8 DEF FillsKept, CacheTypeOK
  <2>. QED  BY <1>8, <2>1, <2>2
<1>. QED  BY <1>9, <1>10, <1>11, <1>12, <1>13, <1>15

LEMMA EvictKeeps ==
    ASSUME CacheIInv, NEW S \in SUBSET Adapters, Evict(S),
           Detach(S) \/ (UNCHANGED look /\ \A t \in Callers : look[t].adapter \notin S)
    PROVE  CacheIInv'
<1>. USE DEF CacheIInv
<1>1. \A t \in Callers :
        LET new == [look[t] EXCEPT !.attached = FALSE] IN
        \/ look'[t] = look[t] /\ look[t].adapter \notin S
        \/ look'[t] = new /\ look[t].adapter \in S
  BY DEF Detach
<1>2. \A t \in Callers : look[t].adapter \in S => look[t] # NoLookup
  BY AdaptersAssumption DEF NoLookup
<1>12. \A t \in Callers :
         look[t].adapter \in S => [look[t] EXCEPT !.attached = FALSE] \in Lookups \ {NoLookup}
  BY <1>2, LookupFields DEF CacheTypeOK
<1>3. look' \in [Callers -> Lookups]
  BY <1>12 DEF Detach, CacheTypeOK
<1>4. /\ UNCHANGED version
      /\ \A a \in Adapters, tb \in Tables :
            /\ cache'[a][tb] = IF a \in S THEN None ELSE cache[a][tb]
            /\ floor'[a][tb] = IF a \in S THEN version[tb] ELSE floor[a][tb]
      /\ filled' = {p \in filled : p[1] \notin S}
  BY DEF Evict, Unknown, CacheTypeOK
<1>5. CacheTypeOK'
  BY <1>3, <1>4 DEF Evict, Unknown, CacheTypeOK
<1>6. FloorPast'
  BY <1>4 DEF FloorPast, CacheTypeOK, Versions
<1>7. \A t \in Callers : Open(t)' =>
        /\ Open(t) /\ look[t] \in Lookups
        /\ look'[t].at = look[t].at /\ look'[t].adapter = look[t].adapter
        /\ look'[t].table = look[t].table /\ look'[t].read = look[t].read
        /\ look'[t].since = look[t].since
        /\ look'[t].attached => look[t].attached /\ look[t].adapter \notin S
  <2>. SUFFICES ASSUME NEW t \in Callers, Open(t)'
                PROVE  <1>7!(t)!2
    OBVIOUS
  <2>1. Open(t) /\ look[t] \in Lookups
    BY <1>1, <1>2 DEF Open, CacheTypeOK
  <2>2. CASE look'[t] = [look[t] EXCEPT !.attached = FALSE] /\ look[t].adapter \in S
    BY <2>1, <2>2 DEF Lookups, NoLookup, Open
  <2>3. CASE look'[t] = look[t] /\ look[t].adapter \notin S
    BY <2>1, <2>3
  <2>. QED  BY <1>1, <2>2, <2>3
<1>8. LookupsInv'
  <2>. SUFFICES ASSUME NEW t \in Callers, Open(t)'
                PROVE  LookupsInv!(t)!2'
    BY DEF LookupsInv
  <2>1. look[t].adapter \in Adapters /\ look[t].table \in Tables /\ look[t].since \in Versions
    BY <1>7, LookupFields DEF Open
  <2>2. look[t].since <= version[look[t].table]
    BY <2>1, <1>7 DEF LookupsInv, FloorPast, CacheTypeOK, Versions
  <2>. QED  BY <2>1, <2>2, <1>4, <1>7 DEF LookupsInv
<1>9. LiveEntriesFresh'
  BY <1>4 DEF LiveEntriesFresh
<1>10. ServedFresh'
  BY <1>7, IdleLookup, <1>3 DEF ServedFresh, Open, CacheTypeOK, NoLookup
<1>11. FillsKept'
  BY <1>4 DEF FillsKept, CacheTypeOK
<1>. QED  BY <1>5, <1>6, <1>8, <1>9, <1>10, <1>11

LEMMA MigrateKeeps ==
    ASSUME CacheIInv, NEW tb \in Tables, Migrate(tb)
    PROVE  CacheIInv'
<1>1. version' \in [Tables -> Versions] /\ \A x \in Tables : version'[x] >= version[x]
  BY VersionAssumption DEF Migrate, CacheIInv, CacheTypeOK, Versions
<1>2. FloorPast'
  BY <1>1 DEF Migrate, CacheIInv, CacheTypeOK, FloorPast, Versions
<1>. QED  BY <1>1, <1>2 DEF Migrate, CacheIInv, CacheTypeOK, LookupsInv, Open,
     LiveEntriesFresh, ServedFresh, FillsKept

----------------------------------------------------------------------------

LEMMA CacheStep == CacheIInv /\ [CacheNext]_cacheVars => CacheIInv'
<1>. SUFFICES ASSUME CacheIInv, [CacheNext]_cacheVars PROVE CacheIInv'
  OBVIOUS
<1>1. ASSUME NEW t \in Callers, NEW a \in Adapters, NEW tb \in Tables, Ask(t, a, tb)
      PROVE  CacheIInv'
  BY <1>1, AskKeeps
<1>2. ASSUME NEW t \in Callers, Answer(t) \/ AskFails(t) \/ Fill(t) \/ Take(t)
      PROVE  CacheIInv'
  BY <1>2, AnswerKeeps, AskFailsKeepsIInv, FillKeeps, TakeKeeps
<1>3. ASSUME NEW a \in Adapters, Flush(a) \/ Collect(a)
      PROVE  CacheIInv'
  BY <1>3, EvictKeeps, {a} \in SUBSET Adapters DEF Flush, Collect
<1>4. ASSUME FlushAll PROVE CacheIInv'
  BY <1>4, EvictKeeps DEF FlushAll
<1>5. ASSUME NEW tb \in Tables, Migrate(tb) PROVE CacheIInv'
  BY <1>5, MigrateKeeps
<1>6. CASE UNCHANGED cacheVars
  BY <1>6 DEF cacheVars, CacheIInv, CacheTypeOK, FloorPast, LookupsInv, Open,
     LiveEntriesFresh, ServedFresh, FillsKept
<1>. QED  BY <1>1, <1>2, <1>3, <1>4, <1>5, <1>6 DEF CacheNext, CacheEnvironment

\* The inductive invariant holds of every behaviour of the cache.
THEOREM CacheInvariance == CacheSpec => []CacheIInv
BY CacheInitIInv, CacheStep, PTL DEF CacheSpec

\* _get_defaulted_columns: the live cache never holds what was read before the
\* last flush of its adapter, whatever lookups were under way at the flush.
THEOREM CacheFresh == CacheSpec => []LiveEntriesFresh
<1>1. CacheIInv => LiveEntriesFresh
  BY DEF CacheIInv
<1>. QED  BY <1>1, CacheInvariance, PTL

\* ... and what it returns is no older than the flush that came before it.
THEOREM LookupFresh == CacheSpec => []ServedFresh
<1>1. CacheIInv => ServedFresh
  BY DEF CacheIInv
<1>. QED  BY <1>1, CacheInvariance, PTL

\* S29: a concurrent first lookup never discards an entry of another.
THEOREM NoFillLost == CacheSpec => []FillsKept
<1>1. CacheIInv => FillsKept
  BY DEF CacheIInv
<1>. QED  BY <1>1, CacheInvariance, PTL

\* The lookups, the live dicts and the history of fills keep their shape through
\* every interleaving of lookups, flushes and collections.
THEOREM CacheTypes == CacheSpec => []CacheTypeOK
<1>1. CacheIInv => CacheTypeOK
  BY DEF CacheIInv
<1>. QED  BY <1>1, CacheInvariance, PTL

----------------------------------------------------------------------------
(* What was read is never newer than the schema: with ServedFresh, a lookup *)
(* of a table that was not migrated since the flush returns what the schema *)
(* says now.                                                                *)

NeverAhead ==
    /\ \A a \in Adapters, tb \in Tables : cache[a][tb] # None => cache[a][tb] <= version[tb]
    /\ \A t \in Callers : look[t].read # None => look[t].read <= version[look[t].table]

LEMMA AheadInit == CacheInit => NeverAhead
  BY DEF CacheInit, NeverAhead, Unknown, NoLookup

LEMMA AskNotAhead ==
    ASSUME CacheTypeOK, NeverAhead, NEW t \in Callers, NEW a \in Adapters, NEW tb \in Tables,
           Ask(t, a, tb)
    PROVE  NeverAhead'
<1>. DEFINE Reads(at, attached, read) ==
         Lookup(t, a, tb, at, attached, read) /\ (read = None \/ read = cache[a][tb])
<1>1. PICK at, attached, read : Reads(at, attached, read)
  <2>1. \/ Reads("done", FALSE, None) \/ Reads("asked", FALSE, None)
        \/ Reads("done", FALSE, cache[a][tb]) \/ Reads("asked", TRUE, None)
    BY DEF Ask
  <2>. HIDE DEF Reads
  <2>. QED  BY <2>1
<1>. DEFINE l == [at |-> at, adapter |-> a, table |-> tb, attached |-> attached,
                  read |-> read, since |-> floor[a][tb]]
<1>2. \A u \in Callers : look'[u] = IF u = t THEN l ELSE look[u]
  BY <1>1 DEF Lookup, CacheTypeOK
<1>3. l.read = read /\ l.table = tb
  OBVIOUS
<1>. HIDE DEF l
<1>4. \A u \in Callers : look'[u].read # None => look'[u].read <= version[look'[u].table]
  BY <1>1, <1>2, <1>3 DEF NeverAhead
<1>. QED  BY <1>4 DEF NeverAhead, Ask

LEMMA FlushNotAhead ==
    ASSUME CacheTypeOK, NeverAhead, NEW S \in SUBSET Adapters, Evict(S),
           Detach(S) \/ UNCHANGED look
    PROVE  NeverAhead'
<1>1. \A t \in Callers : look'[t].read = look[t].read /\ look'[t].table = look[t].table
  BY DEF Detach, CacheTypeOK, Lookups, NoLookup
<1>2. \A a \in Adapters, tb \in Tables : cache'[a][tb] = IF a \in S THEN None ELSE cache[a][tb]
  BY DEF Evict, Unknown, CacheTypeOK
<1>. QED  BY <1>1, <1>2 DEF Evict, NeverAhead

LEMMA AheadStep == CacheIInv /\ NeverAhead /\ [CacheNext]_cacheVars => NeverAhead'
<1>. SUFFICES ASSUME CacheIInv, NeverAhead, [CacheNext]_cacheVars PROVE NeverAhead'
  OBVIOUS
<1>0. CacheTypeOK
  BY DEF CacheIInv
<1>1. ASSUME NEW t \in Callers, NEW a \in Adapters, NEW tb \in Tables, Ask(t, a, tb)
      PROVE  NeverAhead'
  BY <1>0, <1>1, AskNotAhead
<1>2. ASSUME NEW t \in Callers, Answer(t)
      PROVE  NeverAhead'
  <2>1. look[t] \in Lookups /\ look[t] # NoLookup
    BY <1>0, <1>2 DEF Answer, CacheTypeOK, NoLookup
  <2>2. /\ look'[t].read = version[look[t].table] /\ look'[t].table = look[t].table
        /\ version[look[t].table] \in Versions
        /\ \A u \in Callers : u # t => look'[u] = look[u]
    BY <1>0, <1>2, <2>1 DEF Answer, CacheTypeOK, Lookups
  <2>3. version[look[t].table] <= version[look[t].table]
    BY <2>2 DEF Versions
  <2>. QED  BY <1>2, <2>2, <2>3 DEF Answer, NeverAhead
<1>3. ASSUME NEW t \in Callers, AskFails(t) \/ Take(t)
      PROVE  NeverAhead'
  BY <1>0, <1>3 DEF AskFails, Take, NeverAhead, CacheTypeOK, NoLookup
<1>4. ASSUME NEW t \in Callers, Fill(t)
      PROVE  NeverAhead'
  <2>1. look[t] \in Lookups /\ look[t] # NoLookup
    BY <1>0, <1>4 DEF Fill, CacheTypeOK, NoLookup
  <2>2. /\ look[t].adapter \in Adapters /\ look[t].table \in Tables
        /\ look'[t].read = look[t].read /\ look'[t].table = look[t].table
        /\ \A u \in Callers : u # t => look'[u] = look[u]
    BY <1>0, <1>4, <2>1 DEF Fill, CacheTypeOK, Lookups
  <2>3. \A a \in Adapters, tb \in Tables :
            \/ cache'[a][tb] = cache[a][tb]
            \/ tb = look[t].table /\ cache'[a][tb] = look[t].read
    BY <1>0, <1>4, <2>2 DEF Fill, CacheTypeOK
  <2>. QED  BY <1>4, <2>2, <2>3 DEF Fill, NeverAhead
<1>5. ASSUME NEW a \in Adapters, Flush(a) \/ Collect(a)
      PROVE  NeverAhead'
  BY <1>0, <1>5, FlushNotAhead, {a} \in SUBSET Adapters DEF Flush, Collect
<1>6. CASE FlushAll
  BY <1>0, <1>6, FlushNotAhead DEF FlushAll
<1>7. ASSUME NEW tb \in Tables, Migrate(tb)
      PROVE  NeverAhead'
  <2>1. /\ \A x \in Tables : version[x] \in Nat /\ version'[x] \in Nat /\ version[x] <= version'[x]
        /\ UNCHANGED <<cache, look>>
    BY <1>0, <1>7, VersionAssumption DEF Migrate, CacheTypeOK, Versions
  <2>2. ASSUME NEW a \in Adapters, NEW x \in Tables, cache[a][x] # None
        PROVE  cache[a][x] <= version'[x]
    <3>1. cache[a][x] \in Nat /\ cache[a][x] <= version[x]
      BY <1>0, <2>2 DEF CacheTypeOK, NeverAhead, Versions
    <3>. QED  BY <2>1, <3>1
  <2>3. ASSUME NEW t \in Callers, look[t].read # None
        PROVE  look[t].read <= version'[look[t].table]
    <3>1. look[t].table \in Tables /\ look[t].read \in Nat
      <4>1. look[t] \in Lookups /\ look[t] # NoLookup
        BY <1>0, <2>3 DEF CacheTypeOK, NoLookup
      <4>2. look[t].table \in Tables /\ look[t].read \in Versions
        BY <2>3, <4>1, LookupFields
      <4>. QED  BY <4>2 DEF Versions
    <3>2. look[t].read <= version[look[t].table]
      BY <2>3 DEF NeverAhead
    <3>. QED  BY <2>1, <3>1, <3>2
  <2>. QED  BY <2>1, <2>2, <2>3 DEF NeverAhead
<1>8. CASE UNCHANGED cacheVars
  BY <1>8 DEF cacheVars, NeverAhead
<1>. QED  BY <1>1, <1>2, <1>3, <1>4, <1>5, <1>6, <1>7, <1>8 DEF CacheNext, CacheEnvironment

\* Neither the cache nor a lookup holds DEFAULT clauses of a schema that the
\* database has yet to be migrated to, so that what it holds after a flush can
\* only be wrong by a migration that came later still.
THEOREM CacheBehind == CacheSpec => []NeverAhead
BY CacheInvariance, AheadInit, AheadStep, PTL DEF CacheSpec

=============================================================================
