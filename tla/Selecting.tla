----------------------------- MODULE Selecting -----------------------------
(***************************************************************************)
(* Reading objects: a SelectBuilder (src/cygnet/builders.py) collects a    *)
(* FROM table and joins; awaiting or streaming it renders the statement,   *)
(* the server joins the rows, and _row_mapper (src/cygnet/executor.py)     *)
(* cuts each flat row into one object per table, None where an outer join  *)
(* missed.  A builder is mutable and tasks may share it: an await maps the *)
(* rows by what the builder says after the statement ran, a stream by what *)
(* it said before.  Rows that are equal are told apart by nothing here, so *)
(* a result is a set.                                                      *)
(***************************************************************************)
EXTENDS Naturals, SequencesExt

CONSTANTS
    Readers,      \* tasks that run the query
    Tables,       \* table proxies, aliases included
    Derived,      \* CTEs and LATERAL subqueries: no key, no class to build
    Width,        \* Width[s]: how many columns source s has
    KeyAt,        \* KeyAt[s]: the position of table s's primary key
    Rows,         \* Rows[s]: its rows, sequences of values
    None,         \* Python's None, SQL's NULL
    Raises,       \* mapping a row raises
    MaxCalls      \* bound: calls of the builder's methods

ASSUME SourcesAssumption == Tables \cap Derived = {} /\ None \notin Tables \cup Derived
ASSUME RowsAssumption ==
    \A s \in Tables \cup Derived :
        /\ Width[s] \in Nat \ {0}
        /\ \A r \in Rows[s] : r # None /\ r \in Seq(ToSet(r)) /\ Len(r) = Width[s]
ASSUME KeyAssumption == \A s \in Tables : KeyAt[s] \in 1..Width[s]
ASSUME CallsAssumption == MaxCalls \in Nat

VARIABLES
    query,   \* the builder: its columns, FROM table and joins
    reader,  \* reader[t]: task t's execution
    calls    \* builder calls left under the bound

vars == <<query, reader, calls>>

Sources == Tables \cup Derived
Kinds == {"INNER", "LEFT", "RIGHT", "FULL"}

Resting == [at |-> "idle", mode |-> "none", sent |-> None, plan |-> None,
            rows |-> {}, got |-> {}]

Init ==
    /\ query \in [columnar : BOOLEAN, from : {None}, joins : {<<>>}]
    /\ reader = [t \in Readers |-> Resting]
    /\ calls = MaxCalls

----------------------------------------------------------------------------
(* The builder.  ON compares a column of an earlier source with one of the *)
(* joined source: on is the set of pairs of rows for which it holds.       *)

Named(q) == <<q.from>> \o [k \in 1..Len(q.joins) |-> q.joins[k].source]

Call == calls > 0 /\ calls' = calls - 1 /\ UNCHANGED reader

FROM(s) ==
    /\ Call
    /\ query' = [query EXCEPT !.from = s]

\* JOIN, LEFT_JOIN, RIGHT_JOIN and FULL_JOIN; FOLLOW and LEFT_FOLLOW with the
\* foreign key's condition; JOIN_LATERAL and LEFT_JOIN_LATERAL of a derived one.
\* Programs name FROM first and join a source once; FROM may be replaced later.
JOIN(kind, s, to, on) ==
    /\ Call
    /\ query.from # None /\ s \notin ToSet(Named(query)) /\ to \in ToSet(Named(query))
    /\ query' = [query EXCEPT !.joins =
          Append(@, [kind |-> kind, source |-> s, to |-> to, on |-> on])]

----------------------------------------------------------------------------
(* The server: it joins from left to right.                                *)

\* A source is named once, and ON refers to sources named before it.
Legal(q) ==
    LET s == Named(q)
    IN  /\ \A i, j \in 1..Len(s) : s[i] = s[j] => i = j
        /\ \A k \in 1..Len(q.joins) : \E i \in 1..k : s[i] = q.joins[k].to

\* The rows of left joined to those of one more source; None is "no row".
Extended(q, left, k) ==
    LET join == q.joins[k]
        to == CHOOSE i \in 1..k : Named(q)[i] = join.to
        Holds(l, r) == l[to] # None /\ <<l[to], r>> \in join.on
        right == Rows[join.source]
    IN  {Append(p[1], p[2]) : p \in {x \in left \X right : Holds(x[1], x[2])}}
        \cup (IF join.kind \in {"LEFT", "FULL"}
              THEN {Append(l, None) : l \in {x \in left : \A r \in right : ~Holds(x, r)}}
              ELSE {})
        \cup (IF join.kind \in {"RIGHT", "FULL"}
              THEN {Append([i \in 1..k |-> None], r) :
                       r \in {x \in right : \A l \in left : ~Holds(l, x)}}
              ELSE {})

Joined(q) ==
    LET upto[k \in 0..Len(q.joins)] ==
            IF k = 0 THEN {<<r>> : r \in Rows[q.from]} ELSE Extended(q, upto[k - 1], k)
    IN  upto[Len(q.joins)]

\* What comes over the wire: the columns of all sources, one after the other.
Flat(q, tuple) ==
    FlattenSeq([k \in 1..Len(tuple) |->
        IF tuple[k] = None THEN [c \in 1..Width[Named(q)[k]] |-> None] ELSE tuple[k]])

----------------------------------------------------------------------------
(* _row_mapper.                                                            *)

\* Mutant of CanMiss: only LEFT makes the joined side optional.
CanMissLeftOnly(q, k) ==
    IF k = 1 THEN \E j \in 1..Len(q.joins) : q.joins[j].kind \in {"RIGHT", "FULL"}
    ELSE q.joins[k - 1].kind = "LEFT"

\* Which sides may be None: FROM's when any join is RIGHT or FULL, a joined
\* one's by its own join alone.
CanMiss(q, k) ==
    IF k = 1 THEN \E j \in 1..Len(q.joins) : q.joins[j].kind \in {"RIGHT", "FULL"}
    ELSE q.joins[k - 1].kind \in {"LEFT", "FULL"}

\* Mutant of Start: the slices do not skip the FROM table's columns.
StartAfterFrom(q, k) ==
    LET at[i \in 1..k] == IF i <= 2 THEN 0 ELSE at[i - 1] + Width[Named(q)[i - 1]]
    IN  at[k]

Start(q, k) ==
    LET at[i \in 1..k] == IF i = 1 THEN 0 ELSE at[i - 1] + Width[Named(q)[i - 1]]
    IN  at[k]

\* A Python slice stops at the end of the row.
Chunk(q, row, k) ==
    LET stop == Start(q, k) + Width[Named(q)[k]]
    IN  SubSeq(row, Start(q, k) + 1, IF stop <= Len(row) THEN stop ELSE Len(row))

\* meta.row_builder: a derived source has none, and the arity must be right.
Built(s, chunk) ==
    IF s \in Derived \/ Len(chunk) # Width[s] THEN Raises ELSE [source |-> s, values |-> chunk]

\* _object_or_none_if_miss.
ObjectOrNone(s, chunk, canMiss) ==
    IF ~canMiss THEN Built(s, chunk)
    ELSE IF s \in Derived
    THEN IF \A c \in 1..Len(chunk) : chunk[c] = None THEN None ELSE Built(s, chunk)
    ELSE IF KeyAt[s] > Len(chunk) THEN Raises
    ELSE IF chunk[KeyAt[s]] = None THEN None ELSE Built(s, chunk)

\* The objects of one row; for explicit columns the row as it is.
Mapped(q, row) ==
    IF q.columnar THEN row
    ELSE IF q.joins = <<>> THEN <<Built(q.from, row)>>
    ELSE [k \in 1..Len(q.joins) + 1 |->
             ObjectOrNone(Named(q)[k], Chunk(q, row, k), CanMiss(q, k))]

Fails(objects) == \E k \in 1..Len(objects) : objects[k] = Raises

\* Building the mapper of a simple query reads row_builder.
HasMapper(q) == q.columnar \/ q.joins # <<>> \/ q.from \in Tables

----------------------------------------------------------------------------
(* Running it.                                                             *)

Set(t, state) == reader' = [reader EXCEPT ![t] = state] /\ UNCHANGED <<query, calls>>

\* run_select up to its await.
Await(t) ==
    /\ reader[t].at = "idle" /\ query.from # None
    /\ Set(t, [Resting EXCEPT !.at = "sent", !.mode = "await", !.sent = query])

\* stream_select up to its first row: it builds the mapper first.
Stream(t) ==
    /\ reader[t].at = "idle" /\ query.from # None
    /\ Set(t, IF HasMapper(query)
              THEN [Resting EXCEPT !.at = "sent", !.mode = "stream",
                                   !.sent = query, !.plan = query]
              ELSE Resting)

Serve(t) ==
    /\ reader[t].at = "sent" /\ Legal(reader[t].sent)
    /\ Set(t, [reader[t] EXCEPT !.at = "served", !.rows = Joined(reader[t].sent)])

\* The server refuses the statement, or the connection breaks.
Refuse(t) ==
    /\ reader[t].at \in {"sent", "served"}
    /\ Set(t, Resting)

\* Mutant of Return: the execution does not end.
ReturnKeepsRows(t) ==
    /\ reader[t].at = "served" /\ reader[t].mode = "await"
    /\ Set(t, [reader[t] EXCEPT !.at = "mapped", !.plan = query])

\* run_select after its await maps all rows, by the builder as it is now.
Return(t) ==
    /\ reader[t].at = "served" /\ reader[t].mode = "await"
    /\ LET Map(tuple) == Mapped(query, Flat(reader[t].sent, tuple))
       IN  Set(t, IF HasMapper(query) /\ \A x \in reader[t].rows : ~Fails(Map(x))
                  THEN [reader[t] EXCEPT !.at = "done", !.plan = query, !.rows = {},
                                         !.got = {<<x, Map(x)>> : x \in reader[t].rows}]
                  ELSE Resting)

\* Mutant of Yield: it asks the builder for each row.
YieldLate(t) ==
    /\ reader[t].at = "served" /\ reader[t].mode = "stream"
    /\ \E x \in reader[t].rows :
          Set(t, [reader[t] EXCEPT
                     !.rows = @ \ {x},
                     !.got = @ \cup {<<x, Mapped(query, Flat(reader[t].sent, x))>>}])

\* stream_select hands out one row; the consumer runs before the next.
Yield(t) ==
    /\ reader[t].at = "served" /\ reader[t].mode = "stream"
    /\ \E x \in reader[t].rows :
          LET objects == Mapped(reader[t].plan, Flat(reader[t].sent, x))
          IN  Set(t, IF Fails(objects) THEN Resting
                     ELSE [reader[t] EXCEPT !.rows = @ \ {x}, !.got = @ \cup {<<x, objects>>}])

\* The stream is exhausted, or its consumer breaks off.
Leave(t) ==
    /\ reader[t].at = "served" /\ reader[t].mode = "stream"
    /\ Set(t, [reader[t] EXCEPT !.at = "done", !.rows = {}])

\* The task may run the builder again.
Again(t) ==
    /\ reader[t].at = "done"
    /\ Set(t, Resting)

Next ==
    \/ \E s \in Sources : FROM(s)
    \/ \E kind \in Kinds, s, to \in Sources : \E on \in SUBSET (Rows[to] \X Rows[s]) :
          JOIN(kind, s, to, on)
    \/ \E t \in Readers :
          \/ Await(t) \/ Stream(t) \/ Serve(t) \/ Refuse(t)
          \/ Return(t) \/ Yield(t) \/ Leave(t) \/ Again(t)

Spec == Init /\ [][Next]_vars

----------------------------------------------------------------------------

Queries == [columnar : BOOLEAN, from : Sources \cup {None},
            joins : Seq([kind : Kinds, source : Sources, to : Sources,
                         on : SUBSET UNION {Rows[to] \X Rows[s] : s, to \in Sources}])]

TypeOK ==
    /\ query \in Queries
    /\ calls \in 0..MaxCalls
    /\ \A t \in Readers :
          /\ reader[t].at \in {"idle", "sent", "served", "done"}
          /\ reader[t].sent \in Queries \cup {None}
          /\ reader[t].at = "done" => reader[t].plan \in Queries /\ reader[t].rows = {}

\* The rows delivered by executions that map by what they rendered: all streams,
\* and the awaits whose builder nobody changed meanwhile.
Delivered(t) ==
    IF reader[t].mode = "stream" \/ reader[t].plan = reader[t].sent THEN reader[t].got ELSE {}

Objects(t) == ~reader[t].sent.columnar

\* A matched row can be told from a miss: its key is not NULL (S31).
Identifiable(s, row) ==
    IF s \in Derived THEN \E c \in 1..Width[s] : row[c] # None ELSE row[KeyAt[s]] # None

\* Every side that the join matched comes back as the object of its own row,
\* whatever mixture of joins stands around it and whatever others do to the
\* builder during a stream.
MatchedSidesKept ==
    \A t \in Readers : \A p \in Delivered(t) : Objects(t) =>
        \A k \in 1..Len(p[1]) :
            LET s == Named(reader[t].sent)[k]
            IN  (p[1][k] # None /\ Identifiable(s, p[1][k])) =>
                    p[2][k] = [source |-> s, values |-> p[1][k]]

\* A RIGHT or FULL join preserves its own rows, so every source before it
\* becomes optional.
Sound(q) ==
    \A j \in 1..Len(q.joins) : q.joins[j].kind \in {"RIGHT", "FULL"} =>
        \A i \in 1..j - 1 : q.joins[i].kind \in {"LEFT", "FULL"}

\* "None on a side means an outer-join miss", where the plan takes every
\* optional side for optional: what the join missed comes back as None.
MissedSidesNone ==
    \A t \in Readers : \A p \in Delivered(t) : (Objects(t) /\ Sound(reader[t].sent)) =>
        \A k \in 1..Len(p[1]) : p[1][k] = None => p[2][k] = None

\* RIGHT_JOIN: "rows of the FROM-side without a match yield NULL" and None, in
\* any chain of joins.
EveryMissNone ==
    \A t \in Readers : \A p \in Delivered(t) : Objects(t) =>
        \A k \in 1..Len(p[1]) : p[1][k] = None => p[2][k] = None

=============================================================================
