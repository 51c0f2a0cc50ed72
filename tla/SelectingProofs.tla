-------------------------- MODULE SelectingProofs --------------------------
(***************************************************************************)
(* Proofs about Selecting, for every set of tables, rows and readers: its  *)
(* type correctness, that a matched side of a joined row comes back as the *)
(* object of its own row, and that a missed side comes back as None in the *)
(* chains of joins whose plan calls it optional.                           *)
(*                                                                         *)
(* The state part is short: what an execution holds depends on nothing but *)
(* the query it rendered and the one it maps by (Good).  The rest is about *)
(* the operators: the server's rows have one component per source, None    *)
(* only where a join may miss; the flat row is cut where it was joined.    *)
(* They are recursive functions, so each lemma about them is an induction  *)
(* on a set of numbers.                                                    *)
(***************************************************************************)
EXTENDS Selecting, SequenceTheorems, WellFoundedInduction, TLAPS

\* A set of numbers with 0 and every successor is the set of all numbers.
LEMMA SetInduction ==
    ASSUME NEW T, T \subseteq Nat, 0 \in T, \A n \in T : n + 1 \in T
    PROVE  T = Nat
<1>. DEFINE C == Nat \ T
            Less == OpToRel(<, Nat)
<1>. SUFFICES ASSUME C # {} PROVE FALSE
  OBVIOUS
<1>1. IsWellFoundedOn(Less, Nat)
  BY NatLessThanWellFounded
<1>2. PICK n \in C : \A m \in C : <<m, n>> \notin Less
  <2>. HIDE DEF Less
  <2>. C \subseteq Nat /\ C # {}
    OBVIOUS
  <2>. HIDE DEF C
  <2>. QED  BY <1>1, WFMin
<1>3. \A m \in C : ~(m < n)
  BY <1>2 DEF OpToRel
<1>4. n \in Nat /\ n \notin T /\ n # 0
  OBVIOUS
<1>5. n - 1 \in Nat /\ n - 1 < n /\ (n - 1) + 1 = n
  BY <1>4
<1>6. n - 1 \in T
  BY <1>3, <1>5
<1>. QED  BY <1>4, <1>5, <1>6

----------------------------------------------------------------------------
(* The recursive functions satisfy their equations.                        *)

\* The rows joined so far, by the number of joins.
UpTo(q) ==
    LET upto[k \in 0..Len(q.joins)] ==
            IF k = 0 THEN {<<r>> : r \in Rows[q.from]} ELSE Extended(q, upto[k - 1], k)
    IN  upto

LEMMA JoinedIs == \A q : Joined(q) = UpTo(q)[Len(q.joins)]
  BY DEF Joined, UpTo

LEMMA UpToIs ==
    ASSUME NEW q, Len(q.joins) \in Nat
    PROVE  UpTo(q) = [k \in 0..Len(q.joins) |->
                         IF k = 0 THEN {<<r>> : r \in Rows[q.from]}
                         ELSE Extended(q, UpTo(q)[k - 1], k)]
<1>. DEFINE First == {<<r>> : r \in Rows[q.from]}
            IsTo(f, n) == f = [k \in 0..n |-> IF k = 0 THEN First ELSE Extended(q, f[k - 1], k)]
            T == {n \in Nat : \E f : IsTo(f, n)}
<1>1. 0 \in T
  <2>1. IsTo([k \in 0..0 |-> First], 0)
    OBVIOUS
  <2>. QED  BY <2>1
<1>2. ASSUME NEW n \in T PROVE n + 1 \in T
  <2>. PICK f : IsTo(f, n)
    OBVIOUS
  <2>. DEFINE g == [k \in 0..n + 1 |-> IF k = 0 THEN First
                                       ELSE Extended(q, f[k - 1], k)]
  <2>. HIDE DEF First
  <2>1. \A k \in 0..n : g[k] = f[k]
    OBVIOUS
  <2>2. \A k \in 0..n + 1 : k # 0 => k - 1 \in 0..n
    OBVIOUS
  <2>3. g = [k \in 0..n + 1 |-> IF k = 0 THEN First ELSE Extended(q, g[k - 1], k)]
    BY <2>1, <2>2
  <2>4. IsTo(g, n + 1)
    BY <2>3
  <2>5. n + 1 \in Nat
    OBVIOUS
  <2>. HIDE DEF g, IsTo
  <2>. QED  BY <2>4, <2>5
<1>3. T = Nat
  <2>. HIDE DEF T
  <2>1. T \subseteq Nat
    BY DEF T
  <2>. QED  BY <1>1, <1>2, <2>1, SetInduction
<1>4. \E f : IsTo(f, Len(q.joins))
  BY <1>3
<1>. QED  BY <1>4 DEF UpTo

\* Where each slice starts, up to the k-th.
Starts(q, k) ==
    LET at[i \in 1..k] == IF i = 1 THEN 0 ELSE at[i - 1] + Width[Named(q)[i - 1]]
    IN  at

LEMMA StartIs == \A q, k : Start(q, k) = Starts(q, k)[k]
  BY DEF Start, Starts

LEMMA StartsIs ==
    ASSUME NEW q, NEW k \in Nat
    PROVE  Starts(q, k) = [i \in 1..k |-> IF i = 1 THEN 0
                               ELSE Starts(q, k)[i - 1] + Width[Named(q)[i - 1]]]
<1>. DEFINE W(i) == Width[Named(q)[i]]
            IsTo(f, n) == f = [i \in 1..n |-> IF i = 1 THEN 0 ELSE f[i - 1] + W(i - 1)]
            T == {n \in Nat : \E f : IsTo(f, n)}
<1>1. 0 \in T
  <2>1. IsTo([i \in 1..0 |-> 0], 0)
    OBVIOUS
  <2>. QED  BY <2>1
<1>2. ASSUME NEW n \in T PROVE n + 1 \in T
  <2>. PICK f : IsTo(f, n)
    OBVIOUS
  <2>. DEFINE g == [i \in 1..n + 1 |-> IF i = 1 THEN 0 ELSE f[i - 1] + W(i - 1)]
  <2>. HIDE DEF W
  <2>1. \A i \in 1..n : g[i] = f[i]
    OBVIOUS
  <2>2. \A i \in 1..n + 1 : i # 1 => i - 1 \in 1..n
    OBVIOUS
  <2>3. g = [i \in 1..n + 1 |-> IF i = 1 THEN 0 ELSE g[i - 1] + W(i - 1)]
    BY <2>1, <2>2
  <2>4. IsTo(g, n + 1)
    BY <2>3
  <2>5. n + 1 \in Nat
    OBVIOUS
  <2>. HIDE DEF g, IsTo
  <2>. QED  BY <2>4, <2>5
<1>3. T = Nat
  <2>. HIDE DEF T
  <2>1. T \subseteq Nat
    BY DEF T
  <2>. QED  BY <1>1, <1>2, <2>1, SetInduction
<1>4. \E f : IsTo(f, k)
  BY <1>3
<1>. QED  BY <1>4 DEF Starts

\* What FlattenSeq has put together, by the number of pieces.
Flattened(s) ==
    LET flatten[i \in 1..Len(s)] == IF i = 1 THEN s[i] ELSE flatten[i - 1] \o s[i]
    IN  flatten

LEMMA FlattenSeqIs == \A s : Len(s) # 0 => FlattenSeq(s) = Flattened(s)[Len(s)]
  BY DEF FlattenSeq, Flattened

LEMMA FlattenedIs ==
    ASSUME NEW s, Len(s) \in Nat
    PROVE  Flattened(s) = [i \in 1..Len(s) |->
                              IF i = 1 THEN s[i] ELSE Flattened(s)[i - 1] \o s[i]]
<1>. DEFINE With(r, i) == r \o s[i]
            IsTo(f, n) == f = [i \in 1..n |-> IF i = 1 THEN s[i] ELSE With(f[i - 1], i)]
            T == {n \in Nat : \E f : IsTo(f, n)}
<1>1. 0 \in T
  <2>1. IsTo([i \in 1..0 |-> s[i]], 0)
    OBVIOUS
  <2>. QED  BY <2>1
<1>2. ASSUME NEW n \in T PROVE n + 1 \in T
  <2>. PICK f : IsTo(f, n)
    OBVIOUS
  <2>. DEFINE g == [i \in 1..n + 1 |-> IF i = 1 THEN s[i] ELSE With(f[i - 1], i)]
  <2>. HIDE DEF With
  <2>1. \A i \in 1..n : g[i] = f[i]
    OBVIOUS
  <2>2. \A i \in 1..n + 1 : i # 1 => i - 1 \in 1..n
    OBVIOUS
  <2>3. g = [i \in 1..n + 1 |-> IF i = 1 THEN s[i] ELSE With(g[i - 1], i)]
    BY <2>1, <2>2
  <2>4. IsTo(g, n + 1)
    BY <2>3
  <2>5. n + 1 \in Nat
    OBVIOUS
  <2>. HIDE DEF g, IsTo
  <2>. QED  BY <2>4, <2>5
<1>3. T = Nat
  <2>. HIDE DEF T
  <2>1. T \subseteq Nat
    BY DEF T
  <2>. QED  BY <1>1, <1>2, <2>1, SetInduction
<1>4. \E f : IsTo(f, Len(s))
  BY <1>3
<1>. QED  BY <1>4 DEF Flattened

----------------------------------------------------------------------------
(* The rows the server joins.                                              *)

AnyRow == UNION {Rows[s] : s \in Sources}
Values == {None} \cup UNION {ToSet(r) : r \in AnyRow}
Sides == AnyRow \cup {None}

\* A query with a FROM clause.
Readable(q) == q \in Queries /\ q.from \in Sources

LEMMA RowIs ==
    ASSUME NEW s \in Sources, NEW r \in Rows[s]
    PROVE  /\ r \in Sides /\ r # None
           /\ r \in Seq(Values) /\ Len(r) = Width[s] /\ Width[s] \in Nat \ {0}
<1>1. /\ Width[s] \in Nat \ {0}
      /\ r # None /\ r \in Seq(ToSet(r)) /\ Len(r) = Width[s]
  BY RowsAssumption DEF Sources
<1>2. r \in AnyRow
  BY DEF AnyRow
<1>3. ToSet(r) \subseteq Values
  BY <1>2, Zenon DEF Values
<1>4. r \in Seq(Values)
  BY <1>1, <1>3, SeqMonotonic
<1>. QED  BY <1>1, <1>2, <1>4 DEF Sides

LEMMA NamedIs ==
    ASSUME NEW q, Readable(q)
    PROVE  /\ Len(q.joins) \in Nat
           /\ Named(q) \in Seq(Sources) /\ Len(Named(q)) = Len(q.joins) + 1
           /\ Named(q)[1] = q.from
           /\ \A k \in 1..Len(q.joins) :
                 /\ Named(q)[k + 1] = q.joins[k].source
                 /\ q.joins[k].source \in Sources /\ q.joins[k].kind \in Kinds
<1>. DEFINE n == Len(q.joins)
            rest == [k \in 1..n |-> q.joins[k].source]
<1>. DEFINE On == SUBSET UNION {Rows[to] \X Rows[s] : s, to \in Sources}
            Join == [kind : Kinds, source : Sources, to : Sources, on : On]
<1>1. q.joins \in Seq(Join)
  <2>1. q \in [columnar : BOOLEAN, from : Sources \cup {None}, joins : Seq(Join)]
    BY DEF Readable, Queries
  <2>. HIDE DEF Join
  <2>. QED  BY <2>1
<1>. HIDE DEF On
<1>2. n \in Nat /\ \A k \in 1..n : q.joins[k].source \in Sources /\ q.joins[k].kind \in Kinds
  <2>1. \A j \in Join : j.source \in Sources /\ j.kind \in Kinds
    OBVIOUS
  <2>2. n \in Nat /\ \A k \in 1..n : q.joins[k] \in Join
    <3>. HIDE DEF Join
    <3>. QED  BY <1>1
  <2>. HIDE DEF Join
  <2>. QED  BY <2>1, <2>2
<1>3. rest \in Seq(Sources) /\ Len(rest) = n /\ \A k \in 1..n : rest[k] = q.joins[k].source
  BY <1>2
<1>4. <<q.from>> \in Seq(Sources) /\ Len(<<q.from>>) = 1 /\ <<q.from>>[1] = q.from
  BY DEF Readable
<1>. HIDE DEF n, rest
<1>5. /\ Named(q) \in Seq(Sources) /\ Len(Named(q)) = 1 + n
      /\ \A i \in 1..1 + n : Named(q)[i] = IF i <= 1 THEN <<q.from>>[i] ELSE rest[i - 1]
  <2>1. Named(q) = <<q.from>> \o rest
    BY DEF Named, rest, n
  <2>. QED  BY <1>3, <1>4, <2>1, ConcatProperties
<1>6. Named(q)[1] = q.from
  BY <1>2, <1>4, <1>5
<1>7. ASSUME NEW k \in 1..n PROVE Named(q)[k + 1] = q.joins[k].source
  <2>1. k + 1 \in 1..1 + n /\ ~(k + 1 <= 1) /\ (k + 1) - 1 = k
    BY <1>2
  <2>. QED  BY <1>3, <1>5, <2>1
<1>. QED  BY <1>2, <1>5, <1>6, <1>7 DEF n

\* A row joined to one more source: matched, or missed on either side.
LEMMA ExtendedIs ==
    ASSUME NEW q, NEW left, NEW k, NEW x \in Extended(q, left, k)
    PROVE  \/ \E l \in left, r \in Rows[q.joins[k].source] : x = Append(l, r)
           \/ q.joins[k].kind \in {"LEFT", "FULL"} /\ \E l \in left : x = Append(l, None)
           \/ /\ q.joins[k].kind \in {"RIGHT", "FULL"}
              /\ \E r \in Rows[q.joins[k].source] : x = Append([i \in 1..k |-> None], r)
<1>. DEFINE right == Rows[q.joins[k].source]
            to == CHOOSE i \in 1..k : Named(q)[i] = q.joins[k].to
            Holds(l, r) == l[to] # None /\ <<l[to], r>> \in q.joins[k].on
            Both == {Append(p[1], p[2]) : p \in {y \in left \X right : Holds(y[1], y[2])}}
            Left == {Append(l, None) : l \in {y \in left : \A r \in right : ~Holds(y, r)}}
            Right == {Append([i \in 1..k |-> None], r) :
                         r \in {y \in right : \A l \in left : ~Holds(l, y)}}
<1>1. \/ x \in Both
      \/ x \in Left /\ q.joins[k].kind \in {"LEFT", "FULL"}
      \/ x \in Right /\ q.joins[k].kind \in {"RIGHT", "FULL"}
  <2>1. x \in Both
            \cup (IF q.joins[k].kind \in {"LEFT", "FULL"} THEN Left ELSE {})
            \cup (IF q.joins[k].kind \in {"RIGHT", "FULL"} THEN Right ELSE {})
    BY DEF Extended
  <2>. HIDE DEF Both, Left, Right
  <2>. QED  BY <2>1
<1>. HIDE DEF Holds
<1>2. x \in Both => \E l \in left, r \in right : x = Append(l, r)
  OBVIOUS
<1>3. x \in Left => \E l \in left : x = Append(l, None)
  OBVIOUS
<1>4. x \in Right => \E r \in right : x = Append([i \in 1..k |-> None], r)
  OBVIOUS
<1>. HIDE DEF Both, Left, Right
<1>. QED  BY <1>1, <1>2, <1>3, <1>4

\* A component for each source so far, a row of the source or None.
Shaped(q, x, k) ==
    /\ x \in Seq(Sides) /\ Len(x) = k + 1
    /\ \A i \in 1..k + 1 : x[i] = None \/ x[i] \in Rows[Named(q)[i]]

LEMMA AppendShaped ==
    ASSUME NEW q, Readable(q), NEW k \in 1..Len(q.joins), NEW l, Shaped(q, l, k - 1),
           NEW e \in Rows[q.joins[k].source] \cup {None}
    PROVE  Shaped(q, Append(l, e), k)
<1>1. /\ k \in Nat /\ Named(q)[k + 1] = q.joins[k].source
      /\ q.joins[k].source \in Sources
  BY NamedIs
<1>2. e \in Sides
  BY <1>1, RowIs DEF Sides
<1>3. l \in Seq(Sides) /\ Len(l) = k
  BY <1>1 DEF Shaped
<1>. DEFINE x == Append(l, e)
<1>4. /\ x \in Seq(Sides) /\ Len(x) = k + 1 /\ x[k + 1] = e
      /\ \A i \in 1..k : x[i] = l[i]
  BY <1>2, <1>3, AppendProperties
<1>. HIDE DEF x
<1>5. ASSUME NEW i \in 1..k + 1 PROVE x[i] = None \/ x[i] \in Rows[Named(q)[i]]
  <2>1. CASE i = k + 1
    BY <1>1, <1>4, <2>1
  <2>2. CASE i # k + 1
    <3>1. i \in 1..k /\ i \in 1..(k - 1) + 1
      BY <1>1, <2>2
    <3>. QED  BY <1>4, <3>1 DEF Shaped
  <2>. QED  BY <2>1, <2>2
<1>. QED  BY <1>4, <1>5 DEF Shaped, x

LEMMA NothingShaped ==
    ASSUME NEW q, NEW k \in Nat \ {0}
    PROVE  Shaped(q, [i \in 1..k |-> None], k - 1)
<1>1. None \in Sides
  BY DEF Sides
<1>2. (k - 1) + 1 = k
  OBVIOUS
<1>3. /\ [i \in 1..k |-> None] \in Seq(Sides) /\ Len([i \in 1..k |-> None]) = k
      /\ \A i \in 1..k : [j \in 1..k |-> None][i] = None
  BY <1>1
<1>. QED  BY <1>2, <1>3 DEF Shaped

LEMMA ExtendedShaped ==
    ASSUME NEW q, Readable(q), NEW k \in 1..Len(q.joins), NEW left,
           \A l \in left : Shaped(q, l, k - 1), NEW x \in Extended(q, left, k)
    PROVE  Shaped(q, x, k)
<1>1. CASE \E l \in left, r \in Rows[q.joins[k].source] : x = Append(l, r)
  BY <1>1, AppendShaped
<1>2. CASE \E l \in left : x = Append(l, None)
  BY <1>2, AppendShaped
<1>3. CASE \E r \in Rows[q.joins[k].source] : x = Append([i \in 1..k |-> None], r)
  <2>1. k \in Nat \ {0}
    BY NamedIs
  <2>. QED  BY <1>3, <2>1, NothingShaped, AppendShaped
<1>. QED  BY <1>1, <1>2, <1>3, ExtendedIs

LEMMA UpToShaped ==
    ASSUME NEW q, Readable(q), NEW m \in 0..Len(q.joins), NEW x \in UpTo(q)[m]
    PROVE  Shaped(q, x, m)
<1>. DEFINE n == Len(q.joins)
            T == {k \in Nat : k <= n => \A y \in UpTo(q)[k] : Shaped(q, y, k)}
<1>1. n \in Nat
  BY NamedIs
<1>2. 0 \in T
  <2>1. UpTo(q)[0] = {<<r>> : r \in Rows[q.from]}
    BY <1>1, UpToIs
  <2>2. ASSUME NEW r \in Rows[q.from] PROVE Shaped(q, <<r>>, 0)
    <3>1. Named(q)[1] = q.from /\ r \in Sides
      BY NamedIs, RowIs DEF Readable
    <3>. QED  BY <3>1 DEF Shaped
  <2>. QED  BY <2>1, <2>2
<1>3. ASSUME NEW k \in T PROVE k + 1 \in T
  <2>. SUFFICES ASSUME k + 1 <= n, NEW y \in UpTo(q)[k + 1] PROVE Shaped(q, y, k + 1)
    OBVIOUS
  <2>1. k \in Nat /\ k <= n /\ k + 1 \in 1..n /\ k + 1 # 0 /\ (k + 1) - 1 = k
    BY <1>1
  <2>2. UpTo(q)[k + 1] = Extended(q, UpTo(q)[k], k + 1)
    BY <1>1, <2>1, UpToIs
  <2>3. \A l \in UpTo(q)[k] : Shaped(q, l, k)
    BY <2>1
  <2>. HIDE DEF T
  <2>. QED  BY <2>1, <2>2, <2>3, ExtendedShaped DEF n
<1>4. T = Nat
  <2>1. T \subseteq Nat
    OBVIOUS
  <2>. HIDE DEF T
  <2>. QED  BY <1>2, <1>3, <2>1, SetInduction
<1>. QED  BY <1>1, <1>4

LEMMA JoinedShaped ==
    ASSUME NEW q, Readable(q), NEW x \in Joined(q)
    PROVE  Shaped(q, x, Len(q.joins))
<1>1. Len(q.joins) \in 0..Len(q.joins)
  BY NamedIs
<1>. QED  BY <1>1, JoinedIs, UpToShaped

\* No component is None but where the plan expects it.
MissesExpected(q, x, k) == \A i \in 1..k + 1 : x[i] = None => CanMiss(q, i)

LEMMA ExtendedMisses ==
    ASSUME NEW q, Readable(q), Sound(q), NEW k \in 1..Len(q.joins), NEW left,
           \A l \in left : Shaped(q, l, k - 1) /\ MissesExpected(q, l, k - 1),
           NEW x \in Extended(q, left, k)
    PROVE  MissesExpected(q, x, k)
<1>. DEFINE join == q.joins[k]
<1>1. k \in Nat \ {0} /\ join.source \in Sources /\ Len(q.joins) \in Nat
  BY NamedIs
<1>2. \A r \in Rows[join.source] : r \in Sides /\ r # None
  BY <1>1, RowIs
<1>3. None \in Sides
  BY DEF Sides
<1>. HIDE DEF join
<1>4. ASSUME NEW l, l \in Seq(Sides), Len(l) = k, NEW e \in Sides
      PROVE  Append(l, e)[k + 1] = e /\ \A i \in 1..k : Append(l, e)[i] = l[i]
  BY <1>4, AppendProperties
<1>5. ASSUME NEW i \in 1..k + 1, x[i] = None PROVE CanMiss(q, i)
  <2>1. CASE \E l \in left, r \in Rows[join.source] : x = Append(l, r)
    <3>. PICK l \in left, r \in Rows[join.source] : x = Append(l, r)
      BY <2>1
    <3>1. l \in Seq(Sides) /\ Len(l) = k /\ (k - 1) + 1 = k
      BY <1>1 DEF Shaped
    <3>2. x[k + 1] = r /\ \A j \in 1..k : x[j] = l[j]
      BY <1>2, <1>4, <3>1
    <3>3. i \in 1..k
      <4>1. i # k + 1
        BY <1>2, <1>5, <3>2
      <4>. QED  BY <1>1, <4>1
    <3>. QED  BY <1>5, <3>1, <3>2, <3>3 DEF MissesExpected
  <2>2. CASE join.kind \in {"LEFT", "FULL"} /\ \E l \in left : x = Append(l, None)
    <3>. PICK l \in left : x = Append(l, None)
      BY <2>2
    <3>1. l \in Seq(Sides) /\ Len(l) = k /\ (k - 1) + 1 = k
      BY <1>1 DEF Shaped
    <3>2. \A j \in 1..k : x[j] = l[j]
      BY <1>3, <1>4, <3>1
    <3>3. CASE i \in 1..k
      BY <1>5, <3>1, <3>2, <3>3 DEF MissesExpected
    <3>4. CASE i = k + 1
      <4>1. i # 1 /\ i - 1 = k
        BY <1>1, <3>4
      <4>. QED  BY <2>2, <4>1 DEF CanMiss, join
    <3>. QED  BY <1>1, <3>3, <3>4
  <2>3. CASE /\ join.kind \in {"RIGHT", "FULL"}
             /\ \E r \in Rows[join.source] : x = Append([j \in 1..k |-> None], r)
    <3>. PICK r \in Rows[join.source] : x = Append([j \in 1..k |-> None], r)
      BY <2>3
    <3>. DEFINE l == [j \in 1..k |-> None]
    <3>1. l \in Seq(Sides) /\ Len(l) = k
      BY <1>1, <1>3
    <3>2. x[k + 1] = r
      <4>. HIDE DEF l
      <4>1. x = Append(l, r)
        BY DEF l
      <4>. QED  BY <1>2, <1>4, <3>1, <4>1
    <3>3. i \in 1..k
      <4>1. i # k + 1
        BY <1>2, <1>5, <3>2
      <4>. QED  BY <1>1, <4>1
    <3>4. CASE i = 1
      BY <2>3, <3>4 DEF CanMiss, join
    <3>5. CASE i # 1
      <4>1. i - 1 \in 1..k - 1
        BY <1>1, <3>3, <3>5
      <4>2. q.joins[i - 1].kind \in {"LEFT", "FULL"}
        BY <2>3, <4>1 DEF Sound, join
      <4>. QED  BY <3>5, <4>2 DEF CanMiss
    <3>. QED  BY <3>4, <3>5
  <2>. QED  BY <2>1, <2>2, <2>3, ExtendedIs DEF join
<1>. QED  BY <1>5 DEF MissesExpected

LEMMA JoinedMisses ==
    ASSUME NEW q, Readable(q), Sound(q), NEW x \in Joined(q)
    PROVE  MissesExpected(q, x, Len(q.joins))
<1>. DEFINE n == Len(q.joins)
            T == {k \in Nat : k <= n => \A y \in UpTo(q)[k] : MissesExpected(q, y, k)}
<1>1. n \in Nat
  BY NamedIs
<1>2. 0 \in T
  <2>1. UpTo(q)[0] = {<<r>> : r \in Rows[q.from]}
    BY <1>1, UpToIs
  <2>2. \A r \in Rows[q.from] : r # None
    BY RowIs DEF Readable
  <2>3. \A r \in Rows[q.from] : MissesExpected(q, <<r>>, 0)
    BY <2>2 DEF MissesExpected
  <2>. QED  BY <2>1, <2>3
<1>3. ASSUME NEW k \in T PROVE k + 1 \in T
  <2>. SUFFICES ASSUME k + 1 <= n, NEW y \in UpTo(q)[k + 1]
                PROVE  MissesExpected(q, y, k + 1)
    OBVIOUS
  <2>1. /\ k \in Nat /\ k <= n /\ k + 1 \in 1..n /\ k \in 0..n
        /\ k + 1 # 0 /\ (k + 1) - 1 = k
    BY <1>1
  <2>2. UpTo(q)[k + 1] = Extended(q, UpTo(q)[k], k + 1)
    BY <1>1, <2>1, UpToIs
  <2>3. \A l \in UpTo(q)[k] : Shaped(q, l, k) /\ MissesExpected(q, l, k)
    BY <2>1, UpToShaped
  <2>. HIDE DEF T
  <2>. QED  BY <2>1, <2>2, <2>3, ExtendedMisses DEF n
<1>4. T = Nat
  <2>1. T \subseteq Nat
    OBVIOUS
  <2>. HIDE DEF T
  <2>. QED  BY <1>2, <1>3, <2>1, SetInduction
<1>. QED  BY <1>1, <1>4, JoinedIs

----------------------------------------------------------------------------
(* The flat row and its slices.                                            *)

\* Each piece continues what was put together before.
LEMMA FlattenedGrows ==
    ASSUME NEW V, NEW s \in Seq(Seq(V)), Len(s) # 0
    PROVE  /\ Flattened(s)[1] = s[1]
           /\ \A i \in 1..Len(s) :
                 /\ Flattened(s)[i] \in Seq(V) /\ s[i] \in Seq(V)
                 /\ i # 1 => Flattened(s)[i] = Flattened(s)[i - 1] \o s[i]
<1>. DEFINE F == Flattened(s)
            n == Len(s)
            T == {k \in Nat : k + 1 \in 1..n => F[k + 1] \in Seq(V)}
<1>1. n \in Nat /\ 1 \in 1..n /\ \A i \in 1..n : s[i] \in Seq(V)
  OBVIOUS
<1>2. F[1] = s[1] /\ \A i \in 1..n : i # 1 => F[i] = F[i - 1] \o s[i]
  <2>. DEFINE With(r, i) == r \o s[i]
  <2>1. F = [i \in 1..n |-> IF i = 1 THEN s[i] ELSE With(F[i - 1], i)]
    BY <1>1, FlattenedIs
  <2>. HIDE DEF F, n, With
  <2>2. F[1] = s[1] /\ \A i \in 1..n : i # 1 => F[i] = With(F[i - 1], i)
    BY <1>1, <2>1
  <2>. QED  BY <2>2 DEF With
<1>. HIDE DEF F, n
<1>3. 0 \in T
  BY <1>1, <1>2
<1>4. ASSUME NEW k \in T PROVE k + 1 \in T
  <2>. SUFFICES ASSUME (k + 1) + 1 \in 1..n PROVE F[(k + 1) + 1] \in Seq(V)
    OBVIOUS
  <2>1. /\ k \in Nat /\ k + 1 \in 1..n /\ (k + 1) + 1 # 1 /\ ((k + 1) + 1) - 1 = k + 1
    BY <1>1
  <2>2. F[k + 1] \in Seq(V) /\ F[(k + 1) + 1] = F[k + 1] \o s[(k + 1) + 1]
    BY <1>2, <2>1
  <2>. QED  BY <1>1, <2>2, ConcatProperties
<1>5. T = Nat
  <2>1. T \subseteq Nat
    OBVIOUS
  <2>. HIDE DEF T
  <2>. QED  BY <1>3, <1>4, <2>1, SetInduction
<1>6. ASSUME NEW i \in 1..n PROVE F[i] \in Seq(V)
  <2>1. i - 1 \in Nat /\ (i - 1) + 1 = i
    BY <1>1
  <2>. QED  BY <1>5, <2>1
<1>. QED  BY <1>1, <1>2, <1>6 DEF F, n

\* The second sequence continues where the first one ends.
LEMMA ConcatTail ==
    ASSUME NEW V, NEW r \in Seq(V), NEW s \in Seq(V)
    PROVE  /\ Len(r) \in Nat /\ Len(r \o s) = Len(r) + Len(s)
           /\ \A c \in 1..Len(s) : (r \o s)[Len(r) + c] = s[c]
<1>. DEFINE both == r \o s
<1>1. Len(r) \in Nat /\ Len(s) \in Nat
  BY LenProperties
<1>2. /\ Len(both) = Len(r) + Len(s)
      /\ \A c \in 1..Len(r) + Len(s) :
            both[c] = IF c <= Len(r) THEN r[c] ELSE s[c - Len(r)]
  BY ConcatProperties
<1>. HIDE DEF both
<1>3. ASSUME NEW c \in 1..Len(s) PROVE both[Len(r) + c] = s[c]
  <2>1. /\ Len(r) + c \in 1..Len(r) + Len(s) /\ ~(Len(r) + c <= Len(r))
        /\ (Len(r) + c) - Len(r) = c
    BY <1>1
  <2>. QED  BY <1>2, <2>1
<1>. QED  BY <1>1, <1>2, <1>3 DEF both

\* Sequence r begins with p.
Begins(r, p) == Len(p) <= Len(r) /\ \A c \in 1..Len(p) : r[c] = p[c]

LEMMA BeginsConcat ==
    ASSUME NEW V, NEW p \in Seq(V), NEW r \in Seq(V), NEW s \in Seq(V), Begins(r, p)
    PROVE  Begins(r \o s, p)
<1>. DEFINE both == r \o s
<1>1. Len(p) \in Nat /\ Len(r) \in Nat /\ Len(s) \in Nat
  BY LenProperties
<1>2. /\ Len(both) = Len(r) + Len(s)
      /\ \A c \in 1..Len(r) + Len(s) :
            both[c] = IF c <= Len(r) THEN r[c] ELSE s[c - Len(r)]
  BY ConcatProperties
<1>. HIDE DEF both
<1>3. Len(p) <= Len(both)
  BY <1>1, <1>2 DEF Begins
<1>4. ASSUME NEW c \in 1..Len(p) PROVE both[c] = p[c]
  <2>1. c \in 1..Len(r) + Len(s) /\ c <= Len(r)
    BY <1>1 DEF Begins
  <2>. QED  BY <1>2, <2>1 DEF Begins
<1>. QED  BY <1>3, <1>4 DEF both, Begins

\* What was put together first stays in front.
LEMMA FlattenedPrefix ==
    ASSUME NEW V, NEW s \in Seq(Seq(V)), NEW k \in 1..Len(s)
    PROVE  Begins(Flattened(s)[Len(s)], Flattened(s)[k])
<1>. DEFINE F == Flattened(s)
            n == Len(s)
            T == {d \in Nat : k + d \in 1..n => Begins(F[k + d], F[k])}
<1>1. n \in Nat /\ k \in 1..n /\ n # 0
  OBVIOUS
<1>2. \A i \in 1..n : /\ F[i] \in Seq(V) /\ s[i] \in Seq(V)
                      /\ i # 1 => F[i] = F[i - 1] \o s[i]
  BY <1>1, FlattenedGrows
<1>. HIDE DEF F, n
<1>3. 0 \in T
  <2>1. Len(F[k]) \in Nat /\ k + 0 = k
    BY <1>1, <1>2, LenProperties
  <2>2. Begins(F[k], F[k])
    BY <2>1 DEF Begins
  <2>. QED  BY <2>1, <2>2
<1>4. ASSUME NEW d \in T PROVE d + 1 \in T
  <2>. SUFFICES ASSUME k + (d + 1) \in 1..n PROVE Begins(F[k + (d + 1)], F[k])
    OBVIOUS
  <2>. DEFINE m == k + d
  <2>1. /\ d \in Nat /\ m \in 1..n /\ m + 1 \in 1..n /\ m + 1 # 1 /\ (m + 1) - 1 = m
        /\ k + (d + 1) = m + 1
    BY <1>1
  <2>2. Begins(F[m], F[k])
    BY <2>1
  <2>. HIDE DEF m, T
  <2>3. F[m + 1] = F[m] \o s[m + 1]
    BY <1>2, <2>1
  <2>4. F[k] \in Seq(V) /\ F[m] \in Seq(V) /\ s[m + 1] \in Seq(V)
    BY <1>1, <1>2, <2>1
  <2>5. Begins(F[m + 1], F[k])
    BY <2>2, <2>3, <2>4, BeginsConcat
  <2>. QED  BY <2>1, <2>5
<1>5. T = Nat
  <2>1. T \subseteq Nat
    OBVIOUS
  <2>. HIDE DEF T
  <2>. QED  BY <1>3, <1>4, <2>1, SetInduction
<1>6. n - k \in Nat /\ k + (n - k) = n /\ n \in 1..n
  BY <1>1
<1>7. Begins(F[n], F[k])
  BY <1>5, <1>6
<1>. QED  BY <1>7 DEF F, n

\* A slice starts where the pieces before it end.
LEMMA StartsAt ==
    ASSUME NEW V, NEW s \in Seq(Seq(V)), NEW q, NEW k \in 1..Len(s),
           \A i \in 1..Len(s) : Width[Named(q)[i]] = Len(s[i])
    PROVE  Start(q, k) = IF k = 1 THEN 0 ELSE Len(Flattened(s)[k - 1])
<1>. DEFINE F == Flattened(s)
            n == Len(s)
            A == Starts(q, k)
            End(i) == IF i = 1 THEN 0 ELSE Len(F[i - 1])
            T == {d \in Nat : d + 1 \in 1..k => A[d + 1] = End(d + 1)}
<1>1. n \in Nat /\ k \in 1..n /\ k \in Nat /\ n # 0 /\ 1 \in 1..k
  OBVIOUS
<1>2. F[1] = s[1]
      /\ \A i \in 1..n : /\ F[i] \in Seq(V) /\ s[i] \in Seq(V)
                         /\ i # 1 => F[i] = F[i - 1] \o s[i]
  BY <1>1, FlattenedGrows
<1>3. A[1] = 0 /\ \A i \in 1..k : i # 1 => A[i] = A[i - 1] + Width[Named(q)[i - 1]]
  <2>1. A = [i \in 1..k |-> IF i = 1 THEN 0 ELSE A[i - 1] + Width[Named(q)[i - 1]]]
    BY <1>1, StartsIs
  <2>. HIDE DEF A
  <2>. QED  BY <1>1, <2>1
<1>. HIDE DEF F, n, A
<1>4. 0 \in T
  BY <1>3
<1>5. ASSUME NEW d \in T PROVE d + 1 \in T
  <2>. SUFFICES ASSUME (d + 1) + 1 \in 1..k PROVE A[(d + 1) + 1] = End((d + 1) + 1)
    OBVIOUS
  <2>. DEFINE i == d + 1
  <2>1. /\ i \in 1..k /\ i \in 1..n /\ i + 1 \in 1..k /\ i + 1 # 1 /\ (i + 1) - 1 = i
        /\ i \in Nat
    BY <1>1
  <2>2. A[i] = End(i)
    BY <2>1
  <2>. HIDE DEF i, T
  <2>3. A[i + 1] = A[i] + Len(s[i])
    <3>1. Width[Named(q)[i]] = Len(s[i])
      BY <2>1 DEF n
    <3>. QED  BY <1>3, <2>1, <3>1
  <2>4. A[i] + Len(s[i]) = Len(F[i])
    <3>1. CASE i = 1
      <4>1. Len(s[i]) \in Nat
        BY <1>2, <2>1, LenProperties
      <4>. QED  BY <1>2, <1>3, <3>1, <4>1
    <3>2. CASE i # 1
      <4>1. i - 1 \in 1..n
        BY <1>1, <2>1, <3>2
      <4>2. Len(F[i]) = Len(F[i - 1]) + Len(s[i])
        <5>1. F[i - 1] \in Seq(V) /\ s[i] \in Seq(V) /\ F[i] = F[i - 1] \o s[i]
          BY <1>2, <2>1, <3>2, <4>1
        <5>. QED  BY <5>1, ConcatProperties
      <4>. QED  BY <2>2, <3>2, <4>2
    <3>. QED  BY <3>1, <3>2
  <2>5. End(i + 1) = Len(F[i])
    BY <2>1
  <2>6. A[i + 1] = End(i + 1)
    BY <2>3, <2>4, <2>5
  <2>. QED  BY <2>6 DEF i
<1>6. T = Nat
  <2>1. T \subseteq Nat
    OBVIOUS
  <2>. HIDE DEF T
  <2>. QED  BY <1>4, <1>5, <2>1, SetInduction
<1>7. k - 1 \in Nat /\ (k - 1) + 1 = k /\ k \in 1..k
  BY <1>1
<1>8. A[k] = End(k)
  BY <1>6, <1>7
<1>. QED  BY <1>8, StartIs DEF A, F

\* Each slice is the piece that was put there.
LEMMA SliceIsPiece ==
    ASSUME NEW V, NEW s \in Seq(Seq(V)), NEW q, NEW k \in 1..Len(s),
           \A i \in 1..Len(s) : Width[Named(q)[i]] = Len(s[i])
    PROVE  Chunk(q, FlattenSeq(s), k) = s[k]
<1>. DEFINE F == Flattened(s)
            n == Len(s)
            start == Start(q, k)
            length == Len(s[k])
<1>1. n \in Nat /\ n # 0 /\ k \in 1..n /\ n \in 1..n
  OBVIOUS
<1>2. F[1] = s[1]
      /\ \A i \in 1..n : /\ F[i] \in Seq(V) /\ s[i] \in Seq(V)
                         /\ i # 1 => F[i] = F[i - 1] \o s[i]
  BY <1>1, FlattenedGrows
<1>3. FlattenSeq(s) = F[n] /\ Begins(F[n], F[k])
  BY <1>1, FlattenSeqIs, FlattenedPrefix
<1>4. start = IF k = 1 THEN 0 ELSE Len(F[k - 1])
  BY StartsAt
<1>5. Width[Named(q)[k]] = length
  OBVIOUS
<1>. HIDE DEF F, n, start
<1>6. s[k] \in Seq(V) /\ length \in Nat /\ F[k] \in Seq(V) /\ Len(F[k]) \in Nat
  BY <1>1, <1>2, LenProperties
<1>. HIDE DEF length
<1>7. /\ start \in Nat /\ Len(F[k]) = start + length
      /\ \A c \in 1..length : F[k][start + c] = s[k][c]
  <2>1. CASE k = 1
    <3>1. start = 0 /\ F[k] = s[k]
      BY <1>2, <1>4, <2>1
    <3>. QED  BY <1>6, <3>1 DEF length
  <2>2. CASE k # 1
    <3>1. k - 1 \in 1..n
      BY <1>1, <2>2
    <3>2. F[k - 1] \in Seq(V) /\ F[k] = F[k - 1] \o s[k] /\ start = Len(F[k - 1])
      BY <1>1, <1>2, <1>4, <2>2, <3>1
    <3>3. PICK p \in Seq(V), r \in Seq(V) :
              F[k] = p \o r /\ start = Len(p) /\ r = s[k]
      BY <1>6, <3>2
    <3>4. /\ Len(p) \in Nat /\ Len(p \o r) = Len(p) + Len(r)
          /\ \A c \in 1..Len(r) : (p \o r)[Len(p) + c] = r[c]
      BY ConcatTail
    <3>5. length = Len(r)
      BY <3>3 DEF length
    <3>. QED  BY <3>3, <3>4, <3>5
  <2>. QED  BY <2>1, <2>2
<1>. DEFINE row == F[n]
            stop == start + length
<1>8. stop <= Len(row) /\ \A c \in 1..stop : row[c] = F[k][c]
  BY <1>3, <1>7 DEF Begins
<1>9. Chunk(q, FlattenSeq(s), k) = SubSeq(row, start + 1, stop)
  BY <1>3, <1>5, <1>8 DEF Chunk, start
<1>. HIDE DEF row
<1>10. \A i \in start + 1..stop : row[i] \in V
  <2>1. \A i \in 1..stop : F[k][i] \in V
    BY <1>6, <1>7
  <2>2. \A i \in start + 1..stop : i \in 1..stop
    BY <1>6, <1>7
  <2>. QED  BY <1>8, <2>1, <2>2
<1>. DEFINE cut == SubSeq(row, start + 1, stop)
<1>11. /\ start + 1 \in Int /\ stop \in Int
       /\ (IF start + 1 <= stop THEN stop - (start + 1) + 1 ELSE 0) = length
       /\ stop - (start + 1) + 1 = length
  BY <1>6, <1>7
<1>. HIDE DEF stop
<1>12. /\ cut \in Seq(V) /\ Len(cut) = length
       /\ \A i \in 1..length : cut[i] = row[(start + 1) + i - 1]
  <2>1. /\ cut \in Seq(V)
        /\ Len(cut) = IF start + 1 <= stop THEN stop - (start + 1) + 1 ELSE 0
        /\ \A i \in 1..stop - (start + 1) + 1 : cut[i] = row[(start + 1) + i - 1]
    BY <1>10, <1>11, SubSeqProperties
  <2>. HIDE DEF cut
  <2>. QED  BY <1>11, <2>1
<1>. HIDE DEF cut
<1>13. ASSUME NEW i \in 1..length PROVE cut[i] = s[k][i]
  <2>1. (start + 1) + i - 1 = start + i /\ start + i \in 1..stop
    BY <1>6, <1>7 DEF stop
  <2>. QED  BY <1>7, <1>8, <1>12, <2>1
<1>14. cut = s[k]
  BY <1>6, <1>12, <1>13, SeqEqual DEF length
<1>. QED  BY <1>9, <1>14 DEF cut

\* The columns of a source's row, or as many NULLs.
Piece(q, x, k) == IF x[k] = None THEN [c \in 1..Width[Named(q)[k]] |-> None] ELSE x[k]

LEMMA NoneIsValue == None \in Values
<1>1. \A S : None \in {None} \cup S
  OBVIOUS
<1>. QED  BY <1>1, Zenon DEF Values

LEMMA PieceTyped ==
    ASSUME NEW q, Readable(q), NEW x, Shaped(q, x, Len(q.joins)), NEW k \in 1..Len(q.joins) + 1
    PROVE  /\ Named(q)[k] \in Sources
           /\ Piece(q, x, k) \in Seq(Values) /\ Len(Piece(q, x, k)) = Width[Named(q)[k]]
<1>. DEFINE s == Named(q)[k]
<1>1. s \in Sources
  <2>1. Named(q) \in Seq(Sources) /\ k \in 1..Len(Named(q))
    BY NamedIs
  <2>. QED  BY <2>1, ElementOfSeq
<1>2. Width[s] \in Nat
  BY <1>1, RowsAssumption DEF Sources
<1>3. None \in Values
  BY NoneIsValue
<1>4. CASE x[k] = None
  <2>1. Piece(q, x, k) = [c \in 1..Width[s] |-> None]
    BY <1>4 DEF Piece
  <2>. HIDE DEF s
  <2>2. [c \in 1..Width[s] |-> None] \in Seq(Values) /\ Len([c \in 1..Width[s] |-> None]) = Width[s]
    BY <1>2, <1>3
  <2>3. Piece(q, x, k) \in Seq(Values) /\ Len(Piece(q, x, k)) = Width[s]
    BY <2>1, <2>2
  <2>. QED  BY <1>1, <2>3 DEF s
<1>5. CASE x[k] # None
  <2>1. x[k] \in Rows[s]
    BY <1>5 DEF Shaped
  <2>2. x[k] \in Seq(Values) /\ Len(x[k]) = Width[s]
    BY <1>1, <2>1, RowIs
  <2>3. Piece(q, x, k) = x[k]
    BY <1>5 DEF Piece
  <2>. QED  BY <1>1, <2>2, <2>3
<1>. QED  BY <1>4, <1>5

LEMMA ChunkIs ==
    ASSUME NEW q, Readable(q), NEW x, Shaped(q, x, Len(q.joins)), NEW k \in 1..Len(q.joins) + 1
    PROVE  Chunk(q, Flat(q, x), k) = Piece(q, x, k)
<1>. DEFINE n == Len(q.joins) + 1
            P == [i \in 1..n |-> Piece(q, x, i)]
<1>1. n \in Nat /\ Len(x) = n
  BY NamedIs DEF Shaped
<1>2. Flat(q, x) = FlattenSeq(P)
  BY <1>1 DEF Flat, Piece
<1>3. \A i \in 1..n : Piece(q, x, i) \in Seq(Values) /\ Len(Piece(q, x, i)) = Width[Named(q)[i]]
  BY PieceTyped
<1>. HIDE DEF n
<1>4. /\ P \in Seq(Seq(Values)) /\ Len(P) = n
      /\ \A i \in 1..n : P[i] = Piece(q, x, i)
  BY <1>1, <1>3
<1>5. k \in 1..Len(P) /\ \A i \in 1..Len(P) : Width[Named(q)[i]] = Len(P[i])
  BY <1>3, <1>4 DEF n
<1>. HIDE DEF P
<1>6. Chunk(q, FlattenSeq(P), k) = P[k]
  BY <1>4, <1>5, SliceIsPiece
<1>. QED  BY <1>2, <1>4, <1>6 DEF n

\* One row without joins is the piece of its only source.
LEMMA FlatOfOne ==
    ASSUME NEW q, Readable(q), NEW x, Shaped(q, x, Len(q.joins)), q.joins = <<>>
    PROVE  Flat(q, x) = Piece(q, x, 1) /\ Named(q)[1] = q.from
<1>1. Len(q.joins) = 0 /\ Len(x) = 1 /\ Named(q)[1] = q.from
  BY NamedIs DEF Shaped
<1>2. Flat(q, x) = FlattenSeq(<<Piece(q, x, 1)>>)
  <2>1. Flat(q, x) = FlattenSeq([k \in 1..Len(x) |-> Piece(q, x, k)])
    BY DEF Flat, Piece
  <2>2. [k \in 1..1 |-> Piece(q, x, k)] = <<Piece(q, x, 1)>>
    OBVIOUS
  <2>. QED  BY <1>1, <2>1, <2>2
<1>3. Piece(q, x, 1) \in Seq(Values)
  BY <1>1, PieceTyped
<1>. DEFINE p == Piece(q, x, 1)
<1>. HIDE DEF p
<1>4. <<p>> \in Seq(Seq(Values)) /\ Len(<<p>>) = 1 /\ <<p>>[1] = p
  BY <1>3 DEF p
<1>5. FlattenSeq(<<p>>) = p
  <2>. DEFINE one == <<p>>
  <2>1. one \in Seq(Seq(Values)) /\ Len(one) = 1 /\ one[1] = p /\ Len(one) # 0
    BY <1>4
  <2>. HIDE DEF one
  <2>2. FlattenSeq(one) = Flattened(one)[1]
    BY <2>1, FlattenSeqIs
  <2>3. Flattened(one)[1] = one[1]
    BY <2>1, FlattenedGrows
  <2>. QED  BY <2>1, <2>2, <2>3 DEF one
<1>. QED  BY <1>1, <1>2, <1>5 DEF p

----------------------------------------------------------------------------
(* The objects.                                                            *)

\* What comes back for one side of a row.
Side(q, x, k) ==
    IF q.joins = <<>> THEN Built(q.from, Piece(q, x, k))
    ELSE ObjectOrNone(Named(q)[k], Piece(q, x, k), CanMiss(q, k))

LEMMA MappedSides ==
    ASSUME NEW q, Readable(q), ~q.columnar, NEW x, Shaped(q, x, Len(q.joins)),
           ~Fails(Mapped(q, Flat(q, x))), NEW k \in 1..Len(q.joins) + 1
    PROVE  Mapped(q, Flat(q, x))[k] = Side(q, x, k) /\ Side(q, x, k) # Raises
<1>. DEFINE p == Mapped(q, Flat(q, x))
<1>0. Len(q.joins) \in Nat
  BY NamedIs
<1>1. CASE q.joins = <<>>
  <2>1. p = <<Built(q.from, Flat(q, x))>> /\ k = 1
    BY <1>1 DEF Mapped
  <2>2. p = <<Side(q, x, 1)>>
    BY <1>1, <2>1, FlatOfOne DEF Side
  <2>. HIDE DEF p
  <2>3. p[1] = Side(q, x, 1) /\ 1 \in 1..Len(p)
    BY <2>2
  <2>4. p[1] # Raises
    BY <2>3 DEF Fails, p
  <2>. QED  BY <2>1, <2>3, <2>4 DEF p
<1>2. CASE q.joins # <<>>
  <2>1. p = [i \in 1..Len(q.joins) + 1 |->
                ObjectOrNone(Named(q)[i], Chunk(q, Flat(q, x), i), CanMiss(q, i))]
    BY <1>2 DEF Mapped
  <2>2. \A i \in 1..Len(q.joins) + 1 : Chunk(q, Flat(q, x), i) = Piece(q, x, i)
    BY ChunkIs
  <2>3. p = [i \in 1..Len(q.joins) + 1 |-> Side(q, x, i)]
    BY <1>2, <2>1, <2>2 DEF Side
  <2>. HIDE DEF p
  <2>4. p[k] = Side(q, x, k) /\ k \in 1..Len(p)
    BY <1>0, <2>3
  <2>5. p[k] # Raises
    BY <2>4 DEF Fails, p
  <2>. QED  BY <2>4, <2>5 DEF p
<1>. QED  BY <1>1, <1>2

LEMMA MatchedSide ==
    ASSUME NEW q, Readable(q), ~q.columnar, NEW x \in Joined(q),
           ~Fails(Mapped(q, Flat(q, x))), NEW k \in 1..Len(x),
           x[k] # None, Identifiable(Named(q)[k], x[k])
    PROVE  Mapped(q, Flat(q, x))[k] = [source |-> Named(q)[k], values |-> x[k]]
<1>. DEFINE s == Named(q)[k]
            object == [source |-> s, values |-> x[k]]
<1>1. Shaped(q, x, Len(q.joins)) /\ k \in 1..Len(q.joins) + 1
  BY JoinedShaped DEF Shaped
<1>2. Side(q, x, k) # Raises /\ Mapped(q, Flat(q, x))[k] = Side(q, x, k)
  BY <1>1, MappedSides
<1>3. Piece(q, x, k) = x[k] /\ Len(x[k]) = Width[s]
  BY <1>1, PieceTyped DEF Piece
<1>4. q.joins = <<>> => s = q.from
  <2>1. q.joins = <<>> => k = 1
    BY <1>1
  <2>. QED  BY <1>1, <2>1, FlatOfOne
<1>5. Built(s, x[k]) \in {Raises, object}
  BY DEF Built
<1>6. Side(q, x, k) \in {Raises, Built(s, x[k])}
  <2>1. CASE q.joins = <<>>
    BY <1>3, <1>4, <2>1 DEF Side
  <2>2. CASE q.joins # <<>>
    <3>1. Side(q, x, k) = ObjectOrNone(s, x[k], CanMiss(q, k))
      BY <1>3, <2>2 DEF Side
    <3>2. CASE s \in Derived
      <4>1. \E c \in 1..Len(x[k]) : x[k][c] # None
        BY <1>3, <3>2 DEF Identifiable
      <4>. QED  BY <3>1, <3>2, <4>1 DEF ObjectOrNone
    <3>3. CASE s \notin Derived
      <4>1. x[k][KeyAt[s]] # None
        BY <3>3 DEF Identifiable
      <4>. QED  BY <3>1, <3>3, <4>1 DEF ObjectOrNone
    <3>. QED  BY <3>2, <3>3
  <2>. QED  BY <2>1, <2>2
<1>. QED  BY <1>2, <1>5, <1>6

LEMMA MissedSide ==
    ASSUME NEW q, Readable(q), ~q.columnar, Sound(q), NEW x \in Joined(q),
           ~Fails(Mapped(q, Flat(q, x))), NEW k \in 1..Len(x), x[k] = None
    PROVE  Mapped(q, Flat(q, x))[k] = None
<1>. DEFINE s == Named(q)[k]
            nulls == [c \in 1..Width[s] |-> None]
<1>1. Shaped(q, x, Len(q.joins)) /\ k \in 1..Len(q.joins) + 1
  BY JoinedShaped DEF Shaped
<1>2. Mapped(q, Flat(q, x))[k] = Side(q, x, k)
  BY <1>1, MappedSides
<1>3. CanMiss(q, k)
  BY <1>1, JoinedMisses DEF MissesExpected
<1>4. q.joins # <<>>
  <2>. SUFFICES ASSUME q.joins = <<>> PROVE FALSE
    OBVIOUS
  <2>1. k = 1 /\ 1..Len(q.joins) = {}
    BY <1>1
  <2>. QED  BY <1>3, <2>1 DEF CanMiss
<1>5. Piece(q, x, k) = nulls
  BY DEF Piece
<1>6. s \in Sources
  BY <1>1, PieceTyped
<1>7. Width[s] \in Nat
  BY <1>6, RowsAssumption DEF Sources
<1>8. Side(q, x, k) = ObjectOrNone(s, nulls, TRUE)
  BY <1>3, <1>4, <1>5 DEF Side
<1>. HIDE DEF s
<1>9. Len(nulls) = Width[s] /\ \A c \in 1..Width[s] : nulls[c] = None
  BY <1>7
<1>10. s \in Tables => KeyAt[s] \in 1..Width[s]
  BY KeyAssumption
<1>. HIDE DEF nulls
<1>11. ObjectOrNone(s, nulls, TRUE) = None
  <2>1. CASE s \in Derived
    BY <1>9, <2>1 DEF ObjectOrNone
  <2>2. CASE s \notin Derived
    <3>1. KeyAt[s] \in 1..Width[s]
      BY <1>6, <1>10, <2>2 DEF Sources
    <3>2. ~(KeyAt[s] > Len(nulls)) /\ nulls[KeyAt[s]] = None
      BY <1>7, <1>9, <3>1
    <3>. QED  BY <2>2, <3>2 DEF ObjectOrNone
  <2>. QED  BY <2>1, <2>2
<1>. QED  BY <1>2, <1>8, <1>11

----------------------------------------------------------------------------
(* The executions.                                                         *)

Fields == {"at", "mode", "sent", "plan", "rows", "got"}
Record(r) == r = [f \in Fields |-> r[f]]

\* What holds of an execution at every step, whatever the builder is by now:
\* its rows are joined rows of the query it sent, its objects are those rows
\* mapped by its plan, and a stream's plan is the query it sent.
Good(r) ==
    /\ Record(r)
    /\ r.at \in {"idle", "sent", "served", "done"}
    /\ r.sent \in Queries \cup {None}
    /\ r.at # "idle" => Readable(r.sent)
    /\ r.at = "done" => r.plan \in Queries /\ r.rows = {}
    /\ r.mode = "stream" => r.plan = r.sent
    /\ r.rows \subseteq Joined(r.sent)
    /\ \A p \in r.got :
          /\ Readable(r.sent) /\ p[1] \in Joined(r.sent)
          /\ p[2] = Mapped(r.plan, Flat(r.sent, p[1])) /\ ~Fails(p[2])

\* The inductive invariant.
IInv ==
    /\ query \in Queries
    /\ calls \in 0..MaxCalls
    /\ reader = [t \in Readers |-> reader[t]]
    /\ \A t \in Readers : Good(reader[t])

LEMMA RestingRecord ==
    /\ Record(Resting) /\ Resting.at = "idle" /\ Resting.mode = "none"
    /\ Resting.sent = None /\ Resting.plan = None /\ Resting.rows = {} /\ Resting.got = {}
  BY DEF Record, Fields, Resting

LEMMA RestingGood == Good(Resting)
  BY RestingRecord DEF Good

LEMMA InitIInv == Init => IInv
<1>. SUFFICES ASSUME Init PROVE IInv
  OBVIOUS
<1>1. query \in Queries
  <2>. DEFINE On == SUBSET UNION {Rows[to] \X Rows[s] : s, to \in Sources}
              Join == [kind : Kinds, source : Sources, to : Sources, on : On]
  <2>1. <<>> \in Seq(Join)
    <3>. HIDE DEF Join
    <3>. QED  OBVIOUS
  <2>2. Queries = [columnar : BOOLEAN, from : Sources \cup {None}, joins : Seq(Join)]
    BY DEF Queries
  <2>. HIDE DEF Join
  <2>. QED  BY <2>1, <2>2 DEF Init
<1>2. calls \in 0..MaxCalls
  BY CallsAssumption DEF Init
<1>3. reader = [t \in Readers |-> Resting]
  BY DEF Init
<1>4. \A t \in Readers : reader[t] = Resting
  BY <1>3
<1>5. reader = [t \in Readers |-> reader[t]]
  BY <1>3
<1>. QED  BY <1>1, <1>2, <1>4, <1>5, RestingGood DEF IInv

\* A task that moves to a good state leaves everything good.
LEMMA SetGood ==
    ASSUME IInv, NEW t \in Readers, NEW e, Good(e), Set(t, e)
    PROVE  IInv'
<1>1. /\ reader' = [reader EXCEPT ![t] = e] /\ reader = [u \in Readers |-> reader[u]]
      /\ UNCHANGED <<query, calls>>
  BY DEF Set, IInv
<1>2. reader' = [u \in Readers |-> IF u = t THEN e ELSE reader[u]]
  BY <1>1
<1>3. \A u \in Readers : reader'[u] = IF u = t THEN e ELSE reader[u]
  BY <1>2
<1>4. reader' = [u \in Readers |-> reader'[u]]
  BY <1>2
<1>5. \A u \in Readers : Good(reader'[u])
  BY <1>3, Zenon DEF IInv
<1>. QED  BY <1>1, <1>4, <1>5 DEF IInv

\* The builder's methods leave a query.
LEMMA CallKeeps ==
    ASSUME IInv, Call, query' \in Queries
    PROVE  IInv'
<1>1. calls' \in 0..MaxCalls /\ reader' = reader
  BY CallsAssumption DEF Call, IInv
<1>. QED  BY <1>1 DEF IInv

LEMMA FROMKeeps ==
    ASSUME IInv, NEW s \in Sources, FROM(s)
    PROVE  IInv'
<1>1. query' \in Queries
  <2>. DEFINE On == SUBSET UNION {Rows[to] \X Rows[u] : u, to \in Sources}
              Joins == Seq([kind : Kinds, source : Sources, to : Sources, on : On])
  <2>1. Queries = [columnar : BOOLEAN, from : Sources \cup {None}, joins : Joins]
    BY DEF Queries
  <2>2. query' = [query EXCEPT !.from = s]
    BY DEF FROM
  <2>. HIDE DEF Joins
  <2>. QED  BY <2>1, <2>2 DEF IInv
<1>. QED  BY <1>1, CallKeeps DEF FROM

LEMMA JOINKeeps ==
    ASSUME IInv, NEW kind \in Kinds, NEW s \in Sources, NEW to \in Sources,
           NEW on \in SUBSET (Rows[to] \X Rows[s]), JOIN(kind, s, to, on)
    PROVE  IInv'
<1>. DEFINE Pairs == {Rows[y] \X Rows[x] : x, y \in Sources}
            On == SUBSET UNION Pairs
            Join == [kind : Kinds, source : Sources, to : Sources, on : On]
            j == [kind |-> kind, source |-> s, to |-> to, on |-> on]
<1>1. Queries = [columnar : BOOLEAN, from : Sources \cup {None}, joins : Seq(Join)]
  BY DEF Queries
<1>2. Rows[to] \X Rows[s] \in Pairs
  OBVIOUS
<1>. HIDE DEF Pairs
<1>3. on \in On
  BY <1>2
<1>. HIDE DEF On
<1>4. j \in Join
  BY <1>3
<1>5. query' = [query EXCEPT !.joins = Append(@, j)] /\ Call
  BY DEF JOIN
<1>. HIDE DEF Join, j
<1>6. query' \in Queries
  <2>1. query \in [columnar : BOOLEAN, from : Sources \cup {None}, joins : Seq(Join)]
    BY <1>1 DEF IInv
  <2>2. Append(query.joins, j) \in Seq(Join)
    <3>1. query.joins \in Seq(Join)
      BY <2>1
    <3>. QED  BY <1>4, <3>1, AppendProperties
  <2>. QED  BY <1>1, <1>5, <2>1, <2>2
<1>. QED  BY <1>5, <1>6, CallKeeps

LEMMA AwaitKeeps ==
    ASSUME IInv, NEW t \in Readers, Await(t)
    PROVE  IInv'
<1>. DEFINE e == [Resting EXCEPT !.at = "sent", !.mode = "await", !.sent = query]
<1>1. query \in Queries /\ Readable(query)
  BY DEF Await, IInv, Readable, Queries
<1>2. Good(e)
  <2>1. /\ Record(e) /\ e.at = "sent" /\ e.mode = "await" /\ e.sent = query
        /\ e.rows = {} /\ e.got = {}
    BY RestingRecord DEF Record, Fields
  <2>. HIDE DEF e
  <2>. QED  BY <1>1, <2>1 DEF Good
<1>3. Set(t, e)
  BY DEF Await
<1>. QED  BY <1>2, <1>3, SetGood

LEMMA StreamKeeps ==
    ASSUME IInv, NEW t \in Readers, Stream(t)
    PROVE  IInv'
<1>. DEFINE e == [Resting EXCEPT !.at = "sent", !.mode = "stream", !.sent = query,
                                 !.plan = query]
<1>1. query \in Queries /\ Readable(query)
  BY DEF Stream, IInv, Readable, Queries
<1>2. Good(e)
  <2>1. /\ Record(e) /\ e.at = "sent" /\ e.mode = "stream" /\ e.sent = query
        /\ e.plan = query /\ e.rows = {} /\ e.got = {}
    BY RestingRecord DEF Record, Fields
  <2>. HIDE DEF e
  <2>. QED  BY <1>1, <2>1 DEF Good
<1>3. Set(t, e) \/ Set(t, Resting)
  BY DEF Stream
<1>. QED  BY <1>2, <1>3, RestingGood, SetGood

LEMMA ServeKeeps ==
    ASSUME IInv, NEW t \in Readers, Serve(t)
    PROVE  IInv'
<1>. DEFINE r == reader[t]
            e == [r EXCEPT !.at = "served", !.rows = Joined(r.sent)]
<1>1. Good(r) /\ r.at = "sent"
  BY DEF Serve, IInv
<1>2. /\ Record(e) /\ e.at = "served" /\ e.mode = r.mode /\ e.sent = r.sent
      /\ e.plan = r.plan /\ e.rows = Joined(r.sent) /\ e.got = r.got
  BY <1>1 DEF Good, Record, Fields
<1>3. Set(t, e)
  BY DEF Serve
<1>. HIDE DEF r, e
<1>4. Good(e)
  BY <1>1, <1>2 DEF Good
<1>. QED  BY <1>3, <1>4, SetGood

LEMMA ReturnKeeps ==
    ASSUME IInv, NEW t \in Readers, Return(t)
    PROVE  IInv'
<1>. DEFINE r == reader[t]
            Map(x) == Mapped(query, Flat(r.sent, x))
            got == {<<x, Map(x)>> : x \in r.rows}
            e == [r EXCEPT !.at = "done", !.plan = query, !.rows = {}, !.got = got]
<1>1. Good(r) /\ r.at = "served" /\ r.mode = "await" /\ query \in Queries
  BY DEF Return, IInv
<1>2. \/ Set(t, Resting)
      \/ Set(t, e) /\ \A x \in r.rows : ~Fails(Map(x))
  BY DEF Return
<1>3. ASSUME \A x \in r.rows : ~Fails(Map(x)) PROVE Good(e)
  <2>1. \A p \in got : \E x \in r.rows : p[1] = x /\ p[2] = Map(x)
    OBVIOUS
  <2>. HIDE DEF got
  <2>2. /\ Record(e) /\ e.at = "done" /\ e.mode = r.mode /\ e.sent = r.sent
        /\ e.plan = query /\ e.rows = {} /\ e.got = got
    BY <1>1 DEF Good, Record, Fields
  <2>. HIDE DEF e, r, Map
  <2>3. \A p \in got : /\ Readable(r.sent) /\ p[1] \in Joined(r.sent)
                       /\ p[2] = Map(p[1]) /\ ~Fails(p[2])
    BY <1>1, <1>3, <2>1 DEF Good
  <2>. QED  BY <1>1, <2>2, <2>3 DEF Good, Map
<1>. HIDE DEF e
<1>. QED  BY <1>2, <1>3, RestingGood, SetGood

LEMMA YieldKeeps ==
    ASSUME IInv, NEW t \in Readers, Yield(t)
    PROVE  IInv'
<1>. DEFINE r == reader[t]
            Map(x) == Mapped(r.plan, Flat(r.sent, x))
<1>1. Good(r) /\ r.at = "served"
  BY DEF Yield, IInv
<1>. DEFINE After(x) == [r EXCEPT !.rows = @ \ {x}, !.got = @ \cup {<<x, Map(x)>>}]
<1>2. PICK x \in r.rows : Set(t, Resting) \/ (Set(t, After(x)) /\ ~Fails(Map(x)))
  BY DEF Yield
<1>. DEFINE e == After(x)
<1>3. ASSUME ~Fails(Map(x)) PROVE Good(e)
  <2>1. /\ Record(e) /\ e.at = r.at /\ e.mode = r.mode /\ e.sent = r.sent
        /\ e.plan = r.plan /\ e.rows = r.rows \ {x} /\ e.got = r.got \cup {<<x, Map(x)>>}
    BY <1>1 DEF Good, Record, Fields
  <2>. HIDE DEF e, After, r
  <2>2. Readable(r.sent) /\ x \in Joined(r.sent)
    BY <1>1, <1>2 DEF Good
  <2>3. \A p \in r.got \cup {<<x, Map(x)>>} :
           /\ Readable(r.sent) /\ p[1] \in Joined(r.sent)
           /\ p[2] = Map(p[1]) /\ ~Fails(p[2])
    BY <1>1, <1>3, <2>2 DEF Good
  <2>. QED  BY <1>1, <2>1, <2>3 DEF Good, Map
<1>. HIDE DEF Map, After, r
<1>. QED  BY <1>2, <1>3, RestingGood, SetGood

LEMMA LeaveKeeps ==
    ASSUME IInv, NEW t \in Readers, Leave(t)
    PROVE  IInv'
<1>. DEFINE r == reader[t]
            e == [r EXCEPT !.at = "done", !.rows = {}]
<1>1. Good(r) /\ r.at = "served" /\ r.mode = "stream"
  BY DEF Leave, IInv
<1>2. /\ Record(e) /\ e.at = "done" /\ e.mode = r.mode /\ e.sent = r.sent
      /\ e.plan = r.plan /\ e.rows = {} /\ e.got = r.got
  BY <1>1 DEF Good, Record, Fields
<1>3. Set(t, e)
  BY DEF Leave
<1>. HIDE DEF r, e
<1>4. r.plan \in Queries
  BY <1>1 DEF Good, Readable
<1>5. Good(e)
  BY <1>1, <1>2, <1>4 DEF Good
<1>. QED  BY <1>3, <1>5, SetGood

LEMMA NextIInv == IInv /\ [Next]_vars => IInv'
<1>. SUFFICES ASSUME IInv, [Next]_vars PROVE IInv'
  OBVIOUS
<1>1. CASE UNCHANGED vars
  BY <1>1 DEF vars, IInv
<1>2. CASE \E s \in Sources : FROM(s)
  BY <1>2, FROMKeeps
<1>3. CASE \E kind \in Kinds, s, to \in Sources :
              \E on \in SUBSET (Rows[to] \X Rows[s]) : JOIN(kind, s, to, on)
  BY <1>3, JOINKeeps
<1>4. CASE \E t \in Readers : Await(t)
  BY <1>4, AwaitKeeps
<1>5. CASE \E t \in Readers : Stream(t)
  BY <1>5, StreamKeeps
<1>6. CASE \E t \in Readers : Serve(t)
  BY <1>6, ServeKeeps
<1>7. CASE \E t \in Readers : Refuse(t) \/ Again(t)
  BY <1>7, RestingGood, SetGood DEF Refuse, Again
<1>8. CASE \E t \in Readers : Return(t)
  BY <1>8, ReturnKeeps
<1>9. CASE \E t \in Readers : Yield(t)
  BY <1>9, YieldKeeps
<1>10. CASE \E t \in Readers : Leave(t)
  BY <1>10, LeaveKeeps
<1>. QED  BY <1>1, <1>2, <1>3, <1>4, <1>5, <1>6, <1>7, <1>8, <1>9, <1>10 DEF Next

LEMMA Inductive == Spec => []IInv
<1>. QED  BY InitIInv, NextIInv, PTL DEF Spec

----------------------------------------------------------------------------
(* The results.                                                            *)

\* The variables hold what the code can put there: in particular, the plan of
\* a finished execution is a query, whether an await or a stream finished.
THEOREM TypeCorrect == Spec => []TypeOK
<1>1. IInv => TypeOK
  BY DEF IInv, Good, TypeOK
<1>. QED  BY <1>1, Inductive, PTL

\* What an execution hands out that counts was mapped by the query it sent.
LEMMA DeliveredRows ==
    ASSUME IInv, NEW t \in Readers, NEW p \in Delivered(t)
    PROVE  /\ Readable(reader[t].sent) /\ p[1] \in Joined(reader[t].sent)
           /\ p[2] = Mapped(reader[t].sent, Flat(reader[t].sent, p[1])) /\ ~Fails(p[2])
<1>. DEFINE r == reader[t]
<1>1. Good(r)
  BY DEF IInv
<1>2. p \in r.got /\ (r.mode = "stream" \/ r.plan = r.sent)
  BY DEF Delivered
<1>. HIDE DEF r
<1>3. r.plan = r.sent
  BY <1>1, <1>2 DEF Good
<1>. QED  BY <1>1, <1>2, <1>3 DEF Good, r

\* Every side that the join matched comes back as the object of its own row:
\* _row_mapper's slices fit any number of joins of any width, and a stream is
\* not disturbed by others who change the builder.
THEOREM MatchedSidesAreKept == Spec => []MatchedSidesKept
<1>1. IInv => MatchedSidesKept
  <2>. SUFFICES ASSUME IInv, NEW t \in Readers, NEW p \in Delivered(t), Objects(t),
                       NEW k \in 1..Len(p[1]), p[1][k] # None,
                       Identifiable(Named(reader[t].sent)[k], p[1][k])
                PROVE  p[2][k] = [source |-> Named(reader[t].sent)[k], values |-> p[1][k]]
    BY Zenon DEF MatchedSidesKept
  <2>. DEFINE q == reader[t].sent
  <2>1. /\ Readable(q) /\ p[1] \in Joined(q)
        /\ p[2] = Mapped(q, Flat(q, p[1])) /\ ~Fails(p[2])
    BY DeliveredRows
  <2>2. ~q.columnar
    BY DEF Objects
  <2>. HIDE DEF q
  <2>3. p[2][k] = [source |-> Named(q)[k], values |-> p[1][k]]
    BY <2>1, <2>2, MatchedSide DEF q
  <2>. QED  BY <2>3 DEF q
<1>. QED  BY <1>1, Inductive, PTL

\* What a join missed comes back as None in every chain whose earlier sides are
\* optional wherever a RIGHT or FULL join follows them: there _row_mapper's rule
\* (FROM's side by any such join, the others by their own) is exact.
THEOREM MissedSidesAreNone == Spec => []MissedSidesNone
<1>1. IInv => MissedSidesNone
  <2>. SUFFICES ASSUME IInv, NEW t \in Readers, NEW p \in Delivered(t),
                       Objects(t), Sound(reader[t].sent),
                       NEW k \in 1..Len(p[1]), p[1][k] = None
                PROVE  p[2][k] = None
    BY Zenon DEF MissedSidesNone
  <2>. DEFINE q == reader[t].sent
  <2>1. /\ Readable(q) /\ p[1] \in Joined(q)
        /\ p[2] = Mapped(q, Flat(q, p[1])) /\ ~Fails(p[2])
    BY DeliveredRows
  <2>2. ~q.columnar
    BY DEF Objects
  <2>. HIDE DEF q
  <2>. QED  BY <2>1, <2>2, MissedSide DEF q
<1>. QED  BY <1>1, Inductive, PTL

=============================================================================
