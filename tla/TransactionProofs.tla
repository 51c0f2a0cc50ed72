------------------------- MODULE TransactionProofs -------------------------
(***************************************************************************)
(* Theorems about Transaction, for any tasks, instances and rows: its      *)
(* invariants, and that it implements NestedTx.                            *)
(***************************************************************************)
EXTENDS TransactionRefinement, TLAPS, SequenceTheorems, WellFoundedInduction

\* What a statement under way says about the instance it was sent for.
EnteringMode ==
    \A t \in Tasks : stmt[t].kind \in Entering =>
        (savepoint[stmt[t].arg] <=> stmt[t].kind = "SAVEPOINT")

LeavingInnermost ==
    \A t \in Tasks : stmt[t].kind \in Leaving =>
        /\ stack[t] # <<>>
        /\ stmt[t].arg = Innermost(t)
        /\ savepoint[stmt[t].arg] <=> stmt[t].kind \notin Ending

IInv == TypeOK /\ EnteringMode /\ LeavingInnermost /\ FlagNeverStranded

----------------------------------------------------------------------------
(* Lemmas on stacks and statements.                                        *)

\* Leaving a block keeps the blocks around it.
LEMMA PopKeeps ==
    ASSUME NEW S, NEW s \in Seq(S), s # <<>>
    PROVE  /\ Len(s) \in Nat \ {0}
           /\ SubSeq(s, 1, Len(s) - 1) \in Seq(S)
           /\ Len(SubSeq(s, 1, Len(s) - 1)) = Len(s) - 1
           /\ \A k \in 1..Len(s) - 1 : SubSeq(s, 1, Len(s) - 1)[k] = s[k]
<1>. DEFINE n == Len(s) - 1
<1>1. n \in Nat /\ Len(s) = n + 1 /\ \A i \in 1..n : s[i] \in S
  OBVIOUS
<1>. HIDE DEF n
<1>2. \A m \in Int : (\A i \in m..n : s[i] \in S) =>
         Len(SubSeq(s, m, n)) = IF m <= n THEN n - m + 1 ELSE 0
  BY <1>1, SubSeqProperties
<1>3. Len(SubSeq(s, 1, n)) = n
  BY <1>1, <1>2
<1>4. /\ SubSeq(s, 1, Len(s) - 1) \in Seq(S)
      /\ \A k \in 1..Len(s) - 1 : SubSeq(s, 1, Len(s) - 1)[k] = s[k]
  OBVIOUS
<1>. QED  BY <1>1, <1>3, <1>4 DEF n

\* What is left of the server's savepoints is still a list of savepoints.
LEMMA PrefixTyped ==
    ASSUME NEW S, NEW s \in Seq(S), NEW n \in 1..Len(s)
    PROVE  /\ SubSeq(s, 1, n) \in Seq(S) /\ SubSeq(s, 1, n - 1) \in Seq(S)
           /\ s[n] \in S
OBVIOUS

\* Entering a block keeps the blocks around it.
LEMMA PushKeeps ==
    ASSUME NEW S, NEW s \in Seq(S), NEW e \in S
    PROVE  /\ Append(s, e) \in Seq(S) /\ Append(s, e) # <<>>
           /\ Len(s) \in Nat /\ Len(Append(s, e)) = Len(s) + 1
           /\ \A k \in 1..Len(s) : Append(s, e)[k] = s[k]
           /\ Append(s, e)[Len(s) + 1] = e
           /\ Len(s) = 0 <=> s = <<>>
<1>1. /\ Append(s, e) \in Seq(S) /\ Len(Append(s, e)) = Len(s) + 1 /\ Len(s) \in Nat
      /\ \A k \in 1..Len(s) : Append(s, e)[k] = s[k]
      /\ Append(s, e)[Len(s) + 1] = e
  BY AppendProperties
<1>2. Append(s, e) # <<>>
  BY <1>1, EmptySeq
<1>3. Len(s) = 0 <=> s = <<>>
  BY EmptySeq
<1>. QED  BY <1>1, <1>2, <1>3

\* A reply changes the phase of a statement and nothing else of it.
LEMMA PhaseOnly ==
    ASSUME NEW s \in Statements, s.phase # "none",
           NEW r \in {"sent"} \cup Replies
    PROVE  /\ [s EXCEPT !.phase = r] \in Statements
           /\ [s EXCEPT !.phase = r].kind = s.kind
           /\ [s EXCEPT !.phase = r].arg = s.arg
           /\ [s EXCEPT !.phase = r].phase = r
BY DEF Statements, Idle, Replies

\* Which argument a statement carries.
LEMMA StatementArgs ==
    ASSUME NEW s \in Statements
    PROVE  /\ s.kind \in Entering \cup Leaving => s.arg \in Insts
           /\ s.kind = "write" => s.arg \in Writes
           /\ s.phase = "none" <=> s = Idle
           /\ s.kind = "none" <=> s = Idle
           /\ s.phase \in {"none", "sent"} \cup Replies
           /\ s.kind \in {"none", "write"} \cup Entering \cup Leaving
<1>1. CASE s = Idle
  BY <1>1 DEF Idle, Replies, Entering, Leaving, Ending
<1>2. CASE s \in [kind : Entering \cup Leaving, arg : Insts,
                  phase : {"sent"} \cup Replies]
  <2>1. /\ s.kind \in Entering \cup Leaving
        /\ s.arg \in Insts
        /\ s.phase \in {"sent"} \cup Replies
    BY <1>2
  <2>2. s.kind # "none" /\ s.kind # "write" /\ s.phase # "none"
    BY <2>1 DEF Replies, Entering, Leaving, Ending
  <2>3. s # Idle
    BY <2>2 DEF Idle
  <2>. QED  BY <2>1, <2>2, <2>3
<1>3. CASE s \in [kind : {"write"}, arg : Writes, phase : {"sent"} \cup Replies]
  <2>1. s.kind = "write" /\ s.arg \in Writes /\ s.phase \in {"sent"} \cup Replies
    BY <1>3
  <2>. QED  BY <2>1 DEF Idle, Replies, Entering, Leaving, Ending
<1>. QED  BY <1>1, <1>2, <1>3 DEF Statements

\* Savepoints by name, the most recent first.
Has(s, i) == \E k \in 1..Len(s) : s[k].name = i
At(s, i) ==
    CHOOSE k \in 1..Len(s) : s[k].name = i /\ \A l \in k+1..Len(s) : s[l].name # i

\* A savepoint that is defined has a most recent definition.
LEMMA MostRecent ==
    ASSUME NEW S, NEW s \in Seq(S), NEW i, Has(s, i)
    PROVE  /\ At(s, i) \in 1..Len(s)
           /\ s[At(s, i)].name = i
           /\ \A l \in At(s, i)+1..Len(s) : s[l].name # i
<1>. DEFINE T == {n \in Nat : n < Len(s) /\ s[Len(s) - n].name = i}
            Less == OpToRel(<, Nat)
<1>1. PICK k \in 1..Len(s) : s[k].name = i
  BY DEF Has
<1>2. Len(s) - k \in T
  BY <1>1
<1>3. IsWellFoundedOn(Less, Nat)
  BY NatLessThanWellFounded
<1>4. PICK n \in T : \A m \in T : <<m, n>> \notin Less
  <2>. HIDE DEF Less
  <2>. T \subseteq Nat /\ T # {}
    BY <1>2
  <2>. HIDE DEF T
  <2>. QED  BY <1>3, WFMin
<1>5. \A m \in T : ~(m < n)
  BY <1>4 DEF OpToRel
<1>6. \A l \in (Len(s) - n)+1..Len(s) : s[l].name # i
  <2>. SUFFICES ASSUME NEW l \in (Len(s) - n)+1..Len(s), s[l].name = i
                PROVE  FALSE
    OBVIOUS
  <2>1. Len(s) - l \in T /\ Len(s) - l < n
    OBVIOUS
  <2>. QED  BY <1>5, <2>1
<1>7. /\ Len(s) - n \in 1..Len(s)
      /\ s[Len(s) - n].name = i
  <2>1. n \in Nat /\ n < Len(s) /\ s[Len(s) - n].name = i
    OBVIOUS
  <2>. QED  BY <2>1
<1>. HIDE DEF T, Less
<1>. QED  BY <1>6, <1>7 DEF At

LEMMA PositionInRange ==
    ASSUME NEW S, sps \in Seq(S), NEW i, Defined(i)
    PROVE  /\ Position(i) \in 1..Len(sps)
           /\ sps[Position(i)].name = i
  BY MostRecent DEF Position, Defined, Has, At

LEMMA AtUnique ==
    ASSUME NEW s, Len(s) \in Nat, NEW i, NEW k \in 1..Len(s), s[k].name = i,
           \A l \in k+1..Len(s) : s[l].name # i
    PROVE  Has(s, i) /\ At(s, i) = k
<1>1. \A m \in 1..Len(s) :
          (s[m].name = i /\ \A l \in m+1..Len(s) : s[l].name # i) => m = k
  OBVIOUS
<1>. QED  BY <1>1 DEF Has, At

\* A new savepoint is the most recent; the others stay where they are.
LEMMA AppendAt ==
    ASSUME NEW S, NEW s \in Seq(S), NEW e \in S
    PROVE  /\ Has(Append(s, e), e.name) /\ At(Append(s, e), e.name) = Len(s) + 1
           /\ \A i : (i # e.name /\ Has(s, i)) =>
                 Has(Append(s, e), i) /\ At(Append(s, e), i) = At(s, i)
<1>. DEFINE r == Append(s, e)
<1>1. /\ Len(s) \in Nat /\ Len(r) = Len(s) + 1 /\ r[Len(s) + 1] = e
      /\ \A k \in 1..Len(s) : r[k] = s[k]
  BY PushKeeps
<1>. HIDE DEF r
<1>2. Has(r, e.name) /\ At(r, e.name) = Len(s) + 1
  BY <1>1, AtUnique
<1>3. ASSUME NEW i, i # e.name, Has(s, i)
      PROVE  Has(r, i) /\ At(r, i) = At(s, i)
  <2>1. /\ At(s, i) \in 1..Len(s) /\ s[At(s, i)].name = i
        /\ \A l \in At(s, i)+1..Len(s) : s[l].name # i
    BY <1>3, MostRecent
  <2>2. \A l \in At(s, i)+1..Len(r) : r[l].name # i
    BY <1>1, <1>3, <2>1
  <2>. QED  BY <1>1, <2>1, <2>2, AtUnique
<1>. QED  BY <1>2, <1>3 DEF r

\* Discarding the most recent savepoints leaves the others where they are.
LEMMA PrefixAt ==
    ASSUME NEW S, NEW s \in Seq(S), NEW n \in 0..Len(s), NEW i, Has(s, i), At(s, i) <= n
    PROVE  Has(SubSeq(s, 1, n), i) /\ At(SubSeq(s, 1, n), i) = At(s, i)
<1>. DEFINE r == SubSeq(s, 1, n)
<1>1. /\ Len(s) \in Nat /\ Len(r) = n
      /\ \A k \in 1..n : r[k] = s[k]
  OBVIOUS
<1>2. /\ At(s, i) \in 1..n /\ s[At(s, i)].name = i
      /\ \A l \in At(s, i)+1..Len(s) : s[l].name # i
  BY MostRecent
<1>. HIDE DEF r
<1>3. \A l \in At(s, i)+1..Len(r) : r[l].name # i
  BY <1>1, <1>2
<1>4. Len(r) \in Nat /\ At(s, i) \in 1..Len(r)
  BY <1>1, <1>2
<1>5. r[At(s, i)].name = i
  BY <1>1, <1>2
<1>6. Has(r, i) /\ At(r, i) = At(s, i)
  BY <1>3, <1>4, <1>5, AtUnique
<1>. QED  BY <1>6 DEF r

----------------------------------------------------------------------------
(* IInv is inductive.                                                      *)

LEMMA InitIInv == Init => IInv
<1>. SUFFICES ASSUME Init PROVE IInv
  OBVIOUS
<1>1. TypeOK
  <2>1. <<>> \in Seq(Insts) /\ <<>> \in Seq([name : Insts, snap : SUBSET Writes])
    OBVIOUS
  <2>2. Idle \in Statements
    BY DEF Statements
  <2>. QED  BY <2>1, <2>2 DEF Init, TypeOK
<1>2. EnteringMode /\ LeavingInnermost /\ FlagNeverStranded
  BY DEF Init, EnteringMode, LeavingInnermost, FlagNeverStranded,
         Idle, Entering, Leaving, Ending
<1>. QED  BY <1>1, <1>2 DEF IInv

\* Steps that only move a statement to a later phase.
LEMMA PhaseStep ==
    ASSUME IInv, NEW t \in Tasks, stmt[t].phase # "none", NEW r \in Replies,
           Reply(t, r), UNCHANGED client
    PROVE  /\ stmt' \in [Tasks -> Statements]
           /\ EnteringMode' /\ LeavingInnermost' /\ FlagNeverStranded'
<1>1. stmt[t] \in Statements /\ stmt \in [Tasks -> Statements]
  BY DEF IInv, TypeOK
<1>2. stmt' = [stmt EXCEPT ![t] = [stmt[t] EXCEPT !.phase = r]]
  BY <1>1 DEF Reply
<1>3. /\ stmt' \in [Tasks -> Statements]
      /\ \A u \in Tasks : stmt'[u].kind = stmt[u].kind /\ stmt'[u].arg = stmt[u].arg
  BY <1>1, <1>2, PhaseOnly
<1>. QED
  BY <1>3 DEF IInv, EnteringMode, LeavingInnermost, FlagNeverStranded, Innermost,
              client

----------------------------------------------------------------------------

LEMMA EnterIInv ==
    ASSUME IInv, NEW t \in Tasks, NEW i \in Insts, Enter(t, i)
    PROVE  IInv'
<1>. USE DEF IInv
<1>1. ~InUse(i) /\ Running(t) /\ UNCHANGED <<flag, owner, stack, server>>
  BY DEF Enter
<1>2. PICK kind \in Entering \cup {"none"} :
        /\ stmt' = [stmt EXCEPT ![t] = IF kind = "none" THEN Idle
                       ELSE [kind |-> kind, arg |-> i, phase |-> "sent"]]
        /\ savepoint' = [savepoint EXCEPT ![i] = kind = "SAVEPOINT"]
  <2>. DEFINE New(kind) == IF kind = "none" THEN Idle
                           ELSE [kind |-> kind, arg |-> i, phase |-> "sent"]
              Fits(kind) ==
                /\ stmt' = [stmt EXCEPT ![t] = New(kind)]
                /\ savepoint' = [savepoint EXCEPT ![i] = kind = "SAVEPOINT"]
  <2>1. CASE flag /\ Foreign(t)
    <3>1. savepoint' = [savepoint EXCEPT ![i] = FALSE] /\ stmt' = stmt
      BY <2>1 DEF Enter
    <3>2. stmt = [stmt EXCEPT ![t] = New("none")]
      BY <1>1 DEF Running, TypeOK
    <3>3. ("none" = "SAVEPOINT") = FALSE
      OBVIOUS
    <3>4. Fits("none")
      BY <3>1, <3>2, <3>3, Zenon
    <3>. HIDE DEF Fits
    <3>5. \E kind \in Entering \cup {"none"} : Fits(kind)
      BY <3>4
    <3>. QED  BY <3>5 DEF Fits
  <2>2. CASE flag /\ ~Foreign(t)
    <3>1. /\ savepoint' = [savepoint EXCEPT ![i] = TRUE]
          /\ stmt' = [stmt EXCEPT ![t] = New("SAVEPOINT")]
      BY <2>2 DEF Enter, Send
    <3>2. ("SAVEPOINT" = "SAVEPOINT") = TRUE
      OBVIOUS
    <3>3. Fits("SAVEPOINT")
      BY <3>1, <3>2, Zenon
    <3>. HIDE DEF Fits
    <3>4. \E kind \in Entering \cup {"none"} : Fits(kind)
      BY <3>3 DEF Entering
    <3>. QED  BY <3>4 DEF Fits
  <2>3. CASE ~flag
    <3>1. /\ savepoint' = [savepoint EXCEPT ![i] = FALSE]
          /\ stmt' = [stmt EXCEPT ![t] = New("BEGIN")]
      BY <2>3 DEF Enter, Send
    <3>2. ("BEGIN" = "SAVEPOINT") = FALSE
      OBVIOUS
    <3>3. Fits("BEGIN")
      BY <3>1, <3>2, Zenon
    <3>. HIDE DEF Fits
    <3>4. \E kind \in Entering \cup {"none"} : Fits(kind)
      BY <3>3 DEF Entering
    <3>. QED  BY <3>4 DEF Fits
  <2>. QED  BY <2>1, <2>2, <2>3
<1>3. TypeOK'
  <2>1. exc' \in [Tasks -> BOOLEAN]
    BY DEF Enter, TypeOK
  <2>2. (IF kind = "none" THEN Idle ELSE [kind |-> kind, arg |-> i, phase |-> "sent"])
            \in Statements
    BY DEF Statements
  <2>. QED  BY <1>1, <1>2, <2>1, <2>2 DEF TypeOK, server
<1>4. \A u \in Tasks : stmt[u].kind # "none" => stmt[u].arg # i /\ u # t
  BY <1>1 DEF InUse, Running, Idle
<1>5. EnteringMode'
  BY <1>1, <1>2, <1>4, StatementArgs DEF EnteringMode, TypeOK, Idle, Entering
<1>6. \A u \in Tasks : \A k \in 1..Len(stack[u]) : stack[u][k] # i
  BY <1>1 DEF InUse, On
<1>7. LeavingInnermost'
  <2>1. \A u \in Tasks : stmt'[u].kind \in Leaving =>
            stmt'[u] = stmt[u] /\ stmt[u].arg # i /\ stmt[u].arg \in Insts
    BY <1>2, <1>4, StatementArgs DEF TypeOK, Idle, Entering, Leaving, Ending
  <2>. QED  BY <1>1, <1>2, <2>1 DEF LeavingInnermost, TypeOK, Innermost
<1>8. FlagNeverStranded'
  BY <1>1, <1>2, <1>6 DEF FlagNeverStranded, TypeOK
<1>. QED  BY <1>3, <1>5, <1>7, <1>8

----------------------------------------------------------------------------

LEMMA EnterReturnsIInv ==
    ASSUME IInv, NEW t \in Tasks, EnterReturns(t)
    PROVE  IInv'
<1>. USE DEF IInv
<1>1. /\ stmt[t].kind \in Entering /\ stmt[t].arg \in Insts
      /\ stmt' = [stmt EXCEPT ![t] = Idle] /\ UNCHANGED <<savepoint, server>>
  BY StatementArgs DEF EnterReturns, Returned, TypeOK
<1>. DEFINE s == Append(stack[t], stmt[t].arg)
<1>2. /\ stack[t] \in Seq(Insts) /\ s \in Seq(Insts)
      /\ Len(s) = Len(stack[t]) + 1 /\ Len(stack[t]) \in Nat
      /\ \A k \in 1..Len(stack[t]) : s[k] = stack[t][k]
      /\ s[Len(s)] = stmt[t].arg
  BY <1>1, AppendProperties DEF TypeOK
<1>. HIDE DEF s
<1>3. \/ stack' = [stack EXCEPT ![t] = s]
      \/ UNCHANGED <<stack, flag, owner>>
  BY DEF EnterReturns, handle, s
<1>4. TypeOK'
  <2>1. exc' \in [Tasks -> BOOLEAN] /\ flag' \in BOOLEAN /\ owner' \in Tasks \cup {None}
    BY DEF EnterReturns, TypeOK, handle
  <2>2. stmt' \in [Tasks -> Statements]
    BY <1>1 DEF TypeOK, Statements
  <2>. QED  BY <1>1, <1>2, <1>3, <2>1, <2>2 DEF TypeOK, server
<1>5. EnteringMode'
  BY <1>1 DEF EnteringMode, TypeOK, Idle, Entering
<1>6. \A u \in Tasks : u # t => stack'[u] = stack[u] /\ stmt'[u] = stmt[u]
  BY <1>1, <1>3 DEF TypeOK
<1>7. LeavingInnermost'
  <2>1. stmt'[t].kind \notin Leaving
    BY <1>1 DEF TypeOK, Idle, Leaving, Ending
  <2>. QED  BY <1>1, <1>6, <2>1 DEF LeavingInnermost, Innermost
<1>8. FlagNeverStranded'
  <2>1. CASE stmt[t].phase = "ok" /\ stmt[t].kind = "BEGIN"
    <3>1. owner' = t /\ stack'[t] = s
      BY <2>1 DEF EnterReturns, TypeOK, s
    <3>2. ~savepoint'[s[Len(s)]] /\ Len(s) \in 1..Len(s)
      BY <1>1, <1>2, <2>1 DEF EnteringMode
    <3>. QED  BY <3>1, <3>2 DEF FlagNeverStranded
  <2>2. CASE ~(stmt[t].phase = "ok" /\ stmt[t].kind = "BEGIN")
    <3>1. UNCHANGED <<flag, owner>>
      BY <2>2 DEF EnterReturns, handle
    <3>2. \A u \in Tasks : \A k \in 1..Len(stack[u]) :
              k \in 1..Len(stack'[u]) /\ stack'[u][k] = stack[u][k]
      <4>. TAKE u \in Tasks
      <4>1. CASE u = t /\ stack' = [stack EXCEPT ![t] = s]
        <5>1. stack'[u] = s
          BY <4>1 DEF TypeOK
        <5>. QED  BY <4>1, <5>1, <1>2
      <4>2. CASE u # t \/ stack' = stack
        BY <1>6, <4>2
      <4>. QED  BY <1>3, <4>1, <4>2
    <3>. QED  BY <1>1, <3>1, <3>2 DEF FlagNeverStranded
  <2>. QED  BY <2>1, <2>2
<1>. QED  BY <1>4, <1>5, <1>7, <1>8

\* A task at work sends a statement from inside its block, or outside any.
LEMMA ExitIInv ==
    ASSUME IInv, NEW t \in Tasks, Exit(t)
    PROVE  IInv'
<1>. USE DEF IInv
<1>. DEFINE i == Innermost(t)
            kind == ExitStatement(i, exc[t])
<1>1. /\ i \in Insts
      /\ stack[t] # <<>> /\ UNCHANGED <<client, server>>
      /\ stmt' = [stmt EXCEPT ![t] = [kind |-> kind, arg |-> i, phase |-> "sent"]]
  BY DEF Exit, Send, Innermost, TypeOK
<1>2. kind \in Leaving /\ (savepoint[i] <=> kind \notin Ending)
  BY DEF ExitStatement, Leaving, Ending
<1>. HIDE DEF i, kind
<1>3. TypeOK'
  <2>. [kind |-> kind, arg |-> i, phase |-> "sent"] \in Statements
    BY <1>1, <1>2 DEF Statements
  <2>. QED  BY <1>1 DEF TypeOK, client, server
<1>4. EnteringMode'
  BY <1>1, <1>2 DEF EnteringMode, TypeOK, Entering, Leaving, Ending, client
<1>5. LeavingInnermost'
  BY <1>1, <1>2 DEF LeavingInnermost, TypeOK, Innermost, client, i
<1>6. FlagNeverStranded'
  BY <1>1 DEF FlagNeverStranded, client
<1>. QED  BY <1>3, <1>4, <1>5, <1>6

\* After a pop, every block but the innermost is still there.
LEMMA PopStep ==
    ASSUME IInv, NEW t \in Tasks, stmt[t].kind \in Leaving, Pop(t),
           stmt' = [stmt EXCEPT ![t] = Idle], UNCHANGED savepoint
    PROVE  /\ stack' \in [Tasks -> Seq(Insts)] /\ stmt' \in [Tasks -> Statements]
           /\ EnteringMode' /\ LeavingInnermost'
           /\ stmt[t].kind \notin Ending /\ UNCHANGED <<flag, owner>> => FlagNeverStranded'
<1>. USE DEF IInv
<1>1. stack[t] \in Seq(Insts) /\ stack[t] # <<>>
  BY DEF TypeOK, LeavingInnermost
<1>. DEFINE s == SubSeq(stack[t], 1, Len(stack[t]) - 1)
<1>2. /\ s \in Seq(Insts) /\ Len(s) = Len(stack[t]) - 1
      /\ Len(stack[t]) \in Nat \ {0}
      /\ \A k \in 1..Len(stack[t]) - 1 : s[k] = stack[t][k]
  BY <1>1, PopKeeps
<1>3. stack' = [stack EXCEPT ![t] = s]
  BY DEF Pop, TypeOK
<1>. HIDE DEF s
<1>4. stack' \in [Tasks -> Seq(Insts)] /\ stmt' \in [Tasks -> Statements]
  BY <1>2, <1>3 DEF TypeOK, Statements
<1>5. EnteringMode'
  BY DEF EnteringMode, TypeOK, Idle, Entering
<1>6. LeavingInnermost'
  BY <1>3 DEF LeavingInnermost, Innermost, TypeOK, Idle, Leaving, Ending
<1>7. ASSUME stmt[t].kind \notin Ending, UNCHANGED <<flag, owner>>, flag
      PROVE  FlagNeverStranded'
  <2>1. PICK k \in 1..Len(stack[owner]) : ~savepoint[stack[owner][k]]
    BY <1>7 DEF FlagNeverStranded
  <2>2. owner \in Tasks
    BY <1>7 DEF FlagNeverStranded
  <2>3. savepoint[stack[t][Len(stack[t])]]
    BY <1>7 DEF LeavingInnermost, Innermost
  <2>4. k \in 1..Len(stack'[owner]) /\ stack'[owner][k] = stack[owner][k]
    <3>1. CASE owner = t
      <4>1. stack'[owner] = s
        BY <1>3, <3>1 DEF TypeOK
      <4>2. k \in 1..Len(stack[t]) /\ k # Len(stack[t])
        BY <2>1, <2>3, <3>1
      <4>3. k \in 1..Len(stack[t]) - 1
        BY <1>2, <4>2
      <4>. QED  BY <1>2, <3>1, <4>1, <4>3
    <3>2. CASE owner # t
      <4>1. stack'[owner] = stack[owner]
        BY <1>3, <2>2, <3>2 DEF TypeOK
      <4>. QED  BY <2>1, <4>1
    <3>. QED  BY <3>1, <3>2
  <2>. QED  BY <1>7, <2>1, <2>2, <2>4 DEF FlagNeverStranded
<1>. QED  BY <1>4, <1>5, <1>6, <1>7 DEF FlagNeverStranded

LEMMA LeavingReturnsIInv ==
    ASSUME IInv, NEW t \in Tasks,
           RollbackToReturns(t) \/ ReleaseReturns(t) \/ EndReturns(t)
    PROVE  IInv'
<1>. USE DEF IInv
<1>1. CASE RollbackToReturns(t) /\ stmt[t].phase = "ok"
  <2>1. /\ stmt[t].kind = "ROLLBACK TO" /\ stmt[t].arg \in Insts
        /\ stmt' = [stmt EXCEPT ![t] =
                       [kind |-> "RELEASE", arg |-> stmt[t].arg, phase |-> "sent"]]
        /\ UNCHANGED <<flag, owner, savepoint, stack, exc, server>>
    BY <1>1, StatementArgs DEF RollbackToReturns, Returned, Send, TypeOK, Leaving
  <2>2. TypeOK'
    BY <2>1 DEF TypeOK, Statements, Leaving, server
  <2>3. EnteringMode'
    BY <2>1 DEF EnteringMode, TypeOK, Entering
  <2>4. LeavingInnermost'
    BY <2>1 DEF LeavingInnermost, TypeOK, Leaving, Ending, Innermost
  <2>. QED  BY <2>1, <2>2, <2>3, <2>4 DEF FlagNeverStranded
<1>2. CASE \/ RollbackToReturns(t) /\ stmt[t].phase # "ok"
           \/ ReleaseReturns(t)
  <2>1. /\ stmt[t].kind \in {"ROLLBACK TO", "RELEASE"} /\ Pop(t)
        /\ stmt' = [stmt EXCEPT ![t] = Idle]
        /\ exc' \in [Tasks -> BOOLEAN]
        /\ UNCHANGED <<flag, owner, savepoint, server>>
    BY <1>2 DEF RollbackToReturns, ReleaseReturns, Returned, TypeOK
  <2>2. stmt[t].kind \in Leaving /\ stmt[t].kind \notin Ending
    BY <2>1 DEF Leaving, Ending
  <2>. QED  BY <2>1, <2>2, PopStep DEF TypeOK, server
<1>3. CASE EndReturns(t)
  <2>1. /\ stmt[t].kind \in Leaving /\ Pop(t)
        /\ stmt' = [stmt EXCEPT ![t] = Idle]
        /\ exc' \in [Tasks -> BOOLEAN] /\ flag' = FALSE /\ owner' = None
        /\ UNCHANGED <<savepoint, server>>
    BY <1>3 DEF EndReturns, Returned, TypeOK, Leaving
  <2>. QED  BY <2>1, PopStep DEF TypeOK, server, FlagNeverStranded
<1>. QED  BY <1>1, <1>2, <1>3

LEMMA ProgramIInv ==
    ASSUME IInv, NEW t \in Tasks,
           \/ \E w \in Writes : Write(t, w)
           \/ WriteReturns(t) \/ Raise(t) \/ Catch(t)
    PROVE  IInv'
<1>. USE DEF IInv
<1>1. UNCHANGED <<flag, owner, savepoint, stack, server>> /\ exc' \in [Tasks -> BOOLEAN]
  BY DEF Write, WriteReturns, Raise, Catch, client, TypeOK
<1>2. PICK s \in Statements : /\ stmt' = [stmt EXCEPT ![t] = s]
                              /\ s.kind \in {"none", "write"}
  <2>1. CASE \E w \in Writes : Write(t, w)
    <3>1. PICK w \in Writes : Write(t, w)
      BY <2>1
    <3>2. [kind |-> "write", arg |-> w, phase |-> "sent"] \in Statements
      BY DEF Statements
    <3>. QED  BY <3>1, <3>2 DEF Write, Send
  <2>2. CASE WriteReturns(t)
    <3>1. Idle \in Statements /\ Idle.kind \in {"none", "write"}
      BY DEF Statements, Idle
    <3>2. stmt' = [stmt EXCEPT ![t] = Idle]
      BY <2>2 DEF WriteReturns
    <3>. QED  BY <3>1, <3>2
  <2>3. CASE Raise(t) \/ Catch(t)
    BY <2>3 DEF Raise, Catch, Running, TypeOK, Statements, Idle
  <2>. QED  BY <2>1, <2>2, <2>3
<1>3. TypeOK'
  BY <1>1, <1>2 DEF TypeOK, server
<1>4. EnteringMode'
  BY <1>1, <1>2 DEF EnteringMode, TypeOK, Entering
<1>5. LeavingInnermost'
  BY <1>1, <1>2 DEF LeavingInnermost, TypeOK, Leaving, Ending, Innermost
<1>. QED  BY <1>1, <1>3, <1>4, <1>5 DEF FlagNeverStranded

----------------------------------------------------------------------------

\* The server runs a statement: the client sees its reply and nothing else.
LEMMA ServerReplies ==
    ASSUME IInv, NEW t \in Tasks, Server(t)
    PROVE  /\ stmt[t].phase = "sent"
           /\ \E r \in {"ok", "error"} : Reply(t, r)
           /\ UNCHANGED client
<1>1. CASE ServeBegin(t)
  BY <1>1 DEF ServeBegin, Sent
<1>2. CASE ServeSavepoint(t)
  BY <1>2 DEF ServeSavepoint, Sent
<1>3. CASE ServeRelease(t)
  BY <1>3 DEF ServeRelease, Sent
<1>4. CASE ServeRollbackTo(t)
  BY <1>4 DEF ServeRollbackTo, Sent
<1>5. CASE ServeCommit(t)
  BY <1>5 DEF ServeCommit, Sent
<1>6. CASE ServeRollback(t)
  BY <1>6 DEF ServeRollback, Sent
<1>7. CASE ServeWrite(t)
  BY <1>7 DEF ServeWrite, Sent
<1>8. CASE ServeDead(t)
  BY <1>8 DEF ServeDead
<1>. QED
  BY <1>1, <1>2, <1>3, <1>4, <1>5, <1>6, <1>7, <1>8 DEF Server

LEMMA ServerTyped ==
    ASSUME IInv, NEW t \in Tasks, Server(t)
    PROVE  /\ alive' = alive
           /\ srv' \in {"idle", "open", "aborted"}
           /\ sps' \in Seq([name : Insts, snap : SUBSET Writes])
           /\ work' \in SUBSET Writes /\ durable' \in SUBSET Writes
<1>. USE DEF IInv, TypeOK
<1>. DEFINE Savepoints == [name : Insts, snap : SUBSET Writes]
<1>. stmt[t] \in Statements
  OBVIOUS
<1>0. sps \in Seq(Savepoints)
  OBVIOUS
<1>1. CASE ServeBegin(t)
  BY <1>1 DEF ServeBegin
<1>2. CASE ServeSavepoint(t)
  <2>1. stmt[t].arg \in Insts
    BY <1>2, StatementArgs DEF ServeSavepoint, Sent, Entering
  <2>2. Append(sps, [name |-> stmt[t].arg, snap |-> work]) \in Seq(Savepoints)
    BY <2>1
  <2>. QED  BY <1>2, <2>2 DEF ServeSavepoint
<1>3. CASE ServeRelease(t)
  <2>1. CASE Defined(stmt[t].arg)
    <3>1. Position(stmt[t].arg) \in 1..Len(sps)
      BY <2>1, PositionInRange
    <3>2. SubSeq(sps, 1, Position(stmt[t].arg) - 1) \in Seq(Savepoints)
      BY <3>1, <1>0, PrefixTyped
    <3>. QED  BY <1>3, <2>1, <3>2 DEF ServeRelease
  <2>2. CASE ~Defined(stmt[t].arg)
    BY <1>3, <2>2 DEF ServeRelease
  <2>. QED  BY <2>1, <2>2
<1>4. CASE ServeRollbackTo(t)
  <2>1. CASE Defined(stmt[t].arg)
    <3>1. Position(stmt[t].arg) \in 1..Len(sps)
      BY <2>1, PositionInRange
    <3>2. /\ SubSeq(sps, 1, Position(stmt[t].arg)) \in Seq(Savepoints)
          /\ sps[Position(stmt[t].arg)] \in Savepoints
      BY <3>1, <1>0, PrefixTyped
    <3>. QED  BY <1>4, <2>1, <3>2 DEF ServeRollbackTo
  <2>2. CASE ~Defined(stmt[t].arg)
    BY <1>4, <2>2 DEF ServeRollbackTo
  <2>. QED  BY <2>1, <2>2
<1>5. CASE ServeCommit(t) \/ ServeRollback(t)
  <2>. <<>> \in Seq(Savepoints)
    OBVIOUS
  <2>. QED  BY <1>5 DEF ServeCommit, ServeRollback
<1>6. CASE ServeWrite(t)
  <2>1. stmt[t].arg \in Writes
    BY <1>6, StatementArgs DEF ServeWrite, Sent
  <2>. QED  BY <1>6, <2>1 DEF ServeWrite
<1>7. CASE ServeDead(t)
  BY <1>7 DEF ServeDead, server
<1>. QED
  BY <1>1, <1>2, <1>3, <1>4, <1>5, <1>6, <1>7 DEF Server

LEMMA ServerIInv ==
    ASSUME IInv, NEW t \in Tasks, Server(t)
    PROVE  IInv'
<1>1. PICK r \in Replies : Reply(t, r)
  BY ServerReplies DEF Replies
<1>2. stmt[t].phase # "none" /\ UNCHANGED client
  BY ServerReplies
<1>. QED
  BY <1>1, <1>2, PhaseStep, ServerTyped DEF IInv, TypeOK, client

LEMMA CancelIInv ==
    ASSUME IInv, NEW t \in Tasks, Cancel(t)
    PROVE  IInv'
<1>1. stmt[t].phase # "none" /\ Reply(t, "cancelled") /\ UNCHANGED <<client, server>>
  BY DEF Cancel, Reply
<1>. QED
  BY <1>1, PhaseStep DEF IInv, TypeOK, client, server, Replies

\* When the connection breaks, statements keep what they are for.
LEMMA LoseKeepsStatements ==
    ASSUME IInv, Lose
    PROVE  \A t \in Tasks :
             /\ stmt'[t] \in Statements
             /\ stmt'[t].kind = stmt[t].kind /\ stmt'[t].arg = stmt[t].arg
<1>1. PICK lost \in SUBSET {t \in Tasks : stmt[t].phase = "ok"} :
        stmt' = [t \in Tasks |->
            IF t \in lost THEN [stmt[t] EXCEPT !.phase = "error"] ELSE stmt[t]]
  BY DEF Lose
<1>. QED  BY <1>1, PhaseOnly DEF IInv, TypeOK, Replies

LEMMA LoseIInv ==
    ASSUME IInv, Lose
    PROVE  IInv'
<1>. USE DEF IInv
<1>1. \A t \in Tasks : /\ stmt'[t] \in Statements
                       /\ stmt'[t].kind = stmt[t].kind /\ stmt'[t].arg = stmt[t].arg
  BY LoseKeepsStatements
<1>2. stmt' \in [Tasks -> Statements]
  <2>. stmt' = [t \in Tasks |-> stmt'[t]]
    BY DEF Lose
  <2>. QED  BY <1>1
<1>3. TypeOK'
  <2>. <<>> \in Seq([name : Insts, snap : SUBSET Writes])
    OBVIOUS
  <2>. QED  BY <1>2 DEF Lose, TypeOK, client
<1>. QED
  BY <1>1, <1>3 DEF Lose, EnteringMode, LeavingInnermost, FlagNeverStranded,
                    Innermost, client

LEMMA NextIInv == IInv /\ [Next]_vars => IInv'
<1>. SUFFICES ASSUME IInv, [Next]_vars PROVE IInv'
  OBVIOUS
<1>1. ASSUME NEW t \in Tasks, NEW i \in Insts, Enter(t, i) PROVE IInv'
  BY <1>1, EnterIInv
<1>2. ASSUME NEW t \in Tasks, NEW w \in Writes, Write(t, w) PROVE IInv'
  BY <1>2, ProgramIInv
<1>3. ASSUME NEW t \in Tasks, Exit(t) PROVE IInv'
  BY <1>3, ExitIInv
<1>4. ASSUME NEW t \in Tasks, Raise(t) \/ Catch(t) PROVE IInv'
  BY <1>4, ProgramIInv
<1>5. ASSUME NEW t \in Tasks, Cancel(t) PROVE IInv'
  BY <1>5, CancelIInv
<1>6. ASSUME NEW t \in Tasks, Server(t) PROVE IInv'
  BY <1>6, ServerIInv
<1>7. ASSUME NEW t \in Tasks, Resume(t) PROVE IInv'
  BY <1>7, EnterReturnsIInv, LeavingReturnsIInv, ProgramIInv DEF Resume
<1>8. CASE Lose
  BY <1>8, LoseIInv
<1>9. CASE UNCHANGED vars
  BY <1>9 DEF vars, IInv, TypeOK, EnteringMode, LeavingInnermost,
              FlagNeverStranded, Innermost
<1>. QED
  BY <1>1, <1>2, <1>3, <1>4, <1>5, <1>6, <1>7, <1>8, <1>9 DEF Next

----------------------------------------------------------------------------

\* IInv holds in every reachable state.
THEOREM Invariance == Spec => []IInv
BY InitIInv, NextIInv, PTL DEF Spec

\* Every variable keeps its type, the server's savepoint stack included.
THEOREM TypeCorrect == Spec => []TypeOK
<1>1. IInv => TypeOK
  BY DEF IInv
<1>. QED  BY <1>1, Invariance, PTL

\* However tasks interleave, whatever fails, whatever is cancelled: while
\* db._in_transaction is set, the task in db._transaction_task is inside a
\* block whose __aexit__ will clear it.
THEOREM NeverStranded == Spec => []FlagNeverStranded
<1>1. IInv => FlagNeverStranded
  BY DEF IInv
<1>. QED  BY <1>1, Invariance, PTL

\* Tasks that take turns never meet the S10 error.
THEOREM NoFalseAlarm ==
    ASSUME Serialised
    PROVE  Spec => []GuardSparesTurnTaking
<1>1. ASSUME IInv PROVE GuardSparesTurnTaking
  <2>. SUFFICES ASSUME NEW t \in Tasks, MayUse(t), flag, Foreign(t) PROVE FALSE
    BY DEF GuardSparesTurnTaking
  <2>1. owner \in Tasks \ {t} /\ \E k \in 1..Len(stack[owner]) : TRUE
    BY <1>1 DEF IInv, FlagNeverStranded, Foreign
  <2>2. stack[owner] = <<>>
    BY <2>1 DEF MayUse, Busy
  <2>. QED  BY <2>1, <2>2
<1>. QED  BY <1>1, Invariance, PTL

----------------------------------------------------------------------------
(* Tasks that take turns.                                                  *)

OneBusy == \A t, u \in Tasks : Busy(t) /\ Busy(u) => t = u

NoneCancelled == ~Cancellable => \A t \in Tasks : stmt[t].phase # "cancelled"

\* The server is where the program's statements put it.
Undisturbed == alive /\ ~Cancellable

\* Only the first block a task is inside was opened with BEGIN.
OuterFirst ==
    \A t \in Tasks : \A k \in 1..Len(stack[t]) : savepoint[stack[t][k]] <=> k > 1

FlagIsDepth ==
    \A t \in Tasks :
        /\ stack[t] # <<>> => flag /\ owner = t
        /\ stmt[t].kind = "BEGIN" => ~flag
        /\ stmt[t].kind = "SAVEPOINT" => flag

\* How the flag and the server's view move apart and together again.
Toggling == {"BEGIN"} \cup Ending
ServerView ==
    Undisturbed =>
        /\ \A t \in Tasks : stmt[t].kind = "BEGIN" =>
              /\ stmt[t].phase # "error"
              /\ stmt[t].phase = "sent" <=> srv = "idle"
        /\ \A t \in Tasks : stmt[t].kind \in Ending =>
              (stmt[t].phase = "sent" <=> srv # "idle")
        /\ (\A t \in Tasks : stmt[t].kind \notin Toggling) => (flag <=> srv # "idle")

TInv == OneBusy /\ NoneCancelled /\ OuterFirst /\ FlagIsDepth /\ ServerView

----------------------------------------------------------------------------

LEMMA InitTInv == Init => TInv
BY DEF Init, TInv, OneBusy, NoneCancelled, OuterFirst, FlagIsDepth, ServerView,
       Busy, Running, Idle, Ending, Toggling

\* The flag is set exactly when some task is inside a block.
LEMMA FlagMeansInside ==
    ASSUME IInv, TInv, flag
    PROVE  owner \in Tasks /\ stack[owner] # <<>>
<1>1. owner \in Tasks /\ \E k \in 1..Len(stack[owner]) : TRUE
  BY DEF IInv, FlagNeverStranded
<1>. QED  BY <1>1

\* A task that awaits a statement is using the handle.
LEMMA StatementMeansBusy ==
    ASSUME NEW t \in Tasks, stmt[t].kind # "none"
    PROVE  Busy(t)
<1>1. Idle.kind = "none"
  BY DEF Idle
<1>. QED  BY <1>1 DEF Busy, Running

\* When one task is busy, no other has a statement or a block.
LEMMA OthersIdle ==
    ASSUME IInv, OneBusy, NEW t \in Tasks, Busy(t)
    PROVE  \A u \in Tasks \ {t} :
             /\ stack[u] = <<>> /\ stmt[u] = Idle
             /\ stmt[u].kind = "none" /\ stmt[u].phase = "none"
BY DEF OneBusy, Busy, Running, Idle

LEMMA EnterTInv ==
    ASSUME IInv, TInv, Serialised, NEW t \in Tasks, NEW i \in Insts, Enter(t, i)
    PROVE  TInv'
<1>. USE DEF IInv, TInv, Undisturbed
<1>1. /\ \A u \in Tasks \ {t} : stack[u] = <<>> /\ stmt[u] = Idle
      /\ stmt[t] = Idle /\ ~InUse(i)
      /\ UNCHANGED <<flag, owner, stack, alive, srv>>
  BY DEF Enter, MayUse, Busy, Running, server
<1>2. flag => owner = t
  BY <1>1, FlagMeansInside
<1>3. \E kind \in Entering :
        /\ stmt' = [stmt EXCEPT ![t] = [kind |-> kind, arg |-> i, phase |-> "sent"]]
        /\ savepoint' = [savepoint EXCEPT ![i] = kind = "SAVEPOINT"]
        /\ flag <=> kind = "SAVEPOINT"
  BY <1>2 DEF Enter, Foreign, Send, Entering
<1>4. PICK kind \in Entering :
        /\ stmt' = [stmt EXCEPT ![t] = [kind |-> kind, arg |-> i, phase |-> "sent"]]
        /\ savepoint' = [savepoint EXCEPT ![i] = kind = "SAVEPOINT"]
        /\ flag <=> kind = "SAVEPOINT"
  BY <1>3
<1>5. OneBusy'
  BY <1>1, <1>4 DEF OneBusy, Busy, Running, TypeOK
<1>6. NoneCancelled'
  BY <1>4 DEF NoneCancelled, TypeOK
<1>7. OuterFirst'
  <2>1. \A u \in Tasks : \A k \in 1..Len(stack[u]) : stack[u][k] # i
    BY <1>1 DEF InUse, On
  <2>. QED  BY <1>1, <1>4, <2>1 DEF OuterFirst, TypeOK
<1>8. FlagIsDepth'
  BY <1>1, <1>4 DEF FlagIsDepth, TypeOK, Entering, Idle
<1>9. ServerView'
  <2>1. Undisturbed => (flag <=> srv # "idle")
    BY <1>1 DEF ServerView, Toggling, Ending, Idle
  <2>. QED  BY <1>1, <1>4, <2>1 DEF ServerView, Toggling, Ending, Entering, Idle, TypeOK
<1>. QED  BY <1>5, <1>6, <1>7, <1>8, <1>9

\* A reply, and any other step of the statement of the one busy task.
LEMMA StatementTInv ==
    ASSUME IInv, TInv, NEW t \in Tasks, NEW s \in Statements,
           Busy(t), stmt' = [stmt EXCEPT ![t] = s], UNCHANGED client,
           ~Cancellable => s.phase # "cancelled",
           s.kind \in Entering => s.kind = stmt[t].kind,
           Undisturbed' =>
             /\ Undisturbed
             /\ s.kind = "BEGIN" =>
                   s.phase # "error" /\ (s.phase = "sent" <=> srv' = "idle")
             /\ s.kind \in Ending => (s.phase = "sent" <=> srv' # "idle")
             /\ s.kind \notin Toggling => (flag <=> srv' # "idle")
    PROVE  TInv'
<1>. USE DEF IInv, TInv, Undisturbed
<1>1. \A u \in Tasks \ {t} : /\ stack[u] = <<>> /\ stmt[u] = Idle
                              /\ stmt[u].kind = "none"
  BY OthersIdle
<1>2. stmt'[t] = s /\ \A u \in Tasks \ {t} : stmt'[u] = Idle /\ stmt'[u].kind = "none"
  BY <1>1 DEF TypeOK
<1>3. OneBusy'
  BY <1>1, <1>2 DEF OneBusy, Busy, Running, client
<1>4. NoneCancelled'
  BY <1>2 DEF NoneCancelled, Idle
<1>5. OuterFirst'
  BY DEF OuterFirst, client
<1>6. FlagIsDepth'
  BY <1>2 DEF FlagIsDepth, client, Entering
<1>7. ServerView'
  BY <1>2 DEF ServerView, client, Toggling, Ending
<1>. QED  BY <1>3, <1>4, <1>5, <1>6, <1>7

LEMMA ServerTInv ==
    ASSUME IInv, TInv, NEW t \in Tasks, Server(t)
    PROVE  TInv'
<1>. USE DEF IInv, TInv, Undisturbed
<1>1. PICK r \in {"ok", "error"} : Reply(t, r)
  BY ServerReplies
<1>2. /\ stmt[t].phase = "sent" /\ UNCHANGED client /\ alive' = alive
      /\ stmt[t] \in Statements /\ Busy(t)
  BY ServerReplies, ServerTyped DEF TypeOK, Busy, Running, Idle
<1>. DEFINE s == [stmt[t] EXCEPT !.phase = r]
<1>3. /\ s \in Statements /\ s.kind = stmt[t].kind /\ s.phase = r
  BY <1>2, PhaseOnly DEF Replies
<1>4. stmt' = [stmt EXCEPT ![t] = s]
  BY <1>1 DEF Reply, TypeOK
<1>5. stmt[t].kind \notin Toggling => (Undisturbed => (flag <=> srv # "idle"))
  BY <1>2, OthersIdle DEF ServerView, Toggling, Ending
<1>6. ASSUME Undisturbed
      PROVE  /\ stmt[t].kind = "BEGIN" => r = "ok" /\ srv' # "idle"
             /\ stmt[t].kind \in Ending => srv' = "idle"
             /\ stmt[t].kind \notin Toggling => (srv' = "idle" <=> srv = "idle")
  <2>1. CASE ServeBegin(t)
    <3>1. stmt[t].kind = "BEGIN" /\ srv = "idle"
      BY <1>2, <1>6, <2>1 DEF ServeBegin, Sent, ServerView
    <3>2. srv' # "idle" /\ Reply(t, "ok")
      BY <2>1, <3>1 DEF ServeBegin
    <3>3. stmt' = [stmt EXCEPT ![t] = [stmt[t] EXCEPT !.phase = "ok"]]
      BY <3>2 DEF Reply, TypeOK
    <3>4. stmt'[t].phase = "ok" /\ stmt'[t].phase = r
      <4>1. stmt'[t] = s /\ stmt'[t] = [stmt[t] EXCEPT !.phase = "ok"]
        BY <1>4, <3>3 DEF TypeOK
      <4>2. stmt[t].phase # "none" /\ "ok" \in {"sent"} \cup Replies
        BY <1>2 DEF Replies
      <4>3. [stmt[t] EXCEPT !.phase = "ok"].phase = "ok"
        BY <1>2, <4>2, PhaseOnly
      <4>. HIDE DEF s
      <4>. QED  BY <1>3, <4>1, <4>3
    <3>. QED  BY <3>1, <3>2, <3>4 DEF Toggling, Ending
  <2>2. CASE ServeSavepoint(t)
    BY <2>2 DEF ServeSavepoint, Sent, Toggling, Ending
  <2>3. CASE ServeRelease(t)
    BY <2>3 DEF ServeRelease, Sent, Toggling, Ending
  <2>4. CASE ServeRollbackTo(t)
    BY <2>4 DEF ServeRollbackTo, Sent, Toggling, Ending
  <2>5. CASE ServeCommit(t) \/ ServeRollback(t)
    BY <2>5 DEF ServeCommit, ServeRollback, Sent, Toggling, Ending
  <2>6. CASE ServeWrite(t)
    BY <2>6 DEF ServeWrite, Sent, Toggling, Ending
  <2>7. ~ServeDead(t)
    BY <1>6 DEF ServeDead
  <2>. QED  BY <2>1, <2>2, <2>3, <2>4, <2>5, <2>6, <2>7 DEF Server
<1>. HIDE DEF s
<1>. QED
  BY <1>2, <1>3, <1>4, <1>5, <1>6, StatementTInv DEF Toggling, Ending

----------------------------------------------------------------------------

LEMMA ExitTInv ==
    ASSUME IInv, TInv, NEW t \in Tasks, Exit(t)
    PROVE  TInv'
<1>. USE DEF IInv, TInv, Undisturbed
<1>. DEFINE i == Innermost(t)
            kind == ExitStatement(i, exc[t])
            s == [kind |-> kind, arg |-> i, phase |-> "sent"]
<1>1. /\ i \in Insts /\ kind \in Leaving /\ Busy(t)
      /\ stmt' = [stmt EXCEPT ![t] = s] /\ UNCHANGED <<client, server>>
      /\ stack[t] # <<>> /\ stmt[t] = Idle
  <2>1. /\ Running(t) /\ stack[t] # <<>> /\ Send(t, kind, i)
        /\ UNCHANGED <<client, server>>
    BY DEF Exit
  <2>2. i \in Insts
    BY <2>1 DEF Innermost, TypeOK
  <2>3. kind \in Leaving
    BY DEF ExitStatement, Leaving, Ending
  <2>. QED  BY <2>1, <2>2, <2>3 DEF Send, Busy, Running
<1>2. s \in Statements /\ s.kind = kind /\ s.phase = "sent"
  BY <1>1 DEF Statements
<1>3. flag
  BY <1>1 DEF FlagIsDepth
<1>4. Undisturbed => srv # "idle"
  BY <1>1, <1>3, OthersIdle DEF ServerView, Toggling, Ending, Idle
<1>5. kind \notin Entering
  BY <1>1 DEF Entering, Leaving, Ending
<1>. HIDE DEF s, i, kind
<1>. QED
  BY <1>1, <1>2, <1>3, <1>4, <1>5, StatementTInv DEF server, Entering

LEMMA EnterReturnsTInv ==
    ASSUME IInv, TInv, NEW t \in Tasks, EnterReturns(t)
    PROVE  TInv'
<1>. USE DEF IInv, TInv, Undisturbed
<1>1. /\ stmt[t].kind \in Entering /\ stmt[t].arg \in Insts /\ stmt[t].phase \in Replies
      /\ stmt' = [stmt EXCEPT ![t] = Idle] /\ UNCHANGED <<savepoint, server>>
  BY StatementArgs DEF EnterReturns, Returned, TypeOK
<1>2. Busy(t) /\ stmt'[t] = Idle
  BY <1>1 DEF Busy, Running, Idle, Entering, TypeOK
<1>3. \A u \in Tasks \ {t} : /\ stack[u] = <<>> /\ stmt[u] = Idle
                              /\ stack'[u] = <<>> /\ stmt'[u] = Idle
  BY <1>1, <1>2, OthersIdle DEF EnterReturns, TypeOK
<1>4. OneBusy'
  BY <1>3 DEF OneBusy, Busy, Running
<1>5. NoneCancelled'
  BY <1>1, <1>2, <1>3 DEF NoneCancelled, Idle
<1>6. flag => owner = t /\ stack[t] # <<>>
  BY <1>3, FlagMeansInside
<1>7. stmt[t].kind = "SAVEPOINT" <=> stack[t] # <<>>
  BY <1>1, <1>6 DEF FlagIsDepth, Entering
<1>8. CASE stmt[t].phase = "ok"
  <2>. DEFINE st == Append(stack[t], stmt[t].arg)
  <2>1. /\ stack' = [stack EXCEPT ![t] = st]
        /\ stmt[t].kind = "BEGIN" => flag' = TRUE /\ owner' = t
        /\ stmt[t].kind # "BEGIN" => UNCHANGED <<flag, owner>>
    BY <1>8 DEF EnterReturns, handle
  <2>2. /\ stack[t] \in Seq(Insts) /\ st # <<>>
        /\ Len(st) = Len(stack[t]) + 1 /\ Len(stack[t]) \in Nat
        /\ \A k \in 1..Len(stack[t]) : st[k] = stack[t][k]
        /\ st[Len(st)] = stmt[t].arg
        /\ Len(stack[t]) = 0 <=> stack[t] = <<>>
    <3>1. stack[t] \in Seq(Insts) /\ stmt[t].arg \in Insts
      BY <1>1 DEF TypeOK
    <3>. QED  BY <3>1, PushKeeps
  <2>. HIDE DEF st
  <2>3. stack'[t] = st
    BY <2>1 DEF TypeOK
  <2>4. savepoint[stmt[t].arg] <=> Len(st) > 1
    BY <1>1, <1>7, <2>2 DEF EnteringMode
  <2>5. OuterFirst'
    <3>1. \A k \in 1..Len(st) : savepoint[st[k]] <=> k > 1
      <4>. TAKE k \in 1..Len(st)
      <4>1. CASE k = Len(st)
        BY <2>2, <2>4, <4>1
      <4>2. CASE k # Len(st)
        <5>1. k \in 1..Len(stack[t])
          BY <2>2, <4>2
        <5>. QED  BY <2>2, <5>1 DEF OuterFirst
      <4>. QED  BY <4>1, <4>2
    <3>2. UNCHANGED savepoint
      BY <1>1
    <3>. QED  BY <1>3, <2>3, <3>1, <3>2 DEF OuterFirst
  <2>6. flag' /\ owner' = t
    BY <1>1, <1>6, <2>1 DEF FlagIsDepth, Entering
  <2>7. FlagIsDepth'
    BY <1>2, <1>3, <2>6 DEF FlagIsDepth, Idle
  <2>8. Undisturbed => srv # "idle"
    <3>1. CASE stmt[t].kind = "BEGIN"
      BY <1>8, <3>1 DEF ServerView
    <3>2. CASE stmt[t].kind = "SAVEPOINT"
      BY <1>3, <3>2 DEF ServerView, FlagIsDepth, Toggling, Ending, Idle
    <3>. QED  BY <1>1, <3>1, <3>2 DEF Entering
  <2>9. ServerView'
    BY <1>1, <1>2, <1>3, <2>6, <2>8 DEF ServerView, server, Idle, Toggling, Ending
  <2>. QED  BY <1>4, <1>5, <2>5, <2>7, <2>9
<1>9. CASE stmt[t].phase # "ok"
  <2>1. UNCHANGED <<stack, flag, owner>>
    BY <1>9 DEF EnterReturns, handle
  <2>2. OuterFirst'
    BY <1>1, <2>1 DEF OuterFirst
  <2>3. FlagIsDepth'
    BY <1>2, <1>3, <2>1 DEF FlagIsDepth, Idle
  <2>4. ~Cancellable => stmt[t].phase = "error"
    BY <1>1, <1>9 DEF NoneCancelled, Replies
  <2>5. Undisturbed => stmt[t].kind = "SAVEPOINT"
    BY <1>1, <2>4 DEF ServerView, Entering
  <2>6. Undisturbed => (flag <=> srv # "idle")
    BY <1>3, <2>5 DEF ServerView, Toggling, Ending, Idle
  <2>7. ServerView'
    BY <1>1, <1>2, <1>3, <2>1, <2>6 DEF ServerView, server, Idle, Toggling, Ending
  <2>. QED  BY <1>4, <1>5, <2>2, <2>3, <2>7
<1>. QED  BY <1>8, <1>9

LEMMA PopTInv ==
    ASSUME IInv, TInv, NEW t \in Tasks, stmt[t].kind \in Leaving,
           stmt[t].phase \in Replies, Pop(t),
           stmt' = [stmt EXCEPT ![t] = Idle], UNCHANGED <<savepoint, server>>,
           \/ stmt[t].kind \notin Ending /\ UNCHANGED <<flag, owner>>
           \/ stmt[t].kind \in Ending /\ flag' = FALSE
    PROVE  TInv'
<1>. USE DEF IInv, TInv, Undisturbed
<1>1. Busy(t) /\ stmt'[t] = Idle
  <2>1. stmt[t].kind # "none"
    BY DEF Leaving, Ending
  <2>. QED  BY <2>1, StatementMeansBusy DEF TypeOK
<1>. DEFINE st == SubSeq(stack[t], 1, Len(stack[t]) - 1)
<1>2. stack' = [stack EXCEPT ![t] = st]
  BY DEF Pop, TypeOK
<1>3. \A u \in Tasks \ {t} : /\ stack[u] = <<>> /\ stmt[u] = Idle
                              /\ stack'[u] = <<>> /\ stmt'[u] = Idle
  BY <1>1, <1>2, OthersIdle DEF TypeOK
<1>4. OneBusy' /\ NoneCancelled'
  BY <1>1, <1>3 DEF OneBusy, Busy, Running, NoneCancelled, Idle
<1>5. stack[t] \in Seq(Insts) /\ stack[t] # <<>>
  BY DEF TypeOK, LeavingInnermost
<1>6. /\ st \in Seq(Insts) /\ Len(st) = Len(stack[t]) - 1
      /\ Len(stack[t]) \in Nat \ {0}
      /\ \A k \in 1..Len(stack[t]) - 1 : st[k] = stack[t][k]
  BY <1>5, PopKeeps
<1>. HIDE DEF st
<1>7. stack'[t] = st
  BY <1>2 DEF TypeOK
<1>8. OuterFirst'
  BY <1>3, <1>6, <1>7 DEF OuterFirst
<1>9. savepoint[stack[t][Len(stack[t])]] <=> stmt[t].kind \notin Ending
  BY DEF LeavingInnermost, Innermost
<1>10. stmt[t].kind \in Ending => st = <<>>
  <2>. SUFFICES ASSUME stmt[t].kind \in Ending PROVE Len(st) = 0
    BY <1>6, EmptySeq
  <2>1. ~savepoint[stack[t][Len(stack[t])]]
    BY <1>9
  <2>2. Len(stack[t]) \in 1..Len(stack[t])
    BY <1>6
  <2>3. ~(Len(stack[t]) > 1)
    BY <2>1, <2>2 DEF OuterFirst
  <2>4. Len(stack[t]) = 1
    <3>. DEFINE n == Len(stack[t])
    <3>1. n \in Nat \ {0} /\ ~(n > 1)
      BY <1>6, <2>3
    <3>. HIDE DEF n
    <3>2. n = 1
      BY <3>1
    <3>. QED  BY <3>2 DEF n
  <2>. QED  BY <1>6, <2>4
<1>11. FlagIsDepth'
  BY <1>1, <1>3, <1>5, <1>7, <1>10 DEF FlagIsDepth, Idle
<1>12. ServerView'
  <2>1. CASE stmt[t].kind \in Ending
    <3>1. Undisturbed => srv = "idle"
      BY <2>1 DEF ServerView, Replies
    <3>. QED  BY <1>1, <1>3, <2>1, <3>1 DEF ServerView, server, Idle, Toggling, Ending
  <2>2. CASE stmt[t].kind \notin Ending
    <3>1. \A u \in Tasks : stmt[u].kind \notin Toggling
      <4>. TAKE u \in Tasks
      <4>1. CASE u = t
        BY <2>2, <4>1 DEF Toggling, Ending, Leaving
      <4>2. CASE u # t
        <5>1. stmt[u] = Idle
          BY <1>3, <4>2
        <5>. QED  BY <5>1 DEF Toggling, Ending, Idle
      <4>. QED  BY <4>1, <4>2
    <3>2. Undisturbed => (flag <=> srv # "idle")
      BY <3>1 DEF ServerView
    <3>. QED  BY <1>1, <1>3, <2>2, <3>2 DEF ServerView, server, Idle, Toggling, Ending
  <2>. QED  BY <2>1, <2>2
<1>. QED  BY <1>4, <1>8, <1>11, <1>12

----------------------------------------------------------------------------

LEMMA LeavingReturnsTInv ==
    ASSUME IInv, TInv, NEW t \in Tasks,
           RollbackToReturns(t) \/ ReleaseReturns(t) \/ EndReturns(t)
    PROVE  TInv'
<1>. USE DEF IInv, Undisturbed
<1>1. CASE RollbackToReturns(t) /\ stmt[t].phase = "ok"
  <2>. DEFINE s == [kind |-> "RELEASE", arg |-> stmt[t].arg, phase |-> "sent"]
  <2>1. /\ stmt[t].kind = "ROLLBACK TO" /\ stmt[t].arg \in Insts
        /\ stmt' = [stmt EXCEPT ![t] = s]
        /\ UNCHANGED <<flag, owner, savepoint, stack, exc, server>>
    BY <1>1, StatementArgs DEF RollbackToReturns, Returned, Send, TypeOK, Leaving
  <2>2. s \in Statements /\ s.kind = "RELEASE" /\ s.phase = "sent"
    BY <2>1 DEF Statements, Leaving
  <2>3. Busy(t)
    BY <2>1, StatementMeansBusy
  <2>4. Undisturbed => (flag <=> srv # "idle")
    BY <2>1, <2>3, OthersIdle DEF TInv, ServerView, Toggling, Ending
  <2>. HIDE DEF s
  <2>. QED
    BY <2>1, <2>2, <2>3, <2>4, StatementTInv DEF client, server, Entering, Ending
<1>2. CASE \/ RollbackToReturns(t) /\ stmt[t].phase # "ok"
           \/ ReleaseReturns(t)
  <2>1. /\ stmt[t].kind \in {"ROLLBACK TO", "RELEASE"} /\ Pop(t)
        /\ stmt[t].phase \in Replies
        /\ stmt' = [stmt EXCEPT ![t] = Idle]
        /\ UNCHANGED <<flag, owner, savepoint, server>>
    BY <1>2 DEF RollbackToReturns, ReleaseReturns, Returned
  <2>2. stmt[t].kind \in Leaving /\ stmt[t].kind \notin Ending
    BY <2>1 DEF Leaving, Ending
  <2>. QED  BY <2>1, <2>2, PopTInv
<1>3. CASE EndReturns(t)
  BY <1>3, PopTInv DEF EndReturns, Returned, Leaving
<1>. QED  BY <1>1, <1>2, <1>3

LEMMA ProgramTInv ==
    ASSUME IInv, TInv, Serialised, NEW t \in Tasks,
           \/ \E w \in Writes : Write(t, w)
           \/ WriteReturns(t) \/ Raise(t) \/ Catch(t)
    PROVE  TInv'
<1>. USE DEF IInv, TInv, Undisturbed
<1>1. UNCHANGED <<flag, owner, savepoint, stack, server>>
  BY DEF Write, WriteReturns, Raise, Catch, client
<1>2. PICK s \in Statements : /\ stmt' = [stmt EXCEPT ![t] = s]
                              /\ s.kind \in {"none", "write"}
                              /\ s.phase \in {"none", "sent"}
                              /\ s # Idle => \A u \in Tasks \ {t} : ~Busy(u)
                              /\ stmt[t].kind \in {"none", "write"}
  <2>1. CASE \E w \in Writes : Write(t, w)
    <3>1. PICK w \in Writes : Write(t, w)
      BY <2>1
    <3>2. [kind |-> "write", arg |-> w, phase |-> "sent"] \in Statements
      BY DEF Statements
    <3>3. /\ stmt' = [stmt EXCEPT ![t] =
                         [kind |-> "write", arg |-> w, phase |-> "sent"]]
          /\ stmt[t].kind = "none" /\ \A u \in Tasks \ {t} : ~Busy(u)
      BY <3>1 DEF Write, Send, MayUse, Running, Idle
    <3>. QED  BY <3>2, <3>3
  <2>2. CASE WriteReturns(t)
    BY <2>2 DEF WriteReturns, Returned, Statements, Idle
  <2>3. CASE Raise(t) \/ Catch(t)
    BY <2>3 DEF Raise, Catch, Running, TypeOK, Statements, Idle
  <2>. QED  BY <2>1, <2>2, <2>3
<1>3. OneBusy'
  BY <1>1, <1>2 DEF OneBusy, Busy, Running, TypeOK
<1>4. NoneCancelled' /\ OuterFirst'
  BY <1>1, <1>2 DEF NoneCancelled, OuterFirst, TypeOK
<1>5. FlagIsDepth'
  BY <1>1, <1>2 DEF FlagIsDepth, TypeOK
<1>6. \A u \in Tasks : stmt'[u].kind \in Toggling \/ stmt[u].kind \in Toggling =>
                         stmt'[u] = stmt[u]
  BY <1>2 DEF TypeOK, Toggling, Ending
<1>7. ServerView'
  BY <1>1, <1>6 DEF ServerView, server, Toggling, Ending
<1>. QED  BY <1>3, <1>4, <1>5, <1>7

LEMMA LoseTInv ==
    ASSUME IInv, TInv, Lose
    PROVE  TInv'
<1>. USE DEF IInv, TInv, Undisturbed
<1>1. PICK lost \in SUBSET {t \in Tasks : stmt[t].phase = "ok"} :
        stmt' = [t \in Tasks |->
            IF t \in lost THEN [stmt[t] EXCEPT !.phase = "error"] ELSE stmt[t]]
  BY DEF Lose
<1>2. \A t \in Tasks : /\ stmt'[t].kind = stmt[t].kind
                       /\ stmt'[t] = Idle <=> stmt[t] = Idle
                       /\ ~Cancellable => stmt'[t].phase # "cancelled"
  <2>. TAKE t \in Tasks
  <2>1. stmt[t] \in Statements /\ (~Cancellable => stmt[t].phase # "cancelled")
    BY DEF TypeOK, NoneCancelled
  <2>2. CASE t \in lost
    <3>1. stmt[t].phase = "ok" /\ stmt'[t] = [stmt[t] EXCEPT !.phase = "error"]
      BY <1>1, <2>2
    <3>2. stmt'[t].kind = stmt[t].kind /\ stmt'[t].phase = "error"
      BY <2>1, <3>1, PhaseOnly DEF Replies
    <3>. QED  BY <3>1, <3>2 DEF Idle
  <2>3. CASE t \notin lost
    BY <1>1, <2>1, <2>3
  <2>. QED  BY <2>2, <2>3
<1>3. UNCHANGED client /\ ~alive'
  BY DEF Lose
<1>. QED
  BY <1>2, <1>3 DEF OneBusy, Busy, Running, NoneCancelled, OuterFirst, FlagIsDepth,
                    ServerView, client

LEMMA CancelTInv ==
    ASSUME IInv, TInv, NEW t \in Tasks, Cancel(t)
    PROVE  TInv'
<1>. DEFINE s == [stmt[t] EXCEPT !.phase = "cancelled"]
<1>1. /\ Cancellable /\ UNCHANGED client
      /\ stmt[t] \in Statements /\ stmt[t].phase # "none"
      /\ stmt' = [stmt EXCEPT ![t] = s]
  BY DEF Cancel, IInv, TypeOK
<1>2. s \in Statements /\ s.kind = stmt[t].kind
  BY <1>1, PhaseOnly DEF Replies
<1>3. Busy(t)
  BY <1>1 DEF Busy, Running, Idle
<1>. HIDE DEF s
<1>. QED  BY <1>1, <1>2, <1>3, StatementTInv DEF Undisturbed

LEMMA NextTInv ==
    ASSUME Serialised
    PROVE  IInv /\ TInv /\ [Next]_vars => TInv'
<1>. SUFFICES ASSUME IInv, TInv, [Next]_vars PROVE TInv'
  OBVIOUS
<1>1. ASSUME NEW t \in Tasks, NEW i \in Insts, Enter(t, i) PROVE TInv'
  BY <1>1, EnterTInv
<1>2. ASSUME NEW t \in Tasks, NEW w \in Writes, Write(t, w) PROVE TInv'
  BY <1>2, ProgramTInv
<1>3. ASSUME NEW t \in Tasks, Exit(t) PROVE TInv'
  BY <1>3, ExitTInv
<1>4. ASSUME NEW t \in Tasks, Raise(t) \/ Catch(t) PROVE TInv'
  BY <1>4, ProgramTInv
<1>5. ASSUME NEW t \in Tasks, Cancel(t) PROVE TInv'
  BY <1>5, CancelTInv
<1>6. ASSUME NEW t \in Tasks, Server(t) PROVE TInv'
  BY <1>6, ServerTInv
<1>7. ASSUME NEW t \in Tasks, Resume(t) PROVE TInv'
  BY <1>7, EnterReturnsTInv, LeavingReturnsTInv, ProgramTInv DEF Resume
<1>8. CASE Lose
  BY <1>8, LoseTInv
<1>9. CASE UNCHANGED vars
  BY <1>9 DEF vars, TInv, OneBusy, Busy, Running, NoneCancelled, OuterFirst,
              FlagIsDepth, ServerView, Undisturbed
<1>. QED
  BY <1>1, <1>2, <1>3, <1>4, <1>5, <1>6, <1>7, <1>8, <1>9 DEF Next

\* When tasks take turns and none is cancelled in an await, the flag never
\* disagrees with the server about being in a transaction, whatever fails.
THEOREM FlagAgrees ==
    ASSUME Serialised, ~Cancellable
    PROVE  Spec => []FlagTracksServer
<1>1. Init => TInv
  BY InitTInv
<1>2. IInv /\ TInv /\ [Next]_vars => TInv'
  BY NextTInv
<1>3. TInv => FlagTracksServer
  BY DEF TInv, ServerView, Undisturbed, FlagTracksServer, Toggling
<1>. QED  BY <1>1, <1>2, <1>3, Invariance, PTL DEF Spec

----------------------------------------------------------------------------
(* The savepoints of nested blocks, with tasks that take turns.            *)

\* The l-th block's savepoint is not gone with a RELEASE that has returned.
Kept(t, l) ==
    l < Len(stack[t]) \/ stmt[t].kind # "RELEASE" \/ stmt[t].phase = "sent"

\* No instance is entered twice.
Once(t) ==
    /\ \A k, l \in 1..Len(stack[t]) : stack[t][k] = stack[t][l] => k = l
    /\ stmt[t].kind \in Entering => \A k \in 1..Len(stack[t]) : stack[t][k] # stmt[t].arg

NestedSaved(t) ==
    \A k \in 2..Len(stack[t]) : Kept(t, k) =>
        /\ Has(sps, stack[t][k])
        /\ \A l \in k+1..Len(stack[t]) : Kept(t, l) =>
              At(sps, stack[t][k]) < At(sps, stack[t][l])

\* A SAVEPOINT that was run is the most recent, though its block is yet to begin.
PendingSaved(t) ==
    (stmt[t].kind = "SAVEPOINT" /\ stmt[t].phase = "ok") =>
        /\ Has(sps, stmt[t].arg)
        /\ \A k \in 2..Len(stack[t]) : At(sps, stack[t][k]) < At(sps, stmt[t].arg)

SInv ==
    /\ \A t \in Tasks : Once(t)
    /\ alive => \A t \in Tasks : NestedSaved(t) /\ PendingSaved(t)

LEMMA InitSInv == Init => SInv
  BY DEF Init, SInv, Once, NestedSaved, PendingSaved, Idle, Entering

\* Only the task that uses the handle has anything to lose.
LEMMA Focus ==
    ASSUME NEW t \in Tasks,
           \A u \in Tasks \ {t} : stack'[u] = <<>> /\ stmt'[u] = Idle,
           Once(t)', alive' => NestedSaved(t)' /\ PendingSaved(t)'
    PROVE  SInv'
<1>1. \A u \in Tasks \ {t} : Once(u)' /\ NestedSaved(u)' /\ PendingSaved(u)'
  BY DEF Once, NestedSaved, PendingSaved, Idle, Entering
<1>. QED  BY <1>1 DEF SInv

\* A step that leaves blocks and savepoints alone.
LEMMA SameSavepoints ==
    ASSUME SInv, NEW t \in Tasks, UNCHANGED <<stack, sps>>, alive' => alive,
           \A u \in Tasks \ {t} : stmt'[u] = stmt[u],
           stmt'[t].kind \in Entering =>
               \A k \in 1..Len(stack[t]) : stack[t][k] # stmt'[t].arg,
           \A l \in 1..Len(stack[t]) : Kept(t, l)' => Kept(t, l),
           ~(stmt'[t].kind = "SAVEPOINT" /\ stmt'[t].phase = "ok")
    PROVE  SInv'
<1>1. \A u \in Tasks : Once(u)'
  BY DEF SInv, Once
<1>2. ASSUME alive
      PROVE  \A u \in Tasks : NestedSaved(u)' /\ PendingSaved(u)'
  BY <1>2 DEF SInv, NestedSaved, PendingSaved, Kept
<1>. QED  BY <1>1, <1>2 DEF SInv

LEMMA ProgramSInv ==
    ASSUME IInv, SInv, NEW t \in Tasks,
           \/ \E i \in Insts : Enter(t, i)
           \/ \E w \in Writes : Write(t, w)
           \/ WriteReturns(t) \/ Raise(t) \/ Catch(t) \/ Exit(t)
    PROVE  SInv'
<1>1. stmt \in [Tasks -> Statements]
  BY DEF IInv, TypeOK
<1>2. ASSUME NEW i \in Insts, Enter(t, i)
      PROVE  SInv'
  <2>1. /\ UNCHANGED <<stack, sps, alive>> /\ stmt[t].kind = "none"
        /\ \A k \in 1..Len(stack[t]) : stack[t][k] # i
    BY <1>2 DEF Enter, server, Running, Idle, InUse, On
  <2>2. \/ stmt' = stmt
        \/ \E kind \in Entering :
              stmt' = [stmt EXCEPT ![t] = [kind |-> kind, arg |-> i, phase |-> "sent"]]
    BY <1>2 DEF Enter, Send, Entering
  <2>. QED  BY <1>1, <2>1, <2>2, SameSavepoints DEF Kept, Entering
<1>3. ASSUME NEW w \in Writes, Write(t, w)
      PROVE  SInv'
  <2>1. /\ UNCHANGED <<stack, sps, alive>> /\ stmt[t].kind = "none"
        /\ stmt' = [stmt EXCEPT ![t] = [kind |-> "write", arg |-> w, phase |-> "sent"]]
    BY <1>3 DEF Write, client, server, Running, Idle, Send
  <2>. QED  BY <1>1, <2>1, SameSavepoints DEF Kept, Entering
<1>4. CASE WriteReturns(t)
  <2>1. /\ UNCHANGED <<stack, sps, alive>> /\ stmt[t].kind = "write"
        /\ stmt' = [stmt EXCEPT ![t] = Idle]
    BY <1>4 DEF WriteReturns, Returned, server
  <2>. QED  BY <1>1, <2>1, SameSavepoints DEF Kept, Entering, Idle
<1>5. CASE Raise(t) \/ Catch(t)
  <2>1. UNCHANGED <<stack, sps, alive, stmt>> /\ stmt[t] = Idle
    BY <1>5 DEF Raise, Catch, server, Running
  <2>. QED  BY <2>1, SameSavepoints DEF Kept, Entering, Idle
<1>6. CASE Exit(t)
  <2>. DEFINE kind == ExitStatement(Innermost(t), exc[t])
              s == [kind |-> kind, arg |-> Innermost(t), phase |-> "sent"]
  <2>1. /\ UNCHANGED <<stack, sps, alive>> /\ stmt[t] = Idle
        /\ stmt' = [stmt EXCEPT ![t] = s]
    BY <1>6 DEF Exit, client, server, Running, Send
  <2>2. kind \in Leaving /\ s.kind = kind /\ s.phase = "sent"
    BY DEF ExitStatement, Leaving, Ending
  <2>. HIDE DEF s, kind
  <2>3. stmt'[t] = s /\ \A u \in Tasks \ {t} : stmt'[u] = stmt[u]
    BY <1>1, <2>1
  <2>4. stmt'[t].kind \notin Entering
    BY <2>2, <2>3 DEF Entering, Leaving, Ending
  <2>5. \A l \in 1..Len(stack[t]) : Kept(t, l)
    BY <2>1 DEF Kept, Idle
  <2>. QED  BY <2>1, <2>3, <2>4, <2>5, SameSavepoints DEF Entering
<1>. QED  BY <1>2, <1>3, <1>4, <1>5, <1>6

\* A reply other than that of a SAVEPOINT, with no savepoint made or discarded.
LEMMA ReplySInv ==
    ASSUME IInv, SInv, NEW t \in Tasks, stmt[t].phase # "none", NEW r \in Replies,
           Reply(t, r), UNCHANGED <<stack, sps>>, alive' => alive,
           ~(stmt[t].kind = "SAVEPOINT" /\ r = "ok")
    PROVE  SInv'
<1>. DEFINE s == [stmt[t] EXCEPT !.phase = r]
<1>1. stmt \in [Tasks -> Statements] /\ stmt[t] \in Statements
  BY DEF IInv, TypeOK
<1>2. s.kind = stmt[t].kind /\ s.arg = stmt[t].arg /\ s.phase = r /\ r # "sent"
  BY <1>1, PhaseOnly DEF Replies
<1>3. stmt' = [stmt EXCEPT ![t] = s]
  BY <1>1 DEF Reply
<1>. HIDE DEF s
<1>4. /\ stmt'[t].kind = stmt[t].kind /\ stmt'[t].arg = stmt[t].arg /\ stmt'[t].phase = r
      /\ \A u \in Tasks \ {t} : stmt'[u] = stmt[u]
  BY <1>1, <1>2, <1>3
<1>5. \A l \in 1..Len(stack[t]) : Kept(t, l)' => Kept(t, l)
  BY <1>2, <1>4 DEF Kept
<1>6. stmt'[t].kind \in Entering => \A k \in 1..Len(stack[t]) : stack[t][k] # stmt'[t].arg
  BY <1>4 DEF SInv, Once
<1>. QED  BY <1>4, <1>5, <1>6, SameSavepoints

\* BY the statement of t: who else is there, and what t's blocks are.
LEMMA UsersBlocks ==
    ASSUME IInv, TInv, NEW t \in Tasks, stmt[t].kind # "none"
    PROVE  /\ \A u \in Tasks \ {t} : stack[u] = <<>> /\ stmt[u] = Idle
           /\ stack[t] \in Seq(Insts) /\ stmt[t] \in Statements
           /\ Len(stack[t]) \in Nat
           /\ sps \in Seq([name : Insts, snap : SUBSET Writes])
           /\ stmt[t].kind \in Ending => Len(stack[t]) = 1
           /\ stmt[t].kind \in Leaving =>
                 Len(stack[t]) >= 1 /\ stmt[t].arg = stack[t][Len(stack[t])]
           /\ stmt[t].kind \in {"RELEASE", "ROLLBACK TO"} => Len(stack[t]) >= 2
<1>1. /\ stack[t] \in Seq(Insts) /\ stmt[t] \in Statements /\ Len(stack[t]) \in Nat
      /\ sps \in Seq([name : Insts, snap : SUBSET Writes])
  BY DEF IInv, TypeOK
<1>2. \A u \in Tasks \ {t} : stack[u] = <<>> /\ stmt[u] = Idle
  BY StatementMeansBusy, OthersIdle DEF TInv
<1>. DEFINE n == Len(stack[t])
<1>3. ASSUME stmt[t].kind \in Leaving
      PROVE  /\ n >= 1 /\ stmt[t].arg = stack[t][n]
             /\ stmt[t].kind \in Ending <=> ~(n > 1)
  <2>1. stack[t] # <<>> /\ stmt[t].arg = stack[t][n]
        /\ (savepoint[stack[t][n]] <=> stmt[t].kind \notin Ending)
    BY <1>3 DEF IInv, LeavingInnermost, Innermost
  <2>2. n # 0
    BY <1>1, <2>1, EmptySeq
  <2>3. n \in 1..n
    BY <1>1, <2>2
  <2>4. savepoint[stack[t][n]] <=> n > 1
    BY <2>3 DEF TInv, OuterFirst
  <2>. QED  BY <1>1, <2>1, <2>2, <2>4
<1>4. {"RELEASE", "ROLLBACK TO"} \cup Ending \subseteq Leaving
      /\ "RELEASE" \notin Ending /\ "ROLLBACK TO" \notin Ending
  BY DEF Leaving, Ending
<1>5. n \in Nat
  BY <1>1
<1>. HIDE DEF n
<1>6. ASSUME stmt[t].kind \in Ending
      PROVE  n = 1
  <2>1. n >= 1 /\ ~(n > 1)
    BY <1>3, <1>4, <1>6
  <2>. QED  BY <1>5, <2>1
<1>7. ASSUME stmt[t].kind \in {"RELEASE", "ROLLBACK TO"}
      PROVE  n >= 2
  <2>1. stmt[t].kind \in Leaving /\ stmt[t].kind \notin Ending
    BY <1>4, <1>7
  <2>2. n > 1
    BY <1>3, <2>1
  <2>. QED  BY <1>5, <2>2
<1>. QED  BY <1>1, <1>2, <1>3, <1>6, <1>7 DEF n

LEMMA CancelSInv ==
    ASSUME IInv, SInv, NEW t \in Tasks, Cancel(t)
    PROVE  SInv'
  BY ReplySInv DEF Cancel, Reply, client, server, Replies

LEMMA ServeSavepointSInv ==
    ASSUME IInv, TInv, SInv, NEW t \in Tasks, ServeSavepoint(t)
    PROVE  SInv'
<1>1. /\ alive /\ stmt[t].kind = "SAVEPOINT" /\ stmt[t].phase = "sent"
      /\ UNCHANGED <<stack, alive>>
  BY DEF ServeSavepoint, Sent, client
<1>2. CASE Reply(t, "error") /\ UNCHANGED sps
  BY <1>1, <1>2, ReplySInv DEF Replies
<1>3. CASE /\ sps' = Append(sps, [name |-> stmt[t].arg, snap |-> work])
           /\ Reply(t, "ok")
  <2>. DEFINE i == stmt[t].arg
              st == stack[t]
              s == [stmt[t] EXCEPT !.phase = "ok"]
              S == [name : Insts, snap : SUBSET Writes]
  <2>1. /\ \A u \in Tasks \ {t} : stack[u] = <<>> /\ stmt[u] = Idle
        /\ st \in Seq(Insts) /\ Len(st) \in Nat /\ stmt[t] \in Statements
        /\ sps \in Seq(S) /\ stmt \in [Tasks -> Statements]
    BY <1>1, UsersBlocks DEF IInv, TypeOK
  <2>2. i \in Insts /\ work \in SUBSET Writes
    BY <1>1, <2>1, StatementArgs DEF Entering, IInv, TypeOK
  <2>3. /\ Has(sps', i) /\ At(sps', i) = Len(sps) + 1
        /\ \A j : (j # i /\ Has(sps, j)) => Has(sps', j) /\ At(sps', j) = At(sps, j)
    <3>. DEFINE e == [name |-> i, snap |-> work]
    <3>1. e \in S /\ e.name = i
      BY <2>2
    <3>2. sps' = Append(sps, e)
      BY <1>3
    <3>. HIDE DEF e, S, i
    <3>. QED  BY <2>1, <3>1, <3>2, AppendAt
  <2>4. s.kind = "SAVEPOINT" /\ s.arg = i /\ s.phase = "ok"
    BY <1>1, <2>1, PhaseOnly DEF Replies
  <2>5. stmt' = [stmt EXCEPT ![t] = s]
    BY <1>3, <2>1 DEF Reply
  <2>. HIDE DEF s
  <2>6. stmt'[t] = s /\ stack'[t] = st /\ \A u \in Tasks \ {t} : stack'[u] = <<>> /\ stmt'[u] = Idle
    BY <1>1, <2>1, <2>5
  <2>7. /\ \A k, l \in 1..Len(st) : st[k] = st[l] => k = l
        /\ \A k \in 1..Len(st) : st[k] # i
    BY <1>1 DEF SInv, Once, Entering
  <2>8. Once(t)'
    BY <2>4, <2>6, <2>7 DEF Once
  <2>9. \A k \in 2..Len(st) : Has(sps, st[k]) /\
            \A l \in k+1..Len(st) : At(sps, st[k]) < At(sps, st[l])
    BY <1>1 DEF SInv, NestedSaved, Kept
  <2>10. \A k \in 2..Len(st) : Has(sps', st[k]) /\ At(sps', st[k]) = At(sps, st[k])
                               /\ At(sps, st[k]) \in 1..Len(sps)
    <3>. TAKE k \in 2..Len(st)
    <3>1. k \in 1..Len(st)
      BY <2>1
    <3>2. st[k] # i /\ Has(sps, st[k])
      BY <2>7, <2>9, <3>1
    <3>. HIDE DEF st, S, i
    <3>. QED  BY <2>1, <2>3, <3>2, MostRecent
  <2>. HIDE DEF st, S, i
  <2>11. NestedSaved(t)'
    <3>. SUFFICES ASSUME NEW k \in 2..Len(st)
                  PROVE  Has(sps', st[k]) /\
                         \A l \in k+1..Len(st) : At(sps', st[k]) < At(sps', st[l])
      BY <2>6 DEF NestedSaved
    <3>1. \A l \in k+1..Len(st) : l \in 2..Len(st)
      BY <2>1
    <3>. QED  BY <2>9, <2>10, <3>1
  <2>12. PendingSaved(t)'
    <3>1. sps \in Seq(S) => Len(sps) \in Nat
      OBVIOUS
    <3>. QED  BY <2>1, <2>3, <2>4, <2>6, <2>10, <3>1 DEF PendingSaved
  <2>. QED  BY <2>6, <2>8, <2>11, <2>12, Focus
<1>. QED  BY <1>2, <1>3 DEF ServeSavepoint

\* RELEASE discards the innermost block's savepoint, ROLLBACK TO what is above it.
Surviving(t) ==
    IF stmt[t].kind = "RELEASE" THEN At(sps, stmt[t].arg) - 1 ELSE At(sps, stmt[t].arg)

Discards(t) ==
    /\ stmt[t].kind \in {"RELEASE", "ROLLBACK TO"} /\ stmt[t].phase = "sent"
    /\ Reply(t, "ok")
    /\ stack' = stack
    /\ sps' = SubSeq(sps, 1, Surviving(t))

LEMMA DiscardSInv ==
    ASSUME IInv, TInv, SInv, NEW t \in Tasks, NestedSaved(t), Discards(t)
    PROVE  SInv'
<1>. DEFINE i == stmt[t].arg
            st == stack[t]
            n == Len(st)
            s == [stmt[t] EXCEPT !.phase = "ok"]
            S == [name : Insts, snap : SUBSET Writes]
<1>1. /\ \A u \in Tasks \ {t} : stack[u] = <<>> /\ stmt[u] = Idle
      /\ n \in Nat /\ n >= 2 /\ i = st[n] /\ stmt[t] \in Statements
      /\ sps \in Seq(S) /\ stmt \in [Tasks -> Statements]
  <2>1. stmt[t].kind \in {"RELEASE", "ROLLBACK TO"}
    BY DEF Discards
  <2>2. stmt[t].kind # "none" /\ stmt[t].kind \in Leaving
    BY <2>1 DEF Leaving
  <2>. QED  BY <2>1, <2>2, UsersBlocks DEF IInv, TypeOK
<1>2. s.kind = stmt[t].kind /\ s.arg = i /\ s.phase = "ok"
  BY <1>1, PhaseOnly DEF Discards, Replies
<1>3. stmt' = [stmt EXCEPT ![t] = s]
  BY <1>1 DEF Discards, Reply
<1>. HIDE DEF s
<1>4. stmt'[t] = s /\ stack'[t] = st /\ \A u \in Tasks \ {t} : stack'[u] = <<>> /\ stmt'[u] = Idle
  BY <1>1, <1>3 DEF Discards
<1>5. Once(t)'
  BY <1>2, <1>4 DEF Discards, SInv, Once
<1>6. \A k \in 2..n : Has(sps, st[k]) /\
          \A l \in k+1..n : At(sps, st[k]) < At(sps, st[l])
  BY DEF Discards, NestedSaved, Kept
<1>7. /\ stmt[t].kind = "RELEASE" => Surviving(t) = At(sps, i) - 1
      /\ stmt[t].kind # "RELEASE" => Surviving(t) = At(sps, i)
  BY DEF Surviving
<1>8. ~PendingSaved(t)' => FALSE
  BY <1>2, <1>4 DEF Discards, PendingSaved
<1>. HIDE DEF S, st, n, i
<1>9. \A k \in 2..n : At(sps, st[k]) \in 1..Len(sps)
  BY <1>1, <1>6, MostRecent
<1>10. n \in 2..n /\ At(sps, i) \in 1..Len(sps) /\ Len(sps) \in Nat
  <2>1. n \in 2..n
    BY <1>1
  <2>2. sps \in Seq(S) => Len(sps) \in Nat
    OBVIOUS
  <2>. QED  BY <1>1, <1>9, <2>1, <2>2
<1>11. Surviving(t) \in 0..Len(sps)
  BY <1>7, <1>10
<1>12. ASSUME NEW k \in 2..n, k < n \/ stmt[t].kind # "RELEASE"
       PROVE  Has(sps', st[k]) /\ At(sps', st[k]) = At(sps, st[k])
  <2>1. At(sps, st[k]) <= Surviving(t)
    <3>1. CASE k = n
      BY <1>1, <1>7, <1>10, <1>12, <3>1
    <3>2. CASE k # n
      <4>1. n \in k+1..n
        BY <1>1, <3>2
      <4>2. At(sps, st[k]) < At(sps, i) /\ At(sps, st[k]) \in 1..Len(sps)
        BY <1>1, <1>6, <1>9, <4>1
      <4>. QED  BY <1>7, <1>10, <4>2
    <3>. QED  BY <3>1, <3>2
  <2>. QED  BY <1>1, <1>6, <1>11, <2>1, PrefixAt DEF Discards
<1>13. ASSUME NEW k \in 2..n, Kept(t, k)'
       PROVE  k < n \/ stmt[t].kind # "RELEASE"
  BY <1>2, <1>4, <1>13 DEF Kept, n
<1>14. NestedSaved(t)'
  <2>. SUFFICES ASSUME NEW k \in 2..n, Kept(t, k)'
                PROVE  Has(sps', st[k]) /\
                       \A l \in k+1..n : Kept(t, l)' => At(sps', st[k]) < At(sps', st[l])
    BY <1>4 DEF NestedSaved, n
  <2>1. \A l \in k+1..n : l \in 2..n
    BY <1>1
  <2>. QED  BY <1>6, <1>12, <1>13, <2>1
<1>. QED  BY <1>4, <1>5, <1>8, <1>14, Focus

\* COMMIT and ROLLBACK end the only block there is.
LEMMA EndSInv ==
    ASSUME IInv, TInv, SInv, NEW t \in Tasks, stmt[t].kind \in Ending,
           \E r \in Replies : Reply(t, r), stack' = stack
    PROVE  SInv'
<1>1. stmt[t].kind # "none" /\ stmt[t].kind # "SAVEPOINT"
  BY DEF Ending
<1>2. /\ \A u \in Tasks \ {t} : stack[u] = <<>> /\ stmt[u] = Idle
      /\ Len(stack[t]) = 1
      /\ stmt \in [Tasks -> Statements]
  BY <1>1, UsersBlocks DEF IInv, TypeOK
<1>3. PICK r \in Replies : stmt' = [stmt EXCEPT ![t] = [stmt[t] EXCEPT !.phase = r]]
  BY <1>2 DEF Reply
<1>4. stmt[t] \in Statements /\ stmt[t].phase # "none"
  BY <1>1, <1>2, StatementArgs DEF Idle
<1>5. /\ stmt'[t].kind = stmt[t].kind /\ stmt'[t].arg = stmt[t].arg
      /\ stack'[t] = stack[t]
      /\ \A u \in Tasks \ {t} : stack'[u] = <<>> /\ stmt'[u] = Idle
  BY <1>2, <1>3, <1>4, PhaseOnly
<1>6. Once(t)'
  BY <1>5 DEF SInv, Once
<1>7. NestedSaved(t)' /\ PendingSaved(t)'
  BY <1>1, <1>2, <1>5 DEF NestedSaved, PendingSaved
<1>. QED  BY <1>5, <1>6, <1>7, Focus

LEMMA ServerSInv ==
    ASSUME IInv, TInv, SInv, NEW t \in Tasks, Server(t)
    PROVE  SInv'
<1>1. /\ \E r \in {"ok", "error"} : Reply(t, r)
      /\ stmt[t].phase = "sent" /\ UNCHANGED <<stack, alive>>
  BY ServerReplies, ServerTyped DEF client
<1>2. CASE ServeBegin(t) \/ ServeWrite(t) \/ ServeDead(t)
  <2>1. stmt[t].kind = "SAVEPOINT" => Reply(t, "error")
    BY <1>2 DEF ServeBegin, ServeWrite, ServeDead, Sent
  <2>2. UNCHANGED sps
    BY <1>2 DEF ServeBegin, ServeWrite, ServeDead, server
  <2>. QED  BY <1>1, <2>1, <2>2, ReplySInv DEF Replies
<1>3. CASE ServeSavepoint(t)
  BY <1>3, ServeSavepointSInv
<1>4. CASE ServeCommit(t) \/ ServeRollback(t)
  <2>1. stmt[t].kind \in Ending
    BY <1>4 DEF ServeCommit, ServeRollback, Sent, Ending
  <2>. QED  BY <1>1, <2>1, EndSInv DEF Replies
<1>5. CASE ServeRelease(t) \/ ServeRollbackTo(t)
  <2>1. stmt[t].kind \in {"RELEASE", "ROLLBACK TO"} /\ alive
    BY <1>5 DEF ServeRelease, ServeRollbackTo, Sent
  <2>2. CASE Reply(t, "error") /\ UNCHANGED sps
    BY <1>1, <2>1, <2>2, ReplySInv DEF Replies
  <2>3. CASE ~(Reply(t, "error") /\ UNCHANGED sps)
    <3>1. /\ Reply(t, "ok")
          /\ stmt[t].kind = "RELEASE" => sps' = SubSeq(sps, 1, Position(stmt[t].arg) - 1)
          /\ stmt[t].kind = "ROLLBACK TO" => sps' = SubSeq(sps, 1, Position(stmt[t].arg))
      BY <1>5, <2>3 DEF ServeRelease, ServeRollbackTo, Sent
    <3>2. Position(stmt[t].arg) = At(sps, stmt[t].arg)
      BY DEF Position, At
    <3>3. Discards(t)
      BY <1>1, <2>1, <3>1, <3>2 DEF Discards, Surviving
    <3>4. NestedSaved(t)
      BY <2>1 DEF SInv
    <3>. QED  BY <3>3, <3>4, DiscardSInv
  <2>. QED  BY <2>2, <2>3
<1>. QED  BY <1>2, <1>3, <1>4, <1>5 DEF Server

LEMMA EnterReturnsSInv ==
    ASSUME IInv, TInv, SInv, NEW t \in Tasks, EnterReturns(t)
    PROVE  SInv'
<1>1. /\ stmt[t].kind \in Entering /\ stmt[t].arg \in Insts
      /\ stmt' = [stmt EXCEPT ![t] = Idle] /\ UNCHANGED <<alive, sps>>
      /\ stmt \in [Tasks -> Statements] /\ stack \in [Tasks -> Seq(Insts)]
  BY StatementArgs DEF EnterReturns, Returned, server, IInv, TypeOK
<1>2. stmt[t].kind # "none" /\ stmt[t].kind # "RELEASE"
  BY <1>1 DEF Entering
<1>3. CASE stmt[t].phase # "ok"
  <2>1. stack' = stack
    BY <1>3 DEF EnterReturns
  <2>. QED  BY <1>1, <1>2, <2>1, SameSavepoints DEF Kept, Entering, Idle
<1>4. CASE stmt[t].phase = "ok"
  <2>. DEFINE st == stack[t]
              i == stmt[t].arg
              r == Append(st, i)
              n == Len(st)
  <2>1. /\ n \in Nat /\ Len(r) = n + 1 /\ r[n+1] = i
        /\ \A k \in 1..n : r[k] = st[k]
    BY <1>1, PushKeeps
  <2>2. stack' = [stack EXCEPT ![t] = r]
    BY <1>4 DEF EnterReturns
  <2>3. \A u \in Tasks \ {t} : stack[u] = <<>> /\ stmt[u] = Idle
    BY <1>2, UsersBlocks
  <2>. HIDE DEF r
  <2>4. /\ stack'[t] = r /\ stmt'[t] = Idle
        /\ \A u \in Tasks \ {t} : stack'[u] = <<>> /\ stmt'[u] = Idle
    BY <1>1, <2>2, <2>3
  <2>5. /\ \A k, l \in 1..n : st[k] = st[l] => k = l
        /\ \A k \in 1..n : st[k] # i
    BY <1>1 DEF SInv, Once
  <2>6. ASSUME alive
        PROVE  /\ \A k \in 2..n : Has(sps, st[k]) /\
                      \A l \in k+1..n : At(sps, st[k]) < At(sps, st[l])
               /\ n >= 1 => Has(sps, i) /\ \A k \in 2..n : At(sps, st[k]) < At(sps, i)
    <3>1. NestedSaved(t) /\ PendingSaved(t)
      BY <2>6 DEF SInv
    <3>2. \A k \in 2..n : Has(sps, st[k]) /\
              \A l \in k+1..n : At(sps, st[k]) < At(sps, st[l])
      BY <1>2, <3>1 DEF NestedSaved, Kept
    <3>3. n >= 1 => stmt[t].kind = "SAVEPOINT"
      <4>1. n >= 1 => st # <<>>
        OBVIOUS
      <4>2. st # <<>> => stmt[t].kind # "BEGIN"
        BY DEF TInv, FlagIsDepth
      <4>. HIDE DEF n, st
      <4>. QED  BY <1>1, <4>1, <4>2 DEF Entering
    <3>4. stmt[t].kind = "SAVEPOINT" =>
              Has(sps, i) /\ \A k \in 2..n : At(sps, st[k]) < At(sps, i)
      BY <1>4, <3>1 DEF PendingSaved
    <3>. HIDE DEF n, st, i
    <3>. QED  BY <3>2, <3>3, <3>4
  <2>. HIDE DEF st, i, n
  <2>7. \A k, l \in 1..n+1 : r[k] = r[l] => k = l
    BY <2>1, <2>5
  <2>8. Once(t)'
    BY <2>1, <2>4, <2>7 DEF Once, Idle, Entering
  <2>9. ASSUME alive
        PROVE  \A k \in 2..n+1 : Has(sps, r[k]) /\
                   \A l \in k+1..n+1 : At(sps, r[k]) < At(sps, r[l])
    <3>1. \A k \in 2..n+1 : \/ k \in 2..n /\ r[k] = st[k]
                            \/ k = n+1 /\ r[k] = i /\ n >= 1
      BY <2>1
    <3>2. \A k \in 2..n+1 : \A l \in k+1..n+1 : l \in 2..n+1 /\ k \in 2..n
      BY <2>1
    <3>3. \A k \in 2..n : \A l \in k+1..n+1 : l \in k+1..n \/ l = n+1
      BY <2>1
    <3>4. ASSUME NEW k \in 2..n+1
          PROVE  Has(sps, r[k])
      BY <2>6, <2>9, <3>1, <3>4
    <3>5. ASSUME NEW k \in 2..n+1, NEW l \in k+1..n+1
          PROVE  At(sps, r[k]) < At(sps, r[l])
      <4>1. k \in 2..n /\ r[k] = st[k] /\ l \in 2..n+1
        BY <2>1, <3>2, <3>5
      <4>2. CASE l \in k+1..n
        BY <2>1, <2>6, <2>9, <4>1, <4>2
      <4>3. CASE l = n+1
        BY <2>1, <2>6, <2>9, <4>1, <4>3
      <4>. QED  BY <3>3, <3>5, <4>1, <4>2, <4>3
    <3>. QED  BY <3>4, <3>5
  <2>10. alive' => NestedSaved(t)' /\ PendingSaved(t)'
    BY <1>1, <2>1, <2>4, <2>9 DEF NestedSaved, PendingSaved, Idle
  <2>. QED  BY <2>4, <2>8, <2>10, Focus
<1>. QED  BY <1>3, <1>4

LEMMA PopSInv ==
    ASSUME IInv, TInv, SInv, NEW t \in Tasks, stmt[t].kind \in Leaving, Pop(t),
           stmt' = [stmt EXCEPT ![t] = Idle], UNCHANGED <<sps, alive>>
    PROVE  SInv'
<1>. DEFINE st == stack[t]
            r == SubSeq(st, 1, Len(st) - 1)
            n == Len(st)
<1>1. stmt[t].kind # "none"
  BY DEF Leaving, Ending
<1>2. /\ \A u \in Tasks \ {t} : stack[u] = <<>> /\ stmt[u] = Idle
      /\ st \in Seq(Insts) /\ n \in Nat /\ n >= 1
      /\ stmt \in [Tasks -> Statements] /\ stack \in [Tasks -> Seq(Insts)]
  BY <1>1, UsersBlocks DEF IInv, TypeOK
<1>3. Len(r) = n - 1 /\ \A k \in 1..n-1 : r[k] = st[k]
  <2>1. st # <<>>
    BY <1>2, EmptySeq
  <2>. QED  BY <1>2, <2>1, PopKeeps
<1>4. stack' = [stack EXCEPT ![t] = r]
  BY <1>2 DEF Pop
<1>. HIDE DEF r
<1>5. /\ stack'[t] = r /\ stmt'[t] = Idle
      /\ \A u \in Tasks \ {t} : stack'[u] = <<>> /\ stmt'[u] = Idle
  BY <1>2, <1>4
<1>6. \A k, l \in 1..n : st[k] = st[l] => k = l
  BY DEF SInv, Once
<1>7. ASSUME alive
      PROVE  \A k \in 2..n-1 : Has(sps, st[k]) /\
                 \A l \in k+1..n-1 : At(sps, st[k]) < At(sps, st[l])
  <2>1. NestedSaved(t)
    BY <1>7 DEF SInv
  <2>2. \A k \in 2..n-1 : k \in 2..n /\ Kept(t, k)
    BY <1>2 DEF Kept
  <2>3. \A k \in 2..n-1 : \A l \in k+1..n-1 : l \in k+1..n /\ Kept(t, l)
    BY <1>2 DEF Kept
  <2>. QED  BY <2>1, <2>2, <2>3 DEF NestedSaved
<1>. HIDE DEF st, n
<1>8. Once(t)'
  BY <1>2, <1>3, <1>5, <1>6 DEF Once, Idle, Entering
<1>9. \A k \in 2..n-1 : k \in 1..n-1 /\ \A l \in k+1..n-1 : l \in 1..n-1
  BY <1>2
<1>10. alive' => NestedSaved(t)' /\ PendingSaved(t)'
  BY <1>3, <1>5, <1>7, <1>9 DEF NestedSaved, PendingSaved, Idle
<1>. QED  BY <1>5, <1>8, <1>10, Focus

LEMMA LeavingReturnsSInv ==
    ASSUME IInv, TInv, SInv, NEW t \in Tasks,
           RollbackToReturns(t) \/ ReleaseReturns(t) \/ EndReturns(t)
    PROVE  SInv'
<1>1. stmt[t].kind \in Leaving /\ UNCHANGED <<sps, alive>> /\ stmt \in [Tasks -> Statements]
  BY DEF RollbackToReturns, ReleaseReturns, EndReturns, Returned, server, Leaving,
         IInv, TypeOK
<1>2. CASE RollbackToReturns(t) /\ stmt[t].phase = "ok"
  <2>1. /\ stmt[t].kind = "ROLLBACK TO" /\ stack' = stack
        /\ stmt' = [stmt EXCEPT ![t] =
              [kind |-> "RELEASE", arg |-> stmt[t].arg, phase |-> "sent"]]
    BY <1>2 DEF RollbackToReturns, Returned, Send
  <2>. QED  BY <1>1, <2>1, SameSavepoints DEF Kept, Entering
<1>3. CASE ~(RollbackToReturns(t) /\ stmt[t].phase = "ok")
  <2>1. Pop(t) /\ stmt' = [stmt EXCEPT ![t] = Idle]
    BY <1>3 DEF RollbackToReturns, ReleaseReturns, EndReturns
  <2>. QED  BY <1>1, <2>1, PopSInv
<1>. QED  BY <1>2, <1>3

LEMMA LoseSInv ==
    ASSUME IInv, SInv, Lose
    PROVE  SInv'
<1>1. UNCHANGED stack /\ ~alive' /\ \A t \in Tasks : stmt'[t].kind = stmt[t].kind
                                                      /\ stmt'[t].arg = stmt[t].arg
  BY LoseKeepsStatements DEF Lose, client
<1>. QED  BY <1>1 DEF SInv, Once

LEMMA NextSInv ==
    ASSUME Serialised
    PROVE  IInv /\ TInv /\ SInv /\ [Next]_vars => SInv'
<1>. SUFFICES ASSUME IInv, TInv, SInv, [Next]_vars PROVE SInv'
  OBVIOUS
<1>1. ASSUME NEW t \in Tasks, \/ \E i \in Insts : Enter(t, i)
                              \/ \E w \in Writes : Write(t, w)
                              \/ WriteReturns(t) \/ Raise(t) \/ Catch(t) \/ Exit(t)
      PROVE  SInv'
  BY <1>1, ProgramSInv
<1>2. ASSUME NEW t \in Tasks, Cancel(t) PROVE SInv'
  BY <1>2, CancelSInv
<1>3. ASSUME NEW t \in Tasks, Server(t) PROVE SInv'
  BY <1>3, ServerSInv
<1>4. ASSUME NEW t \in Tasks, Resume(t) PROVE SInv'
  BY <1>1, <1>4, EnterReturnsSInv, LeavingReturnsSInv DEF Resume
<1>5. CASE Lose
  BY <1>5, LoseSInv
<1>6. CASE UNCHANGED vars
  BY <1>6 DEF vars, SInv, Once, NestedSaved, PendingSaved, Kept
<1>. QED
  BY <1>1, <1>2, <1>3, <1>4, <1>5, <1>6 DEF Next

\* When tasks take turns, the statements that close nested blocks always name a
\* savepoint that exists and that lies above those of the blocks around, whatever
\* fails, is cancelled or leaks a savepoint of its own.
THEOREM SavepointsHeld ==
    ASSUME Serialised
    PROVE  Spec => []SavepointsMatchBlocks
<1>1. Init => TInv /\ SInv
  BY InitTInv, InitSInv
<1>2. IInv /\ TInv /\ SInv /\ [Next]_vars => TInv' /\ SInv'
  BY NextTInv, NextSInv
<1>3. ASSUME IInv, TInv, SInv
      PROVE  SavepointsMatchBlocks
  <2>a. \A i : Defined(i) <=> Has(sps, i)
    BY DEF Defined, Has
  <2>b. \A i : Position(i) = At(sps, i)
    BY Zenon DEF Position, At
  <2>. SUFFICES ASSUME alive, NEW t \in Tasks, NEW k \in 1..Len(stack[t]),
                       savepoint[stack[t][k]], stmt[t].kind \notin Leaving
                PROVE  /\ Has(sps, stack[t][k])
                       /\ \A l \in k+1..Len(stack[t]) :
                             At(sps, stack[t][k]) < At(sps, stack[t][l])
    BY <2>a, <2>b, Zenon DEF SavepointsMatchBlocks
  <2>1. NestedSaved(t) /\ \A l \in 1..Len(stack[t]) : Kept(t, l)
    BY <1>3 DEF SInv, Kept, Leaving
  <2>2. k > 1
    BY <1>3 DEF TInv, OuterFirst
  <2>3. k \in 2..Len(stack[t]) /\ \A l \in k+1..Len(stack[t]) : l \in 1..Len(stack[t])
    BY <2>2
  <2>. QED  BY <2>1, <2>3 DEF NestedSaved
<1>. QED  BY <1>1, <1>2, <1>3, Invariance, PTL DEF Spec

----------------------------------------------------------------------------
(* Transaction implements NestedTx.                                        *)

RowSets == SUBSET Writes

\* The rows written between snapshots, the last of them and the rows of now.
Between(b, w) ==
    [k \in 1..Len(b) |-> (IF k < Len(b) THEN b[k + 1] ELSE w) \ b[k]]

LEMMA BetweenTyped ==
    ASSUME NEW b \in Seq(RowSets), NEW w \in RowSets
    PROVE  /\ Len(b) \in Nat
           /\ Between(b, w) \in Seq(RowSets)
           /\ Len(Between(b, w)) = Len(b)
           /\ \A k \in 1..Len(b) - 1 : Between(b, w)[k] = b[k + 1] \ b[k]
           /\ Len(b) > 0 => Between(b, w)[Len(b)] = w \ b[Len(b)]
<1>. DEFINE e(k) == (IF k < Len(b) THEN b[k + 1] ELSE w) \ b[k]
<1>1. Len(b) \in Nat /\ \A k \in 1..Len(b) : b[k] \in RowSets
  OBVIOUS
<1>2. \A k \in 1..Len(b) : e(k) \in RowSets
  <2>. TAKE k \in 1..Len(b)
  <2>1. k < Len(b) => k + 1 \in 1..Len(b)
    BY <1>1
  <2>. QED  BY <1>1, <2>1 DEF RowSets
<1>3. Between(b, w) = [k \in 1..Len(b) |-> e(k)]
  BY DEF Between
<1>. HIDE DEF e
<1>4. [k \in 1..Len(b) |-> e(k)] \in Seq(RowSets)
  BY <1>1, <1>2, IsASeq
<1>5. Len([k \in 1..Len(b) |-> e(k)]) = Len(b)
  BY <1>1
<1>6. \A k \in 1..Len(b) : Between(b, w)[k] = e(k)
  BY <1>3
<1>7. \A k \in 1..Len(b) - 1 : Between(b, w)[k] = b[k + 1] \ b[k]
  <2>. TAKE k \in 1..Len(b) - 1
  <2>1. k \in 1..Len(b) /\ k < Len(b)
    BY <1>1
  <2>2. e(k) = b[k + 1] \ b[k]
    BY <2>1 DEF e
  <2>. QED  BY <1>6, <2>1, <2>2
<1>8. Len(b) > 0 => Between(b, w)[Len(b)] = w \ b[Len(b)]
  <2>. HAVE Len(b) > 0
  <2>1. Len(b) \in 1..Len(b) /\ ~(Len(b) < Len(b))
    BY <1>1
  <2>2. e(Len(b)) = w \ b[Len(b)]
    BY <2>1 DEF e
  <2>. QED  BY <1>6, <2>1, <2>2
<1>. QED  BY <1>1, <1>3, <1>4, <1>5, <1>7, <1>8

\* A block that opens starts from the rows of now.
LEMMA BetweenOpen ==
    ASSUME NEW b \in Seq(RowSets), NEW w \in RowSets
    PROVE  Between(Append(b, w), w) = Append(Between(b, w), {})
<1>. DEFINE c == Append(b, w)
            f == Between(b, w)
            g == Between(c, w)
            a == Append(f, {})
            n == Len(b)
<1>1. /\ n \in Nat /\ c \in Seq(RowSets) /\ Len(c) = n + 1
      /\ \A k \in 1..n : c[k] = b[k]
      /\ c[n + 1] = w
  BY PushKeeps
<1>2. /\ f \in Seq(RowSets) /\ Len(f) = n
      /\ \A k \in 1..n - 1 : f[k] = b[k + 1] \ b[k]
      /\ n > 0 => f[n] = w \ b[n]
  BY BetweenTyped
<1>. HIDE DEF c
<1>3. /\ g \in Seq(RowSets) /\ Len(g) = n + 1
      /\ \A k \in 1..n : g[k] = c[k + 1] \ c[k]
      /\ g[n + 1] = w \ c[n + 1]
  <2>1. /\ Between(c, w) \in Seq(RowSets) /\ Len(Between(c, w)) = Len(c)
        /\ \A k \in 1..Len(c) - 1 : Between(c, w)[k] = c[k + 1] \ c[k]
        /\ Len(c) > 0 => Between(c, w)[Len(c)] = w \ c[Len(c)]
    BY <1>1, BetweenTyped
  <2>2. Len(c) - 1 = n /\ Len(c) > 0
    BY <1>1
  <2>. QED  BY <1>1, <2>1, <2>2
<1>. HIDE DEF f, g
<1>4. /\ a \in Seq(RowSets) /\ Len(a) = n + 1
      /\ \A k \in 1..n : a[k] = f[k]
      /\ a[n + 1] = {}
  <2>. {} \in RowSets
    BY DEF RowSets
  <2>. QED  BY <1>2, PushKeeps
<1>. HIDE DEF a, n
<1>5. \A k \in 1..n+1 : g[k] = a[k]
  <2>. TAKE k \in 1..n+1
  <2>1. CASE k = n + 1
    BY <1>1, <1>3, <1>4, <2>1
  <2>2. CASE k = n /\ k \in 1..n
    <3>1. g[k] = w \ b[k]
      BY <1>1, <1>3, <2>2
    <3>2. a[k] = w \ b[k]
      BY <1>1, <1>2, <1>4, <2>2
    <3>. QED  BY <3>1, <3>2
  <2>3. CASE k < n
    <3>1. k \in 1..n /\ k + 1 \in 1..n /\ k \in 1..n - 1
      BY <1>1, <2>3
    <3>2. g[k] = b[k + 1] \ b[k]
      BY <1>1, <1>3, <2>3, <3>1
    <3>3. a[k] = b[k + 1] \ b[k]
      BY <1>2, <1>4, <2>3, <3>1
    <3>. QED  BY <3>2, <3>3
  <2>. QED  BY <1>1, <2>1, <2>2, <2>3
<1>6. g = a
  BY <1>3, <1>4, <1>5, SeqEqual
<1>. QED  BY <1>6 DEF a, c, f, g

\* Whatever becomes of the rows of now, only the innermost block is concerned.
LEMMA BetweenNow ==
    ASSUME NEW b \in Seq(RowSets), b # <<>>,
           NEW v \in RowSets, NEW w \in RowSets
    PROVE  /\ Len(b) \in 1..Len(b)
           /\ Between(b, v) # <<>>
           /\ Between(b, w)[Len(b)] = w \ b[Len(b)]
           /\ Between(b, v) = [Between(b, w) EXCEPT ![Len(b)] = v \ b[Len(b)]]
<1>. DEFINE f == Between(b, w)
            g == Between(b, v)
            n == Len(b)
            e == v \ b[n]
<1>1. n \in Nat /\ n # 0
  BY EmptySeq
<1>2. /\ f \in Seq(RowSets) /\ Len(f) = n
      /\ \A k \in 1..n - 1 : f[k] = b[k + 1] \ b[k]
      /\ n > 0 => f[n] = w \ b[n]
  BY BetweenTyped
<1>3. /\ g \in Seq(RowSets) /\ Len(g) = n
      /\ \A k \in 1..n - 1 : g[k] = b[k + 1] \ b[k]
      /\ n > 0 => g[n] = v \ b[n]
  BY BetweenTyped
<1>. HIDE DEF f, g
<1>4. n \in 1..n /\ n \in 1..Len(f) /\ e \in RowSets
  BY <1>1, <1>2 DEF RowSets
<1>. HIDE DEF e, n
<1>5. /\ [f EXCEPT ![n] = e] \in Seq(RowSets) /\ Len([f EXCEPT ![n] = e]) = n
      /\ \A j \in 1..n : [f EXCEPT ![n] = e][j] = IF j = n THEN e ELSE f[j]
  BY <1>2, <1>4, ExceptSeq
<1>6. f[n] = w \ b[n] /\ g[n] = e
  BY <1>1, <1>2, <1>3, <1>4 DEF e
<1>7. \A j \in 1..n : g[j] = [f EXCEPT ![n] = e][j]
  <2>1. \A j \in 1..n : j = n \/ j \in 1..n - 1
    BY <1>1
  <2>2. \A j \in 1..n - 1 : j \in 1..n /\ j # n
    BY <1>1
  <2>. QED  BY <1>2, <1>3, <1>4, <1>5, <1>6, <2>1, <2>2
<1>8. g = [f EXCEPT ![n] = e]
  BY <1>3, <1>5, <1>7, SeqEqual
<1>9. g # <<>>
  BY <1>1, <1>3, EmptySeq
<1>. QED  BY <1>4, <1>6, <1>8, <1>9 DEF e, f, g, n

\* The blocks around the innermost one, which started from b[Len(b)].
LEMMA BetweenClose ==
    ASSUME NEW b \in Seq(RowSets), b # <<>>, NEW w \in RowSets
    PROVE  /\ SubSeq(b, 1, Len(b) - 1) \in Seq(RowSets)
           /\ b[Len(b)] \in RowSets
           /\ Between(SubSeq(b, 1, Len(b) - 1), b[Len(b)])
                = SubSeq(Between(b, w), 1, Len(b) - 1)
<1>. DEFINE n == Len(b)
            c == SubSeq(b, 1, n - 1)
            f == Between(b, w)
            g == Between(c, b[n])
            a == SubSeq(f, 1, n - 1)
<1>1. n \in Nat /\ n # 0 /\ n - 1 \in Nat
  BY EmptySeq
<1>2. /\ c \in Seq(RowSets) /\ Len(c) = n - 1
      /\ \A k \in 1..n - 1 : c[k] = b[k]
      /\ b[n] \in RowSets
  BY <1>1, PopKeeps, ElementOfSeq
<1>3. /\ f \in Seq(RowSets) /\ Len(f) = n
      /\ \A k \in 1..n - 1 : f[k] = b[k + 1] \ b[k]
  BY BetweenTyped
<1>4. f # <<>>
  BY <1>1, <1>3, EmptySeq
<1>. HIDE DEF f, c
<1>5. /\ g \in Seq(RowSets) /\ Len(g) = Len(c)
      /\ \A k \in 1..Len(c) - 1 : g[k] = c[k + 1] \ c[k]
      /\ Len(c) > 0 => g[Len(c)] = b[n] \ c[Len(c)]
  BY <1>2, BetweenTyped
<1>6. /\ SubSeq(f, 1, Len(f) - 1) \in Seq(RowSets)
      /\ Len(SubSeq(f, 1, Len(f) - 1)) = Len(f) - 1
      /\ \A k \in 1..Len(f) - 1 : SubSeq(f, 1, Len(f) - 1)[k] = f[k]
  BY <1>3, <1>4, PopKeeps
<1>7. a \in Seq(RowSets) /\ Len(a) = n - 1 /\ \A k \in 1..n - 1 : a[k] = f[k]
  BY <1>3, <1>6
<1>. HIDE DEF g, a, n
<1>8. \A k \in 1..n - 1 : g[k] = a[k]
  <2>. TAKE k \in 1..n - 1
  <2>1. CASE k = n - 1
    <3>1. g[k] = b[n] \ c[k]
      BY <1>1, <1>2, <1>5, <2>1
    <3>2. a[k] = b[k + 1] \ b[k] /\ k + 1 = n
      BY <1>1, <1>3, <1>7, <2>1
    <3>. QED  BY <1>2, <3>1, <3>2
  <2>2. CASE k # n - 1
    <3>1. k \in 1..Len(c) - 1 /\ k + 1 \in 1..n - 1
      BY <1>1, <1>2, <2>2
    <3>2. g[k] = c[k + 1] \ c[k]
      BY <1>5, <3>1
    <3>3. a[k] = b[k + 1] \ b[k]
      BY <1>3, <1>7
    <3>. QED  BY <1>2, <3>1, <3>2, <3>3
  <2>. QED  BY <2>1, <2>2
<1>9. g = a
  BY <1>2, <1>5, <1>7, <1>8, SeqEqual
<1>. QED  BY <1>2, <1>9 DEF g, a, f, c, n

\* A nested block's rows join those of the block around it.
LEMMA BetweenMerge ==
    ASSUME NEW b \in Seq(RowSets), Len(b) >= 2, NEW w \in RowSets,
           b[Len(b) - 1] \subseteq b[Len(b)], b[Len(b)] \subseteq w
    PROVE  w \ b[Len(b) - 1] = Between(b, w)[Len(b) - 1] \cup Between(b, w)[Len(b)]
<1>. DEFINE n == Len(b)
            f == Between(b, w)
<1>1. n \in Nat /\ n - 1 \in 1..n - 1 /\ n > 0 /\ (n - 1) + 1 = n
  OBVIOUS
<1>2. /\ \A k \in 1..n - 1 : f[k] = b[k + 1] \ b[k]
      /\ n > 0 => f[n] = w \ b[n]
  BY BetweenTyped
<1>. HIDE DEF f, n
<1>3. f[n - 1] = b[n] \ b[n - 1] /\ f[n] = w \ b[n]
  BY <1>1, <1>2
<1>4. b[n - 1] \subseteq b[n] /\ b[n] \subseteq w
  BY DEF n
<1>5. w \ b[n - 1] = f[n - 1] \cup f[n]
  BY <1>3, <1>4
<1>. QED  BY <1>5 DEF f, n

\* Without snapshots and rows, nothing is between them.
LEMMA BetweenNothing ==
    ASSUME NEW b \in Seq(RowSets), \A k \in 1..Len(b) : b[k] = {}
    PROVE  Between(b, {}) = [k \in 1..Len(b) |-> {}]
<1>1. \A k \in 1..Len(b) : k < Len(b) => k + 1 \in 1..Len(b)
  OBVIOUS
<1>2. \A k \in 1..Len(b) : (IF k < Len(b) THEN b[k + 1] ELSE {}) \ b[k] = {}
  BY <1>1
<1>. QED  BY <1>2 DEF Between

\* What the server has when no transaction is open, and without a connection.
Grounded == (srv = "idle" => work = {} /\ sps = <<>>) /\ (~alive => srv = "idle")

\* Only a block that raised is rolled back to its savepoint, and the RELEASE
\* that follows finds the transaction open again.
RollsBack ==
    \A t \in Tasks :
        /\ stmt[t].kind = "ROLLBACK TO" => exc[t]
        /\ (/\ alive
            /\ \/ stmt[t].kind = "ROLLBACK TO" /\ stmt[t].phase = "ok"
               \/ stmt[t].kind = "RELEASE" /\ stmt[t].phase = "sent" /\ exc[t])
           => srv = "open"

\* A row on its way to the server is not there yet.
WritesNew ==
    \A t \in Tasks : (stmt[t].kind = "write" /\ stmt[t].phase = "sent") => stmt[t].arg \notin work

\* Later snapshots have the rows of earlier ones, and the transaction all of them.
SnapshotsNest ==
    /\ \A k, l \in 1..Len(sps) : k <= l => sps[k].snap \subseteq sps[l].snap
    /\ \A k \in 1..Len(sps) : sps[k].snap \subseteq work

RInv == Grounded /\ RollsBack /\ WritesNew /\ SnapshotsNest

LEMMA InitRInv == Init => RInv
<1>. SUFFICES ASSUME Init PROVE RInv
  OBVIOUS
<1>1. Grounded /\ RollsBack /\ WritesNew
  BY DEF Init, Grounded, RollsBack, WritesNew, Idle
<1>2. SnapshotsNest
  BY DEF Init, SnapshotsNest
<1>. QED  BY <1>1, <1>2 DEF RInv

\* Steps of the program leave the server alone.
LEMMA ClientRInv ==
    ASSUME IInv, RInv, NEW t \in Tasks, UNCHANGED server,
           \A u \in Tasks \ {t} : stmt'[u] = stmt[u] /\ exc'[u] = exc[u],
           \/ stmt'[t].kind \notin {"ROLLBACK TO", "RELEASE", "write"}
           \/ stmt'[t].kind = "ROLLBACK TO" /\ stmt'[t].phase = "sent" /\ exc'[t]
           \/ stmt'[t].kind = "RELEASE" /\ stmt'[t].phase = "sent"
              /\ (exc'[t] => stmt[t].kind = "ROLLBACK TO" /\ stmt[t].phase = "ok")
           \/ stmt'[t].kind = "write" /\ stmt'[t].arg \notin work
    PROVE  RInv'
<1>1. Grounded' /\ SnapshotsNest'
  BY DEF RInv, Grounded, SnapshotsNest, server
<1>2. RollsBack'
  <2>. SUFFICES ASSUME NEW u \in Tasks
                PROVE  /\ stmt'[u].kind = "ROLLBACK TO" => exc'[u]
                       /\ (/\ alive
                           /\ \/ stmt'[u].kind = "ROLLBACK TO" /\ stmt'[u].phase = "ok"
                              \/ stmt'[u].kind = "RELEASE" /\ stmt'[u].phase = "sent" /\ exc'[u])
                          => srv = "open"
    BY DEF RollsBack, server
  <2>1. CASE u = t
    BY <2>1 DEF RInv, RollsBack
  <2>2. CASE u # t
    BY <2>2 DEF RInv, RollsBack
  <2>. QED  BY <2>1, <2>2
<1>3. WritesNew'
  BY DEF RInv, WritesNew, server
<1>. QED  BY <1>1, <1>2, <1>3 DEF RInv

LEMMA ProgramRInv ==
    ASSUME IInv, RInv, NEW t \in Tasks,
           \/ \E i \in Insts : Enter(t, i)
           \/ \E w \in Writes : Write(t, w)
           \/ Resume(t) \/ Raise(t) \/ Catch(t) \/ Exit(t)
    PROVE  RInv'
<1>1. stmt \in [Tasks -> Statements] /\ exc \in [Tasks -> BOOLEAN]
  BY DEF IInv, TypeOK
<1>2. ASSUME NEW i \in Insts, Enter(t, i) PROVE RInv'
  <2>1. /\ UNCHANGED server /\ stmt[t].kind = "none"
        /\ exc' = exc \/ exc' = [exc EXCEPT ![t] = TRUE]
    BY <1>2 DEF Enter, Running, Idle
  <2>2. \/ stmt' = stmt
        \/ \E kind \in Entering :
              stmt' = [stmt EXCEPT ![t] = [kind |-> kind, arg |-> i, phase |-> "sent"]]
    BY <1>2 DEF Enter, Send, Entering
  <2>3. \A u \in Tasks \ {t} : stmt'[u] = stmt[u] /\ exc'[u] = exc[u]
    BY <1>1, <2>1, <2>2
  <2>4. stmt'[t].kind \notin {"ROLLBACK TO", "RELEASE", "write"}
    <3>1. CASE stmt' = stmt
      BY <2>1, <3>1
    <3>2. ASSUME NEW kind \in Entering,
                 stmt' = [stmt EXCEPT ![t] = [kind |-> kind, arg |-> i, phase |-> "sent"]]
          PROVE  stmt'[t].kind = kind
      BY <1>1, <3>2
    <3>. QED  BY <2>2, <3>1, <3>2 DEF Entering
  <2>. QED  BY <2>1, <2>3, <2>4, ClientRInv
<1>3. ASSUME NEW w \in Writes, Write(t, w) PROVE RInv'
  <2>1. /\ UNCHANGED <<exc, server>> /\ w \notin work
        /\ stmt' = [stmt EXCEPT ![t] = [kind |-> "write", arg |-> w, phase |-> "sent"]]
    BY <1>3 DEF Write, client, Send
  <2>. QED  BY <1>1, <2>1, ClientRInv
<1>4. CASE Raise(t) \/ Catch(t)
  <2>1. /\ UNCHANGED <<stmt, server>> /\ stmt[t].kind = "none"
        /\ \A u \in Tasks \ {t} : exc'[u] = exc[u]
    BY <1>1, <1>4 DEF Raise, Catch, Running, Idle
  <2>. QED  BY <1>1, <2>1, ClientRInv
<1>5. CASE Exit(t)
  <2>. DEFINE kind == ExitStatement(Innermost(t), exc[t])
              s == [kind |-> kind, arg |-> Innermost(t), phase |-> "sent"]
  <2>1. UNCHANGED <<exc, server>> /\ stmt' = [stmt EXCEPT ![t] = s]
    BY <1>5 DEF Exit, client, Send
  <2>2. s.kind = kind /\ s.phase = "sent"
    OBVIOUS
  <2>3. /\ kind \in {"RELEASE", "ROLLBACK TO", "COMMIT", "ROLLBACK"}
        /\ kind = "ROLLBACK TO" => exc[t]
        /\ kind = "RELEASE" => ~exc[t]
    BY DEF ExitStatement
  <2>. HIDE DEF s, kind
  <2>4. stmt'[t] = s /\ \A u \in Tasks \ {t} : stmt'[u] = stmt[u]
    BY <1>1, <2>1
  <2>. QED  BY <2>1, <2>2, <2>3, <2>4, ClientRInv
<1>6. CASE RollbackToReturns(t) /\ stmt[t].phase = "ok"
  <2>1. /\ UNCHANGED <<exc, server>> /\ stmt[t].kind = "ROLLBACK TO"
        /\ stmt' = [stmt EXCEPT ![t] =
              [kind |-> "RELEASE", arg |-> stmt[t].arg, phase |-> "sent"]]
    BY <1>6 DEF RollbackToReturns, Returned, Send
  <2>. QED  BY <1>1, <1>6, <2>1, ClientRInv
<1>7. CASE Resume(t) /\ ~(RollbackToReturns(t) /\ stmt[t].phase = "ok")
  <2>1. UNCHANGED server /\ stmt' = [stmt EXCEPT ![t] = Idle]
    BY <1>7 DEF Resume, EnterReturns, RollbackToReturns, ReleaseReturns, EndReturns,
                WriteReturns
  <2>2. \A u \in Tasks \ {t} : exc'[u] = exc[u]
    BY <1>1, <1>7 DEF Resume, EnterReturns, RollbackToReturns, ReleaseReturns, EndReturns,
                WriteReturns
  <2>. QED  BY <1>1, <2>1, <2>2, ClientRInv DEF Idle
<1>. QED  BY <1>2, <1>3, <1>4, <1>5, <1>6, <1>7

LEMMA SnapshotCut ==
    ASSUME NEW S, NEW s \in Seq(S), NEW n \in 0..Len(s), NEW w,
           \A k, l \in 1..Len(s) : k <= l => s[k].snap \subseteq s[l].snap,
           \A k \in 1..n : s[k].snap \subseteq w
    PROVE  LET r == SubSeq(s, 1, n)
           IN  /\ \A k, l \in 1..Len(r) : k <= l => r[k].snap \subseteq r[l].snap
               /\ \A k \in 1..Len(r) : r[k].snap \subseteq w
<1>. DEFINE r == SubSeq(s, 1, n)
<1>1. Len(s) \in Nat /\ Len(r) = n /\ \A k \in 1..n : r[k] = s[k] /\ k \in 1..Len(s)
  OBVIOUS
<1>. HIDE DEF r
<1>2. /\ \A k, l \in 1..Len(r) : k <= l => r[k].snap \subseteq r[l].snap
      /\ \A k \in 1..Len(r) : r[k].snap \subseteq w
  BY <1>1
<1>. QED  BY <1>2 DEF r

\* The statement of the one task that has the handle runs.
LEMMA ServerRInv ==
    ASSUME IInv, TInv, SInv, RInv, ~Cancellable, NEW t \in Tasks, Server(t)
    PROVE  RInv'
<1>. DEFINE s == stmt[t]
            S == [name : Insts, snap : SUBSET Writes]
<1>1. PICK r \in {"ok", "error"} : Reply(t, r)
  BY ServerReplies
<1>2. /\ s.phase = "sent" /\ UNCHANGED client /\ alive' = alive
      /\ s \in Statements /\ stmt \in [Tasks -> Statements]
      /\ sps \in Seq(S) /\ Len(sps) \in Nat
  BY ServerReplies, ServerTyped DEF IInv, TypeOK
<1>3. s.kind # "none" /\ s.kind = stmt[t].kind
  BY <1>2, StatementArgs DEF Idle
<1>4. \A u \in Tasks \ {t} : stmt[u].kind = "none" /\ stmt[u].phase = "none"
  <2>1. Busy(t) /\ OneBusy
    BY <1>3, StatementMeansBusy DEF TInv
  <2>. QED  BY <2>1, OthersIdle
<1>5. /\ stmt'[t].kind = s.kind /\ stmt'[t].phase = r /\ stmt'[t].arg = s.arg
      /\ \A u \in Tasks \ {t} : stmt'[u] = stmt[u]
  <2>1. stmt' = [stmt EXCEPT ![t] = [stmt[t] EXCEPT !.phase = r]]
    BY <1>1, <1>2 DEF Reply
  <2>2. [stmt[t] EXCEPT !.phase = r].kind = s.kind /\ [stmt[t] EXCEPT !.phase = r].phase = r
        /\ [stmt[t] EXCEPT !.phase = r].arg = s.arg
    BY <1>2, PhaseOnly DEF Replies
  <2>. QED  BY <1>2, <2>1, <2>2
<1>6. WritesNew'
  BY <1>4, <1>5 DEF WritesNew
<1>7. ASSUME (alive /\ s.kind = "ROLLBACK TO" /\ r = "ok") => srv' = "open"
      PROVE  RollsBack'
  <2>1. s.kind = "ROLLBACK TO" => exc[t]
    BY DEF RInv, RollsBack
  <2>. QED  BY <1>2, <1>4, <1>5, <1>7, <2>1 DEF RollsBack, client
<1>. HIDE DEF s
<1>8. CASE ServeBegin(t)
  <2>1. UNCHANGED <<sps, work>> /\ s.kind = "BEGIN" /\ alive
        /\ srv' = IF srv = "idle" THEN "open" ELSE srv
    BY <1>8 DEF ServeBegin, Sent, s
  <2>2. Grounded' /\ SnapshotsNest'
    BY <1>2, <2>1 DEF RInv, Grounded, SnapshotsNest
  <2>. QED  BY <1>6, <1>7, <2>1, <2>2 DEF RInv
<1>9. CASE ServeSavepoint(t)
  <2>1. /\ s.kind = "SAVEPOINT" /\ alive /\ UNCHANGED <<srv, work>>
        /\ \/ srv = "open" /\ sps' = Append(sps, [name |-> s.arg, snap |-> work])
           \/ sps' = sps
    BY <1>9 DEF ServeSavepoint, Sent, s
  <2>2. Grounded'
    BY <1>2, <2>1 DEF RInv, Grounded
  <2>3. SnapshotsNest'
    <3>1. CASE sps' = sps
      BY <2>1, <3>1 DEF RInv, SnapshotsNest
    <3>2. CASE sps' = Append(sps, [name |-> s.arg, snap |-> work])
      <4>. DEFINE e == [name |-> s.arg, snap |-> work]
                  n == Len(sps)
      <4>1. e \in S /\ e.snap = work
        <5>1. s.arg \in Insts
          BY <1>2, <2>1, StatementArgs DEF Entering
        <5>. QED  BY <5>1 DEF IInv, TypeOK
      <4>. HIDE DEF e, S
      <4>2. /\ Len(sps') = n + 1 /\ n \in Nat
            /\ \A k \in 1..n : sps'[k] = sps[k]
            /\ sps'[n + 1] = e
        BY <1>2, <3>2, <4>1, PushKeeps DEF e
      <4>3. /\ \A k, l \in 1..n : k <= l => sps[k].snap \subseteq sps[l].snap
            /\ \A k \in 1..n : sps[k].snap \subseteq work
        BY DEF RInv, SnapshotsNest
      <4>. HIDE DEF n
      <4>4. \A k \in 1..n+1 : sps'[k].snap \subseteq work
        <5>1. \A k \in 1..n+1 : k \in 1..n \/ k = n + 1
          BY <4>2
        <5>. QED  BY <4>1, <4>2, <4>3, <5>1
      <4>5. \A k, l \in 1..n+1 : k <= l => sps'[k].snap \subseteq sps'[l].snap
        <5>. SUFFICES ASSUME NEW k \in 1..n+1, NEW l \in 1..n+1, k <= l
                      PROVE  sps'[k].snap \subseteq sps'[l].snap
          OBVIOUS
        <5>1. CASE l = n + 1
          BY <4>1, <4>2, <4>4, <5>1
        <5>2. CASE l # n + 1
          <6>1. k \in 1..n /\ l \in 1..n
            BY <4>2, <5>2
          <6>. QED  BY <4>2, <4>3, <6>1
        <5>. QED  BY <5>1, <5>2
      <4>. QED  BY <2>1, <4>2, <4>4, <4>5 DEF SnapshotsNest
    <3>. QED  BY <2>1, <3>1, <3>2
  <2>. QED  BY <1>6, <1>7, <2>1, <2>2, <2>3 DEF RInv
<1>10. CASE ServeRelease(t) \/ ServeRollbackTo(t)
  <2>1. s.kind \in {"RELEASE", "ROLLBACK TO"} /\ alive
    BY <1>10 DEF ServeRelease, ServeRollbackTo, Sent, s
  <2>2. CASE /\ ServeRelease(t) /\ srv = "open" /\ Defined(stmt[t].arg)
    <3>. DEFINE n == Position(stmt[t].arg) - 1
    <3>1. sps' = SubSeq(sps, 1, n) /\ UNCHANGED <<srv, work>> /\ s.kind = "RELEASE"
      BY <2>2 DEF ServeRelease, Sent, s
    <3>2. n \in 0..Len(sps)
      BY <1>2, <2>2, PositionInRange
    <3>. HIDE DEF n
    <3>3. \A k \in 1..n : sps[k].snap \subseteq work
      BY <1>2, <3>2 DEF RInv, SnapshotsNest
    <3>4. SnapshotsNest'
      <4>. DEFINE kept == SubSeq(sps, 1, n)
      <4>1. \A k, l \in 1..Len(sps) : k <= l => sps[k].snap \subseteq sps[l].snap
        BY DEF RInv, SnapshotsNest
      <4>2. /\ \A k, l \in 1..Len(kept) : k <= l => kept[k].snap \subseteq kept[l].snap
            /\ \A k \in 1..Len(kept) : kept[k].snap \subseteq work
        <5>1. sps \in Seq(S)
          BY <1>2
        <5>. HIDE DEF S
        <5>. QED  BY <3>2, <3>3, <4>1, <5>1, SnapshotCut
      <4>3. sps' = kept
        BY <3>1
      <4>. HIDE DEF kept
      <4>. QED  BY <3>1, <4>2, <4>3 DEF SnapshotsNest
    <3>5. Grounded'
      BY <1>2, <2>2, <3>1 DEF RInv, Grounded
    <3>. QED  BY <1>6, <1>7, <3>1, <3>4, <3>5 DEF RInv
  <2>3. CASE /\ ServeRollbackTo(t) /\ srv # "idle" /\ Defined(stmt[t].arg)
    <3>. DEFINE n == Position(stmt[t].arg)
    <3>1. sps' = SubSeq(sps, 1, n) /\ srv' = "open" /\ work' = sps[n].snap
      BY <2>3 DEF ServeRollbackTo, Sent
    <3>2. n \in 0..Len(sps) /\ n \in 1..Len(sps)
      BY <1>2, <2>3, PositionInRange
    <3>. HIDE DEF n
    <3>3. \A k \in 1..n : sps[k].snap \subseteq sps[n].snap
      <4>1. \A k \in 1..n : k \in 1..Len(sps) /\ k <= n
        BY <1>2, <3>2
      <4>. QED  BY <3>2, <4>1 DEF RInv, SnapshotsNest
    <3>4. SnapshotsNest'
      <4>. DEFINE kept == SubSeq(sps, 1, n)
      <4>1. \A k, l \in 1..Len(sps) : k <= l => sps[k].snap \subseteq sps[l].snap
        BY DEF RInv, SnapshotsNest
      <4>2. /\ \A k, l \in 1..Len(kept) : k <= l => kept[k].snap \subseteq kept[l].snap
            /\ \A k \in 1..Len(kept) : kept[k].snap \subseteq sps[n].snap
        <5>1. sps \in Seq(S)
          BY <1>2
        <5>. HIDE DEF S
        <5>. QED  BY <3>2, <3>3, <4>1, <5>1, SnapshotCut
      <4>3. sps' = kept
        BY <3>1
      <4>. HIDE DEF kept
      <4>. QED  BY <3>1, <4>2, <4>3 DEF SnapshotsNest
    <3>5. Grounded'
      BY <1>2, <2>1, <3>1 DEF RInv, Grounded
    <3>. QED  BY <1>6, <1>7, <3>1, <3>4, <3>5 DEF RInv
  <2>4. CASE ~ \/ ServeRelease(t) /\ srv = "open" /\ Defined(stmt[t].arg)
               \/ ServeRollbackTo(t) /\ srv # "idle" /\ Defined(stmt[t].arg)
    <3>1. /\ UNCHANGED <<sps, work>> /\ Reply(t, "error")
          /\ srv' = "idle" => srv = "idle"
      BY <1>10, <2>4 DEF ServeRelease, ServeRollbackTo
    <3>2. r = "error"
      <4>1. stmt' = [stmt EXCEPT ![t] = [stmt[t] EXCEPT !.phase = "error"]]
        BY <1>2, <3>1 DEF Reply
      <4>2. [stmt[t] EXCEPT !.phase = "error"].phase = "error"
        BY <1>2, PhaseOnly DEF Replies, s
      <4>. QED  BY <1>2, <1>5, <4>1, <4>2
    <3>3. SnapshotsNest' /\ Grounded'
      BY <1>2, <2>1, <3>1 DEF RInv, SnapshotsNest, Grounded
    <3>. QED  BY <1>6, <1>7, <3>2, <3>3 DEF RInv
  <2>. QED  BY <1>10, <2>2, <2>3, <2>4
<1>11. CASE ServeCommit(t) \/ ServeRollback(t)
  <2>1. srv' = "idle" /\ sps' = <<>> /\ work' = {} /\ s.kind \in Ending
    BY <1>11 DEF ServeCommit, ServeRollback, Sent, Ending, s
  <2>2. Grounded' /\ SnapshotsNest'
    BY <2>1 DEF Grounded, SnapshotsNest
  <2>. QED  BY <1>6, <1>7, <2>1, <2>2 DEF RInv, Ending
<1>12. CASE ServeWrite(t)
  <2>1. /\ s.kind = "write" /\ alive /\ UNCHANGED sps
        /\ \/ srv = "open" /\ srv' = "open" /\ work' = work \cup {s.arg}
           \/ UNCHANGED <<srv, work>>
           \/ srv' = "aborted" /\ UNCHANGED work
    BY <1>12 DEF ServeWrite, Sent, s
  <2>2. Grounded' /\ SnapshotsNest'
    BY <1>2, <2>1 DEF RInv, Grounded, SnapshotsNest
  <2>. QED  BY <1>6, <1>7, <2>1, <2>2 DEF RInv
<1>13. CASE ServeDead(t)
  <2>1. UNCHANGED server /\ ~alive
    BY <1>13 DEF ServeDead
  <2>2. Grounded' /\ SnapshotsNest'
    BY <2>1 DEF RInv, Grounded, SnapshotsNest, server
  <2>. QED  BY <1>6, <1>7, <2>1, <2>2 DEF RInv
<1>. QED
  BY <1>8, <1>9, <1>10, <1>11, <1>12, <1>13 DEF Server

LEMMA LoseRInv ==
    ASSUME IInv, RInv, Lose
    PROVE  RInv'
<1>1. /\ srv' = "idle" /\ sps' = <<>> /\ work' = {} /\ ~alive' /\ UNCHANGED client
      /\ \A t \in Tasks : stmt'[t].kind = stmt[t].kind
  BY LoseKeepsStatements DEF Lose
<1>2. Grounded' /\ WritesNew' /\ SnapshotsNest'
  BY <1>1 DEF Grounded, WritesNew, SnapshotsNest
<1>3. RollsBack'
  BY <1>1 DEF RInv, RollsBack, client
<1>. QED  BY <1>2, <1>3 DEF RInv

LEMMA NextRInv ==
    ASSUME Serialised, ~Cancellable
    PROVE  IInv /\ TInv /\ SInv /\ RInv /\ [Next]_vars => RInv'
<1>. SUFFICES ASSUME IInv, TInv, SInv, RInv, [Next]_vars PROVE RInv'
  OBVIOUS
<1>1. ASSUME NEW t \in Tasks,
             \/ \E i \in Insts : Enter(t, i)
             \/ \E w \in Writes : Write(t, w)
             \/ Resume(t) \/ Raise(t) \/ Catch(t) \/ Exit(t)
      PROVE  RInv'
  BY <1>1, ProgramRInv
<1>2. ASSUME NEW t \in Tasks, Server(t) PROVE RInv'
  BY <1>2, ServerRInv
<1>3. ASSUME NEW t \in Tasks, Cancel(t) PROVE FALSE
  BY <1>3 DEF Cancel
<1>4. CASE Lose
  BY <1>4, LoseRInv
<1>5. CASE UNCHANGED vars
  BY <1>5 DEF vars, RInv, Grounded, RollsBack, WritesNew, SnapshotsNest
<1>. QED
  BY <1>1, <1>2, <1>3, <1>4, <1>5 DEF Next

----------------------------------------------------------------------------
(* What the mapping reads off the state.                                   *)

\* The rows when each open block began, and the rows of now.
Bases == [k \in 1..Len(Blocks) |-> Base(Blocks[k])]
Now == IF srv = "open" THEN work ELSE {}

LEMMA SeenTyped ==
    ASSUME IInv, NEW t \in Tasks
    PROVE  Seen(t) \in Seq(Insts)
<1>1. stack[t] \in Seq(Insts) /\ stmt[t] \in Statements
  BY DEF IInv, TypeOK
<1>2. stmt[t].kind \in Entering => Append(stack[t], stmt[t].arg) \in Seq(Insts)
  BY <1>1, StatementArgs
<1>3. stmt[t].kind \in Leaving => SubSeq(stack[t], 1, Len(stack[t]) - 1) \in Seq(Insts)
  BY <1>1, PopKeeps DEF IInv, LeavingInnermost
<1>. QED  BY <1>1, <1>2, <1>3 DEF Seen

LEMMA BaseTyped ==
    ASSUME IInv, NEW i
    PROVE  Base(i) \in RowSets
<1>1. sps \in Seq([name : Insts, snap : SUBSET Writes])
  BY DEF IInv, TypeOK
<1>2. Defined(i) => sps[Position(i)].snap \in RowSets
  <2>. HAVE Defined(i)
  <2>1. Position(i) \in 1..Len(sps)
    BY <1>1, PositionInRange
  <2>2. sps[Position(i)] \in [name : Insts, snap : SUBSET Writes]
    BY <1>1, <2>1, ElementOfSeq
  <2>. QED  BY <2>2 DEF RowSets
<1>. QED  BY <1>2 DEF Base, RowSets

LEMMA MappingTyped ==
    IInv => /\ Blocks \in Seq(Insts) /\ Len(Blocks) \in Nat
            /\ Bases \in Seq(RowSets) /\ Len(Bases) = Len(Blocks)
            /\ \A k \in 1..Len(Blocks) : Bases[k] = Base(Blocks[k])
            /\ Now \in RowSets
            /\ Frames = Between(Bases, Now)
<1>. SUFFICES ASSUME IInv
              PROVE  /\ Blocks \in Seq(Insts) /\ Len(Blocks) \in Nat
                     /\ Bases \in Seq(RowSets) /\ Len(Bases) = Len(Blocks)
                     /\ \A k \in 1..Len(Blocks) : Bases[k] = Base(Blocks[k])
                     /\ Now \in RowSets
                     /\ Frames = Between(Bases, Now)
  OBVIOUS
<1>1. Blocks \in Seq(Insts)
  BY SeenTyped DEF Blocks
<1>2. Len(Blocks) \in Nat
  BY <1>1
<1>3. Now \in RowSets
  BY DEF Now, RowSets, IInv, TypeOK
<1>4. /\ Bases \in Seq(RowSets) /\ Len(Bases) = Len(Blocks)
      /\ \A k \in 1..Len(Blocks) : Bases[k] = Base(Blocks[k])
  BY <1>2, BaseTyped DEF Bases
<1>5. \A k \in 1..Len(Blocks) :
          (IF k < Len(Blocks) THEN Base(Blocks[k + 1]) ELSE Now) =
          (IF k < Len(Bases) THEN Bases[k + 1] ELSE Now)
  BY <1>2, <1>4
<1>6. Frames = Between(Bases, Now)
  BY <1>4, <1>5 DEF Frames, Between, Now
<1>. QED  BY <1>1, <1>2, <1>3, <1>4, <1>6

LEMMA MappingTypedNext ==
    IInv' => (/\ Blocks \in Seq(Insts) /\ Len(Blocks) \in Nat
              /\ Bases \in Seq(RowSets) /\ Len(Bases) = Len(Blocks)
              /\ \A k \in 1..Len(Blocks) : Bases[k] = Base(Blocks[k])
              /\ Now \in RowSets
              /\ Frames = Between(Bases, Now))'
BY MappingTyped, PTL

\* The task that has the handle, if one has.
LEMMA BlocksSeen ==
    \A t \in Tasks : (\A u \in Tasks \ {t} : ~Busy(u)) => Blocks = Seen(t)
<1>. SUFFICES ASSUME NEW t \in Tasks, \A u \in Tasks \ {t} : ~Busy(u)
              PROVE  Blocks = Seen(t)
  OBVIOUS
<1>1. CASE Busy(t)
  <2>1. \A u \in Tasks : Busy(u) <=> u = t
    BY <1>1
  <2>2. (CHOOSE u \in Tasks : Busy(u)) = t
    BY <2>1
  <2>. QED  BY <1>1, <2>2 DEF Blocks
<1>2. CASE ~Busy(t)
  <2>1. Blocks = <<>>
    BY <1>2 DEF Blocks
  <2>2. Seen(t) = <<>>
    <3>1. stack[t] = <<>> /\ stmt[t] = Idle
      BY <1>2 DEF Busy, Running
    <3>2. Idle.kind \notin Entering /\ Idle.kind \notin Leaving
      BY DEF Idle, Entering, Leaving, Ending
    <3>. QED  BY <3>1, <3>2 DEF Seen
  <2>. QED  BY <2>1, <2>2
<1>. QED  BY <1>1, <1>2

LEMMA BlocksSeenNext ==
    (\A t \in Tasks : (\A u \in Tasks \ {t} : ~Busy(u)) => Blocks = Seen(t))'
BY BlocksSeen, PTL

LEMMA BasesSame ==
    ASSUME IInv, IInv', Blocks' = Blocks,
           \A k \in 1..Len(Blocks) : \A i \in Insts : Blocks[k] = i => Base(i)' = Base(i)
    PROVE  Bases' = Bases
<1>1. /\ Blocks \in Seq(Insts) /\ Len(Blocks) \in Nat
      /\ Bases \in Seq(RowSets) /\ Len(Bases) = Len(Blocks)
      /\ \A k \in 1..Len(Blocks) : Bases[k] = Base(Blocks[k])
  BY MappingTyped
<1>2. /\ Bases' \in Seq(RowSets) /\ Len(Bases') = Len(Blocks')
      /\ \A k \in 1..Len(Blocks') : Bases'[k] = Base(Blocks[k])'
  BY MappingTypedNext
<1>3. \A k \in 1..Len(Blocks) : Bases'[k] = Bases[k]
  <2>. TAKE k \in 1..Len(Blocks)
  <2>1. PICK i \in Insts : Blocks[k] = i
    BY <1>1
  <2>2. Blocks'[k] = i
    BY <2>1
  <2>3. Bases'[k] = Base(i)'
    BY <1>2, <2>2
  <2>. QED  BY <1>1, <2>1, <2>3
<1>. QED  BY <1>1, <1>2, <1>3, SeqEqual

\* A block opens.
LEMMA BasesGrow ==
    ASSUME IInv, IInv', NEW j \in Insts, NEW x \in RowSets,
           Blocks' = Append(Blocks, j), Base(j)' = x,
           \A k \in 1..Len(Blocks) : \A i \in Insts : Blocks[k] = i => Base(i)' = Base(i)
    PROVE  Bases' = Append(Bases, x)
<1>. DEFINE n == Len(Blocks)
<1>1. /\ Blocks \in Seq(Insts) /\ n \in Nat
      /\ Bases \in Seq(RowSets) /\ Len(Bases) = n
      /\ \A k \in 1..n : Bases[k] = Base(Blocks[k])
  BY MappingTyped
<1>2. /\ Bases' \in Seq(RowSets) /\ Len(Bases') = Len(Blocks')
      /\ \A k \in 1..Len(Blocks') : Bases'[k] = Base(Blocks[k])'
  BY MappingTypedNext
<1>3. /\ Len(Blocks') = n + 1
      /\ \A k \in 1..n : Blocks'[k] = Blocks[k]
      /\ Blocks'[n + 1] = j
  <2>1. /\ Len(Append(Blocks, j)) = n + 1
        /\ \A k \in 1..n : Append(Blocks, j)[k] = Blocks[k]
        /\ Append(Blocks, j)[n + 1] = j
    BY <1>1, PushKeeps
  <2>. QED  BY <2>1
<1>. DEFINE a == Append(Bases, x)
<1>4. /\ a \in Seq(RowSets) /\ Len(a) = n + 1
      /\ \A k \in 1..n : a[k] = Bases[k]
      /\ a[n + 1] = x
  BY <1>1, PushKeeps
<1>. HIDE DEF a, n
<1>5. \A k \in 1..n+1 : Bases'[k] = a[k]
  <2>. TAKE k \in 1..n+1
  <2>1. CASE k = n + 1
    <3>1. Blocks'[k] = j /\ k \in 1..Len(Blocks')
      BY <1>3, <2>1
    <3>2. Bases'[k] = Base(j)'
      BY <1>2, <3>1
    <3>. QED  BY <1>4, <2>1, <3>2
  <2>2. CASE k # n + 1
    <3>1. k \in 1..n /\ k \in 1..Len(Blocks')
      BY <1>1, <1>3, <2>2
    <3>2. PICK i \in Insts : Blocks[k] = i
      BY <1>1, <3>1 DEF n
    <3>3. Bases'[k] = Base(i)'
      BY <1>2, <1>3, <3>1, <3>2
    <3>4. Base(i)' = Base(i)
      BY <3>1, <3>2 DEF n
    <3>. QED  BY <1>1, <1>4, <3>1, <3>2, <3>3, <3>4
  <2>. QED  BY <2>1, <2>2
<1>6. Bases' = a
  BY <1>2, <1>3, <1>4, <1>5, SeqEqual
<1>. QED  BY <1>6 DEF a

\* The innermost block closes.
LEMMA BasesShrink ==
    ASSUME IInv, IInv', Blocks # <<>>, Blocks' = SubSeq(Blocks, 1, Len(Blocks) - 1),
           \A k \in 1..Len(Blocks) - 1 : \A i \in Insts : Blocks[k] = i => Base(i)' = Base(i)
    PROVE  /\ Bases # <<>>
           /\ Bases' = SubSeq(Bases, 1, Len(Bases) - 1)
<1>. DEFINE n == Len(Blocks)
            a == SubSeq(Bases, 1, Len(Bases) - 1)
<1>1. /\ Blocks \in Seq(Insts) /\ n \in Nat
      /\ Bases \in Seq(RowSets) /\ Len(Bases) = n
      /\ \A k \in 1..n : Bases[k] = Base(Blocks[k])
  BY MappingTyped
<1>2. /\ Bases' \in Seq(RowSets) /\ Len(Bases') = Len(Blocks')
      /\ \A k \in 1..Len(Blocks') : Bases'[k] = Base(Blocks[k])'
  BY MappingTypedNext
<1>3. Bases # <<>> /\ n # 0
  BY <1>1, EmptySeq
<1>4. Len(Blocks') = n - 1 /\ \A k \in 1..n - 1 : Blocks'[k] = Blocks[k]
  <2>1. /\ Len(SubSeq(Blocks, 1, Len(Blocks) - 1)) = Len(Blocks) - 1
        /\ \A k \in 1..Len(Blocks) - 1 : SubSeq(Blocks, 1, Len(Blocks) - 1)[k] = Blocks[k]
    BY <1>1, PopKeeps
  <2>. QED  BY <2>1
<1>5. a \in Seq(RowSets) /\ Len(a) = n - 1 /\ \A k \in 1..n - 1 : a[k] = Bases[k]
  <2>1. /\ a \in Seq(RowSets) /\ Len(a) = Len(Bases) - 1
        /\ \A k \in 1..Len(Bases) - 1 : a[k] = Bases[k]
    BY <1>1, <1>3, PopKeeps
  <2>. QED  BY <1>1, <2>1
<1>. HIDE DEF a, n
<1>6. \A k \in 1..n - 1 : Bases'[k] = a[k]
  <2>. TAKE k \in 1..n - 1
  <2>1. k \in 1..n /\ k \in 1..Len(Blocks')
    BY <1>1, <1>4
  <2>2. PICK i \in Insts : Blocks[k] = i
    BY <1>1, <2>1 DEF n
  <2>3. Bases'[k] = Base(i)'
    BY <1>2, <1>4, <2>1, <2>2
  <2>4. Base(i)' = Base(i)
    BY <2>2 DEF n
  <2>. QED  BY <1>1, <1>5, <2>1, <2>2, <2>3, <2>4
<1>7. Bases' = a
  BY <1>2, <1>4, <1>5, <1>6, SeqEqual
<1>. QED  BY <1>3, <1>7 DEF a

\* A step of task t that the server does not see.
LEMMA UnseenStep ==
    ASSUME IInv, IInv', NEW t \in Tasks,
           \A u \in Tasks \ {t} : ~Busy(u), \A u \in Tasks \ {t} : ~Busy(u)',
           Seen(t)' = Seen(t), UNCHANGED server,
           \A k \in 1..Len(Seen(t)) : savepoint'[Seen(t)[k]] <=> savepoint[Seen(t)[k]]
    PROVE  UNCHANGED <<Frames, Status, durable>>
<1>1. Blocks = Seen(t) /\ Blocks' = Seen(t)'
  BY BlocksSeen, BlocksSeenNext
<1>2. \A k \in 1..Len(Blocks) : \A i \in Insts : Blocks[k] = i => Base(i)' = Base(i)
  BY <1>1 DEF Base, Defined, Position, server
<1>3. Bases' = Bases
  BY <1>1, <1>2, BasesSame
<1>4. Now' = Now /\ Status' = Status /\ durable' = durable
  BY DEF Now, Status, server
<1>5. Frames' = Frames
  BY <1>3, <1>4, MappingTyped, MappingTypedNext
<1>. QED  BY <1>4, <1>5

\* Steps of the program: the server sees none of them.
LEMMA IdleSeen ==
    /\ Idle.kind \notin Entering /\ Idle.kind \notin Leaving
    /\ "write" \notin Entering /\ "write" \notin Leaving
    /\ Entering \cap Leaving = {}
  BY DEF Idle, Entering, Leaving, Ending

\* What the blocks are before and after, if only task t moves.
LEMMA ProgramUnseen ==
    ASSUME IInv, IInv', NEW t \in Tasks,
           \A u \in Tasks \ {t} : ~Busy(u),
           \A u \in Tasks \ {t} : stack'[u] = stack[u] /\ stmt'[u] = stmt[u],
           Seen(t)' = Seen(t), UNCHANGED <<savepoint, server>>
    PROVE  UNCHANGED <<Frames, Status, durable>>
<1>1. \A u \in Tasks \ {t} : ~Busy(u)'
  BY DEF Busy, Running
<1>. QED  BY <1>1, UnseenStep

LEMMA EnterUnseen ==
    ASSUME IInv, IInv', Serialised, NEW t \in Tasks, NEW i \in Insts, Enter(t, i)
    PROVE  UNCHANGED <<Frames, Status, durable>>
<1>1. /\ \A u \in Tasks \ {t} : ~Busy(u)
      /\ stmt[t] = Idle /\ ~InUse(i) /\ UNCHANGED <<stack, server>>
      /\ \A j \in Insts \ {i} : savepoint'[j] = savepoint[j]
      /\ \/ stmt' = stmt
         \/ \E kind \in Entering :
               stmt' = [stmt EXCEPT ![t] = [kind |-> kind, arg |-> i, phase |-> "sent"]]
  BY DEF Enter, MayUse, Running, server, Send, Entering, IInv, TypeOK
<1>2. \A u \in Tasks \ {t} : stmt'[u] = stmt[u]
  BY <1>1 DEF IInv, TypeOK
<1>3. Seen(t) = stack[t]
  BY <1>1, IdleSeen DEF Seen
<1>4. Seen(t)' = stack[t]
  <2>1. CASE stmt' = stmt
    BY <1>1, <2>1, IdleSeen DEF Seen
  <2>2. ASSUME NEW kind \in Entering,
               stmt' = [stmt EXCEPT ![t] = [kind |-> kind, arg |-> i, phase |-> "sent"]]
        PROVE  stmt'[t].kind = kind /\ stmt'[t].phase = "sent" /\ kind \notin Leaving
    BY <2>2, IdleSeen DEF IInv, TypeOK
  <2>. QED  BY <1>1, <2>1, <2>2 DEF Seen
<1>5. \A u \in Tasks \ {t} : ~Busy(u)'
  BY <1>1, <1>2 DEF Busy, Running
<1>6. \A k \in 1..Len(stack[t]) : stack[t][k] # i /\ stack[t][k] \in Insts
  BY <1>1 DEF InUse, On, IInv, TypeOK
<1>7. \A k \in 1..Len(Seen(t)) : savepoint'[Seen(t)[k]] <=> savepoint[Seen(t)[k]]
  BY <1>1, <1>3, <1>6
<1>. QED  BY <1>1, <1>3, <1>4, <1>5, <1>7, UnseenStep

LEMMA SendUnseen ==
    ASSUME IInv, TInv, IInv', Serialised, NEW t \in Tasks,
           Exit(t) \/ \E w \in Writes : Write(t, w)
    PROVE  UNCHANGED <<Frames, Status, durable>>
<1>1. /\ stmt[t] = Idle /\ UNCHANGED <<stack, savepoint, exc, server>>
      /\ \E k \in {"write"} \cup Leaving : \E a :
            /\ stmt' = [stmt EXCEPT ![t] = [kind |-> k, arg |-> a, phase |-> "sent"]]
            /\ k = "RELEASE" => ~exc[t]
  <2>1. CASE Exit(t)
    <3>. DEFINE k == ExitStatement(Innermost(t), exc[t])
    <3>1. k \in Leaving /\ (k = "RELEASE" => ~exc[t])
      BY DEF ExitStatement, Leaving, Ending
    <3>2. /\ stmt[t] = Idle /\ UNCHANGED <<stack, savepoint, exc, server>>
          /\ stmt' = [stmt EXCEPT ![t] = [kind |-> k, arg |-> Innermost(t), phase |-> "sent"]]
      BY <2>1 DEF Exit, Send, Running, client
    <3>. HIDE DEF k
    <3>. QED  BY <3>1, <3>2
  <2>2. ASSUME NEW w \in Writes, Write(t, w)
        PROVE  /\ stmt[t] = Idle /\ UNCHANGED <<stack, savepoint, exc, server>>
               /\ stmt' = [stmt EXCEPT ![t] = [kind |-> "write", arg |-> w, phase |-> "sent"]]
    BY <2>2 DEF Write, Send, Running, client
  <2>. QED  BY <2>1, <2>2
<1>2. \A u \in Tasks \ {t} : ~Busy(u)
  <2>1. CASE Exit(t)
    BY <2>1 DEF Exit, Busy, TInv, OneBusy
  <2>2. CASE \E w \in Writes : Write(t, w)
    BY <2>2 DEF Write, MayUse
  <2>. QED  BY <2>1, <2>2
<1>2a. PICK k \in {"write"} \cup Leaving : \E a :
            /\ stmt' = [stmt EXCEPT ![t] = [kind |-> k, arg |-> a, phase |-> "sent"]]
            /\ k = "RELEASE" => ~exc[t]
  BY <1>1
<1>3. PICK a :
            /\ stmt' = [stmt EXCEPT ![t] = [kind |-> k, arg |-> a, phase |-> "sent"]]
            /\ k = "RELEASE" => ~exc[t]
  BY <1>2a
<1>4. /\ stmt'[t].kind = k /\ stmt'[t].phase = "sent"
      /\ \A u \in Tasks \ {t} : stmt'[u] = stmt[u]
  BY <1>3 DEF IInv, TypeOK
<1>5. Seen(t) = stack[t] /\ Seen(t)' = stack[t]
  BY <1>1, <1>3, <1>4, IdleSeen DEF Seen
<1>. QED  BY <1>1, <1>2, <1>4, <1>5, ProgramUnseen

LEMMA ResumeUnseen ==
    ASSUME IInv, TInv, RInv, IInv', NEW t \in Tasks, Resume(t)
    PROVE  UNCHANGED <<Frames, Status, durable>>
<1>. DEFINE s == stmt[t]
            popped == SubSeq(stack[t], 1, Len(stack[t]) - 1)
<1>1. /\ s.phase \in Replies /\ s.kind \in Entering \cup Leaving \cup {"write"}
      /\ UNCHANGED <<savepoint, server>>
      /\ stmt \in [Tasks -> Statements] /\ stack \in [Tasks -> Seq(Insts)]
      /\ exc \in [Tasks -> BOOLEAN]
  BY DEF Resume, EnterReturns, RollbackToReturns, ReleaseReturns, EndReturns,
         WriteReturns, Returned, Leaving, Ending, IInv, TypeOK
<1>2. s.phase # "sent" /\ s.kind # "none"
  BY <1>1 DEF Replies, Entering, Leaving, Ending
<1>3. \A u \in Tasks \ {t} : ~Busy(u)
  BY <1>2, StatementMeansBusy DEF TInv, OneBusy
<1>4. \A u \in Tasks \ {t} : stack'[u] = stack[u] /\ stmt'[u] = stmt[u]
  BY <1>1 DEF Resume, EnterReturns, RollbackToReturns, ReleaseReturns, EndReturns,
              WriteReturns, Pop, Send
<1>5. Seen(t)' = Seen(t)
  <2>1. CASE EnterReturns(t)
    <3>1. s.kind \in Entering /\ stmt'[t] = Idle
          /\ stack'[t] = IF s.phase = "ok" THEN Append(stack[t], s.arg) ELSE stack[t]
      BY <1>1, <2>1 DEF EnterReturns, Returned
    <3>2. Seen(t)' = stack'[t]
      BY <3>1, IdleSeen DEF Seen
    <3>3. s.kind \notin Leaving
      BY <3>1, IdleSeen
    <3>. QED  BY <3>1, <3>2, <3>3 DEF Seen
  <2>2. CASE WriteReturns(t)
    <3>1. s.kind = "write" /\ stmt'[t] = Idle /\ stack' = stack
      BY <1>1, <2>2 DEF WriteReturns, Returned
    <3>. QED  BY <3>1, IdleSeen DEF Seen
  <2>3. CASE RollbackToReturns(t) /\ s.phase = "ok"
    <3>1. /\ s.kind = "ROLLBACK TO" /\ stack' = stack /\ exc' = exc
          /\ stmt'[t] = [kind |-> "RELEASE", arg |-> s.arg, phase |-> "sent"]
      BY <1>1, <2>3 DEF RollbackToReturns, Returned, Send
    <3>2. exc[t]
      BY <3>1 DEF RInv, RollsBack
    <3>3. "RELEASE" \in Leaving /\ "ROLLBACK TO" \in Leaving
          /\ "RELEASE" \notin Entering /\ "ROLLBACK TO" \notin Entering
      BY DEF Leaving, Entering
    <3>4. Seen(t) = popped
      BY <1>2, <3>1, <3>3 DEF Seen
    <3>5. stmt'[t].kind = "RELEASE" /\ exc'[t]
      <4>1. stmt'[t].kind = "RELEASE"
        <5>1. stmt'[t] = [kind |-> "RELEASE", arg |-> s.arg, phase |-> "sent"]
          BY <3>1
        <5>2. [kind |-> "RELEASE", arg |-> s.arg, phase |-> "sent"].kind = "RELEASE"
          OBVIOUS
        <5>. QED  BY <5>1, <5>2, Zenon
      <4>2. exc'[t]
        BY <3>1, <3>2, Zenon
      <4>. QED  BY <4>1, <4>2
    <3>6. Seen(t)' = popped
      BY <3>1, <3>3, <3>5 DEF Seen
    <3>. QED  BY <3>4, <3>6
  <2>4. CASE \/ RollbackToReturns(t) /\ s.phase # "ok"
             \/ ReleaseReturns(t) \/ EndReturns(t)
    <3>1. s.kind \in Leaving /\ stmt'[t] = Idle /\ stack'[t] = popped
      BY <1>1, <2>4 DEF RollbackToReturns, ReleaseReturns, EndReturns, Returned, Pop,
                        Leaving
    <3>2. s.kind \notin Entering
      BY <3>1, IdleSeen
    <3>3. Seen(t) = popped
      BY <1>2, <3>1, <3>2 DEF Seen
    <3>4. Seen(t)' = popped
      BY <3>1, IdleSeen DEF Seen
    <3>. QED  BY <3>3, <3>4
  <2>. QED  BY <2>1, <2>2, <2>3, <2>4 DEF Resume
<1>. QED  BY <1>1, <1>3, <1>4, <1>5, ProgramUnseen

\* An exception that is raised or caught: whoever has the handle.
LEMMA RaiseUnseen ==
    ASSUME IInv, TInv, IInv', NEW t \in Tasks, Raise(t) \/ Catch(t)
    PROVE  UNCHANGED <<Frames, Status, durable>>
<1>1. /\ stmt[t] = Idle /\ UNCHANGED <<stack, stmt, savepoint, server>>
      /\ \A u \in Tasks \ {t} : exc'[u] = exc[u]
  BY DEF Raise, Catch, Running, IInv, TypeOK
<1>2. PICK u \in Tasks : \A v \in Tasks \ {u} : ~Busy(v)
  BY DEF TInv, OneBusy
<1>3. Seen(u)' = Seen(u)
  <2>1. CASE u = t
    BY <1>1, <2>1, IdleSeen DEF Seen
  <2>2. CASE u # t
    BY <1>1, <2>2 DEF Seen
  <2>. QED  BY <2>1, <2>2
<1>. QED  BY <1>1, <1>2, <1>3, ProgramUnseen

----------------------------------------------------------------------------
(* The steps of NestedTx, in terms of snapshots.                           *)

LEMMA OpenStep ==
    ASSUME IInv, IInv', Bases' = Append(Bases, Now), Now' = Now,
           Status = "live", Status' = "live", durable' = durable
    PROVE  Promise!Open
<1>1. Frames' = Between(Bases', Now') /\ Frames = Between(Bases, Now)
      /\ Bases \in Seq(RowSets) /\ Now \in RowSets
  BY MappingTyped, MappingTypedNext
<1>2. Between(Append(Bases, Now), Now) = Append(Between(Bases, Now), {})
  BY <1>1, BetweenOpen
<1>3. Frames' = Append(Frames, {})
  BY <1>1, <1>2
<1>. QED  BY <1>3 DEF Promise!Open

\* The rows of now change, the open blocks do not.
LEMMA NowStep ==
    ASSUME IInv, IInv', Bases' = Bases, Bases # <<>>
    PROVE  /\ Frames # <<>> /\ Promise!Depth = Len(Bases)
           /\ Frames[Len(Bases)] = Now \ Bases[Len(Bases)]
           /\ Frames' = Promise!WithInnermost(Frames, Now' \ Bases[Len(Bases)])
<1>1. /\ Frames' = Between(Bases', Now') /\ Frames = Between(Bases, Now)
      /\ Bases \in Seq(RowSets) /\ Now \in RowSets /\ Now' \in RowSets
  BY MappingTyped, MappingTypedNext
<1>. DEFINE n == Len(Bases)
            v == Now'
<1>2. /\ Between(Bases, Now)[n] = Now \ Bases[n] /\ Between(Bases, Now) # <<>>
      /\ Between(Bases, v) = [Between(Bases, Now) EXCEPT ![n] = v \ Bases[n]]
  BY <1>1, BetweenNow
<1>3. Len(Between(Bases, Now)) = n
  BY <1>1, BetweenTyped
<1>4. Frames' = Between(Bases, v)
  BY <1>1
<1>5. Len(Frames) = n /\ Frames # <<>> /\ Frames[n] = Now \ Bases[n]
  BY <1>1, <1>2, <1>3
<1>6. Frames' = [Frames EXCEPT ![Len(Frames)] = v \ Bases[n]]
  BY <1>1, <1>2, <1>4, <1>5
<1>. QED  BY <1>5, <1>6 DEF Promise!WithInnermost, Promise!Depth

LEMMA WriteStep ==
    ASSUME IInv, IInv', NEW w \in Writes, Bases' = Bases,
           Status = "live", Status' = "live",
           \/ /\ Bases # <<>> /\ Now' = Now \cup {w} /\ w \notin Bases[Len(Bases)]
              /\ durable' = durable
           \/ Bases = <<>> /\ durable' = durable \cup {w}
    PROVE  Promise!WriteRow(w)
<1>1. CASE Bases # <<>>
  <2>. DEFINE n == Len(Bases)
  <2>1. /\ Frames # <<>> /\ Promise!Depth = n
        /\ Frames[n] = Now \ Bases[n]
        /\ Frames' = Promise!WithInnermost(Frames, Now' \ Bases[n])
    BY <1>1, NowStep
  <2>. HIDE DEF n
  <2>2. w \notin Bases[n] /\ Now' = Now \cup {w} /\ durable' = durable
    BY <1>1 DEF n
  <2>3. Now' \ Bases[n] = Frames[n] \cup {w}
    BY <2>1, <2>2
  <2>. QED  BY <2>1, <2>2, <2>3 DEF Promise!WriteRow
<1>2. CASE Bases = <<>>
  <2>1. Frames = <<>> /\ Frames' = <<>>
    <3>1. Frames' = Between(Bases', Now') /\ Frames = Between(Bases, Now)
      BY MappingTyped, MappingTypedNext
    <3>2. \A x : Between(<<>>, x) = <<>>
      BY DEF Between
    <3>. QED  BY <1>2, <3>1, <3>2
  <2>. QED  BY <1>2, <2>1 DEF Promise!WriteRow
<1>. QED  BY <1>1, <1>2

LEMMA FailStep ==
    ASSUME IInv, IInv', Bases' = Bases, Bases # <<>>, Now' = {},
           Status = "live", Status' = "doomed", durable' = durable
    PROVE  Promise!Fail
<1>1. /\ Frames # <<>>
      /\ Frames' = Promise!WithInnermost(Frames, Now' \ Bases[Len(Bases)])
  BY NowStep
<1>2. Now' \ Bases[Len(Bases)] = {}
  OBVIOUS
<1>. QED  BY <1>1, <1>2 DEF Promise!Fail

\* The innermost block closes and its rows are gone, or durable.
LEMMA CloseFrames ==
    ASSUME IInv, IInv', Bases # <<>>, Bases' = SubSeq(Bases, 1, Len(Bases) - 1),
           Now' = Bases[Len(Bases)]
    PROVE  /\ Frames # <<>> /\ Promise!Depth = Len(Bases)
           /\ Frames' = Promise!Outer
<1>1. /\ Frames' = Between(Bases', Now') /\ Frames = Between(Bases, Now)
      /\ Bases \in Seq(RowSets) /\ Now \in RowSets
  BY MappingTyped, MappingTypedNext
<1>2. /\ Len(Between(Bases, Now)) = Len(Bases) /\ Between(Bases, Now) # <<>>
  BY <1>1, BetweenTyped, BetweenNow
<1>3. Between(SubSeq(Bases, 1, Len(Bases) - 1), Bases[Len(Bases)])
        = SubSeq(Between(Bases, Now), 1, Len(Bases) - 1)
  BY <1>1, BetweenClose
<1>4. Frames # <<>> /\ Promise!Depth = Len(Bases)
  BY <1>1, <1>2 DEF Promise!Depth
<1>5. Frames' = SubSeq(Frames, 1, Promise!Depth - 1)
  BY <1>1, <1>3, <1>4
<1>. QED  BY <1>4, <1>5 DEF Promise!Outer

LEMMA AbandonStep ==
    ASSUME IInv, IInv', Bases # <<>>, Bases' = SubSeq(Bases, 1, Len(Bases) - 1),
           Now' = Bases[Len(Bases)], durable' = durable,
           Status' = IF Status = "doomed" THEN "live" ELSE Status
    PROVE  Promise!Abandon
  BY CloseFrames DEF Promise!Abandon

LEMMA CommitStep ==
    ASSUME IInv, IInv', Len(Bases) = 1, Bases' = SubSeq(Bases, 1, Len(Bases) - 1),
           Bases[1] = {}, Now' = {},
           durable' = durable \/ (Status = "live" /\ durable' = durable \cup Now),
           Status' = IF Status = "doomed" THEN "live" ELSE Status
    PROVE  Promise!Commit
<1>1. Bases # <<>>
  <2>1. Bases \in Seq(RowSets)
    BY MappingTyped
  <2>. QED  BY <2>1, EmptySeq
<1>2. Promise!Depth = 1 /\ Frames' = Promise!Outer
  BY <1>1, CloseFrames
<1>3. Frames = Between(Bases, Now) /\ Bases \in Seq(RowSets) /\ Now \in RowSets
  BY MappingTyped
<1>4. Frames' = <<>>
  <2>1. SubSeq(Frames, 1, 0) = <<>>
    BY SubSeqEmpty
  <2>. QED  BY <1>2, <2>1 DEF Promise!Outer
<1>5. Frames[1] = Now
  <2>1. Between(Bases, Now)[Len(Bases)] = Now \ Bases[Len(Bases)]
    BY <1>1, <1>3, BetweenNow
  <2>2. Now \ {} = Now
    OBVIOUS
  <2>. QED  BY <1>3, <2>1, <2>2
<1>. QED  BY <1>2, <1>4, <1>5 DEF Promise!Commit

LEMMA MergeStep ==
    ASSUME IInv, IInv', Len(Bases) >= 2, Bases' = SubSeq(Bases, 1, Len(Bases) - 1),
           Now' = Now, UNCHANGED <<Status, durable>>,
           \/ /\ Status = "live"
              /\ Bases[Len(Bases) - 1] \subseteq Bases[Len(Bases)]
              /\ Bases[Len(Bases)] \subseteq Now
           \/ Status # "live" /\ Now = {}
    PROVE  Promise!Merge
<1>. DEFINE n == Len(Bases)
            c == SubSeq(Bases, 1, n - 1)
            last == Bases[n]
            outer == SubSeq(Frames, 1, n - 1)
<1>1. /\ Frames' = Between(Bases', Now') /\ Frames = Between(Bases, Now)
      /\ Bases \in Seq(RowSets) /\ Now \in RowSets /\ n \in Nat
  BY MappingTyped, MappingTypedNext
<1>2. Bases # <<>>
  BY <1>1, EmptySeq
<1>3. /\ c \in Seq(RowSets) /\ last \in RowSets
      /\ Between(c, last) = SubSeq(Between(Bases, Now), 1, n - 1)
  BY <1>1, <1>2, BetweenClose
<1>4. Len(c) = n - 1 /\ c[n - 1] = Bases[n - 1]
  <2>1. /\ Len(c) = n - 1 /\ \A k \in 1..n - 1 : c[k] = Bases[k]
    BY <1>1, <1>2, PopKeeps
  <2>2. n - 1 \in 1..n - 1
    BY <1>1
  <2>. QED  BY <2>1, <2>2
<1>5. Len(Frames) = n
  BY <1>1, BetweenTyped
<1>6. Between(Bases, Now)[n - 1] \cup Between(Bases, Now)[n] = Now \ Bases[n - 1]
      \/ ~(Bases[n - 1] \subseteq last /\ last \subseteq Now)
  BY <1>1, BetweenMerge
<1>. HIDE DEF c, last
<1>7. c # <<>>
  BY <1>1, <1>4, EmptySeq
<1>8. Between(c, Now) = [Between(c, last) EXCEPT ![Len(c)] = Now \ c[Len(c)]]
      /\ Between(c, last) # <<>>
  BY <1>1, <1>3, <1>7, BetweenNow
<1>9. Between(c, last) = outer
  BY <1>1, <1>3
<1>10. Len(outer) = Len(c)
  BY <1>1, <1>3, <1>9, BetweenTyped
<1>. HIDE DEF outer, n
<1>11. Frames' = Between(c, Now)
  BY <1>1 DEF c, n
<1>12. Frames' = [outer EXCEPT ![Len(outer)] = Now \ Bases[n - 1]] /\ outer # <<>>
  BY <1>4, <1>8, <1>9, <1>10, <1>11
<1>13. Frames' = Promise!WithInnermost(outer, Now \ Bases[n - 1])
  BY <1>12 DEF Promise!WithInnermost
<1>14. Promise!Depth = n /\ Promise!Outer = outer
  BY <1>5 DEF Promise!Depth, Promise!Outer, outer, n
<1>15. n >= 2
  BY DEF n
<1>16. CASE Status = "live"
  <2>1. Bases[n - 1] \subseteq last /\ last \subseteq Now
    BY <1>16 DEF n, last
  <2>2. Now \ Bases[n - 1] = Frames[n - 1] \cup Frames[n]
    BY <1>1, <1>6, <2>1
  <2>. QED  BY <1>13, <1>14, <1>15, <1>16, <2>2 DEF Promise!Merge
<1>17. CASE Status # "live"
  <2>1. Now = {}
    BY <1>17
  <2>2. Now \ Bases[n - 1] = {}
    BY <2>1
  <2>. QED  BY <1>13, <1>14, <1>15, <1>17, <2>2 DEF Promise!Merge
<1>. QED  BY <1>16, <1>17

----------------------------------------------------------------------------
(* The statements, as the server runs them.                                *)

Popped(t) == SubSeq(stack[t], 1, Len(stack[t]) - 1)

LEMMA Served ==
    ASSUME IInv, TInv, IInv', NEW t \in Tasks, Server(t),
           NEW r \in {"ok", "error"}, Reply(t, r)
    PROVE  /\ stmt[t].phase = "sent" /\ UNCHANGED client /\ alive' = alive
           /\ stack[t] \in Seq(Insts) /\ Len(stack[t]) \in Nat /\ stmt[t].kind # "none"
           /\ stmt[t].kind \in Leaving =>
                 /\ Blocks = (IF stmt[t].kind = "RELEASE" /\ exc[t] THEN Popped(t) ELSE stack[t])
                 /\ Blocks' = Popped(t)
           /\ stmt[t].kind \notin Leaving =>
                 /\ Blocks = stack[t]
                 /\ Blocks' = IF stmt[t].kind \in Entering /\ r = "ok"
                              THEN Append(stack[t], stmt[t].arg) ELSE stack[t]
<1>. DEFINE s == stmt[t]
<1>1. /\ s.phase = "sent" /\ UNCHANGED client /\ alive' = alive
      /\ s \in Statements /\ stmt \in [Tasks -> Statements]
      /\ stack[t] \in Seq(Insts) /\ Len(stack[t]) \in Nat
  BY ServerReplies, ServerTyped DEF IInv, TypeOK
<1>2. s.kind # "none"
  BY <1>1, StatementArgs DEF Idle
<1>3. \A u \in Tasks \ {t} : ~Busy(u)
  BY <1>2, StatementMeansBusy DEF TInv, OneBusy
<1>4. stmt'[t].kind = s.kind /\ stmt'[t].arg = s.arg /\ stmt'[t].phase = r
      /\ \A u \in Tasks \ {t} : stmt'[u] = stmt[u]
  <2>1. stmt' = [stmt EXCEPT ![t] = [stmt[t] EXCEPT !.phase = r]]
    BY <1>1 DEF Reply
  <2>2. /\ [stmt[t] EXCEPT !.phase = r].kind = s.kind
        /\ [stmt[t] EXCEPT !.phase = r].arg = s.arg
        /\ [stmt[t] EXCEPT !.phase = r].phase = r
    BY <1>1, PhaseOnly DEF Replies
  <2>. QED  BY <1>1, <2>1, <2>2
<1>5. \A u \in Tasks \ {t} : ~Busy(u)'
  BY <1>1, <1>3, <1>4 DEF Busy, Running, client
<1>6. Blocks = Seen(t) /\ Blocks' = Seen(t)'
  BY <1>3, <1>5, BlocksSeen, BlocksSeenNext
<1>. HIDE DEF s
<1>7. ASSUME s.kind \in Leaving
      PROVE  /\ Seen(t) = IF s.kind = "RELEASE" /\ exc[t] THEN Popped(t) ELSE stack[t]
             /\ Seen(t)' = Popped(t)
  <2>1. s.kind \notin Entering
    BY <1>7, IdleSeen
  <2>2. Seen(t) = IF s.kind = "RELEASE" /\ exc[t] THEN Popped(t) ELSE stack[t]
    BY <1>1, <1>7, <2>1 DEF Seen, Popped, s
  <2>3. Seen(t)' = Popped(t)
    <3>1. stmt'[t].kind \in Leaving /\ stmt'[t].kind \notin Entering
          /\ stmt'[t].phase # "sent"
      BY <1>4, <1>7, <2>1
    <3>2. stack'[t] = stack[t]
      BY <1>1 DEF client
    <3>. QED  BY <3>1, <3>2 DEF Seen, Popped
  <2>. QED  BY <2>2, <2>3
<1>8. ASSUME s.kind \notin Leaving
      PROVE  /\ Seen(t) = stack[t]
             /\ Seen(t)' = IF s.kind \in Entering /\ r = "ok"
                           THEN Append(stack[t], s.arg) ELSE stack[t]
  <2>1. Seen(t) = stack[t]
    BY <1>1, <1>8 DEF Seen, s
  <2>2. stack'[t] = stack[t]
    BY <1>1 DEF client
  <2>. QED  BY <1>4, <1>8, <2>1, <2>2 DEF Seen
<1>. QED  BY <1>1, <1>2, <1>6, <1>7, <1>8 DEF s

\* What a block that task t is inside started from.
LEMMA BaseAt ==
    \A i : Base(i) = IF savepoint[i] /\ Has(sps, i) THEN sps[At(sps, i)].snap ELSE {}
  BY Zenon DEF Base, Defined, Position, Has, At

LEMMA BaseAtNext ==
    (\A i : Base(i) = IF savepoint[i] /\ Has(sps, i) THEN sps[At(sps, i)].snap ELSE {})'
BY BaseAt, PTL

LEMMA BlockBase ==
    ASSUME IInv, TInv, NEW t \in Tasks, NEW k \in 1..Len(stack[t])
    PROVE  /\ k = 1 => ~savepoint[stack[t][k]] /\ Base(stack[t][k]) = {}
           /\ k > 1 => savepoint[stack[t][k]]
           /\ (k > 1 /\ alive /\ SInv /\ stmt[t].phase = "sent") =>
                 /\ Has(sps, stack[t][k])
                 /\ Base(stack[t][k]) = sps[At(sps, stack[t][k])].snap
                 /\ \A l \in k+1..Len(stack[t]) : At(sps, stack[t][k]) < At(sps, stack[t][l])
<1>. DEFINE i == stack[t][k]
<1>1. savepoint[i] <=> k > 1
  BY DEF TInv, OuterFirst
<1>2. k = 1 => ~savepoint[i]
  BY <1>1
<1>3. ASSUME k > 1, alive, SInv, stmt[t].phase = "sent"
      PROVE  /\ Has(sps, i)
             /\ \A l \in k+1..Len(stack[t]) : At(sps, i) < At(sps, stack[t][l])
  <2>1. \A l \in 1..Len(stack[t]) : Kept(t, l)
    BY <1>3 DEF Kept
  <2>2. k \in 2..Len(stack[t]) /\ \A l \in k+1..Len(stack[t]) : l \in 1..Len(stack[t])
    BY <1>3
  <2>3. NestedSaved(t)
    BY <1>3 DEF SInv
  <2>. QED  BY <2>1, <2>2, <2>3 DEF NestedSaved
<1>4. Base(i) = IF savepoint[i] /\ Has(sps, i) THEN sps[At(sps, i)].snap ELSE {}
  BY BaseAt
<1>. HIDE DEF i
<1>5. k > 1 => savepoint[i]
  BY <1>1
<1>6. k = 1 => Base(i) = {}
  BY <1>2, <1>4
<1>7. ASSUME k > 1, alive, SInv, stmt[t].phase = "sent"
      PROVE  Base(i) = sps[At(sps, i)].snap
  BY <1>3, <1>4, <1>5, <1>7
<1>. QED  BY <1>2, <1>3, <1>5, <1>6, <1>7 DEF i

\* Whether t's statement finds a transaction, if the connection is up.
LEMMA Found ==
    ASSUME IInv, TInv, ~Cancellable, alive, NEW t \in Tasks,
           stmt[t].phase = "sent", stmt[t].kind # "none"
    PROVE  /\ stmt[t].kind = "BEGIN" => srv = "idle" /\ stack[t] = <<>>
           /\ stmt[t].kind \in Ending => srv # "idle"
           /\ stmt[t].kind \notin Toggling => (stack[t] = <<>> <=> srv = "idle")
<1>1. \A u \in Tasks \ {t} : stack[u] = <<>> /\ stmt[u].kind = "none"
  <2>1. \A u \in Tasks \ {t} : stack[u] = <<>> /\ stmt[u] = Idle
    BY UsersBlocks
  <2>2. Idle.kind = "none"
    BY DEF Idle
  <2>. QED  BY <2>1, <2>2
<1>2. flag <=> stack[t] # <<>>
  BY <1>1, FlagMeansInside DEF TInv, FlagIsDepth
<1>3. Undisturbed
  BY DEF Undisturbed
<1>4. stmt[t].kind = "BEGIN" => ~flag
  BY DEF TInv, FlagIsDepth
<1>5. stmt[t].kind = "BEGIN" => srv = "idle"
  BY <1>3 DEF TInv, ServerView
<1>6. stmt[t].kind \in Ending => srv # "idle"
  BY <1>3 DEF TInv, ServerView
<1>7. stmt[t].kind \notin Toggling => (flag <=> srv # "idle")
  <2>1. "none" \notin Toggling
    BY DEF Toggling, Ending
  <2>. QED  BY <1>1, <1>3, <2>1 DEF TInv, ServerView
<1>. QED  BY <1>2, <1>4, <1>5, <1>6, <1>7

LEMMA ServeBeginStep ==
    ASSUME IInv, TInv, RInv, IInv', ~Cancellable, NEW t \in Tasks, ServeBegin(t)
    PROVE  Promise!Open
<1>1. /\ alive /\ stmt[t].kind = "BEGIN" /\ stmt[t].phase = "sent" /\ Server(t)
      /\ UNCHANGED <<work, durable>>
  BY DEF ServeBegin, Sent, Server
<1>2. srv = "idle" /\ stack[t] = <<>>
  BY <1>1, Found
<1>3. srv' = "open" /\ Reply(t, "ok")
  BY <1>2 DEF ServeBegin
<1>4. "BEGIN" \in Entering /\ "BEGIN" \notin Leaving
  BY DEF Entering, Leaving, Ending
<1>5. PICK i \in Insts : stmt[t].arg = i
  BY <1>1, <1>4, StatementArgs DEF IInv, TypeOK
<1>6. /\ Blocks = <<>> /\ Blocks' = Append(Blocks, i)
      /\ UNCHANGED client /\ alive' = alive
  BY <1>1, <1>2, <1>3, <1>4, <1>5, Served
<1>7. Base(i)' = {}
  <2>1. ~savepoint[i]
    BY <1>1, <1>4, <1>5 DEF IInv, EnteringMode
  <2>. QED  BY <1>6, <2>1 DEF Base, client
<1>8. Now = {} /\ Now' = {}
  BY <1>1, <1>2, <1>3 DEF Now, RInv, Grounded
<1>9. Bases' = Append(Bases, Now)
  <2>1. \A k \in 1..Len(Blocks) : FALSE
    BY <1>6
  <2>2. Bases' = Append(Bases, {})
    BY <1>6, <1>7, <2>1, BasesGrow DEF RowSets
  <2>. QED  BY <1>8, <2>2
<1>10. Status = "live" /\ Status' = "live"
  BY <1>1, <1>2, <1>3, <1>6 DEF Status
<1>. QED  BY <1>1, <1>8, <1>9, <1>10, OpenStep

\* No block of t but the innermost is named by t's statement.
LEMMA OtherBlocks ==
    ASSUME IInv, TInv, SInv, NEW t \in Tasks, NEW k \in 1..Len(stack[t]), stmt[t].kind # "none",
           \/ stmt[t].kind \in Entering
           \/ stmt[t].kind \in Leaving /\ k < Len(stack[t])
    PROVE  stack[t][k] # stmt[t].arg
<1>1. Once(t)
  BY DEF SInv
<1>2. Len(stack[t]) \in Nat
  BY UsersBlocks
<1>3. CASE stmt[t].kind \in Entering
  BY <1>1, <1>3 DEF Once
<1>4. CASE stmt[t].kind \in Leaving /\ k < Len(stack[t])
  <2>1. stmt[t].arg = stack[t][Len(stack[t])]
    BY <1>4, UsersBlocks
  <2>2. Len(stack[t]) \in 1..Len(stack[t]) /\ k # Len(stack[t])
    BY <1>2, <1>4
  <2>. QED  BY <1>1, <2>1, <2>2 DEF Once
<1>. QED  BY <1>3, <1>4

\* Blocks whose savepoint stays where it is start from the same rows.
LEMMA BaseStays ==
    ASSUME IInv, UNCHANGED savepoint, NEW i,
           savepoint[i] => /\ Has(sps, i) /\ Has(sps', i) /\ At(sps', i) = At(sps, i)
                           /\ sps'[At(sps, i)] = sps[At(sps, i)]
    PROVE  Base(i)' = Base(i)
<1>1. Base(i) = IF savepoint[i] /\ Has(sps, i) THEN sps[At(sps, i)].snap ELSE {}
  BY BaseAt
<1>2. Base(i)' = IF savepoint'[i] /\ Has(sps', i) THEN sps'[At(sps', i)].snap ELSE {}
  BY BaseAtNext
<1>. QED  BY <1>1, <1>2

\* The blocks of t are saved while its statement is on its way.
LEMMA BlocksSaved ==
    ASSUME IInv, TInv, SInv, alive, NEW t \in Tasks, NEW k \in 1..Len(stack[t]),
           stmt[t].phase = "sent", savepoint[stack[t][k]]
    PROVE  /\ Has(sps, stack[t][k]) /\ At(sps, stack[t][k]) \in 1..Len(sps)
           /\ sps[At(sps, stack[t][k])].name = stack[t][k]
           /\ Len(sps) \in Nat
           /\ \A l \in k+1..Len(stack[t]) : At(sps, stack[t][k]) < At(sps, stack[t][l])
<1>1. k > 1
  BY DEF TInv, OuterFirst
<1>2. /\ Has(sps, stack[t][k])
      /\ \A l \in k+1..Len(stack[t]) : At(sps, stack[t][k]) < At(sps, stack[t][l])
  BY <1>1, BlockBase
<1>3. sps \in Seq([name : Insts, snap : SUBSET Writes])
  BY DEF IInv, TypeOK
<1>4. Len(sps) \in Nat
  BY <1>3
<1>. QED  BY <1>2, <1>3, <1>4, MostRecent

LEMMA ServeSavepointStep ==
    ASSUME IInv, TInv, SInv, RInv, IInv', ~Cancellable, NEW t \in Tasks, ServeSavepoint(t)
    PROVE  Promise!Open \/ UNCHANGED <<Frames, Status, durable>>
<1>1. /\ alive /\ stmt[t].kind = "SAVEPOINT" /\ stmt[t].phase = "sent" /\ Server(t)
      /\ UNCHANGED <<srv, work, durable>>
  BY DEF ServeSavepoint, Sent, Server
<1>2. "SAVEPOINT" \in Entering /\ "SAVEPOINT" \notin Leaving
  BY DEF Entering, Leaving, Ending
<1>3. PICK i \in Insts : stmt[t].arg = i
  BY <1>1, <1>2, StatementArgs DEF IInv, TypeOK
<1>4. CASE Reply(t, "error") /\ sps' = sps
  <2>1. Blocks' = Blocks /\ alive' = alive /\ UNCHANGED client
    BY <1>1, <1>2, <1>4, Served
  <2>2. UNCHANGED server
    BY <1>1, <1>4, <2>1 DEF server
  <2>3. \A j \in Insts : Base(j)' = Base(j)
    BY <2>1, <2>2 DEF Base, Defined, Position, client, server
  <2>4. Bases' = Bases
    BY <2>1, <2>3, BasesSame
  <2>5. Now' = Now /\ Status' = Status
    BY <2>2 DEF Now, Status, server
  <2>6. Frames' = Frames
    BY <2>4, <2>5, MappingTyped, MappingTypedNext
  <2>. QED  BY <1>1, <2>5, <2>6
<1>5. CASE srv = "open" /\ Reply(t, "ok") /\ sps' = Append(sps, [name |-> i, snap |-> work])
  <2>. DEFINE e == [name |-> i, snap |-> work]
              S == [name : Insts, snap : SUBSET Writes]
  <2>1. /\ Blocks = stack[t] /\ Blocks' = Append(Blocks, i)
        /\ UNCHANGED client /\ alive' = alive
    BY <1>1, <1>2, <1>3, <1>5, Served
  <2>2. e \in S /\ e.name = i /\ e.snap = work /\ sps \in Seq(S) /\ Len(sps) \in Nat
    BY DEF IInv, TypeOK
  <2>3. sps' = Append(sps, e)
    BY <1>5
  <2>. HIDE DEF e, S
  <2>4. /\ Has(sps', i) /\ At(sps', i) = Len(sps) + 1
        /\ \A j : (j # i /\ Has(sps, j)) => Has(sps', j) /\ At(sps', j) = At(sps, j)
        /\ sps'[Len(sps) + 1] = e
        /\ \A k \in 1..Len(sps) : sps'[k] = sps[k]
    BY <2>2, <2>3, AppendAt, PushKeeps
  <2>5. Base(i)' = Now
    <3>1. savepoint'[i]
      BY <1>1, <1>2, <1>3, <2>1 DEF IInv, EnteringMode, client
    <3>2. Base(i)' = sps'[At(sps', i)].snap
      BY <2>4, <3>1, BaseAtNext
    <3>. QED  BY <1>5, <2>2, <2>4, <3>2 DEF Now
  <2>6. \A k \in 1..Len(Blocks) : \A j \in Insts : Blocks[k] = j => Base(j)' = Base(j)
    <3>. SUFFICES ASSUME NEW k \in 1..Len(stack[t]), NEW j \in Insts, stack[t][k] = j
                  PROVE  Base(j)' = Base(j)
      BY <2>1
    <3>1. j # i
      BY <1>1, <1>2, <1>3, OtherBlocks
    <3>2. savepoint[j] => Has(sps, j) /\ At(sps, j) \in 1..Len(sps)
      BY <1>1, BlocksSaved
    <3>3. savepoint[j] => /\ Has(sps, j) /\ Has(sps', j) /\ At(sps', j) = At(sps, j)
                          /\ sps'[At(sps, j)] = sps[At(sps, j)]
      BY <2>4, <3>1, <3>2
    <3>. QED  BY <2>1, <3>3, BaseStays DEF client
  <2>7. Bases' = Append(Bases, Now)
    <3>1. \A x \in RowSets : Base(i)' = x => Bases' = Append(Bases, x)
      BY <2>1, <2>6, BasesGrow
    <3>2. Now \in RowSets
      BY MappingTyped
    <3>. QED  BY <2>5, <3>1, <3>2
  <2>8. Now' = Now /\ Status = "live" /\ Status' = "live"
    BY <1>1, <1>5, <2>1 DEF Now, Status
  <2>. QED  BY <1>1, <2>7, <2>8, OpenStep
<1>. QED  BY <1>3, <1>4, <1>5 DEF ServeSavepoint

\* The statements that close nested blocks.
Discarding == {"RELEASE", "ROLLBACK TO"}

\* The innermost of nested blocks starts from its savepoint's rows.
LEMMA InnermostBase ==
    ASSUME IInv, TInv, SInv, RInv, alive, NEW t \in Tasks, stmt[t].phase = "sent",
           stmt[t].kind \in Discarding
    PROVE  /\ stack[t] # <<>> /\ Len(stack[t]) \in Nat /\ Len(stack[t]) >= 2
           /\ stmt[t].arg = stack[t][Len(stack[t])] /\ stmt[t].arg \in Insts
           /\ savepoint[stmt[t].arg] /\ Has(sps, stmt[t].arg)
           /\ At(sps, stmt[t].arg) \in 1..Len(sps) /\ Len(sps) \in Nat
           /\ Base(stmt[t].arg) = sps[At(sps, stmt[t].arg)].snap
           /\ Base(stmt[t].arg) \subseteq work
           /\ Base(stack[t][Len(stack[t]) - 1]) \subseteq Base(stmt[t].arg)
<1>. DEFINE n == Len(stack[t])
            i == stack[t][n]
            h == stack[t][n - 1]
<1>1. stmt[t].kind \in Leaving /\ stmt[t].kind # "none" /\ stmt[t].kind \notin Ending
  BY DEF Leaving, Ending, Discarding
<1>2. /\ n \in Nat /\ n >= 2 /\ stmt[t].arg = i /\ stack[t] \in Seq(Insts)
  BY <1>1, UsersBlocks DEF Discarding
<1>. HIDE DEF n
<1>n. n \in Nat /\ n >= 2
  BY <1>2
<1>3. /\ n \in 1..n /\ n - 1 \in 1..n /\ n \in (n - 1)+1..n /\ n > 1
  BY <1>n
<1>4. i \in Insts /\ stack[t] # <<>>
  <2>1. \A k \in 1..n : stack[t][k] \in Insts
    BY <1>2 DEF n
  <2>2. stack[t] # <<>>
    BY <1>2, <1>n, EmptySeq DEF n
  <2>. QED  BY <1>3, <2>1, <2>2
<1>. HIDE DEF i, h
<1>5. savepoint[i]
  BY <1>1, <1>2 DEF IInv, LeavingInnermost
<1>6. Has(sps, i) /\ At(sps, i) \in 1..Len(sps) /\ Len(sps) \in Nat
  BY <1>3, <1>5, BlocksSaved DEF n, i
<1>a. At(sps, i) \in 1..Len(sps) /\ Len(sps) \in Nat
  BY <1>6
<1>7. Base(i) = sps[At(sps, i)].snap
  BY <1>5, <1>6, BaseAt
<1>8. Base(i) \subseteq work
  BY <1>6, <1>7 DEF RInv, SnapshotsNest
<1>9. Base(h) \subseteq Base(i)
  <2>1. CASE ~(savepoint[h])
    <3>1. Base(h) = {}
      BY <2>1, BaseAt
    <3>. QED  BY <3>1
  <2>2. CASE savepoint[h]
    <3>1. /\ Has(sps, h) /\ At(sps, h) \in 1..Len(sps)
          /\ \A l \in (n - 1)+1..n : At(sps, h) < At(sps, stack[t][l])
      BY <1>3, <2>2, BlocksSaved DEF n, h
    <3>2. At(sps, h) < At(sps, i)
      BY <1>3, <3>1 DEF i
    <3>3. Base(h) = sps[At(sps, h)].snap
      BY <2>2, <3>1, BaseAt
    <3>4. At(sps, h) \in 1..Len(sps)
      BY <3>1
    <3>5. At(sps, h) <= At(sps, i)
      BY <1>a, <3>2, <3>4
    <3>6. sps[At(sps, h)].snap \subseteq sps[At(sps, i)].snap
      BY <1>a, <3>4, <3>5 DEF RInv, SnapshotsNest
    <3>. QED  BY <1>7, <3>3, <3>6
  <2>. QED  BY <2>1, <2>2
<1>. QED  BY <1>2, <1>4, <1>5, <1>6, <1>7, <1>8, <1>9 DEF n, i, h

\* What is discarded with a savepoint is not what the blocks around started from.
LEMMA AroundStays ==
    ASSUME IInv, TInv, SInv, RInv, alive, NEW t \in Tasks, stmt[t].phase = "sent",
           stmt[t].kind \in Discarding, UNCHANGED savepoint,
           NEW m \in 0..Len(sps), m + 1 >= At(sps, stmt[t].arg), sps' = SubSeq(sps, 1, m)
    PROVE  \A k \in 1..Len(stack[t]) - 1 : \A j \in Insts :
              stack[t][k] = j => Base(j)' = Base(j)
<1>. SUFFICES ASSUME NEW k \in 1..Len(stack[t]) - 1, NEW j \in Insts, stack[t][k] = j
              PROVE  Base(j)' = Base(j)
  OBVIOUS
<1>. DEFINE n == Len(stack[t])
            a == At(sps, stmt[t].arg)
<1>1. /\ n \in Nat /\ stmt[t].arg = stack[t][n] /\ a \in 1..Len(sps) /\ Len(sps) \in Nat
  BY InnermostBase
<1>. HIDE DEF a, n
<1>2. k \in 1..n /\ n \in k+1..n
  <2>1. n \in Nat /\ k \in 1..n - 1
    BY <1>1 DEF n
  <2>. QED  BY <2>1
<1>3. ASSUME savepoint[j]
      PROVE  /\ Has(sps, j) /\ Has(sps', j) /\ At(sps', j) = At(sps, j)
             /\ sps'[At(sps, j)] = sps[At(sps, j)]
  <2>1. /\ Has(sps, j) /\ At(sps, j) \in 1..Len(sps)
        /\ \A l \in k+1..n : At(sps, j) < At(sps, stack[t][l])
    BY <1>2, <1>3, BlocksSaved DEF n
  <2>2. At(sps, j) < a
    BY <1>1, <1>2, <2>1 DEF a
  <2>3. At(sps, j) <= m /\ At(sps, j) \in 1..m
    <3>1. At(sps, j) \in 1..Len(sps) /\ a \in 1..Len(sps) /\ Len(sps) \in Nat
      BY <1>1, <2>1
    <3>2. m + 1 >= a
      BY DEF a
    <3>. QED  BY <2>2, <3>1, <3>2
  <2>4. sps \in Seq([name : Insts, snap : SUBSET Writes])
    BY DEF IInv, TypeOK
  <2>5. Has(SubSeq(sps, 1, m), j) /\ At(SubSeq(sps, 1, m), j) = At(sps, j)
    BY <2>1, <2>3, <2>4, PrefixAt
  <2>6. SubSeq(sps, 1, m)[At(sps, j)] = sps[At(sps, j)]
    <3>1. \A l \in 1..m : SubSeq(sps, 1, m)[l] = sps[l]
      BY <2>4
    <3>. QED  BY <2>3, <3>1
  <2>. QED  BY <2>1, <2>5, <2>6
<1>. QED  BY <1>3, BaseStays

LEMMA ServeReleaseStep ==
    ASSUME IInv, TInv, SInv, RInv, IInv', ~Cancellable, NEW t \in Tasks, ServeRelease(t)
    PROVE  Promise!Merge \/ UNCHANGED <<Frames, Status, durable>>
<1>. DEFINE i == stmt[t].arg
            n == Len(stack[t])
<1>1. /\ alive /\ stmt[t].kind = "RELEASE" /\ stmt[t].phase = "sent" /\ Server(t)
      /\ UNCHANGED <<work, durable>>
  BY DEF ServeRelease, Sent, Server
<1>2. "RELEASE" \in Leaving /\ "RELEASE" \notin Toggling /\ "RELEASE" \in Discarding
  BY DEF Leaving, Toggling, Ending, Discarding
<1>3. /\ stack[t] # <<>> /\ n \in Nat /\ n >= 2 /\ i = stack[t][n] /\ i \in Insts
      /\ Has(sps, i) /\ At(sps, i) \in 1..Len(sps) /\ Len(sps) \in Nat
      /\ Base(i) \subseteq work /\ Base(stack[t][n - 1]) \subseteq Base(i)
  BY <1>1, <1>2, InnermostBase
<1>4. srv # "idle"
  BY <1>1, <1>2, <1>3, Found
<1>5. Defined(i) /\ Position(i) = At(sps, i)
  BY <1>3, Zenon DEF Defined, Position, Has, At
<1>6. \/ srv = "open" /\ srv' = srv /\ Reply(t, "ok") /\ sps' = SubSeq(sps, 1, At(sps, i) - 1)
      \/ srv = "aborted" /\ srv' = srv /\ Reply(t, "error") /\ sps' = sps
  <2>1. srv \in {"open", "aborted"}
    BY <1>4 DEF IInv, TypeOK
  <2>. QED  BY <1>5, <2>1 DEF ServeRelease
<1>7. /\ UNCHANGED client /\ alive' = alive
      /\ Blocks = (IF exc[t] THEN Popped(t) ELSE stack[t]) /\ Blocks' = Popped(t)
  BY <1>1, <1>2, <1>6, Served
<1>8. Now' = Now /\ Status' = Status
  BY <1>1, <1>6, <1>7 DEF Now, Status
<1>. HIDE DEF i, n
<1>9. \A k \in 1..n - 1 : \A j \in Insts : stack[t][k] = j => Base(j)' = Base(j)
  <2>1. CASE sps' = sps
    BY <1>7, <2>1 DEF Base, Defined, Position, client
  <2>2. CASE sps' = SubSeq(sps, 1, At(sps, i) - 1)
    <3>1. At(sps, i) - 1 \in 0..Len(sps) /\ (At(sps, i) - 1) + 1 >= At(sps, i)
      BY <1>3
    <3>2. UNCHANGED savepoint
      BY <1>7 DEF client
    <3>. QED  BY <1>1, <1>2, <2>2, <3>1, <3>2, AroundStays DEF i, n
  <2>. QED  BY <1>6, <2>1, <2>2
<1>10. /\ Popped(t) = SubSeq(stack[t], 1, n - 1) /\ Len(Popped(t)) = n - 1
       /\ \A k \in 1..n - 1 : Popped(t)[k] = stack[t][k]
  <2>1. stack[t] \in Seq(Insts)
    BY DEF IInv, TypeOK
  <2>. QED  BY <1>3, <2>1, PopKeeps DEF Popped, n
<1>11. CASE exc[t]
  <2>1. Blocks = Popped(t) /\ Blocks' = Blocks
    BY <1>7, <1>11
  <2>2. \A k \in 1..Len(Blocks) : \A j \in Insts : Blocks[k] = j => Base(j)' = Base(j)
    BY <1>9, <1>10, <2>1
  <2>3. Bases' = Bases
    BY <2>1, <2>2, BasesSame
  <2>4. Frames' = Frames
    BY <1>8, <2>3, MappingTyped, MappingTypedNext
  <2>. QED  BY <1>1, <1>8, <2>4
<1>12. CASE ~(exc[t])
  <2>1. Blocks = stack[t] /\ Blocks' = SubSeq(Blocks, 1, Len(Blocks) - 1) /\ Len(Blocks) = n
    BY <1>7, <1>10, <1>12 DEF n
  <2>2. Bases' = SubSeq(Bases, 1, Len(Bases) - 1)
    BY <1>3, <1>9, <2>1, BasesShrink DEF n
  <2>3. /\ Len(Bases) = n /\ Bases[n] = Base(i) /\ Bases[n - 1] = Base(stack[t][n - 1])
    <3>1. n \in 1..n /\ n - 1 \in 1..n
      BY <1>3
    <3>2. Len(Bases) = Len(Blocks) /\ \A k \in 1..Len(Blocks) : Bases[k] = Base(Blocks[k])
      BY MappingTyped
    <3>. QED  BY <1>3, <2>1, <3>1, <3>2
  <2>4. \/ /\ Status = "live"
           /\ Bases[Len(Bases) - 1] \subseteq Bases[Len(Bases)]
           /\ Bases[Len(Bases)] \subseteq Now
        \/ Status # "live" /\ Now = {}
    <3>1. CASE srv = "open"
      BY <1>1, <1>3, <2>3, <3>1 DEF Status, Now
    <3>2. CASE srv = "aborted"
      BY <1>1, <3>2 DEF Status, Now
    <3>. QED  BY <1>6, <3>1, <3>2
  <2>. QED  BY <1>1, <1>3, <1>8, <2>2, <2>3, <2>4, MergeStep
<1>. QED  BY <1>11, <1>12

\* The innermost block of t closes: the blocks around it stay.
LEMMA ClosesInnermost ==
    ASSUME IInv, IInv', NEW t \in Tasks, stack[t] # <<>>,
           Blocks = stack[t], Blocks' = Popped(t),
           \A k \in 1..Len(stack[t]) - 1 : \A j \in Insts :
              stack[t][k] = j => Base(j)' = Base(j)
    PROVE  /\ Bases # <<>> /\ Len(Bases) = Len(stack[t])
           /\ Bases' = SubSeq(Bases, 1, Len(Bases) - 1)
           /\ \A k \in 1..Len(stack[t]) : Bases[k] = Base(stack[t][k])
<1>1. Bases # <<>> /\ Bases' = SubSeq(Bases, 1, Len(Bases) - 1)
  BY BasesShrink DEF Popped
<1>2. Len(Bases) = Len(Blocks) /\ \A k \in 1..Len(Blocks) : Bases[k] = Base(Blocks[k])
  BY MappingTyped
<1>. QED  BY <1>1, <1>2

LEMMA ServeRollbackToStep ==
    ASSUME IInv, TInv, SInv, RInv, IInv', ~Cancellable, NEW t \in Tasks, ServeRollbackTo(t)
    PROVE  Promise!Abandon
<1>. DEFINE i == stmt[t].arg
            n == Len(stack[t])
            kind == "ROLLBACK TO"
<1>1. /\ alive /\ stmt[t].kind = kind /\ stmt[t].phase = "sent" /\ Server(t)
      /\ durable' = durable
  BY DEF ServeRollbackTo, Sent, Server
<1>2. kind \in Leaving /\ kind \notin Toggling /\ kind \in Discarding /\ kind # "RELEASE"
      /\ kind # "none"
  BY DEF Leaving, Toggling, Ending, Discarding
<1>3. /\ stack[t] # <<>> /\ n \in Nat /\ n >= 2 /\ i = stack[t][n] /\ i \in Insts
      /\ Has(sps, i) /\ At(sps, i) \in 1..Len(sps) /\ Len(sps) \in Nat
      /\ Base(i) = sps[At(sps, i)].snap
  BY <1>1, <1>2, InnermostBase
<1>4. srv # "idle"
  BY <1>1, <1>2, <1>3, Found
<1>5. Defined(i) /\ Position(i) = At(sps, i)
  BY <1>3, Zenon DEF Defined, Position, Has, At
<1>6. /\ srv' = "open" /\ Reply(t, "ok") /\ sps' = SubSeq(sps, 1, At(sps, i))
      /\ work' = Base(i)
  BY <1>3, <1>4, <1>5 DEF ServeRollbackTo
<1>7. /\ UNCHANGED client /\ alive' = alive
      /\ Blocks = stack[t] /\ Blocks' = Popped(t)
  BY <1>1, <1>2, <1>6, Served
<1>. HIDE DEF i, n, kind
<1>8. \A k \in 1..n - 1 : \A j \in Insts : stack[t][k] = j => Base(j)' = Base(j)
  <2>1. At(sps, i) \in 0..Len(sps) /\ At(sps, i) + 1 >= At(sps, i)
    BY <1>3
  <2>2. UNCHANGED savepoint
    BY <1>7 DEF client
  <2>. QED  BY <1>1, <1>2, <1>6, <2>1, <2>2, AroundStays DEF i, n
<1>9. /\ Bases # <<>> /\ Len(Bases) = n
      /\ Bases' = SubSeq(Bases, 1, Len(Bases) - 1)
      /\ \A k \in 1..n : Bases[k] = Base(stack[t][k])
  BY <1>3, <1>7, <1>8, ClosesInnermost DEF n
<1>10. Now' = Bases[Len(Bases)]
  <2>1. n \in 1..n
    BY <1>3
  <2>2. Bases[Len(Bases)] = Base(i)
    BY <1>3, <1>9, <2>1
  <2>. QED  BY <1>6, <2>2 DEF Now
<1>11. Status' = IF Status = "doomed" THEN "live" ELSE Status
  BY <1>1, <1>6, <1>7 DEF Status
<1>. QED  BY <1>1, <1>9, <1>10, <1>11, AbandonStep

\* COMMIT and ROLLBACK close the outermost block.
LEMMA EndsOutermost ==
    ASSUME IInv, TInv, IInv', NEW t \in Tasks, Server(t), stmt[t].kind \in Ending,
           NEW r \in {"ok", "error"}, Reply(t, r)
    PROVE  /\ Len(Bases) = 1 /\ Bases # <<>> /\ Bases[1] = {}
           /\ Bases' = SubSeq(Bases, 1, Len(Bases) - 1)
<1>1. stmt[t].kind \in Leaving /\ stmt[t].kind # "RELEASE" /\ stmt[t].kind # "none"
  BY DEF Leaving, Ending
<1>2. Len(stack[t]) = 1 /\ stack[t] # <<>>
  <2>1. Len(stack[t]) = 1
    BY <1>1, UsersBlocks
  <2>2. stack[t] # <<>>
    BY <1>1 DEF IInv, LeavingInnermost
  <2>. QED  BY <2>1, <2>2
<1>3. Blocks = stack[t] /\ Blocks' = Popped(t)
  BY <1>1, Served
<1>4. \A k \in 1..Len(stack[t]) - 1 : FALSE
  BY <1>2
<1>5. /\ Bases # <<>> /\ Len(Bases) = Len(stack[t])
      /\ Bases' = SubSeq(Bases, 1, Len(Bases) - 1)
      /\ \A k \in 1..Len(stack[t]) : Bases[k] = Base(stack[t][k])
  BY <1>2, <1>3, <1>4, ClosesInnermost
<1>6. 1 \in 1..Len(stack[t])
  BY <1>2
<1>7. Base(stack[t][1]) = {}
  BY <1>6, BlockBase
<1>. QED  BY <1>2, <1>5, <1>6, <1>7

LEMMA ServeEndStep ==
    ASSUME IInv, TInv, IInv', ~Cancellable, NEW t \in Tasks,
           ServeCommit(t) \/ ServeRollback(t)
    PROVE  Promise!Commit \/ Promise!Abandon
<1>1. /\ alive /\ stmt[t].kind \in Ending /\ stmt[t].phase = "sent" /\ Server(t)
      /\ srv' = "idle" /\ work' = {} /\ alive' = alive
  BY DEF ServeCommit, ServeRollback, Sent, Server, Ending
<1>2. PICK r \in {"ok", "error"} : Reply(t, r)
  BY <1>1, ServerReplies
<1>3. /\ Len(Bases) = 1 /\ Bases # <<>> /\ Bases[1] = {}
      /\ Bases' = SubSeq(Bases, 1, Len(Bases) - 1)
  BY <1>1, <1>2, EndsOutermost
<1>4. Now' = {} /\ Status' = IF Status = "doomed" THEN "live" ELSE Status
  BY <1>1 DEF Now, Status
<1>5. CASE ServeCommit(t)
  <2>1. durable' = durable \/ (srv = "open" /\ durable' = durable \cup work)
    BY <1>5 DEF ServeCommit
  <2>2. durable' = durable \/ (Status = "live" /\ durable' = durable \cup Now)
    BY <1>1, <2>1 DEF Status, Now
  <2>. QED  BY <1>3, <1>4, <2>2, CommitStep
<1>6. CASE ServeRollback(t)
  <2>1. durable' = durable
    BY <1>6 DEF ServeRollback
  <2>. QED  BY <1>3, <1>4, <2>1, AbandonStep
<1>. QED  BY <1>5, <1>6

\* A row is sent from inside t's blocks, or outside any.
LEMMA ServeWriteStep ==
    ASSUME IInv, TInv, SInv, RInv, IInv', ~Cancellable, NEW t \in Tasks, ServeWrite(t)
    PROVE  \/ \E w \in Writes : Promise!WriteRow(w)
           \/ Promise!Fail
           \/ UNCHANGED <<Frames, Status, durable>>
<1>. DEFINE n == Len(stack[t])
<1>1. /\ alive /\ stmt[t].kind = "write" /\ stmt[t].phase = "sent" /\ Server(t)
      /\ sps' = sps
  BY DEF ServeWrite, Sent, Server
<1>2. "write" \notin Leaving /\ "write" \notin Entering /\ "write" \notin Toggling
      /\ "write" # "none"
  BY DEF Leaving, Entering, Ending, Toggling
<1>3. PICK w \in Writes : stmt[t].arg = w
  BY <1>1, StatementArgs DEF IInv, TypeOK
<1>4. PICK r \in {"ok", "error"} : Reply(t, r)
  BY <1>1, ServerReplies
<1>5. /\ UNCHANGED client /\ alive' = alive /\ Blocks = stack[t] /\ Blocks' = Blocks
      /\ n \in Nat /\ stack[t] \in Seq(Insts)
  BY <1>1, <1>2, <1>4, Served
<1>6. Bases' = Bases
  <2>1. \A j \in Insts : Base(j)' = Base(j)
    BY <1>1, <1>5 DEF Base, Defined, Position, client
  <2>. QED  BY <1>5, <2>1, BasesSame
<1>7. /\ Len(Bases) = n /\ \A k \in 1..n : Bases[k] = Base(stack[t][k])
      /\ Bases \in Seq(RowSets)
  BY <1>5, MappingTyped
<1>8. stack[t] = <<>> <=> srv = "idle"
  BY <1>1, <1>2, Found
<1>. HIDE DEF n
<1>9. stack[t] = <<>> <=> Bases = <<>>
  BY <1>5, <1>7, EmptySeq DEF n
<1>10. ASSUME Bases # <<>>
       PROVE  w \notin Bases[Len(Bases)]
  <2>1. n # 0
    BY <1>7, <1>10, EmptySeq
  <2>n. n \in Nat
    BY <1>5
  <2>2. n \in 1..n
    BY <2>1, <2>n
  <2>3. Bases[Len(Bases)] = Base(stack[t][n])
    BY <1>7, <2>2
  <2>4. w \notin work
    BY <1>1, <1>3 DEF RInv, WritesNew
  <2>5. CASE savepoint[stack[t][n]]
    <3>1. Has(sps, stack[t][n]) /\ At(sps, stack[t][n]) \in 1..Len(sps)
      BY <1>1, <2>2, <2>5, BlocksSaved DEF n
    <3>2. Base(stack[t][n]) = sps[At(sps, stack[t][n])].snap
      BY <2>5, <3>1, BaseAt
    <3>3. Base(stack[t][n]) \subseteq work
      BY <3>1, <3>2 DEF RInv, SnapshotsNest
    <3>. QED  BY <2>3, <2>4, <3>3
  <2>6. CASE ~(savepoint[stack[t][n]])
    <3>1. Base(stack[t][n]) = {}
      BY <2>6, BaseAt
    <3>. QED  BY <2>3, <3>1
  <2>. QED  BY <2>5, <2>6
<1>11. CASE srv = "open" /\ srv' = srv /\ work' = work \cup {w} /\ durable' = durable
  <2>1. Now' = Now \cup {w} /\ Status = "live" /\ Status' = "live"
    BY <1>1, <1>5, <1>11 DEF Now, Status
  <2>2. Bases # <<>>
    BY <1>8, <1>9, <1>11
  <2>. QED  BY <1>6, <1>10, <1>11, <2>1, <2>2, WriteStep
<1>12. CASE srv = "idle" /\ srv' = srv /\ durable' = durable \cup {w}
  <2>1. Status = "live" /\ Status' = "live"
    BY <1>1, <1>5, <1>12 DEF Status
  <2>. QED  BY <1>6, <1>8, <1>9, <1>12, <2>1, WriteStep
<1>13. CASE srv = "open" /\ srv' = "aborted" /\ durable' = durable
  <2>1. Now' = {} /\ Status = "live" /\ Status' = "doomed"
    BY <1>1, <1>5, <1>13 DEF Now, Status
  <2>2. Bases # <<>>
    BY <1>8, <1>9, <1>13
  <2>. QED  BY <1>6, <1>13, <2>1, <2>2, FailStep
<1>14. CASE srv # "open" /\ srv' = srv /\ UNCHANGED <<work, durable>>
  <2>1. Now' = Now /\ Status' = Status
    BY <1>1, <1>5, <1>14 DEF Now, Status
  <2>2. Frames' = Frames
    BY <1>6, <2>1, MappingTyped, MappingTypedNext
  <2>. QED  BY <1>14, <2>1, <2>2
<1>. QED
  <2>1. \/ srv = "open" /\ srv' = srv /\ work' = work \cup {w} /\ durable' = durable
        \/ srv = "idle" /\ srv' = srv /\ durable' = durable \cup {w}
        \/ srv = "open" /\ srv' = "aborted" /\ durable' = durable
        \/ srv # "open" /\ srv' = srv /\ UNCHANGED <<work, durable>>
    BY <1>3 DEF ServeWrite
  <2>. QED  BY <1>11, <1>12, <1>13, <1>14, <2>1

\* Nothing is written, and nothing saved, without a connection.
LEMMA Nothing ==
    RInv => (~alive => Now = {} /\ \A j : Base(j) = {})
<1>. SUFFICES ASSUME RInv, ~alive PROVE Now = {} /\ \A j : Base(j) = {}
  OBVIOUS
<1>1. srv = "idle" /\ work = {} /\ sps = <<>>
  BY DEF RInv, Grounded
<1>2. \A j : ~Has(sps, j)
  BY <1>1 DEF Has
<1>. QED  BY <1>1, <1>2, BaseAt DEF Now

LEMMA NothingNext ==
    RInv' => (~alive => Now = {} /\ \A j : Base(j) = {})'
BY Nothing, PTL

LEMMA ServeDeadStep ==
    ASSUME IInv, TInv, RInv, IInv', RInv', NEW t \in Tasks, ServeDead(t)
    PROVE  Promise!Abandon \/ UNCHANGED <<Frames, Status, durable>>
<1>1. ~alive /\ UNCHANGED server /\ Server(t) /\ Reply(t, "error")
  BY DEF ServeDead, Server
<1>2. alive' = alive /\ durable' = durable
  BY <1>1 DEF server
<1>3. Now = {} /\ Now' = {} /\ \A j \in Insts : Base(j) = {} /\ Base(j)' = {}
  <2>1. Now = {} /\ \A j \in Insts : Base(j) = {}
    BY <1>1, Nothing
  <2>2. Now' = {} /\ \A j \in Insts : Base(j)' = {}
    BY <1>1, <1>2, NothingNext
  <2>. QED  BY <2>1, <2>2
<1>4. Status = "lost" /\ Status' = "lost"
  BY <1>1, <1>2 DEF Status
<1>5. CASE Blocks' = Blocks
  <2>1. Bases' = Bases
    BY <1>3, <1>5, BasesSame
  <2>2. Frames' = Frames
    BY <1>3, <2>1, MappingTyped, MappingTypedNext
  <2>. QED  BY <1>2, <1>4, <2>2
<1>6. CASE Blocks' # Blocks
  <2>1. /\ stmt[t].kind \in Leaving /\ Blocks = stack[t] /\ Blocks' = Popped(t)
        /\ stack[t] \in Seq(Insts)
    BY <1>1, <1>6, Served
  <2>2. stack[t] # <<>>
    BY <2>1 DEF IInv, LeavingInnermost
  <2>3. /\ Bases # <<>> /\ Len(Bases) = Len(stack[t])
        /\ Bases' = SubSeq(Bases, 1, Len(Bases) - 1)
        /\ \A k \in 1..Len(stack[t]) : Bases[k] = Base(stack[t][k])
    BY <1>3, <2>1, <2>2, ClosesInnermost
  <2>4. Bases[Len(Bases)] = {}
    <3>1. Len(stack[t]) \in 1..Len(stack[t])
      BY <2>1, <2>2, EmptySeq
    <3>2. stack[t][Len(stack[t])] \in Insts
      BY <2>1, <3>1
    <3>. QED  BY <1>3, <2>3, <3>1, <3>2
  <2>. QED  BY <1>2, <1>3, <1>4, <2>3, <2>4, AbandonStep
<1>. QED  BY <1>5, <1>6

\* What t's blocks become when the connection breaks.
LEMMA LoseSeen ==
    ASSUME IInv, TInv, IInv', Lose, NEW t \in Tasks
    PROVE  \/ Seen(t)' = Seen(t)
           \/ Len(Seen(t)) # 0 /\ Len(Seen(t)') = Len(Seen(t)) - 1
<1>. DEFINE s == stmt[t]
<1>1. /\ s \in Statements /\ stack[t] \in Seq(Insts) /\ UNCHANGED client
      /\ stmt'[t].kind = s.kind /\ stmt'[t].arg = s.arg
  BY LoseKeepsStatements DEF Lose, IInv, TypeOK
<1>2. \/ stmt'[t] = s
      \/ s.phase = "ok" /\ stmt'[t].phase = "error"
  <2>1. PICK lost \in SUBSET {u \in Tasks : stmt[u].phase = "ok"} :
          stmt' = [u \in Tasks |->
              IF u \in lost THEN [stmt[u] EXCEPT !.phase = "error"] ELSE stmt[u]]
    BY DEF Lose
  <2>2. CASE t \in lost
    <3>1. s.phase = "ok" /\ stmt'[t] = [s EXCEPT !.phase = "error"]
      BY <2>1, <2>2
    <3>2. [s EXCEPT !.phase = "error"].phase = "error"
      BY <1>1, <3>1, PhaseOnly DEF Replies
    <3>. QED  BY <3>1, <3>2
  <2>3. CASE t \notin lost
    BY <2>1, <2>3
  <2>. QED  BY <2>2, <2>3
<1>3. stack'[t] = stack[t] /\ exc'[t] = exc[t]
  BY <1>1 DEF client
<1>4. CASE stmt'[t] = s
  BY <1>3, <1>4 DEF Seen
<1>. HIDE DEF s
<1>5. CASE s.phase = "ok" /\ stmt'[t].phase = "error"
  <2>1. CASE s.kind \in Entering
    <3>1. s.kind \notin Leaving
      BY <2>1, IdleSeen
    <3>2. Seen(t) = Append(stack[t], s.arg)
      BY <1>5, <2>1 DEF Seen, s
    <3>3. Seen(t)' = stack[t]
      BY <1>1, <1>3, <1>5, <3>1 DEF Seen
    <3>4. s.arg \in Insts
      BY <1>1, <2>1, StatementArgs
    <3>5. /\ Len(Append(stack[t], s.arg)) = Len(stack[t]) + 1 /\ Len(stack[t]) \in Nat
      BY <1>1, <3>4, PushKeeps
    <3>6. Len(Seen(t)) = Len(stack[t]) + 1 /\ Len(Seen(t)') = Len(stack[t])
      BY <3>2, <3>3, <3>5
    <3>7. Len(stack[t]) \in Nat
      BY <3>5
    <3>. QED  BY <3>6, <3>7
  <2>2. CASE s.kind \in Leaving
    <3>1. s.kind \notin Entering
      BY <2>2, IdleSeen
    <3>2. Seen(t) = Popped(t)
      BY <1>5, <2>2, <3>1 DEF Seen, Popped, s
    <3>3. Seen(t)' = Popped(t)
      BY <1>1, <1>3, <1>5, <2>2, <3>1 DEF Seen, Popped
    <3>. QED  BY <3>2, <3>3
  <2>3. CASE s.kind \notin Entering /\ s.kind \notin Leaving
    BY <1>1, <1>3, <2>3 DEF Seen, s
  <2>. QED  BY <2>1, <2>2, <2>3
<1>. QED  BY <1>2, <1>4, <1>5

LEMMA LoseStep ==
    ASSUME IInv, TInv, IInv', TInv', RInv', Lose
    PROVE  Promise!Break
<1>1. alive /\ ~alive' /\ durable' = durable /\ UNCHANGED client
  BY DEF Lose
<1>2. Status # "lost" /\ Status' = "lost"
  BY <1>1 DEF Status
<1>3. Now' = {} /\ \A j \in Insts : Base(j)' = {}
  BY <1>1, NothingNext
<1>4. /\ Blocks' \in Seq(Insts) /\ Bases' \in Seq(RowSets) /\ Len(Bases') = Len(Blocks')
      /\ \A k \in 1..Len(Blocks') : Bases'[k] = Base(Blocks[k])'
      /\ Frames' = Between(Bases', Now')
  BY MappingTypedNext
<1>5. \A k \in 1..Len(Bases') : Bases'[k] = {}
  <2>. SUFFICES ASSUME NEW k \in 1..Len(Blocks') PROVE Bases'[k] = {}
    BY <1>4
  <2>1. PICK j \in Insts : Blocks'[k] = j
    BY <1>4
  <2>2. Bases'[k] = Base(j)'
    BY <1>4, <2>1
  <2>. QED  BY <1>3, <2>2
<1>6. Frames' = [k \in 1..Len(Blocks') |-> {}]
  <2>1. \A b \in Seq(RowSets) : (\A k \in 1..Len(b) : b[k] = {}) =>
            Between(b, {}) = [k \in 1..Len(b) |-> {}]
    BY BetweenNothing
  <2>2. Between(Bases', {}) = [k \in 1..Len(Bases') |-> {}]
    BY <1>4, <1>5, <2>1
  <2>. QED  BY <1>3, <1>4, <2>2
<1>7. /\ Len(Blocks) \in Nat
      /\ \/ Blocks' = Blocks
         \/ Len(Blocks) # 0 /\ Len(Blocks') = Len(Blocks) - 1
  <2>1. Len(Blocks) \in Nat
    BY MappingTyped
  <2>2. CASE Tasks = {}
    BY <2>1, <2>2 DEF Blocks
  <2>3. ASSUME NEW u \in Tasks
        PROVE  \/ Blocks' = Blocks
               \/ Len(Blocks) # 0 /\ Len(Blocks') = Len(Blocks) - 1
    <3>1. PICK t \in Tasks : \A v \in Tasks \ {t} : ~Busy(v)
      BY DEF TInv, OneBusy
    <3>2. \A v \in Tasks \ {t} : ~Busy(v)'
      <4>. TAKE v \in Tasks \ {t}
      <4>1. stack[v] = <<>> /\ stmt[v] = Idle
        BY <3>1 DEF Busy, Running
      <4>2. stmt'[v] \in Statements /\ stmt'[v].kind = "none"
        <5>1. Idle.kind = "none"
          BY DEF Idle
        <5>. QED  BY <4>1, <5>1, LoseKeepsStatements
      <4>3. stmt'[v] = Idle
        BY <4>2, StatementArgs
      <4>. QED  BY <1>1, <4>1, <4>3 DEF Busy, Running, client
    <3>3. Blocks = Seen(t) /\ Blocks' = Seen(t)'
      BY <3>1, <3>2, BlocksSeen, BlocksSeenNext
    <3>. QED  BY <3>3, LoseSeen
  <2>. QED  BY <2>1, <2>2, <2>3
<1>8. Frames \in Seq(RowSets) /\ Len(Frames) = Len(Blocks)
  BY MappingTyped, BetweenTyped
<1>9. Frames' \in {Promise!Emptied(Frames), Promise!Emptied(Promise!Outer)}
  <2>1. CASE Blocks' = Blocks
    <3>1. DOMAIN Frames = 1..Len(Blocks')
      BY <1>8, <2>1
    <3>. QED  BY <1>6, <3>1 DEF Promise!Emptied
  <2>2. CASE Len(Blocks) # 0 /\ Len(Blocks') = Len(Blocks) - 1
    <3>1. Frames # <<>>
      BY <1>8, <2>2, EmptySeq
    <3>2. /\ SubSeq(Frames, 1, Len(Frames) - 1) \in Seq(RowSets)
          /\ Len(SubSeq(Frames, 1, Len(Frames) - 1)) = Len(Frames) - 1
      BY <1>8, <3>1, PopKeeps
    <3>3. DOMAIN Promise!Outer = 1..Len(Blocks')
      BY <1>8, <2>2, <3>2 DEF Promise!Outer, Promise!Depth
    <3>. QED  BY <1>6, <3>3 DEF Promise!Emptied
  <2>. QED  BY <1>7, <2>1, <2>2
<1>. QED  BY <1>1, <1>2, <1>9 DEF Promise!Break

----------------------------------------------------------------------------

LEMMA InitPromise == Init => Promise!Init
<1>. SUFFICES ASSUME Init PROVE Promise!Init
  OBVIOUS
<1>1. \A t \in Tasks : ~Busy(t)
  BY DEF Init, Busy, Running
<1>2. Blocks = <<>>
  BY <1>1 DEF Blocks
<1>3. Frames = <<>>
  BY <1>2 DEF Frames
<1>. QED  BY <1>3 DEF Init, Promise!Init, Status

\* Every step is one that NestedTx allows, or one that it does not see.
LEMMA NextPromise ==
    ASSUME Serialised, ~Cancellable
    PROVE  IInv /\ TInv /\ SInv /\ RInv /\ IInv' /\ TInv' /\ RInv' /\ [Next]_vars =>
              [Promise!Next]_<<Frames, Status, durable>>
<1>. SUFFICES ASSUME IInv, TInv, SInv, RInv, IInv', TInv', RInv', [Next]_vars
              PROVE  Promise!Next \/ UNCHANGED <<Frames, Status, durable>>
  OBVIOUS
<1>1. ASSUME NEW t \in Tasks,
             \/ \E i \in Insts : Enter(t, i)
             \/ \E w \in Writes : Write(t, w)
             \/ Exit(t) \/ Raise(t) \/ Catch(t) \/ Resume(t)
      PROVE  UNCHANGED <<Frames, Status, durable>>
  BY <1>1, EnterUnseen, SendUnseen, ResumeUnseen, RaiseUnseen
<1>2. ASSUME NEW t \in Tasks, Cancel(t) PROVE FALSE
  BY <1>2 DEF Cancel
<1>3. ASSUME NEW t \in Tasks, Server(t)
      PROVE  Promise!Next \/ UNCHANGED <<Frames, Status, durable>>
  <2>1. CASE ServeBegin(t) \/ ServeSavepoint(t)
    BY <2>1, ServeBeginStep, ServeSavepointStep DEF Promise!Next
  <2>2. CASE ServeRelease(t) \/ ServeRollbackTo(t)
    BY <2>2, ServeReleaseStep, ServeRollbackToStep DEF Promise!Next
  <2>3. CASE ServeCommit(t) \/ ServeRollback(t)
    BY <2>3, ServeEndStep DEF Promise!Next
  <2>4. CASE ServeWrite(t)
    BY <2>4, ServeWriteStep DEF Promise!Next
  <2>5. CASE ServeDead(t)
    BY <2>5, ServeDeadStep DEF Promise!Next
  <2>. QED  BY <1>3, <2>1, <2>2, <2>3, <2>4, <2>5 DEF Server
<1>4. CASE Lose
  BY <1>4, LoseStep DEF Promise!Next
<1>5. CASE UNCHANGED vars
  <2>1. /\ Frames' = Frames
    <3>1. Blocks' = Blocks
      BY <1>5 DEF vars, Blocks, Seen, Busy, Running
    <3>2. \A j : Base(j)' = Base(j)
      BY <1>5 DEF vars, Base, Defined, Position
    <3>3. Bases' = Bases
      BY <3>1, <3>2, BasesSame
    <3>4. Now' = Now
      BY <1>5 DEF vars, Now
    <3>. QED  BY <3>3, <3>4, MappingTyped, MappingTypedNext
  <2>2. Status' = Status /\ durable' = durable
    BY <1>5 DEF vars, Status
  <2>. QED  BY <2>1, <2>2
<1>. QED
  BY <1>1, <1>2, <1>3, <1>4, <1>5 DEF Next

\* Nested `async with transaction(db)` blocks on a handle that tasks use in turn
\* keep the promise of NestedTx: what a block wrote becomes durable when it and
\* all blocks around it are left cleanly, and vanishes when one is left by an
\* exception, whatever statement fails and whenever the connection breaks.
THEOREM KeepsPromise ==
    ASSUME Serialised, ~Cancellable
    PROVE  Spec => ImplementsNestedTx
<1>1. Init => TInv /\ SInv /\ RInv
  BY InitTInv, InitSInv, InitRInv
<1>2. IInv /\ TInv /\ SInv /\ RInv /\ [Next]_vars => TInv' /\ SInv' /\ RInv'
  BY NextTInv, NextSInv, NextRInv
<1>3. Init => Promise!Init
  BY InitPromise
<1>4. IInv /\ TInv /\ SInv /\ RInv /\ IInv' /\ TInv' /\ RInv' /\ [Next]_vars =>
          [Promise!Next]_<<Frames, Status, durable>>
  BY NextPromise
<1>. QED
  BY <1>1, <1>2, <1>3, <1>4, Invariance, PTL
  DEF Spec, ImplementsNestedTx, Promise!Spec, Promise!vars

=============================================================================
