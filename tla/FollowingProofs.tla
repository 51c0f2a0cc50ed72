--------------------------- MODULE FollowingProofs ---------------------------
(***************************************************************************)
(* Proofs about Following: what is true of the registry stays true while   *)
(* calls follow foreign keys through it, the look-up of a target fails     *)
(* only for a class that is no valid model, and rows go to the objects     *)
(* that ask for them.                                                      *)
(***************************************************************************)
EXTENDS Following, RegistryProofs, FiniteSetTheorems

Stages == {"none", "lookup", "found", "sent", "done", "refused"}

CallRecords ==
    [stage : Stages, many : BOOLEAN, cls : Classes \cup {None}, target : Classes \cup {None},
     read : Seq(Values), now : Seq(Values), answer : Seq(Values), result : Seq(Values)]

CallsTyped ==
    /\ follows \in [Tasks -> CallRecords]
    /\ \A t \in Tasks : Len(follows[t].now) = Len(follows[t].read)

\* Nothing else runs between reading the foreign keys and sending the SELECT.
Alone ==
    /\ \A t, u \in Tasks :
          (follows[t].stage \in Synchronous /\ follows[u].stage \in Synchronous) => t = u
    /\ \A t \in Tasks : follows[t].stage = "lookup" => Idle

\* The class that is followed from has a foreign key to the target.
KeyKnown ==
    \A t \in Tasks : follows[t].stage \in Synchronous =>
        /\ follows[t].cls \in Classes /\ follows[t].target \in Classes
        /\ \E i \in DOMAIN Fields(follows[t].cls) :
              /\ IsFK(Fields(follows[t].cls)[i])
              /\ Target(Fields(follows[t].cls)[i]) = follows[t].target

\* The look-up is under way, or gave the proxy, or the target is no valid model.
LookedUp ==
    \A t \in Tasks : follows[t].stage = "found" =>
        /\ Idle => Usable(t) \/ follows[t].target \notin Valid
        /\ ~Idle => caller.holder = t /\ proxies[caller.proxy].cls = follows[t].target

FInv ==
    /\ IInv
    /\ CallsTyped
    /\ Alone
    /\ KeyKnown
    /\ LookedUp
    /\ TargetAlwaysFound
    /\ ResultsAligned

----------------------------------------------------------------------------
(* The registry.                                                           *)

LEMMA LeaveStep ==
    ASSUME IInv, NEW t \in Holders, Leave(t), UNCHANGED allButHeld
    PROVE  IInv'
<1>1. held' \in [Holders -> SUBSET Proxies] /\ calls' \in 0..MaxCalls
  BY DEF IInv, Shapes, Leave, allButHeld
<1>2. ASSUME NEW g \in Holders, NEW q \in held'[g] PROVE proxies[q] # None
  BY <1>2 DEF IInv, Shapes, ProxiesLive, Leave
<1>. QED  BY <1>1, <1>2, HeldStep DEF allButHeld

LEMMA KeepStep ==
    ASSUME IInv, NEW t \in Holders, NEW h \in Holders, NEW p \in held[h], Keep(t, p),
           UNCHANGED allButHeld
    PROVE  IInv'
<1>1. held' \in [Holders -> SUBSET Proxies] /\ calls' \in 0..MaxCalls
  BY DEF IInv, Shapes, Keep, allButHeld
<1>2. ASSUME NEW g \in Holders, NEW q \in held'[g] PROVE proxies[q] # None
  BY <1>2 DEF IInv, Shapes, ProxiesLive, Keep
<1>. QED  BY <1>1, <1>2, HeldStep DEF allButHeld

LEMMA UnchangedStep == ASSUME IInv, UNCHANGED <<held, allButHeld>> PROVE IInv'
  BY StutterStep DEF allButHeld, registryVars

LEMMA BeginRegistry ==
    ASSUME IInv, NEW t \in Tasks, NEW many, NEW p, NEW i, NEW read, Begin(t, many, p, i, read)
    PROVE  IInv'
<1>1. PICK h \in Holders : p \in held[h]
  BY DEF Begin
<1>2. t \in Holders
  BY TasksAssumption
<1>3. UNCHANGED allButHeld /\ (UNCHANGED held \/ Keep(t, p))
  BY DEF Begin, allButHeld
<1>. QED  BY <1>1, <1>2, <1>3, KeepStep, UnchangedStep

LEMMA LookUpRegistry == ASSUME IInv, KeyKnown, NEW t \in Tasks, LookUp(t) PROVE IInv'
<1>1. t \in Holders /\ follows[t].target \in Classes
  BY TasksAssumption DEF LookUp, KeyKnown, Synchronous
<1>. QED  BY <1>1, TableCachedStep, TableNewStep DEF LookUp

LEMMA FollowRegistry == ASSUME IInv, KeyKnown, NEW t \in Tasks, Follow(t) PROVE IInv'
<1>0. t \in Holders
  BY TasksAssumption
<1>1. ASSUME NEW many, NEW p, NEW i, NEW read, Begin(t, many, p, i, read) PROVE IInv'
  BY <1>1, BeginRegistry
<1>2. CASE LookUp(t)
  BY <1>2, LookUpRegistry
<1>3. CASE Send(t)
  BY <1>3, UnchangedStep DEF Send
<1>4. CASE LookUpRaises(t)
  BY <1>0, <1>4, LeaveStep DEF LookUpRaises
<1>5. ASSUME NEW k, NEW v, Repoint(t, k, v) PROVE IInv'
  BY <1>5, UnchangedStep DEF Repoint
<1>6. ASSUME NEW answer, Return(t, answer) PROVE IInv'
  BY <1>0, <1>6, LeaveStep DEF Return
<1>7. CASE SelectFails(t)
  BY <1>0, <1>7, LeaveStep DEF SelectFails
<1>. QED  BY <1>1, <1>2, <1>3, <1>4, <1>5, <1>6, <1>7 DEF Follow

----------------------------------------------------------------------------
(* Calls.                                                                  *)

LEMMA NoCallTyped == NoCall \in CallRecords /\ NoCall.stage = "none" /\ Len(NoCall.now) = Len(NoCall.read)
  BY DEF NoCall, CallRecords, Stages

LEMMA ReadingsTyped == \A many : \A r \in Readings(many) : r \in Seq(Values)
<1> SUFFICES ASSUME NEW many, NEW r \in Readings(many) PROVE r \in Seq(Values)
  OBVIOUS
<1>1. PICK n \in IF many THEN 1..MaxObjects ELSE {1} : r \in [1..n -> Values]
  BY DEF Readings
<1>2. n \in Nat
  BY ObjectsAssumption
<1>. QED  BY <1>1, <1>2, SeqDef

LEMMA AnswersTyped ==
    ASSUME NEW read \in Seq(Values), NEW a \in Answers(Asked(read))
    PROVE  a \in Seq(Values)
<1> DEFINE asked == Asked(read)
<1>1. IsFiniteSet(asked) /\ asked \subseteq Values
  <2>1. Len(read) \in Nat /\ read \in [1..Len(read) -> Listed(read)]
    BY DEF Listed
  <2>2. IsFiniteSet(1..Len(read))
    BY <2>1, FS_Interval
  <2>3. read \in Surjection(1..Len(read), Listed(read))
    BY <2>1 DEF Surjection, Listed
  <2>4. IsFiniteSet(Listed(read))
    BY <2>2, <2>3, FS_Surjection
  <2>5. asked \in SUBSET Listed(read) /\ Listed(read) \subseteq Values
    BY DEF Asked, Listed
  <2>. QED  BY <2>4, <2>5, FS_Subset
<1>2. Cardinality(asked) \in Nat
  BY <1>1, FS_CardinalityType
<1> HIDE DEF asked
<1>3. PICK n \in 0..Cardinality(asked) : a \in [1..n -> asked]
  BY DEF Answers, asked
<1>4. n \in Nat /\ a \in [1..n -> Values]
  BY <1>1, <1>2, <1>3
<1>. QED  BY <1>4, SeqDef

\* t's record after its step: the others keep theirs.
LEMMA OneCall ==
    ASSUME CallsTyped, NEW t \in Tasks, NEW r \in CallRecords, Len(r.now) = Len(r.read),
           follows' = [follows EXCEPT ![t] = r]
    PROVE  CallsTyped' /\ \A u \in Tasks : follows'[u] = IF u = t THEN r ELSE follows[u]
<1>1. \A u \in Tasks : follows'[u] = IF u = t THEN r ELSE follows[u]
  BY DEF CallsTyped
<1>2. follows' \in [Tasks -> CallRecords]
  BY DEF CallsTyped
<1>. QED  BY <1>1, <1>2 DEF CallsTyped

\* A step that leaves every call at its stage, with what it has.
LEMMA SameCalls ==
    ASSUME FInv, IInv', UNCHANGED follows, LookedUp', Alone'
    PROVE  FInv'
<1>1. CallsTyped'
  BY DEF FInv, CallsTyped
<1>2. KeyKnown' /\ TargetAlwaysFound' /\ ResultsAligned'
  BY DEF FInv, KeyKnown, TargetAlwaysFound, ResultsAligned
<1>. QED  BY <1>1, <1>2 DEF FInv

\* While no call is between its keys and its SELECT, one call moves on.
LEMMA FreeStep ==
    ASSUME FInv, IInv', LoopFree, NEW t \in Tasks, NEW r \in CallRecords,
           follows' = [follows EXCEPT ![t] = r],
           Len(r.now) = Len(r.read), r.stage \notin Synchronous, r.stage # "refused",
           (r.stage = "done" /\ r.many) =>
               /\ DOMAIN r.result = DOMAIN r.now
               /\ \A k \in DOMAIN r.now :
                     /\ r.result[k] \in {None, r.now[k]}
                     /\ (r.now[k] = r.read[k] /\ r.read[k] \in Listed(r.answer)) =>
                           r.result[k] = r.read[k]
    PROVE  FInv'
<1>1. CallsTyped' /\ \A u \in Tasks : follows'[u] = IF u = t THEN r ELSE follows[u]
  BY OneCall DEF FInv
<1>2. \A u \in Tasks : follows'[u].stage \notin Synchronous
  BY <1>1 DEF LoopFree
<1>3. Alone' /\ KeyKnown' /\ LookedUp'
  BY <1>2 DEF Alone, KeyKnown, LookedUp, Synchronous
<1>4. TargetAlwaysFound'
  BY <1>1 DEF FInv, TargetAlwaysFound
<1>5. ResultsAligned'
  BY <1>1 DEF FInv, ResultsAligned
<1>. QED  BY <1>1, <1>3, <1>4, <1>5 DEF FInv

LEMMA RepointStep ==
    ASSUME FInv, IInv', NEW t \in Tasks, NEW k, NEW v \in Values, Repoint(t, k, v)
    PROVE  FInv'
<1> DEFINE call == follows[t]
           now == [call.now EXCEPT ![k] = v]
           r == [call EXCEPT !.now = now]
<1>1. LoopFree /\ call.stage = "sent" /\ k \in DOMAIN call.now /\ follows' = [follows EXCEPT ![t] = r]
  <2>1. follows' = [follows EXCEPT ![t].now[k] = v]
    BY DEF Repoint
  <2>. QED  BY <2>1 DEF Repoint
<1>2. call \in CallRecords /\ call.now \in Seq(Values) /\ Len(call.now) = Len(call.read)
  BY DEF FInv, CallsTyped, CallRecords
<1>3. now \in Seq(Values) /\ Len(now) = Len(call.now)
  BY <1>1, <1>2
<1> HIDE DEF now
<1>4. \A c \in CallRecords : LET x == [c EXCEPT !.now = now]
                             IN  x \in CallRecords /\ x.now = now /\ x.read = c.read /\ x.stage = c.stage
  BY <1>3 DEF CallRecords
<1>5. r \in CallRecords /\ r.now = now /\ r.read = call.read /\ r.stage = "sent"
  BY <1>1, <1>2, <1>4
<1> HIDE DEF r
<1>. QED  BY <1>1, <1>2, <1>3, <1>5, FreeStep DEF Synchronous

LEMMA SelectFailsStep ==
    ASSUME FInv, IInv', NEW t \in Tasks, SelectFails(t)
    PROVE  FInv'
  BY NoCallTyped, FreeStep DEF SelectFails, Synchronous

LEMMA MatchedAligned ==
    ASSUME NEW call \in CallRecords, NEW answer \in Seq(Values), Len(call.now) = Len(call.read)
    PROVE  LET result == Matched(call, answer)
           IN  /\ result \in Seq(Values)
               /\ DOMAIN result = DOMAIN call.now
               /\ \A k \in DOMAIN call.now :
                     /\ result[k] \in {None, call.now[k]}
                     /\ (call.now[k] = call.read[k] /\ call.read[k] \in Listed(answer)) =>
                           result[k] = call.read[k]
<1>1. call.now \in Seq(Values) /\ DOMAIN call.now = 1..Len(call.now) /\ Len(call.now) \in Nat
  BY DEF CallRecords
<1>2. \A k \in DOMAIN call.now : call.now[k] \in Values
  BY <1>1
<1>3. Matched(call, answer) \in [1..Len(call.now) -> Values]
  BY <1>1, <1>2 DEF Matched, Values
<1>4. Matched(call, answer) \in Seq(Values)
  BY <1>1, <1>3, SeqDef
<1>. QED  BY <1>4 DEF Matched

LEMMA ReturnStep ==
    ASSUME FInv, IInv', NEW t \in Tasks, NEW answer \in Answers(Asked(follows[t].read)),
           Return(t, answer)
    PROVE  FInv'
<1> DEFINE call == follows[t]
           result == IF call.many THEN Matched(call, answer) ELSE First(answer)
           r == [call EXCEPT !.stage = "done", !.answer = answer, !.result = result]
<1>1. LoopFree /\ follows' = [follows EXCEPT ![t] = r]
  BY DEF Return
<1>2. call \in CallRecords /\ Len(call.now) = Len(call.read) /\ call.read \in Seq(Values)
  BY DEF FInv, CallsTyped, CallRecords
<1>3. answer \in Seq(Values)
  BY <1>2, AnswersTyped
<1>4. First(answer) \in Seq(Values)
  <2>1. (IF answer = <<>> THEN None ELSE answer[1]) \in Values
    BY <1>3 DEF Values
  <2>. QED  BY <2>1 DEF First
<1>5. result \in Seq(Values)
  BY <1>2, <1>3, <1>4, MatchedAligned
<1>6. call.many => /\ DOMAIN result = DOMAIN call.now
                   /\ \A k \in DOMAIN call.now :
                         /\ result[k] \in {None, call.now[k]}
                         /\ (call.now[k] = call.read[k] /\ call.read[k] \in Listed(answer)) =>
                               result[k] = call.read[k]
  BY <1>2, <1>3, MatchedAligned
<1> HIDE DEF result
<1>7. \A c \in CallRecords :
          LET x == [c EXCEPT !.stage = "done", !.answer = answer, !.result = result]
          IN  /\ x \in CallRecords /\ x.now = c.now /\ x.read = c.read /\ x.many = c.many
              /\ x.stage = "done" /\ x.answer = answer /\ x.result = result
  BY <1>3, <1>5 DEF CallRecords, Stages
<1>8. /\ r \in CallRecords /\ r.now = call.now /\ r.read = call.read /\ r.many = call.many
      /\ r.stage = "done" /\ r.answer = answer /\ r.result = result
  BY <1>2, <1>7
<1> HIDE DEF r, call
<1>. QED  BY <1>1, <1>2, <1>6, <1>8, FreeStep DEF Synchronous, call

LEMMA BeginStep ==
    ASSUME FInv, IInv', NEW t \in Tasks, NEW many \in BOOLEAN, NEW p \in Proxies, proxies[p] # None,
           NEW i \in DOMAIN Fields(proxies[p].cls), NEW read \in Readings(many),
           Begin(t, many, p, i, read)
    PROVE  FInv'
<1> DEFINE c == proxies[p].cls
           d == Target(Fields(c)[i])
           call == [NoCall EXCEPT !.many = many, !.cls = c, !.read = read, !.now = read]
           done == [call EXCEPT !.stage = "done", !.result = read]
           look == [call EXCEPT !.stage = "lookup", !.target = d]
<1>1. /\ LoopFree /\ i \in DOMAIN Fields(c) /\ IsFK(Fields(c)[i])
      /\ follows' = [follows EXCEPT ![t] = done] \/ follows' = [follows EXCEPT ![t] = look]
      /\ UNCHANGED allButHeld
  BY DEF Begin, allButHeld
<1>2. c \in Classes /\ d \in Classes
  <2>1. c \in Classes
    BY DEF FInv, IInv, Shapes, ProxyRecords
  <2> HIDE DEF c
  <2>. QED  BY <1>1, <2>1, TargetsAreClasses
<1>3. read \in Seq(Values)
  BY ReadingsTyped
<1> HIDE DEF c, d
<1>4. /\ call \in CallRecords /\ call.read = read /\ call.now = read /\ call.cls = c
      /\ call.answer = <<>>
  <2>1. \A x \in CallRecords :
            LET y == [x EXCEPT !.many = many, !.cls = c, !.read = read, !.now = read]
            IN  /\ y \in CallRecords /\ y.read = read /\ y.now = read /\ y.cls = c
                /\ y.answer = x.answer
    BY <1>2, <1>3 DEF CallRecords
  <2>2. NoCall.answer = <<>>
    BY DEF NoCall
  <2>. QED  BY <2>1, <2>2, NoCallTyped
<1> HIDE DEF call
<1>5. CASE follows' = [follows EXCEPT ![t] = done]
  <2>1. /\ done \in CallRecords /\ done.read = read /\ done.now = read /\ done.result = read
        /\ done.stage = "done" /\ done.answer = <<>>
    <3>1. \A x \in CallRecords :
              LET y == [x EXCEPT !.stage = "done", !.result = read]
              IN  /\ y \in CallRecords /\ y.read = x.read /\ y.now = x.now /\ y.result = read
                  /\ y.stage = "done" /\ y.answer = x.answer
      BY <1>3 DEF CallRecords, Stages
    <3>. QED  BY <1>4, <3>1
  <2> HIDE DEF done
  <2>. QED  BY <1>1, <1>5, <2>1, FreeStep DEF Synchronous
<1>6. CASE follows' = [follows EXCEPT ![t] = look]
  <2>1. /\ look \in CallRecords /\ look.read = read /\ look.now = read
        /\ look.stage = "lookup" /\ look.cls = c /\ look.target = d
    <3>1. \A x \in CallRecords :
              LET y == [x EXCEPT !.stage = "lookup", !.target = d]
              IN  /\ y \in CallRecords /\ y.read = x.read /\ y.now = x.now
                  /\ y.stage = "lookup" /\ y.cls = x.cls /\ y.target = d
      BY <1>2 DEF CallRecords, Stages
    <3>. QED  BY <1>4, <3>1
  <2> HIDE DEF look
  <2>2. CallsTyped' /\ \A u \in Tasks : follows'[u] = IF u = t THEN look ELSE follows[u]
    BY <1>6, <2>1, OneCall DEF FInv
  <2>3. Idle' /\ \A u \in Tasks : follows[u].stage \notin Synchronous
    BY <1>1 DEF LoopFree, Idle, allButHeld
  <2>4. Alone' /\ LookedUp'
    BY <2>1, <2>2, <2>3 DEF Alone, LookedUp, Synchronous
  <2>5. KeyKnown'
    BY <1>1, <1>2, <2>1, <2>2, <2>3 DEF KeyKnown, d
  <2>6. TargetAlwaysFound' /\ ResultsAligned'
    BY <2>1, <2>2 DEF FInv, TargetAlwaysFound, ResultsAligned
  <2>. QED  BY <2>2, <2>4, <2>5, <2>6 DEF FInv
<1>. QED  BY <1>1, <1>5, <1>6

\* A call between its keys and its SELECT goes on; it is the only one.
LEMMA StageStep ==
    ASSUME FInv, NEW t \in Tasks, NEW stage \in {"found", "sent", "refused"},
           follows[t].stage \in Synchronous,
           follows' = [follows EXCEPT ![t].stage = stage]
    PROVE  /\ CallsTyped' /\ KeyKnown' /\ ResultsAligned'
           /\ follows'[t].stage = stage
           /\ follows'[t].cls = follows[t].cls /\ follows'[t].target = follows[t].target
           /\ \A u \in Tasks : u # t => follows'[u] = follows[u] /\ follows[u].stage \notin Synchronous
<1> DEFINE r == [follows[t] EXCEPT !.stage = stage]
<1>1. follows[t] \in CallRecords /\ Len(follows[t].now) = Len(follows[t].read)
  BY DEF FInv, CallsTyped
<1>2. /\ r \in CallRecords /\ r.now = follows[t].now /\ r.read = follows[t].read
      /\ r.stage = stage /\ r.cls = follows[t].cls /\ r.target = follows[t].target
  <2>1. \A x \in CallRecords :
            LET y == [x EXCEPT !.stage = stage]
            IN  /\ y \in CallRecords /\ y.now = x.now /\ y.read = x.read
                /\ y.stage = stage /\ y.cls = x.cls /\ y.target = x.target
    BY DEF CallRecords, Stages
  <2>. QED  BY <1>1, <2>1
<1>3. follows' = [follows EXCEPT ![t] = r]
  OBVIOUS
<1> HIDE DEF r
<1>4. CallsTyped' /\ \A u \in Tasks : follows'[u] = IF u = t THEN r ELSE follows[u]
  <2>1. CallsTyped /\ r \in CallRecords /\ Len(r.now) = Len(r.read)
    BY <1>1, <1>2 DEF FInv
  <2>. QED  BY <1>3, <2>1, OneCall
<1>5. \A u \in Tasks : u # t => follows[u].stage \notin Synchronous
  BY DEF FInv, Alone
<1>6. KeyKnown'
  BY <1>2, <1>4 DEF FInv, KeyKnown
<1>7. ResultsAligned'
  BY <1>2, <1>4 DEF FInv, ResultsAligned
<1>. QED  BY <1>2, <1>4, <1>5, <1>6, <1>7

LEMMA LookUpStep ==
    ASSUME FInv, IInv', NEW t \in Tasks, LookUp(t)
    PROVE  FInv'
<1> DEFINE d == follows[t].target
<1>1. /\ follows[t].stage = "lookup" /\ Idle
      /\ TableCached(t, d) \/ TableNew(t, d)
      /\ follows' = [follows EXCEPT ![t].stage = "found"]
  BY DEF FInv, Alone, LookUp
<1>2. /\ CallsTyped' /\ KeyKnown' /\ ResultsAligned'
      /\ follows'[t].stage = "found" /\ follows'[t].target = d
      /\ \A u \in Tasks : u # t => follows'[u] = follows[u] /\ follows[u].stage \notin Synchronous
  BY <1>1, StageStep DEF Synchronous
<1>3. t \in Holders /\ d \in Classes
  BY <1>1, TasksAssumption DEF FInv, KeyKnown, Synchronous
<1>4. Alone'
  BY <1>2 DEF Alone, Synchronous
<1>5. TargetAlwaysFound'
  BY <1>2 DEF FInv, TargetAlwaysFound
<1>6. /\ Idle' => Usable(t)' \/ d \notin Valid
      /\ ~Idle' => caller'.holder = t /\ proxies'[caller'.proxy].cls = d
  <2>1. CASE TableCached(t, d)
    <3> DEFINE p == proxyCache[d]
    <3>1. /\ p # None /\ held' = [held EXCEPT ![t] = @ \cup {p}]
          /\ UNCHANGED <<proxies, proxyCache, caller>>
      BY <2>1 DEF TableCached, Keep
    <3>2. p \in Proxies /\ proxies[p] # None /\ proxies[p].cls = d
      BY <1>3, <3>1 DEF FInv, IInv, Shapes, ProxiesLive
    <3>3. p \in held'[t]
      BY <1>3, <3>1 DEF FInv, IInv, Shapes
    <3>4. proxyCache'[follows'[t].target] = p
      BY <1>2, <3>1
    <3>5. proxies[p].meta = None => d \notin Valid
      BY <1>1, <3>2 DEF FInv, IInv, Refused, Complete, Idle
    <3>6. proxies[p].meta # None => Usable(t)'
      BY <3>1, <3>3, <3>4 DEF Usable
    <3>7. Idle'
      BY <1>1, <3>1 DEF Idle
    <3>. QED  BY <3>5, <3>6, <3>7
  <2>2. CASE TableNew(t, d)
    <3> DEFINE q == Fresh(proxies)
               new == [cls |-> d, meta |-> None, alias |-> FALSE]
    <3>1. /\ proxies' = [proxies EXCEPT ![q] = new]
          /\ caller' = [holder |-> t, proxy |-> q]
      BY <2>2 DEF TableNew
    <3>2. q \in Proxies
      BY <2>2, FreshProxy DEF TableNew, FInv, IInv
    <3> HIDE DEF q
    <3>3. proxies'[q] = new /\ caller'.holder = t /\ caller'.proxy = q
      BY <3>1, <3>2 DEF FInv, IInv, Shapes
    <3>4. ~Idle'
      <4>1. caller' \in Callers
        BY <1>3, <3>1, <3>2 DEF Callers
      <4>. QED  BY <4>1, NoneAssumption DEF Idle
    <3>. QED  BY <3>3, <3>4
  <2>. QED  BY <1>1, <2>1, <2>2
<1>7. LookedUp'
  BY <1>2, <1>6 DEF LookedUp, Synchronous
<1>. QED  BY <1>2, <1>4, <1>5, <1>7 DEF FInv

LEMMA SendStep ==
    ASSUME FInv, IInv', NEW t \in Tasks, Send(t)
    PROVE  FInv'
<1>1. /\ follows[t].stage = "found"
      /\ follows' = [follows EXCEPT ![t].stage = "sent"]
  BY DEF Send
<1>2. /\ CallsTyped' /\ KeyKnown' /\ ResultsAligned' /\ follows'[t].stage = "sent"
      /\ \A u \in Tasks : u # t => follows'[u] = follows[u] /\ follows[u].stage \notin Synchronous
  BY <1>1, StageStep DEF Synchronous
<1>3. Alone' /\ LookedUp'
  BY <1>2 DEF Alone, LookedUp, Synchronous
<1>4. TargetAlwaysFound'
  BY <1>2 DEF FInv, TargetAlwaysFound
<1>. QED  BY <1>2, <1>3, <1>4 DEF FInv

LEMMA LookUpRaisesStep ==
    ASSUME FInv, IInv', NEW t \in Tasks, LookUpRaises(t)
    PROVE  FInv'
<1>1. /\ follows[t].stage = "found" /\ Idle /\ ~Usable(t)
      /\ follows' = [follows EXCEPT ![t].stage = "refused"]
  BY DEF LookUpRaises
<1>2. /\ CallsTyped' /\ KeyKnown' /\ ResultsAligned' /\ follows'[t].stage = "refused"
      /\ follows'[t].cls = follows[t].cls
      /\ \A u \in Tasks : u # t => follows'[u] = follows[u] /\ follows[u].stage \notin Synchronous
  BY <1>1, StageStep DEF Synchronous
<1>3. Alone' /\ LookedUp'
  BY <1>2 DEF Alone, LookedUp, Synchronous
<1>4. follows[t].cls \notin Valid
  <2>1. follows[t].target \notin Valid
    BY <1>1 DEF FInv, LookedUp
  <2>2. PICK i \in DOMAIN Fields(follows[t].cls) :
            /\ IsFK(Fields(follows[t].cls)[i])
            /\ Target(Fields(follows[t].cls)[i]) = follows[t].target
    BY <1>1 DEF FInv, KeyKnown, Synchronous
  <2>. QED  BY <2>1, <2>2, ValidConsistent DEF Consistent
<1>5. TargetAlwaysFound'
  BY <1>2, <1>4 DEF FInv, TargetAlwaysFound
<1>. QED  BY <1>2, <1>3, <1>5 DEF FInv

LEMMA FollowStep == ASSUME FInv, NEW t \in Tasks, Follow(t) PROVE FInv'
<1>1. IInv'
  BY FollowRegistry DEF FInv
<1>2. ASSUME NEW many \in BOOLEAN, NEW p \in Proxies, proxies[p] # None,
             NEW i \in DOMAIN Fields(proxies[p].cls), NEW read \in Readings(many),
             Begin(t, many, p, i, read)
      PROVE  FInv'
  BY <1>1, <1>2, BeginStep
<1>3. ASSUME NEW k \in 1..MaxObjects, NEW v \in Values, Repoint(t, k, v) PROVE FInv'
  BY <1>1, <1>3, RepointStep
<1>4. ASSUME NEW answer \in Answers(Asked(follows[t].read)), Return(t, answer) PROVE FInv'
  BY <1>1, <1>4, ReturnStep
<1>5. (LookUp(t) \/ Send(t) \/ LookUpRaises(t) \/ SelectFails(t)) => FInv'
  BY <1>1, LookUpStep, SendStep, LookUpRaisesStep, SelectFailsStep
<1>. QED  BY <1>2, <1>3, <1>4, <1>5 DEF Follow

LEMMA SettleStep ==
    ASSUME FInv, IInv', LoopFree, follows' = Settled
    PROVE  FInv'
<1>1. \A u \in Tasks : /\ follows'[u] = NoCall \/ follows'[u] = follows[u]
                       /\ follows[u].stage \in {"done", "refused"} => follows'[u] = NoCall
  BY DEF Settled
<1>2. \A u \in Tasks : follows'[u].stage \notin Synchronous \cup {"done", "refused"}
  BY <1>1, NoCallTyped DEF LoopFree, Synchronous
<1>3. CallsTyped'
  <2>1. \A u \in Tasks : follows'[u] \in CallRecords /\ Len(follows'[u].now) = Len(follows'[u].read)
    BY <1>1, NoCallTyped DEF FInv, CallsTyped
  <2>2. follows' = [u \in Tasks |-> follows'[u]]
    BY DEF Settled
  <2>. QED  BY <2>1, <2>2 DEF CallsTyped
<1>4. Alone' /\ KeyKnown' /\ LookedUp'
  BY <1>2 DEF Alone, KeyKnown, LookedUp, Synchronous
<1>5. TargetAlwaysFound' /\ ResultsAligned'
  BY <1>2 DEF TargetAlwaysFound, ResultsAligned
<1>. QED  BY <1>3, <1>4, <1>5 DEF FInv

LEMMA ConstructBusy == ASSUME IInv, Construct PROVE ~Idle
<1> SUFFICES ASSUME Idle PROVE FALSE
  OBVIOUS
<1>1. signal.kind = "none" /\ stack = <<>>
  BY SignalTypes DEF IInv, SignalSent, Wanted, Linked
<1>. QED  BY <1>1 DEF Construct, Deliver, Fail, Hit, Introspect, NextField, CheckTarget, Build,
                      Evict, Validating

LEMMA FollowConstructStep == ASSUME FInv, Construct, UNCHANGED follows PROVE FInv'
<1>1. IInv' /\ ~Idle
  BY ConstructStep, ConstructBusy DEF FInv
<1>2. Alone'
  BY <1>1 DEF FInv, Alone
<1>3. ASSUME NEW t \in Tasks, follows[t].stage = "found"
      PROVE  /\ Idle' => Usable(t)' \/ follows[t].target \notin Valid
             /\ ~Idle' => caller'.holder = t /\ proxies'[caller'.proxy].cls = follows[t].target
  <2> DEFINE d == follows[t].target
             q == caller.proxy
  <2>1. caller.holder = t /\ proxies[q].cls = d /\ d \in Classes
    BY <1>1, <1>3 DEF FInv, LookedUp, KeyKnown, Synchronous
  <2>2. q \in Proxies /\ t \in Holders /\ proxies[q] # None /\ ~proxies[q].alias
    BY <1>1, <2>1, CallerTypes DEF FInv, IInv, ProxiesLive
  <2>3. CASE Deliver
    <3>1. /\ stack = <<>> /\ signal.kind = "return"
          /\ proxies' = [proxies EXCEPT ![q].meta = signal.of]
          /\ held' = [held EXCEPT ![t] = @ \cup {q}]
          /\ UNCHANGED proxyCache /\ caller' = None
      BY <2>1, <2>3 DEF Deliver, Keep
    <3>2. proxyCache'[d] = q /\ q # None
      BY <2>1, <2>2, <3>1, PlacesAssumption DEF FInv, IInv, Singletons
    <3>3. q \in held'[t]
      BY <2>2, <3>1 DEF FInv, IInv, Shapes
    <3>4. proxies'[q].meta # None
      <4>1. proxies[q] \in ProxyRecords /\ signal.of # None
        BY <2>2, <3>1, SignalTypes, PlacesAssumption DEF FInv, IInv, Shapes
      <4>2. \A r \in ProxyRecords : [r EXCEPT !.meta = signal.of].meta = signal.of
        BY DEF ProxyRecords
      <4>3. proxies'[q] = [proxies[q] EXCEPT !.meta = signal.of]
        BY <2>2, <3>1 DEF FInv, IInv, Shapes
      <4>. QED  BY <4>1, <4>2, <4>3
    <3>5. follows'[t].target = d
      OBVIOUS
    <3>6. Usable(t)'
      BY <3>2, <3>3, <3>4, <3>5 DEF Usable
    <3>. QED  BY <3>1, <3>6 DEF Idle
  <2>4. CASE Fail
    BY <2>1, <2>4 DEF Fail, FInv, IInv, SignalSent, Idle
  <2>5. CASE ~Deliver /\ ~Fail
    <3>1. UNCHANGED <<caller, proxies>>
      BY <2>5 DEF Construct, Hit, Introspect, NextField, CheckTarget, Build, Evict
    <3>. QED  BY <1>1, <2>1, <3>1 DEF Idle
  <2>. QED  BY <2>3, <2>4, <2>5
<1>4. LookedUp'
  BY <1>3 DEF LookedUp
<1>. QED  BY <1>1, <1>2, <1>4, SameCalls

LEMMA FollowCollectStep == ASSUME FInv, Collect, UNCHANGED follows PROVE FInv'
<1>1. IInv'
  BY CollectStep DEF FInv
<1>2. UNCHANGED <<caller, held>>
  BY DEF Collect, CollectMeta, CollectProxy
<1>3. Alone'
  BY <1>2 DEF FInv, Alone, Idle
<1>4. \A p \in ReferredProxies \cap Proxies :
          /\ proxies'[p] = proxies[p]
          /\ \A c \in Classes : proxyCache[c] = p => proxyCache'[c] = p
  <2>1. ASSUME NEW m \in Metas, CollectMeta(m) PROVE UNCHANGED <<proxies, proxyCache>>
    BY <2>1 DEF CollectMeta
  <2>2. ASSUME NEW x \in Proxies, CollectProxy(x), NEW p \in ReferredProxies \cap Proxies
        PROVE  /\ proxies'[p] = proxies[p]
               /\ \A c \in Classes : proxyCache[c] = p => proxyCache'[c] = p
    BY <2>2 DEF CollectProxy, Without, FInv, IInv, Shapes
  <2>. QED  BY <2>1, <2>2 DEF Collect
<1>5. ASSUME NEW t \in Tasks, follows[t].stage = "found"
      PROVE  /\ Idle' => Usable(t)' \/ follows[t].target \notin Valid
             /\ ~Idle' => caller'.holder = t /\ proxies'[caller'.proxy].cls = follows[t].target
  <2> DEFINE d == follows[t].target
  <2>1. d \in Classes /\ t \in Holders
    BY <1>5, TasksAssumption DEF FInv, KeyKnown, Synchronous
  <2>2. CASE Idle
    <3> SUFFICES ASSUME d \in Valid PROVE Idle' /\ Usable(t)'
      BY <1>2, <2>2 DEF Idle
    <3> DEFINE p == proxyCache[d]
    <3>1. p # None /\ p \in held[t] /\ proxies[p].meta # None
      BY <1>5, <2>2 DEF FInv, LookedUp, Usable
    <3>2. p \in ReferredProxies \cap Proxies
      BY <2>1, <3>1 DEF ReferredProxies, FInv, IInv, Shapes
    <3>3. proxies'[p] = proxies[p] /\ proxyCache'[d] = p /\ held' = held /\ follows'[t].target = d
      BY <1>2, <1>4, <2>1, <3>2
    <3>4. Idle'
      BY <1>2, <2>2 DEF Idle
    <3>. QED  BY <3>1, <3>3, <3>4 DEF Usable
  <2>3. CASE ~Idle
    <3>1. caller.holder = t /\ proxies[caller.proxy].cls = d
      BY <1>5, <2>3 DEF FInv, LookedUp
    <3>2. caller.proxy \in Proxies
      BY <2>3, CallerTypes DEF FInv
    <3>3. caller.proxy \in {x \in Proxies : ~Idle /\ x = caller.proxy}
      BY <2>3, <3>2
    <3>4. caller.proxy \in ReferredProxies \cap Proxies
      BY <3>3 DEF ReferredProxies
    <3>. QED  BY <1>2, <1>4, <2>3, <3>1, <3>4 DEF Idle
  <2>. QED  BY <2>2, <2>3
<1>6. LookedUp'
  BY <1>5 DEF LookedUp
<1>. QED  BY <1>1, <1>3, <1>6, SameCalls

LEMMA FollowStutterStep == ASSUME FInv, UNCHANGED followingVars PROVE FInv'
<1>1. IInv' /\ UNCHANGED follows
  BY StutterStep DEF FInv, followingVars
<1>2. UNCHANGED <<caller, proxies, proxyCache, held>>
  BY DEF followingVars, registryVars
<1>3. Alone' /\ LookedUp'
  BY <1>1, <1>2 DEF FInv, Alone, LookedUp, Usable, Idle
<1>. QED  BY <1>1, <1>3, SameCalls

LEMMA FollowNextInv == ASSUME FInv, [FollowingNext]_followingVars PROVE FInv'
<1>1. ASSUME NEW h \in Holders, LoopFree, Program(h), follows' = Settled PROVE FInv'
  BY <1>1, ProgramStep, SettleStep DEF FInv
<1>. QED  BY <1>1, FollowStep, FollowConstructStep, FollowCollectStep, FollowStutterStep
          DEF FollowingNext

LEMMA FollowInitInv == FollowingInit => FInv
<1> SUFFICES ASSUME FollowingInit PROVE FInv
  OBVIOUS
<1>1. \A t \in Tasks : follows[t] = NoCall
  BY DEF FollowingInit
<1>2. CallsTyped
  BY <1>1, NoCallTyped DEF FollowingInit, CallsTyped
<1>3. \A t \in Tasks : follows[t].stage = "none"
  BY <1>1, NoCallTyped
<1>4. Alone /\ KeyKnown /\ LookedUp /\ TargetAlwaysFound /\ ResultsAligned
  BY <1>3 DEF Alone, KeyKnown, LookedUp, TargetAlwaysFound, ResultsAligned, Synchronous
<1>. QED  BY <1>2, <1>4, InitInv DEF FollowingInit, FInv

LEMMA InvFollowTypes == ASSUME FInv PROVE FollowingTypeOK
<1>1. RegistryTypeOK
  BY InvTypes DEF FInv
<1>2. ASSUME NEW t \in Tasks
      PROVE  /\ follows[t].stage \in Stages
             /\ follows[t].many \in BOOLEAN
             /\ {follows[t].cls, follows[t].target} \subseteq Classes \cup {None}
             /\ Listed(follows[t].read) \cup Listed(follows[t].now) \subseteq Values
             /\ Listed(follows[t].answer) \cup Listed(follows[t].result) \subseteq Values
             /\ DOMAIN follows[t].now = DOMAIN follows[t].read
  <2>1. follows[t] \in CallRecords /\ Len(follows[t].now) = Len(follows[t].read)
    BY DEF FInv, CallsTyped
  <2>2. \A s \in Seq(Values) : Listed(s) \subseteq Values /\ DOMAIN s = 1..Len(s)
    BY DEF Listed
  <2>. QED  BY <2>1, <2>2 DEF CallRecords
<1>. QED  BY <1>1, <1>2 DEF FollowingTypeOK, Stages

LEMMA FollowSpecInv == FollowingSpec => []FInv
<1>1. FInv /\ [FollowingNext]_followingVars => FInv'
  BY FollowNextInv
<1>. QED  BY FollowInitInv, <1>1, PTL DEF FollowingSpec

\* The types are right while calls follow foreign keys.
THEOREM FollowTypes == FollowingSpec => []FollowingTypeOK
  BY FollowSpecInv, InvFollowTypes, PTL

\* follow_many gives each object the row of its own foreign key, or None.
THEOREM RowsAligned == FollowingSpec => []ResultsAligned
<1>1. FInv => ResultsAligned
  BY DEF FInv
<1>. QED  BY <1>1, FollowSpecInv, PTL

\* From an object of a valid model the target's table is always found, for any
\* classes and whatever happened to others.
THEOREM TargetFound == FollowingSpec => []TargetAlwaysFound
<1>1. FInv => TargetAlwaysFound
  BY DEF FInv
<1>. QED  BY <1>1, FollowSpecInv, PTL

\* Following foreign keys leaves the registry's own properties as they are.
THEOREM RegistryUndisturbed ==
    FollowingSpec => [](/\ EveryCachedInitialised
                        /\ OnePerClass
                        /\ ValidNeverRefused
                        /\ InvalidNeverUsable
                        /\ NoRecursion)
<1>1. FInv => IInv
  BY DEF FInv
<1>. QED  BY <1>1, FollowSpecInv, InvInitialised, InvOnePerClass, InvNeverRefused,
             InvNeverUsable, InvNoRecursion, PTL

=============================================================================
