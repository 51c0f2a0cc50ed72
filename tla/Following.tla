------------------------------ MODULE Following ------------------------------
(***************************************************************************)
(* Loading what foreign keys point to (get, follow and follow_many of      *)
(* src/cygnet/__init__.py) on top of the registry.  A call reads the       *)
(* foreign keys of its objects, looks the target's table up, sends one     *)
(* SELECT and awaits it; meanwhile other tasks re-point the objects, make  *)
(* tables and drop them.  follow answers with the row it asked for,        *)
(* follow_many reads the foreign keys a second time.                       *)
(*                                                                         *)
(* What a call refuses (no column proxy, an object of another class, a     *)
(* column that is no foreign key) it refuses before it does anything: such *)
(* calls are left out.  A row is known by its key.                         *)
(***************************************************************************)
EXTENDS Registry

CONSTANTS
    Tasks,      \* tasks that follow foreign keys: holders, while they do
    Keys,       \* values of foreign keys
    MaxObjects  \* bound: objects given to follow_many

ASSUME TasksAssumption == Tasks \subseteq Holders
ASSUME KeysAssumption == None \notin Keys
ASSUME ObjectsAssumption == MaxObjects \in Nat \ {0}

VARIABLE
    follows     \* follows[t]: the call of t, under way or its last

followingVars == <<registryVars, follows>>

NoCall == [stage |-> "none", many |-> FALSE, cls |-> None, target |-> None,
           read |-> <<>>, now |-> <<>>, answer |-> <<>>, result |-> <<>>]

FollowingInit == RegistryInit /\ follows = [t \in Tasks |-> NoCall]

\* No await separates reading the foreign keys from sending the SELECT.
Synchronous == {"lookup", "found"}
LoopFree == Idle /\ \A t \in Tasks : follows[t].stage \notin Synchronous

Pending == Synchronous \cup {"sent"}

Values == Keys \cup {None}
Readings(many) == UNION {[1..n -> Values] : n \in IF many THEN 1..MaxObjects ELSE {1}}
Listed(s) == {s[k] : k \in DOMAIN s}
Asked(read) == Listed(read) \ {None}

\* The rows of some of the keys asked for, each once, in any order.
Answers(asked) ==
    {a \in UNION {[1..n -> asked] : n \in 0..Cardinality(asked)} :
        \A j, k \in DOMAIN a : a[j] = a[k] => j = k}

----------------------------------------------------------------------------

\* follow(obj, T.col) and follow_many(objs, T.col) up to the target's look-up;
\* with no key to ask for they return at once.
Begin(t, many, p, i, read) ==
    /\ LoopFree /\ calls > 0 /\ Room(proxies)
    /\ \E h \in Holders \ Tasks : p \in held[h]
    /\ proxies[p].meta # None
    /\ LET c == proxies[p].cls
           call == [NoCall EXCEPT !.many = many, !.cls = c, !.read = read, !.now = read]
       IN  /\ i \in DOMAIN Fields(c) /\ IsFK(Fields(c)[i])
           /\ \/ /\ Asked(read) = {}
                 /\ follows' = [follows EXCEPT ![t] = [call EXCEPT !.stage = "done", !.result = read]]
                 /\ UNCHANGED held
              \/ /\ Asked(read) # {}
                 /\ follows' = [follows EXCEPT ![t] =
                       [call EXCEPT !.stage = "lookup", !.target = Target(Fields(c)[i])]]
                 /\ Keep(t, p)
    /\ UNCHANGED <<metas, cache, proxies, proxyCache, stack, signal, caller, calls>>

\* TableProxy(field.foreign_key.target).
LookUp(t) ==
    /\ follows[t].stage = "lookup"
    /\ TableCached(t, follows[t].target) \/ TableNew(t, follows[t].target)
    /\ follows' = [follows EXCEPT ![t].stage = "found"]

\* The look-up gave a proxy, and its TableMeta has a key.
Usable(t) ==
    LET p == proxyCache[follows[t].target]
    IN  p # None /\ p \in held[t] /\ proxies[p].meta # None

Leave(t) == held' = [held EXCEPT ![t] = {}]
allButHeld == <<metas, cache, proxies, proxyCache, stack, signal, caller, calls>>

Send(t) ==
    /\ follows[t].stage = "found" /\ Idle
    /\ Usable(t)
    /\ follows' = [follows EXCEPT ![t].stage = "sent"]
    /\ UNCHANGED <<held, allButHeld>>

\* The look-up raised, or gave a half-built proxy, which has no _meta.
LookUpRaises(t) ==
    /\ follows[t].stage = "found" /\ Idle
    /\ ~Usable(t)
    /\ follows' = [follows EXCEPT ![t].stage = "refused"]
    /\ Leave(t)
    /\ UNCHANGED allButHeld

\* Another task assigns to the foreign key of an object of an awaiting call.
Repoint(t, k, v) ==
    /\ LoopFree
    /\ follows[t].stage = "sent"
    /\ k \in DOMAIN follows[t].now
    /\ follows' = [follows EXCEPT ![t].now[k] = v]
    /\ UNCHANGED <<held, allButHeld>>

\* Mutant of Matched: rows are matched with the keys read before the SELECT.
MatchedAsRead(call, answer) ==
    [k \in DOMAIN call.now |-> IF call.read[k] \in Listed(answer) THEN call.read[k] ELSE None]

\* Mutant of Matched: rows are matched with objects by position.
MatchedByPosition(call, answer) ==
    [k \in DOMAIN call.now |-> IF k \in DOMAIN answer THEN answer[k] ELSE None]

\* by_pk.get(getattr(obj, fk_attr)) for each object.
Matched(call, answer) ==
    [k \in DOMAIN call.now |-> IF call.now[k] \in Listed(answer) THEN call.now[k] ELSE None]

\* get: results[0] if results else None.
First(answer) == <<IF answer = <<>> THEN None ELSE answer[1]>>

Return(t, answer) ==
    /\ LoopFree
    /\ follows[t].stage = "sent"
    /\ LET call == follows[t]
           result == IF call.many THEN Matched(call, answer) ELSE First(answer)
       IN  follows' = [follows EXCEPT ![t] =
               [call EXCEPT !.stage = "done", !.answer = answer, !.result = result]]
    /\ Leave(t)
    /\ UNCHANGED allButHeld

SelectFails(t) ==
    /\ LoopFree
    /\ follows[t].stage = "sent"
    /\ follows' = [follows EXCEPT ![t] = NoCall]
    /\ Leave(t)
    /\ UNCHANGED allButHeld

----------------------------------------------------------------------------

Follow(t) ==
    \/ \E many \in BOOLEAN, p \in Proxies :
          /\ proxies[p] # None /\ follows[t].stage \notin Pending
          /\ \E i \in DOMAIN Fields(proxies[p].cls), read \in Readings(many) :
                Begin(t, many, p, i, read)
    \/ LookUp(t)
    \/ Send(t)
    \/ LookUpRaises(t)
    \/ \E k \in 1..MaxObjects, v \in Values : Repoint(t, k, v)
    \/ \E answer \in Answers(Asked(follows[t].read)) : Return(t, answer)
    \/ SelectFails(t)

\* What a call returned is looked at before the program goes on.
Settled ==
    [t \in Tasks |-> IF follows[t].stage \in {"done", "refused"} THEN NoCall ELSE follows[t]]

FollowingNext ==
    \/ \E t \in Tasks : Follow(t)
    \/ \E h \in Holders \ Tasks : LoopFree /\ Program(h) /\ follows' = Settled
    \/ (Construct \/ Collect) /\ UNCHANGED follows

FollowingSpec == FollowingInit /\ [][FollowingNext]_followingVars /\ WF_registryVars(Construct)

----------------------------------------------------------------------------

\* The type invariant, the registry's included.
FollowingTypeOK ==
    /\ RegistryTypeOK
    /\ \A t \in Tasks :
          /\ follows[t].stage \in {"none", "lookup", "found", "sent", "done", "refused"}
          /\ follows[t].many \in BOOLEAN
          /\ {follows[t].cls, follows[t].target} \subseteq Classes \cup {None}
          /\ Listed(follows[t].read) \cup Listed(follows[t].now) \subseteq Values
          /\ Listed(follows[t].answer) \cup Listed(follows[t].result) \subseteq Values
          /\ DOMAIN follows[t].now = DOMAIN follows[t].read

\* "Element i of the result is the object objs[i]'s foreign key points to", as it
\* is when follow_many returns: whatever order the rows come in, whichever are
\* missing and whoever re-points objects while the SELECT is awaited, no object
\* gets the row of another or of the key it had before, and one left alone gets
\* its row if the database returned it.
ResultsAligned ==
    \A t \in Tasks : (follows[t].stage = "done" /\ follows[t].many) =>
        LET call == follows[t]
        IN  /\ DOMAIN call.result = DOMAIN call.now
            /\ \A k \in DOMAIN call.now :
                  /\ call.result[k] \in {None, call.now[k]}
                  /\ (call.now[k] = call.read[k] /\ call.read[k] \in Listed(call.answer)) =>
                        call.result[k] = call.read[k]

\* "FK validation in _introspect() guarantees the target has a PK": through a
\* proxy of a valid class the look-up of the target succeeds, whatever other
\* classes failed before and whatever was collected meanwhile.
TargetAlwaysFound ==
    \A t \in Tasks : follows[t].stage = "refused" => follows[t].cls \notin Valid

=============================================================================
