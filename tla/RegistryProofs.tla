--------------------------- MODULE RegistryProofs ---------------------------
(***************************************************************************)
(* Proofs about Registry, for any classes and any order of calls, failures *)
(* and collections.  The invariant says what the TableMeta.__init__ calls  *)
(* under way know: each has its own entry, not yet built, each but the     *)
(* first was asked for by the foreign key at which the one before stands,  *)
(* and a class whose exception is on its way is no valid model.            *)
(***************************************************************************)
EXTENDS Registry, SequenceTheorems, TLAPS

Shapes ==
    /\ metas \in [Metas -> MetaRecords \cup {None}]
    /\ cache \in [Classes -> Metas \cup {None}]
    /\ proxies \in [Proxies -> ProxyRecords \cup {None}]
    /\ proxyCache \in [Classes -> Proxies \cup {None}]
    /\ held \in [Holders -> SUBSET Proxies]
    /\ stack \in Seq(Frames)
    /\ signal \in Signals
    /\ caller \in Callers \cup {None}
    /\ calls \in 0..MaxCalls

\* Proxies: what is referred to is there, the entry of a class is its proxy.
ProxiesLive ==
    /\ \A h \in Holders : \A p \in held[h] : proxies[p] # None
    /\ ~Idle => proxies[caller.proxy] # None /\ ~proxies[caller.proxy].alias
    /\ \A c \in Classes : proxyCache[c] # None =>
          proxies[proxyCache[c]] # None /\ proxies[proxyCache[c]].cls = c

Singletons ==
    \A p \in Proxies :
        (proxies[p] # None /\ ~proxies[p].alias) => proxyCache[proxies[p].cls] = p

\* The TableMeta of a proxy is built, and is what a look-up finds.
Shared ==
    \A p \in Proxies : (proxies[p] # None /\ proxies[p].meta # None) =>
        /\ metas[proxies[p].meta] # None
        /\ metas[proxies[p].meta].cls = proxies[p].cls
        /\ metas[proxies[p].meta].built /\ metas[proxies[p].meta].ready
        /\ cache[proxies[p].cls] = proxies[p].meta

OnStack(m) == \E i \in 1..Len(stack) : stack[i].meta = m

Entries ==
    \A c \in Classes : cache[c] # None =>
        /\ metas[cache[c]] # None
        /\ metas[cache[c]].cls = c
        /\ (metas[cache[c]].built /\ metas[cache[c]].ready) \/ OnStack(cache[c])

ClassAt(i) == metas[stack[i].meta].cls
FieldAt(i) == Fields(ClassAt(i))[stack[i].done + 1]

\* Call i stands at a foreign key.
Waits(i) == stack[i].done < Len(Fields(ClassAt(i))) /\ IsFK(FieldAt(i))

Stacked ==
    \A i \in 1..Len(stack) :
        /\ metas[stack[i].meta] # None
        /\ ~metas[stack[i].meta].built
        /\ cache[ClassAt(i)] = stack[i].meta
        /\ metas[stack[i].meta].ready \/ (i = Len(stack) /\ signal = Raising)
        /\ metas[stack[i].meta].ready => Structured(ClassAt(i))
        /\ stack[i].done <= Len(Fields(ClassAt(i)))

Distinct == \A i, j \in 1..Len(stack) : stack[i].meta = stack[j].meta => i = j

Linked ==
    /\ stack # <<>> => ~Idle /\ ClassAt(1) = proxies[caller.proxy].cls
    /\ \A i \in 1..Len(stack) - 1 : Waits(i) /\ Target(FieldAt(i)) = ClassAt(i+1)

\* The class that is asked for, or whose TableMeta is returned.
Wanted(c) ==
    /\ ~Idle
    /\ stack = <<>> => c = proxies[caller.proxy].cls
    /\ stack # <<>> => Waits(Len(stack)) /\ c = Target(FieldAt(Len(stack)))

SignalSent ==
    /\ signal.kind = "ask" => Wanted(signal.of)
    /\ signal.kind = "return" =>
          /\ metas[signal.of] # None
          /\ metas[signal.of].ready
          /\ metas[signal.of].built \/ OnStack(signal.of)
          /\ cache[metas[signal.of].cls] = signal.of
          /\ Wanted(metas[signal.of].cls)
    /\ signal.kind = "raise" =>
          /\ ~Idle
          /\ stack = <<>> => proxies[caller.proxy].cls \notin Valid
          /\ stack # <<>> => ClassAt(Len(stack)) \notin Valid
    /\ signal.kind = "none" => (Idle <=> stack = <<>>)

\* Every check that a call has made holds, and its class is valid as far as it
\* can be told: on a cycle, the target may still be refused.
Sound(c, k) ==
    IsFK(Fields(c)[k]) =>
        /\ Matches(Fields(c)[k])
        /\ c \in Acyclic => Target(Fields(c)[k]) \in Valid \cup {c}

FieldsChecked == \A i \in 1..Len(stack) : \A k \in 1..stack[i].done : Sound(ClassAt(i), k)

BuiltValid ==
    \A m \in Metas :
        (metas[m] # None /\ metas[m].built /\ metas[m].cls \in Acyclic) => metas[m].cls \in Valid

Refused ==
    \A p \in Proxies :
        (proxies[p] # None /\ Complete(p) /\ proxies[p].meta = None) => proxies[p].cls \notin Valid

IInv ==
    /\ Shapes
    /\ ProxiesLive
    /\ Singletons
    /\ Shared
    /\ Entries
    /\ Stacked
    /\ Distinct
    /\ Linked
    /\ SignalSent
    /\ FieldsChecked
    /\ BuiltValid
    /\ Refused

----------------------------------------------------------------------------
(* Classes.                                                                *)

LEMMA TargetsAreClasses ==
    ASSUME NEW c \in Classes, NEW k \in DOMAIN Fields(c), IsFK(Fields(c)[k])
    PROVE  Target(Fields(c)[k]) \in Classes
  BY ModelAssumption DEF Fields, IsFK, Target

LEMMA FieldsCount ==
    ASSUME NEW c \in Classes
    PROVE  Len(Fields(c)) \in Nat /\ DOMAIN Fields(c) = 1..Len(Fields(c))
  BY ModelAssumption DEF Fields

LEMMA ValidConsistent == Valid \subseteq Classes /\ Consistent(Valid)
<1>1. \A S \in SUBSET Classes : Consistent(S) => S \subseteq Valid
  BY DEF Valid
<1>2. \A c \in Valid : \E S \in SUBSET Classes : Consistent(S) /\ c \in S
  <2> SUFFICES ASSUME NEW c \in Valid PROVE \E S \in SUBSET Classes : Consistent(S) /\ c \in S
    OBVIOUS
  <2>1. PICK S \in SUBSET Classes : c \in IF Consistent(S) THEN S ELSE {}
    BY DEF Valid
  <2>. QED  BY <2>1
<1>3. ASSUME NEW c \in Valid
      PROVE  /\ Structured(c)
             /\ \A i \in DOMAIN Fields(c) : IsFK(Fields(c)[i]) =>
                   Target(Fields(c)[i]) \in Valid /\ Matches(Fields(c)[i])
  <2>1. PICK S \in SUBSET Classes : Consistent(S) /\ c \in S
    BY <1>2
  <2>. QED  BY <1>1, <2>1 DEF Consistent
<1>. QED  BY <1>2, <1>3 DEF Consistent

LEMMA ValidGrows ==
    ASSUME NEW c \in Classes, Structured(c),
           \A k \in DOMAIN Fields(c) : IsFK(Fields(c)[k]) =>
               Matches(Fields(c)[k]) /\ Target(Fields(c)[k]) \in Valid \cup {c}
    PROVE  c \in Valid
<1> DEFINE S == Valid \cup {c}
<1>1. S \in SUBSET Classes
  BY ValidConsistent
<1>2. Consistent(S)
  BY ValidConsistent DEF Consistent
<1>3. \A T \in SUBSET Classes : Consistent(T) => T \subseteq Valid
  BY DEF Valid
<1>. QED  BY <1>1, <1>2, <1>3

LEMMA AcyclicClosed == Closed(Acyclic)
<1> SUFFICES ASSUME NEW c \in Classes,
                    \A i \in DOMAIN Fields(c) :
                        IsFK(Fields(c)[i]) => Target(Fields(c)[i]) \in Acyclic \cup {c},
                    NEW S \in SUBSET Classes, Closed(S)
             PROVE  c \in S
  BY DEF Closed, Acyclic
<1>1. Acyclic \subseteq S
  BY DEF Acyclic
<1>. QED  BY <1>1 DEF Closed

\* Whatever leads out of Acyclic leads into it.
LEMMA AcyclicTargets ==
    ASSUME NEW c \in Acyclic, NEW k \in DOMAIN Fields(c), IsFK(Fields(c)[k])
    PROVE  Target(Fields(c)[k]) \in Acyclic \cup {c}
<1> SUFFICES ASSUME Target(Fields(c)[k]) \notin Acyclic \cup {c} PROVE FALSE
  OBVIOUS
<1> DEFINE S == Acyclic \ {c}
<1>1. S \in SUBSET Classes
  BY DEF Acyclic
<1>2. Closed(S)
  <2> SUFFICES ASSUME NEW x \in Classes,
                      \A i \in DOMAIN Fields(x) :
                          IsFK(Fields(x)[i]) => Target(Fields(x)[i]) \in S \cup {x}
               PROVE  x \in S
    BY DEF Closed
  <2>1. x \in Acyclic
    BY AcyclicClosed DEF Closed
  <2>2. x # c
    OBVIOUS
  <2>. QED  BY <2>1, <2>2
<1>. QED  BY <1>1, <1>2 DEF Acyclic

\* A chain of calls, from the innermost of which a foreign key leads back into it.
LEMMA CycleNotAcyclic ==
    ASSUME NEW n \in Nat, NEW C, NEW j \in 1..n, j # n,
           \A i \in 1..n : C[i] \in Classes,
           \A i, l \in 1..n : C[i] = C[l] => i = l,
           \A i \in 1..n-1 : \E k \in DOMAIN Fields(C[i]) :
               IsFK(Fields(C[i])[k]) /\ Target(Fields(C[i])[k]) = C[i+1],
           \E k \in DOMAIN Fields(C[n]) :
               IsFK(Fields(C[n])[k]) /\ Target(Fields(C[n])[k]) = C[j]
    PROVE  C[n] \notin Acyclic
<1> SUFFICES ASSUME C[n] \in Acyclic PROVE FALSE
  OBVIOUS
<1> DEFINE S == Acyclic \ {C[i] : i \in j..n}
<1>1. S \in SUBSET Classes
  BY DEF Acyclic
<1>2. Closed(S)
  <2> SUFFICES ASSUME NEW x \in Classes,
                      \A i \in DOMAIN Fields(x) :
                          IsFK(Fields(x)[i]) => Target(Fields(x)[i]) \in S \cup {x}
               PROVE  x \in S
    BY DEF Closed
  <2>1. x \in Acyclic
    BY AcyclicClosed DEF Closed
  <2>2. ASSUME NEW i \in j..n, x = C[i] PROVE FALSE
    <3>1. CASE i = n
      <4>1. PICK k \in DOMAIN Fields(C[n]) :
                IsFK(Fields(C[n])[k]) /\ Target(Fields(C[n])[k]) = C[j]
        OBVIOUS
      <4>2. C[j] \in {C[l] : l \in j..n} /\ C[j] # C[n]
        OBVIOUS
      <4>. QED  BY <2>2, <3>1, <4>1, <4>2
    <3>2. CASE i # n
      <4>0. i \in 1..n-1 /\ i + 1 \in j..n /\ i \in 1..n /\ i + 1 \in 1..n
        BY <3>2
      <4>1. PICK k \in DOMAIN Fields(C[i]) :
                IsFK(Fields(C[i])[k]) /\ Target(Fields(C[i])[k]) = C[i+1]
        BY <4>0
      <4>2. C[i+1] \in {C[l] : l \in j..n} /\ C[i+1] # C[i]
        BY <4>0
      <4>. QED  BY <2>2, <4>1, <4>2
    <3>. QED  BY <3>1, <3>2
  <2>. QED  BY <2>1, <2>2
<1>3. C[n] \in S
  BY <1>1, <1>2 DEF Acyclic
<1>. QED  BY <1>3

----------------------------------------------------------------------------
(* Calls of the program.                                                   *)

LEMMA InitInv == RegistryInit => IInv
<1> SUFFICES ASSUME RegistryInit PROVE IInv
  OBVIOUS
<1> USE DEF RegistryInit
<1>1. Shapes
  BY CallsAssumption DEF Shapes, Signals
<1>2. ProxiesLive /\ Idle
  BY DEF ProxiesLive, Idle
<1>3. Singletons /\ Shared /\ Refused
  BY DEF Singletons, Shared, Refused
<1>4. Entries /\ BuiltValid
  BY DEF Entries, BuiltValid
<1>5. Stacked /\ Distinct /\ FieldsChecked
  BY DEF Stacked, Distinct, FieldsChecked
<1>6. Linked /\ SignalSent
  BY <1>2 DEF Linked, SignalSent, Quiet
<1>. QED  BY <1>1, <1>2, <1>3, <1>4, <1>5, <1>6 DEF IInv

LEMMA HeldStep ==
    ASSUME IInv, held' \in [Holders -> SUBSET Proxies], calls' \in 0..MaxCalls,
           \A h \in Holders : \A p \in held'[h] : proxies[p] # None,
           UNCHANGED <<metas, cache, proxies, proxyCache, stack, signal, caller>>
    PROVE  IInv'
<1> USE DEF IInv
<1>1. Shapes'
  BY DEF Shapes
<1>2. ProxiesLive'
  BY DEF ProxiesLive, Idle
<1>3. Singletons' /\ Shared' /\ Refused'
  BY DEF Singletons, Shared, Refused, Complete
<1>4. Entries' /\ BuiltValid'
  BY DEF Entries, BuiltValid, OnStack
<1>5. Stacked' /\ Distinct' /\ FieldsChecked'
  BY DEF Stacked, Distinct, FieldsChecked, ClassAt
<1>6. Linked'
  BY DEF Linked, Waits, ClassAt, FieldAt, Idle
<1>7. SignalSent'
  BY DEF SignalSent, Wanted, Waits, ClassAt, FieldAt, Idle, OnStack
<1>. QED  BY <1>1, <1>2, <1>3, <1>4, <1>5, <1>6, <1>7

LEMMA TableCachedStep ==
    ASSUME IInv, NEW h \in Holders, NEW c \in Classes, TableCached(h, c)
    PROVE  IInv'
<1>1. held' \in [Holders -> SUBSET Proxies] /\ calls' \in 0..MaxCalls
  BY CallsAssumption DEF IInv, Shapes, TableCached, Keep, Spend
<1>2. ASSUME NEW g \in Holders, NEW p \in held'[g] PROVE proxies[p] # None
  BY <1>2 DEF IInv, Shapes, ProxiesLive, TableCached, Keep
<1>. QED  BY <1>1, <1>2, HeldStep DEF TableCached

LEMMA ForgetStep ==
    ASSUME IInv, NEW h \in Holders, NEW p \in Proxies, Forget(h, p)
    PROVE  IInv'
<1>1. held' \in [Holders -> SUBSET Proxies] /\ calls' \in 0..MaxCalls
  BY DEF IInv, Shapes, Forget
<1>2. ASSUME NEW g \in Holders, NEW q \in held'[g] PROVE proxies[q] # None
  BY <1>2 DEF IInv, Shapes, ProxiesLive, Forget
<1>. QED  BY <1>1, <1>2, HeldStep DEF Forget

LEMMA FreshProxy ==
    ASSUME Shapes, Room(proxies)
    PROVE  Fresh(proxies) \in Proxies /\ proxies[Fresh(proxies)] = None
<1>1. DOMAIN proxies = Proxies
  BY DEF Shapes
<1>2. \E p \in DOMAIN proxies : proxies[p] = None
  BY DEF Room, Used
<1>. QED  BY <1>1, <1>2 DEF Fresh

LEMMA FreshMeta ==
    ASSUME Shapes, Room(metas)
    PROVE  Fresh(metas) \in Metas /\ metas[Fresh(metas)] = None
<1>1. DOMAIN metas = Metas
  BY DEF Shapes
<1>2. \E m \in DOMAIN metas : metas[m] = None
  BY DEF Room, Used
<1>. QED  BY <1>1, <1>2 DEF Fresh

LEMMA TableNewStep ==
    ASSUME IInv, NEW h \in Holders, NEW c \in Classes, TableNew(h, c)
    PROVE  IInv'
<1> DEFINE new == [cls |-> c, meta |-> None, alias |-> FALSE]
           q == Fresh(proxies)
<1>0. q \in Proxies /\ proxies[q] = None
  BY FreshProxy DEF IInv, TableNew
<1>1. new \in ProxyRecords /\ new # None
  <2>1. new \in ProxyRecords
    BY DEF ProxyRecords
  <2>. QED  BY <2>1, NoneAssumption
<1>2. /\ Idle /\ proxyCache[c] = None
      /\ proxies' = [proxies EXCEPT ![q] = new]
      /\ proxyCache' = [proxyCache EXCEPT ![c] = q]
      /\ caller' = [holder |-> h, proxy |-> q]
      /\ signal' = Asking(c)
      /\ calls > 0 /\ calls' = calls - 1
      /\ UNCHANGED <<metas, cache, held, stack>>
  BY DEF TableNew, Spend
<1>3. /\ new.cls = c /\ new.meta = None /\ new.alias = FALSE
      /\ [holder |-> h, proxy |-> q] \in Callers
      /\ caller'.proxy = q /\ caller' # None
  BY <1>0, <1>2, NoneAssumption DEF Callers
<1> HIDE DEF new, q
<1>4. Shapes'
  <2>1. Asking(c) \in Signals
    BY DEF Signals
  <2>. QED  BY <1>0, <1>1, <1>2, <1>3, <2>1, CallsAssumption DEF IInv, Shapes
<1>5. /\ \A p \in Proxies : proxies'[p] = IF p = q THEN new ELSE proxies[p]
      /\ \A d \in Classes : proxyCache'[d] = IF d = c THEN q ELSE proxyCache[d]
  BY <1>0, <1>2 DEF IInv, Shapes
<1>6. stack = <<>>
  BY <1>2 DEF IInv, Linked, Idle
<1>7. ProxiesLive'
  <2>1. \A g \in Holders : \A p \in held'[g] : p \in Proxies /\ p # q /\ proxies[p] # None
    BY <1>0, <1>2 DEF IInv, Shapes, ProxiesLive
  <2>2. \A d \in Classes : d # c /\ proxyCache[d] # None =>
            proxyCache[d] \in Proxies /\ proxyCache[d] # q /\ proxies[proxyCache[d]].cls = d
    BY <1>0 DEF IInv, Shapes, ProxiesLive
  <2>. QED  BY <1>0, <1>1, <1>3, <1>5, <2>1, <2>2 DEF IInv, Shapes, ProxiesLive, Idle
<1>8. Singletons'
  <2> SUFFICES ASSUME NEW p \in Proxies, proxies'[p] # None, ~proxies'[p].alias
               PROVE  proxyCache'[proxies'[p].cls] = p
    BY DEF Singletons
  <2>1. CASE p = q
    BY <1>3, <1>5, <2>1
  <2>2. CASE p # q
    <3>1. proxies'[p] = proxies[p] /\ proxies[p] \in ProxyRecords
      BY <1>5, <2>2 DEF IInv, Shapes
    <3>2. proxies[p].cls \in Classes /\ proxyCache[proxies[p].cls] = p /\ p # None
      BY <3>1, PlacesAssumption DEF IInv, Singletons, ProxyRecords
    <3>. QED  BY <1>2, <1>5, <3>1, <3>2
  <2>. QED  BY <2>1, <2>2
<1>9. Shared'
  BY <1>2, <1>3, <1>5 DEF IInv, Shared
<1>10. Refused'
  BY <1>2, <1>3, <1>5 DEF IInv, Refused, Complete, Idle
<1>11. Entries' /\ BuiltValid'
  BY <1>2 DEF IInv, Entries, BuiltValid, OnStack
<1>12. Stacked' /\ Distinct' /\ FieldsChecked' /\ Linked'
  BY <1>2, <1>6 DEF IInv, Stacked, Distinct, FieldsChecked, Linked
<1>13. SignalSent'
  BY <1>0, <1>2, <1>3, <1>5, <1>6 DEF SignalSent, Wanted, Asking, Idle
<1>. QED  BY <1>4, <1>7, <1>8, <1>9, <1>10, <1>11, <1>12, <1>13 DEF IInv

LEMMA ASStep ==
    ASSUME IInv, NEW h \in Holders, NEW p \in Proxies, AS(h, p)
    PROVE  IInv'
<1> DEFINE new == [proxies[p] EXCEPT !.alias = TRUE]
           q == Fresh(proxies)
<1>0. q \in Proxies /\ proxies[q] = None
  BY FreshProxy DEF IInv, AS
<1>1. /\ Idle /\ proxies[p] # None /\ proxies[p].meta # None
      /\ proxies' = [proxies EXCEPT ![q] = new]
      /\ held' = [held EXCEPT ![h] = @ \cup {q}]
      /\ calls > 0 /\ calls' = calls - 1
      /\ UNCHANGED <<metas, cache, proxyCache, stack, signal, caller>>
  BY DEF IInv, ProxiesLive, AS, Spend, Keep
<1>2. /\ new \in ProxyRecords /\ new # None
      /\ new.cls = proxies[p].cls /\ new.meta = proxies[p].meta /\ new.alias = TRUE
  <2>1. proxies[p] \in ProxyRecords
    BY <1>1 DEF IInv, Shapes
  <2>2. \A r \in ProxyRecords :
            LET n == [r EXCEPT !.alias = TRUE]
            IN  n \in ProxyRecords /\ n.cls = r.cls /\ n.meta = r.meta /\ n.alias = TRUE
    BY DEF ProxyRecords
  <2>. QED  BY <2>1, <2>2, NoneAssumption
<1> HIDE DEF new, q
<1>3. \A r \in Proxies : proxies'[r] = IF r = q THEN new ELSE proxies[r]
  BY <1>0, <1>1 DEF IInv, Shapes
<1>4. Shapes'
  BY <1>0, <1>1, <1>2, CallsAssumption DEF IInv, Shapes
<1>5. ProxiesLive'
  <2>1. ASSUME NEW g \in Holders, NEW r \in held'[g] PROVE proxies'[r] # None
    <3>1. r = q \/ (r \in Proxies /\ r # q /\ proxies[r] # None)
      BY <1>0, <1>1, <2>1 DEF IInv, Shapes, ProxiesLive
    <3>. QED  BY <1>0, <1>2, <1>3, <3>1
  <2>2. \A d \in Classes : proxyCache[d] # None =>
            proxyCache[d] \in Proxies /\ proxyCache[d] # q /\ proxies[proxyCache[d]] # None
            /\ proxies[proxyCache[d]].cls = d
    BY <1>0 DEF IInv, Shapes, ProxiesLive
  <2>3. Idle'
    BY <1>1 DEF Idle
  <2>. QED  BY <1>1, <1>3, <2>1, <2>2, <2>3 DEF ProxiesLive
<1>6. Singletons' /\ Shared'
  BY <1>0, <1>1, <1>2, <1>3 DEF IInv, Singletons, Shared
<1>7. Refused'
  BY <1>1, <1>2, <1>3 DEF IInv, Refused, Complete, Idle
<1>8. Entries' /\ BuiltValid'
  BY <1>1 DEF IInv, Entries, BuiltValid, OnStack
<1>9. stack = <<>> /\ signal.kind = "none"
  BY <1>1 DEF IInv, Shapes, Linked, SignalSent, Wanted, Idle, Signals, Quiet, Raising, Asking, Returning
<1>10. Stacked' /\ Distinct' /\ FieldsChecked' /\ Linked'
  BY <1>1, <1>9 DEF Stacked, Distinct, FieldsChecked, Linked
<1>11. SignalSent'
  BY <1>1, <1>9 DEF SignalSent, Idle
<1>. QED  BY <1>4, <1>5, <1>6, <1>7, <1>8, <1>10, <1>11 DEF IInv

----------------------------------------------------------------------------
(* The garbage collector.                                                  *)

LEMMA CollectProxyStep ==
    ASSUME IInv, NEW q \in Proxies, CollectProxy(q)
    PROVE  IInv'
<1>1. /\ q \notin ReferredProxies
      /\ proxies' = [proxies EXCEPT ![q] = None]
      /\ proxyCache' = [c \in Classes |-> IF proxyCache[c] = q THEN None ELSE proxyCache[c]]
      /\ UNCHANGED <<metas, cache, held, stack, signal, caller, calls>>
  BY DEF CollectProxy, Without
<1>2. /\ \A p \in Proxies : proxies'[p] = IF p = q THEN None ELSE proxies[p]
      /\ \A h \in Holders : q \notin held[h]
      /\ ~Idle => caller.proxy \in Proxies /\ caller.proxy # q
  <2>1. \A p \in Proxies : proxies'[p] = IF p = q THEN None ELSE proxies[p]
    BY <1>1 DEF IInv, Shapes
  <2>2. ASSUME NEW h \in Holders PROVE q \notin held[h]
    BY <1>1 DEF ReferredProxies
  <2>3. ASSUME ~Idle PROVE caller.proxy \in Proxies /\ caller.proxy # q
    <3>1. caller \in Callers
      BY <2>3 DEF IInv, Shapes, Idle
    <3>2. caller.proxy \in {p \in Proxies : ~Idle /\ p = caller.proxy}
      BY <2>3, <3>1 DEF Callers
    <3>3. caller.proxy \in ReferredProxies
      BY <3>2 DEF ReferredProxies
    <3>. QED  BY <1>1, <3>2, <3>3
  <2>. QED  BY <2>1, <2>2, <2>3
<1>3. Shapes'
  BY <1>1 DEF IInv, Shapes
<1>4. ProxiesLive'
  <2>1. \A h \in Holders : \A p \in held'[h] : proxies'[p] # None
    BY <1>1, <1>2 DEF IInv, Shapes, ProxiesLive
  <2>2. ~Idle' => proxies'[caller'.proxy] # None /\ ~proxies'[caller'.proxy].alias
    BY <1>1, <1>2 DEF IInv, ProxiesLive, Idle
  <2>3. \A c \in Classes : proxyCache'[c] # None =>
            proxies'[proxyCache'[c]] # None /\ proxies'[proxyCache'[c]].cls = c
    BY <1>1, <1>2 DEF IInv, Shapes, ProxiesLive
  <2>. QED  BY <2>1, <2>2, <2>3 DEF ProxiesLive
<1>5. Singletons'
  <2>1. \A p \in Proxies : proxies[p] # None => proxies[p].cls \in Classes
    BY DEF IInv, Shapes, ProxyRecords
  <2>. QED  BY <1>1, <1>2, <2>1 DEF IInv, Singletons
<1>6. Shared' /\ Refused'
  BY <1>1, <1>2 DEF IInv, Shared, Refused, Complete
<1>7. Entries' /\ BuiltValid'
  BY <1>1 DEF IInv, Entries, BuiltValid, OnStack
<1>8. Stacked' /\ Distinct' /\ FieldsChecked'
  BY <1>1 DEF IInv, Stacked, Distinct, FieldsChecked, ClassAt
<1>9. Linked'
  BY <1>1, <1>2 DEF IInv, Linked, Waits, ClassAt, FieldAt, Idle
<1>10. SignalSent'
  BY <1>1, <1>2 DEF IInv, SignalSent, Wanted, Waits, ClassAt, FieldAt, Idle, OnStack
<1>. QED  BY <1>3, <1>4, <1>5, <1>6, <1>7, <1>8, <1>9, <1>10 DEF IInv

LEMMA CollectMetaStep ==
    ASSUME IInv, NEW q \in Metas, CollectMeta(q)
    PROVE  IInv'
<1>1. /\ q \notin ReferredMetas
      /\ metas' = [metas EXCEPT ![q] = None]
      /\ cache' = [c \in Classes |-> IF cache[c] = q THEN None ELSE cache[c]]
      /\ UNCHANGED <<proxies, proxyCache, held, stack, signal, caller, calls>>
  BY DEF CollectMeta, Without
<1>2. /\ \A m \in Metas : metas'[m] = IF m = q THEN None ELSE metas[m]
      /\ \A p \in Proxies : proxies[p] # None => proxies[p].meta # q
      /\ \A i \in 1..Len(stack) : stack[i].meta \in Metas /\ stack[i].meta # q
      /\ signal.of # q
  <2>1. \A m \in Metas : metas'[m] = IF m = q THEN None ELSE metas[m]
    BY <1>1 DEF IInv, Shapes
  <2>2. ASSUME NEW p \in Proxies, proxies[p] # None PROVE proxies[p].meta # q
    <3>1. p \in Used(proxies)
      BY <2>2 DEF IInv, Shapes, Used
    <3>. QED  BY <1>1, <3>1 DEF ReferredMetas
  <2>3. ASSUME NEW i \in 1..Len(stack) PROVE stack[i].meta \in Metas /\ stack[i].meta # q
    <3>1. stack[i] \in Frames /\ i \in DOMAIN stack
      BY DEF IInv, Shapes
    <3>2. stack[i].meta \in ReferredMetas
      BY <3>1 DEF ReferredMetas
    <3>. QED  BY <1>1, <3>1, <3>2 DEF Frames
  <2>4. signal.of # q
    BY <1>1 DEF ReferredMetas
  <2>. QED  BY <2>1, <2>2, <2>3, <2>4
<1>3. \A m \in Metas : metas[m] # None => metas[m].cls \in Classes
  BY DEF IInv, Shapes, MetaRecords
<1>4. Shapes'
  BY <1>1 DEF IInv, Shapes
<1>5. ProxiesLive' /\ Singletons' /\ Refused'
  BY <1>1 DEF IInv, ProxiesLive, Singletons, Refused, Complete, Idle
<1>6. Shared'
  <2>1. \A p \in Proxies : proxies[p] # None =>
            proxies[p].meta \in Metas \cup {None} /\ proxies[p].cls \in Classes
    BY DEF IInv, Shapes, ProxyRecords
  <2>. QED  BY <1>1, <1>2, <2>1 DEF IInv, Shared
<1>7. Entries'
  BY <1>1, <1>2 DEF IInv, Shapes, Entries, OnStack
<1>8. \A i \in 1..Len(stack) : /\ metas'[stack[i].meta] = metas[stack[i].meta]
                               /\ ClassAt(i)' = ClassAt(i) /\ FieldAt(i)' = FieldAt(i)
  BY <1>1, <1>2 DEF ClassAt, FieldAt
<1>9. Stacked'
  <2>1. \A i \in 1..Len(stack) : ClassAt(i) \in Classes
    BY <1>2, <1>3 DEF IInv, Stacked, ClassAt
  <2>. QED  BY <1>1, <1>2, <1>8, <2>1 DEF IInv, Stacked
<1>10. Distinct' /\ FieldsChecked' /\ BuiltValid'
  BY <1>1, <1>2, <1>8 DEF IInv, Distinct, FieldsChecked, BuiltValid
<1>11. Len(stack) \in Nat /\ (stack # <<>> => 1 \in 1..Len(stack) /\ Len(stack) \in 1..Len(stack))
  BY DEF IInv, Shapes
<1>12. Linked'
  <2>1. \A i \in 1..Len(stack)-1 : i \in 1..Len(stack) /\ i + 1 \in 1..Len(stack)
    BY <1>11
  <2>. QED  BY <1>1, <1>8, <1>11, <2>1 DEF IInv, Linked, Waits, Idle
<1>13. \A c : Wanted(c)' <=> Wanted(c)
  BY <1>1, <1>8, <1>11 DEF Wanted, Waits, Idle
<1>14. SignalSent'
  <2>1. signal.kind = "return" => signal.of \in Metas
    BY DEF IInv, Shapes, Signals, Quiet, Raising, Asking, Returning
  <2>2. signal.kind = "return" => metas'[signal.of] = metas[signal.of] /\ metas[signal.of].cls \in Classes
    BY <1>2, <1>3, <2>1 DEF IInv, SignalSent
  <2>. QED  BY <1>1, <1>2, <1>8, <1>11, <1>13, <2>2 DEF IInv, SignalSent, OnStack, Idle
<1>. QED  BY <1>4, <1>5, <1>6, <1>7, <1>9, <1>10, <1>12, <1>14 DEF IInv

----------------------------------------------------------------------------
(* What runs by itself.                                                    *)

LEMMA StackFacts ==
    ASSUME IInv
    PROVE  /\ Len(stack) \in Nat
           /\ \A i \in 1..Len(stack) :
                 /\ stack[i] \in Frames /\ stack[i].meta \in Metas /\ stack[i].done \in Nat
                 /\ metas[stack[i].meta] \in MetaRecords
                 /\ ClassAt(i) \in Classes
           /\ stack # <<>> => Len(stack) \in 1..Len(stack) /\ 1 \in 1..Len(stack)
           /\ \A i \in 1..Len(stack)-1 : i \in 1..Len(stack) /\ i + 1 \in 1..Len(stack)
<1>1. Len(stack) \in Nat /\ \A i \in 1..Len(stack) : stack[i] \in Frames
  BY DEF IInv, Shapes
<1>2. \A i \in 1..Len(stack) : stack[i].meta \in Metas /\ stack[i].done \in Nat
  BY <1>1 DEF Frames
<1>3. \A i \in 1..Len(stack) : metas[stack[i].meta] \in MetaRecords
  BY <1>2 DEF IInv, Shapes, Stacked
<1>4. \A i \in 1..Len(stack) : ClassAt(i) \in Classes
  BY <1>3 DEF ClassAt, MetaRecords
<1>5. stack # <<>> => Len(stack) \in 1..Len(stack) /\ 1 \in 1..Len(stack)
  BY <1>1 DEF IInv, Shapes
<1>6. \A i \in 1..Len(stack)-1 : i \in 1..Len(stack) /\ i + 1 \in 1..Len(stack)
  BY <1>1
<1>. QED  BY <1>1, <1>2, <1>3, <1>4, <1>5, <1>6

LEMMA SignalKinds ==
    /\ Quiet.kind = "none" /\ Raising.kind = "raise"
    /\ \A c : Asking(c).kind = "ask" /\ Asking(c).of = c
    /\ \A m : Returning(m).kind = "return" /\ Returning(m).of = m
  BY DEF Quiet, Raising, Asking, Returning

LEMMA SignalTypes ==
    ASSUME Shapes
    PROVE  /\ signal.kind \in {"none", "ask", "return", "raise"}
           /\ signal.kind = "ask" => signal.of \in Classes
           /\ signal.kind = "return" => signal.of \in Metas
           /\ signal.kind = "raise" => signal = Raising
           /\ signal.kind = "none" => signal = Quiet
  BY DEF Shapes, Signals, Quiet, Raising, Asking, Returning

LEMMA CallerTypes ==
    ASSUME IInv, ~Idle
    PROVE  /\ caller \in Callers /\ caller.holder \in Holders /\ caller.proxy \in Proxies
           /\ proxies[caller.proxy] \in ProxyRecords
           /\ proxies[caller.proxy].cls \in Classes
<1>1. caller \in Callers
  BY DEF IInv, Shapes, Idle
<1>2. caller.holder \in Holders /\ caller.proxy \in Proxies
  BY <1>1 DEF Callers
<1>3. proxies[caller.proxy] \in ProxyRecords
  BY <1>2 DEF IInv, Shapes, ProxiesLive
<1>. QED  BY <1>1, <1>2, <1>3 DEF ProxyRecords

LEMMA DeliverStep ==
    ASSUME IInv, Deliver
    PROVE  IInv'
<1> DEFINE q == caller.proxy
           m == signal.of
           new == [proxies[q] EXCEPT !.meta = m]
<1>1. /\ ~Idle /\ stack = <<>> /\ signal.kind = "return"
      /\ proxies' = [proxies EXCEPT ![q] = new]
      /\ held' = [held EXCEPT ![caller.holder] = @ \cup {q}]
      /\ caller' = None /\ signal' = Quiet
      /\ UNCHANGED <<metas, cache, proxyCache, stack, calls>>
  <2>1. /\ ~Idle /\ stack = <<>> /\ signal.kind = "return"
        /\ proxies' = [proxies EXCEPT ![caller.proxy].meta = signal.of]
        /\ held' = [held EXCEPT ![caller.holder] = @ \cup {q}]
        /\ caller' = None /\ signal' = Quiet
        /\ UNCHANGED <<metas, cache, proxyCache, stack, calls>>
    BY DEF Deliver, Keep
  <2>. QED  BY <2>1
<1>2. /\ caller.holder \in Holders /\ q \in Proxies /\ m \in Metas
      /\ proxies[q] \in ProxyRecords /\ proxies[q].alias = FALSE
      /\ metas[m] # None /\ metas[m].ready /\ metas[m].built
      /\ cache[metas[m].cls] = m /\ metas[m].cls = proxies[q].cls
  <2>1. ~OnStack(m)
    BY <1>1 DEF OnStack
  <2>2. proxies[q].alias \in BOOLEAN
    BY <1>1, CallerTypes DEF ProxyRecords
  <2>. QED  BY <1>1, <2>1, <2>2, CallerTypes, SignalTypes DEF IInv, SignalSent, Wanted, ProxiesLive
<1>3. /\ new \in ProxyRecords /\ new # None /\ m # None
      /\ new.cls = proxies[q].cls /\ new.meta = m /\ new.alias = FALSE
  <2>1. \A r \in ProxyRecords :
            LET n == [r EXCEPT !.meta = m]
            IN  n \in ProxyRecords /\ n.cls = r.cls /\ n.meta = m /\ n.alias = r.alias
    BY <1>2 DEF ProxyRecords
  <2>. QED  BY <1>2, <2>1, NoneAssumption, PlacesAssumption
<1> HIDE DEF new, q, m
<1>4. \A p \in Proxies : proxies'[p] = IF p = q THEN new ELSE proxies[p]
  BY <1>1, <1>2 DEF IInv, Shapes
<1>5. Shapes'
  BY <1>1, <1>2, <1>3 DEF IInv, Shapes, Signals
<1>6. ProxiesLive'
  <2>1. ASSUME NEW g \in Holders, NEW r \in held'[g] PROVE proxies'[r] # None
    <3>1. r = q \/ (r \in Proxies /\ proxies[r] # None)
      BY <1>1, <1>2, <2>1 DEF IInv, Shapes, ProxiesLive
    <3>. QED  BY <1>2, <1>3, <1>4, <3>1
  <2>2. \A d \in Classes : proxyCache'[d] # None =>
            proxies'[proxyCache'[d]] # None /\ proxies'[proxyCache'[d]].cls = d
    BY <1>1, <1>3, <1>4 DEF IInv, Shapes, ProxiesLive
  <2>. QED  BY <1>1, <2>1, <2>2 DEF ProxiesLive, Idle
<1>7. Singletons'
  <2>1. proxies[q] # None /\ ~proxies[q].alias
    BY <1>2, NoneAssumption
  <2>. QED  BY <1>1, <1>2, <1>3, <1>4, <2>1 DEF IInv, Singletons
<1>8. Shared'
  BY <1>1, <1>2, <1>3, <1>4 DEF IInv, Shared
<1>9. Refused'
  <2> SUFFICES ASSUME NEW p \in Proxies, proxies'[p] # None, proxies'[p].meta = None
               PROVE  proxies'[p].cls \notin Valid
    BY DEF Refused
  <2>1. p # q
    BY <1>3, <1>4
  <2>2. proxies'[p] = proxies[p] /\ Complete(p)
    BY <1>4, <2>1 DEF Complete, q
  <2>. QED  BY <2>2 DEF IInv, Refused
<1>10. Entries' /\ BuiltValid'
  BY <1>1 DEF IInv, Entries, BuiltValid, OnStack
<1>11. Stacked' /\ Distinct' /\ FieldsChecked' /\ Linked'
  BY <1>1 DEF Stacked, Distinct, FieldsChecked, Linked
<1>12. SignalSent'
  BY <1>1, SignalKinds DEF SignalSent, Idle
<1>. QED  BY <1>5, <1>6, <1>7, <1>8, <1>9, <1>10, <1>11, <1>12 DEF IInv

LEMMA FailStep ==
    ASSUME IInv, Fail
    PROVE  IInv'
<1>1. /\ ~Idle /\ stack = <<>> /\ signal.kind = "raise"
      /\ caller' = None /\ signal' = Quiet
      /\ UNCHANGED <<metas, cache, proxies, proxyCache, held, stack, calls>>
  BY DEF Fail
<1>2. Shapes'
  BY <1>1 DEF IInv, Shapes, Signals
<1>3. ProxiesLive' /\ Singletons' /\ Shared'
  BY <1>1 DEF IInv, ProxiesLive, Singletons, Shared, Idle
<1>4. Refused'
  BY <1>1 DEF IInv, Refused, Complete, SignalSent, Idle
<1>5. Entries' /\ BuiltValid'
  BY <1>1 DEF IInv, Entries, BuiltValid, OnStack
<1>6. Stacked' /\ Distinct' /\ FieldsChecked' /\ Linked'
  BY <1>1 DEF Stacked, Distinct, FieldsChecked, Linked
<1>7. SignalSent'
  BY <1>1, SignalKinds DEF SignalSent, Idle
<1>. QED  BY <1>2, <1>3, <1>4, <1>5, <1>6, <1>7 DEF IInv

LEMMA ProxySideKept ==
    ASSUME IInv, UNCHANGED <<proxies, proxyCache, held, caller>>
    PROVE  ProxiesLive' /\ Singletons' /\ Refused'
  BY DEF IInv, ProxiesLive, Singletons, Refused, Complete, Idle

\* Only what passes between the calls changes.
LEMMA SignalStep ==
    ASSUME IInv, signal' \in Signals, SignalSent',
           signal = Raising => signal' = Raising,
           UNCHANGED <<metas, cache, proxies, proxyCache, held, stack, caller, calls>>
    PROVE  IInv'
<1>1. Shapes'
  BY DEF IInv, Shapes
<1>2. ProxiesLive' /\ Singletons' /\ Refused'
  BY ProxySideKept
<1>3. Shared' /\ Entries' /\ BuiltValid'
  BY DEF IInv, Shared, Entries, BuiltValid, OnStack
<1>4. Stacked'
  BY DEF IInv, Stacked, ClassAt
<1>5. Distinct' /\ FieldsChecked'
  BY DEF IInv, Distinct, FieldsChecked, ClassAt
<1>6. Linked'
  BY DEF IInv, Linked, Waits, ClassAt, FieldAt, Idle
<1>. QED  BY <1>1, <1>2, <1>3, <1>4, <1>5, <1>6 DEF IInv

LEMMA BumpAt ==
    ASSUME NEW s \in Seq(Frames), NEW n \in 1..Len(s)
    PROVE  LET t == [s EXCEPT ![n].done = @ + 1]
           IN  /\ t \in Seq(Frames) /\ Len(t) = Len(s)
               /\ \A i \in 1..Len(s) :
                     /\ t[i] \in Frames /\ t[i].meta = s[i].meta
                     /\ t[i].done = IF i = n THEN s[i].done + 1 ELSE s[i].done
<1> DEFINE f == [s[n] EXCEPT !.done = @ + 1]
           t == [s EXCEPT ![n] = f]
<1>1. f \in Frames /\ f.meta = s[n].meta /\ f.done = s[n].done + 1
  <2>1. s[n] \in Frames
    OBVIOUS
  <2>2. \A r \in Frames :
            LET g == [r EXCEPT !.done = @ + 1]
            IN  g \in Frames /\ g.meta = r.meta /\ g.done = r.done + 1
    BY DEF Frames
  <2>. QED  BY <2>1, <2>2
<1> HIDE DEF f
<1>2. t \in Seq(Frames) /\ Len(t) = Len(s) /\ \A i \in 1..Len(s) : t[i] = IF i = n THEN f ELSE s[i]
  BY <1>1
<1>3. \A i \in 1..Len(s) : s[i] \in Frames
  OBVIOUS
<1> HIDE DEF t
<1>4. /\ t \in Seq(Frames) /\ Len(t) = Len(s)
      /\ \A i \in 1..Len(s) :
            /\ t[i] \in Frames /\ t[i].meta = s[i].meta
            /\ t[i].done = IF i = n THEN s[i].done + 1 ELSE s[i].done
  BY <1>1, <1>2, <1>3
<1>. QED  BY <1>4 DEF t, f

\* The innermost call is done with a field that it found in order.
LEMMA CheckedStep ==
    ASSUME IInv, signal # Raising, stack # <<>>, Checked,
           Top.done < Len(Fields(TopClass)), Sound(TopClass, Top.done + 1),
           signal' = Quiet,
           UNCHANGED <<metas, cache, proxies, proxyCache, held, caller, calls>>
    PROVE  IInv'
<1> DEFINE n == Len(stack)
<1>1. /\ n \in Nat /\ n \in 1..n
      /\ stack[n] \in Frames
      /\ stack' = [stack EXCEPT ![n].done = @ + 1]
  BY StackFacts DEF Checked
<1>2. /\ stack' \in Seq(Frames) /\ Len(stack') = n
      /\ \A i \in 1..n : /\ stack'[i] \in Frames
                         /\ stack'[i].meta = stack[i].meta
                         /\ stack'[i].done = IF i = n THEN stack[i].done + 1 ELSE stack[i].done
  BY <1>1, BumpAt DEF IInv, Shapes
<1>3. Shapes'
  BY <1>2 DEF IInv, Shapes, Signals
<1>4. \A i \in 1..n : ClassAt(i)' = ClassAt(i) /\ (i # n => FieldAt(i)' = FieldAt(i))
  BY <1>2 DEF ClassAt, FieldAt
<1>5. TopClass = ClassAt(n) /\ Top.done = stack[n].done
  BY DEF TopClass, Top, ClassAt
<1> HIDE DEF n
<1>6. ProxiesLive' /\ Singletons' /\ Refused'
  BY ProxySideKept
<1>7. Shared' /\ BuiltValid'
  BY DEF IInv, Shared, BuiltValid
<1>8. Entries'
  <2>1. \A m : OnStack(m)' <=> OnStack(m)
    BY <1>2 DEF OnStack, n
  <2>. QED  BY <2>1 DEF IInv, Entries
<1>9. Stacked'
  <2> SUFFICES ASSUME NEW i \in 1..n
               PROVE  /\ metas[stack[i].meta] # None
                      /\ ~metas[stack[i].meta].built
                      /\ cache[ClassAt(i)] = stack[i].meta
                      /\ metas[stack[i].meta].ready
                      /\ metas[stack[i].meta].ready => Structured(ClassAt(i))
                      /\ stack'[i].done <= Len(Fields(ClassAt(i)))
    BY <1>2, <1>4 DEF Stacked
  <2>1. stack[i].done \in Nat /\ Len(Fields(ClassAt(i))) \in Nat
    BY StackFacts, FieldsCount DEF n
  <2>. QED  BY <1>2, <1>5, <2>1 DEF IInv, Stacked, n
<1>10. Distinct'
  BY <1>2 DEF IInv, Distinct, n
<1>11. Linked'
  <2>1. stack' # <<>> /\ ~Idle' /\ ClassAt(1)' = proxies'[caller'.proxy].cls
    BY <1>1, <1>2, <1>4, StackFacts DEF IInv, Linked, Idle, n
  <2>2. ASSUME NEW i \in 1..n-1
        PROVE  Waits(i)' /\ Target(FieldAt(i))' = ClassAt(i+1)'
    <3>1. i \in 1..n /\ i + 1 \in 1..n /\ i # n
      BY <1>1
    <3>. QED  BY <1>2, <1>4, <3>1 DEF IInv, Linked, Waits, n
  <2>. QED  BY <1>2, <2>1, <2>2 DEF Linked
<1>12. FieldsChecked'
  <2> SUFFICES ASSUME NEW i \in 1..n, NEW k \in 1..stack'[i].done
               PROVE  Sound(ClassAt(i), k)
    BY <1>2, <1>4 DEF FieldsChecked
  <2>1. stack[i].done \in Nat
    BY StackFacts DEF n
  <2>. QED  BY <1>2, <1>5, <2>1 DEF IInv, FieldsChecked, n
<1>13. SignalSent'
  <2>1. ~Idle' /\ stack' # <<>>
    BY <1>11, <1>2, <1>1 DEF Linked, Idle
  <2>. QED  BY <2>1, SignalKinds DEF SignalSent
<1>. QED  BY <1>3, <1>6, <1>7, <1>8, <1>9, <1>10, <1>11, <1>12, <1>13 DEF IInv

LEMMA HitStep ==
    ASSUME IInv, Hit
    PROVE  IInv'
<1> DEFINE c == signal.of
<1>1. /\ signal.kind = "ask" /\ cache[c] # None /\ metas[cache[c]].ready
      /\ signal' = Returning(cache[c])
      /\ UNCHANGED <<metas, cache, proxies, proxyCache, held, stack, caller, calls>>
  BY DEF Hit, Known
<1>2. c \in Classes /\ cache[c] \in Metas
  BY <1>1, SignalTypes DEF IInv, Shapes
<1>3. Wanted(c)
  BY <1>1 DEF IInv, SignalSent
<1>4. metas[cache[c]] # None /\ metas[cache[c]].cls = c /\ (metas[cache[c]].built \/ OnStack(cache[c]))
  BY <1>1, <1>2 DEF IInv, Entries
<1> HIDE DEF c
<1>5. (\A d : Wanted(d)' <=> Wanted(d)) /\ (\A m : OnStack(m)' <=> OnStack(m))
  BY <1>1 DEF Wanted, Waits, ClassAt, FieldAt, Idle, OnStack
<1>6. SignalSent'
  <2>1. signal'.kind = "return" /\ signal'.of = cache[c]
    BY <1>1, SignalKinds
  <2>. QED  BY <1>1, <1>3, <1>4, <1>5, <2>1 DEF SignalSent
<1>7. signal' \in Signals /\ signal # Raising
  BY <1>1, <1>2, SignalKinds DEF Signals
<1>. QED  BY <1>1, <1>6, <1>7, SignalStep

LEMMA NextFieldStep ==
    ASSUME IInv, NextField
    PROVE  IInv'
<1>1. /\ signal = Quiet /\ stack # <<>> /\ Top.done < Len(Fields(TopClass))
      /\ UNCHANGED <<metas, cache, proxies, proxyCache, held, caller, calls>>
  BY DEF NextField, Validating
<1>2. signal # Raising
  BY <1>1, SignalKinds
<1>3. CASE ~IsFK(TopField) /\ Checked /\ UNCHANGED signal
  <2>1. Sound(TopClass, Top.done + 1)
    BY <1>3 DEF Sound, TopField
  <2>. QED  BY <1>1, <1>2, <1>3, <2>1, CheckedStep
<1>4. CASE IsFK(TopField) /\ signal' = Asking(Target(TopField)) /\ UNCHANGED stack
  <2> DEFINE n == Len(stack)
             c == Target(TopField)
  <2>1. TopField = FieldAt(n) /\ TopClass = ClassAt(n) /\ Top.done = stack[n].done
    BY DEF TopField, FieldAt, TopClass, ClassAt, Top
  <2>2. n \in 1..n /\ TopClass \in Classes /\ Top.done \in Nat
    BY <1>1, <2>1, StackFacts
  <2>3. Top.done + 1 \in DOMAIN Fields(TopClass)
    BY <1>1, <2>2, FieldsCount
  <2>4. c \in Classes
    BY <1>4, <2>2, <2>3, TargetsAreClasses DEF TopField
  <2>5. ~Idle
    BY <1>1 DEF IInv, Linked
  <2>6. Wanted(c)
    BY <1>1, <1>4, <2>1, <2>5 DEF Wanted, Waits
  <2> HIDE DEF n, c
  <2>7. \A d : Wanted(d)' <=> Wanted(d)
    BY <1>1, <1>4 DEF Wanted, Waits, ClassAt, FieldAt, Idle
  <2>8. SignalSent' /\ signal' \in Signals
    <3>1. signal' = Asking(c) /\ signal'.kind = "ask" /\ signal'.of = c
      BY <1>4, SignalKinds DEF c
    <3>. QED  BY <2>4, <2>6, <2>7, <3>1 DEF SignalSent, Signals
  <2>. QED  BY <1>1, <1>2, <1>4, <2>8, SignalStep
<1>. QED  BY <1>3, <1>4 DEF NextField

\* What a foreign key leads to, when the class that it leads to is found: its
\* own TableMeta is built, or it is under way and the keys go round.
LEMMA TargetSound ==
    ASSUME IInv, stack # <<>>, signal.kind = "return", Matches(TopField)
    PROVE  Sound(TopClass, Top.done + 1)
<1> DEFINE n == Len(stack)
           c == ClassAt(n)
           t == metas[signal.of].cls
           C == [i \in 1..n |-> ClassAt(i)]
<1>1. /\ TopField = FieldAt(n) /\ TopClass = c /\ Top.done = stack[n].done
      /\ TopField = Fields(TopClass)[Top.done + 1]
  BY DEF TopField, FieldAt, TopClass, ClassAt, Top
<1>2. Waits(n) /\ t = Target(FieldAt(n))
  BY DEF IInv, SignalSent, Wanted
<1>3. n \in Nat /\ n \in 1..n /\ \A i \in 1..n : ClassAt(i) \in Classes /\ stack[i].done \in Nat
  BY StackFacts
<1>4. \A i \in 1..n : Waits(i) => stack[i].done + 1 \in DOMAIN Fields(ClassAt(i)) /\ IsFK(FieldAt(i))
  BY <1>3, FieldsCount DEF Waits
<1>5. signal.of \in Metas /\ metas[signal.of] # None /\ (metas[signal.of].built \/ OnStack(signal.of))
  BY SignalTypes DEF IInv, SignalSent
<1>6. SUFFICES ASSUME c \in Acyclic, t # c PROVE t \in Valid
  BY <1>1, <1>2 DEF Sound
<1>7. t \in Acyclic
  BY <1>1, <1>2, <1>3, <1>4, <1>6, AcyclicTargets DEF FieldAt
<1>8. ASSUME OnStack(signal.of) PROVE FALSE
  <2>1. PICK j \in 1..n : stack[j].meta = signal.of
    BY <1>8 DEF OnStack
  <2>2. t = C[j] /\ C[n] = c /\ j # n
    BY <1>3, <1>6, <2>1 DEF ClassAt
  <2>3. \A i \in 1..n : C[i] \in Classes
    BY <1>3
  <2>4. \A i, l \in 1..n : C[i] = C[l] => i = l
    BY DEF IInv, Stacked, Distinct
  <2>5. \A i \in 1..n-1 : \E k \in DOMAIN Fields(C[i]) :
            IsFK(Fields(C[i])[k]) /\ Target(Fields(C[i])[k]) = C[i+1]
    <3> TAKE i \in 1..n-1
    <3>1. i \in 1..n /\ i + 1 \in 1..n
      BY <1>3
    <3>2. Waits(i) /\ Target(FieldAt(i)) = ClassAt(i+1)
      BY DEF IInv, Linked
    <3>. QED  BY <1>4, <3>1, <3>2 DEF FieldAt
  <2>6. \E k \in DOMAIN Fields(C[n]) :
            IsFK(Fields(C[n])[k]) /\ Target(Fields(C[n])[k]) = C[j]
    BY <1>2, <1>3, <1>4, <2>2 DEF FieldAt
  <2> HIDE DEF C, n
  <2>7. C[n] \notin Acyclic
    BY <1>3, <2>2, <2>3, <2>4, <2>5, <2>6, CycleNotAcyclic
  <2>. QED  BY <1>6, <2>2, <2>7
<1>9. metas[signal.of].built
  BY <1>5, <1>8
<1>. QED  BY <1>5, <1>7, <1>9 DEF IInv, BuiltValid

LEMMA CheckTargetStep ==
    ASSUME IInv, CheckTarget
    PROVE  IInv'
<1>1. /\ stack # <<>> /\ signal.kind = "return"
      /\ UNCHANGED <<metas, cache, proxies, proxyCache, held, caller, calls>>
  BY DEF CheckTarget
<1>2. signal # Raising
  BY <1>1, SignalKinds
<1>3. ~Idle /\ Waits(Len(stack)) /\ TopField = FieldAt(Len(stack)) /\ TopClass = ClassAt(Len(stack))
      /\ Top.done = stack[Len(stack)].done
  BY <1>1 DEF IInv, SignalSent, Wanted, TopField, FieldAt, TopClass, ClassAt, Top
<1>4. CASE Matches(TopField)
  <2>1. Sound(TopClass, Top.done + 1)
    BY <1>1, <1>4, TargetSound
  <2>2. Top.done < Len(Fields(TopClass))
    BY <1>3 DEF Waits
  <2>3. Checked /\ signal' = Quiet
    BY <1>4 DEF CheckTarget
  <2>. QED  BY <1>1, <1>2, <2>1, <2>2, <2>3, CheckedStep
<1>5. CASE ~Matches(TopField)
  <2> DEFINE n == Len(stack)
  <2>1. signal' = Raising /\ UNCHANGED stack
    BY <1>5 DEF CheckTarget
  <2>2. ClassAt(n) \notin Valid
    <3>1. stack[n].done + 1 \in DOMAIN Fields(ClassAt(n)) /\ IsFK(FieldAt(n))
      BY <1>1, <1>3, StackFacts, FieldsCount DEF Waits
    <3>. QED  BY <1>3, <1>5, <3>1, ValidConsistent DEF Consistent, FieldAt
  <2>3. SignalSent'
    <3>1. ~Idle' /\ ClassAt(n)' = ClassAt(n) /\ n' = n /\ stack' # <<>>
      BY <1>1, <1>3, <2>1 DEF Idle, ClassAt
    <3>2. signal'.kind = "raise"
      BY <2>1, SignalKinds
    <3>. QED  BY <2>2, <3>1, <3>2 DEF SignalSent
  <2>. QED  BY <1>1, <2>1, <2>3, SignalStep DEF Signals
<1>. QED  BY <1>4, <1>5

LEMMA PopAt ==
    ASSUME NEW S, NEW s \in Seq(S), s # <<>>
    PROVE  LET t == SubSeq(s, 1, Len(s) - 1)
           IN  t \in Seq(S) /\ Len(t) = Len(s) - 1 /\ \A i \in 1..Len(s)-1 : t[i] = s[i]
<1>1. Len(s) \in Nat \ {0} /\ \A i \in 1..Len(s) : s[i] \in S
  OBVIOUS
<1>2. 1 \in Int /\ Len(s) - 1 \in Int /\ \A i \in 1..Len(s)-1 : s[i] \in S
  BY <1>1
<1> DEFINE t == SubSeq(s, 1, Len(s) - 1)
<1>3. /\ t \in Seq(S)
      /\ Len(t) = IF 1 <= Len(s) - 1 THEN (Len(s) - 1) - 1 + 1 ELSE 0
      /\ \A i \in 1..(Len(s) - 1) - 1 + 1 : t[i] = s[1 + i - 1]
  BY <1>2, SubSeqProperties
<1> HIDE DEF t
<1>4. t \in Seq(S) /\ Len(t) = Len(s) - 1 /\ \A i \in 1..Len(s)-1 : t[i] = s[i]
  <2>1. Len(t) = Len(s) - 1
    <3>1. CASE Len(s) = 1
      BY <1>3, <3>1
    <3>2. CASE Len(s) # 1
      <4>1. \A n \in Nat \ {0} : n # 1 => 1 <= n - 1
        OBVIOUS
      <4>2. \A n \in Nat \ {0} : (n - 1) - 1 + 1 = n - 1
        OBVIOUS
      <4>3. 1 <= Len(s) - 1
        BY <1>1, <3>2, <4>1
      <4>4. (Len(s) - 1) - 1 + 1 = Len(s) - 1
        BY <1>1, <4>2
      <4>. QED  BY <1>3, <4>3, <4>4
    <3>. QED  BY <3>1, <3>2
  <2>2. ASSUME NEW i \in 1..Len(s)-1 PROVE t[i] = s[i]
    <3>1. i \in 1..(Len(s) - 1) - 1 + 1 /\ 1 + i - 1 = i
      BY <1>1
    <3>2. t[i] = s[1 + i - 1]
      BY <1>3, <3>1
    <3>. QED  BY <3>1, <3>2
  <2>. QED  BY <1>3, <2>1, <2>2
<1>. QED  BY <1>4 DEF t

\* The innermost call returns or raises: the others are where they were.
LEMMA PopFacts ==
    ASSUME IInv, stack # <<>>, Pop
    PROVE  /\ Len(stack) \in Nat \ {0} /\ Len(stack) \in 1..Len(stack)
           /\ stack' \in Seq(Frames) /\ Len(stack') = Len(stack) - 1
           /\ \A i \in 1..Len(stack)-1 : stack'[i] = stack[i] /\ i \in 1..Len(stack) /\ i # Len(stack)
           /\ stack' = <<>> <=> Len(stack) = 1
           /\ Top = stack[Len(stack)] /\ TopClass = ClassAt(Len(stack))
<1>1. Len(stack) \in Nat \ {0} /\ Len(stack) \in 1..Len(stack)
  BY StackFacts
<1>2. /\ stack' \in Seq(Frames) /\ Len(stack') = Len(stack) - 1
      /\ \A i \in 1..Len(stack)-1 : stack'[i] = stack[i]
  BY PopAt DEF IInv, Shapes, Pop
<1>3. stack' = <<>> <=> Len(stack') = 0
  BY <1>2
<1>4. \A i \in 1..Len(stack)-1 : i \in 1..Len(stack) /\ i # Len(stack)
  BY <1>1
<1>. QED  BY <1>1, <1>2, <1>3, <1>4 DEF Top, TopClass, ClassAt

LEMMA BuildStep ==
    ASSUME IInv, Build
    PROVE  IInv'
<1> DEFINE n == Len(stack)
           m == stack[n].meta
           c == ClassAt(n)
           new == [metas[m] EXCEPT !.built = TRUE]
<1>1. /\ signal = Quiet /\ stack # <<>> /\ stack[n].done = Len(Fields(c))
      /\ metas' = [metas EXCEPT ![m] = new]
      /\ signal' = Returning(m) /\ Pop
      /\ UNCHANGED <<cache, proxies, proxyCache, held, caller, calls>>
  <2>1. /\ Top = stack[n] /\ TopClass = c
    BY DEF Top, TopClass, ClassAt
  <2>2. metas' = [metas EXCEPT ![m].built = TRUE]
    BY <2>1 DEF Build
  <2>. QED  BY <2>1, <2>2 DEF Build, Validating
<1>2. /\ n \in Nat \ {0} /\ n \in 1..n
      /\ stack' \in Seq(Frames) /\ Len(stack') = n - 1
      /\ \A i \in 1..n-1 : stack'[i] = stack[i] /\ i \in 1..n /\ i # n
      /\ stack' = <<>> <=> n = 1
  BY <1>1, PopFacts
<1>3. /\ m \in Metas /\ metas[m] \in MetaRecords /\ metas[m].cls = c /\ c \in Classes
      /\ ~metas[m].built /\ metas[m].ready /\ Structured(c) /\ cache[c] = m
      /\ metas[m] # None /\ signal # Raising
  <2>1. signal # Raising
    BY <1>1, SignalKinds
  <2>. QED  BY <1>2, <2>1, StackFacts DEF IInv, Stacked, ClassAt
<1>4. new \in MetaRecords /\ new # None /\ new.cls = c /\ new.built /\ new.ready
  <2>1. \A r \in MetaRecords :
            LET x == [r EXCEPT !.built = TRUE]
            IN  x \in MetaRecords /\ x.cls = r.cls /\ x.built = TRUE /\ x.ready = r.ready
    BY DEF MetaRecords
  <2>. QED  BY <1>3, <2>1, NoneAssumption
<1>5. ~Idle /\ c \in Classes
  BY <1>1, <1>3 DEF IInv, Linked
<1>6. c \in Acyclic => c \in Valid
  <2> SUFFICES ASSUME c \in Acyclic PROVE c \in Valid
    OBVIOUS
  <2>1. \A k \in DOMAIN Fields(c) : Sound(c, k)
    BY <1>1, <1>2, <1>3, FieldsCount DEF IInv, FieldsChecked
  <2>2. \A k \in DOMAIN Fields(c) : IsFK(Fields(c)[k]) =>
            Matches(Fields(c)[k]) /\ Target(Fields(c)[k]) \in Valid \cup {c}
    BY <2>1 DEF Sound
  <2> HIDE DEF c
  <2>. QED  BY <1>3, <2>2, ValidGrows
<1>7. \A i \in 1..n-1 : stack[i].meta \in Metas /\ stack[i].meta # m
  BY <1>2, StackFacts DEF IInv, Distinct
<1> HIDE DEF new
<1>8. \A x \in Metas : metas'[x] = IF x = m THEN new ELSE metas[x]
  BY <1>1, <1>3 DEF IInv, Shapes
<1>9. \A i \in 1..n-1 : /\ stack'[i] = stack[i] /\ metas'[stack[i].meta] = metas[stack[i].meta]
                        /\ ClassAt(i)' = ClassAt(i) /\ FieldAt(i)' = FieldAt(i)
  BY <1>2, <1>7, <1>8 DEF ClassAt, FieldAt
<1>10. \A x : OnStack(x) => OnStack(x)' \/ x = m
  <2> SUFFICES ASSUME NEW x, OnStack(x), x # m PROVE OnStack(x)'
    OBVIOUS
  <2>1. PICK i \in 1..n : stack[i].meta = x
    BY DEF OnStack
  <2>2. i \in 1..n-1
    BY <1>2, <2>1
  <2>. QED  BY <1>2, <2>1, <2>2 DEF OnStack
<1> HIDE DEF m, c
<1>11. Shapes'
  BY <1>1, <1>2, <1>3, <1>4, SignalKinds DEF IInv, Shapes, Signals
<1>12. ProxiesLive' /\ Singletons' /\ Refused'
  BY <1>1, ProxySideKept
<1>13. Shared'
  <2>1. \A p \in Proxies : proxies[p] # None => proxies[p].meta \in Metas \cup {None}
    BY DEF IInv, Shapes, ProxyRecords
  <2>. QED  BY <1>1, <1>3, <1>8, <2>1 DEF IInv, Shared
<1>14. Entries'
  <2> SUFFICES ASSUME NEW d \in Classes, cache[d] # None
               PROVE  /\ metas'[cache[d]] # None
                      /\ metas'[cache[d]].cls = d
                      /\ \/ metas'[cache[d]].built /\ metas'[cache[d]].ready
                         \/ \E i \in 1..Len(stack') : stack'[i].meta = cache[d]
    BY <1>1 DEF Entries, OnStack
  <2>1. /\ cache[d] \in Metas /\ metas[cache[d]] # None /\ metas[cache[d]].cls = d
        /\ (metas[cache[d]].built /\ metas[cache[d]].ready) \/ OnStack(cache[d])
    BY DEF IInv, Shapes, Entries
  <2>2. CASE cache[d] = m
    BY <1>3, <1>4, <1>8, <2>1, <2>2
  <2>3. CASE cache[d] # m
    <3>1. OnStack(cache[d]) => \E i \in 1..Len(stack') : stack'[i].meta = cache[d]
      BY <1>10, <2>3 DEF OnStack
    <3>2. metas'[cache[d]] = metas[cache[d]]
      BY <1>8, <2>1, <2>3
    <3>. QED  BY <2>1, <3>1, <3>2
  <2>. QED  BY <2>2, <2>3
<1>15. Stacked'
  <2> SUFFICES ASSUME NEW i \in 1..n-1
               PROVE  /\ metas'[stack'[i].meta] # None
                      /\ ~metas'[stack'[i].meta].built
                      /\ cache'[ClassAt(i)'] = stack'[i].meta
                      /\ metas'[stack'[i].meta].ready
                      /\ Structured(ClassAt(i)')
                      /\ stack'[i].done <= Len(Fields(ClassAt(i)'))
    BY <1>2 DEF Stacked
  <2>1. /\ metas[stack[i].meta] # None /\ ~metas[stack[i].meta].built
        /\ cache[ClassAt(i)] = stack[i].meta /\ metas[stack[i].meta].ready
        /\ Structured(ClassAt(i)) /\ stack[i].done <= Len(Fields(ClassAt(i)))
    BY <1>2, <1>3 DEF IInv, Stacked
  <2>. QED  BY <1>1, <1>9, <2>1
<1>16. Distinct'
  BY <1>2 DEF IInv, Distinct
<1>17. FieldsChecked'
  BY <1>2, <1>9 DEF IInv, FieldsChecked
<1>18. stack' # <<>> => n - 1 \in 1..n-1 /\ 1 \in 1..n-1
  BY <1>2
<1>19. Linked'
  <2>1. stack' # <<>> => ~Idle' /\ ClassAt(1)' = proxies'[caller'.proxy].cls
    BY <1>1, <1>5, <1>9, <1>18 DEF IInv, Linked, Idle
  <2>2. ASSUME NEW i \in 1..Len(stack')-1
        PROVE  Waits(i)' /\ Target(FieldAt(i))' = ClassAt(i+1)'
    <3>1. i \in 1..n-1 /\ i + 1 \in 1..n-1
      BY <1>2
    <3>. QED  BY <1>9, <3>1 DEF IInv, Linked, Waits
  <2>. QED  BY <2>1, <2>2 DEF Linked
<1>20. \A d : d = c => Wanted(d)'
  <2>1. ~Idle' /\ caller' = caller /\ proxies' = proxies
    BY <1>1, <1>5 DEF Idle
  <2>2. CASE n = 1
    <3>1. stack' = <<>> /\ c = proxies[caller.proxy].cls
      BY <1>1, <1>2, <2>2 DEF IInv, Linked, c
    <3>. QED  BY <2>1, <3>1 DEF Wanted
  <2>3. CASE n # 1
    <3>1. n - 1 \in 1..n-1 /\ stack' # <<>>
      BY <1>2, <2>3
    <3>2. PICK k \in 1..n-1 : k = n - 1
      BY <3>1
    <3>3. Waits(k) /\ Target(FieldAt(k)) = c
      BY <1>2, <3>2 DEF IInv, Linked, c
    <3>4. Waits(k)' /\ Target(FieldAt(k)') = c
      BY <1>9, <3>3 DEF Waits
    <3>5. Len(stack') = k
      BY <1>2, <3>2
    <3>. QED  BY <2>1, <3>1, <3>4, <3>5 DEF Wanted, Waits, FieldAt, ClassAt
  <2>. QED  BY <2>2, <2>3
<1>21. SignalSent'
  <2>1. signal'.kind = "return" /\ signal'.of = m
    BY <1>1, SignalKinds
  <2>2. metas'[m] # None /\ metas'[m].ready /\ metas'[m].built /\ metas'[m].cls = c
    BY <1>3, <1>4, <1>8
  <2>3. cache'[metas'[m].cls] = m
    BY <1>1, <1>3, <2>2
  <2>. QED  BY <1>20, <2>1, <2>2, <2>3 DEF SignalSent
<1>22. BuiltValid'
  BY <1>4, <1>6, <1>8 DEF IInv, BuiltValid
<1>. QED  BY <1>11, <1>12, <1>13, <1>14, <1>15, <1>16, <1>17, <1>19, <1>21, <1>22 DEF IInv

LEMMA PushAt ==
    ASSUME NEW S, NEW s \in Seq(S), NEW f \in S
    PROVE  LET t == Append(s, f)
           IN  /\ t \in Seq(S) /\ Len(t) = Len(s) + 1 /\ t # <<>>
               /\ t[Len(s) + 1] = f /\ \A i \in 1..Len(s) : t[i] = s[i]
  OBVIOUS

LEMMA IntrospectStep ==
    ASSUME IInv, Introspect
    PROVE  IInv'
<1> DEFINE n == Len(stack)
           c == signal.of
           m == Fresh(metas)
           new == [cls |-> c, ready |-> Structured(c), built |-> FALSE]
           frame == [meta |-> m, done |-> 0]
<1>1. /\ signal.kind = "ask" /\ signal # Raising /\ c \in Classes /\ ~Known(c) /\ Wanted(c) /\ ~Idle
      /\ UNCHANGED <<proxies, proxyCache, held, caller, calls>>
  BY SignalTypes, SignalKinds DEF Introspect, IInv, SignalSent, Wanted
<1>2. cache[c] = None
  <2> SUFFICES ASSUME cache[c] # None PROVE FALSE
    OBVIOUS
  <2>1. ~metas[cache[c]].ready
    BY <1>1 DEF Known
  <2>2. OnStack(cache[c])
    BY <1>1, <2>1 DEF IInv, Entries
  <2>. QED  BY <1>1, <2>1, <2>2 DEF IInv, Stacked, OnStack
<1>3. m \in Metas /\ metas[m] = None /\ m # None
  BY <1>2, FreshMeta, PlacesAssumption DEF Introspect, IInv
<1>4. /\ metas' = [metas EXCEPT ![m] = new]
      /\ cache' = [cache EXCEPT ![c] = m]
      /\ stack' = Append(stack, frame)
      /\ signal' = IF Structured(c) THEN Quiet ELSE Raising
  BY <1>2 DEF Introspect
<1>5. new \in MetaRecords /\ new # None /\ new.cls = c /\ ~new.built /\ new.ready = Structured(c)
  <2>1. Structured(c) \in BOOLEAN
    BY DEF Structured
  <2>2. new \in MetaRecords
    BY <1>1, <2>1 DEF MetaRecords
  <2>. QED  BY <2>2, NoneAssumption
<1>6. frame \in Frames /\ frame.meta = m /\ frame.done = 0
  BY <1>3 DEF Frames
<1> HIDE DEF new, frame, m, c
<1>7. /\ n \in Nat /\ stack' \in Seq(Frames) /\ Len(stack') = n + 1 /\ stack' # <<>>
      /\ stack'[n + 1] = frame /\ \A i \in 1..n : stack'[i] = stack[i]
  BY <1>4, <1>6, PushAt DEF IInv, Shapes
<1>8. /\ \A x \in Metas : metas'[x] = IF x = m THEN new ELSE metas[x]
      /\ \A d \in Classes : cache'[d] = IF d = c THEN m ELSE cache[d]
  BY <1>3, <1>4 DEF IInv, Shapes
<1>9. \A i \in 1..n : /\ stack[i].meta \in Metas /\ stack[i].meta # m
                      /\ metas'[stack[i].meta] = metas[stack[i].meta]
                      /\ ClassAt(i)' = ClassAt(i) /\ FieldAt(i)' = FieldAt(i)
                      /\ ClassAt(i) \in Classes /\ ClassAt(i) # c
  <2>1. \A i \in 1..n : /\ stack[i].meta \in Metas /\ stack[i].meta # m /\ stack[i].meta # None
                        /\ ClassAt(i) \in Classes /\ ClassAt(i) # c
    BY <1>2, <1>3, StackFacts, PlacesAssumption DEF IInv, Stacked
  <2>. QED  BY <1>7, <1>8, <2>1 DEF ClassAt, FieldAt
<1>10. PICK k \in Nat : k = n + 1
  BY <1>7
<1>11. ClassAt(k)' = c /\ stack'[k] = frame /\ stack'[k].meta = m /\ stack'[k].done = 0
  BY <1>3, <1>5, <1>6, <1>7, <1>8, <1>10 DEF ClassAt
<1>12. Shapes'
  <2>1. metas' \in [Metas -> MetaRecords \cup {None}] /\ cache' \in [Classes -> Metas \cup {None}]
    BY <1>1, <1>3, <1>4, <1>5 DEF IInv, Shapes
  <2>. QED  BY <1>1, <1>4, <1>7, <2>1 DEF IInv, Shapes, Signals
<1>13. ProxiesLive' /\ Singletons' /\ Refused'
  BY <1>1, ProxySideKept
<1>14. Shared'
  <2>1. \A p \in Proxies : proxies[p] # None =>
            proxies[p].meta \in Metas \cup {None} /\ proxies[p].cls \in Classes
    BY DEF IInv, Shapes, ProxyRecords
  <2>. QED  BY <1>1, <1>2, <1>3, <1>8, <2>1 DEF IInv, Shared
<1>15. Entries'
  <2> SUFFICES ASSUME NEW d \in Classes, cache'[d] # None
               PROVE  /\ metas'[cache'[d]] # None
                      /\ metas'[cache'[d]].cls = d
                      /\ \/ metas'[cache'[d]].built /\ metas'[cache'[d]].ready
                         \/ \E i \in 1..Len(stack') : stack'[i].meta = cache'[d]
    BY DEF Entries, OnStack
  <2>1. CASE d = c
    <3>1. cache'[d] = m /\ metas'[m] = new /\ k \in 1..Len(stack')
      BY <1>3, <1>7, <1>8, <1>10, <2>1
    <3>. QED  BY <1>5, <1>11, <2>1, <3>1
  <2>2. CASE d # c
    <3>1. /\ cache'[d] = cache[d] /\ cache[d] \in Metas /\ metas[cache[d]] # None
          /\ metas[cache[d]].cls = d
          /\ (metas[cache[d]].built /\ metas[cache[d]].ready) \/ OnStack(cache[d])
      BY <1>8, <2>2 DEF IInv, Shapes, Entries
    <3>2. metas'[cache[d]] = metas[cache[d]]
      BY <1>3, <1>8, <3>1
    <3>3. OnStack(cache[d]) => \E i \in 1..Len(stack') : stack'[i].meta = cache[d]
      BY <1>7 DEF OnStack
    <3>. QED  BY <3>1, <3>2, <3>3
  <2>. QED  BY <2>1, <2>2
<1>16. Stacked'
  <2> SUFFICES ASSUME NEW i \in 1..n+1
               PROVE  /\ metas'[stack'[i].meta] # None
                      /\ ~metas'[stack'[i].meta].built
                      /\ cache'[ClassAt(i)'] = stack'[i].meta
                      /\ metas'[stack'[i].meta].ready \/ (i = Len(stack') /\ signal' = Raising)
                      /\ metas'[stack'[i].meta].ready => Structured(ClassAt(i)')
                      /\ stack'[i].done <= Len(Fields(ClassAt(i)'))
    BY <1>7 DEF Stacked
  <2>1. CASE i \in 1..n
    <3>1. /\ metas[stack[i].meta] # None /\ ~metas[stack[i].meta].built
          /\ cache[ClassAt(i)] = stack[i].meta /\ metas[stack[i].meta].ready
          /\ Structured(ClassAt(i)) /\ stack[i].done <= Len(Fields(ClassAt(i)))
      BY <1>1, <2>1 DEF IInv, Stacked
    <3>. QED  BY <1>7, <1>8, <1>9, <2>1, <3>1
  <2>2. CASE i = k
    <3>1. metas'[m] = new /\ cache'[c] = m
      BY <1>1, <1>3, <1>8
    <3>2. 0 <= Len(Fields(c))
      BY <1>1, FieldsCount
    <3>3. ~Structured(c) => signal' = Raising
      BY <1>4
    <3>. QED  BY <1>5, <1>7, <1>10, <1>11, <2>2, <3>1, <3>2, <3>3
  <2>. QED  BY <1>7, <1>10, <2>1, <2>2
<1>17. Distinct'
  <2> SUFFICES ASSUME NEW i \in 1..n+1, NEW j \in 1..n+1, stack'[i].meta = stack'[j].meta
               PROVE  i = j
    BY <1>7 DEF Distinct
  <2>1. \A l \in 1..n+1 : l \in 1..n \/ l = k
    BY <1>7, <1>10
  <2>2. \A l \in 1..n : stack'[l].meta # stack'[k].meta /\ stack'[l] = stack[l]
    BY <1>7, <1>9, <1>11
  <2>. QED  BY <2>1, <2>2 DEF IInv, Distinct
<1>18. Linked'
  <2>1. ClassAt(1)' = proxies[caller.proxy].cls
    <3>1. CASE n = 0
      <4>1. stack = <<>>
        BY <3>1 DEF IInv, Shapes
      <4>. QED  BY <1>1, <1>10, <1>11, <3>1, <4>1 DEF Wanted
    <3>2. CASE n # 0
      <4>1. 1 \in 1..n /\ stack # <<>>
        BY <1>7, <3>2
      <4>. QED  BY <1>9, <4>1 DEF IInv, Linked
    <3>. QED  BY <3>1, <3>2
  <2>2. ASSUME NEW i \in 1..n
        PROVE  Waits(i)' /\ Target(FieldAt(i)') = ClassAt(i+1)'
    <3>1. CASE i = n
      <4>1. stack # <<>>
        BY <1>7, <3>1
      <4>2. Waits(i) /\ Target(FieldAt(i)) = c
        BY <1>1, <3>1, <4>1 DEF Wanted
      <4>3. ClassAt(i+1)' = c
        BY <1>10, <1>11, <3>1
      <4>. QED  BY <1>7, <1>9, <4>2, <4>3 DEF Waits
    <3>2. CASE i # n
      <4>1. i \in 1..n-1 /\ i + 1 \in 1..n
        BY <1>7, <3>2
      <4>2. Waits(i) /\ Target(FieldAt(i)) = ClassAt(i+1)
        BY <4>1 DEF IInv, Linked
      <4>3. ClassAt(i+1)' = ClassAt(i+1)
        BY <1>9, <4>1
      <4>. QED  BY <1>7, <1>9, <4>2, <4>3 DEF Waits
    <3>. QED  BY <3>1, <3>2
  <2>3. Len(stack') - 1 = n
    BY <1>7
  <2>. QED  BY <1>1, <2>1, <2>2, <2>3 DEF Linked, Idle
<1>19. SignalSent'
  <2>1. CASE Structured(c)
    BY <1>1, <1>4, <1>7, <2>1, SignalKinds DEF SignalSent, Idle
  <2>2. CASE ~Structured(c)
    <3>1. c \notin Valid
      BY <2>2, ValidConsistent DEF Consistent
    <3>2. signal'.kind = "raise" /\ Len(stack') = k
      BY <1>4, <1>7, <1>10, <2>2, SignalKinds
    <3>. QED  BY <1>1, <1>7, <1>11, <3>1, <3>2 DEF SignalSent, Idle, ClassAt
  <2>. QED  BY <2>1, <2>2
<1>20. FieldsChecked'
  <2> SUFFICES ASSUME NEW i \in 1..n+1, NEW l \in 1..stack'[i].done
               PROVE  Sound(ClassAt(i)', l)
    BY <1>7 DEF FieldsChecked
  <2>1. i # k
    BY <1>11
  <2>2. i \in 1..n
    BY <1>7, <1>10, <2>1
  <2>. QED  BY <1>7, <1>9, <2>2 DEF IInv, FieldsChecked
<1>21. BuiltValid'
  BY <1>5, <1>8 DEF IInv, BuiltValid
<1>. QED  BY <1>12, <1>13, <1>14, <1>15, <1>16, <1>17, <1>18, <1>19, <1>20, <1>21 DEF IInv

LEMMA EvictStep ==
    ASSUME IInv, Evict
    PROVE  IInv'
<1> DEFINE n == Len(stack)
           m == stack[n].meta
           c == ClassAt(n)
<1>1. /\ stack # <<>> /\ signal.kind = "raise" /\ signal = Raising /\ Pop
      /\ metas' = [metas EXCEPT ![m] = None]
      /\ cache' = [cache EXCEPT ![c] = None]
      /\ UNCHANGED <<proxies, proxyCache, held, signal, caller, calls>>
  BY SignalTypes DEF IInv, Evict, Top, TopClass, ClassAt
<1>2. /\ n \in Nat \ {0} /\ n \in 1..n
      /\ stack' \in Seq(Frames) /\ Len(stack') = n - 1
      /\ \A i \in 1..n-1 : stack'[i] = stack[i] /\ i \in 1..n /\ i # n
      /\ stack' = <<>> <=> n = 1
  BY <1>1, PopFacts
<1>3. /\ m \in Metas /\ metas[m].cls = c /\ c \in Classes
      /\ ~metas[m].built /\ cache[c] = m /\ c \notin Valid
  BY <1>1, <1>2, StackFacts DEF IInv, Stacked, SignalSent, ClassAt
<1> HIDE DEF m, c
<1>4. ~Idle
  BY <1>1 DEF IInv, SignalSent
<1>5. /\ \A x \in Metas : metas'[x] = IF x = m THEN None ELSE metas[x]
      /\ \A d \in Classes : cache'[d] = IF d = c THEN None ELSE cache[d]
  BY <1>1, <1>3 DEF IInv, Shapes
<1>6. \A i \in 1..n-1 : stack[i].meta \in Metas /\ stack[i].meta # m
  BY <1>2, StackFacts DEF IInv, Distinct, m
<1>7. \A i \in 1..n-1 : ClassAt(i) \in Classes /\ ClassAt(i) # c
  <2>1. \A i \in 1..n-1 : i \in 1..n
    BY <1>2
  <2>2. \A i \in 1..n : ClassAt(i) \in Classes /\ cache[ClassAt(i)] = stack[i].meta
    BY StackFacts DEF IInv, Stacked
  <2>. QED  BY <1>3, <1>6, <2>1, <2>2
<1>8. \A i \in 1..n-1 : /\ stack'[i] = stack[i] /\ metas'[stack[i].meta] = metas[stack[i].meta]
                        /\ ClassAt(i)' = ClassAt(i) /\ FieldAt(i)' = FieldAt(i)
  BY <1>2, <1>5, <1>6 DEF ClassAt, FieldAt
<1>9. \A x : (OnStack(x) /\ x # m) => \E i \in 1..Len(stack') : stack'[i].meta = x
  <2> SUFFICES ASSUME NEW x, OnStack(x), x # m
               PROVE  \E i \in 1..Len(stack') : stack'[i].meta = x
    OBVIOUS
  <2>1. PICK i \in 1..n : stack[i].meta = x
    BY DEF OnStack
  <2>2. i \in 1..n-1
    BY <1>2, <2>1 DEF m
  <2>. QED  BY <1>2, <2>1, <2>2
<1>10. Shapes'
  BY <1>1, <1>2 DEF IInv, Shapes
<1>11. ProxiesLive' /\ Singletons' /\ Refused'
  BY <1>1, ProxySideKept
<1>12. Shared'
  <2>1. \A p \in Proxies : proxies[p] # None =>
            proxies[p].meta \in Metas \cup {None} /\ proxies[p].cls \in Classes
    BY DEF IInv, Shapes, ProxyRecords
  <2>. QED  BY <1>1, <1>3, <1>5, <2>1 DEF IInv, Shared
<1>13. Entries'
  <2> SUFFICES ASSUME NEW d \in Classes, cache'[d] # None
               PROVE  /\ metas'[cache'[d]] # None
                      /\ metas'[cache'[d]].cls = d
                      /\ \/ metas'[cache'[d]].built /\ metas'[cache'[d]].ready
                         \/ \E i \in 1..Len(stack') : stack'[i].meta = cache'[d]
    BY DEF Entries, OnStack
  <2>1. /\ d # c /\ cache'[d] = cache[d] /\ cache[d] \in Metas /\ metas[cache[d]] # None
        /\ metas[cache[d]].cls = d
        /\ (metas[cache[d]].built /\ metas[cache[d]].ready) \/ OnStack(cache[d])
    BY <1>5 DEF IInv, Shapes, Entries
  <2>2. cache[d] # m /\ metas'[cache[d]] = metas[cache[d]]
    BY <1>3, <1>5, <2>1
  <2>. QED  BY <1>9, <2>1, <2>2
<1>14. Stacked'
  <2> SUFFICES ASSUME NEW i \in 1..n-1
               PROVE  /\ metas'[stack'[i].meta] # None
                      /\ ~metas'[stack'[i].meta].built
                      /\ cache'[ClassAt(i)'] = stack'[i].meta
                      /\ metas'[stack'[i].meta].ready
                      /\ Structured(ClassAt(i)')
                      /\ stack'[i].done <= Len(Fields(ClassAt(i)'))
    BY <1>2 DEF Stacked
  <2>1. /\ metas[stack[i].meta] # None /\ ~metas[stack[i].meta].built
        /\ cache[ClassAt(i)] = stack[i].meta /\ metas[stack[i].meta].ready
        /\ Structured(ClassAt(i)) /\ stack[i].done <= Len(Fields(ClassAt(i)))
    BY <1>2 DEF IInv, Stacked
  <2>. QED  BY <1>5, <1>7, <1>8, <2>1
<1>15. Distinct'
  BY <1>2 DEF IInv, Distinct
<1>16. FieldsChecked'
  BY <1>2, <1>8 DEF IInv, FieldsChecked
<1>17. stack' # <<>> => 1 \in 1..n-1
  BY <1>2
<1>18. Linked'
  <2>1. stack' # <<>> => ~Idle' /\ ClassAt(1)' = proxies'[caller'.proxy].cls
    BY <1>1, <1>4, <1>8, <1>17 DEF IInv, Linked, Idle
  <2>2. ASSUME NEW i \in 1..Len(stack')-1
        PROVE  Waits(i)' /\ Target(FieldAt(i))' = ClassAt(i+1)'
    <3>1. i \in 1..n-1 /\ i + 1 \in 1..n-1
      BY <1>2
    <3>. QED  BY <1>8, <3>1 DEF IInv, Linked, Waits
  <2>. QED  BY <2>1, <2>2 DEF Linked
<1>19. SignalSent'
  <2>1. signal'.kind = "raise" /\ ~Idle' /\ caller' = caller /\ proxies' = proxies
    BY <1>1, <1>4 DEF Idle
  <2>2. CASE n = 1
    <3>1. stack' = <<>> /\ proxies[caller.proxy].cls = c
      BY <1>1, <1>2, <2>2 DEF IInv, Linked, c
    <3>. QED  BY <1>3, <2>1, <3>1 DEF SignalSent
  <2>3. CASE n # 1
    <3>1. n - 1 \in 1..n-1 /\ stack' # <<>>
      BY <1>2, <2>3
    <3>2. PICK k \in 1..n-1 : k = n - 1
      BY <3>1
    <3>3. Waits(k) /\ Target(FieldAt(k)) = c
      BY <1>2, <3>2 DEF IInv, Linked, c
    <3>4. /\ stack[k].done \in Nat /\ ClassAt(k) \in Classes
          /\ stack[k].done + 1 \in DOMAIN Fields(ClassAt(k)) /\ IsFK(FieldAt(k))
      BY <1>2, <3>3, StackFacts, FieldsCount DEF Waits
    <3>5. ClassAt(k) \notin Valid
      BY <1>3, <3>3, <3>4, ValidConsistent DEF Consistent, FieldAt
    <3>6. ClassAt(k)' \notin Valid /\ Len(stack') = k
      BY <1>2, <1>8, <3>2, <3>5
    <3>. QED  BY <2>1, <3>1, <3>6 DEF SignalSent, ClassAt
  <2>. QED  BY <2>2, <2>3
<1>20. BuiltValid'
  BY <1>5 DEF IInv, BuiltValid
<1>. QED  BY <1>10, <1>11, <1>12, <1>13, <1>14, <1>15, <1>16, <1>18, <1>19, <1>20 DEF IInv

LEMMA StutterStep == ASSUME IInv, UNCHANGED registryVars PROVE IInv'
<1>1. held' \in [Holders -> SUBSET Proxies] /\ calls' \in 0..MaxCalls
  BY DEF IInv, Shapes, registryVars
<1>2. \A h \in Holders : \A p \in held'[h] : proxies[p] # None
  BY DEF IInv, ProxiesLive, registryVars
<1>. QED  BY <1>1, <1>2, HeldStep DEF registryVars

LEMMA ProgramStep == ASSUME IInv, NEW h \in Holders, Program(h) PROVE IInv'
  BY TableCachedStep, TableNewStep, ASStep, ForgetStep DEF Program

LEMMA ConstructStep == ASSUME IInv, Construct PROVE IInv'
  BY DeliverStep, FailStep, HitStep, IntrospectStep, NextFieldStep, CheckTargetStep,
     BuildStep, EvictStep DEF Construct

LEMMA CollectStep == ASSUME IInv, Collect PROVE IInv'
  BY CollectMetaStep, CollectProxyStep DEF Collect

LEMMA NextInv == ASSUME IInv, [RegistryNext]_registryVars PROVE IInv'
  BY ProgramStep, ConstructStep, CollectStep, StutterStep DEF RegistryNext

----------------------------------------------------------------------------
(* What follows from the invariant.                                        *)

LEMMA ProxyTypes ==
    ASSUME IInv, NEW p \in Used(proxies)
    PROVE  /\ p \in Proxies /\ proxies[p] # None /\ proxies[p] \in ProxyRecords
           /\ proxies[p].cls \in Classes /\ proxies[p].meta \in Metas \cup {None}
<1>1. p \in Proxies /\ proxies[p] # None
  BY DEF IInv, Shapes, Used
<1>2. proxies[p] \in ProxyRecords
  BY <1>1 DEF IInv, Shapes
<1>. QED  BY <1>1, <1>2 DEF ProxyRecords

LEMMA InvTypes == ASSUME IInv PROVE RegistryTypeOK
<1>1. ReferredMetas \cap Metas \subseteq Used(metas)
  <2> SUFFICES ASSUME NEW m \in Metas, m \in ReferredMetas PROVE metas[m] # None
    BY DEF IInv, Shapes, Used
  <2>1. CASE m \in {proxies[p].meta : p \in Used(proxies)}
    <3>1. PICK p \in Used(proxies) : m = proxies[p].meta
      BY <2>1
    <3>. QED  BY <3>1, ProxyTypes, PlacesAssumption DEF IInv, Shared
  <2>2. CASE m \in {stack[i].meta : i \in DOMAIN stack}
    BY <2>2 DEF IInv, Stacked, Shapes
  <2>3. CASE m = signal.of
    <3>1. signal.kind = "return"
      BY <2>3, PlacesAssumption DEF IInv, Shapes, Signals, Quiet, Raising, Asking, Returning
    <3>. QED  BY <2>3, <3>1 DEF IInv, SignalSent
  <2>. QED  BY <2>1, <2>2, <2>3 DEF ReferredMetas
<1>2. ReferredProxies \subseteq Used(proxies)
  <2> SUFFICES ASSUME NEW p \in ReferredProxies PROVE p \in Proxies /\ proxies[p] # None
    BY DEF IInv, Shapes, Used
  <2>1. CASE p \in {q \in Proxies : ~Idle /\ q = caller.proxy}
    BY <2>1 DEF IInv, ProxiesLive
  <2>2. CASE p \in UNION {held[h] : h \in Holders}
    BY <2>2 DEF IInv, Shapes, ProxiesLive
  <2>. QED  BY <2>1, <2>2 DEF ReferredProxies
<1>3. ASSUME NEW c \in Classes
      PROVE  /\ cache[c] # None => cache[c] \in Used(metas) /\ metas[cache[c]].cls = c
             /\ proxyCache[c] # None =>
                   proxyCache[c] \in Used(proxies) /\ proxies[proxyCache[c]].cls = c
  BY DEF IInv, Shapes, Entries, ProxiesLive, Used
<1>. QED  BY <1>1, <1>2, <1>3 DEF IInv, Shapes, RegistryTypeOK

LEMMA InvInitialised == ASSUME IInv PROVE EveryCachedInitialised
<1> SUFFICES ASSUME Idle, NEW c \in Classes, cache[c] # None
             PROVE  /\ metas[cache[c]] # None
                    /\ metas[cache[c]] = [cls |-> c, ready |-> TRUE, built |-> TRUE]
  BY DEF EveryCachedInitialised
<1>1. stack = <<>>
  BY DEF IInv, Linked
<1>2. ~OnStack(cache[c])
  BY <1>1 DEF OnStack
<1>3. /\ metas[cache[c]] # None /\ metas[cache[c]] \in MetaRecords
      /\ metas[cache[c]].cls = c /\ metas[cache[c]].built /\ metas[cache[c]].ready
  BY <1>2 DEF IInv, Shapes, Entries
<1>4. \A r \in MetaRecords : (r.cls = c /\ r.built /\ r.ready) =>
          r = [cls |-> c, ready |-> TRUE, built |-> TRUE]
  BY DEF MetaRecords
<1>. QED  BY <1>3, <1>4

LEMMA InvOnePerClass == ASSUME IInv PROVE OnePerClass
  BY ProxyTypes DEF IInv, Singletons, Shared, OnePerClass

LEMMA InvNeverRefused == ASSUME IInv PROVE ValidNeverRefused
  BY ProxyTypes DEF IInv, Refused, ValidNeverRefused

LEMMA InvNeverUsable == ASSUME IInv PROVE InvalidNeverUsable
<1> SUFFICES ASSUME NEW p \in Used(proxies), proxies[p].meta # None, proxies[p].cls \in Acyclic
             PROVE  proxies[p].cls \in Valid
  BY DEF InvalidNeverUsable
<1>. QED  BY ProxyTypes DEF IInv, Shared, BuiltValid

LEMMA InvNoRecursion == ASSUME IInv PROVE NoRecursion
<1>1. DOMAIN stack = 1..Len(stack)
  BY DEF IInv, Shapes
<1>2. \A i \in 1..Len(stack) : cache[ClassAt(i)] = stack[i].meta
  BY DEF IInv, Stacked
<1>. QED  BY <1>1, <1>2 DEF IInv, Distinct, NoRecursion, ClassAt

LEMMA SpecInv == RegistrySpec => []IInv
<1>1. IInv /\ [RegistryNext]_registryVars => IInv'
  BY NextInv
<1>. QED  BY InitInv, <1>1, PTL DEF RegistrySpec

\* The types are right, no reference dangles, and no weak entry outlives its
\* object or names one of another class.
THEOREM TypesHold == RegistrySpec => []RegistryTypeOK
  BY SpecInv, InvTypes, PTL

\* Between calls meta._cache holds fully built TableMeta objects only, whatever
\* classes, however they refer to one another and whichever of them fail.
THEOREM CacheInitialised == RegistrySpec => []EveryCachedInitialised
  BY SpecInv, InvInitialised, PTL

\* A class has one proxy and one TableMeta for as long as one is referred to.
THEOREM ProxiesUnique == RegistrySpec => []OnePerClass
  BY SpecInv, InvOnePerClass, PTL

\* A class that is a valid model never fails to introspect.
THEOREM ValidAccepted == RegistrySpec => []ValidNeverRefused
  BY SpecInv, InvNeverRefused, PTL

\* A class whose foreign keys lead to a mistake without leading round never works.
THEOREM InvalidRefused == RegistrySpec => []InvalidNeverUsable
  BY SpecInv, InvNeverUsable, PTL

\* No class is introspected while its introspection is under way.
THEOREM NeverRecurses == RegistrySpec => []NoRecursion
  BY SpecInv, InvNoRecursion, PTL

=============================================================================
