---------------------------- MODULE Transaction ----------------------------
(***************************************************************************)
(* cygnet.transaction (src/cygnet/__init__.py): the async context manager  *)
(* that turns nested `async with` blocks into BEGIN/COMMIT at the outside  *)
(* and SAVEPOINT/RELEASE inside.  Several asyncio tasks use one db handle. *)
(* Every `await db.execute(...)` is three steps: the task sends the        *)
(* statement, the server runs it, the task resumes with the reply; any     *)
(* other task may run between them.  The server is PostgreSQL with the     *)
(* connection in autocommit mode, as the handle's users create it.         *)
(***************************************************************************)
EXTENDS Naturals, Sequences

CONSTANTS
    Tasks,        \* asyncio tasks that share the db handle
    Insts,        \* transaction instances; sp_{id(self)} is the instance
    Writes,       \* rows a statement may write, each at most once
    None,         \* Python's None
    Serialised,   \* TRUE: a task starts using the handle only when no other does
    Cancellable,  \* TRUE: a task may be cancelled while it awaits a statement
    MaxSavepoints \* bound: savepoints on the server (cancelled exits leak them)

ASSUME NoneAssumption == None \notin Tasks /\ None \notin Insts /\ None \notin Writes
ASSUME FlagsAssumption == Serialised \in BOOLEAN /\ Cancellable \in BOOLEAN
ASSUME BoundAssumption == MaxSavepoints \in Nat

VARIABLES
    flag,         \* db._in_transaction
    owner,        \* db._transaction_task
    savepoint,    \* savepoint[i]: instance i's _savepoint is a name, not None
    stack,        \* stack[t]: instances whose block task t is inside, innermost last
    stmt,         \* stmt[t]: the statement task t awaits
    exc,          \* exc[t]: an exception is propagating in task t
    alive,        \* the connection is up
    srv,          \* the server's view: "idle", "open" or "aborted"
    sps,          \* the server's savepoints, oldest first
    work,         \* rows written in the server's open transaction
    durable       \* committed rows

handle == <<flag, owner>>
client == <<flag, owner, savepoint, stack, exc>>
server == <<alive, srv, sps, work, durable>>
vars == <<flag, owner, savepoint, stack, exc, stmt, alive, srv, sps, work, durable>>

Replies == {"ok", "error", "cancelled"}
Entering == {"BEGIN", "SAVEPOINT"}
Ending == {"COMMIT", "ROLLBACK"}
Leaving == Ending \cup {"RELEASE", "ROLLBACK TO"}

Idle == [kind |-> "none", arg |-> None, phase |-> "none"]
Statements == {Idle} \cup
    [kind : Entering \cup Leaving, arg : Insts, phase : {"sent"} \cup Replies] \cup
    [kind : {"write"}, arg : Writes, phase : {"sent"} \cup Replies]

Init ==
    /\ flag = FALSE
    /\ owner = None
    /\ savepoint = [i \in Insts |-> FALSE]
    /\ stack = [t \in Tasks |-> <<>>]
    /\ stmt = [t \in Tasks |-> Idle]
    /\ exc = [t \in Tasks |-> FALSE]
    /\ alive = TRUE
    /\ srv = "idle"
    /\ sps = <<>>
    /\ work = {}
    /\ durable = {}

----------------------------------------------------------------------------
(* The task side: cygnet.transaction and the code inside its blocks.       *)

Running(t) == stmt[t] = Idle

On(t, i) == \E k \in 1..Len(stack[t]) : stack[t][k] = i

\* Re-entering an instance that is still entered is documented as unsupported.
InUse(i) == \E t \in Tasks : On(t, i) \/ stmt[t].arg = i

\* With Serialised, whoever uses the handle has it to itself.
Busy(t) == stack[t] # <<>> \/ ~Running(t)
MayUse(t) == Serialised => \A u \in Tasks \ {t} : ~Busy(u)

Innermost(t) == stack[t][Len(stack[t])]

Send(t, kind, arg) ==
    stmt' = [stmt EXCEPT ![t] = [kind |-> kind, arg |-> arg, phase |-> "sent"]]

Returned(t, kinds) == stmt[t].kind \in kinds /\ stmt[t].phase \in Replies

Pop(t) == stack' = [stack EXCEPT ![t] = SubSeq(@, 1, Len(@) - 1)]

\* S10: the transaction on this handle was opened by another task.
Foreign(t) == owner # None /\ owner # t

\* Mutant of Enter: a BEGIN does not reset self._savepoint.
EnterKeepsSavepoint(t, i) ==
    /\ Running(t) /\ ~exc[t] /\ ~InUse(i) /\ MayUse(t)
    /\ \/ /\ flag /\ ~Foreign(t) /\ Len(sps) < MaxSavepoints
          /\ savepoint' = [savepoint EXCEPT ![i] = TRUE]
          /\ Send(t, "SAVEPOINT", i)
       \/ /\ ~flag
          /\ Send(t, "BEGIN", i)
          /\ UNCHANGED savepoint
    /\ UNCHANGED <<flag, owner, stack, exc, server>>

Enter(t, i) ==
    /\ Running(t) /\ ~exc[t] /\ ~InUse(i) /\ MayUse(t)
    /\ \/ /\ flag /\ Foreign(t)
          /\ savepoint' = [savepoint EXCEPT ![i] = FALSE]
          /\ exc' = [exc EXCEPT ![t] = TRUE]
          /\ UNCHANGED stmt
       \/ /\ flag /\ ~Foreign(t) /\ Len(sps) < MaxSavepoints
          /\ savepoint' = [savepoint EXCEPT ![i] = TRUE]
          /\ Send(t, "SAVEPOINT", i)
          /\ UNCHANGED exc
       \/ /\ ~flag
          /\ savepoint' = [savepoint EXCEPT ![i] = FALSE]
          /\ Send(t, "BEGIN", i)
          /\ UNCHANGED exc
    /\ UNCHANGED <<flag, owner, stack, server>>

\* Mutant of EnterReturns: the flag is claimed before BEGIN is known to work.
EnterReturnsClaimFirst(t) ==
    /\ Returned(t, Entering)
    /\ stmt' = [stmt EXCEPT ![t] = Idle]
    /\ stack' = IF stmt[t].phase = "ok"
                THEN [stack EXCEPT ![t] = Append(@, stmt[t].arg)] ELSE stack
    /\ IF stmt[t].kind = "BEGIN"
       THEN flag' = TRUE /\ owner' = t
       ELSE UNCHANGED handle
    /\ exc' = [exc EXCEPT ![t] = stmt[t].phase # "ok"]
    /\ UNCHANGED <<savepoint, server>>

\* Mutant of EnterReturns: the instance is recorded as the owner, not the task.
EnterReturnsOwnerIsSelf(t) ==
    /\ Returned(t, Entering) /\ stmt[t].phase = "ok"
    /\ stmt' = [stmt EXCEPT ![t] = Idle]
    /\ stack' = [stack EXCEPT ![t] = Append(@, stmt[t].arg)]
    /\ IF stmt[t].kind = "BEGIN"
       THEN flag' = TRUE /\ owner' = stmt[t].arg
       ELSE UNCHANGED handle
    /\ UNCHANGED <<savepoint, exc, server>>

\* __aenter__ resumes after its statement.  When it raises, the block is not
\* entered and __aexit__ will not run.
EnterReturns(t) ==
    /\ Returned(t, Entering)
    /\ stmt' = [stmt EXCEPT ![t] = Idle]
    /\ \/ /\ stmt[t].phase = "ok"
          /\ stack' = [stack EXCEPT ![t] = Append(@, stmt[t].arg)]
          /\ IF stmt[t].kind = "BEGIN"
             THEN flag' = TRUE /\ owner' = t
             ELSE UNCHANGED handle
          /\ UNCHANGED exc
       \/ /\ stmt[t].phase # "ok"
          /\ exc' = [exc EXCEPT ![t] = TRUE]
          /\ UNCHANGED <<stack, handle>>
    /\ UNCHANGED <<savepoint, server>>

\* Mutant of ExitStatement: it re-reads the flag to tell inner from outer.
ExitStatementByFlag(i, raised) ==
    IF flag
    THEN IF raised THEN "ROLLBACK TO" ELSE "RELEASE"
    ELSE IF raised THEN "ROLLBACK" ELSE "COMMIT"

\* __aexit__ picks its statement from _savepoint and from whether the block
\* raised.
ExitStatement(i, raised) ==
    IF savepoint[i]
    THEN IF raised THEN "ROLLBACK TO" ELSE "RELEASE"
    ELSE IF raised THEN "ROLLBACK" ELSE "COMMIT"

Exit(t) ==
    /\ Running(t) /\ stack[t] # <<>>
    /\ Send(t, ExitStatement(Innermost(t), exc[t]), Innermost(t))
    /\ UNCHANGED <<client, server>>

\* S33: a ROLLBACK TO that worked is followed by the RELEASE.
RollbackToReturns(t) ==
    /\ Returned(t, {"ROLLBACK TO"})
    /\ \/ /\ stmt[t].phase = "ok"
          /\ Send(t, "RELEASE", stmt[t].arg)
          /\ UNCHANGED stack
       \/ /\ stmt[t].phase # "ok"
          /\ stmt' = [stmt EXCEPT ![t] = Idle]
          /\ Pop(t)
    /\ UNCHANGED <<flag, owner, savepoint, exc, server>>

ReleaseReturns(t) ==
    /\ Returned(t, {"RELEASE"})
    /\ stmt' = [stmt EXCEPT ![t] = Idle]
    /\ Pop(t)
    /\ exc' = [exc EXCEPT ![t] = @ \/ stmt[t].phase # "ok"]
    /\ UNCHANGED <<flag, owner, savepoint, server>>

\* Mutants of EndReturns: no `finally`, and `except Exception` in its place,
\* which a CancelledError passes by.
EndReturnsNoFinally(t) ==
    /\ Returned(t, Ending)
    /\ stmt' = [stmt EXCEPT ![t] = Idle]
    /\ Pop(t)
    /\ exc' = [exc EXCEPT ![t] = @ \/ stmt[t].phase # "ok"]
    /\ flag' = (stmt[t].phase # "ok" /\ flag)
    /\ owner' = IF stmt[t].phase # "ok" THEN owner ELSE None
    /\ UNCHANGED <<savepoint, server>>

EndReturnsMissCancel(t) ==
    /\ Returned(t, Ending)
    /\ stmt' = [stmt EXCEPT ![t] = Idle]
    /\ Pop(t)
    /\ exc' = [exc EXCEPT ![t] = @ \/ stmt[t].phase # "ok"]
    /\ flag' = (stmt[t].phase = "cancelled" /\ flag)
    /\ owner' = IF stmt[t].phase = "cancelled" THEN owner ELSE None
    /\ UNCHANGED <<savepoint, server>>

\* The `finally`: the flag and the owner are cleared whatever the reply.
EndReturns(t) ==
    /\ Returned(t, Ending)
    /\ stmt' = [stmt EXCEPT ![t] = Idle]
    /\ Pop(t)
    /\ exc' = [exc EXCEPT ![t] = @ \/ stmt[t].phase # "ok"]
    /\ flag' = FALSE
    /\ owner' = None
    /\ UNCHANGED <<savepoint, server>>

\* The program around the blocks: it writes rows, inside a block or outside
\* any, raises, and catches what propagates to it.
Write(t, w) ==
    /\ Running(t) /\ ~exc[t] /\ MayUse(t)
    /\ w \notin work \cup durable
    /\ \A u \in Tasks : stmt[u].arg # w
    /\ Send(t, "write", w)
    /\ UNCHANGED <<client, server>>

WriteReturns(t) ==
    /\ Returned(t, {"write"})
    /\ stmt' = [stmt EXCEPT ![t] = Idle]
    /\ exc' = [exc EXCEPT ![t] = stmt[t].phase # "ok"]
    /\ UNCHANGED <<flag, owner, savepoint, stack, server>>

Raise(t) ==
    /\ Running(t) /\ ~exc[t] /\ stack[t] # <<>>
    /\ exc' = [exc EXCEPT ![t] = TRUE]
    /\ UNCHANGED <<flag, owner, savepoint, stack, stmt, server>>

Catch(t) ==
    /\ Running(t) /\ exc[t]
    /\ exc' = [exc EXCEPT ![t] = FALSE]
    /\ UNCHANGED <<flag, owner, savepoint, stack, stmt, server>>

\* Task.cancel() while the task awaits its statement: CancelledError, whether
\* the statement never left the client or its reply was about to be delivered.
Cancel(t) ==
    /\ Cancellable
    /\ stmt[t].phase \in {"sent", "ok", "error"}
    /\ stmt' = [stmt EXCEPT ![t].phase = "cancelled"]
    /\ UNCHANGED <<client, server>>

----------------------------------------------------------------------------
(* The server side, as PostgreSQL runs the statements cygnet sends.        *)

Sent(t, kind) == alive /\ stmt[t].kind = kind /\ stmt[t].phase = "sent"

Reply(t, r) == stmt' = [stmt EXCEPT ![t].phase = r]

Defined(i) == \E k \in 1..Len(sps) : sps[k].name = i

\* The most recent savepoint of that name shadows older ones.
Position(i) ==
    CHOOSE k \in 1..Len(sps) :
        sps[k].name = i /\ \A l \in k+1..Len(sps) : sps[l].name # i

\* BEGIN inside a transaction is only a warning.
ServeBegin(t) ==
    /\ Sent(t, "BEGIN")
    /\ srv' = IF srv = "idle" THEN "open" ELSE srv
    /\ Reply(t, IF srv = "aborted" THEN "error" ELSE "ok")
    /\ UNCHANGED <<client, alive, sps, work, durable>>

ServeSavepoint(t) ==
    /\ Sent(t, "SAVEPOINT")
    /\ \/ /\ srv = "open"
          /\ sps' = Append(sps, [name |-> stmt[t].arg, snap |-> work])
          /\ Reply(t, "ok")
       \/ /\ srv # "open"
          /\ Reply(t, "error")
          /\ UNCHANGED sps
    /\ UNCHANGED <<client, alive, srv, work, durable>>

ServeRelease(t) ==
    /\ Sent(t, "RELEASE")
    /\ IF srv = "open" /\ Defined(stmt[t].arg)
       THEN /\ sps' = SubSeq(sps, 1, Position(stmt[t].arg) - 1)
            /\ Reply(t, "ok")
            /\ UNCHANGED srv
       ELSE /\ srv' = IF srv = "open" THEN "aborted" ELSE srv
            /\ Reply(t, "error")
            /\ UNCHANGED sps
    /\ UNCHANGED <<client, alive, work, durable>>

ServeRollbackTo(t) ==
    /\ Sent(t, "ROLLBACK TO")
    /\ IF srv # "idle" /\ Defined(stmt[t].arg)
       THEN /\ work' = sps[Position(stmt[t].arg)].snap
            /\ sps' = SubSeq(sps, 1, Position(stmt[t].arg))
            /\ srv' = "open"
            /\ Reply(t, "ok")
       ELSE /\ srv' = IF srv = "idle" THEN "idle" ELSE "aborted"
            /\ Reply(t, "error")
            /\ UNCHANGED <<sps, work>>
    /\ UNCHANGED <<client, alive, durable>>

\* COMMIT of an aborted transaction rolls back and reports no error; COMMIT of
\* an open one may be refused (deferred constraint, serialization failure).
ServeCommit(t) ==
    /\ Sent(t, "COMMIT")
    /\ \/ /\ srv = "open"
          /\ durable' = durable \cup work
          /\ Reply(t, "ok")
       \/ /\ srv = "open"
          /\ Reply(t, "error")
          /\ UNCHANGED durable
       \/ /\ srv # "open"
          /\ Reply(t, "ok")
          /\ UNCHANGED durable
    /\ srv' = "idle" /\ sps' = <<>> /\ work' = {}
    /\ UNCHANGED <<client, alive>>

ServeRollback(t) ==
    /\ Sent(t, "ROLLBACK")
    /\ srv' = "idle" /\ sps' = <<>> /\ work' = {}
    /\ Reply(t, "ok")
    /\ UNCHANGED <<client, alive, durable>>

\* A statement that fails aborts the transaction it is in; outside one, a
\* statement commits by itself.
ServeWrite(t) ==
    /\ Sent(t, "write")
    /\ \/ /\ srv = "open"
          /\ work' = work \cup {stmt[t].arg}
          /\ Reply(t, "ok")
          /\ UNCHANGED <<srv, durable>>
       \/ /\ srv = "idle"
          /\ durable' = durable \cup {stmt[t].arg}
          /\ Reply(t, "ok")
          /\ UNCHANGED <<srv, work>>
       \/ /\ srv' = IF srv = "open" THEN "aborted" ELSE srv
          /\ Reply(t, "error")
          /\ UNCHANGED <<work, durable>>
    /\ UNCHANGED <<client, alive, sps>>

\* The connection breaks: the server rolls back what is open, and replies that
\* were on their way may be lost.
Lose ==
    /\ alive
    /\ alive' = FALSE
    /\ srv' = "idle" /\ sps' = <<>> /\ work' = {}
    /\ \E lost \in SUBSET {t \in Tasks : stmt[t].phase = "ok"} :
          stmt' = [t \in Tasks |->
              IF t \in lost THEN [stmt[t] EXCEPT !.phase = "error"] ELSE stmt[t]]
    /\ UNCHANGED <<client, durable>>

\* Every statement on a broken connection raises.
ServeDead(t) ==
    /\ ~alive
    /\ stmt[t].phase = "sent"
    /\ Reply(t, "error")
    /\ UNCHANGED <<client, server>>

----------------------------------------------------------------------------

Server(t) ==
    \/ ServeBegin(t) \/ ServeSavepoint(t) \/ ServeRelease(t)
    \/ ServeRollbackTo(t) \/ ServeCommit(t) \/ ServeRollback(t)
    \/ ServeWrite(t) \/ ServeDead(t)

Resume(t) ==
    \/ EnterReturns(t) \/ RollbackToReturns(t) \/ ReleaseReturns(t)
    \/ EndReturns(t) \/ WriteReturns(t)

Next ==
    \/ \E t \in Tasks :
          \/ \E i \in Insts : Enter(t, i)
          \/ \E w \in Writes : Write(t, w)
          \/ Exit(t) \/ Raise(t) \/ Catch(t) \/ Cancel(t)
          \/ Server(t) \/ Resume(t)
    \/ Lose

Spec == Init /\ [][Next]_vars

\* The event loop runs every task that is ready, and a statement that was sent
\* is eventually run or fails.
Scheduling == \A t \in Tasks : WF_vars(Server(t)) /\ WF_vars(Resume(t))

FairSpec == Spec /\ Scheduling

----------------------------------------------------------------------------
(* Properties.                                                             *)

TypeOK ==
    /\ flag \in BOOLEAN
    /\ owner \in Tasks \cup {None}
    /\ savepoint \in [Insts -> BOOLEAN]
    /\ stack \in [Tasks -> Seq(Insts)]
    /\ stmt \in [Tasks -> Statements]
    /\ exc \in [Tasks -> BOOLEAN]
    /\ alive \in BOOLEAN
    /\ srv \in {"idle", "open", "aborted"}
    /\ sps \in Seq([name : Insts, snap : SUBSET Writes])
    /\ work \in SUBSET Writes
    /\ durable \in SUBSET Writes

\* The flag is never stranded at TRUE: while it is set, the recorded owner is
\* still inside the block that opened the transaction, so an __aexit__ that
\* clears it is still to come.  It must hold whatever statement fails or is
\* cancelled and however tasks interleave (the `finally` of __aexit__).
FlagNeverStranded ==
    flag => /\ owner \in Tasks
            /\ \E k \in 1..Len(stack[owner]) : ~savepoint[stack[owner][k]]

\* While the connection is up and no BEGIN, COMMIT or ROLLBACK is under way,
\* the flag says what the server says: in a transaction, or not.
FlagTracksServer ==
    alive => \/ flag <=> srv # "idle"
             \/ \E t \in Tasks : stmt[t].kind \in {"BEGIN"} \cup Ending

\* Every nested block that a task is inside has its savepoint on the server,
\* in nesting order, so the RELEASE and ROLLBACK TO of __aexit__ always name
\* a savepoint that exists and discard no enclosing block's.
SavepointsMatchBlocks ==
    alive => \A t \in Tasks : \A k \in 1..Len(stack[t]) :
        (savepoint[stack[t][k]] /\ stmt[t].kind \notin Leaving) =>
            /\ Defined(stack[t][k])
            /\ \A l \in k+1..Len(stack[t]) :
                  Defined(stack[t][l]) =>
                      Position(stack[t][k]) < Position(stack[t][l])

\* S10 raises no false alarm: tasks that take turns on one handle are never
\* told that another task owns its transaction.
GuardSparesTurnTaking ==
    \A t \in Tasks : (Running(t) /\ MayUse(t)) => ~(flag /\ Foreign(t))

\* An outermost __aexit__ that has begun ends with the flag cleared.
OuterExitClearsFlag ==
    \A t \in Tasks : stmt[t].kind \in Ending ~> ~flag

\* S10 as documented: two tasks are never inside transaction blocks of one
\* handle at the same time.
OneTaskInside ==
    \A t, u \in Tasks : stack[t] # <<>> /\ stack[u] # <<>> => t = u

=============================================================================
