----------------------- MODULE TransactionRefinement -----------------------
(***************************************************************************)
(* Transaction implements NestedTx: the rows of each open block are read   *)
(* off the server's savepoint snapshots.                                   *)
(***************************************************************************)
EXTENDS Transaction

\* The blocks of task t whose statements the server has seen: a block opens when
\* its BEGIN or SAVEPOINT has run and closes when its last effective statement has.
Seen(t) ==
    LET s == stmt[t]
        b == stack[t]
    IN  IF s.kind \in Entering /\ s.phase = "ok" THEN Append(b, s.arg)
        ELSE IF s.kind \in Leaving /\
                (s.phase # "sent" \/ (s.kind = "RELEASE" /\ exc[t]))
        THEN SubSeq(b, 1, Len(b) - 1)
        ELSE b

\* The blocks of the task that has the handle, if one has.
Blocks ==
    IF \E t \in Tasks : Busy(t) THEN Seen(CHOOSE t \in Tasks : Busy(t)) ELSE <<>>

\* What had been written when block i was opened.
Base(i) ==
    IF savepoint[i] /\ Defined(i) THEN sps[Position(i)].snap ELSE {}

Frames ==
    [k \in 1..Len(Blocks) |->
        (IF k < Len(Blocks) THEN Base(Blocks[k + 1])
         ELSE IF srv = "open" THEN work ELSE {}) \ Base(Blocks[k])]

Status ==
    IF ~alive THEN "lost" ELSE IF srv = "aborted" THEN "doomed" ELSE "live"

Promise == INSTANCE NestedTx WITH frames <- Frames, status <- Status

\* The sequence of BEGIN, SAVEPOINT, RELEASE, ROLLBACK TO, COMMIT and ROLLBACK
\* that nested `async with transaction(db)` blocks send keeps the promise of
\* NestedTx, whatever statement fails and whenever the connection breaks.
ImplementsNestedTx == Promise!Spec

=============================================================================
