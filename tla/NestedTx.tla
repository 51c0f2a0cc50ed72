------------------------------ MODULE NestedTx ------------------------------
(***************************************************************************)
(* What nested cygnet.transaction blocks promise a program that uses a db  *)
(* handle from one task at a time: rows written in a block become durable  *)
(* when the block and all blocks around it are left cleanly, and vanish    *)
(* when one of them is left by an exception.  A failed statement dooms the *)
(* transaction until a nested block is left by that exception.             *)
(***************************************************************************)
EXTENDS Naturals, Sequences

CONSTANT Writes

VARIABLES
    frames,     \* rows written in each open block, outermost first
    status,     \* "live", "doomed" (a statement failed) or "lost"
    durable     \* committed rows

vars == <<frames, status, durable>>

Depth == Len(frames)
Outer == SubSeq(frames, 1, Depth - 1)
Emptied(fs) == [k \in DOMAIN fs |-> {}]
WithInnermost(fs, rows) ==
    IF fs = <<>> THEN fs ELSE [fs EXCEPT ![Len(fs)] = rows]

Init == frames = <<>> /\ status = "live" /\ durable = {}

Open ==
    /\ status = "live"
    /\ frames' = Append(frames, {})
    /\ UNCHANGED <<status, durable>>

\* Outside any block a row is durable at once.
WriteRow(w) ==
    /\ status = "live"
    /\ IF frames = <<>>
       THEN durable' = durable \cup {w} /\ UNCHANGED frames
       ELSE /\ frames' = WithInnermost(frames, frames[Depth] \cup {w})
            /\ UNCHANGED durable
    /\ UNCHANGED status

Fail ==
    /\ status = "live" /\ frames # <<>>
    /\ frames' = WithInnermost(frames, {})
    /\ status' = "doomed"
    /\ UNCHANGED durable

\* Left by an exception: the rows of the block are gone.
Abandon ==
    /\ frames # <<>>
    /\ frames' = Outer
    /\ status' = IF status = "doomed" THEN "live" ELSE status
    /\ UNCHANGED durable

\* A nested block left cleanly hands its rows to the block around it; in a
\* doomed transaction the exit fails and that block is doomed in turn.
Merge ==
    /\ Depth >= 2
    /\ frames' = IF status = "live"
                 THEN WithInnermost(Outer, frames[Depth - 1] \cup frames[Depth])
                 ELSE WithInnermost(Outer, {})
    /\ UNCHANGED <<status, durable>>

\* The outermost block left cleanly: its rows are durable, unless the
\* transaction is doomed or the server refuses the commit.
Commit ==
    /\ Depth = 1
    /\ frames' = <<>>
    /\ \/ status = "live" /\ durable' = durable \cup frames[1]
       \/ UNCHANGED durable
    /\ status' = IF status = "doomed" THEN "live" ELSE status

\* The connection breaks; a block that was just being opened may not exist.
Break ==
    /\ status # "lost"
    /\ status' = "lost"
    /\ frames' \in {Emptied(frames), Emptied(Outer)}
    /\ UNCHANGED durable

Next ==
    \/ Open \/ Fail \/ Abandon \/ Merge \/ Commit \/ Break
    \/ \E w \in Writes : WriteRow(w)

Spec == Init /\ [][Next]_vars

=============================================================================
