---------------------------- MODULE AtomicBlocks ----------------------------
(***************************************************************************)
(* What DB.Transaction promises of its blocks: a block sees its own        *)
(* writes on top of those of the block around it; when it succeeds they    *)
(* become writes of that block, when it fails they are as if they had      *)
(* never been made; and the outermost block makes them durable if it       *)
(* succeeds, and only then.                                                *)
(***************************************************************************)
EXTENDS Naturals, Sequences

CONSTANTS Writes    \* what a statement may write

VARIABLES
    durable,    \* what is committed
    views,      \* what each open block sees, the outermost first
    answer      \* what the last block returned, "none" when another has begun

vars == <<durable, views, answer>>

Answers == {"none", "ok", "error", "panic"}

Init == durable = {} /\ views = <<>> /\ answer = "none"

Depth == Len(views)
Seen == views[Depth]

\* What the innermost block had to begin with.
Inherited == IF Depth = 1 THEN durable ELSE views[Depth - 1]

See(S) == views' = [views EXCEPT ![Depth] = S]

Begin ==
    /\ views = <<>>
    /\ views' = <<durable>>
    /\ answer' = "none"
    /\ UNCHANGED durable

Write(w) ==
    /\ Depth > 0
    /\ See(Seen \cup {w})
    /\ UNCHANGED <<durable, answer>>

\* A block may go back on its own writes, and on no others.
Undo(S) ==
    /\ Depth > 0 /\ Inherited \subseteq S /\ S \subseteq Seen
    /\ See(S)
    /\ UNCHANGED <<durable, answer>>

Nest ==
    /\ Depth > 0
    /\ views' = Append(views, Seen)
    /\ answer' = "none"
    /\ UNCHANGED durable

\* A block inside another is refused before it begins.
Refuse ==
    /\ Depth > 0
    /\ answer' = "error"
    /\ UNCHANGED <<durable, views>>

\* It succeeds ...
Keep ==
    /\ Depth > 1
    /\ views' = Append(SubSeq(views, 1, Depth - 2), Seen)
    /\ answer' = "ok"
    /\ UNCHANGED durable

\* ... or fails.
Drop ==
    /\ Depth > 1
    /\ views' = SubSeq(views, 1, Depth - 1)
    /\ answer' \in {"error", "panic"}
    /\ UNCHANGED durable

Commit ==
    /\ Depth = 1
    /\ durable' = Seen /\ views' = <<>> /\ answer' = "ok"

\* The outermost block fails, or the database gives the transaction up and the
\* block hears of it later.
Fail ==
    /\ views' = <<>> /\ answer' \in Answers \ {"ok"}
    /\ UNCHANGED durable

Next ==
    \/ Begin \/ Nest \/ Refuse \/ Keep \/ Drop \/ Commit \/ Fail
    \/ \E w \in Writes : Write(w)
    \/ \E S \in SUBSET Writes : Undo(S)

Spec == Init /\ [][Next]_vars
=============================================================================
