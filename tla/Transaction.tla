---------------------------- MODULE Transaction ----------------------------
(***************************************************************************)
(* DB.Transaction and the methods under it (finisher_api.go): Begin,       *)
(* Commit, Rollback, SavePoint, RollbackTo, over one transaction of a      *)
(* database.                                                               *)
(*                                                                         *)
(* The outermost block begins a transaction; a block inside a block sets a *)
(* savepoint, which it never releases.  A block that returns an error or   *)
(* panics is rolled back by a deferred function.  An error of SavePoint,   *)
(* RollbackTo or Commit stays in the handle it was called on: nothing the  *)
(* handle is used for afterwards reaches the database, Commit excepted.    *)
(*                                                                         *)
(* The variables follow the latest transaction.  One that was left open    *)
(* before it keeps a connection of its own until its context ends.         *)
(*                                                                         *)
(* With DisableNestedTransaction a nested block is simply called, on a     *)
(* handle of its own: what it does are steps of the block around it, whose *)
(* handle does not hear of the errors.                                     *)
(***************************************************************************)
EXTENDS Integers, Sequences, FiniteSets

CONSTANTS
    Writes,             \* what the statements write
    MaxDepth,           \* bound on the nesting of blocks
    MaxMarks,           \* bound on the savepoints of a transaction
    MaxBlocks,          \* bound on the outermost blocks
    FailAborts,         \* does a failed statement block the transaction (PostgreSQL)?
    SavePointsFail      \* may the dialect be without savepoints, or fail to set one?

ASSUME BoundsAssumption ==
    /\ MaxDepth \in Nat /\ MaxMarks \in Nat /\ MaxBlocks \in Nat
    /\ {FailAborts, SavePointsFail} \subseteq BOOLEAN

VARIABLES
    committed,  \* the database
    conn,       \* the transaction: "none"; "open"; "failed" after a statement failed,
                \* until a rollback; "gone" when its context has ended
    work,       \* what the transaction would commit
    marks,      \* its savepoints
    frames,     \* the blocks under way
    result,     \* what the last block with a savepoint or a transaction of its own
                \* returned, "none" when another has begun
    erring,     \* had the handle of the last Transaction an error before it?
    blocks      \* how many more there may be

vars == <<committed, conn, work, marks, frames, result, erring, blocks>>

\* Names of savepoints: the application uses one of its own, that of a nested
\* block (a random number) is new.
UserName == 0
Names == 0..MaxMarks
Mark == [name : Names, work : SUBSET Writes]

\* `error` is the Error of the handle that the block was given; `sp` the name
\* of the block's savepoint, if it has one.
Frame == [sp : Names, error : BOOLEAN]

Results == {"none", "ok", "error", "panic"}

TypeOK ==
    /\ committed \subseteq Writes /\ work \subseteq Writes
    /\ conn \in {"none", "open", "failed", "gone"}
    /\ marks \in Seq(Mark) /\ Len(marks) =< MaxMarks
    /\ frames \in Seq(Frame) /\ Len(frames) =< MaxDepth
    /\ result \in Results
    /\ erring \in BOOLEAN /\ blocks \in 0..MaxBlocks

Init ==
    /\ committed = {} /\ conn = "none" /\ work = {} /\ marks = <<>>
    /\ frames = <<>> /\ result = "none"
    /\ erring = FALSE /\ blocks = MaxBlocks

Depth == Len(frames)
Top == frames[Depth]

------------------------------------------------------------------------------
(***************************************************************************)
(* The database.                                                           *)
(***************************************************************************)

\* A statement that the database refuses.
Refused == conn' = IF FailAborts /\ conn = "open" THEN "failed" ELSE conn

\* SAVEPOINT name, on top of one of the same name if there is one.
Save(name) ==
    /\ conn = "open" /\ Len(marks) < MaxMarks
    /\ marks' = Append(marks, [name |-> name, work |-> work])
    /\ UNCHANGED <<conn, work>>

\* ROLLBACK TO name goes to the latest of that name, which stays.
IsLatest(m, name) ==
    /\ m \in DOMAIN marks /\ marks[m].name = name
    /\ \A j \in DOMAIN marks : marks[j].name = name => j =< m

Restore(name) ==
    /\ conn \in {"open", "failed"}
    /\ \E m \in DOMAIN marks :
          /\ IsLatest(m, name)
          /\ work' = marks[m].work
          /\ marks' = SubSeq(marks, 1, m)
    /\ conn' = "open"

------------------------------------------------------------------------------
(***************************************************************************)
(* The handles.                                                            *)
(***************************************************************************)

\* The frames below the innermost, the handle of the next one with an error.
Popped == SubSeq(frames, 1, Depth - 1)
PoppedWithError == [Popped EXCEPT ![Depth - 1].error = TRUE]

\* AddError on the handle of the innermost block ...
AddError == frames' = [frames EXCEPT ![Depth].error = TRUE]

\* ... or on that of a block without a savepoint inside it.
HandleFails == AddError \/ UNCHANGED frames

------------------------------------------------------------------------------
(***************************************************************************)
(* The outermost block.                                                    *)
(***************************************************************************)

\* Begin, once the pool has given a connection ...
Begin ==
    /\ frames = <<>> /\ blocks > 0 /\ MaxDepth > 0
    /\ conn' = "open" /\ work' = committed /\ marks' = <<>>
    /\ frames' = <<[sp |-> UserName, error |-> FALSE]>>
    /\ result' = "none" /\ erring' = FALSE
    /\ blocks' = blocks - 1
    /\ UNCHANGED committed

\* ... or an error, and fc is not called.
BeginFails ==
    /\ frames = <<>> /\ blocks > 0
    /\ conn' = "none"
    /\ result' = "error" /\ erring' = FALSE
    /\ blocks' = blocks - 1
    /\ UNCHANGED <<committed, work, marks, frames>>

\* On a handle with an error Begin begins a transaction all the same.  Its
\* handle inherits the error, which Transaction returns before the Rollback is
\* deferred: fc is not called, and nobody ends the transaction.
BeginErring ==
    /\ frames = <<>> /\ blocks > 0
    /\ conn' = "open" /\ work' = committed /\ marks' = <<>>
    /\ result' = "error" /\ erring' = TRUE
    /\ blocks' = blocks - 1
    /\ UNCHANGED <<committed, frames>>

\* The context ends, or DefaultTransactionTimeout has passed: database/sql
\* rolls the transaction back, and knows it no more.
Expire ==
    /\ conn \in {"open", "failed"}
    /\ conn' = "gone"
    /\ UNCHANGED <<committed, work, marks, frames, result, erring, blocks>>

\* fc returned nil.  The error of Commit is the handle's: also one that it
\* had already.  (The deferred Rollback after an error finds nothing to do, or
\* ends what the commit left.)
Commit ==
    /\ Depth = 1
    /\ \/ /\ conn = "open"
          /\ committed' = work
          /\ result' = IF Top.error THEN "error" ELSE "ok"
       \/ /\ result' = "error"      \* refused, or nothing left to commit
          /\ UNCHANGED committed
    /\ conn' = "none" /\ frames' = <<>>
    /\ UNCHANGED <<work, marks, erring, blocks>>

\* Mutant: the error of the block is returned, and the transaction committed.
Rollback_Commits ==
    /\ Depth = 1
    /\ result' \in {"error", "panic"}
    /\ committed' = IF conn = "open" THEN work ELSE committed
    /\ conn' = "none" /\ frames' = <<>>
    /\ UNCHANGED <<work, marks, erring, blocks>>

\* Mutant: a panic passes by.
Rollback_NotOnPanic ==
    /\ Depth = 1
    /\ result' \in {"error", "panic"}
    /\ conn' = IF result' = "panic" THEN conn ELSE "none"
    /\ frames' = <<>>
    /\ UNCHANGED <<committed, work, marks, erring, blocks>>

\* fc returned an error or panicked: the deferred Rollback.
Rollback ==
    /\ Depth = 1
    /\ result' \in {"error", "panic"}
    /\ conn' = "none" /\ frames' = <<>>
    /\ UNCHANGED <<committed, work, marks, erring, blocks>>

------------------------------------------------------------------------------
(***************************************************************************)
(* Inside a block.                                                         *)
(***************************************************************************)

\* A statement.  Its error is that of a handle of its own, which the block may
\* look at or not.
Write(w) ==
    /\ Depth > 0 /\ ~Top.error /\ conn = "open"
    /\ \/ work' = work \cup {w} /\ UNCHANGED conn
       \/ Refused /\ UNCHANGED work
    /\ UNCHANGED <<committed, marks, frames, result, erring, blocks>>

\* tx.SavePoint, called by the application.
UserSavePoint ==
    /\ Depth > 0 /\ ~Top.error
    /\ \/ Save(UserName) /\ UNCHANGED frames
       \/ /\ conn # "open" \/ SavePointsFail
          /\ HandleFails /\ Refused /\ UNCHANGED <<work, marks>>
    /\ UNCHANGED <<committed, result, erring, blocks>>

\* tx.RollbackTo, called by the application, to a savepoint that it set in the
\* same block.
UserRollbackTo ==
    /\ Depth > 0 /\ ~Top.error
    /\ \E i \in DOMAIN marks : marks[i].name = UserName /\ i > Top.sp
    /\ \/ Restore(UserName) /\ UNCHANGED frames
       \/ /\ conn = "gone" \/ SavePointsFail
          /\ HandleFails /\ Refused /\ UNCHANGED <<work, marks>>
    /\ UNCHANGED <<committed, result, erring, blocks>>

\* The name of a nested block's savepoint.
Fresh == Len(marks) + 1

\* Transaction on the handle of a block: a savepoint, and a block inside it ...
Nested ==
    /\ Depth > 0 /\ Depth < MaxDepth /\ ~Top.error
    /\ Save(Fresh)
    /\ frames' = Append(frames, [sp |-> Fresh, error |-> FALSE])
    /\ result' = "none"
    /\ UNCHANGED <<committed, erring, blocks>>

\* ... or SavePoint fails: the error is returned, and stays in the handle.  On
\* a handle with an error nothing is sent, and the error returned.
NestedFails ==
    /\ Depth > 0
    /\ \/ /\ ~Top.error /\ (conn # "open" \/ SavePointsFail)
          /\ HandleFails /\ Refused
       \/ Top.error /\ UNCHANGED <<conn, frames>>
    /\ result' = "error"
    /\ UNCHANGED <<committed, work, marks, erring, blocks>>

\* The nested block returned nil.
NestedDone ==
    /\ Depth > 1
    /\ frames' = Popped
    /\ result' = "ok"
    /\ UNCHANGED <<committed, conn, work, marks, erring, blocks>>

\* Mutant: a nested block that fails keeps its writes.
NestedUndone_Keep ==
    /\ Depth > 1
    /\ frames' = Popped
    /\ result' \in {"error", "panic"}
    /\ UNCHANGED <<committed, conn, work, marks, erring, blocks>>

\* The nested block returned an error or panicked: the deferred RollbackTo, on
\* the handle of the block around it, which hears of the error and goes on as
\* it likes.
NestedUndone ==
    /\ Depth > 1
    /\ result' \in {"error", "panic"}
    /\ \/ Restore(Top.sp) /\ frames' = Popped
       \/ /\ conn = "gone" \/ SavePointsFail
          /\ frames' \in {Popped, PoppedWithError} /\ Refused /\ UNCHANGED <<work, marks>>
    /\ UNCHANGED <<committed, erring, blocks>>

------------------------------------------------------------------------------
Next ==
    \/ Begin \/ BeginFails \/ BeginErring \/ Expire \/ Commit \/ Rollback
    \/ \E w \in Writes : Write(w)
    \/ UserSavePoint \/ UserRollbackTo
    \/ Nested \/ NestedFails \/ NestedDone \/ NestedUndone

Spec == Init /\ [][Next]_vars

------------------------------------------------------------------------------
(***************************************************************************)
(* Properties.                                                             *)
(***************************************************************************)

\* Transaction never returns with the transaction still open, even by a panic,
\* unless the handle it was called on had an error already.
AlwaysEnded == frames = <<>> /\ ~erring => conn = "none"

\* Without that exception (which needs it, see BeginErring).
EndedInAnyCase == frames = <<>> => conn = "none"

\* "On success the changes are committed; if an error occurs they are rolled
\* back": when Transaction returns an error or panics, nothing is committed.
ErrorMeansRolledBack ==
    [][Depth = 1 /\ frames' = <<>> /\ result' # "ok" => committed' = committed]_vars

\* The savepoint a nested block goes back to.
SavePointOf(i) == CHOOSE m \in DOMAIN marks : IsLatest(m, frames[i].sp)

\* While the transaction lives, the savepoint of every nested block is there,
\* later than those of the blocks around it, and with less done.
SavePointsNested ==
    conn # "none" => \A i \in 2..Depth :
        /\ \E m \in DOMAIN marks : IsLatest(m, frames[i].sp)
        /\ i > 2 => SavePointOf(i - 1) < SavePointOf(i)
        /\ marks[SavePointOf(i)].work \subseteq work

\* The blocks are atomic.  A block sees what the transaction would commit; the
\* block around it, what it would be back to if the block failed.  Of a
\* transaction that is gone nothing is left.
Alive == Depth > 0 /\ conn \in {"open", "failed"}
Views == IF Alive THEN [i \in DOMAIN frames |-> IF i = Depth THEN work
                                                ELSE marks[SavePointOf(i + 1)].work]
                  ELSE <<>>
Answer == IF conn = "gone" THEN "none" ELSE result

Blocks == INSTANCE AtomicBlocks WITH durable <- committed, views <- Views, answer <- Answer

ImplementsAtomicBlocks == Blocks!Spec
==============================================================================
