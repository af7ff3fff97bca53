------------------------- MODULE TransactionProofs -------------------------
(***************************************************************************)
(* Theorems about Transaction, for every set of writes and every depth of  *)
(* nesting.                                                                *)
(***************************************************************************)
EXTENDS Transaction, SequenceTheorems, TLAPS

USE BoundsAssumption

------------------------------------------------------------------------------
(***************************************************************************)
(* The inductive invariant.                                                *)
(***************************************************************************)

\* A savepoint has the application's name or that of its place, and each has
\* all the writes of those before it.
MarkInv ==
    /\ \A m \in DOMAIN marks : marks[m].name \in {UserName, m}
    /\ \A m \in DOMAIN marks : marks[m].work \subseteq work
    /\ \A m, n \in DOMAIN marks : m < n => marks[m].work \subseteq marks[n].work
    /\ conn # "none" => committed \subseteq work
    /\ conn # "none" => \A m \in DOMAIN marks : committed \subseteq marks[m].work

\* There is a transaction as long as there are blocks, and after that only if
\* the handle had an error.
EndInv ==
    /\ frames # <<>> => conn # "none" /\ ~erring
    /\ frames = <<>> /\ ~erring => conn = "none"

\* The savepoint of a nested block is there, above those of the blocks around
\* it.  A handle with an error has no block inside, and its transaction accepts
\* no commit.
FrameInv ==
    /\ EndInv
    /\ Depth > 0 => frames[1].sp = UserName
    /\ \A i \in 2..Depth :
          frames[i].sp \in DOMAIN marks /\ marks[frames[i].sp].name = frames[i].sp
    /\ \A i, j \in 1..Depth : i < j => frames[i].sp < frames[j].sp
    /\ \A i, j \in 1..Depth : i < j => ~frames[i].error
    /\ Depth > 0 /\ ~SavePointsFail => (Top.error => conn \in {"failed", "gone"})

IInv == TypeOK /\ MarkInv /\ FrameInv

------------------------------------------------------------------------------
(***************************************************************************)
(* What the database and the stack of blocks do.                           *)
(***************************************************************************)

LEMMA SaveEffect ==
    ASSUME TypeOK, NEW name \in Names, Save(name)
    PROVE  /\ conn = "open" /\ conn' = conn /\ work' = work
           /\ marks' \in Seq(Mark) /\ Len(marks') = Len(marks) + 1 /\ Len(marks') =< MaxMarks
           /\ DOMAIN marks' = 1..(Len(marks) + 1)
           /\ \A m \in 1..Len(marks) : marks'[m] = marks[m]
           /\ marks'[Len(marks) + 1].name = name /\ marks'[Len(marks) + 1].work = work
  <1>1. PICK new : new = [name |-> name, work |-> work]
    OBVIOUS
  <1>2. new \in Mark /\ new.name = name /\ new.work = work
    BY <1>1 DEF Mark, TypeOK
  <1>3. marks' = Append(marks, new) /\ marks \in Seq(Mark) /\ Len(marks) < MaxMarks
    BY <1>1 DEF Save, TypeOK
  <1>4. /\ marks' \in Seq(Mark) /\ Len(marks') = Len(marks) + 1
        /\ marks'[Len(marks) + 1] = new
        /\ \A m \in 1..Len(marks) : marks'[m] = marks[m]
    BY <1>2, <1>3
  <1> QED BY <1>2, <1>3, <1>4 DEF Save

LEMMA RestoreEffect ==
    ASSUME TypeOK, NEW name, Restore(name)
    PROVE  \E m \in DOMAIN marks :
              /\ IsLatest(m, name)
              /\ conn \in {"open", "failed"} /\ conn' = "open" /\ work' = marks[m].work
              /\ marks' \in Seq(Mark) /\ Len(marks') = m /\ DOMAIN marks' = 1..m
              /\ \A i \in 1..m : i \in DOMAIN marks /\ marks'[i] = marks[i]
  <1>1. PICK m \in DOMAIN marks :
           IsLatest(m, name) /\ work' = marks[m].work /\ marks' = SubSeq(marks, 1, m)
    BY DEF Restore
  <1>2. marks \in Seq(Mark) /\ m \in 1..Len(marks) /\ DOMAIN marks = 1..Len(marks)
    BY DEF TypeOK
  <1>3. /\ marks' \in Seq(Mark) /\ Len(marks') = m
        /\ \A i \in 1..m : marks'[i] = marks[i]
    BY <1>1, <1>2
  <1> QED BY <1>1, <1>2, <1>3 DEF Restore

LEMMA PoppedIs ==
    ASSUME TypeOK, Depth > 1
    PROVE  /\ Popped \in Seq(Frame) /\ Len(Popped) = Depth - 1
           /\ \A i \in 1..(Depth - 1) : Popped[i] = frames[i]
           /\ PoppedWithError \in Seq(Frame) /\ Len(PoppedWithError) = Depth - 1
           /\ \A i \in 1..(Depth - 2) : PoppedWithError[i] = frames[i]
           /\ PoppedWithError[Depth - 1].sp = frames[Depth - 1].sp
           /\ PoppedWithError[Depth - 1].error
  <1>1. frames \in Seq(Frame) /\ Depth \in Nat /\ Depth = Len(frames)
    BY DEF TypeOK, Depth
  <1>2. /\ Popped \in Seq(Frame) /\ Len(Popped) = Depth - 1
        /\ \A i \in 1..(Depth - 1) : Popped[i] = frames[i]
    BY <1>1 DEF Popped
  <1>3. PICK top : top = [Popped[Depth - 1] EXCEPT !.error = TRUE]
    OBVIOUS
  <1>a. Popped[Depth - 1] \in Frame /\ Popped[Depth - 1] = frames[Depth - 1]
    BY <1>1, <1>2
  <1>4. top \in Frame /\ top.error /\ top.sp = frames[Depth - 1].sp
    BY <1>3, <1>a DEF Frame
  <1>5. PoppedWithError = [Popped EXCEPT ![Depth - 1] = top]
    BY <1>3 DEF PoppedWithError
  <1>6. Depth - 1 \in 1..Len(Popped)
    BY <1>1, <1>2
  <1>7. /\ PoppedWithError \in Seq(Frame) /\ Len(PoppedWithError) = Len(Popped)
        /\ \A i \in 1..Len(Popped) : PoppedWithError[i] = IF i = Depth - 1 THEN top ELSE Popped[i]
    BY <1>2, <1>4, <1>5, <1>6, ExceptSeq
  <1>8. /\ \A i \in 1..(Depth - 2) : PoppedWithError[i] = frames[i]
        /\ PoppedWithError[Depth - 1] = top
    BY <1>1, <1>2, <1>6, <1>7
  <1> QED BY <1>2, <1>4, <1>7, <1>8

LEMMA AddErrorEffect ==
    ASSUME TypeOK, Depth > 0, AddError
    PROVE  /\ frames' \in Seq(Frame) /\ Len(frames') = Depth
           /\ \A i \in 1..(Depth - 1) : frames'[i] = frames[i]
           /\ frames'[Depth].sp = Top.sp /\ frames'[Depth].error
  <1>1. frames \in Seq(Frame) /\ Depth \in Nat /\ Depth = Len(frames) /\ Top \in Frame
    BY DEF TypeOK, Depth, Top
  <1>2. PICK top : top = [Top EXCEPT !.error = TRUE]
    OBVIOUS
  <1>3. top \in Frame /\ top.error /\ top.sp = Top.sp
    BY <1>1, <1>2 DEF Frame
  <1>4. frames' = [frames EXCEPT ![Depth] = top]
    BY <1>2 DEF AddError, Top
  <1> QED BY <1>1, <1>3, <1>4

\* Facts that every step below needs.
LEMMA Basics ==
    ASSUME TypeOK
    PROVE  /\ Depth \in Nat /\ Depth = Len(frames) /\ DOMAIN frames = 1..Depth
           /\ \A i \in 1..Depth : frames[i] \in Frame
           /\ \A i \in 1..Depth : frames[i].sp \in Names /\ frames[i].error \in BOOLEAN
           /\ frames = <<>> <=> Depth = 0
           /\ Len(marks) \in Nat /\ DOMAIN marks = 1..Len(marks)
           /\ \A m \in DOMAIN marks : marks[m] \in Mark
           /\ \A m \in DOMAIN marks : marks[m].work \subseteq Writes /\ marks[m].name \in Names
  <1>1. frames \in Seq(Frame) /\ marks \in Seq(Mark)
    BY DEF TypeOK
  <1>2. /\ Depth \in Nat /\ Depth = Len(frames) /\ DOMAIN frames = 1..Depth
        /\ \A i \in 1..Depth : frames[i] \in Frame
        /\ frames = <<>> <=> Depth = 0
    BY <1>1 DEF Depth
  <1>3. /\ Len(marks) \in Nat /\ DOMAIN marks = 1..Len(marks)
        /\ \A m \in DOMAIN marks : marks[m] \in Mark
    BY <1>1
  <1>4. \A i \in 1..Depth : frames[i].sp \in Names /\ frames[i].error \in BOOLEAN
    BY <1>2 DEF Frame
  <1>5. \A m \in DOMAIN marks : marks[m].work \subseteq Writes /\ marks[m].name \in Names
    BY <1>3 DEF Mark
  <1> QED BY <1>2, <1>3, <1>4, <1>5

------------------------------------------------------------------------------
(***************************************************************************)
(* The invariant is inductive.                                             *)
(***************************************************************************)

LEMMA InitInv == Init => IInv
  <1> SUFFICES ASSUME Init PROVE IInv
    OBVIOUS
  <1>e. erring \in BOOLEAN /\ ~erring
    BY Zenon DEF Init
  <1>1. TypeOK
    BY <1>e DEF Init, TypeOK, Results
  <1>2. Depth = 0 /\ DOMAIN marks = {}
    BY DEF Init, Depth
  <1> QED BY <1>1, <1>2, <1>e DEF Init, IInv, MarkInv, FrameInv, EndInv

\* Inside a block there is a transaction, begun on a handle without an error ...
LEMMA Inside ==
    ASSUME IInv, Depth > 0
    PROVE  frames # <<>> /\ conn # "none" /\ ~erring
  BY Basics DEF IInv, FrameInv, EndInv

\* ... and so it is after a step that ends neither.
LEMMA StaysInside ==
    ASSUME IInv, Depth > 0, erring' = erring, frames' # <<>>, conn' # "none"
    PROVE  EndInv'
  BY Inside DEF EndInv

\* The steps of the outermost block.
LEMMA OuterInv ==
    ASSUME IInv, Begin \/ BeginFails \/ BeginErring \/ Expire \/ Commit \/ Rollback
    PROVE  IInv'
  <1>b. /\ Depth \in Nat /\ Depth = Len(frames) /\ DOMAIN frames = 1..Depth
        /\ frames = <<>> <=> Depth = 0
    BY Basics DEF IInv
  <1>1. CASE Begin
    <2>1. PICK f : f = [sp |-> UserName, error |-> FALSE]
      OBVIOUS
    <2>2. f \in Frame /\ f.sp = UserName /\ ~f.error
      BY <2>1 DEF Frame, Names, UserName
    <2>3. frames' = <<f>>
      BY <1>1, <2>1 DEF Begin
    <2>4. frames' \in Seq(Frame) /\ Depth' = 1 /\ frames'[1] = f /\ frames' # <<>>
      BY <2>2, <2>3 DEF Depth
    <2>5. marks' = <<>> /\ DOMAIN marks' = {} /\ Len(marks') = 0 /\ marks' \in Seq(Mark)
      BY <1>1 DEF Begin
    <2>6. conn' = "open" /\ work' = committed /\ committed' = committed
          /\ result' = "none" /\ blocks > 0 /\ blocks' = blocks - 1 /\ MaxDepth > 0
      BY <1>1 DEF Begin
    <2>e. ~erring' /\ erring' \in BOOLEAN
      BY <1>1, Zenon DEF Begin
    <2>t. TypeOK'
      BY <2>4, <2>5, <2>6, <2>e DEF IInv, TypeOK, Results, Depth
    <2>m. MarkInv'
      BY <2>5, <2>6 DEF MarkInv
    <2>f. FrameInv'
      BY <2>2, <2>4, <2>6, <2>e DEF FrameInv, EndInv, Top
    <2> QED BY <2>t, <2>m, <2>f DEF IInv
  <1>2. CASE BeginFails
    <2>e. ~erring' /\ erring' \in BOOLEAN
      BY <1>2, Zenon DEF BeginFails
    <2>t. TypeOK'
      BY <1>2, <2>e DEF BeginFails, IInv, TypeOK, Results
    <2>m. MarkInv' /\ FrameInv'
      BY <1>2, <1>b, <2>e DEF BeginFails, IInv, MarkInv, FrameInv, EndInv, Depth, Top
    <2> QED BY <2>t, <2>m DEF IInv
  <1>e. CASE BeginErring
    <2>1. marks' = <<>> /\ DOMAIN marks' = {} /\ Len(marks') = 0 /\ marks' \in Seq(Mark)
      BY <1>e DEF BeginErring
    <2>e. erring' /\ erring' \in BOOLEAN
      BY <1>e, Zenon DEF BeginErring
    <2>t. TypeOK'
      BY <1>e, <2>1, <2>e DEF BeginErring, IInv, TypeOK, Results
    <2>m. MarkInv'
      BY <1>e, <2>1 DEF BeginErring, MarkInv
    <2>f. FrameInv'
      BY <1>e, <1>b, <2>e DEF BeginErring, IInv, FrameInv, EndInv, Depth, Top
    <2> QED BY <2>t, <2>m, <2>f DEF IInv
  <1>3. CASE Expire
    <2>t. TypeOK'
      BY <1>3 DEF Expire, IInv, TypeOK
    <2>m. MarkInv' /\ FrameInv'
      BY <1>3 DEF Expire, IInv, MarkInv, FrameInv, EndInv, Depth, Top
    <2> QED BY <2>t, <2>m DEF IInv
  <1>4. CASE Commit \/ Rollback
    <2>1. /\ frames' = <<>> /\ conn' = "none" /\ work' = work /\ marks' = marks
          /\ erring' = erring /\ blocks' = blocks
          /\ committed' \in {committed, work} /\ result' \in Results
      BY <1>4 DEF Commit, Rollback, Results
    <2>2. Depth' = 0 /\ frames' \in Seq(Frame) /\ Len(frames') = 0
      BY <2>1 DEF Depth
    <2>t. TypeOK'
      BY <2>1, <2>2 DEF IInv, TypeOK
    <2>m. MarkInv'
      BY <2>1 DEF IInv, MarkInv
    <2>f. FrameInv'
      BY <2>1, <2>2 DEF FrameInv, EndInv
    <2> QED BY <2>t, <2>m, <2>f DEF IInv
  <1> QED BY <1>1, <1>2, <1>e, <1>3, <1>4

LEMMA WriteInv ==
    ASSUME IInv, NEW w \in Writes, Write(w)
    PROVE  IInv'
  <1>1. /\ Depth > 0 /\ ~Top.error /\ conn = "open" /\ conn' \in {"open", "failed"}
        /\ work \subseteq work' /\ work' \subseteq Writes
        /\ UNCHANGED <<committed, marks, frames, result, erring, blocks>>
    BY DEF Write, Refused, IInv, TypeOK
  <1>t. TypeOK'
    BY <1>1 DEF IInv, TypeOK
  <1>m. MarkInv'
    BY <1>1 DEF IInv, MarkInv
  <1>f. FrameInv'
    BY <1>1 DEF IInv, FrameInv, EndInv, Depth, Top
  <1> QED BY <1>t, <1>m, <1>f DEF IInv

\* A savepoint more, or fewer.
LEMMA SaveMarks ==
    ASSUME IInv, NEW name \in Names, Save(name), name \in {UserName, Len(marks) + 1},
           committed' = committed
    PROVE  MarkInv'
  <1>1. /\ Len(marks) \in Nat /\ DOMAIN marks = 1..Len(marks)
    BY Basics DEF IInv
  <1>2. /\ conn = "open" /\ conn' = conn /\ work' = work
        /\ DOMAIN marks' = 1..(Len(marks) + 1)
        /\ \A m \in 1..Len(marks) : marks'[m] = marks[m]
        /\ marks'[Len(marks) + 1].name = name /\ marks'[Len(marks) + 1].work = work
    BY SaveEffect DEF IInv
  <1> QED BY <1>1, <1>2 DEF IInv, MarkInv

LEMMA RestoreMarks ==
    ASSUME IInv, NEW name, Restore(name), committed' = committed
    PROVE  MarkInv'
  <1>1. PICK m \in DOMAIN marks :
              /\ conn \in {"open", "failed"} /\ conn' = "open" /\ work' = marks[m].work
              /\ DOMAIN marks' = 1..m
              /\ \A i \in 1..m : i \in DOMAIN marks /\ marks'[i] = marks[i]
    BY RestoreEffect DEF IInv
  <1>2. Len(marks) \in Nat /\ DOMAIN marks = 1..Len(marks)
    BY Basics DEF IInv
  <1>3. m \in Nat /\ \A i \in 1..m : i = m \/ i < m
    BY <1>2
  <1> QED BY <1>1, <1>3 DEF IInv, MarkInv

\* The handle of the innermost block has an error.
LEMMA AddErrorInv ==
    ASSUME IInv, Depth > 0, conn # "none", AddError, Refused,
           conn # "open" \/ SavePointsFail,
           UNCHANGED <<committed, work, marks, erring, blocks>>, result' \in Results
    PROVE  IInv'
  <1>b. /\ Depth \in Nat /\ Depth = Len(frames) /\ DOMAIN frames = 1..Depth
        /\ frames = <<>> <=> Depth = 0
        /\ \A i \in 1..Depth : frames[i].sp \in Names
    BY Basics DEF IInv
  <1>1. /\ frames' \in Seq(Frame) /\ Len(frames') = Depth
        /\ \A i \in 1..(Depth - 1) : frames'[i] = frames[i]
        /\ frames'[Depth].sp = frames[Depth].sp /\ frames'[Depth].error
    BY AddErrorEffect DEF IInv, Top
  <1>2. Depth' = Depth /\ frames' # <<>>
    BY <1>b, <1>1 DEF Depth
  <1>5. \A i \in 1..Depth : i = Depth \/ i \in 1..(Depth - 1)
    BY <1>b
  <1>3. \A i \in 1..Depth : frames'[i].sp = frames[i].sp
    BY <1>1, <1>5
  <1>4. conn' \in {"open", "failed", "gone"} /\ (~SavePointsFail => conn' \in {"failed", "gone"})
    BY DEF Refused, IInv, TypeOK
  <1>t. TypeOK'
    BY <1>b, <1>1, <1>4 DEF IInv, TypeOK
  <1>m. MarkInv'
    BY DEF IInv, MarkInv
  <1>f. FrameInv'
    <2>1. frames'[1].sp = UserName
      BY <1>b, <1>2, <1>3, <1>4 DEF IInv, FrameInv
    <2>4. EndInv'
      BY <1>2, <1>4, StaysInside
    <2>2. /\ \A i \in 2..Depth :
                 frames'[i].sp \in DOMAIN marks' /\ marks'[frames'[i].sp].name = frames'[i].sp
          /\ \A i, j \in 1..Depth : i < j => frames'[i].sp < frames'[j].sp
      BY <1>b, <1>3 DEF IInv, FrameInv, EndInv
    <2>3. \A i, j \in 1..Depth : i < j => ~frames'[i].error
      <3> SUFFICES ASSUME NEW i \in 1..Depth, NEW j \in 1..Depth, i < j PROVE ~frames'[i].error
        OBVIOUS
      <3>1. i \in 1..(Depth - 1)
        BY <1>b
      <3>2. ~frames[i].error
        BY DEF IInv, FrameInv, EndInv
      <3> QED BY <1>1, <3>1, <3>2
    <2> QED BY <1>2, <1>4, <2>1, <2>2, <2>3, <2>4 DEF FrameInv
  <1> QED BY <1>t, <1>m, <1>f DEF IInv

\* ... or nobody hears of it.
LEMMA HandleFailsInv ==
    ASSUME IInv, Depth > 0, conn # "none", HandleFails, Refused,
           conn # "open" \/ SavePointsFail,
           UNCHANGED <<committed, work, marks, erring, blocks>>, result' \in Results
    PROVE  IInv'
  <1>1. CASE AddError
    BY <1>1, AddErrorInv
  <1>2. CASE UNCHANGED frames
    <2>1. Depth' = Depth /\ Top' = Top /\ conn' # "none" /\ conn' \in {conn, "failed"}
      BY <1>2 DEF Depth, Top, Refused
    <2>t. TypeOK'
      BY <1>2, <2>1 DEF IInv, TypeOK
    <2>m. MarkInv'
      BY <2>1 DEF IInv, MarkInv
    <2>f. FrameInv'
      BY <1>2, <2>1 DEF IInv, FrameInv, EndInv
    <2> QED BY <2>t, <2>m, <2>f DEF IInv
  <1> QED BY <1>1, <1>2 DEF HandleFails

\* The application's own savepoints.
LEMMA UserSavePointInv ==
    ASSUME IInv, UserSavePoint
    PROVE  IInv'
  <1>b. /\ Depth \in Nat /\ Depth = Len(frames) /\ DOMAIN frames = 1..Depth
        /\ frames = <<>> <=> Depth = 0
        /\ Len(marks) \in Nat /\ DOMAIN marks = 1..Len(marks)
        /\ \A i \in 1..Depth : frames[i].sp \in Names
    BY Basics DEF IInv
  <1>0. /\ Depth > 0 /\ ~Top.error /\ conn # "none"
        /\ UNCHANGED <<committed, result, erring, blocks>>
    BY <1>b DEF UserSavePoint, IInv, FrameInv, EndInv
  <1>1. CASE Save(UserName) /\ UNCHANGED frames
    <2>1. /\ conn = "open" /\ conn' = conn /\ work' = work
          /\ marks' \in Seq(Mark) /\ Len(marks') =< MaxMarks
          /\ DOMAIN marks' = 1..(Len(marks) + 1)
          /\ \A m \in 1..Len(marks) : marks'[m] = marks[m]
      BY <1>1, SaveEffect DEF IInv, Names, UserName
    <2>t. TypeOK'
      BY <1>0, <1>1, <2>1 DEF IInv, TypeOK
    <2>m. MarkInv'
      BY <1>0, <1>1, SaveMarks DEF Names, UserName
    <2>f. FrameInv'
      BY <1>b, <1>0, <1>1, <2>1 DEF IInv, FrameInv, EndInv, Depth, Top
    <2> QED BY <2>t, <2>m, <2>f DEF IInv
  <1>2. CASE (conn # "open" \/ SavePointsFail) /\ HandleFails /\ Refused /\ UNCHANGED <<work, marks>>
    BY <1>0, <1>2, HandleFailsInv DEF IInv, TypeOK
  <1> QED BY <1>1, <1>2 DEF UserSavePoint

LEMMA UserRollbackToInv ==
    ASSUME IInv, UserRollbackTo
    PROVE  IInv'
  <1>b. /\ Depth \in Nat /\ Depth = Len(frames) /\ DOMAIN frames = 1..Depth
        /\ frames = <<>> <=> Depth = 0
        /\ Len(marks) \in Nat /\ DOMAIN marks = 1..Len(marks)
        /\ \A i \in 1..Depth : frames[i].sp \in Names
        /\ \A m \in DOMAIN marks : marks[m].work \subseteq Writes
    BY Basics DEF IInv
  <1>0. /\ Depth > 0 /\ ~Top.error /\ conn # "none"
        /\ UNCHANGED <<committed, result, erring, blocks>>
    BY <1>b DEF UserRollbackTo, IInv, FrameInv, EndInv
  <1>1. CASE Restore(UserName) /\ UNCHANGED frames
    <2>1. PICK m \in DOMAIN marks :
              /\ IsLatest(m, UserName)
              /\ conn' = "open" /\ work' = marks[m].work
              /\ marks' \in Seq(Mark) /\ Len(marks') = m /\ DOMAIN marks' = 1..m
              /\ \A i \in 1..m : i \in DOMAIN marks /\ marks'[i] = marks[i]
      BY <1>1, RestoreEffect DEF IInv
    <2>2. Top.sp < m
      BY <1>b, <2>1 DEF UserRollbackTo, IsLatest, Top, Names
    <2>3. \A i \in 2..Depth : frames[i].sp \in 1..m
      <3> SUFFICES ASSUME NEW i \in 2..Depth
                   PROVE  frames[i].sp \in 1..m
        OBVIOUS
      <3> QED BY <1>b, <2>1, <2>2 DEF IInv, FrameInv, EndInv, Top
    <2>t. TypeOK'
      BY <1>b, <1>0, <1>1, <2>1 DEF IInv, TypeOK
    <2>m. MarkInv'
      BY <1>0, <1>1, RestoreMarks
    <2>f. FrameInv'
      BY <1>b, <1>0, <1>1, <2>1, <2>3 DEF IInv, FrameInv, EndInv, Depth, Top
    <2> QED BY <2>t, <2>m, <2>f DEF IInv
  <1>2. CASE (conn = "gone" \/ SavePointsFail) /\ HandleFails /\ Refused /\ UNCHANGED <<work, marks>>
    BY <1>0, <1>2, HandleFailsInv DEF IInv, TypeOK
  <1> QED BY <1>1, <1>2 DEF UserRollbackTo

\* A block inside a block begins ...
LEMMA NestedInv ==
    ASSUME IInv, Nested
    PROVE  IInv'
  <1>b. /\ Depth \in Nat /\ Depth = Len(frames) /\ DOMAIN frames = 1..Depth
        /\ frames = <<>> <=> Depth = 0
        /\ frames \in Seq(Frame)
        /\ Len(marks) \in Nat /\ DOMAIN marks = 1..Len(marks)
        /\ \A i \in 1..Depth : frames[i].sp \in Names
    BY Basics DEF IInv, TypeOK
  <1>0. /\ Depth > 0 /\ Depth < MaxDepth /\ ~Top.error /\ conn # "none"
        /\ result' = "none" /\ UNCHANGED <<committed, erring, blocks>> /\ Save(Fresh)
    BY <1>b DEF Nested, IInv, FrameInv, EndInv
  <1>1. Fresh = Len(marks) + 1 /\ Fresh \in Names
    BY <1>b, <1>0 DEF Fresh, Save, Names
  <1>2. /\ conn = "open" /\ conn' = conn /\ work' = work
        /\ marks' \in Seq(Mark) /\ Len(marks') =< MaxMarks
        /\ DOMAIN marks' = 1..(Len(marks) + 1)
        /\ \A m \in 1..Len(marks) : marks'[m] = marks[m]
        /\ marks'[Len(marks) + 1].name = Len(marks) + 1
    BY <1>0, <1>1, SaveEffect DEF IInv
  <1>3. PICK f : f = [sp |-> Fresh, error |-> FALSE]
    OBVIOUS
  <1>4. f \in Frame /\ f.sp = Len(marks) + 1 /\ ~f.error
    BY <1>1, <1>3 DEF Frame
  <1>5. frames' = Append(frames, f)
    BY <1>3 DEF Nested
  <1>6. /\ frames' \in Seq(Frame) /\ Len(frames') = Depth + 1
        /\ frames'[Depth + 1] = f /\ frames' # <<>>
        /\ \A i \in 1..Depth : frames'[i] = frames[i]
    BY <1>b, <1>4, <1>5
  <1>9. Depth' = Depth + 1
    BY <1>6 DEF Depth
  <1>7. \A i \in 1..Depth : frames[i].sp < Len(marks) + 1
    BY <1>b, <1>0 DEF IInv, FrameInv, EndInv, UserName
  <1>8. \A i \in 1..(Depth + 1) : i = Depth + 1 \/ i \in 1..Depth
    BY <1>b
  <1>t. TypeOK'
    BY <1>b, <1>0, <1>2, <1>6 DEF IInv, TypeOK, Results
  <1>m. MarkInv'
    BY <1>0, <1>1, SaveMarks
  <1>f. FrameInv'
    <2>1. \A i \in 1..Depth : frames'[i] = frames[i] /\ ~frames[i].error
      <3> SUFFICES ASSUME NEW i \in 1..Depth PROVE ~frames[i].error
        BY <1>6
      <3>1. i = Depth \/ i < Depth
        BY <1>b
      <3> QED BY <1>b, <1>0, <3>1 DEF IInv, FrameInv, EndInv, Top
    <2>2. frames'[Depth + 1].sp = Len(marks) + 1 /\ ~frames'[Depth + 1].error
      BY <1>4, <1>6
    <2>3. \A i \in 2..Depth : frames[i].sp \in 1..Len(marks) /\ marks[frames[i].sp].name = frames[i].sp
      BY <1>b, <1>0 DEF IInv, FrameInv, EndInv
    <2>4. \A i \in 2..(Depth + 1) : frames'[i].sp \in DOMAIN marks' /\ marks'[frames'[i].sp].name = frames'[i].sp
      <3> SUFFICES ASSUME NEW i \in 2..(Depth + 1)
                   PROVE  frames'[i].sp \in DOMAIN marks' /\ marks'[frames'[i].sp].name = frames'[i].sp
        OBVIOUS
      <3>1. CASE i = Depth + 1
        BY <1>b, <1>2, <2>2, <3>1
      <3>2. CASE i \in 2..Depth
        BY <1>b, <1>2, <2>1, <2>3, <3>2
      <3> QED BY <1>b, <3>1, <3>2
    <2>5. \A i, j \in 1..(Depth + 1) : i < j => frames'[i].sp < frames'[j].sp
      BY <1>b, <1>0, <1>7, <1>8, <2>1, <2>2 DEF IInv, FrameInv, EndInv
    <2>6. \A i \in 1..(Depth + 1) : ~frames'[i].error
      BY <1>8, <2>1, <2>2
    <2>7. frames'[1].sp = UserName
      BY <1>b, <1>0, <2>1 DEF IInv, FrameInv, EndInv
    <2>8. EndInv'
      BY <1>0, <1>2, <1>6, StaysInside
    <2> QED BY <1>b, <1>0, <1>2, <1>6, <1>9, <2>4, <2>5, <2>6, <2>7, <2>8 DEF FrameInv, Top
  <1> QED BY <1>t, <1>m, <1>f DEF IInv

\* ... and ends.
LEMMA NestedDoneInv ==
    ASSUME IInv, NestedDone
    PROVE  IInv'
  <1>b. /\ Depth \in Nat /\ Depth = Len(frames) /\ DOMAIN frames = 1..Depth
        /\ frames = <<>> <=> Depth = 0
    BY Basics DEF IInv
  <1>0. /\ Depth > 1 /\ frames' = Popped /\ result' \in Results
        /\ UNCHANGED <<committed, conn, work, marks, erring, blocks>>
    BY DEF NestedDone, Results
  <1>1. /\ frames' \in Seq(Frame) /\ Len(frames') = Depth - 1
        /\ \A i \in 1..(Depth - 1) : frames'[i] = frames[i]
    BY <1>0, PoppedIs DEF IInv
  <1>2. Depth' = Depth - 1 /\ frames' # <<>>
    BY <1>b, <1>0, <1>1 DEF Depth
  <1>t. TypeOK'
    BY <1>b, <1>0, <1>1 DEF IInv, TypeOK
  <1>m. MarkInv'
    BY <1>0 DEF IInv, MarkInv
  <1>f. FrameInv'
    <2>1. Top' = frames[Depth - 1]
      BY <1>b, <1>0, <1>1, <1>2 DEF Top
    <2>2. Top'.error => Top.error
      BY <1>b, <1>0, <2>1 DEF IInv, FrameInv, EndInv, Top
    <2>3. \A i \in 1..(Depth - 1) : i \in 1..Depth
      BY <1>b
    <2>4. frames'[1].sp = UserName
      BY <1>b, <1>0, <1>1 DEF IInv, FrameInv
    <2>5. \A i \in 2..(Depth - 1) :
            frames'[i].sp \in DOMAIN marks' /\ marks'[frames'[i].sp].name = frames'[i].sp
      <3>1. \A i \in 2..(Depth - 1) : i \in 2..Depth /\ i \in 1..(Depth - 1)
        BY <1>b
      <3> QED BY <1>0, <1>1, <3>1 DEF IInv, FrameInv
    <2>6. \A i, j \in 1..(Depth - 1) :
            i < j => frames'[i].sp < frames'[j].sp /\ ~frames'[i].error
      BY <1>1, <2>3 DEF IInv, FrameInv
    <2>7. EndInv'
      <3>1. Depth > 0 /\ erring' = erring /\ conn' = conn /\ conn # "none"
        BY <1>b, <1>0 DEF IInv, FrameInv, EndInv
      <3> QED BY <1>2, <3>1, StaysInside
    <2>8. Depth' > 0 /\ ~SavePointsFail => (Top'.error => conn' \in {"failed", "gone"})
      BY <1>b, <1>0, <2>2 DEF IInv, FrameInv
    <2> QED BY <1>b, <1>2, <2>4, <2>5, <2>6, <2>7, <2>8 DEF FrameInv
  <1> QED BY <1>t, <1>m, <1>f DEF IInv

LEMMA NestedUndoneInv ==
    ASSUME IInv, NestedUndone
    PROVE  IInv'
  <1>b. /\ Depth \in Nat /\ Depth = Len(frames) /\ DOMAIN frames = 1..Depth
        /\ frames = <<>> <=> Depth = 0
        /\ Len(marks) \in Nat /\ DOMAIN marks = 1..Len(marks)
        /\ \A i \in 1..Depth : frames[i].sp \in Names
        /\ \A m \in DOMAIN marks : marks[m].work \subseteq Writes
    BY Basics DEF IInv
  <1>0. /\ Depth > 1 /\ conn # "none" /\ result' \in Results
        /\ UNCHANGED <<committed, erring, blocks>>
    BY <1>b DEF NestedUndone, Results, IInv, FrameInv, EndInv
  <1>p. /\ Popped \in Seq(Frame) /\ Len(Popped) = Depth - 1
        /\ \A i \in 1..(Depth - 1) : Popped[i] = frames[i]
        /\ PoppedWithError \in Seq(Frame) /\ Len(PoppedWithError) = Depth - 1
        /\ \A i \in 1..(Depth - 2) : PoppedWithError[i] = frames[i]
        /\ PoppedWithError[Depth - 1].sp = frames[Depth - 1].sp
        /\ PoppedWithError[Depth - 1].error
    BY <1>0, PoppedIs DEF IInv
  <1>s. \A i \in 1..(Depth - 1) : i = Depth - 1 \/ i \in 1..(Depth - 2)
    BY <1>b
  <1>e. \A i \in 1..(Depth - 1) : ~frames[i].error
    BY <1>b, <1>0 DEF IInv, FrameInv, EndInv
  <1>1. CASE Restore(Top.sp) /\ frames' = Popped
    <2>1. PICK m \in DOMAIN marks :
              /\ IsLatest(m, Top.sp)
              /\ conn' = "open" /\ work' = marks[m].work
              /\ marks' \in Seq(Mark) /\ Len(marks') = m /\ DOMAIN marks' = 1..m
              /\ \A i \in 1..m : i \in DOMAIN marks /\ marks'[i] = marks[i]
      BY <1>1, RestoreEffect DEF IInv
    <2>2. Top.sp =< m
      BY <1>b, <1>0, <2>1 DEF IInv, FrameInv, EndInv, IsLatest, Top
    <2>3. \A i \in 2..(Depth - 1) : frames[i].sp \in 1..m
      BY <1>b, <1>0, <2>1, <2>2 DEF IInv, FrameInv, EndInv, Top
    <2>4. Depth' = Depth - 1 /\ frames' # <<>>
      BY <1>b, <1>0, <1>1, <1>p DEF Depth
    <2>t. TypeOK'
      BY <1>b, <1>0, <1>1, <1>p, <2>1 DEF IInv, TypeOK
    <2>m. MarkInv'
      BY <1>0, <1>1, RestoreMarks
    <2>5. \A i \in 1..(Depth - 1) : frames'[i] = frames[i]
      BY <1>1, <1>p
    <2>6. \A i \in 2..(Depth - 1) :
            frames[i].sp \in DOMAIN marks /\ marks[frames[i].sp].name = frames[i].sp
      BY <1>b DEF IInv, FrameInv
    <2>7. \A i \in 2..(Depth - 1) :
            frames[i].sp \in DOMAIN marks' /\ marks'[frames[i].sp].name = frames[i].sp
      BY <2>1, <2>3, <2>6
    <2>8. EndInv'
      <3>1. Depth > 0 /\ erring' = erring /\ conn' # "none"
        BY <1>b, <1>0, <2>1
      <3> QED BY <2>4, <3>1, StaysInside
    <2>9. frames'[1].sp = UserName
      BY <1>b, <1>0, <2>5 DEF IInv, FrameInv
    <2>10. \A i \in 2..(Depth - 1) :
             frames'[i].sp \in DOMAIN marks' /\ marks'[frames'[i].sp].name = frames'[i].sp
      BY <1>b, <2>5, <2>7
    <2>11. \A i, j \in 1..(Depth - 1) : i < j => frames'[i].sp < frames'[j].sp
      <3>1. \A i, j \in 1..Depth : i < j => frames[i].sp < frames[j].sp
        BY DEF IInv, FrameInv
      <3>2. \A i \in 1..(Depth - 1) : i \in 1..Depth
        BY <1>b
      <3> QED BY <2>5, <3>1, <3>2
    <2>12. \A i, j \in 1..(Depth - 1) : i < j => ~frames'[i].error
      BY <1>e, <2>5
    <2>13. ~Top'.error
      BY <1>b, <1>0, <1>e, <2>4, <2>5 DEF Top
    <2>f. FrameInv'
      BY <1>b, <2>4, <2>8, <2>9, <2>10, <2>11, <2>12, <2>13 DEF FrameInv
    <2> QED BY <2>t, <2>m, <2>f DEF IInv
  <1>2. CASE /\ conn = "gone" \/ SavePointsFail
             /\ frames' \in {Popped, PoppedWithError} /\ Refused /\ UNCHANGED <<work, marks>>
    <2>0. /\ frames' \in Seq(Frame) /\ Len(frames') = Depth - 1
          /\ \A i \in 1..(Depth - 2) : frames'[i] = frames[i]
          /\ frames'[Depth - 1].sp = frames[Depth - 1].sp
      <3>1. CASE frames' = Popped
        <4>1. \A i \in 1..(Depth - 2) : i \in 1..(Depth - 1)
          BY <1>b
        <4>2. Depth - 1 \in 1..(Depth - 1)
          BY <1>b, <1>0
        <4> QED BY <1>p, <3>1, <4>1, <4>2
      <3>2. CASE frames' = PoppedWithError
        BY <1>p, <3>2
      <3> QED BY <1>2, <3>1, <3>2
    <2>1. Depth' = Depth - 1 /\ frames' # <<>>
      BY <1>b, <1>0, <2>0 DEF Depth
    <2>2. conn' \in {"open", "failed", "gone"} /\ (~SavePointsFail => conn' = "gone")
      BY <1>0, <1>2 DEF Refused, IInv, TypeOK
    <2>3. \A i \in 1..(Depth - 1) : frames'[i].sp = frames[i].sp
      BY <1>s, <2>0
    <2>4. \A i, j \in 1..(Depth - 1) : i < j => ~frames'[i].error
      BY <1>b, <1>e, <1>s, <2>0
    <2>t. TypeOK'
      BY <1>b, <1>0, <1>2, <2>0, <2>2 DEF IInv, TypeOK
    <2>m. MarkInv'
      BY <1>0, <1>2, <2>2 DEF IInv, MarkInv
    <2>f. FrameInv'
      <3>1. EndInv'
        BY <1>b, <1>0, <2>1, <2>2, StaysInside
      <3>2. frames'[1].sp = UserName
        BY <1>b, <1>0, <2>3 DEF IInv, FrameInv, EndInv
      <3>3. \A i \in 2..(Depth - 1) :
               frames'[i].sp \in DOMAIN marks' /\ marks'[frames'[i].sp].name = frames'[i].sp
        <4>1. \A i \in 2..(Depth - 1) : i \in 2..Depth /\ i \in 1..(Depth - 1)
          BY <1>b
        <4>2. \A i \in 2..Depth : frames[i].sp \in DOMAIN marks /\ marks[frames[i].sp].name = frames[i].sp
          BY DEF IInv, FrameInv, EndInv
        <4> QED BY <1>2, <2>3, <4>1, <4>2
      <3>4. \A i, j \in 1..(Depth - 1) : i < j => frames'[i].sp < frames'[j].sp
        BY <1>b, <1>0, <2>3 DEF IInv, FrameInv, EndInv
      <3> QED BY <2>1, <2>2, <2>4, <3>1, <3>2, <3>3, <3>4 DEF FrameInv
    <2> QED BY <2>t, <2>m, <2>f DEF IInv
  <1> QED BY <1>1, <1>2 DEF NestedUndone

LEMMA NextInv == IInv /\ [Next]_vars => IInv'
  <1> SUFFICES ASSUME IInv, [Next]_vars PROVE IInv'
    OBVIOUS
  <1>1. CASE Begin \/ BeginFails \/ BeginErring \/ Expire \/ Commit \/ Rollback
    BY <1>1, OuterInv
  <1>2. ASSUME NEW w \in Writes, Write(w) PROVE IInv'
    BY <1>2, WriteInv
  <1>3. CASE UserSavePoint
    BY <1>3, UserSavePointInv
  <1>4. CASE UserRollbackTo
    BY <1>4, UserRollbackToInv
  <1>5. CASE Nested
    BY <1>5, NestedInv
  <1>6. CASE NestedFails
    <2>1. Depth > 0 /\ conn # "none"
      BY <1>6, Inside DEF NestedFails
    <2>2. CASE Top.error /\ UNCHANGED <<conn, frames>>
      <3>1. /\ UNCHANGED <<committed, conn, work, marks, frames, erring, blocks>>
            /\ result' \in Results
        BY <1>6, <2>2 DEF NestedFails, Results
      <3>2. Depth' = Depth /\ Top' = Top
        BY <3>1 DEF Depth, Top
      <3>t. TypeOK'
        BY <3>1 DEF IInv, TypeOK
      <3>m. MarkInv'
        BY <3>1 DEF IInv, MarkInv
      <3>f. FrameInv'
        BY <3>1, <3>2 DEF IInv, FrameInv, EndInv
      <3> QED BY <3>t, <3>m, <3>f DEF IInv
    <2> QED BY <1>6, <2>1, <2>2, HandleFailsInv DEF NestedFails, Results
  <1>8. CASE NestedDone
    BY <1>8, NestedDoneInv
  <1>9. CASE NestedUndone
    BY <1>9, NestedUndoneInv
  <1>u. CASE UNCHANGED vars
    <2>t. TypeOK'
      BY <1>u DEF vars, IInv, TypeOK
    <2>1. UNCHANGED <<committed, conn, work, marks, frames, erring>>
      BY <1>u DEF vars
    <2>m. MarkInv'
      BY <2>1 DEF IInv, MarkInv
    <2>2. Depth' = Depth /\ Top' = Top
      BY <2>1 DEF Depth, Top
    <2>f. FrameInv'
      BY <2>1, <2>2 DEF IInv, FrameInv, EndInv
    <2> QED BY <2>t, <2>m, <2>f DEF IInv
  <1> QED BY <1>1, <1>2, <1>3, <1>4, <1>5, <1>6, <1>8, <1>9, <1>u DEF Next

\* Every reachable state satisfies the invariant: the savepoints of the blocks
\* and the errors of their handles stay in step with the transaction.
THEOREM Invariance == Spec => []IInv
  BY InitInv, NextInv, PTL DEF Spec

------------------------------------------------------------------------------
(***************************************************************************)
(* The properties.                                                         *)
(***************************************************************************)

\* The types of TypeOK.
THEOREM Typing == Spec => []TypeOK
  BY Invariance, PTL DEF IInv

\* DB.Transaction never returns with the transaction still open.
THEOREM Ended == Spec => []AlwaysEnded
  <1>1. IInv => AlwaysEnded
    BY DEF IInv, FrameInv, EndInv, AlwaysEnded
  <1> QED BY <1>1, Invariance, PTL

\* The savepoint of a nested block is the only one of its name, at the place the
\* name says.
LEMMA SavePointIs ==
    ASSUME IInv, NEW i \in 2..Depth
    PROVE  /\ frames[i].sp \in DOMAIN marks /\ IsLatest(frames[i].sp, frames[i].sp)
           /\ SavePointOf(i) = frames[i].sp
  <1>1. /\ frames[i].sp \in DOMAIN marks /\ marks[frames[i].sp].name = frames[i].sp
        /\ frames[i].sp \in Nat /\ frames[i].sp # UserName
    BY Basics DEF IInv, FrameInv, EndInv, UserName
  <1>2. \A m \in DOMAIN marks : marks[m].name = frames[i].sp => m = frames[i].sp
    BY <1>1 DEF IInv, MarkInv
  <1>3. IsLatest(frames[i].sp, frames[i].sp)
    BY <1>1, <1>2 DEF IsLatest
  <1>4. \A m \in DOMAIN marks : IsLatest(m, frames[i].sp) => m = frames[i].sp
    BY <1>2 DEF IsLatest
  <1> QED BY <1>1, <1>3, <1>4 DEF SavePointOf

\* Every nested block has its savepoint to go back to, above those of the
\* blocks around it.
THEOREM SavePoints == Spec => []SavePointsNested
  <1>1. IInv => SavePointsNested
    <2> SUFFICES ASSUME IInv, NEW i \in 2..Depth
                 PROVE  /\ \E m \in DOMAIN marks : IsLatest(m, frames[i].sp)
                        /\ i > 2 => SavePointOf(i - 1) < SavePointOf(i)
                        /\ marks[SavePointOf(i)].work \subseteq work
      BY DEF SavePointsNested
    <2>1. Depth \in Nat
      BY Basics DEF IInv
    <2>2. /\ frames[i].sp \in DOMAIN marks /\ IsLatest(frames[i].sp, frames[i].sp)
          /\ SavePointOf(i) = frames[i].sp
      BY SavePointIs
    <2>3. i > 2 => SavePointOf(i - 1) = frames[i - 1].sp
      <3> HAVE i > 2
      <3>1. i - 1 \in 2..Depth
        BY <2>1
      <3> QED BY <3>1, SavePointIs
    <2> QED BY <2>1, <2>2, <2>3 DEF IInv, FrameInv, EndInv, MarkInv
  <1> QED BY <1>1, Invariance, PTL

\* Where savepoints can always be set, an error that Transaction returns means
\* that nothing was committed: no error of a handle outlives the transaction's
\* being fit to commit.
THEOREM Atomic ==
    ASSUME ~SavePointsFail
    PROVE  Spec => ErrorMeansRolledBack
  <1>1. ASSUME IInv, [Next]_vars
        PROVE  [Depth = 1 /\ frames' = <<>> /\ result' # "ok" => committed' = committed]_vars
    <2>1. Commit => (Depth = 1 /\ result' # "ok" => committed' = committed)
      BY <1>1 DEF Commit, IInv, FrameInv, EndInv
    <2>2. Next => Commit \/ committed' = committed
      BY DEF Next, Begin, BeginFails, BeginErring, Expire, Rollback, Write, UserSavePoint, UserRollbackTo,
             Nested, NestedFails, NestedDone, NestedUndone
    <2> QED BY <1>1, <2>1, <2>2 DEF vars
  <1> QED BY <1>1, Invariance, PTL DEF Spec, ErrorMeansRolledBack

------------------------------------------------------------------------------
(***************************************************************************)
(* The blocks are atomic.                                                  *)
(***************************************************************************)

\* What the blocks of a living transaction see.
ViewsFacts ==
    /\ Depth > 0
    /\ Views \in Seq(SUBSET Writes) /\ Len(Views) = Depth
    /\ Views[Depth] = work
    /\ \A i \in 1..(Depth - 1) : Views[i] = marks[frames[i + 1].sp].work

LEMMA ViewsAre == IInv /\ Alive => ViewsFacts
  <1> SUFFICES ASSUME IInv, Alive PROVE ViewsFacts
    OBVIOUS
  <1>b. /\ Depth \in Nat /\ Depth = Len(frames) /\ DOMAIN frames = 1..Depth
        /\ \A m \in DOMAIN marks : marks[m].work \subseteq Writes
    BY Basics DEF IInv
  <1>1. Depth > 0 /\ work \in SUBSET Writes
    BY <1>b DEF Alive, IInv, FrameInv, EndInv, TypeOK
  <1>2. Views = [i \in 1..Depth |-> IF i = Depth THEN work ELSE marks[SavePointOf(i + 1)].work]
    BY <1>b DEF Views, Alive
  <1>3. \A i \in 1..(Depth - 1) :
           /\ frames[i + 1].sp \in DOMAIN marks
           /\ SavePointOf(i + 1) = frames[i + 1].sp
    <2> SUFFICES ASSUME NEW i \in 1..(Depth - 1)
                 PROVE  frames[i + 1].sp \in DOMAIN marks /\ SavePointOf(i + 1) = frames[i + 1].sp
      OBVIOUS
    <2>1. i + 1 \in 2..Depth
      BY <1>b
    <2>2. PICK j : j = i + 1
      OBVIOUS
    <2> QED BY <2>1, <2>2, SavePointIs
  <1>4. /\ \A i \in 1..(Depth - 1) : Views[i] = marks[frames[i + 1].sp].work
        /\ Views[Depth] = work
    BY <1>b, <1>1, <1>2, <1>3
  <1>5. \A i \in 1..Depth : Views[i] \in SUBSET Writes
    <2>1. \A i \in 1..Depth : i = Depth \/ i \in 1..(Depth - 1)
      BY <1>b
    <2> QED BY <1>b, <1>1, <1>3, <1>4, <2>1
  <1>6. PICK n \in Nat : n = Depth
    BY <1>b
  <1>7. DOMAIN Views = 1..n
    BY <1>2, <1>6
  <1>8. Views \in [1..n -> SUBSET Writes]
    BY <1>2, <1>5, <1>6
  <1>9. Views \in Seq(SUBSET Writes) /\ Len(Views) = n
    BY <1>8
  <1> QED BY <1>1, <1>4, <1>6, <1>9 DEF ViewsFacts

LEMMA ViewsAreNext == (IInv /\ Alive => ViewsFacts)'
  BY ViewsAre, PTL

\* What the blocks see, as long as none begins or ends, is what the innermost
\* one does to it.
LEMMA SameStack ==
    ASSUME IInv, IInv', Alive, Alive', Depth' = Depth,
           \A i \in 2..Depth : /\ frames'[i].sp = frames[i].sp
                              /\ marks'[frames[i].sp].work = marks[frames[i].sp].work
    PROVE  /\ Views' = [Views EXCEPT ![Depth] = work']
           /\ work' = work => Views' = Views
  <1>b. Depth \in Nat
    BY Basics DEF IInv
  <1>1. /\ Depth > 0
        /\ Views \in Seq(SUBSET Writes) /\ Len(Views) = Depth
        /\ Views[Depth] = work
        /\ \A i \in 1..(Depth - 1) : Views[i] = marks[frames[i + 1].sp].work
    BY ViewsAre DEF ViewsFacts
  <1>2. /\ Views' \in Seq(SUBSET Writes) /\ Len(Views') = Depth
        /\ Views'[Depth] = work'
        /\ \A i \in 1..(Depth - 1) : Views'[i] = marks'[frames'[i + 1].sp].work
    BY ViewsAreNext DEF ViewsFacts
  <1>3. \A i \in 1..(Depth - 1) : Views'[i] = Views[i]
    <2> SUFFICES ASSUME NEW i \in 1..(Depth - 1) PROVE Views'[i] = Views[i]
      OBVIOUS
    <2>1. i + 1 \in 2..Depth
      BY <1>b
    <2> QED BY <1>1, <1>2, <2>1
  <1>4. \A i \in 1..Depth : i = Depth \/ i \in 1..(Depth - 1)
    BY <1>b
  <1>5. PICK seen : seen = work'
    OBVIOUS
  <1>6. seen \in SUBSET Writes
    BY <1>5 DEF IInv, TypeOK
  <1>7. Views' = [Views EXCEPT ![Depth] = seen]
    <2>1. Depth \in 1..Len(Views)
      BY <1>b, <1>1
    <2>2. PICK t : t = [Views EXCEPT ![Depth] = seen]
      OBVIOUS
    <2>3. /\ t \in Seq(SUBSET Writes) /\ Len(t) = Len(Views)
          /\ \A i \in 1..Len(Views) : t[i] = IF i = Depth THEN seen ELSE Views[i]
      BY <1>1, <1>6, <2>1, <2>2, ExceptSeq
    <2>4. \A i \in 1..Len(Views') : Views'[i] = t[i]
      BY <1>b, <1>1, <1>2, <1>3, <1>4, <1>5, <2>3
    <2>5. Views' = t
      BY <1>1, <1>2, <2>3, <2>4, SeqEqual
    <2> QED BY <2>2, <2>5
  <1>8. ASSUME work' = work PROVE Views' = Views
    <2>1. \A i \in 1..Len(Views') : Views'[i] = Views[i]
      BY <1>1, <1>2, <1>3, <1>4, <1>8
    <2> QED BY <1>1, <1>2, <2>1, SeqEqual
  <1> QED BY <1>5, <1>7, <1>8

\* Of a transaction that is not alive the blocks see nothing.
LEMMA NotAlive == /\ ~Alive => Views = <<>>
                  /\ (~Alive => Views = <<>>)'
  BY DEF Views

\* What a step of the outermost block is.
LEMMA OuterRefines ==
    ASSUME ~SavePointsFail, IInv, IInv',
           Begin \/ BeginFails \/ BeginErring \/ Expire \/ Commit \/ Rollback
    PROVE  Blocks!Next
  <1>b. /\ Depth \in Nat /\ Depth = Len(frames) /\ DOMAIN frames = 1..Depth
        /\ frames = <<>> <=> Depth = 0
        /\ frames # <<>> => conn # "none" /\ ~erring
        /\ frames = <<>> /\ ~erring => conn = "none"
    BY Basics DEF IInv, FrameInv, EndInv
  <1>1. CASE Begin
    <2>1. Depth = 0 /\ conn' = "open" /\ work' = committed /\ committed' = committed
          /\ result' = "none" /\ committed \in SUBSET Writes
      BY <1>1, <1>b DEF Begin, IInv, TypeOK
    <2>2. Views = <<>>
      BY <2>1, NotAlive DEF Alive
    <2>3. Depth' = 1
      BY <1>1 DEF Begin, Depth
    <2>4. Views' \in Seq(SUBSET Writes) /\ Len(Views') = 1 /\ Views'[1] = committed
      BY <2>1, <2>3, ViewsAreNext DEF ViewsFacts, Alive
    <2>5. Views' = <<committed>>
      <3>1. PICK t : t = <<committed>>
        OBVIOUS
      <3>2. t \in Seq(SUBSET Writes) /\ Len(t) = 1 /\ t[1] = committed
        BY <2>1, <3>1
      <3>3. Views' = t
        BY <2>4, <3>2, SeqEqual
      <3> QED BY <3>1, <3>3
    <2> QED BY <2>1, <2>2, <2>5 DEF Blocks!Next, Blocks!Begin, Answer
  <1>2. CASE BeginFails
    <2>1. Views' = <<>> /\ Answer' = "error" /\ committed' = committed
      BY <1>2, <1>b, NotAlive DEF BeginFails, Alive, Answer
    <2> QED BY <2>1 DEF Blocks!Next, Blocks!Fail, Blocks!Answers
  <1>e. CASE BeginErring
    <2>1. Depth' = 0
      BY <1>e, <1>b DEF BeginErring, Depth
    <2>2. Views' = <<>> /\ Answer' = "error" /\ committed' = committed
      BY <1>e, <2>1, NotAlive DEF BeginErring, Alive, Answer
    <2> QED BY <2>2 DEF Blocks!Next, Blocks!Fail, Blocks!Answers
  <1>3. CASE Expire
    <2>1. Views' = <<>> /\ Answer' = "none" /\ committed' = committed
      BY <1>3, NotAlive DEF Expire, Alive, Answer
    <2> QED BY <2>1 DEF Blocks!Next, Blocks!Fail, Blocks!Answers
  <1>4. CASE Commit
    <2>1. Depth = 1 /\ Views' = <<>> /\ Answer' = result'
      BY <1>4, NotAlive DEF Commit, Alive, Answer
    <2>2. CASE conn = "open" /\ committed' = work /\ result' = IF Top.error THEN "error" ELSE "ok"
      <3>1. ~Top.error /\ Alive
        BY <2>1, <2>2 DEF IInv, FrameInv, EndInv, Alive
      <3>2. Len(Views) = 1 /\ Views[1] = work
        BY <2>1, <3>1, ViewsAre DEF ViewsFacts
      <3>3. Blocks!Depth = 1 /\ Blocks!Seen = work
        BY <3>2 DEF Blocks!Depth, Blocks!Seen
      <3> QED BY <2>1, <2>2, <3>1, <3>3 DEF Blocks!Next, Blocks!Commit
    <2>3. CASE result' = "error" /\ UNCHANGED committed
      BY <2>1, <2>3 DEF Blocks!Next, Blocks!Fail, Blocks!Answers
    <2> QED BY <1>4, <2>2, <2>3 DEF Commit
  <1>5. CASE Rollback
    <2>1. Views' = <<>> /\ Answer' \in {"error", "panic"} /\ committed' = committed
      BY <1>5, NotAlive DEF Rollback, Alive, Answer
    <2> QED BY <2>1 DEF Blocks!Next, Blocks!Fail, Blocks!Answers
  <1> QED BY <1>1, <1>2, <1>e, <1>3, <1>4, <1>5

\* A block sees something as long as the transaction is alive.
LEMMA SeenIs ==
    ASSUME IInv, Alive
    PROVE  Blocks!Depth = Depth /\ Blocks!Depth > 0 /\ Blocks!Seen = work
  <1>1. Depth > 0 /\ Len(Views) = Depth /\ Views[Depth] = work
    BY ViewsAre DEF ViewsFacts
  <1> QED BY <1>1 DEF Blocks!Depth, Blocks!Seen

\* What a statement is.
LEMMA WriteRefines ==
    ASSUME IInv, IInv', NEW w \in Writes, Write(w)
    PROVE  Blocks!Next \/ UNCHANGED Blocks!vars
  <1>1. /\ Alive /\ Alive' /\ conn # "gone" /\ conn' # "gone"
        /\ UNCHANGED <<committed, marks, frames, result>>
    BY DEF Write, Refused, Alive, Depth
  <1>2. Depth' = Depth /\ Answer' = Answer
    BY <1>1 DEF Depth, Answer
  <1>3. /\ Views' = [Views EXCEPT ![Depth] = work']
        /\ work' = work => Views' = Views
    BY <1>1, <1>2, SameStack
  <1>4. CASE work' = work \cup {w}
    <2>1. Blocks!Depth = Depth /\ Blocks!Depth > 0 /\ Blocks!Seen = work
      BY <1>1, SeenIs
    <2>2. Blocks!Write(w)
      BY <1>1, <1>2, <1>3, <1>4, <2>1 DEF Blocks!Write, Blocks!See
    <2> QED BY <2>2 DEF Blocks!Next
  <1>5. CASE work' = work
    BY <1>1, <1>2, <1>3, <1>5 DEF Blocks!vars
  <1> QED BY <1>4, <1>5 DEF Write

\* A failed step on the handle of the innermost block changes what no block
\* sees.
LEMMA FailureUnseen ==
    ASSUME IInv, IInv', Depth > 0, HandleFails, Refused, conn # "open",
           UNCHANGED <<committed, work, marks>>
    PROVE  Views' = Views /\ conn' = conn
  <1>b. Depth \in Nat /\ Depth = Len(frames)
    BY Basics DEF IInv
  <1>1. conn' = conn
    BY DEF Refused
  <1>2. /\ Len(frames') = Depth
        /\ \A i \in 1..(Depth - 1) : frames'[i] = frames[i]
        /\ frames'[Depth].sp = frames[Depth].sp
    BY <1>b, AddErrorEffect DEF HandleFails, IInv, Top
  <1>3. Depth' = Depth /\ \A i \in 2..Depth : frames'[i].sp = frames[i].sp
    <2>1. \A i \in 2..Depth : i = Depth \/ i \in 1..(Depth - 1)
      BY <1>b
    <2>2. Depth' = Depth
      BY <1>b, <1>2 DEF Depth
    <2> QED BY <1>2, <2>1, <2>2
  <1>4. CASE Alive
    <2>1. Alive'
      BY <1>1, <1>3, <1>4 DEF Alive
    <2> QED BY <1>1, <1>3, <1>4, <2>1, SameStack
  <1>5. CASE ~Alive
    <2>1. ~Alive'
      BY <1>1, <1>3, <1>5 DEF Alive
    <2> QED BY <1>1, <1>5, <2>1, NotAlive
  <1> QED BY <1>4, <1>5

\* What the application's savepoints are.
LEMMA UserSavePointRefines ==
    ASSUME ~SavePointsFail, IInv, IInv', UserSavePoint
    PROVE  UNCHANGED Blocks!vars
  <1>1. CASE Save(UserName) /\ UNCHANGED frames
    <2>1. /\ conn = "open" /\ conn' = conn /\ work' = work
          /\ \A m \in 1..Len(marks) : marks'[m] = marks[m]
      BY <1>1, SaveEffect DEF IInv, Names, UserName
    <2>2. Depth' = Depth /\ Alive /\ Alive'
      BY <1>1, <2>1 DEF UserSavePoint, Depth, Alive
    <2>3. \A i \in 2..Depth : frames[i].sp \in 1..Len(marks)
      BY Basics DEF IInv, FrameInv, EndInv
    <2>4. Views' = Views
      BY <1>1, <2>1, <2>2, <2>3, SameStack
    <2> QED BY <2>1, <2>4 DEF Blocks!vars, Answer, UserSavePoint
  <1>2. CASE conn # "open" /\ HandleFails /\ Refused /\ UNCHANGED <<work, marks>>
    <2>1. Views' = Views /\ conn' = conn
      BY <1>2, FailureUnseen DEF UserSavePoint
    <2> QED BY <2>1 DEF Blocks!vars, Answer, UserSavePoint
  <1> QED BY <1>1, <1>2 DEF UserSavePoint

LEMMA UserRollbackToRefines ==
    ASSUME ~SavePointsFail, IInv, IInv', UserRollbackTo
    PROVE  Blocks!Next \/ UNCHANGED Blocks!vars
  <1>b. /\ Depth \in Nat /\ Depth = Len(frames)
        /\ Len(marks) \in Nat /\ DOMAIN marks = 1..Len(marks)
        /\ \A i \in 1..Depth : frames[i].sp \in Names
        /\ \A m \in DOMAIN marks : marks[m].work \subseteq Writes
    BY Basics DEF IInv
  <1>1. CASE Restore(UserName) /\ UNCHANGED frames
    <2>1. PICK m \in DOMAIN marks :
              /\ IsLatest(m, UserName)
              /\ conn \in {"open", "failed"} /\ conn' = "open" /\ work' = marks[m].work
              /\ \A i \in 1..m : i \in DOMAIN marks /\ marks'[i] = marks[i]
      BY <1>1, RestoreEffect DEF IInv
    <2>2. Top.sp < m /\ Depth > 0
      BY <1>b, <2>1 DEF UserRollbackTo, IsLatest, Top, Names
    <2>3. \A i \in 2..Depth : frames[i].sp \in 1..m /\ frames[i].sp < m
      BY <1>b, <2>1, <2>2 DEF IInv, FrameInv, EndInv, Top
    <2>4. Depth' = Depth /\ Alive /\ Alive' /\ conn # "none"
      BY <1>1, <2>1, <2>2 DEF Depth, Alive
    <2>5. Views' = [Views EXCEPT ![Depth] = work']
      BY <1>1, <2>1, <2>3, <2>4, SameStack
    <2>6. Blocks!Depth = Depth /\ Blocks!Depth > 0 /\ Blocks!Seen = work
      BY <2>4, SeenIs
    <2>7. Blocks!Inherited \subseteq work'
      <3>1. CASE Depth = 1
        BY <2>1, <2>4, <2>6, <3>1 DEF Blocks!Inherited, IInv, MarkInv
      <3>2. CASE Depth # 1
        <4>1. Depth - 1 \in 1..(Depth - 1) /\ Depth \in 2..Depth /\ Depth - 1 + 1 = Depth
          BY <1>b, <2>2, <3>2
        <4>2. Views[Depth - 1] = marks[frames[Depth].sp].work
          <5>1. \A i \in 1..(Depth - 1) : Views[i] = marks[frames[i + 1].sp].work
            BY <2>4, ViewsAre DEF ViewsFacts
          <5> QED BY <4>1, <5>1
        <4>3. frames[Depth].sp \in DOMAIN marks /\ frames[Depth].sp < m
          BY <2>1, <2>3, <4>1
        <4> QED BY <2>1, <2>6, <3>2, <4>2, <4>3 DEF Blocks!Inherited, IInv, MarkInv
      <3> QED BY <3>1, <3>2
    <2>8. work' \subseteq work /\ work' \in SUBSET Writes
      BY <1>b, <2>1 DEF IInv, MarkInv
    <2>9. committed' = committed /\ Answer' = Answer
      BY <2>1 DEF UserRollbackTo, Answer
    <2>10. Blocks!Undo(work')
      BY <2>5, <2>6, <2>7, <2>8, <2>9 DEF Blocks!Undo, Blocks!See
    <2> QED BY <2>8, <2>10 DEF Blocks!Next
  <1>2. CASE conn = "gone" /\ HandleFails /\ Refused /\ UNCHANGED <<work, marks>>
    <2>1. Views' = Views /\ conn' = conn
      BY <1>2, FailureUnseen DEF UserRollbackTo
    <2> QED BY <2>1 DEF Blocks!vars, Answer, UserRollbackTo
  <1> QED BY <1>1, <1>2 DEF UserRollbackTo

\* What a block inside a block is when it begins, or is refused.
LEMMA NestedRefines ==
    ASSUME IInv, IInv', Nested
    PROVE  Blocks!Next
  <1>b. /\ Depth \in Nat /\ Depth = Len(frames)
        /\ Len(marks) \in Nat /\ DOMAIN marks = 1..Len(marks)
        /\ frames \in Seq(Frame)
    BY Basics DEF IInv, TypeOK
  <1>1. Fresh = Len(marks) + 1 /\ Fresh \in Names
    BY <1>b DEF Fresh, Nested, Save, Names
  <1>2. /\ conn = "open" /\ conn' = conn /\ work' = work
        /\ \A m \in 1..Len(marks) : marks'[m] = marks[m]
        /\ marks'[Len(marks) + 1].work = work
    BY <1>1, SaveEffect DEF Nested, IInv
  <1>3. PICK f : f = [sp |-> Fresh, error |-> FALSE]
    OBVIOUS
  <1>4. f \in Frame /\ f.sp = Len(marks) + 1
    BY <1>1, <1>3 DEF Frame
  <1>5. frames' = Append(frames, f) /\ Alive /\ Alive'
    <2>1. frames' = Append(frames, f) /\ Depth > 0
      BY <1>3 DEF Nested
    <2>2. Depth' = Depth + 1
      BY <1>b, <2>1 DEF Depth
    <2> QED BY <1>b, <1>2, <2>1, <2>2 DEF Alive
  <1>6. /\ Len(frames') = Depth + 1 /\ frames'[Depth + 1] = f
        /\ \A i \in 1..Depth : frames'[i] = frames[i]
    BY <1>b, <1>4, <1>5
  <1>7. Depth' = Depth + 1
    BY <1>6 DEF Depth
  <1>8. /\ Depth > 0
        /\ Views \in Seq(SUBSET Writes) /\ Len(Views) = Depth /\ Views[Depth] = work
        /\ \A i \in 1..(Depth - 1) : Views[i] = marks[frames[i + 1].sp].work
    BY <1>5, ViewsAre DEF ViewsFacts
  <1>9. /\ Views' \in Seq(SUBSET Writes) /\ Len(Views') = Depth + 1 /\ Views'[Depth + 1] = work
        /\ \A i \in 1..Depth : Views'[i] = marks'[frames'[i + 1].sp].work
    BY <1>b, <1>2, <1>5, <1>7, ViewsAreNext DEF ViewsFacts
  <1>10. \A i \in 1..(Depth - 1) : Views'[i] = Views[i]
    <2> SUFFICES ASSUME NEW i \in 1..(Depth - 1) PROVE Views'[i] = Views[i]
      OBVIOUS
    <2>1. i + 1 \in 2..Depth /\ i + 1 \in 1..Depth /\ i \in 1..Depth
      BY <1>b
    <2>2. frames[i + 1].sp \in 1..Len(marks)
      BY <1>b, <2>1 DEF IInv, FrameInv, EndInv
    <2>3. Views'[i] = marks'[frames'[i + 1].sp].work /\ frames'[i + 1] = frames[i + 1]
      BY <1>6, <1>9, <2>1
    <2>4. marks'[frames[i + 1].sp] = marks[frames[i + 1].sp]
      BY <1>2, <2>2
    <2>5. Views[i] = marks[frames[i + 1].sp].work
      BY <1>8
    <2> QED BY <2>3, <2>4, <2>5
  <1>11. Views'[Depth] = work
    <2>1. Depth \in 1..Depth
      BY <1>b, <1>8
    <2> QED BY <1>2, <1>4, <1>6, <1>9, <2>1
  <1>12. work \in SUBSET Writes
    BY DEF IInv, TypeOK
  <1>13. Views' = Append(Views, work)
    <2>1. PICK t : t = Append(Views, work)
      OBVIOUS
    <2>2. /\ t \in Seq(SUBSET Writes) /\ Len(t) = Depth + 1 /\ t[Depth + 1] = work
          /\ \A i \in 1..Depth : t[i] = Views[i]
      BY <1>8, <1>12, <2>1
    <2>3. \A i \in 1..(Depth + 1) : i = Depth + 1 \/ i = Depth \/ i \in 1..(Depth - 1)
      BY <1>b
    <2>4. \A i \in 1..(Depth + 1) : Views'[i] = t[i]
      <3>1. Depth \in 1..Depth /\ \A i \in 1..(Depth - 1) : i \in 1..Depth
        BY <1>b, <1>8
      <3> QED BY <1>8, <1>9, <1>10, <1>11, <2>2, <2>3, <3>1
    <2>5. Views' = t
      BY <1>9, <2>2, <2>4, SeqEqual
    <2> QED BY <2>1, <2>5
  <1>14. Answer' = "none" /\ committed' = committed
    BY <1>5 DEF Nested, Answer, Alive
  <1>15. Blocks!Depth > 0 /\ Blocks!Seen = work
    BY <1>5, SeenIs
  <1> QED BY <1>13, <1>14, <1>15 DEF Blocks!Next, Blocks!Nest

LEMMA NestedFailsRefines ==
    ASSUME ~SavePointsFail, IInv, IInv', NestedFails
    PROVE  Blocks!Next \/ UNCHANGED Blocks!vars
  <1>2. Depth > 0 /\ committed' = committed /\ result' = "error"
    BY DEF NestedFails
  <1>0. conn # "open" /\ conn # "none"
    <2>1. Top.error => conn \in {"failed", "gone"}
      BY <1>2 DEF IInv, FrameInv
    <2> QED BY <1>2, <2>1, Inside DEF NestedFails
  <1>1. Views' = Views /\ conn' = conn
    <2>1. CASE HandleFails /\ Refused
      BY <1>0, <1>2, <2>1, FailureUnseen DEF NestedFails
    <2>2. CASE UNCHANGED <<conn, frames>>
      BY <2>2 DEF NestedFails, Views, Alive, Depth, SavePointOf, IsLatest
    <2> QED BY <2>1, <2>2 DEF NestedFails
  <1>3. CASE conn = "gone"
    BY <1>1, <1>2, <1>3 DEF Blocks!vars, Answer
  <1>4. CASE conn = "failed"
    <2>1. Blocks!Depth > 0 /\ Answer' = "error"
      BY <1>1, <1>2, <1>4, SeenIs DEF Alive, Answer
    <2> QED BY <1>1, <1>2, <2>1 DEF Blocks!Next, Blocks!Refuse
  <1> QED BY <1>0, <1>3, <1>4 DEF IInv, TypeOK

\* What the blocks around the innermost see when it ends.
LEMMA PoppedViews ==
    ASSUME IInv, IInv', Alive, Alive', Depth > 1, frames' = Popped,
           \A i \in 2..(Depth - 1) : marks'[frames[i].sp].work = marks[frames[i].sp].work
    PROVE  /\ Views' = Append(SubSeq(Views, 1, Depth - 2), work')
           /\ work' = marks[Top.sp].work => Views' = SubSeq(Views, 1, Depth - 1)
  <1>b. Depth \in Nat /\ Depth = Len(frames)
    BY Basics DEF IInv
  <1>1. /\ Len(frames') = Depth - 1
        /\ \A i \in 1..(Depth - 1) : frames'[i] = frames[i]
    BY PoppedIs DEF IInv
  <1>2. Depth' = Depth - 1
    BY <1>1 DEF Depth
  <1>3. /\ Views \in Seq(SUBSET Writes) /\ Len(Views) = Depth /\ Views[Depth] = work
        /\ \A i \in 1..(Depth - 1) : Views[i] = marks[frames[i + 1].sp].work
    BY ViewsAre DEF ViewsFacts
  <1>4. /\ Views' \in Seq(SUBSET Writes) /\ Len(Views') = Depth - 1 /\ Views'[Depth - 1] = work'
        /\ \A i \in 1..(Depth - 1 - 1) : Views'[i] = marks'[frames'[i + 1].sp].work
    BY <1>2, ViewsAreNext DEF ViewsFacts
  <1>5. \A i \in 1..(Depth - 2) : Views'[i] = Views[i]
    <2> SUFFICES ASSUME NEW i \in 1..(Depth - 2) PROVE Views'[i] = Views[i]
      OBVIOUS
    <2>1. i + 1 \in 2..(Depth - 1) /\ i + 1 \in 1..(Depth - 1) /\ i \in 1..(Depth - 1 - 1)
          /\ i \in 1..(Depth - 1)
      BY <1>b
    <2> QED BY <1>1, <1>3, <1>4, <2>1
  <1>6. PICK seen : seen = work'
    OBVIOUS
  <1>7. seen \in SUBSET Writes
    BY <1>6 DEF IInv, TypeOK
  <1>8. \A i \in 1..(Depth - 1) : i = Depth - 1 \/ i \in 1..(Depth - 2)
    BY <1>b
  <1>9. PICK n \in Nat : n = Depth - 2
    BY SMTT(60), <1>b
  <1>10. Views' = Append(SubSeq(Views, 1, Depth - 2), seen)
    <2>1. PICK s : s = SubSeq(Views, 1, n)
      OBVIOUS
    <2>2. /\ s \in Seq(SUBSET Writes) /\ Len(s) = n
          /\ \A i \in 1..n : s[i] = Views[i]
      BY <1>b, <1>3, <1>9, <2>1
    <2>3. PICK t : t = Append(s, seen)
      OBVIOUS
    <2>4. /\ t \in Seq(SUBSET Writes) /\ Len(t) = n + 1 /\ t[n + 1] = seen
          /\ \A i \in 1..n : t[i] = s[i]
      BY <1>7, <2>2, <2>3
    <2>5. n + 1 = Depth - 1
      BY <1>b, <1>9
    <2>6. \A i \in 1..Len(Views') : Views'[i] = t[i]
      BY <1>4, <1>5, <1>6, <1>8, <1>9, <2>2, <2>4, <2>5
    <2>7. Views' = t
      BY <1>4, <2>4, <2>5, <2>6, SeqEqual
    <2> QED BY <1>9, <2>1, <2>3, <2>7
  <1>11. ASSUME work' = marks[Top.sp].work PROVE Views' = SubSeq(Views, 1, Depth - 1)
    <2>1. PICK s : s = SubSeq(Views, 1, Depth - 1)
      OBVIOUS
    <2>2. /\ s \in Seq(SUBSET Writes) /\ Len(s) = Depth - 1
          /\ \A i \in 1..(Depth - 1) : s[i] = Views[i]
      BY <1>b, <1>3, <2>1
    <2>3. Views[Depth - 1] = marks[frames[Depth].sp].work
      <3>1. Depth - 1 \in 1..(Depth - 1) /\ Depth - 1 + 1 = Depth
        BY <1>b
      <3> QED BY <1>3, <3>1
    <2>4. \A i \in 1..Len(Views') : Views'[i] = s[i]
      BY <1>4, <1>5, <1>8, <1>11, <2>2, <2>3 DEF Top
    <2>5. Views' = s
      BY <1>4, <2>2, <2>4, SeqEqual
    <2> QED BY <2>1, <2>5
  <1> QED BY <1>6, <1>10, <1>11

\* What a block inside a block is when it ends.
LEMMA NestedDoneRefines ==
    ASSUME IInv, IInv', NestedDone
    PROVE  Blocks!Next \/ UNCHANGED Blocks!vars
  <1>1. /\ Depth > 1 /\ frames' = Popped /\ result' = "ok"
        /\ UNCHANGED <<committed, conn, work, marks>>
    BY DEF NestedDone
  <1>2. CASE Alive
    <2>0. Depth' = Depth - 1 /\ Depth \in Nat
      BY <1>1, PoppedIs, Basics DEF IInv, Depth
    <2>1. Alive' /\ Answer' = "ok"
      BY <1>1, <1>2, <2>0 DEF Alive, Answer
    <2>2. Views' = Append(SubSeq(Views, 1, Depth - 2), work)
      BY <1>1, <1>2, <2>1, PoppedViews
    <2>3. Blocks!Depth = Depth /\ Blocks!Seen = work
      BY <1>2, SeenIs
    <2> QED BY <1>1, <2>1, <2>2, <2>3 DEF Blocks!Next, Blocks!Keep
  <1>3. CASE ~Alive
    <2>1. ~Alive' /\ conn = "gone" /\ conn' = "gone"
      BY <1>1, <1>3, Basics DEF Alive, IInv, TypeOK, FrameInv, EndInv
    <2> QED BY <1>1, <1>3, <2>1, NotAlive DEF Blocks!vars, Answer
  <1> QED BY <1>2, <1>3

LEMMA NestedUndoneRefines ==
    ASSUME ~SavePointsFail, IInv, IInv', NestedUndone
    PROVE  Blocks!Next \/ UNCHANGED Blocks!vars
  <1>b. Depth \in Nat /\ Depth = Len(frames)
    BY Basics DEF IInv
  <1>0. /\ Depth > 1 /\ result' \in {"error", "panic"} /\ committed' = committed
    BY DEF NestedUndone
  <1>1. CASE Restore(Top.sp) /\ frames' = Popped
    <2>1. PICK m \in DOMAIN marks :
              /\ IsLatest(m, Top.sp)
              /\ conn \in {"open", "failed"} /\ conn' = "open" /\ work' = marks[m].work
              /\ \A i \in 1..m : i \in DOMAIN marks /\ marks'[i] = marks[i]
      BY <1>1, RestoreEffect DEF IInv
    <2>2. Top.sp = m
      <3>1. Depth \in 2..Depth
        BY <1>b, <1>0
      <3>2. Top.sp \in Nat /\ Top.sp # UserName
        BY <3>1, Basics DEF IInv, FrameInv, EndInv, Top, UserName
      <3> QED BY <2>1, <3>2 DEF IsLatest, IInv, MarkInv
    <2>3. \A i \in 2..(Depth - 1) : frames[i].sp \in 1..m
      BY <1>b, <2>2, Basics DEF IInv, FrameInv, EndInv, Top
    <2>0. Depth' = Depth - 1
      BY <1>b, <1>0, <1>1, PoppedIs DEF IInv, Depth
    <2>4. Alive /\ Alive' /\ Answer' = result'
      BY <1>b, <1>0, <2>0, <2>1 DEF Alive, Answer
    <2>5. Views' = SubSeq(Views, 1, Depth - 1)
      BY <1>0, <1>1, <2>1, <2>2, <2>3, <2>4, PoppedViews
    <2>6. Blocks!Depth = Depth
      BY <2>4, SeenIs
    <2> QED BY <1>0, <2>4, <2>5, <2>6 DEF Blocks!Next, Blocks!Drop
  <1>2. CASE conn = "gone" /\ Refused
    <2>1. conn' = "gone" /\ ~Alive /\ ~Alive'
      BY <1>2 DEF Refused, Alive
    <2> QED BY <1>0, <1>2, <2>1, NotAlive DEF Blocks!vars, Answer
  <1> QED BY <1>1, <1>2 DEF NestedUndone

\* The blocks of DB.Transaction are atomic, at every depth, where savepoints can
\* always be set: each sees its own writes over those of the block around it,
\* and leaves all of them or none.
THEOREM Refinement ==
    ASSUME ~SavePointsFail
    PROVE  Spec => ImplementsAtomicBlocks
  <1>1. Init => Blocks!Init
    BY NotAlive DEF Init, Blocks!Init, Alive, Answer
  <1>2. IInv /\ IInv' /\ [Next]_vars => [Blocks!Next]_(Blocks!vars)
    <2> SUFFICES ASSUME IInv, IInv', [Next]_vars
                 PROVE  Blocks!Next \/ UNCHANGED Blocks!vars
      OBVIOUS
    <2>1. CASE Begin \/ BeginFails \/ BeginErring \/ Expire \/ Commit \/ Rollback
      BY <2>1, OuterRefines
    <2>2. ASSUME NEW w \in Writes, Write(w)
          PROVE  Blocks!Next \/ UNCHANGED Blocks!vars
      BY <2>2, WriteRefines
    <2>3. CASE UserSavePoint
      BY <2>3, UserSavePointRefines
    <2>4. CASE UserRollbackTo
      BY <2>4, UserRollbackToRefines
    <2>5. CASE Nested
      BY <2>5, NestedRefines
    <2>6. CASE NestedFails
      BY <2>6, NestedFailsRefines
    <2>7. CASE NestedDone
      BY <2>7, NestedDoneRefines
    <2>8. CASE NestedUndone
      BY <2>8, NestedUndoneRefines
    <2>u. CASE UNCHANGED vars
      <3>1. UNCHANGED <<committed, conn, work, marks, frames, result>>
        BY <2>u DEF vars
      <3>2. Views' = Views
        BY <3>1 DEF Views, Alive, SavePointOf, IsLatest, Depth
      <3> QED BY <3>1, <3>2 DEF Blocks!vars, Answer
    <2> QED BY <2>1, <2>2, <2>3, <2>4, <2>5, <2>6, <2>7, <2>8, <2>u DEF Next
  <1> QED BY <1>1, <1>2, Invariance, PTL DEF Spec, ImplementsAtomicBlocks, Blocks!Spec
==============================================================================
