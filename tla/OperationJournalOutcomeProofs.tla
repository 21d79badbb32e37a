-------------------- MODULE OperationJournalOutcomeProofs --------------------
(***************************************************************************)
(* What becomes of the files: a command keeps what another program had     *)
(* written before it validated them, a journal that says applied says so   *)
(* when everything is published, and an operation whose commands have only *)
(* been killed can be rolled back or resumed.                              *)
(*                                                                         *)
(* FileMoves lists the six things a step of a command may do to the files. *)
(* OutsideAway says that since the validation no file of another program   *)
(* is where the command works, but one its journal records; a step that    *)
(* removes or replaces a file then never meets one.                        *)
(*                                                                         *)
(* PublishedSafe says how far an apply or a resume has come: its journal   *)
(* lists its parts in order, all done but the last (JournalsSound), the    *)
(* parts before the one it works on are done (Position), and what is       *)
(* staged, about to be checkpointed or done is the item itself unless      *)
(* another program has touched it (StagedHolds, CurrentHolds, DoneHolds).  *)
(* A journal that a variable holds has nothing done that the one on disk   *)
(* has not, so to reverse it disturbs none of this (HeldSafe).             *)
(*                                                                         *)
(* Recoverable adds, for an operation that replaces nothing and that has   *)
(* only been killed, the exact match of journal and files: a listed output *)
(* is in its place or waits, with the recorded identity, where it is       *)
(* published from, and only the first part not done is staged (Aligned).   *)
(* Each action then has a lemma that it keeps this and, in a resume of a   *)
(* move or an archive, does not stop before the journal is applied.        *)
(***************************************************************************)
EXTENDS OperationJournalProofs

-----------------------------------------------------------------------------
(* What a step of a command does to the files.                             *)

(* It removes a staging file, or writes or renames the one of its part.    *)
StagingMoves ==
  \E k \in 1..MaxParts : \E p \in {Stg(k), Tmp(k)} :
    \/ fs' = Removed(p)
    \/ pc = "stage" /\ k = at /\ \E q \in Path : fs' = Copied(q, p)
    \/ pc = "rename" /\ k = at /\ p = Stg(k) /\ fs' = Renamed(Tmp(k), p)

(* It gives a staged file its place, which is free; or makes it free.      *)
Publishes ==
  /\ at \in Parts /\ pc \in {"publish", "intent"} /\ pc' = "checkpoint"
  /\ ~Exists(Dst(at)) /\ fs' = Renamed(Stg(at), Dst(at))

Replaces == at \in Parts /\ pc = "publish" /\ Forces /\ fs' = Removed(Dst(at))

(* It goes on with a move, forward or back.                                *)
MovesOn ==
  /\ Moving /\ at \in Items /\ pc = "move"
  /\ \/ MoveDone(Src(at), Dst(at)) /\ pc' = "checkpoint"
     \/ MoveFailed(Src(at), Dst(at))
     \/ ~half /\ Forces /\ fs' = Removed(Dst(at))
     \/ ~Exists(Dst(at)) /\ fs' = Copied(Src(at), Dst(at))

MovesBack ==
  /\ Moving /\ at \in Items /\ pc \in {"rollback", "undo"} /\ at \in Listed(mem)
  /\ \/ MoveDone(Dst(at), Src(at))
     \/ MoveFailed(Dst(at), Src(at))
     \/ ~Exists(Src(at)) /\ fs' = Copied(Dst(at), Src(at))

(* It removes an output that the running command has in its journal.       *)
RemovesOutput ==
  /\ ~Moving /\ at \in Parts /\ pc \in {"rollback", "undo"} /\ at \in Listed(mem)
  /\ fs' = Removed(Dst(at))

(* There is no other way for a command to change a file.                   *)
LEMMA FileMoves ==
  ASSUME ItemsSafe, Process, fs' # fs
  PROVE  \/ StagingMoves \/ Publishes \/ Replaces
         \/ MovesOn \/ MovesBack \/ RemovesOutput
<1>1. op \in Plan /\ Control /\ mem \in Journal /\ fs \in [Path -> File]
  BY DEF ItemsSafe, TypeOK
<1>2. /\ \A k \in Parts : k \in 1..MaxParts /\ ItemOf(k) \in Items
      /\ Moving => Parts = Items
      /\ pc \in PartPoints => at \in Parts
  BY <1>1, PartsOfItems DEF Control
<1>3. CASE Stage
  <2>1. at \in 1..MaxParts /\ pc = "stage"
    BY <1>2, <1>3 DEF Stage, PartPoints
  <2>2. SourceOf(at) \in Path
    <3>1. CASE IsBackup(at)
      <4>1. at - 1 \in 1..MaxParts
        <5>1. at \in 1..MaxParts /\ MaxParts \in Nat /\ at % 2 = 0
          BY <2>1, <3>1, JournalAssumption DEF IsBackup, MaxParts
        <5>2. at # 1
          BY <5>1
        <5> QED BY <5>1, <5>2
      <4> QED BY <3>1, <4>1, Places DEF SourceOf
    <3>2. CASE ~IsBackup(at)
      BY <1>2, <2>1, <1>3, <3>2, Places DEF SourceOf, PartPoints
    <3> QED BY <3>1, <3>2
  <2>3. op.kind = "copy" => Src(at) \in Path
    BY <1>1, <2>2 DEF Plan, SourceOf, IsBackup, ItemOf
  <2>4. \/ \E q \in Path : fs' = Copied(q, Tmp(at))
        \/ \E q \in Path : fs' = Copied(q, Stg(at))
    BY <1>3, <2>2, <2>3 DEF Stage
  <2> QED BY <2>1, <2>4 DEF StagingMoves
<1>4. CASE StageRename
  <2>1. at \in 1..MaxParts
    BY <1>2, <1>4 DEF StageRename, PartPoints
  <2>2. pc = "rename" /\ (fs' = Renamed(Tmp(at), Stg(at)) \/ fs' = Removed(Tmp(at)))
    BY <1>4 DEF StageRename
  <2> QED BY <2>1, <2>2 DEF StagingMoves
<1>5. CASE Discard
  <2>1. at \in 1..MaxParts
    BY <1>2, <1>5 DEF Discard, PartPoints
  <2>2. fs' = Removed(Stg(at))
    BY <1>5 DEF Discard
  <2> QED BY <2>1, <2>2 DEF StagingMoves
<1>6. CASE Unstage
  <2>1. PICK k \in mem.staging : fs' = Removed(Stg(k))
    BY <1>6 DEF Unstage
  <2>2. k \in 1..MaxParts
    BY <1>1 DEF Journal
  <2> QED BY <2>1, <2>2 DEF StagingMoves
<1>7. CASE Publish
  BY <1>2, <1>7 DEF Publish, Goto, FailStaged, Publishes, Replaces, PartPoints
<1>8. CASE ResumeStaged
  BY <1>2, <1>8 DEF ResumeStaged, ToResume, Goto, Publishes, PartPoints
<1>9. CASE Move
  <2>1. pc = "move" /\ Moving /\ at \in Items
    BY <1>1, <1>2, <1>9 DEF Move, Control, PartPoints
  <2> QED BY <1>9, <2>1 DEF Move, MoveOne, Fail, Stop, proc, MoveDone, MoveFailed, MovesOn
<1>10. CASE RollbackStep
  <2>1. at \in Listed(mem) /\ at \in Parts /\ pc = "rollback"
    BY <1>10 DEF RollbackStep, Listed
  <2>2. CASE Moving
    BY <1>2, <1>10, <2>1, <2>2
       DEF RollbackStep, Reverse, MoveOne, RollbackNext, proc, MoveDone, MoveFailed, MovesBack
  <2>3. CASE ~Moving
    BY <1>10, <2>1, <2>3 DEF RollbackStep, Reverse, RemovesOutput
  <2> QED BY <2>2, <2>3
<1>11. CASE UndoStep
  <2>1. at \in Listed(mem) /\ at \in Parts /\ pc = "undo"
    BY <1>11 DEF UndoStep, Listed
  <2>2. CASE Moving
    BY <1>2, <1>11, <2>1, <2>2
       DEF UndoStep, Reverse, MoveOne, UndoNext, Stop, proc, MoveDone, MoveFailed, MovesBack
  <2>3. CASE ~Moving
    BY <1>11, <2>1, <2>3 DEF UndoStep, Reverse, RemovesOutput
  <2> QED BY <2>2, <2>3
<1>12. CASE \/ ApplyStart \/ Validate \/ MoveIntent \/ Finish \/ ApplyFails \/ StageIntent
            \/ PublishIntent \/ Checkpoint \/ ItemDone \/ RollbackEnd \/ UndoEnd \/ Revalidate
            \/ Hold \/ Undo \/ Rollback \/ RecoverRollback \/ Resume
            \/ ResumeSkip \/ ResumeRefused \/ ResumeMove
  <2>1. fs' = fs
    <3>1. CASE ApplyStart \/ MoveIntent \/ Finish \/ ApplyFails \/ StageIntent \/ PublishIntent
      BY <3>1 DEF ApplyStart, MoveIntent, Finish, ApplyFails, StageIntent, PublishIntent
    <3>2. CASE Checkpoint \/ ItemDone \/ RollbackEnd \/ UndoEnd \/ ResumeMove
      BY <3>2 DEF Checkpoint, ItemDone, RollbackEnd, UndoEnd, ResumeMove
    <3>3. CASE \/ Validate \/ Revalidate \/ Hold \/ Undo \/ Rollback \/ RecoverRollback \/ Resume
               \/ ResumeSkip \/ ResumeRefused
      BY <3>3 DEF Validate, Revalidate, Hold, Undo, Rollback, RecoverRollback, Resume,
                  ResumeSkip, ResumeRefused, store
    <3> QED BY <1>12, <3>1, <3>2, <3>3
  <2> QED BY <2>1
<1> QED BY <1>3, <1>4, <1>5, <1>6, <1>7, <1>8, <1>9, <1>10, <1>11, <1>12
        DEF Process, Apply, Staging, Reversal, Command, Resuming

-----------------------------------------------------------------------------
(* The files of other programs.                                            *)

Overwrites == op.kind = "compress" /\ op.force
Applying == cmd = "apply" /\ pc \in PartPoints \cup {"finish", "rollback"}
Reversing == cmd # "apply" /\ pc \in {"undo", "rollback", "unstage"}

(* Since the running command validated the files nobody has put one of his *)
(* own where it works, but in place of what the journal records.           *)
StagingOurs ==
  \A k \in 1..MaxParts : fs[Stg(k)].data # Outside /\ fs[Tmp(k)].data # Outside

ApplyOurs ==
  Applying /\ op.kind # "delete" =>
    /\ \A i \in Items : fs[Src(i)].data # Outside
    /\ \A k \in Parts : fs[Dst(k)].data # Outside

ResumeOurs == cmd = "resume" /\ pc = "move" => fs[Src(at)].data # Outside

CopyOurs == half => fs[IF pc = "move" THEN Dst(at) ELSE Src(at)].data # Outside

ReversalOurs ==
  Reversing => \A k \in Listed(mem) :
                 fs[Dst(k)].data = Outside => Recorded(mem, fs[Dst(k)])

OutsideAway ==
  /\ RecoverySafe
  /\ StagingOurs
  /\ half => op.crossing
  /\ pc \in {"undo", "unstage"} => cmd # "apply"
  /\ ~raced /\ ~Overwrites => ApplyOurs /\ ResumeOurs /\ CopyOurs /\ ReversalOurs

(* No operation on files makes a file of another program appear but where  *)
(* it renames one to.                                                      *)
LEMMA NoneMade ==
  ASSUME fs \in [Path -> File], NEW p \in Path, NEW q \in Path, NEW r \in Path
  PROVE  /\ Removed(p)[r].data = Outside => Removed(p)[r] = fs[r]
         /\ p # q /\ Renamed(p, q)[r].data = Outside =>
              Renamed(p, q)[r] = fs[IF r = q THEN p ELSE r]
         /\ Copied(p, q)[r].data = Outside => r # q /\ Copied(p, q)[r] = fs[r]
<1>1. Outside # NoFile.data /\ CopyOfOutside # Outside
  BY JournalAssumption DEF Outside, NoFile, CopyOfOutside
<1>2. /\ Removed(p)[r] = IF r = p THEN NoFile ELSE fs[r]
      /\ p # q => Renamed(p, q)[r] = IF r = p THEN NoFile ELSE IF r = q THEN fs[p] ELSE fs[r]
      /\ r # q => Copied(p, q)[r] = fs[r]
  BY DEF Removed, Renamed, Copied
<1>3. Copied(p, q)[q].data # Outside
  BY <1>1 DEF Copied
<1> QED BY <1>1, <1>2, <1>3

(* An operation on files keeps the file at p, maybe elsewhere, unless it   *)
(* removes it or puts another in its place.                                *)
LEMMA StillThere ==
  ASSUME fs \in [Path -> File], NEW p \in Path, NEW x \in Path, NEW y \in Path
  PROVE  /\ x # p => Removed(x)[p] = fs[p]
         /\ x # y /\ y # p => \E q \in Path : Renamed(x, y)[q] = fs[p]
         /\ y # p => Copied(x, y)[p] = fs[p]
<1>1. x # p => Removed(x)[p] = fs[p]
  BY DEF Removed
<1>2. y # p => Copied(x, y)[p] = fs[p]
  BY DEF Copied
<1>3. ASSUME x # y, y # p PROVE \E q \in Path : Renamed(x, y)[q] = fs[p]
  <2>1. Renamed(x, y)[IF x = p THEN y ELSE p] = fs[p]
    BY <1>3 DEF Renamed
  <2> QED BY <2>1
<1> QED BY <1>1, <1>2, <1>3

(* A half-done move is one of this step.                                   *)
LEMMA HalfBegun ==
  ASSUME ItemsSafe, Process, half'
  PROVE  /\ op.crossing /\ Moving /\ at \in Items /\ at' = at /\ pc' = pc
         /\ \/ pc = "move" /\ fs' = Copied(Src(at), Dst(at))
            \/ pc \in {"rollback", "undo"} /\ fs' = Copied(Dst(at), Src(at))
<1>1. op \in Plan /\ Control /\ half \in BOOLEAN
  BY DEF ItemsSafe, TypeOK
<1>2. /\ Moving => Parts = Items
      /\ pc \in PartPoints => at \in Parts
  BY <1>1, PartsOfItems DEF Control
<1>3. half => pc \in {"move", "rollback", "undo"} /\ at \in Items
  BY <1>1 DEF Control
<1>4. half /\ pc = "rollback" => mem.undo_safe
  BY <1>1 DEF Control
<1>5. at \in Items => at # 0 /\ (Moving => at # NumParts + 1)
  BY <1>1, PartsOfItems, JournalAssumption DEF Items
<1>6. half => Moving
  BY <1>1 DEF Control
<1>7. CASE Move
  <2>1. pc = "move" /\ Moving /\ at \in Items
    BY <1>1, <1>2, <1>7 DEF Move, Control, PartPoints
  <2> QED BY <1>7, <2>1 DEF Move, MoveOne, Fail, Stop, proc
<1>8. CASE RollbackStep
  <2>1. half' => at \in Listed(mem) /\ Moving
    BY <1>8 DEF RollbackStep, RollbackNext, Reverse
  <2> QED BY <1>2, <1>8, <2>1
          DEF RollbackStep, Reverse, MoveOne, RollbackNext, proc, Listed
<1>9. CASE UndoStep
  <2>1. half' => at \in Listed(mem) /\ Moving
    BY <1>9 DEF UndoStep, UndoNext, Reverse, Stop
  <2> QED BY <1>2, <1>9, <2>1 DEF UndoStep, Reverse, MoveOne, UndoNext, Stop, proc, Listed
<1>10. CASE \/ ApplyStart \/ Validate \/ MoveIntent \/ Finish \/ ApplyFails \/ StageIntent
            \/ Stage \/ StageRename \/ Discard \/ PublishIntent \/ Publish
            \/ Checkpoint \/ ItemDone
  <2>1. ~half
    BY <1>3, <1>10
       DEF ApplyStart, Validate, MoveIntent, Finish, ApplyFails, StageIntent, Stage, StageRename,
           Discard, PublishIntent, Publish, Checkpoint, ItemDone
  <2>2. CASE ApplyStart \/ Validate \/ MoveIntent \/ Finish \/ ApplyFails \/ StageIntent
    BY <2>1, <2>2
       DEF ApplyStart, Validate, MoveIntent, Finish, ApplyFails, StageIntent, Put, Goto, Stop, Fail
  <2>3. CASE Stage \/ StageRename \/ Discard \/ PublishIntent \/ Publish
    BY <2>1, <2>3
       DEF Stage, StageRename, Discard, PublishIntent, Publish, FailStaged, Put, Goto, Stop, Fail,
           proc
  <2>4. CASE Checkpoint \/ ItemDone
    BY <2>1, <2>4 DEF Checkpoint, ItemDone, AfterCheckpoint, Put, Goto, Stop, Fail
  <2> QED BY <1>10, <2>2, <2>3, <2>4
<1>11. CASE \/ RollbackEnd \/ UndoEnd \/ Unstage \/ Revalidate
            \/ Hold \/ Undo \/ Rollback \/ RecoverRollback \/ Resume
            \/ ResumeSkip \/ ResumeStaged \/ ResumeRefused \/ ResumeMove
  <2>1. ~half
    BY <1>3, <1>4, <1>5, <1>6, <1>11
       DEF RollbackEnd, UndoEnd, Unstage, Revalidate, Hold, Undo, Rollback, RecoverRollback, Resume,
           ResumeSkip, ResumeStaged, ResumeRefused, ResumeMove, ToResume
  <2>2. CASE RollbackEnd \/ UndoEnd \/ Unstage \/ Revalidate
    BY <2>1, <2>2 DEF RollbackEnd, UndoEnd, Unstage, Revalidate, Put, Goto, Stop
  <2>3. CASE Hold \/ Undo \/ Rollback \/ RecoverRollback \/ Resume
    BY <2>1, <2>3 DEF Hold, Undo, Rollback, RecoverRollback, Resume, Begin, proc
  <2>4. CASE ResumeSkip \/ ResumeStaged \/ ResumeRefused \/ ResumeMove
    BY <2>1, <2>4
       DEF ResumeSkip, ResumeStaged, ResumeRefused, ResumeMove, AfterCheckpoint, Put, Goto, Stop
  <2> QED BY <1>11, <2>2, <2>3, <2>4
<1> QED BY <1>7, <1>8, <1>9, <1>10, <1>11
        DEF Process, Apply, Staging, Reversal, Command, Resuming

(* Where a command leaves a file of another program it was before, unless  *)
(* a move has just taken it there.                                         *)
LEMMA WhereOutside ==
  ASSUME ItemsSafe, StagingOurs, Process, NEW r \in Path, fs'[r].data = Outside
  PROVE  \/ fs'[r] = fs[r]
         \/ /\ Moving /\ at \in Items /\ pc = "move" /\ r = Dst(at)
            /\ fs[Src(at)].data = Outside
         \/ /\ Moving /\ at \in Items /\ pc \in {"rollback", "undo"} /\ at \in Listed(mem)
            /\ r = Src(at) /\ fs[Dst(at)].data = Outside
<1>1. op \in Plan /\ fs \in [Path -> File]
  BY DEF ItemsSafe, TypeOK
<1>2. /\ Parts \subseteq 1..MaxParts /\ Items \subseteq 1..MaxParts
      /\ Moving => Parts = Items
  BY <1>1, PartsOfItems
<1>3. CASE fs' = fs
  BY <1>3
<1>4. CASE StagingMoves
  <2>0. PICK k \in 1..MaxParts : \E p \in {Stg(k), Tmp(k)} :
          \/ fs' = Removed(p)
          \/ \E q \in Path : fs' = Copied(q, p)
          \/ p = Stg(k) /\ fs' = Renamed(Tmp(k), p)
    BY <1>4 DEF StagingMoves
  <2>1. PICK p \in {Stg(k), Tmp(k)} :
          \/ fs' = Removed(p)
          \/ \E q \in Path : fs' = Copied(q, p)
          \/ p = Stg(k) /\ fs' = Renamed(Tmp(k), p)
    BY <2>0
  <2>2. p \in Path /\ Tmp(k) \in Path /\ Stg(k) # Tmp(k)
    BY Places, PlacesDiffer
  <2>3. CASE fs' = Removed(p)
    BY <1>1, <2>2, <2>3, NoneMade
  <2>4. CASE \E q \in Path : fs' = Copied(q, p)
    BY <1>1, <2>2, <2>4, NoneMade
  <2>5. CASE p = Stg(k) /\ fs' = Renamed(Tmp(k), p)
    <3>1. fs'[r] = fs[IF r = p THEN Tmp(k) ELSE r]
      BY <1>1, <2>2, <2>5, NoneMade
    <3>2. fs[Tmp(k)].data # Outside
      BY DEF StagingOurs
    <3> QED BY <3>1, <3>2
  <2> QED BY <2>1, <2>3, <2>4, <2>5
<1>5. CASE Publishes
  <2>1. at \in 1..MaxParts
    BY <1>2, <1>5 DEF Publishes
  <2>2. fs'[r] = fs[IF r = Dst(at) THEN Stg(at) ELSE r]
    BY <1>1, <1>5, <2>1, NoneMade, Places, PlacesDiffer DEF Publishes
  <2> QED BY <2>1, <2>2 DEF StagingOurs
<1>6. CASE Replaces \/ RemovesOutput
  <2>1. at \in 1..MaxParts /\ fs' = Removed(Dst(at))
    BY <1>2, <1>6 DEF Replaces, RemovesOutput
  <2> QED BY <1>1, <2>1, NoneMade, Places
<1>7. CASE MovesOn \/ MovesBack
  <2>1. Src(at) \in Path /\ Dst(at) \in Path /\ Src(at) # Dst(at)
    BY <1>2, <1>7, Places, PlacesDiffer DEF MovesOn, MovesBack
  <2>2. CASE MovesOn
    <3>1. CASE fs' = Renamed(Src(at), Dst(at))
      <4>1. fs'[r] = fs[IF r = Dst(at) THEN Src(at) ELSE r]
        BY <1>1, <2>1, <3>1, NoneMade
      <4> QED BY <2>2, <4>1 DEF MovesOn
    <3>2. CASE \/ fs' = Removed(Src(at)) \/ fs' = Removed(Dst(at))
               \/ fs' = Copied(Src(at), Dst(at)) \/ fs' = fs
      BY <1>1, <2>1, <3>2, NoneMade
    <3> QED BY <2>2, <3>1, <3>2 DEF MovesOn, MoveDone, MoveFailed
  <2>3. CASE MovesBack
    <3>1. CASE fs' = Renamed(Dst(at), Src(at))
      <4>1. fs'[r] = fs[IF r = Src(at) THEN Dst(at) ELSE r]
        BY <1>1, <2>1, <3>1, NoneMade
      <4> QED BY <2>3, <4>1 DEF MovesBack
    <3>2. CASE \/ fs' = Removed(Src(at)) \/ fs' = Removed(Dst(at))
               \/ fs' = Copied(Dst(at), Src(at)) \/ fs' = fs
      BY <1>1, <2>1, <3>2, NoneMade
    <3> QED BY <2>3, <3>1, <3>2 DEF MovesBack, MoveDone, MoveFailed
  <2> QED BY <1>7, <2>2, <2>3
<1> QED BY <1>3, <1>4, <1>5, <1>6, <1>7, FileMoves

(* Where an apply, a move of a resume and a reversal come from.            *)
LEMMA ApplyingStep ==
  ASSUME RecoverySafe, pc \in {"undo", "unstage"} => cmd # "apply", Process, Applying'
  PROVE  /\ raced' = raced
         /\ Applying \/ (AsPlanned /\ fs' = fs)
<1>1. /\ pc \in PartPoints \cup {"finish"} => cmd \in {"apply", "resume"}
      /\ pc \in {"planned", "validate"} => cmd = "apply"
      /\ cmd \in {"none", "apply", "undo", "rollback", "recover", "resume"}
  BY DEF RecoverySafe, Ahead, ItemsSafe, TypeOK
<1>2. cmd' = "apply" /\ pc' \in PartPoints \cup {"finish", "rollback"}
  BY DEF Applying
<1>3. CASE Apply \/ Command
  <2>1. CASE ApplyStart
    BY <1>2, <2>1 DEF ApplyStart, Put, Goto, Stop, PartPoints
  <2>2. CASE Validate
    BY <1>2, <2>2 DEF Validate, Fail, Goto, Stop, PartPoints, store, besides
  <2>3. CASE MoveIntent
    BY <2>3 DEF MoveIntent, Applying, PartPoints, besides
  <2>4. CASE Finish \/ ApplyFails
    BY <1>2, <2>4 DEF Finish, ApplyFails, Put, Stop
  <2>5. CASE Command
    <3>1. CASE Hold
      BY <1>2, <3>1 DEF Hold, proc, PartPoints
    <3>2. CASE Undo \/ Rollback \/ RecoverRollback \/ Resume
      BY <1>2, <3>2 DEF Undo, Rollback, RecoverRollback, Resume, Begin
    <3> QED BY <2>5, <3>1, <3>2 DEF Command
  <2> QED BY <1>3, <2>1, <2>2, <2>3, <2>4, <2>5 DEF Apply
<1>4. CASE Staging
  <2>1. cmd' \in {cmd, "none"} /\ pc \in PartPoints /\ raced' = raced
    <3>1. CASE StageIntent \/ Stage \/ StageRename
      BY <3>1 DEF StageIntent, Stage, StageRename, FailStaged, Put, Goto, Fail, Stop,
                  PartPoints, besides
    <3>2. CASE Discard \/ PublishIntent \/ Publish
      BY <3>2 DEF Discard, PublishIntent, Publish, FailStaged, Put, Goto, Fail, Stop,
                  PartPoints, besides, proc
    <3> QED BY <1>4, <3>1, <3>2 DEF Staging
  <2> QED BY <1>2, <2>1 DEF Applying
<1>5. CASE Move \/ Checkpoint \/ ItemDone
  <2>1. cmd' \in {cmd, "none"} /\ pc \in PartPoints /\ raced' = raced
    <3>1. CASE Move
      BY <3>1 DEF Move, MoveOne, Fail, Stop, PartPoints, besides, proc
    <3>2. CASE Checkpoint \/ ItemDone
      BY <3>2 DEF Checkpoint, ItemDone, AfterCheckpoint, Put, Goto, Fail, Stop, PartPoints,
                  besides
    <3> QED BY <1>5, <3>1, <3>2
  <2> QED BY <1>2, <2>1 DEF Applying
<1>6. CASE Reversal
  <2>1. CASE RollbackStep
    <3>1. cmd' = cmd /\ pc = "rollback" /\ raced' = raced
      BY <2>1 DEF RollbackStep, Reverse, MoveOne, RollbackNext, besides, proc
    <3> QED BY <1>2, <3>1 DEF Applying
  <2>2. CASE RollbackEnd
    BY <1>2, <2>2 DEF RollbackEnd, Put, Goto, Stop, PartPoints
  <2>3. CASE UndoStep
    <3>1. cmd' \in {cmd, "none"} /\ pc = "undo"
      BY <2>3 DEF UndoStep, Reverse, MoveOne, UndoNext, Stop, besides, proc
    <3> QED BY <1>2, <3>1
  <2>4. CASE UndoEnd \/ Unstage \/ Revalidate
    BY <1>2, <2>4 DEF UndoEnd, Unstage, Revalidate, Put, Goto, Stop
  <2> QED BY <1>6, <2>1, <2>2, <2>3, <2>4 DEF Reversal
<1>7. CASE Resuming
  <2>1. cmd = "resume" /\ cmd' \in {cmd, "none"}
    BY <1>7 DEF Resuming, ResumeSkip, ResumeStaged, ResumeRefused, ResumeMove, ToResume,
                AfterCheckpoint, Put, Goto, Stop
  <2> QED BY <1>2, <2>1
<1> QED BY <1>3, <1>4, <1>5, <1>6, <1>7 DEF Process

LEMMA ResumingStep ==
  ASSUME RecoverySafe, Process, cmd' = "resume", pc' = "move"
  PROVE  /\ raced' = raced /\ at' = at /\ at \in Items
         /\ \/ cmd = "resume" /\ pc = "move"
            \/ fs' = fs /\ fs[Src(at)] = PlannedSource(at)
<1>1. op \in Plan /\ Control
  BY DEF RecoverySafe, ItemsSafe, TypeOK
<1>2. Moving => Parts = Items
  BY <1>1, PartsOfItems
<1>3. CASE Apply \/ Command
  BY <1>3 DEF Apply, ApplyStart, Validate, MoveIntent, Finish, ApplyFails, Command, Hold, Undo,
              Rollback, RecoverRollback, Resume, Begin, proc, Put, Goto, Fail, Stop
<1>4. CASE Staging
  <2>1. CASE StageIntent \/ Stage \/ StageRename
    BY <2>1 DEF StageIntent, Stage, StageRename, FailStaged, Put, Goto, Fail, Stop
  <2>2. CASE Discard \/ PublishIntent \/ Publish
    BY <2>2 DEF Discard, PublishIntent, Publish, FailStaged, Put, Goto, Fail, Stop, proc
  <2> QED BY <1>4, <2>1, <2>2 DEF Staging
<1>5. CASE Move
  <2>1. at \in Items
    BY <1>1, <1>2, <1>5 DEF Move, Control, PartPoints
  <2> QED BY <1>5, <2>1 DEF Move, MoveOne, Fail, Stop, besides, proc
<1>6. CASE Checkpoint \/ ItemDone
  BY <1>6 DEF Checkpoint, ItemDone, AfterCheckpoint, Loop, Put, Goto, Fail, Stop
<1>7. CASE Reversal
  <2>1. CASE RollbackStep \/ RollbackEnd
    BY <2>1 DEF RollbackStep, RollbackEnd, Reverse, MoveOne, RollbackNext, Put, Goto, Stop, proc
  <2>2. CASE UndoStep \/ UndoEnd
    BY <2>2 DEF UndoStep, UndoEnd, Reverse, MoveOne, UndoNext, Put, Stop, proc
  <2>3. CASE Unstage \/ Revalidate
    BY <2>3 DEF Unstage, Revalidate, Goto, Stop
  <2> QED BY <1>7, <2>1, <2>2, <2>3 DEF Reversal
<1>8. CASE Resuming
  <2>1. CASE ResumeSkip
    BY <2>1 DEF ResumeSkip, AfterCheckpoint, Loop, Goto
  <2>2. CASE ResumeStaged \/ ResumeRefused
    BY <2>2 DEF ResumeStaged, ResumeRefused, Goto, Stop
  <2>3. CASE ResumeMove
    <3>1. at \in Items
      BY <1>1, <1>2, <2>3 DEF ResumeMove, ToResume, Control, PartPoints
    <3> QED BY <2>3, <3>1 DEF ResumeMove, Valid, Put, Goto, Stop, besides
  <2> QED BY <1>8, <2>1, <2>2, <2>3 DEF Resuming
<1> QED BY <1>3, <1>4, <1>5, <1>6, <1>7, <1>8 DEF Process

(* A reversal is one of before, or begins with outputs it has validated.   *)
LEMMA ReversingStep ==
  ASSUME RecoverySafe, Process, Reversing'
  PROVE  \/ Reversing /\ raced' = raced /\ mem'.outputs = mem.outputs
         \/ /\ fs' = fs
            /\ \A k \in Listed(mem') : fs[Dst(k)] = mem'.outputs[k].file
<1>1. op \in Plan /\ durable \in Journal /\ mem \in Journal /\ TypeOK
  BY DEF RecoverySafe, ItemsSafe, TypeOK
<1>2. /\ pc \in PartPoints \cup {"finish"} => cmd \in {"apply", "resume"}
      /\ pc \in {"planned", "validate"} => cmd = "apply"
  BY DEF RecoverySafe, Ahead
<1>3. cmd' # "apply" /\ pc' \in {"undo", "rollback", "unstage"}
  BY DEF Reversing
<1>4. Parts' = Parts /\ Parts \subseteq 1..MaxParts
  <2>1. op' = op
    BY PlanStays DEF Next
  <2> QED BY <1>1, <2>1, PartsOfItems DEF Parts, NumParts
<1>5. CASE Apply
  BY <1>2, <1>3, <1>5 DEF Apply, ApplyStart, Validate, MoveIntent, Finish, ApplyFails, Put,
                          Goto, Fail, Stop
<1>6. CASE Staging \/ Move \/ Checkpoint \/ ItemDone
  <2>1. pc \in PartPoints
    BY <1>6 DEF Staging, StageIntent, Stage, StageRename, Discard, PublishIntent, Publish,
                Move, Checkpoint, ItemDone, PartPoints
  <2>2. CASE cmd = "apply"
    <3>1. CASE StageIntent \/ Stage \/ StageRename
      BY <1>3, <2>2, <3>1 DEF StageIntent, Stage, StageRename, FailStaged, Put, Goto, Fail, Stop
    <3>2. CASE Discard \/ PublishIntent \/ Publish
      BY <1>3, <2>2, <3>2
         DEF Discard, PublishIntent, Publish, FailStaged, Put, Goto, Fail, Stop, proc
    <3>3. CASE Move
      BY <1>3, <2>2, <3>3 DEF Move, MoveOne, Fail, Stop, proc
    <3>4. CASE Checkpoint \/ ItemDone
      BY <1>3, <2>2, <3>4 DEF Checkpoint, ItemDone, AfterCheckpoint, Put, Goto, Fail, Stop
    <3> QED BY <1>6, <3>1, <3>2, <3>3, <3>4 DEF Staging
  <2>3. CASE cmd = "resume"
    <3>1. CASE StageIntent \/ Stage \/ StageRename
      BY <1>3, <2>3, <3>1 DEF StageIntent, Stage, StageRename, FailStaged, Put, Goto, Fail, Stop
    <3>2. CASE Discard \/ PublishIntent \/ Publish
      BY <1>3, <2>3, <3>2
         DEF Discard, PublishIntent, Publish, FailStaged, Put, Goto, Fail, Stop, proc
    <3>3. CASE Move
      BY <1>3, <2>3, <3>3 DEF Move, MoveOne, Fail, Stop, proc
    <3>4. CASE Checkpoint \/ ItemDone
      BY <1>3, <2>3, <3>4 DEF Checkpoint, ItemDone, AfterCheckpoint, Loop, Put, Goto, Fail, Stop
    <3> QED BY <1>6, <3>1, <3>2, <3>3, <3>4 DEF Staging
  <2> QED BY <1>2, <2>1, <2>2, <2>3
<1>7. CASE Reversal
  <2>1. CASE RollbackStep
    BY <1>3, <2>1
       DEF RollbackStep, Reverse, MoveOne, RollbackNext, Reversing, proc, besides
  <2>2. CASE RollbackEnd
    BY <1>3, <2>2 DEF RollbackEnd, Put, Goto, Stop
  <2>3. CASE UndoStep
    BY <1>3, <2>3 DEF UndoStep, Reverse, MoveOne, UndoNext, Stop, Reversing, proc, besides
  <2>4. CASE UndoEnd
    BY <1>3, <2>4 DEF UndoEnd, Put, Stop
  <2>5. CASE Unstage
    <3>1. PICK k \in mem.staging : mem' = WithoutStaging(mem, k) /\ UNCHANGED <<cmd, pc>>
      BY <1>3, <2>5 DEF Unstage, Stop
    <3>2. mem'.outputs = mem.outputs
      BY <1>1, <3>1 DEF WithoutStaging, Journal
    <3> QED BY <1>3, <2>5, <3>1, <3>2 DEF Unstage, Reversing, besides
  <2>6. CASE Revalidate
    BY <1>3, <2>6 DEF Revalidate, Goto, Stop, Reversing, besides
  <2> QED BY <1>7, <2>1, <2>2, <2>3, <2>4, <2>5, <2>6 DEF Reversal
<1>8. CASE Undo \/ Rollback
  <2>1. fs' = fs /\ \A k \in Listed(mem') : Reversible(mem', k)
    BY <1>1, <1>8, Given DEF UndoAccepts, RollbackAccepts
  <2> QED BY <1>4, <2>1 DEF Listed, Reversible, Valid
<1>9. CASE RecoverRollback
  <2>1. /\ mem' = WithoutUnpublished(durable) /\ fs' = fs
        /\ \A k \in Listed(durable) : ~Unpublished(durable, k) => Reversible(durable, k)
    BY <1>9 DEF RecoverRollback, RecoverAccepts, Begin, store
  <2>2. \A k \in Parts : mem'.outputs[k] = IF Unpublished(durable, k) THEN NoOutput
                                           ELSE durable.outputs[k]
    BY <1>1, <1>4, <2>1 DEF WithoutUnpublished, Journal
  <2>3. \A k \in Listed(mem') : /\ k \in Listed(durable) /\ ~Unpublished(durable, k)
                                /\ mem'.outputs[k] = durable.outputs[k]
    <3>1. TAKE k \in Listed(mem')
    <3>2. k \in Parts /\ mem'.outputs[k].role # "none"
      BY DEF Listed
    <3>3. ~Unpublished(durable, k)
      BY <2>2, <3>2 DEF NoOutput
    <3>4. mem'.outputs[k] = durable.outputs[k]
      BY <2>2, <3>2, <3>3
    <3> QED BY <3>2, <3>3, <3>4 DEF Listed
  <2> QED BY <2>1, <2>3 DEF Reversible, Valid
<1>10. CASE Resume \/ Resuming
  BY <1>3, <1>10 DEF Resume, Begin, Resuming, ResumeSkip, ResumeStaged, ResumeRefused,
                     ResumeMove, ToResume, AfterCheckpoint, Loop, Put, Goto, Stop
<1>11. CASE Hold
  BY <1>3, <1>11 DEF Hold, proc
<1> QED BY <1>11, <1>5, <1>6, <1>7, <1>8, <1>9, <1>10 DEF Process, Command

(* An apply reverses only from its rollback.                               *)
LEMMA ReversingCommand ==
  ASSUME RecoverySafe, pc \in {"undo", "unstage"} => cmd # "apply", Process,
         pc' \in {"undo", "unstage"}
  PROVE  cmd' # "apply"
<1>1. CASE Apply \/ Staging
  BY <1>1 DEF Apply, ApplyStart, Validate, MoveIntent, Finish, ApplyFails, Staging, StageIntent,
              Stage, StageRename, Discard, PublishIntent, Publish, FailStaged, Put, Goto, Fail,
              Stop, proc
<1>2. CASE Move \/ Checkpoint \/ ItemDone
  BY <1>2 DEF Move, MoveOne, Checkpoint, ItemDone, AfterCheckpoint, Loop, Put, Goto, Fail, Stop,
              proc
<1>3. CASE RollbackStep \/ RollbackEnd
  BY <1>3 DEF RollbackStep, RollbackEnd, Reverse, MoveOne, RollbackNext, Put, Goto, Stop, proc
<1>4. CASE UndoStep \/ UndoEnd
  BY <1>4 DEF UndoStep, UndoEnd, Reverse, MoveOne, UndoNext, Put, Stop, proc
<1>5. CASE Unstage \/ Revalidate
  BY <1>5 DEF Unstage, Revalidate, Goto, Stop
<1>6. CASE Command
  BY <1>6 DEF Command, Hold, Undo, Rollback, RecoverRollback, Resume, Begin, proc
<1>7. CASE Resuming
  BY <1>7 DEF Resuming, ResumeSkip, ResumeStaged, ResumeRefused, ResumeMove, AfterCheckpoint,
              Loop, Put, Goto, Stop
<1> QED BY <1>1, <1>2, <1>3, <1>4, <1>5, <1>6, <1>7 DEF Process, Reversal

-----------------------------------------------------------------------------
(* Files of other programs stay out of the way.                            *)

LEMMA OutsideAwayFirst == Init => OutsideAway
<1> SUFFICES ASSUME Init PROVE OutsideAway
  OBVIOUS
<1>1. RecoverySafe
  BY RecoverySafeFirst
<1>2. pc = "planned" /\ ~half
  BY DEF Init
<1>3. StagingOurs
  <2>1. \A k \in 1..MaxParts : fs[Stg(k)] = NoFile /\ fs[Tmp(k)] = NoFile
    <3>1. TAKE k \in 1..MaxParts
    <3>2. /\ Stg(k) \in Path /\ Stg(k)[1] = "stg"
          /\ Tmp(k) \in Path /\ Tmp(k)[1] = "tmp"
      BY Places DEF Stg, Tmp
    <3> QED BY <3>2 DEF Init
  <2> QED BY <2>1, JournalAssumption DEF StagingOurs, Outside, NoFile
<1> QED BY <1>1, <1>2, <1>3
        DEF OutsideAway, ApplyOurs, ResumeOurs, CopyOurs, ReversalOurs, Applying, Reversing,
            PartPoints

(* A validated apply finds no file of another program where it works.      *)
LEMMA ValidatedOurs ==
  ASSUME ItemsSafe, AsPlanned, ~Overwrites, op.kind # "delete"
  PROVE  /\ \A i \in Items : fs[Src(i)].data # Outside
         /\ \A k \in Parts : fs[Dst(k)].data # Outside
<1>1. op \in Plan /\ fs \in Files /\ Parts \subseteq 1..MaxParts
  BY PartsOfItems DEF ItemsSafe, TypeOK
<1>2. N \in Nat /\ N > 0 /\ Outside = N + 1 /\ NoFile.data = 0 /\ Old = 0
  BY JournalAssumption DEF Outside, NoFile, Old
<1>3. \A i \in Items : fs[Src(i)].data # Outside
  <2>1. ASSUME NEW i \in Items PROVE fs[Src(i)].data = i
    <3>1. fs[Src(i)] = PlannedSource(i)
      BY DEF AsPlanned, Valid
    <3>2. PlannedSource(i).data = i
      BY DEF PlannedSource
    <3> QED BY <3>1, <3>2
  <2> QED BY <1>2, <2>1 DEF Items
<1>4. ASSUME NEW k \in Parts PROVE fs[Dst(k)].data # Outside
  <2>1. OutputAsPlanned(k)
    BY <1>4 DEF AsPlanned
  <2>2. CASE op.kind = "compress"
    <3>1. ~Exists(Dst(k))
      BY <2>1, <2>2 DEF OutputAsPlanned, Overwrites
    <3>2. fs[Dst(k)] = NoFile
      BY <1>1, <1>4, <3>1, Places DEF Files, Exists
    <3> QED BY <1>2, <3>2
  <2>3. CASE op.kind # "compress"
    <3>1. fs[Dst(k)] = PlannedOutput(k)
      BY <2>1, <2>3 DEF OutputAsPlanned
    <3>2. PlannedOutput(k).data = 0
      BY <1>2 DEF PlannedOutput, NoFile
    <3> QED BY <1>2, <3>1, <3>2
  <2> QED BY <2>2, <2>3
<1> QED BY <1>3, <1>4

LEMMA OursByProcess ==
  ASSUME OutsideAway, Process
  PROVE  OutsideAway'
<1>1. /\ RecoverySafe /\ ItemsSafe /\ op \in Plan /\ fs \in [Path -> File] /\ Control
      /\ half \in BOOLEAN /\ StagingOurs
      /\ mem \in Journal
  BY DEF OutsideAway, RecoverySafe, ItemsSafe, TypeOK
<1>2. /\ RecoverySafe' /\ op' = op /\ Moving' = Moving /\ Parts' = Parts
      /\ Overwrites' = Overwrites
  BY <1>1, RecoverySafeStep, PlanKept DEF Next, Overwrites
<1>3. /\ Parts \subseteq 1..MaxParts /\ Items \subseteq 1..MaxParts
      /\ Moving => Parts = Items
      /\ Listed(mem) \subseteq Parts
  BY <1>1, PartsOfItems DEF Listed
<1>4. StagingOurs'
  <2>1. ASSUME NEW k \in 1..MaxParts, NEW r \in {Stg(k), Tmp(k)}, fs'[r].data = Outside
        PROVE  FALSE
    <3>1. r \in Path /\ \A i : r # Src(i) /\ r # Dst(i)
      BY <2>1, Places, PlacesDiffer
    <3>2. fs'[r] = fs[r]
      BY <1>1, <2>1, <3>1, WhereOutside
    <3> QED BY <1>1, <2>1, <3>2 DEF StagingOurs
  <2> QED BY <2>1 DEF StagingOurs, Stg, Tmp
<1>5. half' => op'.crossing
  BY <1>1, <1>2, HalfBegun
<1>6. pc' \in {"undo", "unstage"} => cmd' # "apply"
  BY <1>1, ReversingCommand DEF OutsideAway
<1>7. SUFFICES ASSUME ~raced', ~Overwrites
               PROVE  ApplyOurs' /\ ResumeOurs' /\ CopyOurs' /\ ReversalOurs'
  BY <1>2, <1>4, <1>5, <1>6 DEF OutsideAway
<1>8. ~raced => ApplyOurs /\ ResumeOurs /\ CopyOurs /\ ReversalOurs
  BY <1>7 DEF OutsideAway
<1>9. ApplyOurs'
  <2> SUFFICES ASSUME Applying', op.kind # "delete"
               PROVE  /\ \A i \in Items : fs'[Src(i)].data # Outside
                      /\ \A k \in Parts : fs'[Dst(k)].data # Outside
    BY <1>2 DEF ApplyOurs, Src, Dst
  <2>1. raced' = raced /\ (Applying \/ (AsPlanned /\ fs' = fs))
    BY <1>1, ApplyingStep DEF OutsideAway
  <2>2. CASE AsPlanned /\ fs' = fs
    BY <1>1, <1>7, <2>2, ValidatedOurs
  <2>3. CASE Applying
    <3>1. /\ \A i \in Items : fs[Src(i)].data # Outside
          /\ \A k \in Parts : fs[Dst(k)].data # Outside
      BY <1>7, <1>8, <2>1, <2>3 DEF ApplyOurs
    <3>2. \A i \in Items : Src(i) \in Path
      BY Places
    <3>3. \A k \in Parts : Dst(k) \in Path
      BY <1>3, Places
    <3>4. \A r \in Path : fs'[r].data = Outside => fs'[r] = fs[r]
      BY <1>1, <1>3, <3>1, WhereOutside
    <3> QED BY <3>1, <3>2, <3>3, <3>4
  <2> QED BY <2>1, <2>2, <2>3
<1>10. ResumeOurs'
  <2> SUFFICES ASSUME cmd' = "resume", pc' = "move" PROVE fs'[Src(at')].data # Outside
    BY DEF ResumeOurs, Src
  <2>1. /\ raced' = raced /\ at' = at /\ at \in Items
        /\ \/ cmd = "resume" /\ pc = "move"
           \/ fs' = fs /\ fs[Src(at)] = PlannedSource(at)
    BY <1>1, ResumingStep
  <2>2. CASE cmd = "resume" /\ pc = "move"
    <3>1. fs[Src(at)].data # Outside
      BY <1>7, <1>8, <2>1, <2>2 DEF ResumeOurs
    <3>2. Src(at) \in Path /\ Src(at) # Dst(at)
      BY <2>1, Places, PlacesDiffer
    <3>3. fs'[Src(at)].data = Outside => fs'[Src(at)] = fs[Src(at)]
      BY <1>1, <2>2, <3>2, WhereOutside
    <3> QED BY <2>1, <3>1, <3>3
  <2>3. CASE fs' = fs /\ fs[Src(at)] = PlannedSource(at)
    <3>1. at # Outside
      BY <2>1, JournalAssumption DEF Outside, Items
    <3> QED BY <2>1, <2>3, <3>1 DEF PlannedSource
  <2> QED BY <2>1, <2>2, <2>3
<1>11. CopyOurs'
  <2> SUFFICES ASSUME half'
               PROVE  fs'[IF pc' = "move" THEN Dst(at') ELSE Src(at')].data # Outside
    BY DEF CopyOurs, Src, Dst
  <2>1. /\ at \in Items /\ at' = at /\ pc' = pc
        /\ \/ pc = "move" /\ fs' = Copied(Src(at), Dst(at))
           \/ pc \in {"rollback", "undo"} /\ fs' = Copied(Dst(at), Src(at))
    BY <1>1, HalfBegun
  <2>2. Src(at) \in Path /\ Dst(at) \in Path
    BY <1>3, <2>1, Places
  <2> QED BY <1>1, <2>1, <2>2, NoneMade
<1>12. ReversalOurs'
  <2> SUFFICES ASSUME Reversing', NEW k \in Listed(mem'), fs'[Dst(k)].data = Outside
               PROVE  \E p \in 1..MaxParts : mem'.outputs[p].file = fs'[Dst(k)]
    BY <1>2 DEF ReversalOurs, Listed, Recorded, Dst
  <2>1. k \in Parts /\ k \in 1..MaxParts /\ Dst(k) \in Path
    BY <1>3, Places DEF Listed
  <2>2. \/ Reversing /\ raced' = raced /\ mem'.outputs = mem.outputs
        \/ fs' = fs /\ \A p \in Listed(mem') : fs[Dst(p)] = mem'.outputs[p].file
    BY <1>1, ReversingStep
  <2>3. CASE Reversing /\ raced' = raced /\ mem'.outputs = mem.outputs
    <3>1. k \in Listed(mem) /\ pc # "move"
      BY <2>3 DEF Listed, Reversing
    <3>2. fs'[Dst(k)] = fs[Dst(k)]
      BY <1>1, <2>1, <3>1, WhereOutside, PlacesDiffer
    <3>3. Recorded(mem, fs[Dst(k)])
      BY <1>7, <1>8, <2>3, <3>1, <3>2 DEF ReversalOurs
    <3> QED BY <2>3, <3>2, <3>3 DEF Recorded
  <2>4. CASE fs' = fs /\ \A p \in Listed(mem') : fs[Dst(p)] = mem'.outputs[p].file
    BY <2>1, <2>4
  <2> QED BY <2>2, <2>3, <2>4
<1> QED BY <1>9, <1>10, <1>11, <1>12

LEMMA OutsideAwayStep == OutsideAway /\ [Next]_vars => OutsideAway'
<1> SUFFICES ASSUME OutsideAway, [Next]_vars PROVE OutsideAway'
  OBVIOUS
<1>1. RecoverySafe /\ RecoverySafe' /\ Control /\ op \in Plan /\ raced \in BOOLEAN
  BY RecoverySafeStep DEF OutsideAway, RecoverySafe, ItemsSafe, TypeOK
<1>2. CASE Process
  BY <1>2, OursByProcess
<1>3. CASE Crash
  <2>1. StagingOurs'
    BY <1>3 DEF Crash, store, OutsideAway, StagingOurs, Stg, Tmp
  <2>2. ~half' /\ pc' = "idle" /\ cmd' = "none"
    BY <1>3 DEF Crash, Stop
  <2> QED BY <1>1, <2>1, <2>2
          DEF OutsideAway, ApplyOurs, ResumeOurs, CopyOurs, ReversalOurs, Applying, Reversing,
              PartPoints
<1>4. CASE OutsideChange
  <2>1. StagingOurs'
    <3>1. PICK k \in Parts, role \in {"src", "dst"} :
            \E p \in Path : /\ p = <<role, IF role = "src" THEN ItemOf(k) ELSE k>>
                            /\ \E file : fs' = [fs EXCEPT ![p] = file]
      <4>1. \A k \in Parts : ItemOf(k) \in Items /\ k \in 1..MaxParts
        BY <1>1, PartsOfItems
      <4>2. \A k \in Parts : /\ <<"src", ItemOf(k)>> \in Path
                             /\ <<"dst", k>> \in Path
        BY <4>1 DEF Path
      <4> QED BY <1>4, <4>2 DEF OutsideChange, Removed
    <3>2. PICK p \in Path : /\ p = <<role, IF role = "src" THEN ItemOf(k) ELSE k>>
                            /\ \E file : fs' = [fs EXCEPT ![p] = file]
      BY <3>1
    <3>3. \A i : p # Stg(i) /\ p # Tmp(i)
      BY <3>1, <3>2 DEF Stg, Tmp
    <3>4. \A i \in 1..MaxParts : fs'[Stg(i)] = fs[Stg(i)] /\ fs'[Tmp(i)] = fs[Tmp(i)]
      BY <3>2, <3>3
    <3> QED BY <3>4 DEF OutsideAway, StagingOurs, Stg, Tmp
  <2>2. UNCHANGED <<op, mem, cmd, pc, at, half>>
    BY <1>4 DEF OutsideChange, proc
  <2>3. ~raced' => pc \in {"planned", "validate", "idle"}
    BY <1>1, <1>4 DEF OutsideChange
  <2>4. ~raced' => ~half
    BY <1>1, <2>3 DEF Control
  <2> QED BY <1>1, <2>1, <2>2, <2>3, <2>4
          DEF OutsideAway, ApplyOurs, ResumeOurs, CopyOurs, ReversalOurs, Applying, Reversing,
              PartPoints
<1>5. CASE UNCHANGED vars
  <2>1. UNCHANGED <<op, fs, mem, cmd, pc, at, half, raced>>
    BY <1>5 DEF vars, store, proc, besides
  <2>2. /\ StagingOurs' = StagingOurs /\ Overwrites' = Overwrites
        /\ Applying' = Applying /\ Reversing' = Reversing
        /\ Parts' = Parts
    BY <2>1 DEF StagingOurs, Overwrites, Applying, Reversing, Parts, NumParts, Stg, Tmp
  <2>3. ApplyOurs' = ApplyOurs /\ ResumeOurs' = ResumeOurs /\ CopyOurs' = CopyOurs
    BY <2>1, <2>2 DEF ApplyOurs, ResumeOurs, CopyOurs, Src, Dst
  <2>4. ReversalOurs' = ReversalOurs
    BY <2>1, <2>2 DEF ReversalOurs, Listed, Recorded, Dst
  <2> QED BY <1>1, <2>1, <2>2, <2>3, <2>4 DEF OutsideAway
<1> QED BY <1>2, <1>3, <1>4, <1>5 DEF Next

(* A step keeps what another program wrote, or moves it.                   *)
LEMMA OutsideKeptBy ==
  ASSUME OutsideAway, Process, ~raced, ~Overwrites,
         NEW p \in Path, fs[p].data = Outside, ~Recorded(mem, fs[p])
  PROVE  \E q \in Path : fs'[q] = fs[p]
<1>1. /\ RecoverySafe /\ ItemsSafe /\ op \in Plan /\ fs \in Files /\ fs \in [Path -> File]
      /\ Control /\ StagingOurs
  BY DEF OutsideAway, RecoverySafe, ItemsSafe, TypeOK
<1>2. /\ ApplyOurs /\ ResumeOurs /\ CopyOurs /\ ReversalOurs
      /\ half => op.crossing
      /\ pc \in {"undo", "unstage"} => cmd # "apply"
  BY DEF OutsideAway
<1>3. /\ Parts \subseteq 1..MaxParts /\ Items \subseteq 1..MaxParts
      /\ Moving => Parts = Items
      /\ Listed(mem) \subseteq Parts
  BY <1>1, PartsOfItems DEF Listed
<1>4. Exists(p)
  <2>1. NoFile.data # Outside
    BY JournalAssumption DEF NoFile, Outside
  <2> QED BY <1>1, <2>1 DEF Files, Exists
<1>5. pc \in PartPoints \cup {"finish"} => cmd \in {"apply", "resume"}
  BY <1>1 DEF RecoverySafe, Ahead
<1>6. /\ op.force => op.kind # "delete"
      /\ op.crossing => op.kind = "move"
      /\ ~Moving => op.kind # "delete"
  BY <1>1 DEF Plan, Moving
<1>7. CASE fs' = fs
  BY <1>7
<1>8. CASE StagingMoves
  <2>1. PICK k \in 1..MaxParts : \E r \in {Stg(k), Tmp(k)} :
          \/ fs' = Removed(r)
          \/ \E q \in Path : fs' = Copied(q, r)
          \/ r = Stg(k) /\ fs' = Renamed(Tmp(k), r)
    BY <1>8 DEF StagingMoves
  <2>2. PICK r \in {Stg(k), Tmp(k)} :
          \/ fs' = Removed(r)
          \/ \E q \in Path : fs' = Copied(q, r)
          \/ r = Stg(k) /\ fs' = Renamed(Tmp(k), r)
    BY <2>1
  <2>3. r \in Path /\ r # p /\ Tmp(k) \in Path /\ Stg(k) # Tmp(k)
    BY <1>1, Places, PlacesDiffer DEF StagingOurs
  <2>4. CASE fs' = Removed(r)
    BY <1>1, <2>3, <2>4, StillThere
  <2>5. CASE \E q \in Path : fs' = Copied(q, r)
    <3>1. PICK q \in Path : fs' = Copied(q, r)
      BY <2>5
    <3>2. Copied(q, r)[p] = fs[p]
      BY <1>1, <2>3, StillThere
    <3> QED BY <3>1, <3>2
  <2>6. CASE r = Stg(k) /\ fs' = Renamed(Tmp(k), r)
    <3>1. \E q \in Path : Renamed(Tmp(k), r)[q] = fs[p]
      BY <1>1, <2>3, <2>6, StillThere
    <3> QED BY <2>6, <3>1
  <2> QED BY <2>2, <2>4, <2>5, <2>6
<1>9. CASE Publishes
  <2>1. at \in 1..MaxParts /\ ~Exists(Dst(at)) /\ fs' = Renamed(Stg(at), Dst(at))
    BY <1>3, <1>9 DEF Publishes
  <2>2. Dst(at) # p /\ Stg(at) # Dst(at) /\ Stg(at) \in Path /\ Dst(at) \in Path
    BY <1>4, <2>1, Places, PlacesDiffer
  <2> QED BY <1>1, <2>1, <2>2, StillThere
<1>10. CASE Replaces
  <2>1. at \in Parts /\ cmd = "apply" /\ op.kind # "delete" /\ fs' = Removed(Dst(at))
    BY <1>5, <1>6, <1>10 DEF Replaces, Forces, PartPoints
  <2>2. Applying
    BY <1>10, <2>1 DEF Replaces, Applying, PartPoints
  <2>3. Dst(at) # p /\ Dst(at) \in Path
    BY <1>2, <1>3, <2>1, <2>2, Places DEF ApplyOurs
  <2> QED BY <1>1, <2>1, <2>3, StillThere
<1>11. CASE MovesOn
  <2>1. Src(at) \in Path /\ Dst(at) \in Path /\ Src(at) # Dst(at) /\ at \in Items /\ at \in Parts
    BY <1>3, <1>11, Places, PlacesDiffer DEF MovesOn
  <2>2. pc = "move" /\ cmd \in {"apply", "resume"}
    BY <1>5, <1>11 DEF MovesOn, PartPoints
  <2>3. cmd = "apply" => Applying
    BY <2>2 DEF Applying, PartPoints
  <2>4. CASE half
    <3>1. Src(at) # p
      BY <1>2, <1>6, <2>1, <2>2, <2>3, <2>4 DEF ApplyOurs, ResumeOurs
    <3>2. Dst(at) # p
      BY <1>2, <2>2, <2>4 DEF CopyOurs
    <3>3. \/ fs' = Removed(Src(at)) \/ fs' = Removed(Dst(at))
          \/ ~Exists(Dst(at)) /\ fs' = Copied(Src(at), Dst(at))
      BY <1>11, <2>4 DEF MovesOn, MoveDone, MoveFailed
    <3>4. /\ Removed(Src(at))[p] = fs[p]
          /\ Removed(Dst(at))[p] = fs[p]
          /\ Copied(Src(at), Dst(at))[p] = fs[p]
      BY <1>1, <2>1, <3>1, <3>2, StillThere
    <3> QED BY <3>3, <3>4
  <2>5. CASE fs' = Renamed(Src(at), Dst(at)) /\ ~Exists(Dst(at))
    BY <1>1, <1>4, <2>1, <2>5, StillThere
  <2>6. CASE fs' = Copied(Src(at), Dst(at)) /\ ~Exists(Dst(at))
    BY <1>1, <1>4, <2>1, <2>6, StillThere
  <2>7. CASE Forces /\ fs' = Removed(Dst(at))
    <3>1. cmd = "apply" /\ op.kind # "delete"
      BY <1>6, <2>2, <2>7 DEF Forces
    <3>2. Dst(at) # p
      BY <1>2, <2>1, <2>3, <3>1 DEF ApplyOurs
    <3> QED BY <1>1, <2>1, <2>7, <3>2, StillThere
  <2> QED BY <1>7, <1>11, <2>4, <2>5, <2>6, <2>7 DEF MovesOn, MoveDone, MoveFailed
<1>12. cmd = "apply" /\ op.kind # "delete" /\ pc \in {"rollback", "undo"} =>
         \A k \in Parts : fs[Dst(k)].data # Outside
  BY <1>2 DEF ApplyOurs, Applying
<1>13. cmd # "apply" /\ pc \in {"rollback", "undo"} =>
         \A k \in Listed(mem) : fs[Dst(k)].data = Outside => Recorded(mem, fs[Dst(k)])
  BY <1>2 DEF ReversalOurs, Reversing
<1>14. CASE MovesBack
  <2>1. Src(at) \in Path /\ Dst(at) \in Path /\ Src(at) # Dst(at) /\ at \in Items /\ at \in Parts
    BY <1>3, <1>14, Places, PlacesDiffer DEF MovesBack
  <2>2. pc \in {"rollback", "undo"} /\ at \in Listed(mem)
    BY <1>14 DEF MovesBack
  <2>3. CASE half
    <3>1. Src(at) # p
      BY <1>2, <2>2, <2>3 DEF CopyOurs
    <3>2. Dst(at) # p
      BY <1>2, <1>6, <1>12, <1>13, <2>1, <2>2, <2>3
    <3>3. \/ fs' = Removed(Src(at)) \/ fs' = Removed(Dst(at))
          \/ ~Exists(Src(at)) /\ fs' = Copied(Dst(at), Src(at))
      BY <1>14, <2>3 DEF MovesBack, MoveDone, MoveFailed
    <3>4. /\ Removed(Src(at))[p] = fs[p]
          /\ Removed(Dst(at))[p] = fs[p]
          /\ Copied(Dst(at), Src(at))[p] = fs[p]
      BY <1>1, <2>1, <3>1, <3>2, StillThere
    <3> QED BY <3>3, <3>4
  <2>4. CASE fs' = Renamed(Dst(at), Src(at)) /\ ~Exists(Src(at))
    BY <1>1, <1>4, <2>1, <2>4, StillThere
  <2>5. CASE fs' = Copied(Dst(at), Src(at)) /\ ~Exists(Src(at))
    BY <1>1, <1>4, <2>1, <2>5, StillThere
  <2> QED BY <1>7, <1>14, <2>3, <2>4, <2>5 DEF MovesBack, MoveDone, MoveFailed
<1>15. CASE RemovesOutput
  <2>1. /\ at \in Parts /\ pc \in {"rollback", "undo"} /\ at \in Listed(mem)
        /\ op.kind # "delete" /\ fs' = Removed(Dst(at))
    BY <1>6, <1>15 DEF RemovesOutput
  <2>2. Dst(at) # p /\ Dst(at) \in Path
    BY <1>3, <1>12, <1>13, <2>1, Places
  <2> QED BY <1>1, <2>1, <2>2, StillThere
<1> QED BY <1>1, <1>7, <1>8, <1>9, <1>10, <1>11, <1>14, <1>15, FileMoves

LEMMA OutsideKeptStep ==
  OutsideAway /\ [Next]_vars =>
    [ ~raced /\ faults'["outside"] = faults["outside"]
        /\ ~(op.kind = "compress" /\ op.force)
        => \A p \in Path : fs[p].data = Outside /\ ~Recorded(mem, fs[p])
             => \E q \in Path : fs'[q] = fs[p] ]_vars
<1> SUFFICES ASSUME OutsideAway, Next, ~raced, faults'["outside"] = faults["outside"],
                    ~Overwrites,
                    NEW p \in Path, fs[p].data = Outside, ~Recorded(mem, fs[p])
             PROVE  \E q \in Path : fs'[q] = fs[p]
  BY DEF Overwrites
<1>1. CASE Process
  BY <1>1, OutsideKeptBy
<1>2. CASE Crash
  BY <1>2 DEF Crash, store
<1>3. CASE OutsideChange
  <2>1. faults \in [FaultKinds -> 0..MaxFaults] /\ "outside" \in FaultKinds
    BY DEF OutsideAway, RecoverySafe, ItemsSafe, TypeOK, FaultKinds
  <2>2. faults["outside"] \in Int
    BY <2>1, JournalAssumption
  <2>3. faults'["outside"] = faults["outside"] + 1
    BY <1>3, <2>1 DEF OutsideChange, Fault
  <2> QED BY <2>2, <2>3
<1> QED BY <1>1, <1>2, <1>3 DEF Next

(* No command removes or replaces a file of another program that was there *)
(* when it validated the files, or since; but an archive made with         *)
(* `--force`, and what its journal takes for an output of its own.         *)
THEOREM OutsideFilesAlwaysKept == Spec => OutsideFilesKept
<1>1. Spec => []OutsideAway
  BY OutsideAwayFirst, OutsideAwayStep, PTL DEF Spec
<1> QED BY <1>1, OutsideKeptStep, PTL DEF Spec, OutsideFilesKept

-----------------------------------------------------------------------------
(* What an applied journal stands for.                                     *)

Working == pc \in PartPoints \cup {"finish"}
Role(j, k) == j.outputs[k].role
Untouched(k) == ItemOf(k) \notin hit
StagedParts == {k \in Parts : Exists(Stg(k))}

(* A journal has entries for the first parts only, all of them done but    *)
(* the last; the items not left to do are done; no part in staged is done; *)
(* and it records the data of the items not in touched.                    *)
InOrder(j) == \A k, l \in Parts : l < k /\ Role(j, k) # "none" => Role(j, l) = "done"

LeftToDo(j) ==
  j.status # "none" => \A k \in Parts : ItemOf(k) \notin j.remaining => Role(j, k) = "done"

Sound(j, staged, touched) ==
  /\ InOrder(j)
  /\ LeftToDo(j)
  /\ \A k \in staged : Role(j, k) # "done"
  /\ \A k \in Parts : Role(j, k) # "none" /\ ItemOf(k) \notin touched =>
                        j.outputs[k].file.data = ItemOf(k)

PendingStaged(j) == ~Moving => \A k \in Parts : PendingIn(j, k) => k \in j.staging

JournalsSound ==
  /\ Sound(durable, StagedParts, hit) /\ Sound(mem, StagedParts, hit)
  /\ NeedsRecovery(durable) => PendingStaged(durable)
  /\ cmd \in {"apply", "resume"} => PendingStaged(mem)
  /\ Running => mem.status # "none"
  /\ mem.status = "applied" => pc = "undo"

(* Where a command has come to.                                            *)
Position ==
  /\ pc = "validate" => mem.remaining = Items /\ \A k \in Parts : Role(mem, k) = "none"
  /\ Working => \A k \in Parts : k < at => Role(mem, k) = "done"
  /\ pc = "finish" => at = NumParts + 1
  /\ pc \in PartPoints \ {"intent"} => ItemOf(at) \in mem.remaining
  /\ pc \in PartPoints \ {"intent", "item_done"} =>
       Role(mem, at) # "done" /\ Role(durable, at) # "done"
  /\ pc \in {"stage", "rename", "discard", "publish_intent"} => Role(mem, at) = "none"
  /\ pc = "item_done" => Role(mem, at) = "done" /\ op.kind = "compress" /\ LastOfItem(at)
  /\ cmd = "apply" /\ Working =>
       \A k \in Parts : /\ k >= at => ItemOf(k) \in mem.remaining
                        /\ k < at /\ LastOfItem(k) => ItemOf(k) \notin mem.remaining
                        /\ k > at => Role(mem, k) = "none"
  /\ cmd = "apply" /\ pc = "intent" => Role(mem, at) = "none"
  /\ pc = "fail" => cmd = "apply"
  /\ pc = "unstage" => cmd = "recover"

(* The files of untouched items, where an apply or a resume put them.      *)
StagedHolds ==
  \A k \in StagedParts : ~Moving /\ (Untouched(k) => fs[Stg(k)].data = ItemOf(k))

DoneHolds ==
  Working => \A k \in Parts : Role(mem, k) = "done" /\ Untouched(k) =>
                                fs[Dst(k)].data = ItemOf(k)

CurrentHolds ==
  /\ pc = "rename" /\ Untouched(at) => fs[Tmp(at)].data = ItemOf(at)
  /\ pc = "publish_intent" /\ Untouched(at) => fs[Stg(at)].data = ItemOf(at)
  /\ pc = "checkpoint" => /\ at \notin StagedParts
                          /\ Untouched(at) /\ Exists(Dst(at)) => fs[Dst(at)].data = ItemOf(at)

(* What is done in the journal i is done in j.                             *)
Behind(i, j) == \A k \in Parts : Role(i, k) = "done" => Role(j, k) = "done"

(* The journals that variables hold are as sound as the one on disk, which *)
(* has grown from them; no apply has any to meet.                          *)
HeldSafe ==
  /\ pc = "idle" => cmd = "none"
  /\ cmd = "apply" => \A v \in Variables : held[v] = NoJournal
  /\ \A v \in Variables :
       /\ Sound(held[v], StagedParts, hit)
       /\ ~SaysReversed(durable) => Behind(held[v], durable)
       /\ cmd = "resume" => Behind(held[v], mem)
       /\ held[v].status = "applied" => ~NeedsRecovery(durable) /\ cmd # "resume"

PublishedSafe ==
  /\ RecoverySafe /\ JournalsSound /\ Position
  /\ StagedHolds /\ DoneHolds /\ CurrentHolds
  /\ HeldSafe

(* Parts and items once more: a backup follows its archive, the last part  *)
(* of an item is after the others, and each item has one.                  *)
LEMMA PartOrder ==
  ASSUME op \in Plan, NEW k \in Parts
  PROVE  /\ k \in Nat /\ k > 0 /\ NumParts \in Nat /\ k <= NumParts /\ k \in 1..MaxParts
         /\ ItemOf(k) \in Items
         /\ IsBackup(k) => k - 1 \in Parts /\ ItemOf(k - 1) = ItemOf(k)
         /\ LastOfItem(k) => \A l \in Parts : ItemOf(l) = ItemOf(k) => l <= k
         /\ op.kind # "compress" => ItemOf(k) = k /\ LastOfItem(k)
         /\ \A i \in Items : \E l \in Parts : LastOfItem(l) /\ ItemOf(l) = i
<1>1. N \in Nat /\ N > 0 /\ (op.backup => op.kind = "compress") /\ op.backup \in BOOLEAN
  BY JournalAssumption DEF Plan
<1>2. NumParts \in Nat /\ Parts \subseteq 1..MaxParts /\ ItemOf(k) \in Items
  BY PartsOfItems
<1>3. k \in Nat /\ k > 0 /\ k <= NumParts /\ k \in 1..MaxParts
  BY <1>2 DEF Parts
<1>4. CASE op.backup
  <2>1. NumParts = 2 * N /\ ItemOf(k) = (k + 1) \div 2 /\ op.kind = "compress"
        /\ (IsBackup(k) <=> k % 2 = 0) /\ (LastOfItem(k) <=> k % 2 = 0)
    BY <1>1, <1>4 DEF NumParts, ItemOf, IsBackup, LastOfItem
  <2>2. k % 2 = 0 => k - 1 \in 1..(2 * N) /\ (k - 1 + 1) \div 2 = (k + 1) \div 2
    BY <1>1, <1>3, <2>1
  <2>3. k % 2 = 0 => \A l \in 1..(2 * N) : (l + 1) \div 2 = (k + 1) \div 2 => l <= k
    BY <1>1, <1>3, <2>1
  <2>4. ASSUME NEW i \in Items PROVE \E l \in Parts : LastOfItem(l) /\ ItemOf(l) = i
    <3>1. 2 * i \in 1..(2 * N) /\ (2 * i) % 2 = 0 /\ (2 * i + 1) \div 2 = i
      BY <1>1 DEF Items
    <3> QED BY <1>4, <2>1, <3>1 DEF Parts, LastOfItem, IsBackup, ItemOf
  <2>5. IsBackup(k) => k - 1 \in Parts /\ ItemOf(k - 1) = ItemOf(k)
    BY <1>4, <2>1, <2>2 DEF Parts, ItemOf
  <2>6. LastOfItem(k) => \A l \in Parts : ItemOf(l) = ItemOf(k) => l <= k
    BY <1>4, <2>1, <2>3 DEF Parts, ItemOf
  <2> QED BY <1>2, <1>3, <2>1, <2>4, <2>5, <2>6
<1>5. CASE ~op.backup
  <2>1. NumParts = N /\ Parts = Items /\ \A l : ItemOf(l) = l /\ LastOfItem(l) /\ ~IsBackup(l)
    BY <1>5 DEF NumParts, Parts, Items, ItemOf, LastOfItem, IsBackup
  <2> QED BY <1>2, <1>3, <2>1
<1> QED BY <1>1, <1>4, <1>5

(* What the operators on journals leave as it is, and what not.            *)
LEMMA StagingRoles ==
  ASSUME NEW j \in Journal, NEW k \in 1..MaxParts
  PROVE  /\ WithStaging(j, k).outputs = j.outputs
         /\ WithoutStaging(j, k).outputs = j.outputs
         /\ WithStaging(j, k).remaining = j.remaining
         /\ WithoutStaging(j, k).remaining = j.remaining
BY DEF WithStaging, WithoutStaging, Journal

(* An intent makes its own part pending and touches no other.              *)
LEMMA PendingRoles ==
  ASSUME NEW j \in Journal, NEW k \in 1..MaxParts, NEW file \in File
  PROVE  /\ WithPending(j, k, file).outputs[k].role = "pending"
         /\ WithPending(j, k, file).outputs[k].file = file
         /\ \A p \in 1..MaxParts :
              p # k => WithPending(j, k, file).outputs[p] = j.outputs[p]
         /\ WithPending(j, k, file).remaining = j.remaining
<1>1. DOMAIN j.outputs = 1..MaxParts
  BY DEF Journal
<1>2. /\ WithPending(j, k, file).outputs =
           [j.outputs EXCEPT ![k] = [role |-> "pending", file |-> file]]
      /\ WithPending(j, k, file).remaining = j.remaining
  BY DEF WithPending, Journal
<1>3. WithPending(j, k, file).outputs[k] = [role |-> "pending", file |-> file]
  BY <1>1, <1>2
<1>4. /\ WithPending(j, k, file).outputs[k].role = "pending"
      /\ WithPending(j, k, file).outputs[k].file = file
  BY <1>3
<1>5. \A p \in 1..MaxParts : p # k => WithPending(j, k, file).outputs[p] = j.outputs[p]
  BY <1>1, <1>2
<1> QED BY <1>2, <1>4, <1>5

(* Dropping an entry, with its staging file or without, touches no other.  *)
LEMMA OutputRoles ==
  ASSUME NEW j \in Journal, NEW k \in 1..MaxParts
  PROVE  /\ WithoutOutput(j, k).outputs = [j.outputs EXCEPT ![k] = NoOutput]
         /\ WithoutOutput(j, k).outputs[k] = NoOutput
         /\ \A p \in 1..MaxParts : p # k => WithoutOutput(j, k).outputs[p] = j.outputs[p]
         /\ WithoutOutput(j, k).remaining = j.remaining
         /\ Published(j, k).outputs = WithoutOutput(j, k).outputs
         /\ Published(j, k).remaining = j.remaining
<1>1. DOMAIN j.outputs = 1..MaxParts
  BY DEF Journal
<1>2. /\ WithoutOutput(j, k).outputs = [j.outputs EXCEPT ![k] = NoOutput]
      /\ WithoutOutput(j, k).remaining = j.remaining
  BY DEF WithoutOutput, Journal
<1>3. DOMAIN WithoutOutput(j, k) = {"status", "undo_safe", "outputs", "staging", "remaining"}
  BY DEF WithoutOutput, Journal
<1>4. /\ Published(j, k).outputs = WithoutOutput(j, k).outputs
      /\ Published(j, k).remaining = j.remaining
  BY <1>2, <1>3 DEF Published, WithoutStaging
<1> QED BY <1>1, <1>2, <1>4

(* A checkpoint makes its own part done and touches no other ...           *)
LEMMA DoneRoles ==
  ASSUME NEW j \in Journal, NEW k \in 1..MaxParts, NEW file \in File
  PROVE  /\ WithDone(j, k, file).outputs[k].role = "done"
         /\ WithDone(j, k, file).outputs[k].file = file
         /\ \A p \in 1..MaxParts : p # k => WithDone(j, k, file).outputs[p] = j.outputs[p]
<1>1. DOMAIN j.outputs = 1..MaxParts
  BY DEF Journal
<1>2. WithDone(j, k, file).outputs = [j.outputs EXCEPT ![k] = [role |-> "done", file |-> file]]
  BY DEF WithDone, Journal
<1>3. WithDone(j, k, file).outputs[k] = [role |-> "done", file |-> file]
  BY <1>1, <1>2
<1>4. /\ WithDone(j, k, file).outputs[k].role = "done"
      /\ WithDone(j, k, file).outputs[k].file = file
  BY <1>3
<1>5. \A p \in 1..MaxParts : p # k => WithDone(j, k, file).outputs[p] = j.outputs[p]
  BY <1>1, <1>2
<1> QED BY <1>4, <1>5

(* ... and, unless it is one of an archive, ends its item.                 *)
LEMMA DoneRemaining ==
  ASSUME NEW j \in Journal, NEW k \in 1..MaxParts, NEW file \in File
  PROVE  WithDone(j, k, file).remaining =
           IF op.kind = "compress" THEN j.remaining ELSE j.remaining \ {ItemOf(k)}
BY DEF WithDone, Journal

(* Fewer staging files and more touched items leave a journal sound.       *)
LEMMA SoundLess ==
  ASSUME NEW j, NEW S, NEW h, Sound(j, S, h), NEW T, NEW t, T \subseteq S, h \subseteq t
  PROVE  Sound(j, T, t)
BY DEF Sound

(* What keeps a journal sound.                                             *)
LEMMA SoundStaging ==
  ASSUME NEW j \in Journal, NEW k \in 1..MaxParts, NEW S, NEW h, Sound(j, S, h)
  PROVE  Sound(WithStaging(j, k), S, h) /\ Sound(WithoutStaging(j, k), S, h)
<1>1. /\ WithStaging(j, k).status = j.status /\ WithoutStaging(j, k).status = j.status
      /\ WithStaging(j, k).outputs = j.outputs /\ WithoutStaging(j, k).outputs = j.outputs
      /\ WithStaging(j, k).remaining = j.remaining
      /\ WithoutStaging(j, k).remaining = j.remaining
  BY Entries, StagingRoles
<1> QED BY <1>1 DEF Sound, InOrder, LeftToDo, Role

(* An entry written in its turn, with the data of its item, keeps a journal*)
(* sound, as dropping one that is not done does.                           *)
LEMMA SoundPart ==
  ASSUME op \in Plan, NEW j \in Journal, NEW k \in Parts, NEW S, NEW h, S \subseteq Parts,
         Sound(j, S, h), Role(j, k) # "done", ItemOf(k) \in j.remaining, NEW file \in File
  PROVE  /\ Sound(WithoutOutput(j, k), S, h)
         /\ Sound(Published(j, k), S, h)
         /\ /\ \A l \in Parts : l < k => Role(j, l) = "done"
            /\ ItemOf(k) \notin h => file.data = ItemOf(k)
            => Sound(WithPending(j, k, file), S, h)
         /\ /\ \A l \in Parts : l < k => Role(j, l) = "done"
            /\ ItemOf(k) \notin h => file.data = ItemOf(k)
            /\ k \notin S
            => Sound(WithDone(j, k, file), S, h)
<1>1. Parts \subseteq 1..MaxParts /\ k \in 1..MaxParts
  BY PartsOfItems
<1>2. /\ WithoutOutput(j, k).status = j.status /\ Published(j, k).status = j.status
      /\ WithPending(j, k, file).status = j.status /\ WithDone(j, k, file).status = j.status
  BY <1>1, Entries
<1>3. \A l \in Parts : l > k => Role(j, l) = "none"
  BY <1>1 DEF Sound, InOrder
<1>4. \A p, l \in Parts : p \in Int /\ l \in Int
  BY DEF Parts
<1>5. ASSUME NEW i, i.status = j.status, i.remaining = j.remaining,
             \A p \in Parts : p # k => i.outputs[p] = j.outputs[p],
             Role(i, k) # "done",
             Role(i, k) # "none" => /\ \A l \in Parts : l < k => Role(j, l) = "done"
                                    /\ ItemOf(k) \notin h => i.outputs[k].file.data = ItemOf(k)
      PROVE  Sound(i, S, h)
  <2>1. \A p \in Parts : p # k => Role(i, p) = Role(j, p)
    BY <1>5 DEF Role
  <2>2. InOrder(i)
    <3>1. ASSUME NEW p \in Parts, NEW l \in Parts, l < p, Role(i, p) # "none"
          PROVE  Role(i, l) = "done"
      <4>1. CASE p = k
        BY <1>4, <1>5, <2>1, <3>1, <4>1
      <4>2. CASE p # k
        <5>1. Role(j, p) # "none" /\ Role(j, l) = "done"
          BY <2>1, <3>1, <4>2 DEF Sound, InOrder
        <5>2. l # k
          BY <5>1
        <5> QED BY <2>1, <5>1, <5>2
      <4> QED BY <4>1, <4>2
    <3> QED BY <3>1 DEF InOrder
  <2>3. LeftToDo(i)
    BY <1>5, <2>1 DEF Sound, LeftToDo
  <2>4. \A p \in S : Role(i, p) # "done"
    BY <1>5, <2>1 DEF Sound
  <2>5. \A p \in Parts : Role(i, p) # "none" /\ ItemOf(p) \notin h =>
                           i.outputs[p].file.data = ItemOf(p)
    BY <1>5, <2>1 DEF Sound
  <2> QED BY <2>2, <2>3, <2>4, <2>5 DEF Sound
<1>6. /\ \A p \in 1..MaxParts :
           p # k => WithPending(j, k, file).outputs[p] = j.outputs[p]
      /\ WithPending(j, k, file).outputs[k].role = "pending"
      /\ WithPending(j, k, file).outputs[k].file = file
      /\ WithPending(j, k, file).remaining = j.remaining
  BY <1>1, PendingRoles
<1>10. /\ \A p \in 1..MaxParts : p # k => WithoutOutput(j, k).outputs[p] = j.outputs[p]
       /\ WithoutOutput(j, k).outputs[k] = NoOutput
       /\ Published(j, k).outputs = WithoutOutput(j, k).outputs
       /\ WithoutOutput(j, k).remaining = j.remaining
       /\ Published(j, k).remaining = j.remaining
  BY <1>1, OutputRoles
<1>11. /\ \A p \in 1..MaxParts : p # k => WithDone(j, k, file).outputs[p] = j.outputs[p]
       /\ WithDone(j, k, file).outputs[k].role = "done"
       /\ WithDone(j, k, file).outputs[k].file = file
       /\ WithDone(j, k, file).remaining =
            IF op.kind = "compress" THEN j.remaining ELSE j.remaining \ {ItemOf(k)}
  <2>1. \A p \in 1..MaxParts : p # k => WithDone(j, k, file).outputs[p] = j.outputs[p]
    BY <1>1, DoneRoles
  <2>2. /\ WithDone(j, k, file).outputs[k].role = "done"
        /\ WithDone(j, k, file).outputs[k].file = file
    BY <1>1, DoneRoles
  <2>3. WithDone(j, k, file).remaining =
            IF op.kind = "compress" THEN j.remaining ELSE j.remaining \ {ItemOf(k)}
    BY <1>1, DoneRemaining
  <2> QED BY <2>1, <2>2, <2>3
<1>7. Sound(WithoutOutput(j, k), S, h) /\ Sound(Published(j, k), S, h)
  <2>1. Role(WithoutOutput(j, k), k) = "none" /\ Role(Published(j, k), k) = "none"
    BY <1>10 DEF Role, NoOutput
  <2>2. \A p \in Parts : p # k => /\ WithoutOutput(j, k).outputs[p] = j.outputs[p]
                                  /\ Published(j, k).outputs[p] = j.outputs[p]
    BY <1>1, <1>10
  <2>3. Sound(WithoutOutput(j, k), S, h)
    BY <1>2, <1>5, <1>10, <2>1, <2>2
  <2>4. Sound(Published(j, k), S, h)
    BY <1>2, <1>5, <1>10, <2>1, <2>2
  <2> QED BY <2>3, <2>4
<1>8. ASSUME \A l \in Parts : l < k => Role(j, l) = "done",
             ItemOf(k) \notin h => file.data = ItemOf(k)
      PROVE  Sound(WithPending(j, k, file), S, h)
  <2>1. /\ Role(WithPending(j, k, file), k) = "pending"
        /\ WithPending(j, k, file).outputs[k].file = file
    BY <1>6 DEF Role
  <2>2. \A p \in Parts : p # k => WithPending(j, k, file).outputs[p] = j.outputs[p]
    BY <1>1, <1>6
  <2> QED BY <1>2, <1>5, <1>6, <1>8, <2>1, <2>2
<1>9. ASSUME \A l \in Parts : l < k => Role(j, l) = "done",
             ItemOf(k) \notin h => file.data = ItemOf(k), k \notin S
      PROVE  Sound(WithDone(j, k, file), S, h)
  <2> DEFINE i == WithDone(j, k, file)
  <2>1. Role(i, k) = "done" /\ i.outputs[k].file = file
    BY <1>11 DEF Role
  <2>2. \A p \in Parts : p # k => i.outputs[p] = j.outputs[p] /\ Role(i, p) = Role(j, p)
    BY <1>1, <1>11 DEF Role
  <2>3. i.status = j.status /\ i.remaining = IF op.kind = "compress" THEN j.remaining
                                             ELSE j.remaining \ {ItemOf(k)}
    BY <1>2, <1>11
  <2> HIDE DEF i
  <2>4. InOrder(i)
    <3>1. ASSUME NEW p \in Parts, NEW l \in Parts, l < p, Role(i, p) # "none"
          PROVE  Role(i, l) = "done"
      <4>1. p <= k
        BY <1>3, <1>4, <2>2, <3>1
      <4>2. CASE l = k
        BY <2>1, <4>2
      <4>3. CASE l # k
        BY <1>4, <1>9, <2>2, <3>1, <4>1, <4>3
      <4> QED BY <4>2, <4>3
    <3> QED BY <3>1 DEF InOrder
  <2>5. LeftToDo(i)
    <3>1. op.kind # "compress" => \A p \in Parts : ItemOf(p) = p
      BY PartOrder
    <3> QED BY <2>1, <2>2, <2>3, <3>1 DEF Sound, LeftToDo
  <2>6. \A p \in S : Role(i, p) # "done"
    BY <1>9, <2>2 DEF Sound
  <2>7. \A p \in Parts : Role(i, p) # "none" /\ ItemOf(p) \notin h =>
                           i.outputs[p].file.data = ItemOf(p)
    BY <1>9, <2>1, <2>2 DEF Sound
  <2>8. Sound(i, S, h)
    BY <2>4, <2>5, <2>6, <2>7 DEF Sound
  <2> QED BY <2>8 DEF i
<1> QED BY <1>7, <1>8, <1>9

(* A journal that lists the same outputs, or lost the one that was         *)
(* pending, or dropped an item with all its parts done.                    *)
LEMMA SoundLike ==
  ASSUME NEW j, NEW S, NEW h, S \subseteq Parts, Sound(j, S, h), NEW i,
         i.remaining = j.remaining, j.status # "none",
         \A p \in Parts : \/ i.outputs[p] = j.outputs[p]
                          \/ Role(j, p) = "pending" /\ i.outputs[p] = NoOutput
  PROVE  Sound(i, S, h)
<1>1. \A p \in Parts : /\ Role(j, p) = "done" <=> Role(i, p) = "done"
                       /\ Role(i, p) # "none" => Role(j, p) # "none" /\ i.outputs[p] = j.outputs[p]
  BY DEF Role, NoOutput
<1> QED BY <1>1 DEF Sound, InOrder, LeftToDo

(* So does dropping an item with all its parts done.                       *)
LEMMA SoundItem ==
  ASSUME NEW j, NEW S, NEW h, Sound(j, S, h), NEW i, i.status = j.status,
         i.outputs = j.outputs, NEW k, i.remaining = j.remaining \ {ItemOf(k)},
         \A p \in Parts : ItemOf(p) = ItemOf(k) => Role(j, p) = "done"
  PROVE  Sound(i, S, h)
BY DEF Sound, InOrder, LeftToDo, Role

(* The journal of an apply or a resume on its way.                         *)
Good(j, staged, touched) ==
  Sound(j, staged, touched) /\ PendingStaged(j) /\ j.status \notin {"none", "applied"}

(* What the steps of an apply or a resume write is good if the journal     *)
(* before was.                                                             *)
LEMMA GoodAfter ==
  ASSUME op \in Plan, NEW j \in Journal, NEW k \in Parts, NEW S, NEW h, S \subseteq Parts,
         Good(j, S, h), NEW file \in File
  PROVE  /\ Good(WithStaging(j, k), S, h)
         /\ Role(j, k) # "pending" => Good(WithoutStaging(j, k), S, h)
         /\ Role(j, k) # "done" /\ ItemOf(k) \in j.remaining =>
              /\ Good(WithoutOutput(j, k), S, h)
              /\ Good(Published(j, k), S, h)
              /\ /\ \A l \in Parts : l < k => Role(j, l) = "done"
                 /\ ItemOf(k) \notin h => file.data = ItemOf(k)
                 => /\ Moving \/ k \in j.staging => Good(WithPending(j, k, file), S, h)
                    /\ k \notin S => Good(WithDone(j, k, file), S, h)
<1>1. Parts \subseteq 1..MaxParts /\ k \in 1..MaxParts
  BY PartsOfItems
<1>2. Sound(j, S, h) /\ PendingStaged(j) /\ j.status \notin {"none", "applied"}
  BY DEF Good
<1>0. WithStaging(j, k).outputs = j.outputs /\ WithoutStaging(j, k).outputs = j.outputs
  BY <1>1, StagingRoles
<1>3. /\ \A p \in 1..MaxParts :
           p # k => WithPending(j, k, file).outputs[p] = j.outputs[p]
      /\ WithPending(j, k, file).outputs[k].role = "pending"
      /\ WithPending(j, k, file).outputs[k].file = file
  BY <1>1, PendingRoles
<1>12. /\ \A p \in 1..MaxParts : p # k => WithoutOutput(j, k).outputs[p] = j.outputs[p]
       /\ WithoutOutput(j, k).outputs[k] = NoOutput
       /\ Published(j, k).outputs = WithoutOutput(j, k).outputs
  BY <1>1, OutputRoles
<1>13. /\ \A p \in 1..MaxParts : p # k => WithDone(j, k, file).outputs[p] = j.outputs[p]
       /\ WithDone(j, k, file).outputs[k].role = "done"
       /\ WithDone(j, k, file).outputs[k].file = file
  <2>1. \A p \in 1..MaxParts : p # k => WithDone(j, k, file).outputs[p] = j.outputs[p]
    BY <1>1, DoneRoles
  <2>2. /\ WithDone(j, k, file).outputs[k].role = "done"
        /\ WithDone(j, k, file).outputs[k].file = file
    BY <1>1, DoneRoles
  <2> QED BY <2>1, <2>2
<1>4. /\ WithStaging(j, k).staging = j.staging \cup {k}
      /\ WithoutStaging(j, k).staging = j.staging \ {k}
      /\ WithPending(j, k, file).staging = j.staging
      /\ WithoutOutput(j, k).staging = j.staging
      /\ WithDone(j, k, file).staging = j.staging
      /\ Published(j, k).staging = j.staging \ {k}
      /\ WithStaging(j, k).status = j.status
      /\ WithoutStaging(j, k).status = j.status
      /\ WithPending(j, k, file).status = j.status
      /\ WithoutOutput(j, k).status = j.status
      /\ WithDone(j, k, file).status = j.status
      /\ Published(j, k).status = j.status
  BY <1>1, Entries
<1>5. /\ PendingStaged(WithStaging(j, k))
      /\ Role(j, k) # "pending" => PendingStaged(WithoutStaging(j, k))
  BY <1>0, <1>2, <1>4 DEF PendingStaged, PendingIn, Role
<1>6. /\ ~PendingIn(WithoutOutput(j, k), k) /\ ~PendingIn(Published(j, k), k)
      /\ ~PendingIn(WithDone(j, k, file), k)
  BY <1>12, <1>13 DEF PendingIn, NoOutput
<1>7. \A p \in Parts : p # k => /\ PendingIn(WithoutOutput(j, k), p) <=> PendingIn(j, p)
                                /\ PendingIn(Published(j, k), p) <=> PendingIn(j, p)
                                /\ PendingIn(WithDone(j, k, file), p) <=> PendingIn(j, p)
                                /\ PendingIn(WithPending(j, k, file), p) <=> PendingIn(j, p)
  BY <1>1, <1>3, <1>12, <1>13 DEF PendingIn
<1>8. PendingStaged(WithoutOutput(j, k)) /\ PendingStaged(Published(j, k))
      /\ PendingStaged(WithDone(j, k, file))
  BY <1>2, <1>4, <1>6, <1>7 DEF PendingStaged
<1>9. Moving \/ k \in j.staging => PendingStaged(WithPending(j, k, file))
  BY <1>2, <1>4, <1>7 DEF PendingStaged
<1>10. Sound(WithStaging(j, k), S, h) /\ Sound(WithoutStaging(j, k), S, h)
  BY <1>1, <1>2, SoundStaging
<1>11. Role(j, k) # "done" /\ ItemOf(k) \in j.remaining =>
         /\ Sound(WithoutOutput(j, k), S, h)
         /\ Sound(Published(j, k), S, h)
         /\ /\ \A l \in Parts : l < k => Role(j, l) = "done"
            /\ ItemOf(k) \notin h => file.data = ItemOf(k)
            => /\ Sound(WithPending(j, k, file), S, h)
               /\ k \notin S => Sound(WithDone(j, k, file), S, h)
  BY <1>2, SoundPart
<1> QED BY <1>2, <1>4, <1>5, <1>8, <1>9, <1>10, <1>11 DEF Good

(* The invariant, of the state after a step that keeps the plan and        *)
(* touches no further item.                                                *)
LEMMA JournalsAfter ==
  ASSUME UNCHANGED <<op, hit>>
  PROVE  JournalsSound' <=>
           /\ Sound(durable', StagedParts', hit) /\ Sound(mem', StagedParts', hit)
           /\ NeedsRecovery(durable') => PendingStaged(durable')
           /\ cmd' \in {"apply", "resume"} => PendingStaged(mem')
           /\ pc' \notin {"idle", "planned"} => mem'.status # "none"
           /\ mem'.status = "applied" => pc' = "undo"
BY DEF JournalsSound, Sound, InOrder, LeftToDo, PendingStaged, PendingIn, NeedsRecovery, Running,
       Role, Parts, NumParts, ItemOf, Moving

(* Likewise, where the command has come to.                                *)
LEMMA PositionAfter ==
  ASSUME UNCHANGED <<op, hit>>
  PROVE  Position' <=>
    /\ pc' = "validate" => mem'.remaining = Items /\ \A k \in Parts : Role(mem', k) = "none"
    /\ pc' \in PartPoints \cup {"finish"} => \A k \in Parts : k < at' => Role(mem', k) = "done"
    /\ pc' = "finish" => at' = NumParts + 1
    /\ pc' \in PartPoints \ {"intent"} => ItemOf(at') \in mem'.remaining
    /\ pc' \in PartPoints \ {"intent", "item_done"} =>
         Role(mem', at') # "done" /\ Role(durable', at') # "done"
    /\ pc' \in {"stage", "rename", "discard", "publish_intent"} => Role(mem', at') = "none"
    /\ pc' = "item_done" => Role(mem', at') = "done" /\ op.kind = "compress" /\ LastOfItem(at')
    /\ cmd' = "apply" /\ pc' \in PartPoints \cup {"finish"} =>
         \A k \in Parts : /\ k >= at' => ItemOf(k) \in mem'.remaining
                          /\ k < at' /\ LastOfItem(k) => ItemOf(k) \notin mem'.remaining
                          /\ k > at' => Role(mem', k) = "none"
    /\ cmd' = "apply" /\ pc' = "intent" => Role(mem', at') = "none"
    /\ pc' = "fail" => cmd' = "apply"
    /\ pc' = "unstage" => cmd' = "recover"
BY DEF Position, Working, Role, Parts, NumParts, ItemOf, LastOfItem, IsBackup, PartPoints

(* Likewise, the files.                                                    *)
LEMMA FilesAfterwards ==
  ASSUME UNCHANGED <<op, hit>>
  PROVE  /\ StagedHolds' <=>
              \A k \in StagedParts' : ~Moving /\ (Untouched(k) => fs'[Stg(k)].data = ItemOf(k))
         /\ DoneHolds' <=>
              (pc' \in PartPoints \cup {"finish"} =>
                 \A k \in Parts : Role(mem', k) = "done" /\ Untouched(k) =>
                                    fs'[Dst(k)].data = ItemOf(k))
         /\ CurrentHolds' <=>
              /\ pc' = "rename" /\ Untouched(at') => fs'[Tmp(at')].data = ItemOf(at')
              /\ pc' = "publish_intent" /\ Untouched(at') => fs'[Stg(at')].data = ItemOf(at')
              /\ pc' = "checkpoint" =>
                   /\ at' \notin StagedParts'
                   /\ Untouched(at') /\ fs'[Dst(at')].id # 0 => fs'[Dst(at')].data = ItemOf(at')
<1>1. (StagedHolds' <=>
              \A k \in StagedParts' : ~Moving /\ (Untouched(k) => fs'[Stg(k)].data = ItemOf(k)))
  BY DEF StagedHolds, Moving, Untouched, ItemOf, Stg
<1>2. DoneHolds' <=>
              (pc' \in PartPoints \cup {"finish"} =>
                 \A k \in Parts : Role(mem', k) = "done" /\ Untouched(k) =>
                                    fs'[Dst(k)].data = ItemOf(k))
  BY DEF DoneHolds, Working, PartPoints, Role, Untouched, ItemOf, Parts, NumParts, Dst
<1>3. CurrentHolds' <=>
              /\ pc' = "rename" /\ Untouched(at') => fs'[Tmp(at')].data = ItemOf(at')
              /\ pc' = "publish_intent" /\ Untouched(at') => fs'[Stg(at')].data = ItemOf(at')
              /\ pc' = "checkpoint" =>
                   /\ at' \notin StagedParts'
                   /\ Untouched(at') /\ fs'[Dst(at')].id # 0 => fs'[Dst(at')].data = ItemOf(at')
  BY DEF CurrentHolds, Untouched, ItemOf, Tmp, Dst, Exists
<1> QED BY <1>1, <1>2, <1>3

(* A step of a command keeps the plan and touches no further item.         *)
LEMMA HitKept ==
  ASSUME Process
  PROVE  op' = op /\ hit' = hit
<1>1. op' = op
  BY PlanKept DEF Next
<1>2. CASE Apply \/ Staging \/ Move \/ Checkpoint \/ ItemDone
  BY <1>2 DEF Apply, ApplyStart, Validate, MoveIntent, Finish, ApplyFails, Staging, StageIntent,
              Stage, StageRename, Discard, PublishIntent, Publish, Move, Checkpoint, ItemDone,
              besides
<1>3. CASE Reversal \/ Command \/ Resuming
  BY <1>3 DEF Reversal, RollbackStep, RollbackEnd, UndoStep, UndoEnd, Unstage, Revalidate,
              Command, Hold, Undo, Rollback, RecoverRollback, Resume, Resuming, ResumeSkip,
              ResumeStaged, ResumeRefused, ResumeMove, besides
<1> QED BY <1>1, <1>2, <1>3 DEF Process

(* Operations on files, seen from a path they do not write.                *)
LEMMA NoneWritten ==
  ASSUME fs \in [Path -> File], NEW p \in Path, NEW q \in Path, NEW r \in Path
  PROVE  /\ Removed(p)[r].id # 0 => Removed(p)[r] = fs[r]
         /\ p # q /\ r # q /\ Renamed(p, q)[r].id # 0 => Renamed(p, q)[r] = fs[r]
         /\ r # q => Copied(p, q)[r] = fs[r]
<1>1. NoFile.id = 0
  BY DEF NoFile
<1>2. /\ Removed(p)[r] = IF r = p THEN NoFile ELSE fs[r]
      /\ p # q => Renamed(p, q)[r] = IF r = p THEN NoFile ELSE IF r = q THEN fs[p] ELSE fs[r]
      /\ r # q => Copied(p, q)[r] = fs[r]
  BY DEF Removed, Renamed, Copied
<1> QED BY <1>1, <1>2

(* A staging file was there before, or is the one of this part.            *)
LEMMA StagingAfter ==
  ASSUME ItemsSafe, Process, NEW k \in StagedParts'
  PROVE  /\ k \in Parts
         /\ \/ k \in StagedParts /\ fs'[Stg(k)] = fs[Stg(k)]
            \/ k = at /\ pc \in {"stage", "rename"}
<1>1. op \in Plan /\ fs \in [Path -> File]
  BY DEF ItemsSafe, TypeOK
<1>2. op' = op
  BY HitKept
<1>3. k \in Parts /\ fs'[Stg(k)].id # 0
  BY <1>2 DEF StagedParts, Parts, NumParts, Exists, Stg
<1>4. /\ Parts \subseteq 1..MaxParts /\ Items \subseteq 1..MaxParts
      /\ Moving => Parts = Items
  BY <1>1, PartsOfItems
<1>5. Stg(k) \in Path
  BY <1>3, <1>4, Places
<1>6. SUFFICES ASSUME ~(k = at /\ pc \in {"stage", "rename"}) PROVE fs'[Stg(k)] = fs[Stg(k)]
  BY <1>3 DEF StagedParts, Exists
<1>7. CASE fs' = fs
  BY <1>7
<1>8. CASE StagingMoves
  <2>1. PICK l \in 1..MaxParts : \E p \in {Stg(l), Tmp(l)} :
          \/ fs' = Removed(p)
          \/ pc = "stage" /\ l = at /\ \E q \in Path : fs' = Copied(q, p)
          \/ pc = "rename" /\ l = at /\ p = Stg(l) /\ fs' = Renamed(Tmp(l), p)
    BY <1>8 DEF StagingMoves
  <2>2. PICK p \in {Stg(l), Tmp(l)} :
          \/ fs' = Removed(p)
          \/ pc = "stage" /\ l = at /\ \E q \in Path : fs' = Copied(q, p)
          \/ pc = "rename" /\ l = at /\ p = Stg(l) /\ fs' = Renamed(Tmp(l), p)
    BY <2>1
  <2>3. p \in Path /\ Tmp(l) \in Path /\ Tmp(l) # Stg(l) /\ Stg(l) \in Path
    BY Places, PlacesDiffer
  <2>4. CASE fs' = Removed(p)
    BY <1>1, <1>3, <1>5, <2>3, <2>4, NoneWritten
  <2>5. CASE fs' # Removed(p)
    <3>1. l # k /\ l = at
      BY <1>6, <2>2, <2>5
    <3>2. Stg(k) # p
      BY <3>1, PlacesDiffer
    <3>3. CASE p = Stg(l) /\ fs' = Renamed(Tmp(l), p)
      BY <1>1, <1>3, <1>5, <2>3, <3>2, <3>3, NoneWritten
    <3>4. CASE \E q \in Path : fs' = Copied(q, p)
      <4>1. PICK q \in Path : fs' = Copied(q, p)
        BY <3>4
      <4>2. Copied(q, p)[Stg(k)] = fs[Stg(k)]
        BY <1>1, <1>5, <2>3, <3>2, NoneWritten
      <4> QED BY <4>1, <4>2
    <3> QED BY <2>2, <2>5, <3>3, <3>4
  <2> QED BY <2>4, <2>5
<1>9. CASE Publishes
  <2>1. at \in 1..MaxParts /\ fs' = Renamed(Stg(at), Dst(at))
    BY <1>4, <1>9 DEF Publishes
  <2> QED BY <1>1, <1>3, <1>5, <2>1, Places, PlacesDiffer, NoneWritten
<1>10. CASE Replaces \/ RemovesOutput
  <2>1. at \in 1..MaxParts /\ fs' = Removed(Dst(at))
    BY <1>4, <1>10 DEF Replaces, RemovesOutput
  <2> QED BY <1>1, <1>3, <1>5, <2>1, Places, NoneWritten
<1>11. CASE MovesOn \/ MovesBack
  <2>1. /\ Src(at) \in Path /\ Dst(at) \in Path /\ Src(at) # Dst(at)
        /\ Stg(k) # Src(at) /\ Stg(k) # Dst(at)
    BY <1>4, <1>11, Places, PlacesDiffer DEF MovesOn, MovesBack
  <2>2. \/ fs' = fs \/ fs' = Removed(Src(at)) \/ fs' = Removed(Dst(at))
        \/ fs' = Renamed(Src(at), Dst(at)) \/ fs' = Renamed(Dst(at), Src(at))
        \/ fs' = Copied(Src(at), Dst(at)) \/ fs' = Copied(Dst(at), Src(at))
    BY <1>11 DEF MovesOn, MovesBack, MoveDone, MoveFailed
  <2>3. CASE fs' = Removed(Src(at)) \/ fs' = Removed(Dst(at))
    BY <1>1, <1>3, <1>5, <2>1, <2>3, NoneWritten
  <2>4. CASE fs' = Renamed(Src(at), Dst(at)) \/ fs' = Renamed(Dst(at), Src(at))
    BY <1>1, <1>3, <1>5, <2>1, <2>4, NoneWritten
  <2>5. CASE fs' = Copied(Src(at), Dst(at)) \/ fs' = Copied(Dst(at), Src(at))
    BY <1>1, <1>5, <2>1, <2>5, NoneWritten
  <2> QED BY <1>7, <2>2, <2>3, <2>4, <2>5
<1> QED BY <1>7, <1>8, <1>9, <1>10, <1>11, FileMoves

(* What is staged for an untouched item is the item.                       *)
LEMMA SourceHolds ==
  ASSUME PublishedSafe, pc = "stage", Untouched(at), Exists(SourceOf(at))
  PROVE  SourceOf(at) \in Path /\ fs[SourceOf(at)].data = ItemOf(at)
<1>1. op \in Plan /\ Control /\ \A i \in Items \ hit : Kept(i)
  BY DEF PublishedSafe, RecoverySafe, ItemsSafe, TypeOK
<1>2. at \in Parts /\ ~Moving
  BY <1>1 DEF Control, PartPoints, StagedPoints
<1>3. /\ at \in Nat /\ at \in 1..MaxParts
      /\ ItemOf(at) \in Items
      /\ IsBackup(at) => at - 1 \in Parts /\ ItemOf(at - 1) = ItemOf(at)
      /\ Parts \subseteq 1..MaxParts
  BY <1>1, <1>2, PartOrder, PartsOfItems
<1>4. CASE IsBackup(at)
  <2>1. at - 1 \in Parts /\ at - 1 < at /\ ItemOf(at - 1) = ItemOf(at)
    BY <1>3, <1>4
  <2>2. Role(mem, at - 1) = "done"
    BY <2>1 DEF PublishedSafe, Position, Working, PartPoints
  <2>3. fs[Dst(at - 1)].data = ItemOf(at - 1)
    BY <2>1, <2>2 DEF PublishedSafe, DoneHolds, Working, PartPoints, Untouched
  <2> QED BY <1>3, <1>4, <2>1, <2>3, Places DEF SourceOf
<1>5. CASE ~IsBackup(at)
  BY <1>1, <1>3, <1>5, Places DEF SourceOf, Kept, Untouched
<1> QED BY <1>4, <1>5

(* ... and so is its copy.                                                 *)
LEMMA CopyHolds ==
  ASSUME PublishedSafe, pc = "stage", Untouched(at), Exists(SourceOf(at)), NEW q \in Path
  PROVE  Copied(SourceOf(at), q)[q].data = ItemOf(at)
<1>1. op \in Plan /\ fs \in [Path -> File] /\ at \in Parts
  BY DEF PublishedSafe, RecoverySafe, ItemsSafe, TypeOK, Control, PartPoints
<1>2. ItemOf(at) # Outside
  <2>1. ItemOf(at) \in Items
    BY <1>1, PartsOfItems
  <2> QED BY <2>1, JournalAssumption DEF Items, Outside
<1>3. fs[SourceOf(at)].data = ItemOf(at)
  BY SourceHolds
<1> QED BY <1>1, <1>2, <1>3 DEF Copied

(* So every staging file of an untouched item is the item after a step,    *)
(* too.                                                                    *)
LEMMA StagedHoldsBy ==
  ASSUME PublishedSafe, Process
  PROVE  StagedHolds'
<1>1. op \in Plan /\ fs \in [Path -> File] /\ Control /\ ItemsSafe /\ StagedHolds
  BY DEF PublishedSafe, RecoverySafe, ItemsSafe, TypeOK
<1>2. UNCHANGED <<op, hit>>
  BY HitKept
<1>3. SUFFICES ASSUME NEW k \in StagedParts'
               PROVE  ~Moving /\ (Untouched(k) => fs'[Stg(k)].data = ItemOf(k))
  BY <1>2, FilesAfterwards
<1>4. CASE k \in StagedParts /\ fs'[Stg(k)] = fs[Stg(k)]
  BY <1>1, <1>4 DEF StagedHolds
<1>5. CASE k = at /\ pc \in {"stage", "rename"} /\ ~(k \in StagedParts /\ fs'[Stg(k)] = fs[Stg(k)])
  <2>1. ~Moving /\ at \in 1..MaxParts
    <3>1. ~Moving /\ at \in Parts
      BY <1>1, <1>5 DEF Control, StagedPoints, PartPoints
    <3> QED BY <1>1, <3>1, PartsOfItems
  <2>2. fs'[Stg(at)].id # 0 /\ fs' # fs
    <3>1. k \in Parts
      BY <1>1, StagingAfter
    <3>2. fs'[Stg(k)].id # 0
      BY DEF StagedParts, Exists, Stg
    <3>3. fs' = fs => k \in StagedParts
      BY <3>1, <3>2 DEF StagedParts, Exists
    <3> QED BY <1>5, <3>2, <3>3
  <2>3. CASE Stage
    <3>1. CASE op.kind = "compress" /\ Exists(SourceOf(at)) /\ fs' = Copied(SourceOf(at), Stg(at))
      BY <1>5, <2>1, <2>3, <3>1, CopyHolds, Places DEF Stage
    <3>2. CASE fs' = Copied(Src(at), Tmp(at)) /\ op.kind = "copy"
      <4>1. Src(at) = SourceOf(at) /\ Src(at) \in Path
        <5>1. at \in Items
          <6>1. at \in Parts
            BY <1>1, <1>5 DEF Control, PartPoints
          <6> QED BY <1>1, <3>2, <6>1, PartOrder
        <5> QED BY <1>1, <3>2, <5>1, Places DEF SourceOf, IsBackup, ItemOf, Plan
      <4>2. fs'[Stg(at)] = fs[Stg(at)]
        BY <1>1, <2>1, <3>2, <4>1, NoneWritten, Places, PlacesDiffer
      <4>3. at \in StagedParts
        BY <1>3, <1>5, <2>2, <4>2, StagingAfter, <1>1 DEF StagedParts, Exists
      <4> QED BY <1>5, <4>2, <4>3
    <3> QED BY <2>2, <2>3, <3>1, <3>2 DEF Stage
  <2>4. CASE StageRename
    <3>1. CASE fs' = Renamed(Tmp(at), Stg(at))
      <4>1. fs'[Stg(at)] = fs[Tmp(at)]
        BY <1>1, <2>1, <3>1, FilesAfter, Places, PlacesDiffer
      <4> QED BY <1>5, <2>1, <2>4, <4>1 DEF StageRename, PublishedSafe, CurrentHolds
    <3>2. CASE fs' = Removed(Tmp(at))
      <4>1. fs'[Stg(at)] = fs[Stg(at)]
        BY <1>1, <2>1, <3>2, FilesAfter, Places, PlacesDiffer
      <4>2. at \in StagedParts
        BY <1>3, <1>5, <2>2, <4>1, StagingAfter, <1>1 DEF StagedParts, Exists
      <4> QED BY <1>5, <4>1, <4>2
    <3> QED BY <2>4, <3>1, <3>2 DEF StageRename
  <2>5. Stage \/ StageRename \/ fs' = fs
    BY <1>5 DEF Process, Apply, ApplyStart, Validate, MoveIntent, Finish, ApplyFails, Staging,
       StageIntent, Discard, PublishIntent, Publish, Move, Checkpoint, ItemDone, Reversal,
       RollbackStep, RollbackEnd, UndoStep, UndoEnd, Unstage, Revalidate, Command, Hold, Undo,
       Rollback, RecoverRollback, Resume, Resuming, ResumeSkip, ResumeStaged, ResumeRefused,
       ResumeMove, store,
       ToResume
  <2> QED BY <2>2, <2>3, <2>4, <2>5
<1> QED BY <1>1, <1>3, <1>4, <1>5, StagingAfter

(* So the journals stay sound as far as the files are concerned.           *)
LEMMA SoundStays ==
  ASSUME PublishedSafe, Process
  PROVE  /\ StagedParts' \subseteq Parts
         /\ Sound(durable, StagedParts', hit) /\ Sound(mem, StagedParts', hit)
<1>1. ItemsSafe /\ Sound(durable, StagedParts, hit) /\ Sound(mem, StagedParts, hit) /\ Position
  BY DEF PublishedSafe, RecoverySafe, JournalsSound
<1>2. pc \in {"stage", "rename"} => Role(mem, at) # "done" /\ Role(durable, at) # "done"
  BY <1>1 DEF Position, PartPoints
<1>3. \A k \in StagedParts' : Role(mem, k) # "done" /\ Role(durable, k) # "done"
  BY <1>1, <1>2, StagingAfter DEF Sound
<1> QED BY <1>1, <1>3, StagingAfter DEF Sound

PublishedLater == JournalsSound /\ Position /\ DoneHolds /\ CurrentHolds

(* No journal is a sound one.                                              *)
LEMMA NoJournalSound ==
  ASSUME NEW S, S \subseteq Parts, NEW h, op \in Plan
  PROVE  Sound(NoJournal, S, h)
<1>1. NoJournal.status = "none" /\ \A k \in 1..MaxParts : NoJournal.outputs[k].role = "none"
  BY DEF NoJournal, NoOutput
<1>2. Parts \subseteq 1..MaxParts
  BY PartsOfItems
<1> QED BY <1>1, <1>2 DEF Sound, InOrder, LeftToDo, Role

(* The journal of an apply or a resume is good.                            *)
LEMMA MemGood ==
  ASSUME PublishedSafe, Process, cmd \in {"apply", "resume"}, pc \notin {"idle", "planned", "undo"}
  PROVE  Good(mem, StagedParts', hit)
BY SoundStays DEF PublishedSafe, JournalsSound, Good, Running

(* A step leaves sound journals if it writes a good one, or one that needs *)
(* no recovery, and stops or goes on with a good one.                      *)
LEMMA JournalsBy ==
  ASSUME PublishedSafe, Process,
         \/ durable' = durable
         \/ Good(durable', StagedParts', hit)
         \/ Sound(durable', StagedParts', hit) /\ ~NeedsRecovery(durable'),
         Stop \/ (Good(mem', StagedParts', hit) /\ pc' # "undo")
  PROVE  JournalsSound'
<1>1. /\ UNCHANGED <<op, hit>> /\ op \in Plan
      /\ StagedParts' \subseteq Parts /\ Sound(durable, StagedParts', hit)
      /\ NeedsRecovery(durable) => PendingStaged(durable)
  BY HitKept, SoundStays DEF PublishedSafe, JournalsSound, RecoverySafe, ItemsSafe, TypeOK
<1>2. /\ Sound(durable', StagedParts', hit)
      /\ NeedsRecovery(durable') => PendingStaged(durable')
  BY <1>1 DEF Good
<1>3. CASE Stop
  <2>1. Sound(NoJournal, StagedParts', hit) /\ NoJournal.status = "none"
    BY <1>1, NoJournalSound DEF NoJournal
  <2>2. mem' = NoJournal /\ cmd' = "none" /\ pc' = "idle"
    BY <1>3 DEF Stop
  <2> QED BY <1>1, <1>2, <2>1, <2>2, JournalsAfter
<1>4. CASE Good(mem', StagedParts', hit) /\ pc' # "undo"
  BY <1>1, <1>2, <1>4, JournalsAfter DEF Good
<1> QED BY <1>3, <1>4

(* Where no apply or resume is at work there is little to say.             *)
LEMMA AtRest ==
  ASSUME UNCHANGED <<op, hit>>, pc' \notin PartPoints \cup {"finish", "validate"},
         pc' = "fail" => cmd' = "apply", pc' = "unstage" => cmd' = "recover"
  PROVE  Position' /\ DoneHolds' /\ CurrentHolds'
BY PositionAfter, FilesAfterwards DEF PartPoints

(* Nothing touches an output that is done.                                 *)
LEMMA DoneStays ==
  ASSUME PublishedSafe, Process, pc \in PartPoints, NEW k \in Parts, Role(mem, k) = "done"
  PROVE  fs'[Dst(k)] = fs[Dst(k)]
<1>1. op \in Plan /\ fs \in [Path -> File] /\ ItemsSafe
  BY DEF PublishedSafe, RecoverySafe, ItemsSafe, TypeOK
<1>2. /\ Parts \subseteq 1..MaxParts /\ Items \subseteq 1..MaxParts
      /\ Moving => Parts = Items
  BY <1>1, PartsOfItems
<1>3. Dst(k) \in Path
  BY <1>2, Places
<1>4. pc \in {"publish", "move"} => k # at
  BY DEF PublishedSafe, Position, PartPoints
<1>5. pc = "intent" /\ fs' # fs => k # at
  <2>1. pc = "intent" /\ fs' # fs => ResumeStaged
    BY DEF Process, Apply, ApplyStart, Validate, MoveIntent, Finish, ApplyFails, Staging,
       StageIntent, Stage, StageRename, Discard, PublishIntent, Publish, Move, Checkpoint,
       ItemDone, Reversal, RollbackStep, RollbackEnd, UndoStep, UndoEnd, Unstage, Revalidate,
       Command, Hold, Undo, Rollback, RecoverRollback, Resume, Resuming, ResumeSkip, ResumeRefused,
       ResumeMove, store
  <2> QED BY <2>1 DEF ResumeStaged, ToResume, Role
<1>6. CASE fs' = fs
  BY <1>6
<1>7. CASE StagingMoves
  <2>1. PICK l \in 1..MaxParts : \E p \in {Stg(l), Tmp(l)} :
          \/ fs' = Removed(p)
          \/ pc = "stage" /\ l = at /\ \E q \in Path : fs' = Copied(q, p)
          \/ pc = "rename" /\ l = at /\ p = Stg(l) /\ fs' = Renamed(Tmp(l), p)
    BY <1>7 DEF StagingMoves
  <2>2. PICK p \in {Stg(l), Tmp(l)} :
          \/ fs' = Removed(p)
          \/ pc = "stage" /\ l = at /\ \E q \in Path : fs' = Copied(q, p)
          \/ pc = "rename" /\ l = at /\ p = Stg(l) /\ fs' = Renamed(Tmp(l), p)
    BY <2>1
  <2>3. /\ p \in Path /\ Tmp(l) \in Path /\ Tmp(l) # Stg(l)
        /\ Dst(k) # p /\ Dst(k) # Tmp(l)
    BY Places, PlacesDiffer
  <2> QED BY <1>1, <1>3, <2>2, <2>3 DEF Removed, Copied, Renamed
<1>8. CASE Publishes
  <2>1. \/ at \in 1..MaxParts /\ fs' = Renamed(Stg(at), Dst(at)) /\ k # at /\ fs' # fs
        \/ fs' = fs
    BY <1>2, <1>4, <1>5, <1>8 DEF Publishes
  <2>2. (Dst(k) # Dst(at) /\ Dst(k) # Stg(at)) \/ fs' = fs
    BY <2>1, PlacesDiffer
  <2> QED BY <1>1, <1>3, <2>1, <2>2, Places DEF Renamed
<1>9. CASE Replaces
  <2>1. at \in 1..MaxParts /\ fs' = Removed(Dst(at)) /\ k # at
    BY <1>2, <1>4, <1>9 DEF Replaces
  <2> QED BY <1>1, <1>3, <2>1, Places, PlacesDiffer DEF Removed
<1>10. CASE MovesOn
  <2>1. /\ Src(at) \in Path /\ Dst(at) \in Path /\ k # at
        /\ Dst(k) # Src(at) /\ Dst(k) # Dst(at)
    BY <1>2, <1>4, <1>10, Places, PlacesDiffer DEF MovesOn
  <2>2. \/ fs' = fs \/ fs' = Removed(Src(at)) \/ fs' = Removed(Dst(at))
        \/ fs' = Renamed(Src(at), Dst(at)) \/ fs' = Copied(Src(at), Dst(at))
    BY <1>10 DEF MovesOn, MoveDone, MoveFailed
  <2> QED BY <1>1, <1>3, <2>1, <2>2 DEF Removed, Renamed, Copied
<1>11. ~MovesBack /\ ~RemovesOutput
  BY DEF MovesBack, RemovesOutput, PartPoints
<1> QED BY <1>1, <1>6, <1>7, <1>8, <1>9, <1>10, <1>11, FileMoves

(* Outputs that are done still hold their items if the step checkpoints    *)
(* none, or one that does.                                                 *)
LEMMA DoneHoldsBy ==
  ASSUME PublishedSafe, Process, pc \in PartPoints,
         \A k \in Parts : Role(mem', k) = "done" =>
           \/ Role(mem, k) = "done"
           \/ Untouched(k) => fs'[Dst(k)].data = ItemOf(k)
  PROVE  DoneHolds'
<1>1. UNCHANGED <<op, hit>>
  BY HitKept
<1>2. \A k \in Parts : Role(mem, k) = "done" /\ Untouched(k) => fs[Dst(k)].data = ItemOf(k)
  BY DEF PublishedSafe, DoneHolds, Working
<1> QED BY <1>1, <1>2, DoneStays, FilesAfterwards

(* What every step of an apply or a resume at a part may rely on.          *)
LEMMA PartFacts ==
  ASSUME PublishedSafe, Process, pc \in PartPoints
  PROVE  /\ op \in Plan /\ UNCHANGED <<op, hit>>
         /\ at \in Parts /\ at \in 1..MaxParts /\ at \in Nat /\ NumParts \in Nat
         /\ \A k \in Parts : k \in Nat /\ k <= NumParts
         /\ mem \in Journal /\ durable \in Journal /\ fs \in [Path -> File]
         /\ cmd \in {"apply", "resume"}
         /\ StagedParts' \subseteq Parts
         /\ Good(mem, StagedParts', hit)
<1>1. /\ op \in Plan /\ mem \in Journal /\ durable \in Journal /\ fs \in [Path -> File]
      /\ Control
      /\ pc \in PartPoints \cup {"finish"} => cmd \in {"apply", "resume"}
  BY DEF PublishedSafe, RecoverySafe, ItemsSafe, TypeOK, Ahead
<1>2. at \in Parts /\ cmd \in {"apply", "resume"}
  BY <1>1 DEF Control
<1>3. NumParts \in Nat /\ \A k \in Parts : k \in Nat /\ k <= NumParts /\ k \in 1..MaxParts
  BY <1>1, PartOrder, PartsOfItems
<1>4. Good(mem, StagedParts', hit)
  BY <1>2, MemGood DEF PartPoints
<1> QED BY <1>1, <1>2, <1>3, <1>4, HitKept, SoundStays

(* A failure of an apply or a resume.                                      *)
LEMMA FailsSafely ==
  ASSUME PublishedSafe, Process, pc \in PartPoints \cup {"validate"},
         NEW how \in {"fail", "rollback"}, NEW j,
         Good(j, StagedParts', hit), Fail(how, j),
         durable' = durable \/ Good(durable', StagedParts', hit)
  PROVE  PublishedLater'
<1>1. UNCHANGED <<op, hit>>
  BY HitKept
<1>2. Stop \/ (mem' = j /\ pc' = how)
  BY DEF Fail
<1>3. pc' \notin PartPoints \cup {"finish", "validate", "undo"}
  BY <1>2 DEF Stop, PartPoints
<1>4. JournalsSound'
  BY <1>2, <1>3, JournalsBy
<1>5. (pc' = "fail" => cmd' = "apply") /\ pc' # "unstage"
  <2>1. cmd \in {"apply", "resume"}
    BY DEF PublishedSafe, RecoverySafe, Ahead
  <2> QED BY <2>1 DEF Fail, Stop
<1> QED BY <1>1, <1>3, <1>4, <1>5, AtRest DEF PublishedLater

(* A failure while a part is staged or published: the staging file goes    *)
(* first.                                                                  *)
LEMMA FailStagedSafely ==
  ASSUME PublishedSafe, Process,
         pc \in {"stage", "rename", "publish_intent", "publish"}, NEW j \in Journal,
         Good(j, StagedParts', hit), FailStaged(j), j.remaining = mem.remaining,
         \A k \in Parts : k # at => Role(j, k) = Role(mem, k), Role(j, at) = "none",
         durable' = durable \/ (Good(durable', StagedParts', hit) /\ Role(durable', at) # "done")
  PROVE  PublishedLater'
<1>1. UNCHANGED <<op, hit>> /\ pc \in PartPoints /\ at \in Parts
  BY PartFacts DEF PartPoints
<1>2. CASE Stop
  <2>1. JournalsSound'
    BY <1>2, JournalsBy
  <2>2. pc' \notin PartPoints \cup {"finish", "validate", "fail", "unstage"}
    BY <1>2 DEF Stop, PartPoints
  <2> QED BY <1>1, <2>1, <2>2, AtRest DEF PublishedLater
<1>3. CASE mem' = j /\ Goto("discard", at)
  <2>1. pc' = "discard" /\ at' = at /\ cmd' = cmd
    BY <1>3 DEF Goto
  <2>2. JournalsSound'
    BY <1>3, <2>1, JournalsBy
  <2>3. Position'
    <3>1. Position /\ Working /\ pc \in PartPoints \ {"intent", "item_done"}
      BY <1>1 DEF PublishedSafe, Working, PartPoints
    <3>2. /\ \A k \in Parts : k < at => Role(mem, k) = "done"
          /\ ItemOf(at) \in mem.remaining /\ Role(durable, at) # "done"
          /\ cmd = "apply" =>
               \A k \in Parts : /\ k >= at => ItemOf(k) \in mem.remaining
                                /\ k < at /\ LastOfItem(k) => ItemOf(k) \notin mem.remaining
                                /\ k > at => Role(mem, k) = "none"
      BY <3>1 DEF Position
    <3>3. Parts \subseteq Nat
      BY DEF Parts
    <3>4. Role(durable', at) # "done"
      BY <3>2
    <3>5. /\ \A k \in Parts : k < at' => Role(mem', k) = "done"
          /\ ItemOf(at') \in mem'.remaining
          /\ cmd' = "apply" =>
               \A k \in Parts : /\ k >= at' => ItemOf(k) \in mem'.remaining
                                /\ k < at' /\ LastOfItem(k) => ItemOf(k) \notin mem'.remaining
                                /\ k > at' => Role(mem', k) = "none"
      BY <1>1, <1>3, <2>1, <3>2, <3>3
    <3>6. Role(mem', at') = "none" /\ Role(durable', at') # "done"
      BY <1>3, <2>1, <3>4
    <3> QED BY <1>1, <2>1, <3>5, <3>6, PositionAfter
  <2>4. DoneHolds'
    <3>1. \A k \in Parts : Role(mem', k) = "done" => Role(mem, k) = "done"
      BY <1>3
    <3> QED BY <1>1, <3>1, DoneHoldsBy
  <2>5. CurrentHolds'
    BY <1>1, <2>1, FilesAfterwards
  <2> QED BY <2>2, <2>3, <2>4, <2>5 DEF PublishedLater
<1> QED BY <1>2, <1>3 DEF FailStaged

(* A step at a part, from one place to the next.                           *)
LEMMA GoesOn ==
  ASSUME PublishedSafe, Process, pc \in PartPoints, NEW p \in PartPoints \ {"intent", "item_done"},
         pc' = p, UNCHANGED <<at, cmd>>, mem' \in Journal, Good(mem', StagedParts', hit),
         mem'.remaining = mem.remaining,
         ItemOf(at) \in mem.remaining,
         durable' = durable \/ Good(durable', StagedParts', hit), Role(durable', at) # "done",
         \A k \in Parts : k # at => Role(mem', k) = Role(mem, k), Role(mem', at) # "done",
         p \in {"stage", "rename", "discard", "publish_intent"} => Role(mem', at) = "none"
  PROVE  JournalsSound' /\ Position' /\ DoneHolds'
<1>1. UNCHANGED <<op, hit>> /\ at \in Parts /\ Parts \subseteq Nat
  BY PartFacts DEF Parts
<1>2. pc' = p /\ at' = at /\ cmd' = cmd
  OBVIOUS
<1>3. JournalsSound'
  BY <1>2, JournalsBy DEF PartPoints
<1>4. Position'
  <2>1. Position /\ Working
    BY DEF PublishedSafe, Working
  <2>2. /\ \A k \in Parts : k < at => Role(mem, k) = "done"
        /\ cmd = "apply" =>
             \A k \in Parts : /\ k >= at => ItemOf(k) \in mem.remaining
                              /\ k < at /\ LastOfItem(k) => ItemOf(k) \notin mem.remaining
                              /\ k > at => Role(mem, k) = "none"
    BY <2>1 DEF Position
  <2>3. /\ \A k \in Parts : k < at' => Role(mem', k) = "done"
        /\ ItemOf(at') \in mem'.remaining
        /\ cmd' = "apply" =>
             \A k \in Parts : /\ k >= at' => ItemOf(k) \in mem'.remaining
                              /\ k < at' /\ LastOfItem(k) => ItemOf(k) \notin mem'.remaining
                              /\ k > at' => Role(mem', k) = "none"
    BY <1>1, <1>2, <2>2
  <2>4. pc' \notin {"validate", "finish", "item_done", "intent", "fail", "unstage"}
    BY <1>2 DEF PartPoints
  <2> QED BY <1>1, <1>2, <2>3, <2>4, PositionAfter
<1>5. DoneHolds'
  <2>1. \A k \in Parts : Role(mem', k) = "done" => Role(mem, k) = "done"
    OBVIOUS
  <2> QED BY <2>1, DoneHoldsBy
<1> QED BY <1>3, <1>4, <1>5

(* What goes on at a part that is neither written to nor published.        *)
LEMMA NothingCurrent ==
  ASSUME UNCHANGED <<op, hit>>, pc' \notin {"rename", "publish_intent", "checkpoint"}
  PROVE  CurrentHolds'
BY FilesAfterwards

(* The steps of a staged part.                                             *)
LEMMA StageIntentSafe ==
  ASSUME PublishedSafe, StageIntent
  PROVE  PublishedLater'
<1>1. Process /\ pc = "intent" /\ pc \in PartPoints
  BY DEF Process, Staging, StageIntent, PartPoints
<1>2. /\ op \in Plan /\ UNCHANGED <<op, hit>> /\ at \in Parts /\ at \in 1..MaxParts
      /\ mem \in Journal /\ cmd \in {"apply", "resume"}
      /\ StagedParts' \subseteq Parts /\ Good(mem, StagedParts', hit)
  BY <1>1, PartFacts
<1>3. durable = mem
  BY <1>1 DEF PublishedSafe, RecoverySafe, Written
<1>4. Role(mem, at) = "none" /\ ItemOf(at) \in mem.remaining
  <2>1. CASE cmd = "apply"
    BY <1>1, <1>2, <2>1 DEF PublishedSafe, Position, Working, Parts
  <2>2. CASE cmd = "resume"
    <3>1. ItemOf(at) \in mem.remaining /\ mem.outputs[at].role \notin {"done", "pending"}
      BY <2>2 DEF StageIntent, MayRebuild, PendingIn
    <3>2. mem.outputs[at].role \in {"none", "pending", "done"}
      BY <1>2 DEF Journal, Output
    <3> QED BY <3>1, <3>2 DEF Role
  <2> QED BY <1>2, <2>1, <2>2
<1> DEFINE j == WithStaging(mem, at)
<1>5. /\ Good(j, StagedParts', hit) /\ j \in Journal
      /\ j.outputs = mem.outputs /\ j.remaining = mem.remaining
  BY <1>2, GoodAfter, NoJournalTyped, StagingRoles, JournalsTyped
<1>6. CASE durable' = j /\ mem' = j /\ Goto("stage", at)
  <2>1. /\ mem' \in Journal /\ Good(mem', StagedParts', hit) /\ mem'.remaining = mem.remaining
        /\ Good(durable', StagedParts', hit) /\ Role(durable', at) = "none"
        /\ \A k \in Parts : Role(mem', k) = Role(mem, k)
        /\ Role(mem', at) = "none"
    BY <1>2, <1>4, <1>5, <1>6 DEF Role
  <2>2. "stage" \in PartPoints \ {"intent", "item_done"}
    BY DEF PartPoints
  <2>3. JournalsSound' /\ Position' /\ DoneHolds'
    BY <1>1, <1>4, <1>6, <2>1, <2>2, GoesOn DEF Goto
  <2>4. CurrentHolds'
    BY <1>2, <1>6, NothingCurrent DEF Goto
  <2> QED BY <2>3, <2>4 DEF PublishedLater
<1>7. CASE UNCHANGED durable /\ Fail("rollback", mem)
  BY <1>1, <1>2, <1>7, FailsSafely
<1> QED BY <1>6, <1>7 DEF StageIntent, Put

LEMMA StageSafe ==
  ASSUME PublishedSafe, Stage
  PROVE  PublishedLater'
<1>1. Process /\ pc = "stage" /\ pc \in PartPoints
  BY DEF Process, Staging, Stage, PartPoints
<1>2. /\ op \in Plan /\ UNCHANGED <<op, hit>> /\ at \in Parts /\ at \in 1..MaxParts
      /\ mem \in Journal /\ fs \in [Path -> File]
      /\ StagedParts' \subseteq Parts /\ Good(mem, StagedParts', hit)
  BY <1>1, PartFacts
<1>3. Role(mem, at) = "none" /\ ItemOf(at) \in mem.remaining /\ Role(durable, at) # "done"
  BY <1>1 DEF PublishedSafe, Position, PartPoints
<1>4. UNCHANGED durable
  BY DEF Stage
<1>5. CASE UNCHANGED mem /\ \E p \in {"rename", "publish_intent"} : Goto(p, at)
  <2>1. PICK p \in {"rename", "publish_intent"} : Goto(p, at)
    BY <1>5
  <2>2. p \in PartPoints \ {"intent", "item_done"}
    BY DEF PartPoints
  <2>3. JournalsSound' /\ Position' /\ DoneHolds'
    BY <1>1, <1>2, <1>3, <1>4, <1>5, <2>1, <2>2, GoesOn DEF Goto
  <2>4. CurrentHolds'
    <3>1. CASE p = "rename"
      <4>1. pc' = "rename" /\ at' = at
        BY <2>1, <3>1 DEF Goto
      <4>2. op.kind = "copy" /\ Exists(Src(at)) /\ fs' = Copied(Src(at), Tmp(at))
        BY <4>1 DEF Stage, FailStaged, Stop, Goto
      <4>3. Src(at) = SourceOf(at) /\ Tmp(at) \in Path
        BY <1>2, <4>2, Places DEF SourceOf, IsBackup, ItemOf, Plan
      <4>4. Untouched(at) => fs'[Tmp(at)].data = ItemOf(at)
        BY <1>1, <4>2, <4>3, CopyHolds
      <4> QED BY <1>2, <4>1, <4>4, FilesAfterwards
    <3>2. CASE p = "publish_intent"
      <4>1. pc' = "publish_intent" /\ at' = at
        BY <2>1, <3>2 DEF Goto
      <4>2. Exists(SourceOf(at)) /\ fs' = Copied(SourceOf(at), Stg(at))
        BY <4>1 DEF Stage, FailStaged, Stop, Goto
      <4>3. Untouched(at) => fs'[Stg(at)].data = ItemOf(at)
        BY <1>1, <1>2, <4>2, CopyHolds, Places
      <4> QED BY <1>2, <4>1, <4>3, FilesAfterwards
    <3> QED BY <3>1, <3>2
  <2> QED BY <2>3, <2>4 DEF PublishedLater
<1>6. ASSUME NEW j \in {mem, WithoutStaging(mem, at)}, FailStaged(j)
      PROVE  PublishedLater'
  <2>1. /\ j \in Journal /\ Good(j, StagedParts', hit)
        /\ j.outputs = mem.outputs /\ j.remaining = mem.remaining
    BY <1>2, <1>3, <1>6, GoodAfter, NoJournalTyped, StagingRoles, JournalsTyped
  <2>2. (\A k \in Parts : k # at => Role(j, k) = Role(mem, k)) /\ Role(j, at) = "none"
    BY <1>3, <2>1 DEF Role
  <2> QED BY <1>1, <1>4, <1>6, <2>1, <2>2, FailStagedSafely
<1> QED BY <1>5, <1>6 DEF Stage

LEMMA StageRenameSafe ==
  ASSUME PublishedSafe, StageRename
  PROVE  PublishedLater'
<1>1. Process /\ pc = "rename" /\ pc \in PartPoints
  BY DEF Process, Staging, StageRename, PartPoints
<1>2. /\ op \in Plan /\ UNCHANGED <<op, hit>> /\ at \in Parts /\ at \in 1..MaxParts
      /\ mem \in Journal /\ StagedParts' \subseteq Parts /\ Good(mem, StagedParts', hit)
  BY <1>1, PartFacts
<1>3. Role(mem, at) = "none" /\ ItemOf(at) \in mem.remaining /\ Role(durable, at) # "done"
  BY <1>1 DEF PublishedSafe, Position, PartPoints
<1>4. UNCHANGED durable
  BY DEF StageRename
<1>5. CASE UNCHANGED mem /\ Goto("publish_intent", at)
  <2>1. "publish_intent" \in PartPoints \ {"intent", "item_done"}
    BY DEF PartPoints
  <2>2. JournalsSound' /\ Position' /\ DoneHolds'
    BY <1>1, <1>2, <1>3, <1>4, <1>5, <2>1, GoesOn DEF Goto
  <2>3. CurrentHolds'
    <3>1. pc' = "publish_intent" /\ at' = at
      BY <1>5 DEF Goto
    <3>2. fs' = Renamed(Tmp(at), Stg(at)) /\ fs \in [Path -> File]
      BY <3>1 DEF StageRename, FailStaged, Stop, Goto, PublishedSafe, RecoverySafe, ItemsSafe,
         TypeOK
    <3>3. fs'[Stg(at)] = fs[Tmp(at)]
      BY <1>2, <3>2, FilesAfter, Places, PlacesDiffer
    <3>4. Untouched(at) => fs[Tmp(at)].data = ItemOf(at)
      BY <1>1 DEF PublishedSafe, CurrentHolds
    <3> QED BY <1>2, <3>1, <3>3, <3>4, FilesAfterwards
  <2> QED BY <2>2, <2>3 DEF PublishedLater
<1>6. CASE FailStaged(WithoutStaging(mem, at))
  <2> DEFINE j == WithoutStaging(mem, at)
  <2>1. /\ j \in Journal /\ Good(j, StagedParts', hit)
        /\ j.outputs = mem.outputs /\ j.remaining = mem.remaining
    BY <1>2, <1>3, GoodAfter, NoJournalTyped, StagingRoles, JournalsTyped
  <2>2. (\A k \in Parts : k # at => Role(j, k) = Role(mem, k)) /\ Role(j, at) = "none"
    BY <1>3, <2>1 DEF Role
  <2> QED BY <1>1, <1>4, <1>6, <2>1, <2>2, FailStagedSafely
<1> QED BY <1>5, <1>6 DEF StageRename

LEMMA DiscardSafe ==
  ASSUME PublishedSafe, Discard
  PROVE  PublishedLater'
<1>1. Process /\ pc = "discard" /\ pc \in PartPoints
  BY DEF Process, Staging, Discard, PartPoints
<1>2. Good(mem, StagedParts', hit)
  BY <1>1, PartFacts
<1> QED BY <1>1, <1>2, FailsSafely DEF Discard

LEMMA PublishIntentSafe ==
  ASSUME PublishedSafe, PublishIntent
  PROVE  PublishedLater'
<1>1. Process /\ pc = "publish_intent" /\ pc \in PartPoints
  BY DEF Process, Staging, PublishIntent, PartPoints
<1>2. /\ op \in Plan /\ UNCHANGED <<op, hit>> /\ at \in Parts /\ at \in 1..MaxParts
      /\ mem \in Journal /\ fs \in [Path -> File]
      /\ StagedParts' \subseteq Parts /\ Good(mem, StagedParts', hit)
  BY <1>1, PartFacts
<1>3. Role(mem, at) = "none" /\ ItemOf(at) \in mem.remaining /\ Role(durable, at) # "done"
  BY <1>1 DEF PublishedSafe, Position, PartPoints
<1>4. at \in mem.staging
  BY <1>1 DEF PublishedSafe, RecoverySafe, Staged, StagedPoints
<1> DEFINE file == fs[Stg(at)]
           j == WithPending(mem, at, file)
<1>5. file \in File
  BY <1>2, Places
<1>6. ItemOf(at) \notin hit => file.data = ItemOf(at)
  BY <1>1 DEF PublishedSafe, CurrentHolds, Untouched
<1>7. \A l \in Parts : l < at => Role(mem, l) = "done"
  BY <1>1 DEF PublishedSafe, Position, Working
<1> HIDE DEF file
<1>8. /\ Good(j, StagedParts', hit) /\ j \in Journal
      /\ j.remaining = mem.remaining /\ Role(j, at) = "pending"
      /\ \A k \in Parts : k # at => Role(j, k) = Role(mem, k)
  <2>1. Good(j, StagedParts', hit)
    BY <1>2, <1>3, <1>4, <1>5, <1>6, <1>7, GoodAfter
  <2>2. Parts \subseteq 1..MaxParts
    BY <1>2, PartsOfItems
  <2> QED BY <1>2, <1>5, <2>1, <2>2, PendingRoles, JournalsTyped DEF Role
<1>9. CASE durable' = j /\ mem' = j /\ Goto("publish", at)
  <2>1. "publish" \in PartPoints \ {"intent", "item_done"}
    BY DEF PartPoints
  <2> HIDE DEF j
  <2>2. JournalsSound' /\ Position' /\ DoneHolds'
    BY <1>1, <1>3, <1>8, <1>9, <2>1, GoesOn DEF Goto
  <2>3. CurrentHolds'
    BY <1>2, <1>9, NothingCurrent DEF Goto
  <2> QED BY <2>2, <2>3 DEF PublishedLater
<1>10. ASSUME NEW i \in {mem, WithoutStaging(mem, at)}, UNCHANGED durable, FailStaged(i)
       PROVE  PublishedLater'
  <2>1. /\ i \in Journal /\ Good(i, StagedParts', hit)
        /\ i.outputs = mem.outputs /\ i.remaining = mem.remaining
    BY <1>2, <1>3, GoodAfter, NoJournalTyped, StagingRoles, JournalsTyped
  <2>2. (\A k \in Parts : k # at => Role(i, k) = Role(mem, k)) /\ Role(i, at) = "none"
    BY <1>3, <2>1 DEF Role
  <2> QED BY <1>1, <1>10, <2>1, <2>2, FailStagedSafely
<1> QED BY <1>9, <1>10 DEF PublishIntent, Put, file

(* A staged file of an untouched item that gets its place is the item.     *)
LEMMA PublishedHolds ==
  ASSUME PublishedSafe, UNCHANGED <<op, hit>>, at \in Parts,
         fs' = Renamed(Stg(at), Dst(at)), pc' = "checkpoint", at' = at
  PROVE  CurrentHolds'
<1>1. op \in Plan /\ fs \in [Path -> File] /\ at \in 1..MaxParts /\ StagedHolds
  BY PartsOfItems DEF PublishedSafe, RecoverySafe, ItemsSafe, TypeOK
<1>2. fs'[Dst(at)] = fs[Stg(at)] /\ fs'[Stg(at)] = NoFile
  BY <1>1, FilesAfter, Places, PlacesDiffer
<1>3. at \notin StagedParts'
  <2>1. fs'[Stg(at)].id = 0
    BY <1>2 DEF NoFile
  <2> QED BY <2>1 DEF StagedParts, Exists, Stg
<1>4. Untouched(at) /\ fs'[Dst(at)].id # 0 => fs'[Dst(at)].data = ItemOf(at)
  BY <1>1, <1>2 DEF StagedHolds, StagedParts, Exists
<1> QED BY <1>3, <1>4, FilesAfterwards

LEMMA PublishSafe ==
  ASSUME PublishedSafe, Publish
  PROVE  PublishedLater'
<1>1. Process /\ pc = "publish" /\ pc \in PartPoints
  BY DEF Process, Staging, Publish, PartPoints
<1>2. /\ op \in Plan /\ UNCHANGED <<op, hit>> /\ at \in Parts /\ at \in 1..MaxParts
      /\ mem \in Journal /\ Parts \subseteq 1..MaxParts
      /\ StagedParts' \subseteq Parts /\ Good(mem, StagedParts', hit)
  BY <1>1, PartFacts, PartsOfItems
<1>3. Role(mem, at) # "done" /\ ItemOf(at) \in mem.remaining /\ Role(durable, at) # "done"
  BY <1>1 DEF PublishedSafe, Position, PartPoints
<1>4. UNCHANGED durable
  BY DEF Publish
<1> DEFINE j == Published(mem, at)
<1>5. /\ j \in Journal /\ Good(j, StagedParts', hit) /\ j.remaining = mem.remaining
      /\ Role(j, at) = "none"
      /\ \A k \in Parts : k # at => Role(j, k) = Role(mem, k)
  <2>1. j \in Journal
    <3>1. WithoutOutput(mem, at) \in Journal
      BY <1>2, NoJournalTyped, JournalsTyped
    <3> QED BY <1>2, <3>1, NoJournalTyped, JournalsTyped DEF Published
  <2>2. Good(j, StagedParts', hit)
    BY <1>2, <1>3, GoodAfter, NoJournalTyped
  <2>3. j.outputs = WithoutOutput(mem, at).outputs /\ j.remaining = mem.remaining
    BY <1>2, OutputRoles
  <2>4. /\ WithoutOutput(mem, at).outputs[at] = NoOutput
        /\ \A p \in 1..MaxParts : p # at => WithoutOutput(mem, at).outputs[p] = mem.outputs[p]
    BY <1>2, OutputRoles
  <2> QED BY <1>2, <2>1, <2>2, <2>3, <2>4 DEF Role, NoOutput
<1> HIDE DEF j
<1>6. CASE UNCHANGED proc
  <2>1. pc' = "publish" /\ UNCHANGED <<mem, at, cmd>>
    BY <1>1, <1>6 DEF proc
  <2>2. "publish" \in PartPoints \ {"intent", "item_done"}
    BY DEF PartPoints
  <2>3. JournalsSound' /\ Position' /\ DoneHolds'
    BY <1>1, <1>2, <1>3, <1>4, <2>1, <2>2, GoesOn
  <2> QED BY <1>2, <2>1, <2>3, NothingCurrent DEF PublishedLater
<1>7. CASE fs' = Renamed(Stg(at), Dst(at)) /\ mem' = j /\ Goto("checkpoint", at)
  <2>1. "checkpoint" \in PartPoints \ {"intent", "item_done"}
    BY DEF PartPoints
  <2>2. JournalsSound' /\ Position' /\ DoneHolds'
    BY <1>1, <1>3, <1>4, <1>5, <1>7, <2>1, GoesOn DEF Goto
  <2>3. CurrentHolds'
    BY <1>2, <1>7, PublishedHolds DEF Goto
  <2> QED BY <2>2, <2>3 DEF PublishedLater
<1>8. CASE FailStaged(j)
  BY <1>1, <1>4, <1>5, <1>8, FailStagedSafely
<1> QED BY <1>6, <1>7, <1>8 DEF Publish, j

(* The steps of a moved part.                                              *)
LEMMA MoveIntentSafe ==
  ASSUME PublishedSafe, MoveIntent
  PROVE  PublishedLater'
<1>1. Process /\ pc = "intent" /\ pc \in PartPoints /\ Moving /\ cmd = "apply"
  BY DEF Process, Apply, MoveIntent, PartPoints
<1>2. /\ op \in Plan /\ UNCHANGED <<op, hit>> /\ at \in Parts /\ at \in 1..MaxParts
      /\ mem \in Journal /\ Parts \subseteq 1..MaxParts
      /\ StagedParts' \subseteq Parts /\ Good(mem, StagedParts', hit)
  BY <1>1, PartFacts, PartsOfItems
<1>3. Role(mem, at) = "none" /\ ItemOf(at) \in mem.remaining
  BY <1>1, <1>2 DEF PublishedSafe, Position, Working, Parts
<1>4. \A l \in Parts : l < at => Role(mem, l) = "done"
  BY <1>1 DEF PublishedSafe, Position, Working
<1> DEFINE j == WithPending(mem, at, PlannedSource(at))
<1>5. /\ Good(j, StagedParts', hit) /\ j \in Journal
      /\ j.remaining = mem.remaining /\ Role(j, at) = "pending"
      /\ \A k \in Parts : k # at => Role(j, k) = Role(mem, k)
  <2>1. op.kind # "compress" /\ ItemOf(at) = at /\ at \in Items
    <3>1. op.kind # "compress"
      BY <1>1 DEF Moving
    <3> QED BY <1>2, <3>1, PartOrder
  <2>2. PlannedSource(at) \in File /\ PlannedSource(at).data = ItemOf(at)
    <3>1. PlannedSource(at) \in File
      BY <2>1, PlannedTyped
    <3> QED BY <2>1, <3>1 DEF PlannedSource
  <2>3. Good(j, StagedParts', hit)
    BY <1>1, <1>2, <1>3, <1>4, <2>2, GoodAfter
  <2> QED BY <1>2, <2>2, <2>3, PendingRoles, JournalsTyped DEF Role
<1> HIDE DEF j
<1>6. CASE durable' = j /\ mem' = j /\ Goto("move", at)
  <2>1. "move" \in PartPoints \ {"intent", "item_done"}
    BY DEF PartPoints
  <2>2. JournalsSound' /\ Position' /\ DoneHolds'
    BY <1>1, <1>3, <1>5, <1>6, <2>1, GoesOn DEF Goto
  <2>3. CurrentHolds'
    BY <1>2, <1>6, NothingCurrent DEF Goto
  <2> QED BY <2>2, <2>3 DEF PublishedLater
<1>7. CASE UNCHANGED durable /\ (Fail("fail", j) \/ Fail("rollback", mem))
  BY <1>1, <1>2, <1>5, <1>7, FailsSafely
<1> QED BY <1>6, <1>7 DEF MoveIntent, Put, j

(* An untouched item whose source is gone has been moved to its output.    *)
LEMMA MovedHolds ==
  ASSUME PublishedSafe, Process, Moving, at \in Parts,
         fs'[Src(at)].id = 0, pc' = "checkpoint", at' = at
  PROVE  CurrentHolds'
<1>1. op \in Plan /\ ItemsSafe /\ op.kind # "compress"
  BY DEF PublishedSafe, RecoverySafe, ItemsSafe, TypeOK, Moving
<1>2. at \in Items /\ ItemOf(at) = at
  BY <1>1, PartOrder
<1>3. ItemsSafe' /\ UNCHANGED <<op, hit>>
  BY <1>1, ItemsSafeStep, HitKept DEF Next
<1>4. at \notin hit => fs'[Dst(at)].data = at
  BY <1>2, <1>3 DEF ItemsSafe, Kept, Exists, Src, Dst
<1>5. at \notin StagedParts'
  <2>1. StagedHolds'
    BY StagedHoldsBy
  <2> QED BY <1>3, <2>1, FilesAfterwards
<1> QED BY <1>2, <1>3, <1>4, <1>5, FilesAfterwards DEF Untouched

LEMMA MoveSafe ==
  ASSUME PublishedSafe, Move
  PROVE  PublishedLater'
<1>1. Process /\ pc = "move" /\ pc \in PartPoints
  BY DEF Process, Move, PartPoints
<1>2. /\ op \in Plan /\ UNCHANGED <<op, hit>> /\ at \in Parts /\ at \in 1..MaxParts
      /\ mem \in Journal /\ fs \in [Path -> File] /\ Parts \subseteq 1..MaxParts
      /\ StagedParts' \subseteq Parts /\ Good(mem, StagedParts', hit)
  BY <1>1, PartFacts, PartsOfItems
<1>3. Role(mem, at) # "done" /\ ItemOf(at) \in mem.remaining /\ Role(durable, at) # "done"
  BY <1>1 DEF PublishedSafe, Position, PartPoints
<1>4. Moving /\ at \in Items
  <2>1. Moving
    BY <1>1 DEF PublishedSafe, RecoverySafe, ItemsSafe, Control
  <2> QED BY <1>2, <2>1, PartsOfItems
<1> DEFINE j == WithoutOutput(mem, at)
<1>5. /\ j \in Journal /\ Good(j, StagedParts', hit) /\ j.remaining = mem.remaining
      /\ Role(j, at) = "none"
      /\ \A k \in Parts : k # at => Role(j, k) = Role(mem, k)
  <2>1. j \in Journal
    BY <1>2, NoJournalTyped, JournalsTyped
  <2>2. Good(j, StagedParts', hit)
    BY <1>2, <1>3, GoodAfter, NoJournalTyped
  <2>3. /\ j.outputs[at] = NoOutput /\ j.remaining = mem.remaining
        /\ \A p \in 1..MaxParts : p # at => j.outputs[p] = mem.outputs[p]
    BY <1>2, OutputRoles
  <2> QED BY <1>2, <2>1, <2>2, <2>3 DEF Role, NoOutput
<1> HIDE DEF j
<1>6. UNCHANGED durable
  BY DEF Move, MoveOne
<1>7. CASE UNCHANGED <<mem, cmd, pc, at>>
  <2>1. "move" \in PartPoints \ {"intent", "item_done"}
    BY DEF PartPoints
  <2>2. JournalsSound' /\ Position' /\ DoneHolds'
    BY <1>1, <1>2, <1>3, <1>6, <1>7, <2>1, GoesOn
  <2> QED BY <1>1, <1>2, <1>7, <2>2, NothingCurrent DEF PublishedLater
<1>8. CASE /\ fs' \in {Renamed(Src(at), Dst(at)), Removed(Src(at))}
           /\ mem' = j /\ pc' = "checkpoint" /\ UNCHANGED <<cmd, at>>
  <2>1. "checkpoint" \in PartPoints \ {"intent", "item_done"}
    BY DEF PartPoints
  <2>2. JournalsSound' /\ Position' /\ DoneHolds'
    BY <1>1, <1>3, <1>5, <1>6, <1>8, <2>1, GoesOn
  <2>3. fs'[Src(at)] = NoFile
    <3>1. Src(at) \in Path /\ Dst(at) \in Path /\ Src(at) # Dst(at)
      BY <1>2, <1>4, Places, PlacesDiffer
    <3> QED BY <1>2, <1>8, <3>1 DEF Renamed, Removed
  <2>4. CurrentHolds'
    BY <1>1, <1>2, <1>4, <1>8, <2>3, MovedHolds DEF NoFile
  <2> QED BY <2>2, <2>4 DEF PublishedLater
<1>9. CASE Fail("rollback", j)
  BY <1>1, <1>5, <1>6, <1>9, FailsSafely
<1> QED BY <1>7, <1>8, <1>9 DEF Move, MoveOne, proc, j

(* The start of an apply: its journal lists nothing and has everything to  *)
(* do.                                                                     *)
LEMMA ApplyStartSafe ==
  ASSUME PublishedSafe, ApplyStart
  PROVE  PublishedLater'
<1>1. Process /\ pc = "planned" /\ UNCHANGED <<op, hit>>
  BY HitKept DEF Process, Apply, ApplyStart, besides
<1>2. op \in Plan /\ StagedParts' \subseteq Parts /\ Parts \subseteq 1..MaxParts
  BY <1>1, SoundStays, PartsOfItems DEF PublishedSafe, RecoverySafe, ItemsSafe, TypeOK
<1> DEFINE j == [NoJournal EXCEPT !.status = "in_progress", !.undo_safe = UndoSafe,
                                  !.remaining = Items]
<1>3. j.status = "in_progress" /\ j.remaining = Items /\ \A k \in Parts : Role(j, k) = "none"
  <2>1. j.status = "in_progress" /\ j.remaining = Items /\ j.outputs = NoJournal.outputs
    BY DEF NoJournal
  <2> QED BY <1>2, <2>1 DEF Role, NoJournal, NoOutput
<1> HIDE DEF j
<1>4. Good(j, StagedParts', hit)
  <2>1. \A k \in Parts : ItemOf(k) \in Items
    BY <1>2, PartsOfItems
  <2> QED BY <1>2, <1>3, <2>1 DEF Good, Sound, InOrder, LeftToDo, PendingStaged, PendingIn, Role
<1>5. CASE durable' = j /\ mem' = j /\ Goto("validate", 0)
  <2>1. pc' = "validate"
    BY <1>5 DEF Goto
  <2>2. JournalsSound'
    BY <1>1, <1>4, <1>5, <2>1, JournalsBy
  <2>3. Position'
    BY <1>1, <1>3, <1>5, <2>1, PositionAfter DEF PartPoints
  <2>4. DoneHolds' /\ CurrentHolds'
    BY <1>1, <2>1, FilesAfterwards DEF PartPoints
  <2> QED BY <2>2, <2>3, <2>4 DEF PublishedLater
<1>6. CASE (durable' = j \/ UNCHANGED durable) /\ Stop
  <2>1. JournalsSound'
    BY <1>1, <1>4, <1>6, JournalsBy
  <2>2. pc' = "idle"
    BY <1>6 DEF Stop
  <2> QED BY <1>1, <2>1, <2>2, AtRest DEF PublishedLater, PartPoints
<1> QED BY <1>5, <1>6 DEF ApplyStart, Put, j

LEMMA ValidateSafe ==
  ASSUME PublishedSafe, Validate
  PROVE  PublishedLater'
<1>1. Process /\ pc = "validate" /\ UNCHANGED <<op, hit, durable, fs>>
  BY DEF Process, Apply, Validate, store, besides
<1>2. op \in Plan /\ cmd = "apply"
  BY <1>1 DEF PublishedSafe, RecoverySafe, ItemsSafe, TypeOK, Ahead
<1>3. Good(mem, StagedParts', hit)
  BY <1>1, <1>2, MemGood
<1>4. mem.remaining = Items /\ \A k \in Parts : Role(mem, k) = "none"
  BY <1>1 DEF PublishedSafe, Position
<1>5. CASE Goto("intent", 1) /\ UNCHANGED mem
  <2>1. pc' = "intent" /\ at' = 1 /\ cmd' = cmd /\ mem' = mem
    BY <1>5 DEF Goto
  <2>2. JournalsSound'
    BY <1>1, <1>3, <2>1, JournalsBy
  <2>3. 1 \in Parts /\ \A k \in Parts : k \in Nat /\ k >= 1 /\ ItemOf(k) \in Items
    <3>1. NumParts \in Nat \ {0}
      BY <1>2, JournalAssumption DEF NumParts
    <3> QED BY <1>2, <3>1, PartsOfItems DEF Parts
  <2>4. Position'
    BY <1>1, <1>4, <2>1, <2>3, PositionAfter
  <2>5. DoneHolds' /\ CurrentHolds'
    BY <1>1, <1>4, <2>1, FilesAfterwards
  <2> QED BY <2>2, <2>4, <2>5 DEF PublishedLater
<1>6. CASE Fail("fail", mem)
  BY <1>1, <1>3, <1>6, FailsSafely
<1> QED BY <1>5, <1>6 DEF Validate

LEMMA NotYetNext == \A m, n \in Nat : m < n + 1 /\ m # n => m < n
OBVIOUS

(* The next part, or the end.                                              *)
LEMMA ArrivesSafely ==
  ASSUME PublishedSafe, Process, pc \in PartPoints, Goto(Loop(at + 1), at + 1),
         Good(mem', StagedParts', hit),
         durable' = durable \/ Good(durable', StagedParts', hit),
         \A k \in Parts : k # at => Role(mem', k) = Role(mem, k), Role(mem', at) = "done",
         Role(mem, at) = "done" \/ (Untouched(at) => fs'[Dst(at)].data = ItemOf(at)),
         cmd = "apply" =>
           \A k \in Parts : /\ k > at => ItemOf(k) \in mem'.remaining
                            /\ k <= at /\ LastOfItem(k) => ItemOf(k) \notin mem'.remaining
  PROVE  PublishedLater'
<1>1. /\ UNCHANGED <<op, hit>> /\ at \in Parts /\ at \in Nat /\ NumParts \in Nat
      /\ \A k \in Parts : k \in Nat /\ k <= NumParts
  BY PartFacts
<1>2. pc' = Loop(at + 1) /\ at' = at + 1 /\ cmd' = cmd /\ pc' \in {"intent", "finish"}
  BY DEF Goto, Loop
<1>3. JournalsSound'
  BY <1>2, JournalsBy
<1>4. \A k \in Parts : k < at => Role(mem, k) = "done"
  BY DEF PublishedSafe, Position, Working
<1>5. cmd = "apply" => \A k \in Parts : k > at => Role(mem, k) = "none"
  BY DEF PublishedSafe, Position, Working
<1>6. /\ pc' = "finish" => at' = NumParts + 1
      /\ pc' = "intent" => at' \in Parts
  <2>1. at + 1 <= NumParts => at + 1 \in Parts
    BY <1>1 DEF Parts
  <2> QED BY <1>1, <1>2, <2>1 DEF Loop
<1>7. Position'
  <2>1. \A k \in Parts : k < at' => Role(mem', k) = "done"
    <3>1. SUFFICES ASSUME NEW k \in Parts, k < at + 1, k # at PROVE Role(mem, k) = "done"
      BY <1>2
    <3>2. k \in Nat /\ at \in Nat
      BY <1>1
    <3>3. k < at
      BY <3>1, <3>2, NotYetNext
    <3> QED BY <1>4, <3>3
  <2>2. cmd' = "apply" =>
          \A k \in Parts : /\ k >= at' => ItemOf(k) \in mem'.remaining
                           /\ k < at' /\ LastOfItem(k) => ItemOf(k) \notin mem'.remaining
                           /\ k > at' => Role(mem', k) = "none"
    <3>1. SUFFICES ASSUME cmd = "apply", NEW k \in Parts
                   PROVE  /\ k >= at + 1 => ItemOf(k) \in mem'.remaining
                          /\ k < at + 1 /\ LastOfItem(k) => ItemOf(k) \notin mem'.remaining
                          /\ k > at + 1 => Role(mem', k) = "none"
      BY <1>2
    <3>2. k \in Nat /\ (k >= at + 1 => k > at) /\ (k < at + 1 => k <= at)
          /\ (k > at + 1 => k > at /\ k # at)
      BY <1>1
    <3>3. k > at => ItemOf(k) \in mem'.remaining /\ Role(mem, k) = "none"
      BY <1>5, <3>1
    <3>4. k <= at /\ LastOfItem(k) => ItemOf(k) \notin mem'.remaining
      BY <3>1
    <3> QED BY <3>2, <3>3, <3>4
  <2>3. cmd' = "apply" /\ pc' = "intent" => Role(mem', at') = "none"
    BY <1>1, <1>2, <1>5, <1>6
  <2> QED BY <1>1, <1>2, <1>6, <2>1, <2>2, <2>3, PositionAfter DEF PartPoints
<1>8. DoneHolds'
  <2>1. \A k \in Parts : Role(mem', k) = "done" =>
          \/ Role(mem, k) = "done"
          \/ Untouched(k) => fs'[Dst(k)].data = ItemOf(k)
    OBVIOUS
  <2> QED BY <2>1, DoneHoldsBy
<1>9. CurrentHolds'
  BY <1>1, <1>2, NothingCurrent
<1> QED BY <1>3, <1>7, <1>8, <1>9 DEF PublishedLater

(* ... or, in an archive, the end of an item.                              *)
LEMMA EndsItemSafely ==
  ASSUME PublishedSafe, Process, pc \in PartPoints, Goto("item_done", at),
         op.kind = "compress", LastOfItem(at),
         Good(mem', StagedParts', hit), mem'.remaining = mem.remaining,
         ItemOf(at) \in mem.remaining,
         durable' = durable \/ Good(durable', StagedParts', hit),
         \A k \in Parts : k # at => Role(mem', k) = Role(mem, k), Role(mem', at) = "done",
         Role(mem, at) = "done" \/ (Untouched(at) => fs'[Dst(at)].data = ItemOf(at))
  PROVE  PublishedLater'
<1>1. /\ UNCHANGED <<op, hit>> /\ at \in Parts /\ at \in Nat /\ NumParts \in Nat
      /\ \A k \in Parts : k \in Nat /\ k <= NumParts
  BY PartFacts
<1>2. pc' = "item_done" /\ at' = at /\ cmd' = cmd
  BY DEF Goto
<1>3. JournalsSound'
  BY <1>2, JournalsBy
<1>4. /\ \A k \in Parts : k < at => Role(mem, k) = "done"
      /\ cmd = "apply" =>
           \A k \in Parts : /\ k >= at => ItemOf(k) \in mem.remaining
                            /\ k < at /\ LastOfItem(k) => ItemOf(k) \notin mem.remaining
                            /\ k > at => Role(mem, k) = "none"
  BY DEF PublishedSafe, Position, Working
<1>5. Position'
  <2>1. /\ \A k \in Parts : k < at' => Role(mem', k) = "done"
        /\ cmd' = "apply" =>
             \A k \in Parts : /\ k >= at' => ItemOf(k) \in mem'.remaining
                              /\ k < at' /\ LastOfItem(k) => ItemOf(k) \notin mem'.remaining
                              /\ k > at' => Role(mem', k) = "none"
    BY <1>1, <1>2, <1>4
  <2> QED BY <1>1, <1>2, <2>1, PositionAfter
<1>6. DoneHolds'
  <2>1. \A k \in Parts : Role(mem', k) = "done" =>
          \/ Role(mem, k) = "done"
          \/ Untouched(k) => fs'[Dst(k)].data = ItemOf(k)
    OBVIOUS
  <2> QED BY <2>1, DoneHoldsBy
<1>7. CurrentHolds'
  BY <1>1, <1>2, NothingCurrent
<1> QED BY <1>3, <1>5, <1>6, <1>7 DEF PublishedLater

(* A checkpoint: the file it finds at the output is the one just published *)
(* or moved there.                                                         *)
LEMMA CheckpointSafe ==
  ASSUME PublishedSafe, Checkpoint
  PROVE  PublishedLater'
<1>1. Process /\ pc = "checkpoint" /\ pc \in PartPoints /\ UNCHANGED fs
  BY DEF Process, Checkpoint, PartPoints
<1>2. /\ op \in Plan /\ UNCHANGED <<op, hit>> /\ at \in Parts /\ at \in 1..MaxParts
      /\ at \in Nat /\ \A k \in Parts : k \in Nat
      /\ mem \in Journal /\ fs \in [Path -> File] /\ Parts \subseteq 1..MaxParts
      /\ StagedParts' \subseteq Parts /\ Good(mem, StagedParts', hit)
  BY <1>1, PartFacts, PartsOfItems
<1>3. Role(mem, at) # "done" /\ ItemOf(at) \in mem.remaining
  BY <1>1 DEF PublishedSafe, Position, PartPoints
<1> DEFINE file == fs[Dst(at)]
           j == WithDone(mem, at, file)
           how == IF op.kind = "compress" THEN "rollback" ELSE "fail"
<1>4. CASE Exists(Dst(at))
  <2>1. file \in File
    BY <1>2, Places
  <2>2. /\ ItemOf(at) \notin hit => file.data = ItemOf(at)
        /\ at \notin StagedParts'
    <3>1. StagedParts' = StagedParts
      <4>1. Parts' = Parts
        BY <1>2 DEF Parts, NumParts
      <4> QED BY <1>1, <4>1 DEF StagedParts, Exists, Stg
    <3> QED BY <1>1, <1>4, <3>1 DEF PublishedSafe, CurrentHolds, Untouched
  <2>3. Untouched(at) => fs'[Dst(at)].data = ItemOf(at)
    BY <1>1, <2>2 DEF Untouched
  <2> HIDE DEF file
  <2>4. \A l \in Parts : l < at => Role(mem, l) = "done"
    BY <1>1 DEF PublishedSafe, Position, Working
  <2>5. Good(j, StagedParts', hit)
    BY <1>2, <1>3, <2>1, <2>2, <2>4, GoodAfter
  <2>6. Role(j, at) = "done" /\ \A k \in Parts : k # at => Role(j, k) = Role(mem, k)
    <3>1. j.outputs[at].role = "done"
      BY <1>2, <2>1, DoneRoles
    <3>2. \A k \in 1..MaxParts : k # at => j.outputs[k] = mem.outputs[k]
      BY <1>2, <2>1, DoneRoles
    <3> QED BY <1>2, <3>1, <3>2 DEF Role
  <2>7. j.remaining = IF op.kind = "compress" THEN mem.remaining ELSE mem.remaining \ {ItemOf(at)}
    BY <1>2, <2>1, DoneRemaining
  <2> HIDE DEF j
  <2>8. CASE durable' = j /\ mem' = j /\ AfterCheckpoint(at)
    <3>1. CASE op.kind = "compress" /\ LastOfItem(at)
      <4>1. Goto("item_done", at)
        BY <2>8, <3>1 DEF AfterCheckpoint
      <4>2. mem'.remaining = mem.remaining
        BY <2>7, <2>8, <3>1
      <4> QED BY <1>1, <1>3, <2>3, <2>5, <2>6, <2>8, <3>1, <4>1, <4>2, EndsItemSafely
    <3>2. CASE ~(op.kind = "compress" /\ LastOfItem(at))
      <4>1. Goto(Loop(at + 1), at + 1)
        BY <2>8, <3>2 DEF AfterCheckpoint
      <4>2. cmd = "apply" =>
              \A k \in Parts : /\ k > at => ItemOf(k) \in mem'.remaining
                               /\ k <= at /\ LastOfItem(k) => ItemOf(k) \notin mem'.remaining
        <5>1. cmd = "apply" =>
                \A k \in Parts : /\ k >= at => ItemOf(k) \in mem.remaining
                                 /\ k < at /\ LastOfItem(k) => ItemOf(k) \notin mem.remaining
          BY <1>1 DEF PublishedSafe, Position, Working
        <5>2. CASE op.kind = "compress"
          <6>1. ~LastOfItem(at) /\ mem'.remaining = mem.remaining
            BY <2>7, <2>8, <3>2, <5>2
          <6>2. SUFFICES ASSUME cmd = "apply", NEW k \in Parts
                         PROVE  /\ k > at => ItemOf(k) \in mem.remaining
                                /\ k <= at /\ LastOfItem(k) => ItemOf(k) \notin mem.remaining
            BY <6>1
          <6>3. k \in Nat /\ (k > at => k >= at) /\ (k <= at => k < at \/ k = at)
            BY <1>2
          <6>4. k >= at => ItemOf(k) \in mem.remaining
            BY <5>1, <6>2
          <6>5. k < at /\ LastOfItem(k) => ItemOf(k) \notin mem.remaining
            BY <5>1, <6>2
          <6> QED BY <6>1, <6>3, <6>4, <6>5
        <5>3. CASE op.kind # "compress"
          <6>1. \A k \in Parts : ItemOf(k) = k
            BY <1>2, <5>3, PartOrder
          <6>2. mem'.remaining = mem.remaining \ {ItemOf(at)}
            BY <2>7, <2>8, <5>3
          <6>3. SUFFICES ASSUME cmd = "apply", NEW k \in Parts
                         PROVE  /\ k > at => ItemOf(k) \in mem.remaining \ {ItemOf(at)}
                                /\ k <= at /\ LastOfItem(k) =>
                                     ItemOf(k) \notin mem.remaining \ {ItemOf(at)}
            BY <6>2
          <6>4. /\ k \in Nat /\ ItemOf(k) = k /\ ItemOf(at) = at
                /\ (k > at => k >= at /\ k # at) /\ (k <= at => k < at \/ k = at)
            BY <1>2, <6>1
          <6>5. k >= at => ItemOf(k) \in mem.remaining
            BY <5>1, <6>3
          <6>6. k < at /\ LastOfItem(k) => ItemOf(k) \notin mem.remaining
            BY <5>1, <6>3
          <6> QED BY <6>4, <6>5, <6>6
        <5> QED BY <5>2, <5>3
      <4> QED BY <1>1, <2>3, <2>5, <2>6, <2>8, <4>1, <4>2, ArrivesSafely
    <3> QED BY <3>1, <3>2
  <2>9. CASE UNCHANGED durable /\ Fail(how, j)
    <3>1. how \in {"fail", "rollback"}
      OBVIOUS
    <3> QED BY <1>1, <2>5, <2>9, <3>1, FailsSafely
  <2> QED BY <1>4, <2>8, <2>9 DEF Checkpoint, Put, j, file
<1>5. CASE ~Exists(Dst(at))
  <2>1. UNCHANGED durable /\ Fail(how, mem)
    BY <1>5 DEF Checkpoint
  <2>2. how \in {"fail", "rollback"}
    OBVIOUS
  <2> QED BY <1>1, <1>2, <2>1, <2>2, FailsSafely
<1> QED BY <1>4, <1>5

(* A journal that lists the same outputs.                                  *)
LEMMA GoodItem ==
  ASSUME NEW j \in Journal, NEW S, NEW h, Good(j, S, h), NEW k,
         \A p \in Parts : ItemOf(p) = ItemOf(k) => Role(j, p) = "done"
  PROVE  Good([j EXCEPT !.remaining = @ \ {ItemOf(k)}], S, h)
<1> DEFINE i == [j EXCEPT !.remaining = @ \ {ItemOf(k)}]
<1>1. /\ i.status = j.status /\ i.outputs = j.outputs /\ i.staging = j.staging
      /\ i.remaining = j.remaining \ {ItemOf(k)}
  BY DEF Journal
<1> HIDE DEF i
<1>2. Sound(i, S, h)
  BY <1>1, SoundItem DEF Good
<1>3. PendingStaged(i)
  BY <1>1 DEF Good, PendingStaged, PendingIn
<1>4. i.status \notin {"none", "applied"}
  BY <1>1 DEF Good
<1>5. Good(i, S, h)
  BY <1>2, <1>3, <1>4 DEF Good
<1> QED BY <1>5 DEF i

(* The end of an item in an archive: its parts are all done.               *)
LEMMA ItemDoneSafe ==
  ASSUME PublishedSafe, ItemDone
  PROVE  PublishedLater'
<1>1. Process /\ pc = "item_done" /\ pc \in PartPoints
  BY DEF Process, ItemDone, PartPoints
<1>2. /\ op \in Plan /\ UNCHANGED <<op, hit>> /\ at \in Parts
      /\ at \in Nat /\ \A k \in Parts : k \in Nat
      /\ mem \in Journal /\ Good(mem, StagedParts', hit)
  BY <1>1, PartFacts
<1>3. Role(mem, at) = "done" /\ LastOfItem(at)
  BY <1>1 DEF PublishedSafe, Position
<1>4. \A k \in Parts : k < at => Role(mem, k) = "done"
  BY <1>1 DEF PublishedSafe, Position, Working
<1>5. \A k \in Parts : ItemOf(k) = ItemOf(at) => k <= at
  BY <1>2, <1>3, PartOrder
<1> DEFINE j == [mem EXCEPT !.remaining = @ \ {ItemOf(at)}]
<1>6. Good(j, StagedParts', hit)
  <2>1. \A p \in Parts : ItemOf(p) = ItemOf(at) => Role(mem, p) = "done"
    BY <1>2, <1>3, <1>4, <1>5
  <2> QED BY <1>2, <2>1, GoodItem
<1>7. j.outputs = mem.outputs /\ j.remaining = mem.remaining \ {ItemOf(at)}
  BY <1>2 DEF Journal
<1> HIDE DEF j
<1>8. CASE durable' = j /\ mem' = j /\ Goto(Loop(at + 1), at + 1)
  <2>1. \A k \in Parts : Role(mem', k) = Role(mem, k)
    BY <1>7, <1>8 DEF Role
  <2>2. cmd = "apply" =>
          \A k \in Parts : /\ k > at => ItemOf(k) \in mem'.remaining
                           /\ k <= at /\ LastOfItem(k) => ItemOf(k) \notin mem'.remaining
    <3>1. SUFFICES ASSUME cmd = "apply", NEW k \in Parts
                   PROVE  /\ k > at => ItemOf(k) \in mem.remaining \ {ItemOf(at)}
                          /\ k <= at /\ LastOfItem(k) =>
                               ItemOf(k) \notin mem.remaining \ {ItemOf(at)}
      BY <1>7, <1>8
    <3>2. /\ k >= at => ItemOf(k) \in mem.remaining
          /\ k < at /\ LastOfItem(k) => ItemOf(k) \notin mem.remaining
      BY <1>1, <3>1 DEF PublishedSafe, Position, Working
    <3>3. k \in Nat /\ (k > at => k >= at /\ ItemOf(k) # ItemOf(at)) /\ (k <= at => k < at \/ k = at)
      BY <1>2, <1>5
    <3> QED BY <3>2, <3>3
  <2> QED BY <1>1, <1>2, <1>3, <1>6, <1>8, <2>1, <2>2, ArrivesSafely
<1>9. CASE UNCHANGED durable /\ Fail("fail", j)
  BY <1>1, <1>6, <1>9, FailsSafely
<1> QED BY <1>8, <1>9 DEF ItemDone, Put, j

(* A part that a resume skips is done: so is every part of an item not     *)
(* left to do.                                                             *)
LEMMA ResumeSkipSafe ==
  ASSUME PublishedSafe, ResumeSkip
  PROVE  PublishedLater'
<1>1. Process /\ pc = "intent" /\ pc \in PartPoints /\ cmd = "resume"
  BY DEF Process, Resuming, ResumeSkip, PartPoints
<1>2. UNCHANGED <<fs, durable, mem>>
  BY DEF ResumeSkip, store
<1>3. op \in Plan /\ at \in Parts /\ mem \in Journal /\ Good(mem, StagedParts', hit)
  BY <1>1, PartFacts
<1>4. Role(mem, at) = "done"
  <2>1. CASE ItemOf(at) \notin mem.remaining
    <3>1. LeftToDo(mem) /\ mem.status # "none"
      BY <1>3 DEF Good, Sound
    <3> QED BY <1>3, <2>1, <3>1 DEF LeftToDo
  <2>2. CASE mem.outputs[at].role = "done"
    BY <2>2 DEF Role
  <2> QED BY <2>1, <2>2 DEF ResumeSkip
<1>5. /\ Good(mem', StagedParts', hit) /\ mem'.remaining = mem.remaining
      /\ \A k \in Parts : Role(mem', k) = Role(mem, k)
  BY <1>2, <1>3
<1>6. CASE Goto(Loop(at + 1), at + 1)
  BY <1>1, <1>2, <1>3, <1>4, <1>5, <1>6, ArrivesSafely
<1>7. CASE /\ ItemOf(at) \in mem.remaining /\ Goto("item_done", at)
           /\ op.kind = "compress" /\ LastOfItem(at)
  BY <1>1, <1>2, <1>3, <1>4, <1>5, <1>7, EndsItemSafely
<1> QED BY <1>6, <1>7 DEF ResumeSkip, AfterCheckpoint

LEMMA ResumeRefusedSafe ==
  ASSUME PublishedSafe, ResumeRefused
  PROVE  PublishedLater'
<1>1. Process /\ Stop /\ UNCHANGED <<op, hit, durable>>
  BY DEF Process, Resuming, ResumeRefused, store, besides
<1>2. JournalsSound'
  BY <1>1, JournalsBy
<1>3. pc' = "idle"
  BY <1>1 DEF Stop
<1> QED BY <1>1, <1>2, <1>3, AtRest DEF PublishedLater, PartPoints

(* A command that stops, having written a sound journal.                   *)
LEMMA StopsSafely ==
  ASSUME PublishedSafe, Process, Stop,
         \/ durable' = durable
         \/ Good(durable', StagedParts', hit)
         \/ Sound(durable', StagedParts', hit) /\ ~NeedsRecovery(durable')
  PROVE  PublishedLater'
<1>1. JournalsSound' /\ UNCHANGED <<op, hit>>
  BY JournalsBy, HitKept
<1>2. pc' = "idle"
  BY DEF Stop
<1> QED BY <1>1, <1>2, AtRest DEF PublishedLater, PartPoints

(* A journal with the same entries, left with as much to do, is as sound.  *)
LEMMA SoundSame ==
  ASSUME NEW j, NEW S, NEW h, Sound(j, S, h), j.status # "none", NEW i,
         i.outputs = j.outputs, i.remaining = j.remaining
  PROVE  Sound(i, S, h)
BY DEF Sound, InOrder, LeftToDo, Role

(* The steps that write the outcome.                                       *)
LEMMA FinishSafe ==
  ASSUME PublishedSafe, Finish
  PROVE  PublishedLater'
<1>1. Process /\ Stop
  BY DEF Process, Apply, Finish, Put
<1> DEFINE j == [mem EXCEPT !.status = "applied", !.staging = {}]
<1>2. durable' = durable \/ durable' = j
  BY DEF Finish, Put
<1>3. mem \in Journal /\ op \in Plan /\ pc = "finish"
  BY DEF PublishedSafe, RecoverySafe, ItemsSafe, TypeOK, Finish
<1>4. j.status = "applied" /\ j.outputs = mem.outputs /\ j.remaining = mem.remaining
  BY <1>3 DEF Journal
<1> HIDE DEF j
<1>5. Sound(j, StagedParts', hit) /\ ~NeedsRecovery(j)
  <2>1. mem.status # "none"
    BY <1>3 DEF PublishedSafe, JournalsSound, Running
  <2>2. Sound(mem, StagedParts', hit) /\ StagedParts' \subseteq Parts
    BY <1>1, SoundStays
  <2>3. Sound(j, StagedParts', hit)
    BY <1>4, <2>1, <2>2, SoundSame
  <2> QED BY <1>4, <2>3 DEF NeedsRecovery
<1> QED BY <1>1, <1>2, <1>5, StopsSafely

LEMMA ApplyFailsSafe ==
  ASSUME PublishedSafe, ApplyFails
  PROVE  PublishedLater'
<1>1. Process /\ Stop /\ pc = "fail"
  BY DEF Process, Apply, ApplyFails, Put
<1> DEFINE j == [mem EXCEPT !.status = IF @ = "in_progress" THEN "failed" ELSE @]
<1>2. durable' = durable \/ durable' = j
  BY DEF ApplyFails, Put
<1>3. mem \in Journal /\ op \in Plan /\ cmd = "apply"
  BY <1>1 DEF PublishedSafe, RecoverySafe, ItemsSafe, TypeOK, Position
<1>4. Good(mem, StagedParts', hit) /\ StagedParts' \subseteq Parts
  BY <1>1, <1>3, MemGood, SoundStays
<1>5. /\ j.status \in {mem.status, "failed"} /\ j.outputs = mem.outputs
      /\ j.remaining = mem.remaining /\ j.staging = mem.staging
  BY <1>3 DEF Journal
<1> HIDE DEF j
<1>6. Sound(j, StagedParts', hit)
  <2>1. Sound(mem, StagedParts', hit) /\ mem.status # "none"
    BY <1>4 DEF Good
  <2> QED BY <1>5, <2>1, SoundSame
<1>7. Good(j, StagedParts', hit)
  BY <1>4, <1>5, <1>6 DEF Good, PendingStaged, PendingIn
<1> QED BY <1>1, <1>2, <1>7, StopsSafely

-----------------------------------------------------------------------------
(* Reversals, and the commands that start.                                 *)

(* A reversal changes files only, and no apply or resume is at work.       *)
LEMMA ReversalGoesOn ==
  ASSUME PublishedSafe, Process, UNCHANGED <<durable, mem, cmd, pc>>, pc \in {"rollback", "undo"}
  PROVE  PublishedLater'
<1>1. UNCHANGED <<op, hit>> /\ op \in Plan
  BY HitKept DEF PublishedSafe, RecoverySafe, ItemsSafe, TypeOK
<1>2. /\ Sound(durable, StagedParts', hit) /\ Sound(mem, StagedParts', hit)
      /\ NeedsRecovery(durable) => PendingStaged(durable)
      /\ cmd \in {"apply", "resume"} => PendingStaged(mem)
      /\ mem.status # "none" /\ (mem.status = "applied" => pc = "undo")
  BY SoundStays DEF PublishedSafe, JournalsSound, Running
<1>3. JournalsSound'
  BY <1>1, <1>2, JournalsAfter
<1>4. pc' \notin PartPoints \cup {"finish", "validate", "fail", "unstage"}
  BY DEF PartPoints
<1> QED BY <1>1, <1>3, <1>4, AtRest DEF PublishedLater

LEMMA RollbackStepSafe ==
  ASSUME PublishedSafe, RollbackStep
  PROVE  PublishedLater'
<1>1. Process /\ pc = "rollback"
  BY DEF Process, Reversal, RollbackStep
<1>2. UNCHANGED <<durable, mem, cmd, pc>>
  BY DEF RollbackStep, Reverse, MoveOne, RollbackNext, proc
<1> QED BY <1>1, <1>2, ReversalGoesOn

LEMMA UndoStepSafe ==
  ASSUME PublishedSafe, UndoStep
  PROVE  PublishedLater'
<1>1. Process /\ pc = "undo"
  BY DEF Process, Reversal, UndoStep
<1>2. UNCHANGED durable /\ (Stop \/ UNCHANGED <<mem, cmd, pc>>)
  BY DEF UndoStep, Reverse, MoveOne, UndoNext, proc
<1> QED BY <1>1, <1>2, ReversalGoesOn, StopsSafely

(* The end of a rollback; apply goes on to record its failure.             *)
LEMMA RollbackEndSafe ==
  ASSUME PublishedSafe, RollbackEnd
  PROVE  PublishedLater'
<1>1. Process /\ pc = "rollback"
  BY DEF Process, Reversal, RollbackEnd
<1>2. mem \in Journal /\ op \in Plan /\ UNCHANGED <<op, hit>>
  BY <1>1, HitKept DEF PublishedSafe, RecoverySafe, ItemsSafe, TypeOK
<1>3. mem.status # "none"
  BY <1>1 DEF PublishedSafe, JournalsSound, Running
<1> DEFINE done == mem.undo_safe /\ complete
           j == [mem EXCEPT !.status = IF done THEN "rolled_back" ELSE "partially_applied"]
<1>4. /\ j.status = IF done THEN "rolled_back" ELSE "partially_applied"
      /\ j.outputs = mem.outputs /\ j.remaining = mem.remaining /\ j.staging = mem.staging
  BY <1>2 DEF Journal
<1> HIDE DEF j, done
<1>5. Sound(j, StagedParts', hit) /\ StagedParts' \subseteq Parts
  BY <1>1, <1>3, <1>4, SoundStays, SoundSame
<1>6. CASE cmd = "apply" /\ mem' = j /\ Goto("fail", 0)
  <2>1. Good(j, StagedParts', hit)
    <3>1. PendingStaged(mem)
      BY <1>6 DEF PublishedSafe, JournalsSound
    <3>2. PendingStaged(j)
      BY <1>4, <3>1 DEF PendingStaged, PendingIn
    <3> QED BY <1>4, <1>5, <3>2 DEF Good
  <2>2. durable' = durable \/ durable' = j
    BY <1>6 DEF RollbackEnd, Put, j, done
  <2>3. pc' = "fail" /\ cmd' = "apply"
    BY <1>6 DEF Goto
  <2>4. JournalsSound'
    BY <1>1, <1>6, <2>1, <2>2, <2>3, JournalsBy
  <2> QED BY <1>2, <2>3, <2>4, AtRest DEF PublishedLater, PartPoints
<1>7. CASE Stop /\ (durable' = durable \/ (done /\ durable' = j))
  <2>1. done => ~NeedsRecovery(j)
    BY <1>4 DEF NeedsRecovery
  <2> QED BY <1>1, <1>5, <1>7, <2>1, StopsSafely
<1> QED BY <1>6, <1>7 DEF RollbackEnd, Put, j, done

LEMMA UndoEndSafe ==
  ASSUME PublishedSafe, UndoEnd
  PROVE  PublishedLater'
<1>1. Process /\ Stop /\ pc = "undo"
  BY DEF Process, Reversal, UndoEnd, Put
<1> DEFINE j == [mem EXCEPT !.status = "undone"]
<1>2. durable' = durable \/ durable' = j
  BY DEF UndoEnd, Put
<1>3. mem \in Journal /\ mem.status # "none"
  BY <1>1 DEF PublishedSafe, RecoverySafe, ItemsSafe, TypeOK, JournalsSound, Running
<1>4. j.status = "undone" /\ j.outputs = mem.outputs /\ j.remaining = mem.remaining
  BY <1>3 DEF Journal
<1> HIDE DEF j
<1>5. Sound(j, StagedParts', hit) /\ ~NeedsRecovery(j)
  <2>1. Sound(mem, StagedParts', hit)
    BY <1>1, SoundStays
  <2>2. Sound(j, StagedParts', hit)
    BY <1>3, <1>4, <2>1, SoundSame
  <2> QED BY <1>4, <2>2 DEF NeedsRecovery
<1> QED BY <1>1, <1>2, <1>5, StopsSafely

(* A recovery drops the staging files of a journal and nothing else.       *)
LEMMA UnstageSafe ==
  ASSUME PublishedSafe, Unstage
  PROVE  PublishedLater'
<1>1. Process /\ pc = "unstage" /\ UNCHANGED durable
  BY DEF Process, Reversal, Unstage
<1>2. /\ mem \in Journal /\ op \in Plan /\ UNCHANGED <<op, hit>> /\ cmd = "recover"
      /\ StagedParts' \subseteq Parts
      /\ Sound(durable, StagedParts', hit) /\ Sound(mem, StagedParts', hit)
      /\ NeedsRecovery(durable) => PendingStaged(durable)
      /\ mem.status \notin {"none", "applied"}
  BY <1>1, HitKept, SoundStays
     DEF PublishedSafe, RecoverySafe, ItemsSafe, TypeOK, Position, JournalsSound, Running
<1>3. PICK k \in mem.staging :
        \/ mem' = WithoutStaging(mem, k) /\ UNCHANGED <<cmd, pc, at, half, complete>>
        \/ Stop
  BY DEF Unstage
<1>4. CASE mem' = WithoutStaging(mem, k) /\ UNCHANGED <<cmd, pc, at, half, complete>>
  <2>1. k \in 1..MaxParts
    BY <1>2 DEF Journal
  <2>2. Sound(mem', StagedParts', hit)
    BY <1>2, <1>4, <2>1, SoundStaging
  <2>3. mem'.status = mem.status
    BY <1>2, <1>4, <2>1, Entries
  <2>4. JournalsSound'
    BY <1>1, <1>2, <1>4, <2>2, <2>3, JournalsAfter
  <2>5. pc' = "unstage" /\ cmd' = "recover"
    BY <1>1, <1>2, <1>4
  <2> QED BY <1>2, <2>4, <2>5, AtRest DEF PublishedLater, PartPoints
<1>5. CASE Stop
  BY <1>1, <1>5, StopsSafely
<1> QED BY <1>3, <1>4, <1>5

LEMMA RevalidateSafe ==
  ASSUME PublishedSafe, Revalidate
  PROVE  PublishedLater'
<1>1. Process /\ pc = "unstage" /\ UNCHANGED durable
  BY DEF Process, Reversal, Revalidate, store
<1>2. /\ UNCHANGED <<op, hit>> /\ cmd = "recover"
      /\ Sound(durable, StagedParts', hit) /\ Sound(mem, StagedParts', hit)
      /\ NeedsRecovery(durable) => PendingStaged(durable)
      /\ mem.status \notin {"none", "applied"}
  BY <1>1, HitKept, SoundStays DEF PublishedSafe, Position, JournalsSound, Running
<1>3. CASE Goto("rollback", NumParts) /\ UNCHANGED mem
  <2>1. pc' = "rollback" /\ cmd' = "recover" /\ mem' = mem
    BY <1>2, <1>3 DEF Goto
  <2>2. JournalsSound'
    BY <1>1, <1>2, <2>1, JournalsAfter
  <2> QED BY <1>2, <2>1, <2>2, AtRest DEF PublishedLater, PartPoints
<1>4. CASE Stop
  BY <1>1, <1>4, StopsSafely
<1> QED BY <1>3, <1>4 DEF Revalidate

(* Commands that start work on the journal they are given, which is one    *)
(* that a variable holds or, as in a recovery, the one on disk.            *)
LEMMA UndoSafely ==
  ASSUME PublishedSafe, Undo \/ Rollback
  PROVE  PublishedLater'
<1>1. /\ Process /\ UNCHANGED <<op, hit, durable, fs>>
      /\ \/ mem'.status = "applied" /\ pc' = "undo" /\ cmd' = "undo"
         \/ NeedsRecovery(mem') /\ pc' = "rollback" /\ cmd' = "rollback"
  <2>1. TypeOK
    BY DEF PublishedSafe, RecoverySafe, ItemsSafe
  <2> QED BY <2>1, Given DEF Process, Command, UndoAccepts, RollbackAccepts
<1>2. /\ Sound(durable, StagedParts', hit) /\ (NeedsRecovery(durable) => PendingStaged(durable))
      /\ NeedsRecovery(mem') => mem'.status \notin {"none", "applied"}
  BY <1>1, SoundStays DEF PublishedSafe, JournalsSound, NeedsRecovery
<1>3. StagedParts' = StagedParts
  BY <1>1 DEF StagedParts, Parts, NumParts, Exists, Stg
<1>4. Sound(mem', StagedParts', hit)
  <2>1. PICK j \in Piped : mem' = j
    BY DEF Undo, Rollback, Begin
  <2> QED BY <1>2, <1>3, <2>1 DEF Piped, PublishedSafe, HeldSafe
<1>5. JournalsSound'
  BY <1>1, <1>2, <1>4, JournalsAfter
<1> QED BY <1>1, <1>5, AtRest DEF PublishedLater, PartPoints

(* A recovery forgets what was pending, which leaves the rest in order.    *)
LEMMA RecoverRollbackSafe ==
  ASSUME PublishedSafe, RecoverRollback
  PROVE  PublishedLater'
<1>1. /\ Process /\ UNCHANGED <<op, hit, durable>> /\ mem' = WithoutUnpublished(durable)
      /\ NeedsRecovery(durable) /\ pc' = "unstage" /\ cmd' = "recover"
  BY DEF Process, Command, RecoverRollback, Begin, RecoverAccepts, store
<1>2. op \in Plan /\ durable \in Journal
  BY DEF PublishedSafe, RecoverySafe, ItemsSafe, TypeOK
<1>3. /\ Sound(durable, StagedParts', hit) /\ StagedParts' \subseteq Parts
      /\ PendingStaged(durable) /\ durable.status \notin {"none", "applied"}
      /\ Parts \subseteq 1..MaxParts
  BY <1>1, <1>2, SoundStays, PartsOfItems DEF PublishedSafe, JournalsSound, NeedsRecovery
<1>4. /\ mem'.remaining = durable.remaining /\ mem'.status = durable.status
      /\ \A p \in Parts : \/ mem'.outputs[p] = durable.outputs[p]
                          \/ Role(durable, p) = "pending" /\ mem'.outputs[p] = NoOutput
  <2>1. /\ mem'.remaining = durable.remaining /\ mem'.status = durable.status
        /\ mem'.outputs = [k \in 1..MaxParts |-> IF Unpublished(durable, k) THEN NoOutput
                                                 ELSE durable.outputs[k]]
    BY <1>1, <1>2 DEF WithoutUnpublished, Journal
  <2>2. SUFFICES ASSUME NEW p \in Parts
                 PROVE  \/ mem'.outputs[p] = durable.outputs[p]
                        \/ Role(durable, p) = "pending" /\ mem'.outputs[p] = NoOutput
    BY <2>1
  <2>3. p \in 1..MaxParts
    BY <1>3
  <2>4. mem'.outputs[p] = IF Unpublished(durable, p) THEN NoOutput ELSE durable.outputs[p]
    BY <2>1, <2>3
  <2>5. CASE Unpublished(durable, p)
    <3>1. Role(durable, p) = "pending"
      BY <2>5 DEF Unpublished, PendingIn, Role
    <3> QED BY <2>4, <2>5, <3>1
  <2>6. CASE ~Unpublished(durable, p)
    BY <2>4, <2>6
  <2> QED BY <2>5, <2>6
<1>5. Sound(mem', StagedParts', hit)
  BY <1>3, <1>4, SoundLike
<1>6. JournalsSound'
  BY <1>1, <1>3, <1>4, <1>5, JournalsAfter
<1> QED BY <1>1, <1>6, AtRest DEF PublishedLater, PartPoints

(* A resume finds the outputs that are done where the journal has them.    *)
LEMMA ResumeSafe ==
  ASSUME PublishedSafe, Resume
  PROVE  PublishedLater'
<1>1. /\ Process /\ UNCHANGED <<op, hit, durable, fs>> /\ mem' = durable
      /\ ResumeAccepts(durable) /\ pc' = "intent" /\ cmd' = "resume" /\ at' = 1
  BY DEF Process, Command, Resume, Begin, store
<1>2. op \in Plan /\ durable \in Journal
  BY DEF PublishedSafe, RecoverySafe, ItemsSafe, TypeOK
<1>3. /\ Sound(durable, StagedParts', hit) /\ PendingStaged(durable)
      /\ durable.status \notin {"none", "applied"}
  BY <1>1, SoundStays DEF PublishedSafe, JournalsSound, NeedsRecovery, ResumeAccepts
<1>4. JournalsSound'
  BY <1>1, <1>3, JournalsBy DEF Good
<1>5. \A k \in Parts : k \in Nat /\ ~(k < 1)
  BY <1>2, PartOrder
<1>6. Position'
  BY <1>1, <1>5, PositionAfter
<1>7. DoneHolds'
  <2>1. SUFFICES ASSUME NEW k \in Parts, Role(durable, k) = "done", Untouched(k)
                 PROVE  fs[Dst(k)].data = ItemOf(k)
    BY <1>1, FilesAfterwards
  <2>2. durable.outputs[k].file.data = ItemOf(k)
    BY <1>3, <2>1 DEF Sound, Untouched
  <2>3. Valid(durable.outputs[k].file, Dst(k))
    BY <1>1, <2>1 DEF ResumeAccepts, Listed, PendingIn, Role
  <2> QED BY <2>2, <2>3 DEF Valid
<1>8. CurrentHolds'
  BY <1>1, NothingCurrent
<1> QED BY <1>4, <1>6, <1>7, <1>8 DEF PublishedLater

(* A resumed move goes on from where the source is: it is still to be      *)
(* moved, or the output is the item.                                       *)
LEMMA ResumeMoveSafe ==
  ASSUME PublishedSafe, ResumeMove
  PROVE  PublishedLater'
<1>1. /\ Process /\ pc = "intent" /\ pc \in PartPoints /\ Moving /\ UNCHANGED fs
      /\ ItemOf(at) \in mem.remaining /\ Role(mem, at) # "done"
  BY DEF Process, Resuming, ResumeMove, ToResume, PartPoints, Role
<1>2. /\ op \in Plan /\ UNCHANGED <<op, hit>> /\ at \in Parts /\ at \in 1..MaxParts
      /\ mem \in Journal /\ Parts \subseteq 1..MaxParts
      /\ StagedParts' \subseteq Parts /\ Good(mem, StagedParts', hit)
  BY <1>1, PartFacts, PartsOfItems
<1>3. durable = mem
  BY <1>1 DEF PublishedSafe, RecoverySafe, Written
<1>4. \A l \in Parts : l < at => Role(mem, l) = "done"
  BY <1>1 DEF PublishedSafe, Position, Working
<1>5. ItemOf(at) = at /\ at \in Items
  <2>1. op.kind # "compress"
    BY <1>1 DEF Moving
  <2> QED BY <1>2, <2>1, PartOrder
<1> DEFINE i == WithPending(mem, at, PlannedSource(at))
           j == IF PendingIn(mem, at) THEN mem ELSE i
           o == WithoutOutput(mem, at)
<1>6. /\ Good(i, StagedParts', hit) /\ i \in Journal
      /\ i.remaining = mem.remaining /\ Role(i, at) = "pending"
      /\ \A k \in Parts : k # at => Role(i, k) = Role(mem, k)
  <2>1. PlannedSource(at) \in File /\ PlannedSource(at).data = ItemOf(at)
    <3>1. PlannedSource(at) \in File
      BY <1>5, PlannedTyped
    <3> QED BY <1>5, <3>1 DEF PlannedSource
  <2>2. Good(i, StagedParts', hit)
    BY <1>1, <1>2, <1>4, <2>1, GoodAfter
  <2> QED BY <1>2, <2>1, <2>2, PendingRoles, JournalsTyped DEF Role
<1>7. /\ Good(o, StagedParts', hit) /\ o \in Journal
      /\ o.remaining = mem.remaining /\ Role(o, at) = "none"
      /\ \A k \in Parts : k # at => Role(o, k) = Role(mem, k)
  <2>1. o \in Journal
    BY <1>2, NoJournalTyped, JournalsTyped
  <2>2. Good(o, StagedParts', hit)
    BY <1>1, <1>2, GoodAfter, NoJournalTyped
  <2>3. /\ o.outputs[at] = NoOutput /\ o.remaining = mem.remaining
        /\ \A p \in 1..MaxParts : p # at => o.outputs[p] = mem.outputs[p]
    BY <1>2, OutputRoles
  <2> QED BY <1>2, <2>1, <2>2, <2>3 DEF Role, NoOutput
<1> HIDE DEF i, o
<1>8. /\ Good(j, StagedParts', hit) /\ j \in Journal
      /\ j.remaining = mem.remaining /\ Role(j, at) # "done"
      /\ \A k \in Parts : k # at => Role(j, k) = Role(mem, k)
  BY <1>1, <1>2, <1>6
<1> HIDE DEF j
<1>9. CASE mem' \in {mem, j} /\ durable' \in {mem, j} /\ Goto("move", at)
  <2>1. "move" \in PartPoints \ {"intent", "item_done"}
    BY DEF PartPoints
  <2>2. /\ mem' \in Journal /\ Good(mem', StagedParts', hit) /\ mem'.remaining = mem.remaining
        /\ Role(mem', at) # "done" /\ \A k \in Parts : k # at => Role(mem', k) = Role(mem, k)
    BY <1>1, <1>2, <1>8, <1>9
  <2>3. Good(durable', StagedParts', hit) /\ Role(durable', at) # "done"
    BY <1>1, <1>2, <1>8, <1>9
  <2>4. JournalsSound' /\ Position' /\ DoneHolds'
    BY <1>1, <1>9, <2>1, <2>2, <2>3, GoesOn DEF Goto
  <2>5. CurrentHolds'
    BY <1>2, <1>9, NothingCurrent DEF Goto
  <2> QED BY <2>4, <2>5 DEF PublishedLater
<1>10. CASE ~Exists(Src(at)) /\ mem' = o /\ Goto("checkpoint", at) /\ UNCHANGED durable
  <2>1. "checkpoint" \in PartPoints \ {"intent", "item_done"}
    BY DEF PartPoints
  <2>2. JournalsSound' /\ Position' /\ DoneHolds'
    BY <1>1, <1>3, <1>7, <1>10, <2>1, GoesOn DEF Goto
  <2>3. CurrentHolds'
    BY <1>1, <1>2, <1>10, MovedHolds DEF Goto, Exists
  <2> QED BY <2>2, <2>3 DEF PublishedLater
<1>11. CASE Stop /\ UNCHANGED durable
  BY <1>1, <1>11, StopsSafely
<1>12. \/ mem' \in {mem, j} /\ durable' \in {mem, j} /\ Goto("move", at)
       \/ ~Exists(Src(at)) /\ mem' = o /\ Goto("checkpoint", at) /\ UNCHANGED durable
       \/ Stop /\ UNCHANGED durable
  BY <1>3 DEF ResumeMove, Put, i, j, o
<1> QED BY <1>9, <1>10, <1>11, <1>12

(* A resumed publication finds the staged file, or the output it had       *)
(* become.                                                                 *)
LEMMA ResumeStagedSafe ==
  ASSUME PublishedSafe, ResumeStaged
  PROVE  PublishedLater'
<1>1. /\ Process /\ pc = "intent" /\ pc \in PartPoints /\ ~Moving /\ UNCHANGED durable
      /\ PendingIn(mem, at) /\ ItemOf(at) \in mem.remaining /\ Role(mem, at) = "pending"
  BY DEF Process, Resuming, ResumeStaged, ToResume, PartPoints, Role, PendingIn
<1>2. /\ op \in Plan /\ UNCHANGED <<op, hit>> /\ at \in Parts /\ at \in 1..MaxParts
      /\ at \in Nat /\ \A k \in Parts : k \in Nat
      /\ mem \in Journal /\ Parts \subseteq 1..MaxParts
      /\ StagedParts' \subseteq Parts /\ Good(mem, StagedParts', hit)
  BY <1>1, PartFacts, PartsOfItems
<1>3. durable = mem
  BY <1>1 DEF PublishedSafe, RecoverySafe, Written
<1>4. \A l \in Parts : l < at => Role(mem, l) = "done"
  BY <1>1 DEF PublishedSafe, Position, Working
<1> DEFINE existing == {k \in mem.staging : Exists(Stg(k))}
           o == WithoutOutput(mem, at)
           j == [o EXCEPT !.staging = existing]
           p == Published(mem, at)
<1>5. /\ Good(o, StagedParts', hit) /\ o \in Journal
      /\ Good(p, StagedParts', hit) /\ p \in Journal
      /\ o.remaining = mem.remaining /\ p.remaining = mem.remaining
      /\ Role(o, at) = "none" /\ Role(p, at) = "none"
      /\ \A k \in Parts : k # at => Role(o, k) = Role(mem, k) /\ Role(p, k) = Role(mem, k)
  <2>1. o \in Journal
    BY <1>2, NoJournalTyped, JournalsTyped
  <2>2. p \in Journal
    BY <2>1, <1>2, NoJournalTyped, JournalsTyped DEF Published
  <2>3. Good(o, StagedParts', hit) /\ Good(p, StagedParts', hit)
    BY <1>1, <1>2, GoodAfter, NoJournalTyped
  <2>4. /\ o.outputs[at] = NoOutput /\ o.remaining = mem.remaining
        /\ p.outputs = o.outputs /\ p.remaining = mem.remaining
        /\ \A q \in 1..MaxParts : q # at => o.outputs[q] = mem.outputs[q]
    BY <1>2, OutputRoles
  <2> QED BY <1>2, <2>1, <2>2, <2>3, <2>4 DEF Role, NoOutput
<1> HIDE DEF o, p
<1>6. CASE fs' = Renamed(Stg(at), Dst(at)) /\ mem' = p /\ Goto("checkpoint", at)
  <2>1. "checkpoint" \in PartPoints \ {"intent", "item_done"}
    BY DEF PartPoints
  <2>2. JournalsSound' /\ Position' /\ DoneHolds'
    BY <1>1, <1>3, <1>5, <1>6, <2>1, GoesOn DEF Goto
  <2>3. CurrentHolds'
    BY <1>2, <1>6, PublishedHolds DEF Goto
  <2> QED BY <2>2, <2>3 DEF PublishedLater
<1>7. CASE /\ existing = {} /\ Valid(mem.outputs[at].file, Dst(at))
           /\ mem' = j /\ Goto("checkpoint", at) /\ UNCHANGED fs
  <2>1. /\ j \in Journal /\ j.outputs = o.outputs /\ j.remaining = o.remaining
        /\ j.status = o.status /\ j.staging = {}
    BY <1>5, <1>7 DEF Journal
  <2> HIDE DEF j
  <2>2. \A k \in Parts : ~PendingIn(j, k)
    <3>1. SUFFICES ASSUME NEW k \in Parts, k # at, Role(mem, k) = "pending" PROVE FALSE
      BY <1>5, <2>1 DEF PendingIn, Role
    <3>2. k < at \/ at < k
      BY <1>2, <3>1
    <3>3. at < k => Role(mem, at) = "done"
      BY <1>2, <3>1 DEF Good, Sound, InOrder
    <3> QED BY <1>1, <1>4, <3>1, <3>2, <3>3
  <2>3. Good(j, StagedParts', hit)
    <3>1. Sound(o, StagedParts', hit) /\ o.status \notin {"none", "applied"}
      BY <1>5 DEF Good
    <3>2. Sound(j, StagedParts', hit)
      BY <2>1, <3>1, SoundSame
    <3> QED BY <2>1, <2>2, <3>1, <3>2 DEF Good, PendingStaged
  <2>4. Role(j, at) = "none" /\ \A k \in Parts : k # at => Role(j, k) = Role(mem, k)
    BY <1>5, <2>1 DEF Role
  <2>5. "checkpoint" \in PartPoints \ {"intent", "item_done"}
    BY DEF PartPoints
  <2>6. JournalsSound' /\ Position' /\ DoneHolds'
    BY <1>1, <1>3, <1>5, <1>7, <2>1, <2>3, <2>4, <2>5, GoesOn DEF Goto
  <2>7. CurrentHolds'
    <3>1. at \notin StagedParts'
      <4>1. at \in mem.staging
        BY <1>1, <1>2 DEF Good, PendingStaged
      <4>2. ~Exists(Stg(at))
        BY <1>7, <4>1
      <4> QED BY <1>7, <4>2 DEF StagedParts, Exists, Stg
    <3>2. Untouched(at) => fs[Dst(at)].data = ItemOf(at)
      <4>1. Untouched(at) => mem.outputs[at].file.data = ItemOf(at)
        BY <1>1, <1>2 DEF Good, Sound, Untouched
      <4> QED BY <1>7, <4>1 DEF Valid
    <3> QED BY <1>2, <1>7, <3>1, <3>2, FilesAfterwards DEF Goto
  <2> QED BY <2>6, <2>7 DEF PublishedLater
<1>8. CASE Stop
  BY <1>1, <1>8, StopsSafely
<1> QED BY <1>6, <1>7, <1>8 DEF ResumeStaged, o, p, j

-----------------------------------------------------------------------------
(* The journals in variables.                                              *)

(* Nothing is done in no journal.                                          *)
LEMMA NothingDone ==
  ASSUME op \in Plan
  PROVE  NoJournal.status = "none" /\ \A j : Behind(NoJournal, j)
<1>1. \A k \in Parts : k \in 1..MaxParts
  BY PartsOfItems
<1> QED BY <1>1 DEF Behind, Role, NoJournal, NoOutput

(* The invariant, of the state after a step that keeps the plan and        *)
(* touches no further item.                                                *)
LEMMA HeldAfter ==
  ASSUME UNCHANGED <<op, hit>>
  PROVE  HeldSafe' <=>
    /\ pc' = "idle" => cmd' = "none"
    /\ cmd' = "apply" => \A v \in Variables : held'[v] = NoJournal
    /\ \A v \in Variables :
         /\ Sound(held'[v], StagedParts', hit)
         /\ ~SaysReversed(durable') => Behind(held'[v], durable')
         /\ cmd' = "resume" => Behind(held'[v], mem')
         /\ held'[v].status = "applied" => ~NeedsRecovery(durable') /\ cmd' # "resume"
<1>1. \A i, j : Behind(i, j)' <=> Behind(i', j')
  BY DEF Behind, Role, Parts, NumParts
<1>2. \A j : Sound(j, StagedParts, hit)' <=> Sound(j', StagedParts', hit)
  BY DEF Sound, InOrder, LeftToDo, Role, Parts, NumParts, ItemOf
<1> QED BY <1>1, <1>2 DEF HeldSafe, SaysReversed, NeedsRecovery, NoJournal

(* The invariant stays where nothing of this changes but what is touched.  *)
LEMMA HeldSame ==
  ASSUME HeldSafe, UNCHANGED <<op, durable, mem, cmd, pc, held>>, StagedParts' = StagedParts,
         \A v \in Variables : Sound(held[v], StagedParts, hit')
  PROVE  HeldSafe'
<1>1. \A i, j : Behind(i, j)' <=> Behind(i, j)
  BY DEF Behind, Role, Parts, NumParts
<1>2. \A j : Sound(j, StagedParts, hit)' <=> Sound(j, StagedParts', hit')
  BY DEF Sound, InOrder, LeftToDo, Role, Parts, NumParts, ItemOf
<1>3. ASSUME NEW v \in Variables
      PROVE  /\ Sound(held[v], StagedParts, hit)'
             /\ (~SaysReversed(durable) => Behind(held[v], durable))'
             /\ (cmd = "resume" => Behind(held[v], mem))'
             /\ (held[v].status = "applied" => ~NeedsRecovery(durable) /\ cmd # "resume")'
  <2>1. /\ ~SaysReversed(durable) => Behind(held[v], durable)
        /\ cmd = "resume" => Behind(held[v], mem)
        /\ held[v].status = "applied" => ~NeedsRecovery(durable) /\ cmd # "resume"
    BY DEF HeldSafe
  <2>2. Sound(held[v], StagedParts, hit)'
    BY <1>2
  <2>3. (~SaysReversed(durable) => Behind(held[v], durable))'
    BY <1>1, <2>1 DEF SaysReversed
  <2>4. (cmd = "resume" => Behind(held[v], mem))'
    BY <1>1, <2>1
  <2> QED BY <2>1, <2>2, <2>3, <2>4 DEF NeedsRecovery
<1>4. /\ (pc = "idle" => cmd = "none")'
      /\ (cmd = "apply" => \A v \in Variables : held[v] = NoJournal)'
  BY DEF HeldSafe, NoJournal
<1> QED BY <1>3, <1>4 DEF HeldSafe

(* A step of a running command stops it or leaves it running.              *)
LEMMA StopsOrGoesOn ==
  ASSUME Process, ~Command
  PROVE  Stop \/ (cmd' = cmd /\ pc' # "idle")
<1>1. CASE Apply
  BY <1>1 DEF Apply, ApplyStart, Validate, MoveIntent, Finish, ApplyFails, Put, Goto, Fail
<1>2. CASE Staging
  BY <1>2 DEF Staging, StageIntent, Stage, StageRename, Discard, PublishIntent, Publish,
              Put, Goto, Fail, FailStaged, proc
<1>3. CASE Move \/ Checkpoint \/ ItemDone
  BY <1>3 DEF Move, MoveOne, Checkpoint, ItemDone, AfterCheckpoint, Loop, Put, Goto, Fail, proc
<1>4. CASE Reversal
  BY <1>4 DEF Reversal, RollbackStep, RollbackEnd, UndoStep, UndoEnd, Unstage, Revalidate,
              Reverse, MoveOne, RollbackNext, UndoNext, Put, Goto, proc
<1>5. CASE Resuming
  BY <1>5 DEF Resuming, ResumeSkip, ResumeStaged, ResumeRefused, ResumeMove, AfterCheckpoint,
              Loop, Put, Goto
<1> QED BY <1>1, <1>2, <1>3, <1>4, <1>5 DEF Process

(* A reversal writes nothing but that it has reversed.                     *)
LEMMA ReversalWrites ==
  ASSUME PublishedSafe, Process, ~Command, cmd \notin {"apply", "resume"}
  PROVE  durable' = durable \/ SaysReversed(durable')
<1>1. pc \notin PartPoints \cup {"finish", "planned", "validate", "fail"} /\ mem \in Journal
  BY DEF PublishedSafe, RecoverySafe, Ahead, ItemsSafe, TypeOK
<1>2. Reversal
  BY <1>1 DEF PartPoints, Process, Apply, ApplyStart, Validate, MoveIntent, Finish, ApplyFails,
              Staging, StageIntent, Stage, StageRename, Discard, PublishIntent, Publish, Move,
              Checkpoint, ItemDone, Resuming, ResumeSkip, ResumeStaged, ResumeRefused,
              ResumeMove, ToResume
<1>3. /\ [mem EXCEPT !.status = "rolled_back"].status = "rolled_back"
      /\ [mem EXCEPT !.status = "undone"].status = "undone"
  BY <1>1 DEF Journal
<1>4. CASE RollbackEnd
  BY <1>3, <1>4 DEF RollbackEnd, Put, SaysReversed
<1>5. CASE UndoEnd
  BY <1>3, <1>5 DEF UndoEnd, Put, SaysReversed
<1>6. CASE RollbackStep \/ UndoStep \/ Unstage \/ Revalidate
  BY <1>6 DEF RollbackStep, UndoStep, Unstage, Revalidate, Reverse, MoveOne, RollbackNext,
              UndoNext, store
<1> QED BY <1>2, <1>4, <1>5, <1>6 DEF Reversal

(* A resume loses nothing that is done, in memory or on disk.              *)
LEMMA DoneKept ==
  ASSUME PublishedSafe, Process, ~Command, cmd = "resume"
  PROVE  /\ Stop \/ Behind(mem, mem')
         /\ durable' = durable \/ Behind(mem, durable')
<1>1. /\ op \in Plan /\ mem \in Journal /\ fs \in [Path -> File] /\ Control
      /\ pc \notin {"planned", "validate", "fail"}
      /\ pc \in PartPoints \ {"intent", "item_done"} => Role(mem, at) # "done"
  BY DEF PublishedSafe, RecoverySafe, Ahead, ItemsSafe, TypeOK, Position
<1>2. Parts \subseteq 1..MaxParts /\ Items \subseteq 1..MaxParts /\ (Moving => Parts = Items)
  BY <1>1, PartsOfItems
<1>3. \A j : j.outputs = mem.outputs => Behind(mem, j)
  BY DEF Behind, Role
<1>4. pc \in PartPoints => at \in Parts /\ at \in 1..MaxParts
  BY <1>1, <1>2 DEF Control
<1>5. ASSUME at \in Parts, Role(mem, at) # "done"
      PROVE  /\ Behind(mem, WithoutOutput(mem, at)) /\ Behind(mem, Published(mem, at))
             /\ \A file \in File : /\ Behind(mem, WithPending(mem, at, file))
                                    /\ Behind(mem, WithDone(mem, at, file))
  <2>1. \A j : (\A k \in 1..MaxParts : k # at => j.outputs[k] = mem.outputs[k]) => Behind(mem, j)
    BY <1>2, <1>5 DEF Behind, Role
  <2>2. at \in 1..MaxParts
    BY <1>2, <1>5
  <2>3. Behind(mem, WithoutOutput(mem, at)) /\ Behind(mem, Published(mem, at))
    <3>1. /\ \A k \in 1..MaxParts : k # at => WithoutOutput(mem, at).outputs[k] = mem.outputs[k]
          /\ Published(mem, at).outputs = WithoutOutput(mem, at).outputs
      BY <1>1, <2>2, OutputRoles
    <3> QED BY <2>1, <3>1
  <2>4. ASSUME NEW file \in File
        PROVE  Behind(mem, WithPending(mem, at, file)) /\ Behind(mem, WithDone(mem, at, file))
    BY <1>1, <2>1, <2>2, PendingRoles, DoneRoles
  <2> QED BY <2>3, <2>4
<1>6. \A k \in 1..MaxParts : Dst(k) \in Path /\ Stg(k) \in Path
  BY Places
<1> HIDE DEF Behind
<1>7. CASE StageIntent
  <2>1. WithStaging(mem, at).outputs = mem.outputs
    BY <1>1, <1>4, <1>7, StagingRoles DEF StageIntent, PartPoints
  <2> QED BY <1>3, <1>7, <2>1 DEF StageIntent, Put, Goto, Fail
<1>8. CASE Stage \/ StageRename \/ Discard
  BY <1>3, <1>8 DEF Stage, StageRename, Discard, Goto, Fail, FailStaged
<1>9. CASE PublishIntent
  <2>1. Behind(mem, WithPending(mem, at, fs[Stg(at)]))
    BY <1>1, <1>4, <1>5, <1>6, <1>9 DEF PublishIntent, PartPoints
  <2> QED BY <1>9, <2>1 DEF PublishIntent, Put, Goto, FailStaged
<1>10. CASE Publish
  <2>1. Behind(mem, Published(mem, at)) /\ Behind(mem, mem)
    BY <1>1, <1>3, <1>4, <1>5, <1>10 DEF Publish, PartPoints
  <2> QED BY <1>10, <2>1 DEF Publish, Goto, FailStaged, proc
<1>11. CASE Move
  <2>1. Behind(mem, WithoutOutput(mem, at)) /\ Behind(mem, mem)
    BY <1>1, <1>3, <1>4, <1>5, <1>11 DEF Move, PartPoints
  <2> QED BY <1>11, <2>1 DEF Move, MoveOne, Fail, proc
<1>12. CASE Checkpoint
  <2>1. Behind(mem, WithDone(mem, at, fs[Dst(at)])) /\ Behind(mem, mem)
    BY <1>1, <1>3, <1>4, <1>5, <1>6, <1>12 DEF Checkpoint, PartPoints
  <2> QED BY <1>12, <2>1 DEF Checkpoint, Put, AfterCheckpoint, Goto, Fail
<1>13. CASE ItemDone
  <2>1. [mem EXCEPT !.remaining = @ \ {ItemOf(at)}].outputs = mem.outputs
    BY <1>1 DEF Journal
  <2> QED BY <1>3, <1>13, <2>1 DEF ItemDone, Put, Goto, Fail
<1>14. CASE Apply
  <2>1. Finish
    BY <1>1, <1>14 DEF Apply, ApplyStart, Validate, MoveIntent, ApplyFails
  <2>2. [mem EXCEPT !.status = "applied", !.staging = {}].outputs = mem.outputs
    BY <1>1 DEF Journal
  <2> QED BY <1>3, <2>1, <2>2 DEF Finish, Put
<1>15. CASE RollbackStep \/ UndoStep \/ Revalidate
  BY <1>3, <1>15 DEF RollbackStep, UndoStep, Revalidate, Reverse, MoveOne, RollbackNext,
                     UndoNext, Goto, store, proc
<1>16. CASE RollbackEnd \/ UndoEnd
  <2>1. \A s : [mem EXCEPT !.status = s].outputs = mem.outputs
    BY <1>1 DEF Journal
  <2> QED BY <1>3, <1>16, <2>1 DEF RollbackEnd, UndoEnd, Put
<1>17. CASE Unstage
  <2>1. \A k \in mem.staging : WithoutStaging(mem, k).outputs = mem.outputs
    <3>1. \A k \in mem.staging : k \in 1..MaxParts
      BY <1>1 DEF Journal
    <3> QED BY <1>1, <3>1, StagingRoles
  <2> QED BY <1>3, <1>17, <2>1 DEF Unstage
<1>18. CASE ResumeSkip \/ ResumeRefused
  BY <1>3, <1>18 DEF ResumeSkip, ResumeRefused, store
<1>19. CASE ResumeStaged
  <2>1. at \in Parts /\ at \in 1..MaxParts /\ Role(mem, at) # "done"
    BY <1>4, <1>19 DEF ResumeStaged, ToResume, Role, PartPoints
  <2> DEFINE o == WithoutOutput(mem, at)
             existing == {k \in mem.staging : Exists(Stg(k))}
  <2>2. o \in Journal /\ Behind(mem, o) /\ Behind(mem, Published(mem, at))
    BY <1>1, <1>5, <2>1, NoJournalTyped, JournalsTyped
  <2> HIDE DEF o, existing
  <2>3. [o EXCEPT !.staging = existing].outputs = o.outputs
    BY <2>2 DEF Journal
  <2>4. Behind(mem, [o EXCEPT !.staging = existing])
    BY <2>2, <2>3 DEF Behind, Role
  <2> QED BY <1>19, <2>2, <2>4 DEF ResumeStaged, o, existing
<1>20. CASE ResumeMove
  <2>1. at \in Parts /\ at \in Items /\ Role(mem, at) # "done"
    BY <1>2, <1>4, <1>20 DEF ResumeMove, ToResume, Role, PartPoints
  <2>2. /\ Behind(mem, WithoutOutput(mem, at)) /\ Behind(mem, mem)
        /\ Behind(mem, WithPending(mem, at, PlannedSource(at)))
    BY <1>3, <1>5, <2>1, PlannedTyped
  <2> QED BY <1>20, <2>2 DEF ResumeMove, Put
<1> QED BY <1>7, <1>8, <1>9, <1>10, <1>11, <1>12, <1>13, <1>14, <1>15, <1>16, <1>17, <1>18,
           <1>19, <1>20
        DEF Process, Staging, Reversal, Resuming

(* So a step keeps the journals in variables behind the ones in use.       *)
LEMMA HeldSafeBy ==
  ASSUME PublishedSafe, Process
  PROVE  HeldSafe'
<1>1. /\ op \in Plan /\ TypeOK /\ ItemsSafe /\ UNCHANGED <<op, hit>> /\ HeldSafe /\ Next
      /\ StagedParts' \subseteq Parts /\ Sound(durable, StagedParts', hit)
      /\ pc \in PartPoints => cmd \in {"apply", "resume"}
  BY HitKept, SoundStays DEF PublishedSafe, RecoverySafe, ItemsSafe, TypeOK, Ahead, Next
<1>2. /\ Sound(NoJournal, StagedParts', hit) /\ NoJournal.status = "none"
      /\ \A j : Behind(NoJournal, j)
  BY <1>1, NoJournalSound, NothingDone
<1>3. ASSUME NEW v \in Variables PROVE Sound(held[v], StagedParts', hit)
  <2>1. CASE cmd = "apply"
    BY <1>1, <1>2, <2>1 DEF HeldSafe
  <2>2. CASE cmd # "apply"
    <3>1. pc \in {"stage", "rename"} => Role(held[v], at) # "done"
      <4>1. SUFFICES ASSUME pc \in {"stage", "rename"} PROVE Role(held[v], at) # "done"
        OBVIOUS
      <4>2. pc \in PartPoints \ {"intent", "item_done"}
        BY <4>1 DEF PartPoints
      <4>3. cmd = "resume" /\ Role(mem, at) # "done" /\ at \in Parts
        BY <1>1, <2>2, <4>2 DEF PublishedSafe, Position, ItemsSafe, Control
      <4> QED BY <1>1, <4>3 DEF HeldSafe, Behind
    <3>2. Sound(held[v], StagedParts, hit)
      BY <1>1 DEF HeldSafe
    <3>3. \A k \in StagedParts' : Role(held[v], k) # "done"
      BY <1>1, <3>1, <3>2, StagingAfter DEF Sound
    <3> QED BY <3>2, <3>3 DEF Sound
  <2> QED BY <2>1, <2>2
<1>4. CASE ~Command
  <2>1. \A v \in Variables : held'[v] \in {held[v], NoJournal}
    <3>1. ~Hold
      BY <1>4 DEF Command
    <3> QED BY <1>1, <3>1, HeldStep
  <2>2. Stop \/ (cmd' = cmd /\ pc' # "idle")
    BY <1>4, StopsOrGoesOn
  <2>3. pc' = "idle" => cmd' = "none"
    BY <2>2 DEF Stop
  <2>4. cmd' \in {cmd, "none"}
    BY <2>2 DEF Stop
  <2>5. CASE cmd = "apply"
    <3>1. \A v \in Variables : held'[v] = NoJournal
      BY <1>1, <2>1, <2>5 DEF HeldSafe
    <3> QED BY <1>1, <1>2, <2>3, <3>1, HeldAfter
  <2>6. CASE cmd = "resume"
    <3>1. /\ cmd' = "resume" => Behind(mem, mem')
          /\ durable' = durable \/ Behind(mem, durable')
      BY <1>4, <2>6, DoneKept DEF Stop
    <3>2. ASSUME NEW v \in Variables
          PROVE  /\ Sound(held'[v], StagedParts', hit)
                 /\ ~SaysReversed(durable') => Behind(held'[v], durable')
                 /\ cmd' = "resume" => Behind(held'[v], mem')
                 /\ held'[v].status # "applied"
      <4>1. CASE held'[v] = NoJournal
        BY <1>2, <4>1
      <4>2. CASE held'[v] = held[v]
        <5>1. /\ ~SaysReversed(durable) => Behind(held[v], durable)
              /\ Behind(held[v], mem) /\ held[v].status # "applied"
          BY <1>1, <2>6 DEF HeldSafe
        <5>2. \A j : Behind(mem, j) => Behind(held[v], j)
          BY <5>1 DEF Behind
        <5> QED BY <1>3, <3>1, <4>2, <5>1, <5>2
      <4> QED BY <2>1, <4>1, <4>2
    <3>3. cmd' # "apply"
      BY <2>4, <2>6
    <3> QED BY <1>1, <2>3, <3>2, <3>3, HeldAfter
  <2>7. CASE cmd \notin {"apply", "resume"}
    <3>1. durable' = durable \/ (SaysReversed(durable') /\ ~NeedsRecovery(durable'))
      BY <1>4, <2>7, ReversalWrites DEF SaysReversed, NeedsRecovery
    <3>2. cmd' \notin {"apply", "resume"}
      BY <2>4, <2>7
    <3>3. ASSUME NEW v \in Variables
          PROVE  /\ Sound(held'[v], StagedParts', hit)
                 /\ ~SaysReversed(durable') => Behind(held'[v], durable')
                 /\ held'[v].status = "applied" => ~NeedsRecovery(durable')
      <4>1. CASE held'[v] = NoJournal
        BY <1>2, <4>1
      <4>2. CASE held'[v] = held[v]
        <5>1. /\ ~SaysReversed(durable) => Behind(held[v], durable)
              /\ held[v].status = "applied" => ~NeedsRecovery(durable)
          BY <1>1 DEF HeldSafe
        <5> QED BY <1>3, <3>1, <4>2, <5>1
      <4> QED BY <2>1, <4>1, <4>2
    <3> QED BY <1>1, <2>3, <3>2, <3>3, HeldAfter
  <2> QED BY <2>5, <2>6, <2>7
<1>5. CASE Command
  <2>1. pc = "idle" /\ cmd = "none" /\ durable' = durable
    BY <1>1, <1>5 DEF Command, Hold, Undo, Rollback, RecoverRollback, Resume, store, HeldSafe
  <2>2. \A v \in Variables :
          /\ ~SaysReversed(durable) => Behind(held[v], durable)
          /\ held[v].status = "applied" => ~NeedsRecovery(durable)
    BY <1>1 DEF HeldSafe
  <2>3. CASE Hold
    <3>1. cmd' = "none"
      BY <2>1, <2>3 DEF Hold, proc
    <3>2. \A v \in Variables : held'[v] \in {held[v], durable}
      <4>1. held \in [Variables -> Journal]
        BY <1>1 DEF TypeOK
      <4>2. PICK w \in Variables : held' = [held EXCEPT ![w] = durable]
        BY <2>3 DEF Hold
      <4> QED BY <4>1, <4>2
    <3>3. Behind(durable, durable) /\ (durable.status = "applied" => ~NeedsRecovery(durable))
      BY DEF Behind, NeedsRecovery
    <3>4. ASSUME NEW v \in Variables
          PROVE  /\ Sound(held'[v], StagedParts', hit)
                 /\ ~SaysReversed(durable') => Behind(held'[v], durable')
                 /\ held'[v].status = "applied" => ~NeedsRecovery(durable')
      <4>1. CASE held'[v] = durable
        BY <1>1, <2>1, <3>3, <4>1
      <4>2. CASE held'[v] = held[v]
        BY <1>3, <2>1, <2>2, <4>2
      <4> QED BY <3>2, <4>1, <4>2
    <3> QED BY <1>1, <3>1, <3>4, HeldAfter
  <2>4. CASE Undo \/ Rollback \/ RecoverRollback
    <3>1. held' = held /\ cmd' \in {"undo", "rollback", "recover"} /\ pc' # "idle"
      BY <2>4 DEF Undo, Rollback, RecoverRollback, Begin
    <3> QED BY <1>1, <1>3, <2>1, <2>2, <3>1, HeldAfter
  <2>5. CASE Resume
    <3>1. held' = held /\ cmd' = "resume" /\ pc' # "idle" /\ mem' = durable
      BY <2>5 DEF Resume, Begin
    <3>2. NeedsRecovery(durable) /\ ~SaysReversed(durable)
      BY <2>5 DEF Resume, ResumeAccepts, NeedsRecovery, SaysReversed
    <3> QED BY <1>1, <1>3, <2>1, <2>2, <3>1, <3>2, HeldAfter
  <2> QED BY <1>5, <2>3, <2>4, <2>5 DEF Command
<1> QED BY <1>4, <1>5

-----------------------------------------------------------------------------
(* Faults.                                                                 *)

(* A crash forgets the journal in memory and where the command was.        *)
LEMMA CrashSafe ==
  ASSUME PublishedSafe, Crash
  PROVE  PublishedLater' /\ StagedHolds' /\ HeldSafe'
<1>1. Stop /\ UNCHANGED <<op, hit, fs, durable>>
  BY DEF Crash, store, besides
<1>2. op \in Plan /\ StagedHolds
  BY DEF PublishedSafe, RecoverySafe, ItemsSafe, TypeOK
<1>3. StagedParts' = StagedParts /\ StagedParts \subseteq Parts
  <2>1. Parts' = Parts
    BY <1>1 DEF Parts, NumParts
  <2> QED BY <1>1, <2>1 DEF StagedParts, Exists, Stg
<1>4. JournalsSound'
  <2>1. /\ Sound(durable, StagedParts, hit) /\ (NeedsRecovery(durable) => PendingStaged(durable))
        /\ Sound(NoJournal, StagedParts, hit) /\ NoJournal.status = "none"
    BY <1>2, <1>3, NoJournalSound DEF PublishedSafe, JournalsSound, NoJournal
  <2> QED BY <1>1, <1>3, <2>1, JournalsAfter DEF Stop
<1>5. StagedHolds'
  BY <1>1, <1>2, <1>3, FilesAfterwards DEF StagedHolds
<1>6. pc' = "idle"
  BY <1>1 DEF Stop
<1>7. HeldSafe'
  <2>1. \A v \in Variables : held'[v] = NoJournal
    BY DEF Crash
  <2>2. cmd' = "none" /\ Sound(NoJournal, StagedParts', hit)
    BY <1>1, <1>2, <1>3, NoJournalSound DEF Stop
  <2> QED BY <1>1, <1>2, <2>1, <2>2, HeldAfter, NothingDone
<1> QED BY <1>1, <1>4, <1>5, <1>6, <1>7, AtRest DEF PublishedLater, PartPoints

(* Another program touches one more item; the files of the others, and all *)
(* staging files, stay.                                                    *)
LEMMA OutsideSafe ==
  ASSUME PublishedSafe, OutsideChange
  PROVE  PublishedLater' /\ StagedHolds' /\ HeldSafe'
<1>1. /\ UNCHANGED <<op, durable, mem, cmd, pc, at>>
      /\ \E k \in Parts, role \in {"src", "dst"} :
           LET q == <<role, IF role = "src" THEN ItemOf(k) ELSE k>>
           IN /\ fs' \in {[fs EXCEPT ![q] = [id |-> Fresh, data |-> Outside]], Removed(q)}
              /\ hit' = hit \cup {ItemOf(k)}
  BY DEF OutsideChange, proc
<1>2. /\ op \in Plan /\ fs \in [Path -> File] /\ Control /\ StagedHolds
  BY DEF PublishedSafe, RecoverySafe, ItemsSafe, TypeOK
<1>3. Parts \subseteq 1..MaxParts
  BY <1>2, PartsOfItems
<1>4. PICK k \in Parts : \E role \in {"src", "dst"} :
           LET q == <<role, IF role = "src" THEN ItemOf(k) ELSE k>>
           IN /\ fs' \in {[fs EXCEPT ![q] = [id |-> Fresh, data |-> Outside]], Removed(q)}
              /\ hit' = hit \cup {ItemOf(k)}
  BY <1>1
<1>5. PICK q \in {Src(ItemOf(k)), Dst(k)} :
        /\ fs' \in {[fs EXCEPT ![q] = [id |-> Fresh, data |-> Outside]], Removed(q)}
        /\ hit' = hit \cup {ItemOf(k)}
  <2>1. PICK role \in {"src", "dst"} :
           LET q == <<role, IF role = "src" THEN ItemOf(k) ELSE k>>
           IN /\ fs' \in {[fs EXCEPT ![q] = [id |-> Fresh, data |-> Outside]], Removed(q)}
              /\ hit' = hit \cup {ItemOf(k)}
    BY <1>4
  <2>2. <<role, IF role = "src" THEN ItemOf(k) ELSE k>> \in {Src(ItemOf(k)), Dst(k)}
    BY <2>1 DEF Src, Dst
  <2> QED BY <2>1, <2>2
<1>6. \A l \in Path : l # q => fs'[l] = fs[l]
  BY <1>2, <1>5 DEF Removed
<1>7. \A l \in 1..MaxParts : fs'[Stg(l)] = fs[Stg(l)] /\ fs'[Tmp(l)] = fs[Tmp(l)]
  <2>1. \A l \in 1..MaxParts : Stg(l) \in Path /\ Tmp(l) \in Path /\ Stg(l) # q /\ Tmp(l) # q
    BY <1>5, Places, PlacesDiffer
  <2> QED BY <1>6, <2>1
<1>8. \A l \in Parts : ItemOf(l) # ItemOf(k) => fs'[Dst(l)] = fs[Dst(l)]
  <2>1. \A l \in Parts : Dst(l) \in Path /\ Dst(l) # Src(ItemOf(k)) /\ (l # k => Dst(l) # Dst(k))
    BY <1>3, Places, PlacesDiffer
  <2> QED BY <1>5, <1>6, <2>1
<1>9. /\ Parts' = Parts /\ Moving' = Moving
      /\ \A l : ItemOf(l)' = ItemOf(l) /\ Role(mem, l)' = Role(mem, l)
                /\ Stg(l)' = Stg(l) /\ Dst(l)' = Dst(l) /\ Tmp(l)' = Tmp(l)
  BY <1>1 DEF Parts, NumParts, Moving, ItemOf, Role, Stg, Dst, Tmp
<1>10. StagedParts' = StagedParts
  BY <1>3, <1>7, <1>9 DEF StagedParts, Exists
<1>11. \A l : Untouched(l)' => Untouched(l) /\ ItemOf(l) # ItemOf(k)
  BY <1>5, <1>9 DEF Untouched
<1>12. StagedHolds'
  BY <1>2, <1>3, <1>7, <1>9, <1>10, <1>11 DEF StagedHolds, StagedParts
<1>13. DoneHolds'
  BY <1>1, <1>8, <1>9, <1>11 DEF PublishedSafe, DoneHolds, Working
<1>14. CurrentHolds'
  <2>1. pc \in {"rename", "publish_intent", "checkpoint"} => at \in Parts /\ at \in 1..MaxParts
    BY <1>2, <1>3 DEF Control, PartPoints
  <2>2. CurrentHolds
    BY DEF PublishedSafe
  <2>3. /\ pc' = "rename" /\ Untouched(at)' => fs'[Tmp(at)].data = ItemOf(at)
        /\ pc' = "publish_intent" /\ Untouched(at)' => fs'[Stg(at)].data = ItemOf(at)
    BY <1>1, <1>7, <1>11, <2>1, <2>2 DEF CurrentHolds
  <2>4. pc' = "checkpoint" => at \notin StagedParts'
    BY <1>1, <1>10, <2>2 DEF CurrentHolds
  <2>5. pc' = "checkpoint" /\ Untouched(at)' /\ fs'[Dst(at)].id # 0 => fs'[Dst(at)].data = ItemOf(at)
    BY <1>1, <1>8, <1>11, <2>1, <2>2 DEF CurrentHolds, Exists
  <2>6. ItemOf(at)' = ItemOf(at) /\ Tmp(at)' = Tmp(at) /\ Stg(at)' = Stg(at) /\ Dst(at)' = Dst(at)
    BY <1>1 DEF ItemOf, Tmp, Stg, Dst
  <2> QED BY <1>1, <2>3, <2>4, <2>5, <2>6 DEF CurrentHolds, Exists
<1>15. Position'
  BY <1>1, <1>9 DEF PublishedSafe, Position, Working, Role, LastOfItem, IsBackup, NumParts
<1>16. JournalsSound'
  <2>1. hit \subseteq hit'
    BY <1>5
  <2>2. /\ Sound(durable, StagedParts, hit') /\ Sound(mem, StagedParts, hit')
        /\ NeedsRecovery(durable) => PendingStaged(durable)
        /\ cmd \in {"apply", "resume"} => PendingStaged(mem)
        /\ Running => mem.status # "none"
        /\ mem.status = "applied" => pc = "undo"
    BY <2>1, SoundLess DEF PublishedSafe, JournalsSound
  <2> QED BY <1>1, <1>9, <1>10, <2>2
          DEF JournalsSound, Sound, InOrder, LeftToDo, Role, PendingStaged, PendingIn, Running,
              Parts, NumParts, ItemOf
<1>17. HeldSafe'
  <2>1. UNCHANGED held /\ hit \subseteq hit'
    BY <1>5 DEF OutsideChange
  <2>2. \A v \in Variables : Sound(held[v], StagedParts, hit')
    BY <2>1, SoundLess DEF PublishedSafe, HeldSafe
  <2> QED BY <1>1, <1>10, <2>1, <2>2, HeldSame DEF PublishedSafe
<1> QED BY <1>12, <1>13, <1>14, <1>15, <1>16, <1>17 DEF PublishedLater

-----------------------------------------------------------------------------
(* The invariant.                                                          *)

(* It holds at first ...                                                   *)
LEMMA PublishedSafeFirst == Init => PublishedSafe
<1> SUFFICES ASSUME Init PROVE PublishedSafe
  OBVIOUS
<1>1. RecoverySafe
  BY RecoverySafeFirst
<1>2. /\ op \in Plan /\ durable = NoJournal /\ mem = NoJournal
      /\ pc = "planned" /\ cmd = "apply" /\ hit = {}
  BY DEF Init
<1>3. StagedParts = {}
  <2>1. \A k \in Parts : k \in 1..MaxParts
    BY <1>2, PartsOfItems
  <2>2. \A k \in 1..MaxParts : fs[Stg(k)] = NoFile
    <3>1. \A k \in 1..MaxParts : Stg(k) \in Path /\ Stg(k)[1] = "stg"
      BY Places DEF Stg
    <3> QED BY <3>1 DEF Init
  <2> QED BY <2>1, <2>2 DEF StagedParts, Exists, NoFile
<1>4. Sound(NoJournal, StagedParts, hit) /\ NoJournal.status = "none"
  BY <1>2, <1>3, NoJournalSound DEF NoJournal
<1>5. PendingStaged(NoJournal) /\ ~NeedsRecovery(NoJournal)
  <2>1. \A k \in Parts : k \in 1..MaxParts
    BY <1>2, PartsOfItems
  <2> QED BY <2>1 DEF PendingStaged, PendingIn, NoJournal, NoOutput, NeedsRecovery
<1>6. JournalsSound
  BY <1>2, <1>4, <1>5 DEF JournalsSound, Running
<1>7. Position /\ DoneHolds /\ CurrentHolds
  BY <1>2 DEF Position, DoneHolds, CurrentHolds, Working, PartPoints
<1>8. StagedHolds
  BY <1>3 DEF StagedHolds
<1>9. HeldSafe
  <2>1. \A v \in Variables : held[v] = NoJournal
    BY DEF Init
  <2>2. \A k \in Parts : Role(NoJournal, k) = "none"
    <3>1. \A k \in Parts : k \in 1..MaxParts
      BY <1>2, PartsOfItems
    <3> QED BY <3>1 DEF Role, NoJournal, NoOutput
  <2> QED BY <1>2, <1>4, <2>1, <2>2 DEF HeldSafe, Behind
<1> QED BY <1>1, <1>6, <1>7, <1>8, <1>9 DEF PublishedSafe

(* A step that changes none of this keeps it.                              *)
LEMMA PublishedSame ==
  ASSUME PublishedSafe, UNCHANGED <<op, fs, durable, mem, cmd, pc, at, hit>>
  PROVE  PublishedLater' /\ StagedHolds'
<1>1. JournalsSound'
  BY DEF PublishedSafe, JournalsSound, Sound, InOrder, LeftToDo, Role, PendingStaged,
     PendingIn, Running, Parts, NumParts, ItemOf, StagedParts, Exists, Stg, Moving, NeedsRecovery
<1>2. Position'
  BY DEF PublishedSafe, Position, Working, Role, Parts, NumParts, ItemOf, LastOfItem, IsBackup
<1>3. StagedHolds' /\ DoneHolds' /\ CurrentHolds'
  BY DEF PublishedSafe, StagedHolds, DoneHolds, CurrentHolds, Working, Role, Parts,
     NumParts, ItemOf, StagedParts, Exists, Stg, Dst, Tmp, Moving, Untouched
<1> QED BY <1>1, <1>2, <1>3 DEF PublishedLater

(* ... and every step keeps it.                                            *)
LEMMA PublishedSafeStep == PublishedSafe /\ [Next]_vars => PublishedSafe'
<1> SUFFICES ASSUME PublishedSafe, [Next]_vars PROVE PublishedSafe'
  OBVIOUS
<1>1. RecoverySafe'
  BY RecoverySafeStep DEF PublishedSafe
<1>2. CASE Process
  <2>1. StagedHolds'
    BY <1>2, StagedHoldsBy
  <2>2. Hold => PublishedLater'
    BY PublishedSame DEF Hold, store, proc
  <2>3. ~Hold => PublishedLater'
    BY <1>2, StageIntentSafe, StageSafe, StageRenameSafe, DiscardSafe, PublishIntentSafe,
       PublishSafe, MoveIntentSafe, MoveSafe, ApplyStartSafe, ValidateSafe, CheckpointSafe,
       ItemDoneSafe, ResumeSkipSafe, ResumeRefusedSafe, FinishSafe, ApplyFailsSafe,
       RollbackStepSafe, UndoStepSafe, RollbackEndSafe, UndoEndSafe, UnstageSafe, RevalidateSafe,
       UndoSafely, RecoverRollbackSafe, ResumeSafe, ResumeMoveSafe, ResumeStagedSafe
       DEF Process, Apply, Staging, Reversal, Command, Resuming
  <2>4. HeldSafe'
    BY <1>2, HeldSafeBy
  <2> QED BY <1>1, <2>1, <2>2, <2>3, <2>4 DEF PublishedSafe, PublishedLater
<1>3. CASE Crash \/ OutsideChange
  BY <1>1, <1>3, CrashSafe, OutsideSafe DEF PublishedSafe, PublishedLater
<1>4. CASE UNCHANGED vars
  <2>1. UNCHANGED <<op, fs, durable, mem, cmd, pc, at, hit>>
    BY <1>4 DEF vars, store, proc, besides
  <2>2. PublishedLater' /\ StagedHolds'
    BY <2>1, PublishedSame
  <2>3. HeldSafe'
    <3>1. UNCHANGED held
      BY <1>4 DEF vars, besides
    <3>2. StagedParts' = StagedParts
      BY <2>1 DEF StagedParts, Parts, NumParts, Exists, Stg
    <3> QED BY <2>1, <3>1, <3>2, HeldSame DEF PublishedSafe, HeldSafe
  <2> QED BY <1>1, <2>2, <2>3 DEF PublishedSafe, PublishedLater
<1> QED BY <1>2, <1>3, <1>4 DEF Next

-----------------------------------------------------------------------------
(* An apply or a resume that finishes has published everything.            *)
LEMMA FinishedIsPublished ==
  ASSUME PublishedSafe, Finish, durable' # durable
  PROVE  /\ \A k \in Parts : ItemOf(k) \notin hit => fs[Dst(k)].data = ItemOf(k)
         /\ \A k \in Parts : durable'.outputs[k].role = "done"
         /\ durable'.remaining = {} /\ durable'.staging = {}
         /\ \A k \in Parts : ~Exists(Stg(k))
<1>1. op \in Plan /\ mem \in Journal /\ pc = "finish" /\ cmd \in {"apply", "resume"}
  BY DEF PublishedSafe, RecoverySafe, ItemsSafe, TypeOK, Ahead, Finish
<1>2. /\ durable' = [mem EXCEPT !.status = "applied", !.staging = {}]
      /\ cmd = "resume" => mem.remaining = {}
  BY DEF Finish, Put
<1>3. /\ durable'.outputs = mem.outputs /\ durable'.remaining = mem.remaining
      /\ durable'.staging = {}
  BY <1>1, <1>2 DEF Journal
<1>4. \A k \in Parts : k < at
  <2>1. at = NumParts + 1
    BY <1>1 DEF PublishedSafe, Position
  <2> QED BY <1>1, <2>1, PartOrder
<1>5. \A k \in Parts : Role(mem, k) = "done"
  BY <1>1, <1>4 DEF PublishedSafe, Position, Working
<1>6. mem.remaining = {}
  <2>1. CASE cmd = "apply"
    <3>1. \A k \in Parts : LastOfItem(k) => ItemOf(k) \notin mem.remaining
      BY <1>1, <1>4, <2>1 DEF PublishedSafe, Position, Working
    <3>2. NumParts \in Nat \ {0}
      BY <1>1, JournalAssumption DEF NumParts
    <3>3. 1 \in Parts
      BY <3>2 DEF Parts
    <3>4. \A i \in Items : \E l \in Parts : LastOfItem(l) /\ ItemOf(l) = i
      BY <1>1, <3>3, PartOrder
    <3>5. mem.remaining \subseteq Items
      BY <1>1 DEF Journal
    <3> QED BY <3>1, <3>4, <3>5
  <2> QED BY <1>1, <1>2, <2>1
<1>7. \A k \in Parts : ~Exists(Stg(k))
  BY <1>5 DEF PublishedSafe, JournalsSound, Sound, StagedParts
<1>8. \A k \in Parts : ItemOf(k) \notin hit => fs[Dst(k)].data = ItemOf(k)
  BY <1>1, <1>5 DEF PublishedSafe, DoneHolds, Working, Untouched
<1> QED BY <1>3, <1>5, <1>6, <1>7, <1>8 DEF Role

(* No other step makes a journal applied.                                  *)
LEMMA OnlyFinishApplies ==
  ASSUME PublishedSafe, [Next]_vars, durable.status # "applied", durable'.status = "applied"
  PROVE  Finish /\ durable' # durable
<1>1. durable' # durable
  OBVIOUS
<1>2. SUFFICES ASSUME ~Finish PROVE FALSE
  BY <1>1
<1>3. mem \in Journal /\ op \in Plan /\ Control
  BY DEF PublishedSafe, RecoverySafe, ItemsSafe, TypeOK
<1>4. ~Crash /\ ~OutsideChange /\ ~UNCHANGED vars /\ Process
  BY <1>1, <1>2 DEF Next, Crash, OutsideChange, vars, store
<1>5. \/ ApplyStart \/ MoveIntent \/ ApplyFails \/ StageIntent \/ PublishIntent
      \/ Checkpoint \/ ItemDone \/ RollbackEnd \/ UndoEnd \/ ResumeMove
  BY <1>1, <1>2, <1>4
     DEF Process, Apply, Staging, Reversal, Command, Resuming, Validate, Stage, StageRename,
         Discard, Publish, Move, MoveOne, RollbackStep, Reverse, RollbackNext, UndoStep, UndoNext,
         Unstage, Revalidate, Hold, Undo, Rollback, RecoverRollback, Resume, ResumeSkip,
         ResumeStaged, ResumeRefused, store
<1>6. pc \notin {"planned", "idle", "undo"} => mem.status # "applied"
  BY DEF PublishedSafe, JournalsSound
<1>7. pc \in PartPoints => at \in 1..MaxParts
  BY <1>3, PartsOfItems DEF Control
<1>8. \A k \in 1..MaxParts : \A file :
        /\ WithStaging(mem, k).status = mem.status
        /\ WithPending(mem, k, file).status = mem.status
        /\ WithDone(mem, k, file).status = mem.status
  BY <1>3, Entries
<1>9. CASE ApplyStart
  BY <1>1, <1>9 DEF ApplyStart, Put, NoJournal
<1>10. CASE MoveIntent \/ StageIntent \/ PublishIntent \/ Checkpoint \/ ResumeMove
  <2>1. at \in 1..MaxParts /\ pc \notin {"planned", "idle", "undo"}
    BY <1>7, <1>10 DEF MoveIntent, StageIntent, PublishIntent, Checkpoint, ResumeMove, ToResume,
       PartPoints
  <2>2. \/ durable' = mem
        \/ durable' = WithStaging(mem, at)
        \/ \E file : durable' \in {WithPending(mem, at, file), WithDone(mem, at, file)}
    BY <1>1, <1>10 DEF MoveIntent, StageIntent, PublishIntent, Checkpoint, ResumeMove, Put
  <2> QED BY <1>6, <1>8, <2>1, <2>2
<1>11. CASE ItemDone
  <2>1. durable' = [mem EXCEPT !.remaining = @ \ {ItemOf(at)}] /\ pc = "item_done"
    BY <1>1, <1>11 DEF ItemDone, Put
  <2> QED BY <1>3, <1>6, <2>1 DEF Journal
<1>12. CASE ApplyFails
  <2>1. /\ durable' = [mem EXCEPT !.status = IF @ = "in_progress" THEN "failed" ELSE @]
        /\ pc = "fail"
    BY <1>1, <1>12 DEF ApplyFails, Put
  <2>2. durable'.status \in {mem.status, "failed"}
    BY <1>3, <2>1 DEF Journal
  <2> QED BY <1>6, <2>1, <2>2
<1>13. CASE RollbackEnd
  <2>1. \E s \in {"rolled_back", "partially_applied"} : durable' = [mem EXCEPT !.status = s]
    BY <1>1, <1>13 DEF RollbackEnd, Put
  <2>2. durable'.status \in {"rolled_back", "partially_applied"}
    BY <1>3, <2>1 DEF Journal
  <2> QED BY <2>2
<1>14. CASE UndoEnd
  <2>1. durable' = [mem EXCEPT !.status = "undone"]
    BY <1>1, <1>14 DEF UndoEnd, Put
  <2> QED BY <1>3, <2>1 DEF Journal
<1> QED BY <1>5, <1>9, <1>10, <1>11, <1>12, <1>13, <1>14

(* A journal becomes applied only when every item is published and nothing *)
(* is pending, staged or left to do: apply and a resume write the status   *)
(* after their last part only.                                             *)
THEOREM AppliedAlwaysPublished == Spec => AppliedMeansPublished
<1>1. Init => PublishedSafe
  BY PublishedSafeFirst
<1>2. PublishedSafe /\ [Next]_vars => PublishedSafe'
  BY PublishedSafeStep
<1>3. PublishedSafe /\ [Next]_vars =>
        [ durable.status # "applied" /\ durable'.status = "applied" =>
            /\ \A k \in Parts : ItemOf(k) \notin hit => fs[Dst(k)].data = ItemOf(k)
            /\ \A k \in Parts : durable'.outputs[k].role = "done"
            /\ durable'.remaining = {} /\ durable'.staging = {}
            /\ \A k \in Parts : ~Exists(Stg(k)) ]_vars
  BY OnlyFinishApplies, FinishedIsPublished
<1> QED BY <1>1, <1>2, <1>3, PTL DEF Spec, AppliedMeansPublished

-----------------------------------------------------------------------------
(* Recovery of an operation whose commands have only been killed.          *)

(* The operation replaces nothing and stays on its volume, commands have   *)
(* been killed at steps of apply and of resumes, and nothing else has gone *)
(* wrong.                                                                  *)
Calm == OnlyCrashed(faults) /\ ~op.crossing /\ op.before = {}

(* Output k is in its place, the file its entry in the journal j records.  *)
OutThere(f, j, k) ==
  /\ f[Dst(k)].id # 0 /\ f[Dst(k)] = j.outputs[k].file
  /\ f[Stg(k)].id = 0
  /\ Moving => f[Src(k)].id = 0

(* The file recorded for output k waits to be published.                   *)
Waiting(f, j, k) ==
  /\ f[Dst(k)].id = 0
  /\ Moving => j.outputs[k].file = PlannedSource(k) /\ f[Src(k)] = PlannedSource(k)
  /\ ~Moving => f[Stg(k)].id # 0 /\ f[Stg(k)] = j.outputs[k].file

(* The entry of part k agrees with the files f.                            *)
Agrees(f, j, k) ==
  /\ Role(j, k) = "none" => f[Dst(k)].id = 0 /\ (Moving => f[Src(k)] = PlannedSource(k))
  /\ Role(j, k) = "pending" => Waiting(f, j, k) \/ OutThere(f, j, k)
  /\ Role(j, k) = "done" => OutThere(f, j, k)

(* The whole journal does: the sources of copies are in place, only the    *)
(* first part that is not done is staged, and what a transfer has done is  *)
(* not left to do.                                                         *)
Aligned(f, j) ==
  /\ ~Moving => \A i \in Items : f[Src(i)] = PlannedSource(i)
  /\ \A k \in 1..MaxParts :
       f[Stg(k)].id # 0 => k \in Parts /\ \A l \in Parts : l < k => Role(j, l) = "done"
  /\ \A k \in Parts : Agrees(f, j, k)

Dropped(j) ==
  op.kind # "compress" => \A k \in Parts : Role(j, k) = "done" => ItemOf(k) \notin j.remaining

(* Until it is reversed or finished, the journal on disk agrees with the   *)
(* files.                                                                  *)
Followed ==
  (pc = "planned" \/ NeedsRecovery(durable)) /\ pc \notin {"unstage", "rollback", "undo"}

(* The running apply or resume has written its journal, but for the part   *)
(* about to be checkpointed.                                               *)
LoggedPoints == (PartPoints \ {"checkpoint", "discard"}) \cup {"validate", "finish"}

Logged ==
  /\ pc = "planned" => durable = NoJournal
  /\ pc \in LoggedPoints => durable = mem
  /\ pc = "checkpoint" =>
       /\ \A k \in Parts : k # at => mem.outputs[k] = durable.outputs[k]
       /\ mem.status = durable.status /\ mem.remaining = durable.remaining
  /\ cmd = "resume" => pc \in PartPoints \cup {"finish"}
  /\ cmd = "resume" /\ op.kind = "compress" =>
       \A k \in Parts : k < at /\ LastOfItem(k) => ItemOf(k) \notin mem.remaining
  /\ pc = "undo" => cmd = "undo" /\ ~NeedsRecovery(durable)

(* What a step is about to work on is there.                               *)
Smooth ==
  /\ pc \notin {"discard", "fail"}
  /\ pc = "idle" => complete
  /\ pc = "rename" => Exists(Tmp(at))
  /\ pc = "publish_intent" => Exists(Stg(at))
  /\ pc \in {"publish", "move"} => PendingIn(durable, at) /\ ~Exists(Dst(at))
  /\ pc = "checkpoint" => PendingIn(durable, at) /\ Exists(Dst(at))
  /\ pc \in {"unstage", "rollback"} =>
       /\ cmd \in {"rollback", "recover"} /\ complete
       /\ NeedsRecovery(mem) /\ mem.undo_safe
       /\ \A k \in Listed(mem) : pc = "unstage" \/ k <= at => Reversible(mem, k)

Agreement == (Followed => Aligned(fs, durable) /\ Dropped(durable)) /\ Logged /\ Smooth

(* A journal that says its operation can be undone says the truth.         *)
Honest ==
  /\ cmd = "resume" => mem.undo_safe
  /\ pc = "planned" /\ OnlyCrashed(faults) => \A k \in Parts : fs[Dst(k)] = PlannedOutput(k)
  /\ OnlyCrashed(faults) =>
       \A j \in Piped \cup {mem} : j.undo_safe => op.before = {}

Recoverable == PublishedSafe /\ OutsideAway /\ Honest /\ (Calm => Agreement)
(* No count of faults falls, and a step of a command that leaves the calm  *)
(* calm has not failed.                                                    *)
LEMMA FaultsRise ==
  ASSUME TypeOK, NEW x \in FaultKinds, Fault(x)
  PROVE  /\ OnlyCrashed(faults') => OnlyCrashed(faults)
         /\ x \in {"crashed_reversal", "put", "file", "outside"} => ~OnlyCrashed(faults')
<1>1. faults \in [FaultKinds -> 0..MaxFaults] /\ MaxFaults \in Nat
  BY JournalAssumption DEF TypeOK
<1>2. \A y \in FaultKinds : faults[y] \in Nat
  BY <1>1
<1>3. /\ faults'[x] = faults[x] + 1
      /\ \A y \in FaultKinds : y # x => faults'[y] = faults[y]
  BY <1>1 DEF Fault
<1>4. {"crashed_reversal", "put", "file", "outside"} \subseteq FaultKinds
  BY DEF FaultKinds
<1> QED BY <1>2, <1>3, <1>4 DEF OnlyCrashed

LEMMA CalmBefore ==
  ASSUME TypeOK, Next, OnlyCrashed(faults')
  PROVE  OnlyCrashed(faults) /\ (~op'.crossing /\ op'.before = {} => Calm /\ Calm')
<1>1. op' = op
  BY PlanStays
<1>2. OnlyCrashed(faults)
  BY FaultsStep, FaultsRise
<1> QED BY <1>1, <1>2 DEF Calm

LEMMA NothingFails ==
  ASSUME TypeOK, OnlyCrashed(faults')
  PROVE  ~Fault("put") /\ ~Fault("file") /\ ~Fault("outside") /\ ~Fault("crashed_reversal")
BY FaultsRise DEF FaultKinds

(* No operator on journals changes undo_safe.                              *)
LEMMA UndoSafes ==
  ASSUME NEW j \in Journal, NEW k \in 1..MaxParts, NEW file
  PROVE  /\ WithStaging(j, k).undo_safe = j.undo_safe
         /\ WithoutStaging(j, k).undo_safe = j.undo_safe
         /\ WithPending(j, k, file).undo_safe = j.undo_safe
         /\ WithoutOutput(j, k).undo_safe = j.undo_safe
         /\ WithDone(j, k, file).undo_safe = j.undo_safe
         /\ Published(j, k).undo_safe = j.undo_safe
<1>1. /\ WithStaging(j, k).undo_safe = j.undo_safe
      /\ WithoutStaging(j, k).undo_safe = j.undo_safe
      /\ WithPending(j, k, file).undo_safe = j.undo_safe
      /\ WithoutOutput(j, k).undo_safe = j.undo_safe
  BY DEF WithStaging, WithoutStaging, WithPending, WithoutOutput, Journal
<1>2. WithDone(j, k, file).undo_safe = j.undo_safe
  BY DEF WithDone, Journal
<1>3. Published(j, k).undo_safe = j.undo_safe
  BY DEF Published, WithoutStaging, WithoutOutput, Journal
<1> QED BY <1>1, <1>2, <1>3

(* What a step does to undo_safe: it stops, keeps it or begins.            *)
UndoSafeKept ==
  /\ pc' # "planned"
  /\ durable'.undo_safe \in {durable.undo_safe, mem.undo_safe}
  /\ \/ mem' = NoJournal /\ cmd' = "none"
     \/ mem'.undo_safe = mem.undo_safe /\ cmd' = cmd
     \/ \E j \in Piped : mem'.undo_safe = j.undo_safe /\ (cmd' = "resume" => j.undo_safe)

LEMMA UndoSafeMoves ==
  ASSUME TypeOK, Control, Process, ~ApplyStart
  PROVE  UndoSafeKept
<1>1. /\ op \in Plan /\ mem \in Journal /\ durable \in Journal
      /\ pc \in PartPoints => at \in 1..MaxParts
  BY PartsOfItems DEF TypeOK, Control
<1>2. \A k \in 1..MaxParts : \A file :
        /\ WithStaging(mem, k).undo_safe = mem.undo_safe
        /\ WithoutStaging(mem, k).undo_safe = mem.undo_safe
        /\ WithPending(mem, k, file).undo_safe = mem.undo_safe
        /\ WithoutOutput(mem, k).undo_safe = mem.undo_safe
        /\ WithDone(mem, k, file).undo_safe = mem.undo_safe
        /\ Published(mem, k).undo_safe = mem.undo_safe
  BY <1>1, UndoSafes
<1>3. CASE Validate
  BY <1>3 DEF Validate, Fail, Goto, Stop, UndoSafeKept, store
<1>4. CASE StageIntent
  <2>1. at \in 1..MaxParts
    BY <1>1, <1>4 DEF StageIntent, PartPoints
  <2> QED BY <1>2, <1>4, <2>1 DEF StageIntent, Put, Fail, Goto, Stop, UndoSafeKept
<1>5. CASE Stage
  <2>1. at \in 1..MaxParts
    BY <1>1, <1>5 DEF Stage, PartPoints
  <2> QED BY <1>2, <1>5, <2>1 DEF Stage, FailStaged, Goto, Stop, UndoSafeKept
<1>6. CASE StageRename
  <2>1. at \in 1..MaxParts
    BY <1>1, <1>6 DEF StageRename, PartPoints
  <2> QED BY <1>2, <1>6, <2>1 DEF StageRename, FailStaged, Goto, Stop, UndoSafeKept
<1>7. CASE Discard
  BY <1>7 DEF Discard, Fail, Stop, UndoSafeKept
<1>8. CASE PublishIntent
  <2>1. at \in 1..MaxParts
    BY <1>1, <1>8 DEF PublishIntent, PartPoints
  <2> QED BY <1>2, <1>8, <2>1 DEF PublishIntent, Put, FailStaged, Goto, Stop, UndoSafeKept
<1>9. CASE Publish
  <2>1. at \in 1..MaxParts /\ pc = "publish"
    BY <1>1, <1>9 DEF Publish, PartPoints
  <2> QED BY <1>2, <1>9, <2>1 DEF Publish, FailStaged, Goto, Stop, UndoSafeKept, proc
<1>10. CASE MoveIntent
  <2>1. at \in 1..MaxParts
    BY <1>1, <1>10 DEF MoveIntent, PartPoints
  <2> QED BY <1>2, <1>10, <2>1 DEF MoveIntent, Put, Fail, Goto, Stop, UndoSafeKept
<1>11. CASE Move
  <2>1. at \in 1..MaxParts /\ pc = "move"
    BY <1>1, <1>11 DEF Move, PartPoints
  <2> QED BY <1>2, <1>11, <2>1 DEF Move, MoveOne, Fail, Goto, Stop, UndoSafeKept, proc
<1>12. CASE Checkpoint
  <2>1. at \in 1..MaxParts
    BY <1>1, <1>12 DEF Checkpoint, PartPoints
  <2>2. \/ mem' \in {mem, WithDone(mem, at, fs[Dst(at)])} /\ cmd' = cmd
        \/ mem' = NoJournal /\ cmd' = "none"
    BY <1>12 DEF Checkpoint, Put, Fail, AfterCheckpoint, Goto, Stop
  <2>3. durable' \in {durable, WithDone(mem, at, fs[Dst(at)])}
    BY <1>12 DEF Checkpoint, Put
  <2>4. pc' # "planned"
    BY <1>12 DEF Checkpoint, Put, Fail, AfterCheckpoint, Goto, Stop, Loop
  <2> QED BY <1>2, <2>1, <2>2, <2>3, <2>4 DEF UndoSafeKept
<1>13. CASE ItemDone
  <2> DEFINE j == [mem EXCEPT !.remaining = @ \ {ItemOf(at)}]
  <2>1. j.undo_safe = mem.undo_safe
    BY <1>1 DEF Journal
  <2>0. \/ durable' = j /\ mem' = j /\ Goto(Loop(at + 1), at + 1)
        \/ UNCHANGED durable /\ Fail("fail", j)
    BY <1>13 DEF ItemDone, Put
  <2> HIDE DEF j
  <2>2. \/ mem' = j /\ cmd' = cmd
        \/ mem' = NoJournal /\ cmd' = "none"
    BY <2>0 DEF Fail, Goto, Stop
  <2>3. durable' \in {durable, j}
    BY <2>0
  <2>4. pc' # "planned"
    BY <1>13 DEF ItemDone, Put, Fail, Goto, Stop, Loop
  <2> QED BY <2>1, <2>2, <2>3, <2>4 DEF UndoSafeKept
<1>14. CASE Finish
  <2> DEFINE j == [mem EXCEPT !.status = "applied", !.staging = {}]
  <2>1. j.undo_safe = mem.undo_safe
    BY <1>1 DEF Journal
  <2>2. durable' \in {durable, j} /\ Stop
    BY <1>14 DEF Finish, Put
  <2> QED BY <2>1, <2>2 DEF UndoSafeKept, Stop
<1>15. CASE ApplyFails
  <2> DEFINE j == [mem EXCEPT !.status = IF @ = "in_progress" THEN "failed" ELSE @]
  <2>1. j.undo_safe = mem.undo_safe
    BY <1>1 DEF Journal
  <2>2. durable' \in {durable, j} /\ Stop
    BY <1>15 DEF ApplyFails, Put
  <2> QED BY <2>1, <2>2 DEF UndoSafeKept, Stop
<1>16. CASE RollbackStep
  <2>1. pc = "rollback" /\ UNCHANGED <<durable, mem, cmd, pc>>
    BY <1>16 DEF RollbackStep, Reverse, MoveOne, RollbackNext, proc
  <2> QED BY <2>1 DEF UndoSafeKept
<1>17. CASE RollbackEnd
  <2>1. \A s : [mem EXCEPT !.status = s].undo_safe = mem.undo_safe
    BY <1>1 DEF Journal
  <2>2. PICK s \in {"rolled_back", "partially_applied"} :
          /\ durable' \in {durable, [mem EXCEPT !.status = s]}
          /\ \/ mem' = [mem EXCEPT !.status = s] /\ cmd' = cmd
             \/ mem' = NoJournal /\ cmd' = "none"
    BY <1>17 DEF RollbackEnd, Put, Goto, Stop
  <2>3. pc' # "planned"
    BY <1>17 DEF RollbackEnd, Put, Goto, Stop
  <2> QED BY <2>1, <2>2, <2>3 DEF UndoSafeKept
<1>18. CASE UndoStep
  <2>1. /\ pc = "undo" /\ UNCHANGED durable
        /\ UNCHANGED <<mem, cmd, pc>> \/ Stop
    BY <1>18 DEF UndoStep, Reverse, MoveOne, UndoNext, proc
  <2> QED BY <2>1 DEF UndoSafeKept, Stop
<1>19. CASE UndoEnd
  <2>1. [mem EXCEPT !.status = "undone"].undo_safe = mem.undo_safe
    BY <1>1 DEF Journal
  <2>2. durable' \in {durable, [mem EXCEPT !.status = "undone"]} /\ Stop
    BY <1>19 DEF UndoEnd, Put
  <2> QED BY <2>1, <2>2 DEF UndoSafeKept, Stop
<1>20. CASE Unstage
  <2>1. pc = "unstage" /\ UNCHANGED durable
    BY <1>20 DEF Unstage
  <2>2. (\E k \in mem.staging : mem' = WithoutStaging(mem, k) /\ UNCHANGED <<cmd, pc>>) \/ Stop
    BY <1>20 DEF Unstage
  <2>3. \A k \in mem.staging : k \in 1..MaxParts
    BY <1>1 DEF Journal
  <2> QED BY <1>2, <2>1, <2>2, <2>3 DEF UndoSafeKept, Stop
<1>21. CASE Revalidate
  BY <1>21 DEF Revalidate, Goto, Stop, UndoSafeKept, store
<1>22. CASE Undo \/ Rollback
  <2>1. PICK j \in Piped : mem' = j
    BY <1>22 DEF Undo, Rollback, Begin
  <2>2. UNCHANGED durable /\ pc' # "planned" /\ cmd' # "resume"
    BY <1>22 DEF Undo, Rollback, Begin, store
  <2> QED BY <2>1, <2>2 DEF UndoSafeKept
<1>23. CASE RecoverRollback
  <2>1. WithoutUnpublished(durable).undo_safe = durable.undo_safe
    BY <1>1 DEF WithoutUnpublished, Journal
  <2>2. durable \in Piped
    BY DEF Piped
  <2> QED BY <1>23, <2>1, <2>2 DEF RecoverRollback, Begin, UndoSafeKept, store
<1>24. CASE Resume
  <2>1. durable \in Piped
    BY DEF Piped
  <2> QED BY <1>24, <2>1 DEF Resume, ResumeAccepts, Begin, UndoSafeKept, store
<1>25. CASE ResumeSkip
  <2>1. pc' # "planned" /\ UNCHANGED <<durable, mem, cmd>>
    BY <1>25 DEF ResumeSkip, AfterCheckpoint, Goto, Loop, store
  <2> QED BY <2>1 DEF UndoSafeKept
<1>26. CASE ResumeRefused
  BY <1>26 DEF ResumeRefused, Stop, UndoSafeKept, store
<1>27. CASE ResumeStaged
  <2>1. at \in 1..MaxParts
    BY <1>1, <1>27 DEF ResumeStaged, ToResume, PartPoints
  <2> DEFINE existing == {k \in mem.staging : Exists(Stg(k))}
             j == [WithoutOutput(mem, at) EXCEPT !.staging = existing]
  <2>2. j.undo_safe = mem.undo_safe
    <3>1. WithoutOutput(mem, at) \in Journal
      BY <1>1, <2>1, JournalsTyped, NoJournalTyped
    <3> HIDE DEF existing
    <3>2. j.undo_safe = WithoutOutput(mem, at).undo_safe
      BY <3>1 DEF Journal
    <3> QED BY <1>2, <2>1, <3>2
  <2>3. /\ UNCHANGED durable
        /\ \/ mem' \in {Published(mem, at), j} /\ Goto("checkpoint", at)
           \/ Stop
    BY <1>27 DEF ResumeStaged
  <2> HIDE DEF j
  <2>4. CASE mem' \in {Published(mem, at), j} /\ Goto("checkpoint", at)
    BY <1>2, <2>1, <2>2, <2>3, <2>4 DEF UndoSafeKept, Goto
  <2> QED BY <2>3, <2>4 DEF UndoSafeKept, Stop
<1>28. CASE ResumeMove
  <2>1. at \in 1..MaxParts
    BY <1>1, <1>28 DEF ResumeMove, ToResume, PartPoints
  <2>2. /\ durable' \in {durable, mem, WithPending(mem, at, PlannedSource(at))}
        /\ \/ /\ mem' \in {mem, WithPending(mem, at, PlannedSource(at)), WithoutOutput(mem, at)}
              /\ cmd' = cmd /\ pc' # "planned"
           \/ Stop
    BY <1>28 DEF ResumeMove, Put, Goto
  <2> QED BY <1>2, <2>1, <2>2 DEF UndoSafeKept, Stop
<1>29. CASE Hold
  BY <1>29 DEF Hold, UndoSafeKept, store, proc
<1> QED BY <1>29, <1>3, <1>4, <1>5, <1>6, <1>7, <1>8, <1>9, <1>10, <1>11, <1>12, <1>13, <1>14,
          <1>15, <1>16, <1>17, <1>18, <1>19, <1>20, <1>21, <1>22, <1>23, <1>24, <1>25,
          <1>26, <1>27, <1>28
       DEF Process, Apply, Staging, Reversal, Command, Resuming

(* A journal that can be piped after a step could be before, or is the one *)
(* on disk.                                                                *)
LEMMA PipedStep ==
  ASSUME TypeOK, Next
  PROVE  Piped' \subseteq Piped \cup {durable', NoJournal}
<1>1. \A v \in Variables : held'[v] \in {held[v], durable, NoJournal}
  <2>1. held \in [Variables -> Journal]
    BY DEF TypeOK
  <2>2. CASE UNCHANGED held
    BY <2>2
  <2>3. CASE held' = [v \in Variables |-> NoJournal]
    BY <2>3
  <2>4. CASE \E v \in Variables : held' = [held EXCEPT ![v] = durable]
    <3>1. PICK w \in Variables : held' = [held EXCEPT ![w] = durable]
      BY <2>4
    <3> QED BY <2>1, <3>1
  <2> QED BY <2>2, <2>3, <2>4, HeldStep
<1> QED BY <1>1 DEF Piped

(* So a journal that can be undone is one of an operation that replaces    *)
(* nothing, and only such a journal is resumed.                            *)
LEMMA HonestStep == PublishedSafe /\ Honest /\ [Next]_vars => Honest'
<1> SUFFICES ASSUME PublishedSafe, Honest, [Next]_vars PROVE Honest'
  OBVIOUS
<1>1. /\ TypeOK /\ Control /\ op \in Plan /\ fs \in [Path -> File]
      /\ pc \in {"planned", "validate"} => cmd = "apply"
  BY DEF PublishedSafe, RecoverySafe, ItemsSafe, TypeOK, Ahead
<1>2. CASE UNCHANGED vars
  <2>1. Piped' = Piped
    BY <1>2 DEF vars, store, besides, Piped
  <2> QED BY <1>2, <2>1 DEF Honest, vars, store, proc, Parts, NumParts, PlannedOutput
<1>3. ASSUME Next
      PROVE  /\ op' = op /\ (OnlyCrashed(faults') => OnlyCrashed(faults))
             /\ Piped' \subseteq Piped \cup {durable', NoJournal} /\ durable \in Piped
  BY <1>1, <1>3, PlanStays, CalmBefore, PipedStep DEF Piped
<1>0. NoJournal.undo_safe = FALSE
  BY DEF NoJournal
<1>4. CASE ApplyStart
  <2>1. Next
    BY <1>4 DEF Next, Process, Apply
  <2> DEFINE j == [NoJournal EXCEPT !.status = "in_progress", !.undo_safe = UndoSafe,
                             !.remaining = Items]
  <2>2. /\ durable' \in {durable, j} /\ mem' \in {j, NoJournal}
        /\ pc' # "planned" /\ pc = "planned" /\ cmd' # "resume"
    BY <1>1, <1>4 DEF ApplyStart, Put, Goto, Stop
  <2>3. j.undo_safe = UndoSafe
    BY DEF NoJournal
  <2>4. OnlyCrashed(faults) /\ UndoSafe => op.before = {}
    <3>1. SUFFICES ASSUME OnlyCrashed(faults), UndoSafe, op.before # {} PROVE FALSE
      OBVIOUS
    <3>2. op.kind # "delete"
      BY <1>1, <3>1 DEF Plan
    <3>3. CASE op.kind = "compress"
      <4>1. \A k \in Parts : ~Exists(Dst(k)) /\ fs[Dst(k)] = PlannedOutput(k)
        BY <2>2, <3>1, <3>2, <3>3 DEF UndoSafe, Honest
      <4>2. PICK k \in op.before : k \in Parts
        BY <1>1, <3>1 DEF Plan, Parts, NumParts
      <4>3. PlannedOutput(k).id = N + k /\ k > 0 /\ k \in Nat
        BY <1>1, <4>2, PartOrder DEF PlannedOutput
      <4> QED BY <4>1, <4>2, <4>3, JournalAssumption DEF Exists
    <3>4. CASE op.kind # "compress"
      BY <3>1, <3>2, <3>4 DEF UndoSafe
    <3> QED BY <3>3, <3>4
  <2> HIDE DEF j
  <2> QED BY <1>0, <1>3, <2>1, <2>2, <2>3, <2>4 DEF Honest
<1>5. CASE Process /\ ~ApplyStart
  <2>1. UndoSafeKept
    BY <1>1, <1>5, UndoSafeMoves
  <2>2. Next
    BY <1>5 DEF Next
  <2>3. ASSUME NEW j \in Piped' \cup {mem'}, j.undo_safe
        PROVE  \E i \in Piped \cup {mem} : i.undo_safe
    BY <1>0, <1>3, <2>1, <2>2, <2>3 DEF UndoSafeKept
  <2>4. cmd' = "resume" => mem'.undo_safe
    BY <2>1 DEF Honest, UndoSafeKept
  <2>5. pc' # "planned"
    BY <2>1 DEF UndoSafeKept
  <2> QED BY <1>3, <2>2, <2>3, <2>4, <2>5 DEF Honest
<1>6. CASE Crash
  <2>1. pc' # "planned" /\ cmd' = "none" /\ mem' = NoJournal /\ durable' = durable /\ Next
    BY <1>6 DEF Crash, Stop, store, Next
  <2> QED BY <1>0, <1>3, <2>1 DEF Honest
<1>7. CASE OutsideChange
  <2>1. Next /\ UNCHANGED <<durable, mem, cmd, pc>>
    BY <1>7 DEF OutsideChange, Next, proc
  <2>2. ~OnlyCrashed(faults')
    BY <1>1, <1>7, NothingFails DEF OutsideChange
  <2> QED BY <2>1, <2>2 DEF Honest
<1> QED BY <1>2, <1>4, <1>5, <1>6, <1>7 DEF Next

-----------------------------------------------------------------------------
(* The journal follows the files.                                          *)

(* A change of files that shows at no output, source or staging file, with *)
(* a journal that has the same entries.                                    *)
LEMMA AlignedSame ==
  ASSUME op \in Plan, NEW f, NEW j, Aligned(f, j), NEW g, NEW i,
         \A k \in Items : g[Src(k)] = f[Src(k)],
         \A k \in 1..MaxParts : g[Dst(k)] = f[Dst(k)] /\ g[Stg(k)] = f[Stg(k)],
         \A k \in Parts : i.outputs[k] = j.outputs[k]
  PROVE  Aligned(g, i)
<1>1. Parts \subseteq 1..MaxParts /\ (Moving => Parts = Items)
  BY PartsOfItems
<1>2. ASSUME NEW k \in Parts PROVE Agrees(g, i, k) /\ Role(i, k) = Role(j, k)
  <2>1. /\ Role(i, k) = Role(j, k) /\ i.outputs[k].file = j.outputs[k].file
        /\ g[Dst(k)] = f[Dst(k)] /\ g[Stg(k)] = f[Stg(k)] /\ (Moving => g[Src(k)] = f[Src(k)])
    BY <1>1, <1>2 DEF Role
  <2>2. Agrees(f, j, k)
    BY <1>2 DEF Aligned
  <2> QED BY <2>1, <2>2 DEF Agrees, Waiting, OutThere
<1> QED BY <1>2 DEF Aligned

(* A change at one part, whose entry is in its turn and agrees again.      *)
LEMMA AlignedPart ==
  ASSUME op \in Plan, NEW f, NEW j, Aligned(f, j), NEW g, NEW i, NEW k \in Parts,
         Role(j, k) # "done",
         \A l \in Parts : l < k => Role(j, l) = "done",
         \A l \in Items : l # k \/ ~Moving => g[Src(l)] = f[Src(l)],
         \A l \in 1..MaxParts : l # k => g[Dst(l)] = f[Dst(l)] /\ g[Stg(l)] = f[Stg(l)],
         \A l \in Parts : l # k => i.outputs[l] = j.outputs[l],
         Agrees(g, i, k)
  PROVE  Aligned(g, i)
<1>1. Parts \subseteq 1..MaxParts /\ (Moving => Parts = Items) /\ Parts \subseteq Int
  BY PartsOfItems DEF Parts
<1>2. ASSUME NEW l \in Parts, l # k PROVE Agrees(g, i, l) /\ Role(i, l) = Role(j, l)
  <2>1. /\ Role(i, l) = Role(j, l) /\ i.outputs[l].file = j.outputs[l].file
        /\ g[Dst(l)] = f[Dst(l)] /\ g[Stg(l)] = f[Stg(l)] /\ (Moving => g[Src(l)] = f[Src(l)])
    BY <1>1, <1>2 DEF Role
  <2>2. Agrees(f, j, l)
    BY <1>2 DEF Aligned
  <2> QED BY <2>1, <2>2 DEF Agrees, Waiting, OutThere
<1>3. ASSUME NEW l \in 1..MaxParts, g[Stg(l)].id # 0
      PROVE  l \in Parts /\ \A m \in Parts : m < l => Role(i, m) = "done"
  <2>1. CASE l = k
    <3>1. \A m \in Parts : m < k => m # k
      BY <1>1
    <3> QED BY <1>2, <2>1, <3>1
  <2>2. CASE l # k
    <3>1. l \in Parts /\ \A m \in Parts : m < l => Role(j, m) = "done"
      BY <1>3, <2>2 DEF Aligned
    <3>2. ~(k < l)
      BY <3>1
    <3> QED BY <1>2, <3>1, <3>2
  <2> QED BY <2>1, <2>2
<1> QED BY <1>2, <1>3 DEF Aligned

(* Agreement after a step, by where the step leads.                        *)
LEMMA AgreementAfter ==
  ASSUME op' = op
  PROVE  Agreement' <=>
    /\ (pc' = "planned" \/ NeedsRecovery(durable')) /\ pc' \notin {"unstage", "rollback", "undo"}
         => Aligned(fs', durable') /\ Dropped(durable')
    /\ pc' = "planned" => durable' = NoJournal
    /\ pc' \in LoggedPoints => durable' = mem'
    /\ pc' = "checkpoint" =>
         /\ \A k \in Parts : k # at' => mem'.outputs[k] = durable'.outputs[k]
         /\ mem'.status = durable'.status /\ mem'.remaining = durable'.remaining
    /\ cmd' = "resume" => pc' \in PartPoints \cup {"finish"}
    /\ cmd' = "resume" /\ op.kind = "compress" =>
         \A k \in Parts : k < at' /\ LastOfItem(k) => ItemOf(k) \notin mem'.remaining
    /\ pc' = "undo" => cmd' = "undo" /\ ~NeedsRecovery(durable')
    /\ pc' \notin {"discard", "fail"}
    /\ pc' = "idle" => complete'
    /\ pc' = "rename" => fs'[Tmp(at')].id # 0
    /\ pc' = "publish_intent" => fs'[Stg(at')].id # 0
    /\ pc' \in {"publish", "move"} => Role(durable', at') = "pending" /\ fs'[Dst(at')].id = 0
    /\ pc' = "checkpoint" => Role(durable', at') = "pending" /\ fs'[Dst(at')].id # 0
    /\ pc' \in {"unstage", "rollback"} =>
         /\ cmd' \in {"rollback", "recover"} /\ complete'
         /\ NeedsRecovery(mem') /\ mem'.undo_safe
         /\ \A k \in Parts : Role(mem', k) # "none" /\ (pc' = "unstage" \/ k <= at') =>
              /\ fs'[Dst(k)].id # 0 /\ fs'[Dst(k)] = mem'.outputs[k].file
              /\ Moving => fs'[Src(k)].id = 0
<1>1. Followed' <=> /\ pc' = "planned" \/ NeedsRecovery(durable')
                    /\ pc' \notin {"unstage", "rollback", "undo"}
  BY DEF Followed, NeedsRecovery
<1>2. /\ Aligned(fs, durable)' <=> Aligned(fs', durable')
      /\ Dropped(durable)' <=> Dropped(durable')
  <2>1. Aligned(fs, durable)' <=> Aligned(fs', durable')
    BY DEF Aligned, Agrees, Waiting, OutThere, Role, Moving, Parts, NumParts, Src, Dst, Stg,
           PlannedSource
  <2>2. Dropped(durable)' <=> Dropped(durable')
    BY DEF Dropped, Role, Parts, NumParts, ItemOf
  <2> QED BY <2>1, <2>2
<1>3. Logged' <=>
    /\ pc' = "planned" => durable' = NoJournal
    /\ pc' \in LoggedPoints => durable' = mem'
    /\ pc' = "checkpoint" =>
         /\ \A k \in Parts : k # at' => mem'.outputs[k] = durable'.outputs[k]
         /\ mem'.status = durable'.status /\ mem'.remaining = durable'.remaining
    /\ cmd' = "resume" => pc' \in PartPoints \cup {"finish"}
    /\ cmd' = "resume" /\ op.kind = "compress" =>
         \A k \in Parts : k < at' /\ LastOfItem(k) => ItemOf(k) \notin mem'.remaining
    /\ pc' = "undo" => cmd' = "undo" /\ ~NeedsRecovery(durable')
  BY DEF Logged, Parts, NumParts, ItemOf, LastOfItem, IsBackup, NoJournal, LoggedPoints, PartPoints
<1>4. Smooth' <=>
    /\ pc' \notin {"discard", "fail"}
    /\ pc' = "idle" => complete'
    /\ pc' = "rename" => fs'[Tmp(at')].id # 0
    /\ pc' = "publish_intent" => fs'[Stg(at')].id # 0
    /\ pc' \in {"publish", "move"} => Role(durable', at') = "pending" /\ fs'[Dst(at')].id = 0
    /\ pc' = "checkpoint" => Role(durable', at') = "pending" /\ fs'[Dst(at')].id # 0
    /\ pc' \in {"unstage", "rollback"} =>
         /\ cmd' \in {"rollback", "recover"} /\ complete'
         /\ NeedsRecovery(mem') /\ mem'.undo_safe
         /\ \A k \in Parts : Role(mem', k) # "none" /\ (pc' = "unstage" \/ k <= at') =>
              /\ fs'[Dst(k)].id # 0 /\ fs'[Dst(k)] = mem'.outputs[k].file
              /\ Moving => fs'[Src(k)].id = 0
  <2>1. Moving' = Moving /\ Parts' = Parts
    BY DEF Moving, Parts, NumParts
  <2> QED BY <2>1 DEF Smooth, Exists, Tmp, Stg, Dst, Src, PendingIn, Role, NeedsRecovery, Listed,
              Reversible, Valid
<1> QED BY <1>1, <1>2, <1>3, <1>4 DEF Agreement
(* Steps that lead to a part, with the journal written.                    *)
LEMMA CalmOn ==
  ASSUME op' = op, pc' \in LoggedPoints, durable' = mem',
         Aligned(fs', durable'), Dropped(durable'),
         cmd' = "resume" => pc' # "validate",
         cmd' = "resume" /\ op.kind = "compress" =>
           \A k \in Parts : k < at' /\ LastOfItem(k) => ItemOf(k) \notin mem'.remaining,
         pc' = "rename" => fs'[Tmp(at')].id # 0,
         pc' = "publish_intent" => fs'[Stg(at')].id # 0,
         pc' \in {"publish", "move"} => Role(durable', at') = "pending" /\ fs'[Dst(at')].id = 0
  PROVE  Agreement'
<1>1. pc' \notin {"planned", "idle", "checkpoint", "discard", "undo", "fail", "unstage", "rollback"}
  BY DEF LoggedPoints, PartPoints
<1>2. cmd' = "resume" => pc' \in PartPoints \cup {"finish"}
  BY DEF LoggedPoints
<1> QED BY <1>1, <1>2, AgreementAfter

(* ... to the checkpoint of one ...                                        *)
LEMMA CalmCheckpoint ==
  ASSUME op' = op, pc' = "checkpoint",
         Aligned(fs', durable'), Dropped(durable'),
         \A k \in Parts : k # at' => mem'.outputs[k] = durable'.outputs[k],
         mem'.status = durable'.status, mem'.remaining = durable'.remaining,
         cmd' = "resume" /\ op.kind = "compress" =>
           \A k \in Parts : k < at' /\ LastOfItem(k) => ItemOf(k) \notin mem'.remaining,
         Role(durable', at') = "pending", fs'[Dst(at')].id # 0
  PROVE  Agreement'
<1>1. pc' \in PartPoints \ LoggedPoints
  BY DEF LoggedPoints, PartPoints
<1> QED BY <1>1, AgreementAfter

(* ... and out of a command.                                               *)
LEMMA CalmStop ==
  ASSUME op' = op, pc' = "idle", cmd' = "none", complete',
         NeedsRecovery(durable') => Aligned(fs', durable') /\ Dropped(durable')
  PROVE  Agreement'
<1>1. pc' \notin PartPoints \cup LoggedPoints
  BY DEF LoggedPoints, PartPoints
<1> QED BY <1>1, AgreementAfter

(* What a step of a calm apply or resume starts from.                      *)
CalmStep ==
  /\ PublishedSafe /\ OutsideAway /\ Honest
  /\ Calm /\ Agreement /\ OnlyCrashed(faults')

LEMMA CalmFacts ==
  ASSUME CalmStep, Process
  PROVE  /\ op' = op /\ op \in Plan /\ mem \in Journal /\ durable \in Journal
         /\ fs \in [Path -> File] /\ \A p \in Path : fs[p].id = 0 => fs[p] = NoFile
         /\ NoFile.id = 0 /\ ~half /\ ~op.crossing
         /\ ~Fault("put") /\ ~Fault("file") /\ ~Fault("outside") /\ ~Fault("crashed_reversal")
         /\ \A k \in 1..MaxParts : Dst(k) \in Path /\ Stg(k) \in Path /\ Tmp(k) \in Path
         /\ \A i \in Items : Src(i) \in Path /\ PlannedSource(i).id # 0
         /\ Parts \subseteq 1..MaxParts /\ (Moving => Parts = Items)
<1>1. TypeOK /\ fs \in Files
  BY DEF CalmStep, PublishedSafe, RecoverySafe, ItemsSafe
<1>2. op' = op
  BY HitKept
<1>3. ~half /\ ~op.crossing
  BY DEF CalmStep, OutsideAway, Calm
<1>4. ~Fault("put") /\ ~Fault("file") /\ ~Fault("outside") /\ ~Fault("crashed_reversal")
  BY <1>1, NothingFails DEF CalmStep
<1>5. \A i \in Items : PlannedSource(i).id # 0
  BY JournalAssumption DEF PlannedSource, Items
<1>6. /\ op \in Plan /\ mem \in Journal /\ durable \in Journal
      /\ fs \in [Path -> File] /\ \A p \in Path : fs[p].id = 0 => fs[p] = NoFile
  BY <1>1 DEF TypeOK, Files
<1> QED BY <1>2, <1>3, <1>4, <1>5, <1>6, Places, PartsOfItems DEF NoFile

(* At work on a part, the journal needs recovery and agrees with the files.*)
LEMMA CalmWork ==
  ASSUME CalmStep, pc \in PartPoints \cup {"validate", "finish"}
  PROVE  /\ NeedsRecovery(durable) /\ mem.status = durable.status
         /\ Aligned(fs, durable) /\ Dropped(durable)
         /\ mem.remaining = durable.remaining
         /\ pc # "checkpoint" => durable = mem
         /\ pc # "discard"
<1>1. TypeOK /\ Logged /\ Smooth /\ Reversed /\ JournalsSound
  BY DEF CalmStep, Agreement, PublishedSafe, RecoverySafe, ItemsSafe
<1>2. pc \notin {"planned", "idle", "unstage", "rollback", "undo", "fail", "discard"}
  BY <1>1 DEF PartPoints, Smooth
<1>3. pc # "checkpoint" => durable = mem
  BY <1>1, <1>2 DEF Logged, LoggedPoints
<1>4. mem.status = durable.status /\ mem.remaining = durable.remaining
  BY <1>1, <1>3 DEF Logged
<1>5. mem.status \notin {"none", "applied", "rolled_back", "undone"}
  BY <1>1, <1>2 DEF JournalsSound, Running, Reversed, SaysReversed
<1>6. mem.status \in Statuses
  BY <1>1 DEF TypeOK, Journal
<1>7. NeedsRecovery(durable)
  BY <1>4, <1>5, <1>6 DEF NeedsRecovery, Statuses
<1>8. Aligned(fs, durable) /\ Dropped(durable)
  BY <1>2, <1>7 DEF CalmStep, Agreement, Followed
<1> QED BY <1>2, <1>3, <1>4, <1>7, <1>8

(* In its turn a part that is not done has every earlier part done.        *)
LEMMA CalmPart ==
  ASSUME CalmStep, Process, pc \in PartPoints
  PROVE  /\ at \in Parts /\ at \in 1..MaxParts /\ at \in Nat
         /\ cmd \in {"apply", "resume"}
         /\ Agrees(fs, durable, at)
         /\ \A l \in Parts : l < at => Role(durable, l) = "done"
         /\ \A l \in Parts : l # at => mem.outputs[l] = durable.outputs[l]
         /\ pc \notin {"intent", "item_done"} => Role(durable, at) # "done"
         /\ cmd = "resume" /\ op.kind = "compress" =>
              \A k \in Parts : k < at /\ LastOfItem(k) => ItemOf(k) \notin mem.remaining
         /\ pc \in StagedPoints => ~Moving
<1>1. PublishedSafe /\ Position /\ Logged /\ Control
  BY DEF CalmStep, PublishedSafe, Agreement, RecoverySafe, ItemsSafe
<1>2. /\ at \in Parts /\ at \in 1..MaxParts /\ at \in Nat /\ Parts \subseteq Nat
      /\ cmd \in {"apply", "resume"}
  BY <1>1, PartFacts DEF Parts
<1>3. Aligned(fs, durable) /\ (pc # "checkpoint" => durable = mem)
  BY CalmWork
<1>4. \A l \in Parts : l # at => mem.outputs[l] = durable.outputs[l]
  BY <1>1, <1>3 DEF Logged
<1>5. \A l \in Parts : l < at => Role(durable, l) = "done"
  <2>1. \A l \in Parts : l < at => Role(mem, l) = "done" /\ l # at
    BY <1>1, <1>2 DEF Position, Working
  <2> QED BY <1>4, <2>1 DEF Role
<1>6. pc \notin {"intent", "item_done"} => Role(durable, at) # "done"
  BY <1>1 DEF Position
<1> QED BY <1>1, <1>2, <1>3, <1>4, <1>5, <1>6 DEF Aligned, Logged, Control

(* What carries a resume of a move or an archive on.                       *)
CarriesOn ==
  cmd = "resume" /\ op.kind \in {"move", "compress"} =>
    pc' # "idle" \/ durable'.status = "applied"

LEMMA ApplyStartCalm ==
  ASSUME CalmStep, ApplyStart
  PROVE  Agreement' /\ CarriesOn
<1>1. Process
  BY DEF Process, Apply
<1>2. /\ op' = op /\ op \in Plan /\ durable = NoJournal /\ ~Fault("put") /\ cmd = "apply"
      /\ Aligned(fs, durable) /\ Parts \subseteq 1..MaxParts
  BY <1>1, CalmFacts
     DEF ApplyStart, CalmStep, Agreement, Logged, Followed, PublishedSafe, RecoverySafe, Ahead
<1> DEFINE j == [NoJournal EXCEPT !.status = "in_progress", !.undo_safe = UndoSafe,
                             !.remaining = Items]
<1>3. durable' = j /\ mem' = j /\ Goto("validate", 0) /\ fs' = fs
  BY <1>2 DEF ApplyStart, Put
<1>4. /\ j.outputs = NoJournal.outputs
      /\ \A k \in 1..MaxParts : NoJournal.outputs[k] = NoOutput
  BY DEF NoJournal
<1> HIDE DEF j
<1>5. Aligned(fs', durable')
  BY <1>2, <1>3, <1>4, AlignedSame
<1>6. Dropped(durable')
  BY <1>2, <1>3, <1>4 DEF Dropped, Role, NoOutput
<1> QED BY <1>2, <1>3, <1>5, <1>6, CalmOn DEF Goto, LoggedPoints, CarriesOn

LEMMA ValidateCalm ==
  ASSUME CalmStep, Validate
  PROVE  Agreement' /\ CarriesOn
<1>1. Process /\ pc = "validate"
  BY DEF Process, Apply, Validate
<1>2. /\ op' = op /\ op \in Plan /\ Parts \subseteq 1..MaxParts /\ (Moving => Parts = Items)
      /\ \A p \in Path : fs[p].id = 0 => fs[p] = NoFile
      /\ \A k \in 1..MaxParts : Dst(k) \in Path
      /\ \A i \in Items : PlannedSource(i).id # 0
      /\ op.before = {} /\ cmd = "apply"
  BY <1>1, CalmFacts DEF CalmStep, Calm, PublishedSafe, RecoverySafe, Ahead
<1>3. durable = mem /\ Aligned(fs, durable) /\ Dropped(durable)
  BY <1>1, CalmWork
<1>4. \A k \in Parts : fs[Dst(k)].id = 0 /\ (Moving => fs[Src(k)] = PlannedSource(k))
  <2>1. \A k \in Parts : Role(durable, k) = "none"
    BY <1>1, <1>3 DEF CalmStep, PublishedSafe, Position
  <2> QED BY <1>3, <2>1 DEF Aligned, Agrees
<1>5. \A i \in Items : Valid(PlannedSource(i), Src(i))
  BY <1>2, <1>3, <1>4 DEF Aligned, Valid, Exists
<1>6. \A k \in Parts : OutputAsPlanned(k)
  <2>1. \A k \in Parts : ~Exists(Dst(k)) /\ fs[Dst(k)] = PlannedOutput(k)
    BY <1>2, <1>4 DEF Exists, PlannedOutput
  <2> QED BY <2>1 DEF OutputAsPlanned
<1>7. Goto("intent", 1) /\ mem' = mem /\ durable' = durable /\ fs' = fs
  BY <1>5, <1>6 DEF Validate, AsPlanned, store
<1> QED BY <1>2, <1>3, <1>7, CalmOn DEF Goto, LoggedPoints, PartPoints, CarriesOn

(* Once the intent is written, a file waits to be moved ...                *)
LEMMA WaitsToMove ==
  ASSUME CalmStep, Process, pc = "intent", Moving, Role(durable, at) = "none",
         fs' = fs, durable' = WithPending(mem, at, PlannedSource(at)), mem' = durable',
         Goto("move", at)
  PROVE  Agreement' /\ CarriesOn
<1>1. /\ op' = op /\ op \in Plan /\ mem \in Journal
      /\ Parts \subseteq 1..MaxParts /\ Parts = Items
  BY CalmFacts
<1>2. durable = mem /\ Aligned(fs, durable) /\ Dropped(durable)
  BY CalmWork DEF PartPoints
<1>3. /\ at \in Parts /\ at \in 1..MaxParts /\ Agrees(fs, durable, at)
      /\ \A l \in Parts : l < at => Role(durable, l) = "done"
  BY CalmPart DEF PartPoints
<1>4. fs[Dst(at)].id = 0 /\ fs[Src(at)] = PlannedSource(at)
  BY <1>3 DEF Agrees
<1>5. PlannedSource(at) \in File
  BY <1>1, <1>3, PlannedTyped
<1>6. /\ durable'.outputs[at].role = "pending" /\ durable'.outputs[at].file = PlannedSource(at)
      /\ \A p \in Parts : p # at => durable'.outputs[p] = durable.outputs[p]
      /\ durable'.remaining = durable.remaining
  BY <1>1, <1>2, <1>3, <1>5, PendingRoles
<1>7. Agrees(fs', durable', at)
  BY <1>4, <1>6 DEF Agrees, Role, Waiting
<1>8. Aligned(fs', durable')
  BY <1>1, <1>2, <1>3, <1>6, <1>7, AlignedPart
<1>9. Dropped(durable')
  BY <1>2, <1>6 DEF Dropped, Role
<1> QED BY <1>1, <1>4, <1>6, <1>8, <1>9, CalmOn
        DEF Goto, LoggedPoints, PartPoints, CarriesOn, Role, Moving

LEMMA MoveIntentCalm ==
  ASSUME CalmStep, MoveIntent
  PROVE  Agreement' /\ CarriesOn
<1>1. Process /\ pc = "intent" /\ Moving
  BY DEF Process, Apply, MoveIntent
<1>2. ~Fault("put")
  BY <1>1, CalmFacts
<1>3. Role(durable, at) = "none"
  BY <1>1, CalmWork DEF CalmStep, PublishedSafe, Position, MoveIntent, PartPoints
<1>4. /\ durable' = WithPending(mem, at, PlannedSource(at)) /\ mem' = durable'
      /\ Goto("move", at) /\ fs' = fs
  BY <1>2 DEF MoveIntent, Put
<1> QED BY <1>1, <1>3, <1>4, WaitsToMove

(* ... and it is moved.                                                    *)
LEMMA MoveCalm ==
  ASSUME CalmStep, Move
  PROVE  Agreement' /\ CarriesOn
<1>1. Process /\ pc = "move" /\ Moving
  BY DEF Process, Move, CalmStep, PublishedSafe, RecoverySafe, ItemsSafe, Control
<1>2. /\ op' = op /\ op \in Plan /\ mem \in Journal /\ fs \in [Path -> File]
      /\ ~half /\ ~op.crossing /\ ~Fault("file") /\ NoFile.id = 0
      /\ \A i \in Items : Src(i) \in Path /\ PlannedSource(i).id # 0
      /\ \A k \in 1..MaxParts : Dst(k) \in Path /\ Stg(k) \in Path
      /\ Parts \subseteq 1..MaxParts /\ Parts = Items
  BY <1>1, CalmFacts
<1>3. durable = mem /\ Aligned(fs, durable) /\ Dropped(durable)
  BY <1>1, CalmWork DEF PartPoints
<1>4. /\ at \in Parts /\ at \in 1..MaxParts /\ Agrees(fs, durable, at)
      /\ \A l \in Parts : l < at => Role(durable, l) = "done"
      /\ Role(durable, at) = "pending" /\ fs[Dst(at)].id = 0
  BY <1>1, CalmPart DEF PartPoints, CalmStep, Agreement, Smooth, PendingIn, Role, Exists
<1>5. /\ fs[Src(at)] = PlannedSource(at) /\ durable.outputs[at].file = PlannedSource(at)
      /\ Exists(Src(at)) /\ ~Exists(Dst(at))
  BY <1>1, <1>2, <1>4 DEF Agrees, Waiting, OutThere, Exists
<1>6. /\ fs' = Renamed(Src(at), Dst(at)) /\ mem' = WithoutOutput(mem, at)
      /\ pc' = "checkpoint" /\ durable' = durable /\ at' = at
  BY <1>2, <1>5 DEF Move, MoveOne, FileError
<1>7. fs[Stg(at)].id = 0
  BY <1>1, <1>4 DEF CalmStep, PublishedSafe, StagedHolds, StagedParts, Exists
<1>8. /\ \A r \in Path : r # Src(at) /\ r # Dst(at) => fs'[r] = fs[r]
      /\ fs'[Src(at)].id = 0 /\ fs'[Dst(at)] = PlannedSource(at)
  <2>1. Src(at) \in Path /\ Dst(at) \in Path /\ Src(at) # Dst(at)
    BY <1>2, <1>4, PlacesDiffer
  <2> QED BY <1>2, <1>5, <1>6, <2>1, FilesAfter
<1>9. Agrees(fs', durable', at)
  <2>1. fs'[Stg(at)] = fs[Stg(at)]
    BY <1>2, <1>4, <1>8, PlacesDiffer
  <2> QED BY <1>2, <1>4, <1>5, <1>6, <1>7, <1>8, <2>1 DEF Agrees, OutThere
<1>10. Aligned(fs', durable')
  <2>1. \A l \in Items : l # at => fs'[Src(l)] = fs[Src(l)]
    BY <1>2, <1>8, PlacesDiffer
  <2>2. \A l \in 1..MaxParts : l # at => fs'[Dst(l)] = fs[Dst(l)] /\ fs'[Stg(l)] = fs[Stg(l)]
    BY <1>2, <1>8, PlacesDiffer
  <2> QED BY <1>1, <1>2, <1>3, <1>4, <1>6, <1>9, <2>1, <2>2, AlignedPart
<1>11. /\ \A k \in Parts : k # at => mem'.outputs[k] = durable'.outputs[k]
       /\ mem'.status = durable'.status /\ mem'.remaining = durable'.remaining
  <2>1. WithoutOutput(mem, at).status = mem.status
    BY <1>2, <1>4, Entries
  <2> QED BY <1>2, <1>3, <1>4, <1>6, <2>1, OutputRoles
<1> QED BY <1>1, <1>2, <1>3, <1>4, <1>6, <1>8, <1>10, <1>11, CalmCheckpoint
        DEF Moving, CarriesOn

(* The steps of a staged part.                                             *)
LEMMA StageIntentCalm ==
  ASSUME CalmStep, StageIntent
  PROVE  Agreement' /\ CarriesOn
<1>1. Process /\ pc = "intent"
  BY DEF Process, Staging, StageIntent
<1>2. /\ op' = op /\ op \in Plan /\ mem \in Journal /\ ~Fault("put")
      /\ Parts \subseteq 1..MaxParts
  BY <1>1, CalmFacts
<1>3. durable = mem /\ Aligned(fs, durable) /\ Dropped(durable)
  BY <1>1, CalmWork DEF PartPoints
<1>4. /\ at \in 1..MaxParts
      /\ cmd = "resume" /\ op.kind = "compress" =>
           \A k \in Parts : k < at /\ LastOfItem(k) => ItemOf(k) \notin mem.remaining
  BY <1>1, CalmPart DEF PartPoints
<1>5. durable' = WithStaging(mem, at) /\ mem' = durable' /\ Goto("stage", at) /\ fs' = fs
  BY <1>2 DEF StageIntent, Put
<1>6. durable'.outputs = durable.outputs /\ durable'.remaining = durable.remaining
  BY <1>2, <1>3, <1>4, <1>5, StagingRoles
<1>7. Aligned(fs', durable')
  BY <1>2, <1>3, <1>5, <1>6, AlignedSame
<1>8. Dropped(durable')
  BY <1>3, <1>6 DEF Dropped, Role
<1> QED BY <1>2, <1>3, <1>4, <1>5, <1>6, <1>7, <1>8, CalmOn
        DEF Goto, LoggedPoints, PartPoints, CarriesOn

(* What a part is staged from is there: a source, or the archive before.   *)
LEMMA SourceThere ==
  ASSUME CalmStep, Process, pc \in PartPoints, ~Moving
  PROVE  /\ Exists(SourceOf(at)) /\ SourceOf(at) \in Path
         /\ op.kind = "copy" => SourceOf(at) = Src(at)
<1>1. /\ op \in Plan /\ \A i \in Items : PlannedSource(i).id # 0 /\ Src(i) \in Path
      /\ \A k \in 1..MaxParts : Dst(k) \in Path
      /\ Parts \subseteq 1..MaxParts
  BY CalmFacts
<1>2. Aligned(fs, durable)
  BY CalmWork
<1>3. at \in Parts /\ \A l \in Parts : l < at => Role(durable, l) = "done"
  BY CalmPart
<1>4. CASE IsBackup(at)
  <2>1. at - 1 \in Parts /\ at - 1 < at
    <3>1. at \in Nat /\ at - 1 \in Parts
      BY <1>1, <1>3, <1>4, PartOrder
    <3> QED BY <3>1
  <2>2. OutThere(fs, durable, at - 1)
    BY <1>2, <1>3, <2>1 DEF Aligned, Agrees
  <2>3. op.kind # "copy"
    BY <1>1, <1>4 DEF IsBackup, Plan
  <2> QED BY <1>1, <1>4, <2>1, <2>2, <2>3 DEF OutThere, SourceOf, Exists
<1>5. CASE ~IsBackup(at)
  <2>1. ItemOf(at) \in Items /\ (op.kind # "compress" => ItemOf(at) = at)
    BY <1>1, <1>3, PartOrder
  <2>2. fs[Src(ItemOf(at))] = PlannedSource(ItemOf(at))
    BY <1>2, <2>1 DEF Aligned
  <2> QED BY <1>1, <1>5, <2>1, <2>2 DEF SourceOf, Exists
<1> QED BY <1>4, <1>5

LEMMA StageCalm ==
  ASSUME CalmStep, Stage
  PROVE  Agreement' /\ CarriesOn
<1>1. Process /\ pc = "stage" /\ ~Moving
  BY DEF Process, Staging, Stage, CalmStep, PublishedSafe, RecoverySafe, ItemsSafe, Control,
         StagedPoints
<1>2. /\ op' = op /\ op \in Plan /\ mem \in Journal /\ fs \in [Path -> File]
      /\ ~Fault("file") /\ NoFile.id = 0
      /\ \A k \in 1..MaxParts : Dst(k) \in Path /\ Stg(k) \in Path /\ Tmp(k) \in Path
      /\ \A i \in Items : Src(i) \in Path
      /\ Parts \subseteq 1..MaxParts
  BY <1>1, CalmFacts
<1>3. durable = mem /\ Aligned(fs, durable) /\ Dropped(durable)
  BY <1>1, CalmWork DEF PartPoints
<1>4. /\ at \in Parts /\ at \in 1..MaxParts /\ Agrees(fs, durable, at)
      /\ \A l \in Parts : l < at => Role(durable, l) = "done"
      /\ cmd = "resume" /\ op.kind = "compress" =>
           \A k \in Parts : k < at /\ LastOfItem(k) => ItemOf(k) \notin mem.remaining
      /\ cmd \in {"apply", "resume"}
  BY <1>1, CalmPart DEF PartPoints
<1>5. Role(durable, at) = "none"
  BY <1>1, <1>3 DEF CalmStep, PublishedSafe, Position
<1>6. Exists(SourceOf(at)) /\ SourceOf(at) \in Path /\ (op.kind = "copy" => SourceOf(at) = Src(at))
  BY <1>1, SourceThere DEF PartPoints
<1>7. ASSUME NEW p \in Path, NEW q \in Path, p # q,
             fs' = Copied(p, q), durable' = durable, mem' = mem,
             \/ q = Tmp(at) /\ Goto("rename", at)
             \/ q = Stg(at) /\ Goto("publish_intent", at)
      PROVE  Agreement' /\ CarriesOn
  <2>1. fs'[q].id # 0 /\ \A r \in Path : r # q => fs'[r] = fs[r]
    BY <1>2, <1>7, FilesAfter, FreshIsNew
  <2>2. /\ \A i \in Items : fs'[Src(i)] = fs[Src(i)]
        /\ \A l \in 1..MaxParts : fs'[Dst(l)] = fs[Dst(l)]
        /\ \A l \in 1..MaxParts : l # at => fs'[Stg(l)] = fs[Stg(l)]
    BY <1>2, <1>7, <2>1, PlacesDiffer
  <2>3. Agrees(fs', durable', at)
    BY <1>1, <1>4, <1>5, <1>7, <2>2 DEF Agrees
  <2>4. Aligned(fs', durable')
    BY <1>2, <1>3, <1>4, <1>5, <1>7, <2>2, <2>3, AlignedPart
  <2> QED BY <1>2, <1>3, <1>4, <1>7, <2>1, <2>4, CalmOn
          DEF Goto, LoggedPoints, PartPoints, CarriesOn
<1>8. CASE /\ op.kind = "copy"
           /\ fs' = Copied(Src(at), Tmp(at)) /\ Goto("rename", at) /\ mem' = mem
  <2>1. Src(at) \in Path /\ Tmp(at) \in Path /\ Src(at) # Tmp(at) /\ durable' = durable
    BY <1>2, <1>4, <1>6, <1>8, PlacesDiffer DEF Stage
  <2> QED BY <1>7, <1>8, <2>1
<1>9. CASE fs' = Copied(SourceOf(at), Stg(at)) /\ Goto("publish_intent", at) /\ mem' = mem
  <2>1. SourceOf(at) # Stg(at)
    BY PlacesDiffer DEF SourceOf
  <2> QED BY <1>2, <1>4, <1>6, <1>7, <1>9, <2>1 DEF Stage
<1>10. CASE /\ FileError(~Exists(SourceOf(at)) \/ (op.kind = "copy" /\ Exists(Stg(at))))
            /\ FailStaged(IF op.kind = "copy" THEN WithoutStaging(mem, at) ELSE mem)
            /\ UNCHANGED fs
  <2>1. op.kind = "copy" /\ Exists(Stg(at))
    BY <1>2, <1>6, <1>10 DEF FileError
  <2>2. cmd = "resume"
    <3>1. faults["file"] = 0
      BY DEF CalmStep, Calm, OnlyCrashed
    <3> QED BY <1>1, <1>4, <2>1, <3>1 DEF CalmStep, PublishedSafe, RecoverySafe, Staged
  <2>3. Stop /\ durable' = durable /\ fs' = fs
    BY <1>10, <2>2 DEF FailStaged, Stage
  <2> QED BY <1>2, <1>3, <2>1, <2>3, CalmStop DEF Stop, CarriesOn
<1> QED BY <1>8, <1>9, <1>10 DEF Stage

LEMMA StageRenameCalm ==
  ASSUME CalmStep, StageRename
  PROVE  Agreement' /\ CarriesOn
<1>1. Process /\ pc = "rename" /\ ~Moving
  BY DEF Process, Staging, StageRename, CalmStep, PublishedSafe, RecoverySafe, ItemsSafe, Control,
         StagedPoints
<1>2. /\ op' = op /\ op \in Plan /\ mem \in Journal /\ fs \in [Path -> File]
      /\ ~Fault("file") /\ NoFile.id = 0
      /\ \A k \in 1..MaxParts : Dst(k) \in Path /\ Stg(k) \in Path /\ Tmp(k) \in Path
      /\ \A i \in Items : Src(i) \in Path
      /\ Parts \subseteq 1..MaxParts
  BY <1>1, CalmFacts
<1>3. durable = mem /\ Aligned(fs, durable) /\ Dropped(durable)
  BY <1>1, CalmWork DEF PartPoints
<1>4. /\ at \in Parts /\ at \in 1..MaxParts /\ Agrees(fs, durable, at)
      /\ \A l \in Parts : l < at => Role(durable, l) = "done"
      /\ cmd = "resume" /\ op.kind = "compress" =>
           \A k \in Parts : k < at /\ LastOfItem(k) => ItemOf(k) \notin mem.remaining
  BY <1>1, CalmPart DEF PartPoints
<1>5. Role(durable, at) = "none" /\ Exists(Tmp(at))
  BY <1>1, <1>3 DEF CalmStep, PublishedSafe, Position, Agreement, Smooth
<1>6. /\ fs' = Renamed(Tmp(at), Stg(at)) /\ Goto("publish_intent", at)
      /\ mem' = mem /\ durable' = durable
  BY <1>2 DEF StageRename
<1>7. fs'[Stg(at)].id # 0 /\ \A r \in Path : r # Stg(at) /\ r # Tmp(at) => fs'[r] = fs[r]
  <2>1. Tmp(at) # Stg(at) /\ Tmp(at) \in Path /\ Stg(at) \in Path
    BY <1>2, <1>4, PlacesDiffer
  <2> QED BY <1>2, <1>5, <1>6, <2>1, FilesAfter DEF Exists
<1>8. /\ \A i \in Items : fs'[Src(i)] = fs[Src(i)]
      /\ \A l \in 1..MaxParts : fs'[Dst(l)] = fs[Dst(l)]
      /\ \A l \in 1..MaxParts : l # at => fs'[Stg(l)] = fs[Stg(l)]
  BY <1>2, <1>7, PlacesDiffer
<1>9. Agrees(fs', durable', at)
  BY <1>1, <1>4, <1>5, <1>6, <1>8 DEF Agrees
<1>10. Aligned(fs', durable')
  BY <1>2, <1>3, <1>4, <1>5, <1>6, <1>8, <1>9, AlignedPart
<1> QED BY <1>2, <1>3, <1>4, <1>6, <1>7, <1>10, CalmOn
        DEF Goto, LoggedPoints, PartPoints, CarriesOn

LEMMA PublishIntentCalm ==
  ASSUME CalmStep, PublishIntent
  PROVE  Agreement' /\ CarriesOn
<1>1. Process /\ pc = "publish_intent" /\ ~Moving
  BY DEF Process, Staging, PublishIntent, CalmStep, PublishedSafe, RecoverySafe, ItemsSafe,
         Control, StagedPoints
<1>2. /\ op' = op /\ op \in Plan /\ mem \in Journal /\ ~Fault("put")
      /\ Parts \subseteq 1..MaxParts
      /\ fs \in [Path -> File] /\ \A k \in 1..MaxParts : Stg(k) \in Path
  BY <1>1, CalmFacts
<1>3. durable = mem /\ Aligned(fs, durable) /\ Dropped(durable)
  BY <1>1, CalmWork DEF PartPoints
<1>4. /\ at \in Parts /\ at \in 1..MaxParts /\ Agrees(fs, durable, at)
      /\ \A l \in Parts : l < at => Role(durable, l) = "done"
      /\ cmd = "resume" /\ op.kind = "compress" =>
           \A k \in Parts : k < at /\ LastOfItem(k) => ItemOf(k) \notin mem.remaining
  BY <1>1, CalmPart DEF PartPoints
<1>5. Role(durable, at) = "none" /\ fs[Stg(at)].id # 0
  BY <1>1, <1>3 DEF CalmStep, PublishedSafe, Position, Agreement, Smooth, Exists
<1>6. /\ durable' = WithPending(mem, at, fs[Stg(at)]) /\ mem' = durable'
      /\ Goto("publish", at) /\ fs' = fs
  BY <1>2 DEF PublishIntent, Put
<1>7. /\ durable'.outputs[at].role = "pending" /\ durable'.outputs[at].file = fs[Stg(at)]
      /\ \A p \in Parts : p # at => durable'.outputs[p] = durable.outputs[p]
      /\ durable'.remaining = durable.remaining
  <2>1. fs[Stg(at)] \in File
    BY <1>2, <1>4
  <2> QED BY <1>2, <1>3, <1>4, <1>6, <2>1, PendingRoles
<1>8. Agrees(fs', durable', at) /\ fs'[Dst(at)].id = 0
  BY <1>1, <1>4, <1>5, <1>6, <1>7 DEF Agrees, Role, Waiting
<1>9. Aligned(fs', durable')
  BY <1>1, <1>2, <1>3, <1>4, <1>5, <1>6, <1>7, <1>8, AlignedPart
<1>10. Dropped(durable')
  BY <1>3, <1>7 DEF Dropped, Role
<1> QED BY <1>2, <1>3, <1>4, <1>6, <1>7, <1>8, <1>9, <1>10, CalmOn
        DEF Goto, LoggedPoints, PartPoints, CarriesOn, Role

(* A waiting staging file is put in its place, by apply or by a resume.    *)
LEMMA PublishedCalm ==
  ASSUME CalmStep, Process, pc \in PartPoints, ~Moving, pc # "checkpoint",
         Role(durable, at) = "pending", Waiting(fs, durable, at),
         fs' = Renamed(Stg(at), Dst(at)), durable' = durable,
         mem' = Published(mem, at), Goto("checkpoint", at)
  PROVE  Agreement' /\ CarriesOn
<1>1. /\ op' = op /\ op \in Plan /\ mem \in Journal /\ fs \in [Path -> File]
      /\ NoFile.id = 0
      /\ \A k \in 1..MaxParts : Dst(k) \in Path /\ Stg(k) \in Path
      /\ \A i \in Items : Src(i) \in Path
      /\ Parts \subseteq 1..MaxParts
  BY CalmFacts
<1>2. durable = mem /\ Aligned(fs, durable) /\ Dropped(durable)
  BY CalmWork
<1>3. /\ at \in Parts /\ at \in 1..MaxParts
      /\ \A l \in Parts : l < at => Role(durable, l) = "done"
      /\ cmd = "resume" /\ op.kind = "compress" =>
           \A k \in Parts : k < at /\ LastOfItem(k) => ItemOf(k) \notin mem.remaining
  BY CalmPart
<1>4. fs[Stg(at)].id # 0 /\ fs[Stg(at)] = durable.outputs[at].file
  BY DEF Waiting
<1>5. /\ fs'[Dst(at)] = fs[Stg(at)] /\ fs'[Stg(at)].id = 0
      /\ \A r \in Path : r # Stg(at) /\ r # Dst(at) => fs'[r] = fs[r]
  <2>1. Dst(at) # Stg(at) /\ Dst(at) \in Path /\ Stg(at) \in Path
    BY <1>1, <1>3, PlacesDiffer
  <2> QED BY <1>1, <2>1, FilesAfter
<1>6. /\ \A i \in Items : fs'[Src(i)] = fs[Src(i)]
      /\ \A l \in 1..MaxParts : l # at => fs'[Dst(l)] = fs[Dst(l)] /\ fs'[Stg(l)] = fs[Stg(l)]
  BY <1>1, <1>5, PlacesDiffer
<1>7. Agrees(fs', durable', at)
  BY <1>4, <1>5 DEF Agrees, OutThere
<1>8. Aligned(fs', durable')
  BY <1>1, <1>2, <1>3, <1>6, <1>7, AlignedPart
<1>9. /\ mem'.status = mem.status /\ mem'.remaining = mem.remaining
      /\ \A k \in Parts : k # at => mem'.outputs[k] = mem.outputs[k]
  <2>1. mem'.status = mem.status
    BY <1>1, <1>3, Entries
  <2>2. /\ Published(mem, at).outputs = WithoutOutput(mem, at).outputs
        /\ Published(mem, at).remaining = mem.remaining
        /\ \A p \in 1..MaxParts : p # at => WithoutOutput(mem, at).outputs[p] = mem.outputs[p]
    BY <1>1, <1>3, OutputRoles
  <2> QED BY <1>1, <2>1, <2>2
<1> QED BY <1>1, <1>2, <1>3, <1>4, <1>5, <1>8, <1>9, CalmCheckpoint DEF Goto, CarriesOn

LEMMA PublishCalm ==
  ASSUME CalmStep, Publish
  PROVE  Agreement' /\ CarriesOn
<1>1. Process /\ pc = "publish" /\ ~Moving
  BY DEF Process, Staging, Publish, CalmStep, PublishedSafe, RecoverySafe, ItemsSafe,
         Control, StagedPoints
<1>2. ~Fault("file")
  BY <1>1, CalmFacts
<1>3. /\ Agrees(fs, durable, at) /\ Role(durable, at) = "pending" /\ ~Exists(Dst(at))
  BY <1>1, CalmPart DEF PartPoints, CalmStep, Agreement, Smooth, PendingIn, Role
<1>4. Waiting(fs, durable, at)
  BY <1>3 DEF Agrees, OutThere, Exists
<1>5. /\ fs' = Renamed(Stg(at), Dst(at)) /\ durable' = durable
      /\ mem' = Published(mem, at) /\ Goto("checkpoint", at)
  BY <1>2, <1>3 DEF Publish, FileError
<1> QED BY <1>1, <1>3, <1>4, <1>5, PublishedCalm DEF PartPoints

(* A published output is checkpointed ...                                  *)
LEMMA CheckpointCalm ==
  ASSUME CalmStep, Checkpoint
  PROVE  Agreement' /\ CarriesOn
<1>1. Process /\ pc = "checkpoint"
  BY DEF Process, Checkpoint
<1>2. /\ op' = op /\ op \in Plan /\ mem \in Journal /\ ~Fault("put")
      /\ Parts \subseteq 1..MaxParts
      /\ fs \in [Path -> File] /\ \A k \in 1..MaxParts : Dst(k) \in Path
  BY <1>1, CalmFacts
<1>3. Aligned(fs, durable) /\ Dropped(durable) /\ mem.remaining = durable.remaining
  BY <1>1, CalmWork DEF PartPoints
<1>4. /\ at \in Parts /\ at \in 1..MaxParts /\ at \in Nat /\ Agrees(fs, durable, at)
      /\ \A l \in Parts : l < at => Role(durable, l) = "done"
      /\ \A l \in Parts : l # at => mem.outputs[l] = durable.outputs[l]
      /\ cmd = "resume" /\ op.kind = "compress" =>
           \A k \in Parts : k < at /\ LastOfItem(k) => ItemOf(k) \notin mem.remaining
  BY <1>1, CalmPart DEF PartPoints
<1>5. Role(durable, at) = "pending" /\ fs[Dst(at)].id # 0 /\ OutThere(fs, durable, at)
  BY <1>1, <1>4 DEF CalmStep, Agreement, Smooth, Exists, PendingIn, Role, Agrees, Waiting
<1>6. /\ durable' = WithDone(mem, at, fs[Dst(at)]) /\ mem' = durable'
      /\ AfterCheckpoint(at) /\ fs' = fs
  BY <1>2, <1>5 DEF Checkpoint, Put, Exists
<1>7. /\ durable'.outputs[at].role = "done" /\ durable'.outputs[at].file = fs[Dst(at)]
      /\ \A p \in Parts : p # at => durable'.outputs[p] = durable.outputs[p]
      /\ durable'.remaining = IF op.kind = "compress" THEN durable.remaining
                              ELSE durable.remaining \ {ItemOf(at)}
  <2>1. fs[Dst(at)] \in File
    BY <1>2, <1>4
  <2>2. /\ durable'.outputs[at].role = "done" /\ durable'.outputs[at].file = fs[Dst(at)]
        /\ \A p \in Parts : p # at => durable'.outputs[p] = mem.outputs[p]
    BY <1>2, <1>4, <1>6, <2>1, DoneRoles
  <2>3. durable'.remaining = IF op.kind = "compress" THEN mem.remaining
                             ELSE mem.remaining \ {ItemOf(at)}
    BY <1>2, <1>4, <1>6, <2>1, DoneRemaining
  <2> QED BY <1>3, <1>4, <2>2, <2>3
<1>8. Agrees(fs', durable', at)
  BY <1>5, <1>6, <1>7 DEF Agrees, OutThere, Role
<1>9. Aligned(fs', durable')
  BY <1>2, <1>3, <1>4, <1>5, <1>6, <1>7, <1>8, AlignedPart
<1>10. Dropped(durable')
  <2>1. SUFFICES ASSUME op.kind # "compress", NEW k \in Parts, Role(durable', k) = "done"
                 PROVE  ItemOf(k) \notin durable'.remaining
    BY DEF Dropped
  <2>2. durable'.remaining = durable.remaining \ {ItemOf(at)}
    BY <1>7, <2>1
  <2>3. CASE k = at
    BY <2>2, <2>3
  <2>4. CASE k # at
    BY <1>3, <1>7, <2>1, <2>2, <2>4 DEF Dropped, Role
  <2> QED BY <2>3, <2>4
<1>11. /\ cmd' = cmd /\ pc' \in {"item_done", "intent", "finish"}
       /\ at' = at \/ (at' = at + 1 /\ ~(op.kind = "compress" /\ LastOfItem(at)))
  BY <1>6 DEF AfterCheckpoint, Goto, Loop
<1>12. ASSUME cmd' = "resume", op.kind = "compress", NEW k \in Parts, k < at', LastOfItem(k)
       PROVE  ItemOf(k) \notin mem'.remaining
  <2>1. k \in Nat /\ mem'.remaining = mem.remaining
    BY <1>2, <1>3, <1>6, <1>7, <1>12 DEF Parts
  <2>2. k < at
    BY <1>4, <1>11, <1>12, <2>1, NotYetNext
  <2> QED BY <1>4, <1>11, <1>12, <2>1, <2>2
<1> QED BY <1>2, <1>6, <1>9, <1>10, <1>11, <1>12, CalmOn
        DEF LoggedPoints, PartPoints, CarriesOn

(* ... and the last one of an archive ends its item.                       *)
LEMMA ItemDoneCalm ==
  ASSUME CalmStep, ItemDone
  PROVE  Agreement' /\ CarriesOn
<1>1. Process /\ pc = "item_done"
  BY DEF Process, ItemDone
<1>2. /\ op' = op /\ op \in Plan /\ mem \in Journal /\ ~Fault("put")
      /\ Parts \subseteq 1..MaxParts
  BY <1>1, CalmFacts
<1>3. durable = mem /\ Aligned(fs, durable)
  BY <1>1, CalmWork DEF PartPoints
<1>4. /\ at \in Parts /\ at \in Nat
      /\ cmd = "resume" /\ op.kind = "compress" =>
           \A k \in Parts : k < at /\ LastOfItem(k) => ItemOf(k) \notin mem.remaining
  BY <1>1, CalmPart DEF PartPoints
<1>5. op.kind = "compress"
  BY <1>1 DEF CalmStep, PublishedSafe, Position
<1> DEFINE j == [mem EXCEPT !.remaining = @ \ {ItemOf(at)}]
<1>6. durable' = j /\ mem' = j /\ Goto(Loop(at + 1), at + 1) /\ fs' = fs
  BY <1>2 DEF ItemDone, Put
<1>7. j.outputs = mem.outputs /\ j.remaining = mem.remaining \ {ItemOf(at)}
  BY <1>2 DEF Journal
<1> HIDE DEF j
<1>8. Aligned(fs', durable')
  BY <1>2, <1>3, <1>6, <1>7, AlignedSame
<1>9. /\ cmd' = cmd /\ at' = at + 1 /\ pc' \in {"intent", "finish"}
  BY <1>6 DEF Goto, Loop
<1>10. ASSUME cmd' = "resume", NEW k \in Parts, k < at', LastOfItem(k)
       PROVE  ItemOf(k) \notin mem'.remaining
  <2>1. k \in Nat
    BY <1>2 DEF Parts
  <2>2. k < at \/ k = at
    BY <1>4, <1>9, <1>10, <2>1, NotYetNext
  <2> QED BY <1>4, <1>5, <1>6, <1>7, <1>9, <1>10, <2>2
<1> QED BY <1>2, <1>5, <1>6, <1>8, <1>9, <1>10, CalmOn
        DEF LoggedPoints, PartPoints, CarriesOn, Dropped

(* When every part is done nothing is left over, and the journal becomes   *)
(* applied.                                                                *)
LEMMA FinishCalm ==
  ASSUME CalmStep, Finish
  PROVE  Agreement' /\ CarriesOn
<1>1. Process /\ pc = "finish"
  BY DEF Process, Apply, Finish
<1>2. /\ op' = op /\ op \in Plan /\ mem \in Journal /\ ~Fault("put")
      /\ Parts \subseteq 1..MaxParts
  BY <1>1, CalmFacts
<1>3. durable = mem /\ Aligned(fs, durable) /\ Dropped(durable)
  BY <1>1, CalmWork
<1>4. \A k \in Parts : k < at /\ Role(mem, k) = "done"
  <2>1. at = NumParts + 1 /\ \A k \in Parts : k < at => Role(mem, k) = "done"
    BY <1>1 DEF CalmStep, PublishedSafe, Position, Working
  <2>2. NumParts \in Nat /\ \A k \in Parts : k \in Nat /\ k <= NumParts
    BY <1>2, PartsOfItems DEF Parts
  <2>3. \A k \in Parts : k < at
    BY <2>1, <2>2
  <2> QED BY <2>1, <2>3
<1>5. cmd = "resume" => mem.remaining = {}
  <2>1. SUFFICES ASSUME cmd = "resume", NEW i \in Items PROVE i \notin mem.remaining
    BY <1>2 DEF Journal
  <2>2. PICK l \in Parts : LastOfItem(l) /\ ItemOf(l) = i
    BY <1>2, <2>1, PartsOfItems, PartOrder
  <2>3. CASE op.kind = "compress"
    BY <1>4, <2>1, <2>2, <2>3 DEF CalmStep, Agreement, Logged
  <2>4. CASE op.kind # "compress"
    BY <1>3, <1>4, <2>2, <2>4 DEF Dropped
  <2> QED BY <2>3, <2>4
<1>6. \A k \in mem.staging : ~Exists(Stg(k))
  <2>1. SUFFICES ASSUME NEW k \in mem.staging, fs[Stg(k)].id # 0 PROVE FALSE
    BY DEF Exists
  <2>2. k \in Parts
    BY <1>2, <1>3, <2>1 DEF Aligned, Journal
  <2>3. OutThere(fs, durable, k)
    BY <1>3, <1>4, <2>2 DEF Aligned, Agrees
  <2> QED BY <2>1, <2>3 DEF OutThere
<1> DEFINE j == [mem EXCEPT !.status = "applied", !.staging = {}]
<1>7. durable' = j /\ Stop
  BY <1>2, <1>5, <1>6 DEF Finish, Put
<1>8. j.status = "applied"
  BY <1>2 DEF Journal
<1> HIDE DEF j
<1> QED BY <1>2, <1>7, <1>8, CalmStop DEF Stop, NeedsRecovery, CarriesOn

-----------------------------------------------------------------------------
(* Reversals and commands.                                                 *)

(* A reversal that goes on.                                                *)
LEMMA CalmReverses ==
  ASSUME op' = op, pc' \in {"unstage", "rollback"}, cmd' \in {"rollback", "recover"},
         complete', NeedsRecovery(mem'), mem'.undo_safe,
         \A k \in Parts : Role(mem', k) # "none" /\ (pc' = "unstage" \/ k <= at') =>
           /\ fs'[Dst(k)].id # 0 /\ fs'[Dst(k)] = mem'.outputs[k].file
           /\ Moving => fs'[Src(k)].id = 0
  PROVE  Agreement'
<1>1. pc' \notin PartPoints \cup LoggedPoints
  BY DEF LoggedPoints, PartPoints
<1> QED BY <1>1, AgreementAfter

(* What a reversal starts from.                                            *)
LEMMA ReversesFrom ==
  ASSUME CalmStep, pc \in {"unstage", "rollback"}
  PROVE  /\ cmd \in {"rollback", "recover"} /\ complete
         /\ NeedsRecovery(mem) /\ mem.undo_safe
         /\ \A k \in Parts : Role(mem, k) # "none" /\ (pc = "unstage" \/ k <= at) =>
              /\ fs[Dst(k)].id # 0 /\ fs[Dst(k)] = mem.outputs[k].file
              /\ Moving => fs[Src(k)].id = 0
BY DEF CalmStep, Agreement, Smooth, Listed, Reversible, Valid, Exists, Role

LEMMA RollbackStepCalm ==
  ASSUME CalmStep, RollbackStep
  PROVE  Agreement' /\ CarriesOn
<1>1. Process /\ pc = "rollback" /\ at > 0
  BY DEF Process, Reversal, RollbackStep
<1>2. /\ op' = op /\ op \in Plan /\ mem \in Journal /\ fs \in [Path -> File]
      /\ ~half /\ ~op.crossing /\ ~Fault("file") /\ NoFile.id = 0
      /\ \A i \in Items : Src(i) \in Path
      /\ \A k \in 1..MaxParts : Dst(k) \in Path
      /\ Parts \subseteq 1..MaxParts /\ (Moving => Parts = Items)
  BY <1>1, CalmFacts
<1>3. /\ cmd \in {"rollback", "recover"} /\ complete
      /\ NeedsRecovery(mem) /\ mem.undo_safe
      /\ \A k \in Parts : Role(mem, k) # "none" /\ k <= at =>
           /\ fs[Dst(k)].id # 0 /\ fs[Dst(k)] = mem.outputs[k].file
           /\ Moving => fs[Src(k)].id = 0
  BY <1>1, ReversesFrom
<1>4. at \in Nat /\ \A k \in Parts : k \in Nat
  BY <1>1, <1>2, PartsOfItems DEF CalmStep, PublishedSafe, RecoverySafe, ItemsSafe, Control, Parts
<1>5. at \in Parts /\ Role(mem, at) # "none" => Exists(Dst(at)) /\ (Moving => ~Exists(Src(at)))
  BY <1>3, <1>4 DEF Exists
<1>6. /\ RollbackNext(TRUE)
      /\ \/ fs' = fs
         \/ /\ at \in Parts /\ ~Moving /\ fs' = Removed(Dst(at))
         \/ /\ at \in Parts /\ Moving /\ fs' = Renamed(Dst(at), Src(at))
  <2>1. CASE at \in Listed(mem)
    <3>1. at \in Parts /\ Exists(Dst(at)) /\ (Moving => ~Exists(Src(at)))
      BY <1>5, <2>1 DEF Listed, Role
    <3>2. Reverse(at, RollbackNext(TRUE), RollbackNext(FALSE))
      BY <2>1 DEF RollbackStep
    <3>3. CASE Moving
      <4>1. MoveOne(Dst(at), Src(at), FALSE, RollbackNext(TRUE), RollbackNext(FALSE))
        BY <3>2, <3>3 DEF Reverse
      <4> QED BY <1>2, <3>1, <3>3, <4>1 DEF MoveOne, FileError
    <3>4. CASE ~Moving
      BY <1>2, <3>1, <3>2, <3>4 DEF Reverse, FileError
    <3> QED BY <3>3, <3>4
  <2>2. CASE at \notin Listed(mem)
    BY <2>2 DEF RollbackStep
  <2> QED BY <2>1, <2>2
<1>7. pc' = "rollback" /\ cmd' = cmd /\ mem' = mem /\ at' = at - 1 /\ complete'
  BY <1>1, <1>3, <1>6 DEF RollbackNext
<1>8. ASSUME NEW k \in Parts, Role(mem, k) # "none", k <= at - 1
      PROVE  /\ fs'[Dst(k)].id # 0 /\ fs'[Dst(k)] = mem.outputs[k].file
             /\ Moving => fs'[Src(k)].id = 0
  <2>1. k # at /\ k <= at
    BY <1>4, <1>8
  <2>2. fs'[Dst(k)] = fs[Dst(k)] /\ (Moving => fs'[Src(k)] = fs[Src(k)])
    <3>1. CASE at \in Parts /\ ~Moving /\ fs' = Removed(Dst(at))
      <4>1. Dst(k) # Dst(at) /\ Dst(k) \in Path
        BY <1>2, <2>1, PlacesDiffer
      <4> QED BY <1>2, <3>1, <4>1 DEF Removed
    <3>2. CASE at \in Parts /\ Moving /\ fs' = Renamed(Dst(at), Src(at))
      <4>1. /\ Dst(k) # Dst(at) /\ Dst(k) # Src(at) /\ Src(k) # Dst(at) /\ Src(k) # Src(at)
            /\ Dst(k) \in Path /\ Src(k) \in Path
        BY <1>2, <2>1, <3>2, PlacesDiffer
      <4> QED BY <1>2, <3>2, <4>1 DEF Renamed
    <3> QED BY <1>6, <3>1, <3>2
  <2> QED BY <1>3, <1>8, <2>1, <2>2
<1>9. Agreement'
  BY <1>2, <1>3, <1>7, <1>8, CalmReverses
<1> QED BY <1>3, <1>9 DEF CarriesOn

LEMMA RollbackEndCalm ==
  ASSUME CalmStep, RollbackEnd
  PROVE  Agreement' /\ CarriesOn
<1>1. Process /\ pc = "rollback"
  BY DEF Process, Reversal, RollbackEnd
<1>2. op' = op /\ mem \in Journal /\ ~Fault("put")
  BY <1>1, CalmFacts
<1>3. cmd \in {"rollback", "recover"} /\ complete /\ mem.undo_safe
  BY <1>1, ReversesFrom
<1> DEFINE j == [mem EXCEPT !.status = "rolled_back"]
<1>4. durable' = j /\ Stop
  BY <1>2, <1>3 DEF RollbackEnd, Put
<1>5. j.status = "rolled_back"
  BY <1>2 DEF Journal
<1> HIDE DEF j
<1> QED BY <1>2, <1>3, <1>4, <1>5, CalmStop DEF Stop, NeedsRecovery, CarriesOn

(* While an undo goes on, the journal on disk is one that is not followed. *)
LEMMA UndoStepCalm ==
  ASSUME CalmStep, UndoStep \/ UndoEnd
  PROVE  Agreement' /\ CarriesOn
<1>1. Process /\ pc = "undo"
  BY DEF Process, Reversal, UndoStep, UndoEnd
<1>2. op' = op /\ mem \in Journal /\ ~Fault("put")
  BY <1>1, CalmFacts
<1>3. cmd = "undo" /\ ~NeedsRecovery(durable)
  BY <1>1 DEF CalmStep, Agreement, Logged
<1>4. CASE UndoStep
  <2>1. durable' = durable /\ (UNCHANGED <<mem, cmd, pc>> \/ Stop)
    BY <1>1, <1>4 DEF UndoStep, Reverse, MoveOne, UndoNext, proc
  <2>2. CASE UNCHANGED <<mem, cmd, pc>>
    <3>1. pc' \notin PartPoints \cup LoggedPoints
      BY <1>1, <2>2 DEF LoggedPoints, PartPoints
    <3> QED BY <1>1, <1>2, <1>3, <2>1, <2>2, <3>1, AgreementAfter DEF CarriesOn
  <2>3. CASE Stop
    BY <1>2, <1>3, <2>1, <2>3, CalmStop DEF Stop, NeedsRecovery, CarriesOn
  <2> QED BY <2>1, <2>2, <2>3
<1>5. CASE UndoEnd
  <2> DEFINE j == [mem EXCEPT !.status = "undone"]
  <2>1. durable' = j /\ Stop
    BY <1>2, <1>5 DEF UndoEnd, Put
  <2>2. j.status = "undone"
    BY <1>2 DEF Journal
  <2> HIDE DEF j
  <2> QED BY <1>2, <1>3, <2>1, <2>2, CalmStop DEF Stop, NeedsRecovery, CarriesOn
<1> QED BY <1>4, <1>5

(* Removing staging files shows at no output and no source.                *)
LEMMA UnstageCalm ==
  ASSUME CalmStep, Unstage
  PROVE  Agreement' /\ CarriesOn
<1>1. Process /\ pc = "unstage"
  BY DEF Process, Reversal, Unstage
<1>2. /\ op' = op /\ op \in Plan /\ mem \in Journal /\ fs \in [Path -> File] /\ ~Fault("file")
      /\ \A i \in Items : Src(i) \in Path
      /\ \A k \in 1..MaxParts : Dst(k) \in Path
      /\ Parts \subseteq 1..MaxParts /\ (Moving => Parts = Items)
  BY <1>1, CalmFacts
<1>3. /\ cmd \in {"rollback", "recover"} /\ complete
      /\ NeedsRecovery(mem) /\ mem.undo_safe
      /\ \A k \in Parts : Role(mem, k) # "none" =>
           /\ fs[Dst(k)].id # 0 /\ fs[Dst(k)] = mem.outputs[k].file
           /\ Moving => fs[Src(k)].id = 0
  BY <1>1, ReversesFrom
<1>4. PICK k \in mem.staging :
        /\ fs' = Removed(Stg(k))
        /\ mem' = WithoutStaging(mem, k) /\ UNCHANGED <<cmd, pc, complete>>
  BY <1>2 DEF Unstage
<1>5. k \in 1..MaxParts
  BY <1>2 DEF Journal
<1>6. /\ mem'.outputs = mem.outputs /\ mem'.status = mem.status
      /\ mem'.undo_safe = mem.undo_safe
  BY <1>2, <1>4, <1>5, StagingRoles, UndoSafes, Entries
<1>7. \A l \in Parts : fs'[Dst(l)] = fs[Dst(l)] /\ (Moving => fs'[Src(l)] = fs[Src(l)])
  <2>1. \A r \in Path : r # Stg(k) => fs'[r] = fs[r]
    BY <1>2, <1>4 DEF Removed
  <2> QED BY <1>2, <2>1, PlacesDiffer
<1>8. Agreement'
  BY <1>1, <1>2, <1>3, <1>4, <1>6, <1>7, CalmReverses DEF Role, NeedsRecovery
<1> QED BY <1>3, <1>8 DEF CarriesOn

LEMMA RevalidateCalm ==
  ASSUME CalmStep, Revalidate
  PROVE  Agreement' /\ CarriesOn
<1>1. Process /\ pc = "unstage"
  BY DEF Process, Reversal, Revalidate
<1>2. op' = op
  BY <1>1, CalmFacts
<1>3. /\ cmd \in {"rollback", "recover"} /\ complete
      /\ NeedsRecovery(mem) /\ mem.undo_safe
      /\ \A k \in Parts : Role(mem, k) # "none" =>
           /\ fs[Dst(k)].id # 0 /\ fs[Dst(k)] = mem.outputs[k].file
           /\ Moving => fs[Src(k)].id = 0
  BY <1>1, ReversesFrom
<1>4. RollbackAccepts(mem)
  BY <1>3 DEF RollbackAccepts, Listed, Role, Reversible, Valid, Exists
<1>5. Goto("rollback", NumParts) /\ mem' = mem /\ fs' = fs
  BY <1>4 DEF Revalidate, store
<1>6. Agreement'
  BY <1>2, <1>3, <1>5, CalmReverses DEF Goto
<1> QED BY <1>3, <1>6 DEF CarriesOn

LEMMA UndoCalm ==
  ASSUME CalmStep, Undo
  PROVE  Agreement' /\ CarriesOn
<1>1. Process /\ pc = "idle" /\ TypeOK
  BY DEF Process, Command, Undo, CalmStep, PublishedSafe, RecoverySafe, ItemsSafe
<1>2. op' = op /\ cmd = "none"
  BY <1>1, CalmFacts DEF CalmStep, PublishedSafe, HeldSafe
<1>3. durable' = durable /\ pc' = "undo" /\ cmd' = "undo" /\ mem'.status = "applied"
  BY <1>1, Given DEF Undo, Begin, UndoAccepts
<1>4. ~NeedsRecovery(durable)
  <2>1. PICK j \in Piped : mem' = j
    BY DEF Undo, Begin
  <2>2. CASE j = durable
    BY <1>3, <2>1, <2>2 DEF NeedsRecovery
  <2>3. CASE \E v \in Variables : j = held[v]
    BY <1>3, <2>1, <2>3 DEF CalmStep, PublishedSafe, HeldSafe
  <2> QED BY <2>1, <2>2, <2>3 DEF Piped
<1>5. pc' \notin PartPoints \cup LoggedPoints
  BY <1>3 DEF LoggedPoints, PartPoints
<1>6. Agreement'
  BY <1>2, <1>3, <1>4, <1>5, AgreementAfter DEF NeedsRecovery
<1> QED BY <1>2, <1>6 DEF CarriesOn

LEMMA RollbackCalm ==
  ASSUME CalmStep, Rollback
  PROVE  Agreement' /\ CarriesOn
<1>1. Process /\ pc = "idle" /\ TypeOK
  BY DEF Process, Command, Rollback, CalmStep, PublishedSafe, RecoverySafe, ItemsSafe
<1>2. op' = op /\ complete /\ cmd = "none"
  BY <1>1, CalmFacts DEF CalmStep, Agreement, Smooth, PublishedSafe, HeldSafe
<1>3. /\ RollbackAccepts(mem') /\ fs' = fs /\ pc' = "rollback" /\ cmd' = "rollback"
      /\ complete' = complete
  BY <1>1, Given DEF Rollback, Begin
<1>4. \A k \in Parts : Role(mem', k) # "none" =>
        /\ fs'[Dst(k)].id # 0 /\ fs'[Dst(k)] = mem'.outputs[k].file
        /\ Moving => fs'[Src(k)].id = 0
  BY <1>3 DEF RollbackAccepts, Listed, Role, Reversible, Valid, Exists
<1>5. Agreement'
  BY <1>2, <1>3, <1>4, CalmReverses DEF RollbackAccepts
<1> QED BY <1>2, <1>5 DEF CarriesOn

(* A step that changes none of what agrees.                                *)
LEMMA AgreementSame ==
  ASSUME Agreement, UNCHANGED <<op, fs, durable, mem, cmd, pc, at, complete>>
  PROVE  Agreement'
BY DEF Agreement, Followed, Aligned, Agrees, Waiting, OutThere, Role, Moving, Parts,
       NumParts, Src, Dst, Stg, PlannedSource, Dropped, ItemOf, Logged, LoggedPoints,
       PartPoints, LastOfItem, IsBackup, NoJournal, Smooth, Exists, Tmp, PendingIn,
       NeedsRecovery, Listed, Reversible, Valid

LEMMA HoldCalm ==
  ASSUME CalmStep, Hold
  PROVE  Agreement' /\ CarriesOn
<1>1. Agreement /\ pc = "idle" /\ UNCHANGED <<op, fs, durable, mem, cmd, pc, at, complete>>
  BY DEF CalmStep, Hold, store, proc
<1>2. cmd = "none"
  BY <1>1 DEF CalmStep, PublishedSafe, HeldSafe
<1> QED BY <1>1, <1>2, AgreementSame DEF CarriesOn

(* What was never published leaves the journal, the rest can be reversed.  *)
LEMMA RecoverRollbackCalm ==
  ASSUME CalmStep, RecoverRollback
  PROVE  Agreement' /\ CarriesOn
<1>1. Process /\ pc = "idle" /\ RecoverAccepts(durable)
  BY DEF Process, Command, RecoverRollback
<1>2. op' = op /\ complete /\ durable \in Journal /\ Parts \subseteq 1..MaxParts
  BY <1>1, CalmFacts DEF CalmStep, Agreement, Smooth
<1>3. /\ mem' = WithoutUnpublished(durable) /\ fs' = fs /\ pc' = "unstage" /\ cmd' = "recover"
      /\ complete' = complete
  BY DEF RecoverRollback, Begin, store
<1>4. /\ mem'.status = durable.status /\ mem'.undo_safe = durable.undo_safe
      /\ mem'.outputs = [k \in 1..MaxParts |->
                           IF Unpublished(durable, k) THEN NoOutput ELSE durable.outputs[k]]
  BY <1>2, <1>3 DEF WithoutUnpublished, Journal
<1>5. ASSUME NEW k \in Parts, Role(mem', k) # "none"
      PROVE  /\ fs'[Dst(k)].id # 0 /\ fs'[Dst(k)] = mem'.outputs[k].file
             /\ Moving => fs'[Src(k)].id = 0
  <2>1. ~Unpublished(durable, k) /\ mem'.outputs[k] = durable.outputs[k]
    <3>1. k \in 1..MaxParts
      BY <1>2
    <3>2. NoOutput.role = "none"
      BY DEF NoOutput
    <3>3. CASE Unpublished(durable, k)
      BY <1>4, <1>5, <3>1, <3>2, <3>3 DEF Role
    <3>4. CASE ~Unpublished(durable, k)
      BY <1>4, <3>1, <3>4
    <3> QED BY <3>3, <3>4
  <2>2. k \in Listed(durable)
    BY <1>5, <2>1 DEF Listed, Role
  <2>3. Reversible(durable, k)
    BY <1>1, <2>1, <2>2 DEF RecoverAccepts
  <2> QED BY <1>3, <2>1, <2>3 DEF Reversible, Valid, Exists
<1>6. NeedsRecovery(mem') /\ mem'.undo_safe
  BY <1>1, <1>4 DEF RecoverAccepts, NeedsRecovery
<1>7. Agreement'
  BY <1>2, <1>3, <1>5, <1>6, CalmReverses
<1> QED BY <1>3, <1>7 DEF CarriesOn

LEMMA ResumeCalm ==
  ASSUME CalmStep, Resume
  PROVE  Agreement' /\ CarriesOn
<1>1. Process /\ pc = "idle" /\ NeedsRecovery(durable)
  BY DEF Process, Command, Resume, ResumeAccepts
<1>2. op' = op
  BY <1>1, CalmFacts
<1>3. Aligned(fs, durable) /\ Dropped(durable)
  BY <1>1 DEF CalmStep, Agreement, Followed
<1>4. mem' = durable /\ durable' = durable /\ fs' = fs /\ pc' = "intent" /\ at' = 1
  BY DEF Resume, Begin, store
<1>5. \A k \in Parts : ~(k < at')
  BY <1>4 DEF Parts
<1> QED BY <1>2, <1>3, <1>4, <1>5, CalmOn DEF LoggedPoints, PartPoints, CarriesOn

-----------------------------------------------------------------------------
(* A resume at a part.                                                     *)

LEMMA ResumeSkipCalm ==
  ASSUME CalmStep, ResumeSkip
  PROVE  Agreement' /\ CarriesOn
<1>1. Process /\ pc = "intent" /\ cmd = "resume"
  BY DEF Process, Resuming, ResumeSkip
<1>2. /\ op' = op /\ Parts \subseteq 1..MaxParts
  BY <1>1, CalmFacts
<1>3. durable = mem /\ Aligned(fs, durable) /\ Dropped(durable)
  BY <1>1, CalmWork DEF PartPoints
<1>4. /\ at \in Parts /\ at \in Nat
      /\ op.kind = "compress" =>
           \A k \in Parts : k < at /\ LastOfItem(k) => ItemOf(k) \notin mem.remaining
  BY <1>1, CalmPart DEF PartPoints
<1>5. /\ durable' = durable /\ mem' = mem /\ fs' = fs /\ cmd' = cmd
      /\ pc' \in {"item_done", "intent", "finish"}
      /\ \/ at' = at
         \/ /\ at' = at + 1
            /\ \/ ItemOf(at) \notin mem.remaining
               \/ ~(op.kind = "compress" /\ LastOfItem(at))
  <2>1. CASE ItemOf(at) \in mem.remaining
    BY <2>1 DEF ResumeSkip, AfterCheckpoint, Goto, Loop, store
  <2>2. CASE ItemOf(at) \notin mem.remaining
    BY <2>2 DEF ResumeSkip, Goto, Loop, store
  <2> QED BY <2>1, <2>2
<1>6. ASSUME op.kind = "compress", NEW k \in Parts, k < at', LastOfItem(k)
      PROVE  ItemOf(k) \notin mem'.remaining
  <2>1. k \in Nat
    BY <1>2 DEF Parts
  <2>2. CASE at' = at
    BY <1>4, <1>5, <1>6, <2>2
  <2>3. CASE at' = at + 1
    <3>1. k < at \/ k = at
      BY <1>4, <1>6, <2>1, <2>3, NotYetNext
    <3>2. CASE k < at
      BY <1>4, <1>5, <1>6, <3>2
    <3>3. CASE k = at /\ ItemOf(at) \notin mem.remaining
      BY <1>5, <3>3
    <3>4. CASE k = at /\ at' = at
      BY <1>4, <2>3, <3>4
    <3> QED BY <1>5, <1>6, <3>1, <3>2, <3>3, <3>4
  <2> QED BY <1>5, <2>2, <2>3
<1> QED BY <1>2, <1>3, <1>5, <1>6, CalmOn DEF LoggedPoints, PartPoints, CarriesOn

(* A pending output of a copy or an archive waits at its staging path, or  *)
(* is in its place with no staging file left.                              *)
LEMMA ResumeStagedCalm ==
  ASSUME CalmStep, ResumeStaged
  PROVE  Agreement' /\ CarriesOn
<1>1. /\ Process /\ pc = "intent" /\ ~Moving /\ cmd = "resume"
      /\ mem.outputs[at].role = "pending"
  BY DEF Process, Resuming, ResumeStaged, ToResume, PendingIn
<1>2. /\ op' = op /\ op \in Plan /\ mem \in Journal /\ ~Fault("file")
      /\ Parts \subseteq 1..MaxParts
  BY <1>1, CalmFacts
<1>3. durable = mem /\ Aligned(fs, durable) /\ Dropped(durable)
  BY <1>1, CalmWork DEF PartPoints
<1>4. /\ at \in Parts /\ at \in 1..MaxParts /\ Agrees(fs, durable, at)
      /\ \A l \in Parts : l < at => Role(durable, l) = "done"
      /\ op.kind = "compress" =>
           \A k \in Parts : k < at /\ LastOfItem(k) => ItemOf(k) \notin mem.remaining
  BY <1>1, CalmPart DEF PartPoints
<1>5. Role(durable, at) = "pending"
  BY <1>1, <1>3 DEF Role
<1>6. CASE Waiting(fs, durable, at)
  <2>1. at \in mem.staging
    BY <1>1, <1>4 DEF CalmStep, PublishedSafe, JournalsSound, PendingStaged, PendingIn
  <2>2. ~Exists(Dst(at)) /\ Valid(mem.outputs[at].file, Stg(at))
    BY <1>1, <1>3, <1>6 DEF Waiting, Valid, Exists
  <2>3. StagedMatch(mem, at)
    BY <2>1, <2>2 DEF StagedMatch
  <2>4. /\ fs' = Renamed(Stg(at), Dst(at)) /\ durable' = durable
        /\ mem' = Published(mem, at) /\ Goto("checkpoint", at)
    BY <1>2, <2>2, <2>3 DEF ResumeStaged, FileError
  <2> QED BY <1>1, <1>5, <1>6, <2>4, PublishedCalm DEF PartPoints
<1>7. CASE OutThere(fs, durable, at)
  <2>1. Exists(Dst(at)) /\ Valid(mem.outputs[at].file, Dst(at)) /\ ~Exists(Stg(at))
    BY <1>3, <1>7 DEF OutThere, Valid, Exists
  <2>2. \A s \in mem.staging : ~Exists(Stg(s))
    <3>1. SUFFICES ASSUME NEW s \in mem.staging, fs[Stg(s)].id # 0 PROVE FALSE
      BY DEF Exists
    <3>2. s \in Parts /\ \A l \in Parts : l < s => Role(durable, l) = "done"
      BY <1>2, <1>3, <3>1 DEF Aligned, Journal
    <3>3. at \in Int /\ s \in Int
      BY <1>4, <3>2 DEF Parts
    <3>4. s = at \/ s < at
      BY <1>4, <1>5, <3>2, <3>3
    <3>5. CASE s < at
      <4>1. OutThere(fs, durable, s)
        BY <1>3, <1>4, <3>2, <3>5 DEF Aligned, Agrees
      <4> QED BY <3>1, <4>1 DEF OutThere
    <3> QED BY <2>1, <3>1, <3>4, <3>5 DEF Exists
  <2>3. ~StagedMatch(mem, at)
    BY <2>2 DEF StagedMatch, Valid
  <2> DEFINE existing == {k \in mem.staging : Exists(Stg(k))}
             o == WithoutOutput(mem, at)
             j == [o EXCEPT !.staging = existing]
  <2>4. existing = {}
    BY <2>2
  <2>5. /\ fs' = fs /\ durable' = durable /\ mem' = j /\ Goto("checkpoint", at)
    BY <1>2, <2>1, <2>3, <2>4 DEF ResumeStaged, FileError
  <2>6. /\ o \in Journal /\ o.status = mem.status /\ o.remaining = mem.remaining
        /\ \A k \in 1..MaxParts : k # at => o.outputs[k] = mem.outputs[k]
    <3>1. o \in Journal
      BY <1>2, <1>4, JournalsTyped, NoJournalTyped
    <3>2. o.status = mem.status
      BY <1>2, <1>4, Entries
    <3> QED BY <1>2, <1>4, <3>1, <3>2, OutputRoles
  <2> HIDE DEF o
  <2>7. j.status = o.status /\ j.remaining = o.remaining /\ j.outputs = o.outputs
    <3> HIDE DEF existing
    <3> QED BY <2>6 DEF Journal
  <2> HIDE DEF j
  <2>8. /\ \A k \in Parts : k # at => mem'.outputs[k] = durable'.outputs[k]
        /\ mem'.status = durable'.status /\ mem'.remaining = durable'.remaining
    BY <1>2, <1>3, <2>5, <2>6, <2>7
  <2> QED BY <1>2, <1>3, <1>4, <1>5, <2>1, <2>5, <2>8, CalmCheckpoint
          DEF Goto, Exists, CarriesOn
<1> QED BY <1>4, <1>5, <1>6, <1>7 DEF Agrees

(* Only a copy is refused: the source of an archive is in its place.       *)
LEMMA ResumeRefusedCalm ==
  ASSUME CalmStep, ResumeRefused
  PROVE  Agreement' /\ CarriesOn
<1>1. Process /\ pc = "intent" /\ ~Moving /\ ~PendingIn(mem, at) /\ ~MayRebuild(at)
  BY DEF Process, Resuming, ResumeRefused, ToResume
<1>2. /\ op' = op /\ op \in Plan /\ \A i \in Items : PlannedSource(i).id # 0
  BY <1>1, CalmFacts
<1>3. Aligned(fs, durable) /\ Dropped(durable)
  BY <1>1, CalmWork DEF PartPoints
<1>4. at \in Parts
  BY <1>1, CalmPart DEF PartPoints
<1>5. op.kind = "copy"
  <2>1. ItemOf(at) \in Items
    BY <1>2, <1>4, PartOrder
  <2>2. Valid(PlannedSource(ItemOf(at)), Src(ItemOf(at)))
    BY <1>1, <1>2, <1>3, <2>1 DEF Aligned, Valid, Exists
  <2> QED BY <1>1, <2>2 DEF MayRebuild
<1>6. Stop /\ durable' = durable /\ fs' = fs
  BY DEF ResumeRefused, store
<1> QED BY <1>2, <1>3, <1>5, <1>6, CalmStop DEF Stop, CarriesOn

(* A file still to be moved waits at its source, and a moved one is in its *)
(* place.                                                                  *)
LEMMA ResumeMoveCalm ==
  ASSUME CalmStep, ResumeMove
  PROVE  Agreement' /\ CarriesOn
<1>1. /\ Process /\ pc = "intent" /\ Moving /\ fs' = fs
      /\ Role(mem, at) # "done"
  BY DEF Process, Resuming, ResumeMove, ToResume, Role
<1>2. /\ op' = op /\ op \in Plan /\ mem \in Journal /\ ~Fault("put")
      /\ Parts \subseteq 1..MaxParts /\ Parts = Items
      /\ \A i \in Items : PlannedSource(i).id # 0
  BY <1>1, CalmFacts
<1>3. durable = mem /\ Aligned(fs, durable) /\ Dropped(durable)
  BY <1>1, CalmWork DEF PartPoints
<1>4. /\ at \in Parts /\ at \in 1..MaxParts /\ Agrees(fs, durable, at)
  BY <1>1, CalmPart DEF PartPoints
<1>5. Role(durable, at) \in {"none", "pending"}
  BY <1>1, <1>2, <1>3, <1>4 DEF Journal, Output, Role
<1> DEFINE i == WithPending(mem, at, PlannedSource(at))
           j == IF PendingIn(mem, at) THEN mem ELSE i
           unmoved == Valid(PlannedSource(at), Src(at)) /\ ~Exists(Dst(at))
           moved == /\ ~Exists(Src(at)) /\ PendingIn(mem, at)
                    /\ Valid(mem.outputs[at].file, Dst(at))
<1>6. /\ unmoved /\ j = mem => Goto("move", at) /\ durable' = durable /\ mem' = mem
      /\ unmoved /\ j # mem => durable' = j /\ mem' = j /\ Goto("move", at)
      /\ moved => /\ mem' = WithoutOutput(mem, at) /\ Goto("checkpoint", at)
                  /\ durable' = durable
  <2>1. CASE unmoved /\ j = mem
    BY <2>1 DEF ResumeMove, Valid
  <2>2. CASE unmoved /\ j # mem
    BY <1>2, <2>2 DEF ResumeMove, Put, Valid
  <2>3. CASE moved
    BY <2>3 DEF ResumeMove, Valid
  <2>4. moved => ~unmoved
    BY DEF Valid
  <2> QED BY <2>1, <2>2, <2>3, <2>4
<1>7. CASE Role(durable, at) = "none"
  <2>1. unmoved
    BY <1>1, <1>2, <1>4, <1>7 DEF Agrees, Valid, Exists
  <2>2. ~PendingIn(mem, at)
    BY <1>3, <1>7 DEF PendingIn, Role
  <2>3. i.outputs[at].role = "pending"
    <3>1. PlannedSource(at) \in File
      BY <1>2, <1>4, PlannedTyped
    <3> QED BY <1>2, <1>4, <3>1, PendingRoles
  <2>4. j = i /\ j # mem
    BY <2>2, <2>3 DEF PendingIn
  <2>5. durable' = i /\ mem' = i /\ Goto("move", at)
    BY <1>6, <2>1, <2>4
  <2> QED BY <1>1, <1>7, <2>5, WaitsToMove
<1>8. CASE Role(durable, at) = "pending" /\ Waiting(fs, durable, at)
  <2>1. unmoved /\ j = mem
    BY <1>1, <1>2, <1>3, <1>4, <1>8 DEF Waiting, Valid, Exists, PendingIn, Role
  <2>2. Goto("move", at) /\ durable' = durable /\ mem' = mem
    BY <1>6, <2>1
  <2> QED BY <1>1, <1>2, <1>3, <1>8, <2>2, CalmOn
          DEF Goto, LoggedPoints, PartPoints, Waiting, Moving, CarriesOn
<1>9. CASE Role(durable, at) = "pending" /\ OutThere(fs, durable, at)
  <2>1. moved
    BY <1>1, <1>3, <1>9 DEF OutThere, Valid, Exists, PendingIn, Role
  <2>2. mem' = WithoutOutput(mem, at) /\ Goto("checkpoint", at) /\ durable' = durable
    BY <1>6, <2>1
  <2>3. /\ \A k \in Parts : k # at => mem'.outputs[k] = durable'.outputs[k]
        /\ mem'.status = durable'.status /\ mem'.remaining = durable'.remaining
    <3>1. WithoutOutput(mem, at).status = mem.status
      BY <1>2, <1>4, Entries
    <3> QED BY <1>2, <1>3, <1>4, <2>2, <3>1, OutputRoles
  <2> QED BY <1>1, <1>2, <1>3, <1>9, <2>2, <2>3, CalmCheckpoint
          DEF Goto, OutThere, Moving, CarriesOn
<1> QED BY <1>4, <1>5, <1>7, <1>8, <1>9 DEF Agrees

-----------------------------------------------------------------------------
(* The whole of it.                                                        *)

(* No step of a calm command stops it before its end, but for a copy.      *)
LEMMA ProcessCalm ==
  ASSUME CalmStep, Process
  PROVE  Agreement' /\ CarriesOn
<1>1. pc \notin {"discard", "fail"}
  BY DEF CalmStep, Agreement, Smooth
<1> QED BY <1>1, ApplyStartCalm, ValidateCalm, MoveIntentCalm, MoveCalm, StageIntentCalm,
           StageCalm, StageRenameCalm, PublishIntentCalm, PublishCalm, CheckpointCalm,
           ItemDoneCalm, FinishCalm, RollbackStepCalm, RollbackEndCalm, UndoStepCalm,
           UnstageCalm, RevalidateCalm, HoldCalm, UndoCalm, RollbackCalm, RecoverRollbackCalm,
           ResumeCalm, ResumeSkipCalm, ResumeStagedCalm, ResumeRefusedCalm, ResumeMoveCalm
        DEF Process, Apply, Staging, Reversal, Command, Resuming, Discard, ApplyFails

(* Killed, an apply or a resume leaves the files as its journal says.      *)
LEMMA CrashCalm ==
  ASSUME CalmStep, Crash
  PROVE  Agreement'
<1>1. op' = op /\ durable' = durable /\ fs' = fs /\ Stop
  BY DEF Crash, store
<1>2. TypeOK
  BY DEF CalmStep, PublishedSafe, RecoverySafe, ItemsSafe
<1>3. ~Fault("crashed_reversal")
  BY <1>2, NothingFails DEF CalmStep
<1>4. (cmd = "apply" /\ pc # "rollback") \/ cmd = "resume"
  BY <1>3 DEF Crash
<1>5. pc \notin {"unstage", "rollback", "undo"}
  BY <1>4 DEF CalmStep, Agreement, Logged, Smooth, PartPoints
<1> QED BY <1>1, <1>5, CalmStop DEF CalmStep, Agreement, Followed, Stop

LEMMA RecoverableFirst == Init => Recoverable
<1> SUFFICES ASSUME Init PROVE Recoverable
  OBVIOUS
<1>1. PublishedSafe /\ OutsideAway
  BY PublishedSafeFirst, OutsideAwayFirst
<1>2. /\ op \in Plan /\ pc = "planned" /\ cmd = "apply"
      /\ durable = NoJournal /\ mem = NoJournal
      /\ \A p \in Path : fs[p] = CASE p[1] = "src" -> PlannedSource(p[2])
                                   [] p[1] = "dst" -> PlannedOutput(p[2])
                                   [] OTHER -> NoFile
  BY DEF Init
<1>3. /\ \A i \in Items : fs[Src(i)] = PlannedSource(i)
      /\ \A k \in 1..MaxParts : fs[Dst(k)] = PlannedOutput(k) /\ fs[Stg(k)] = NoFile
  <2>1. ASSUME NEW i \in Items PROVE fs[Src(i)] = PlannedSource(i)
    BY <1>2, Places DEF Src
  <2>2. ASSUME NEW k \in 1..MaxParts PROVE fs[Dst(k)] = PlannedOutput(k)
    BY <1>2, Places DEF Dst
  <2>3. ASSUME NEW k \in 1..MaxParts PROVE fs[Stg(k)] = NoFile
    BY <1>2, Places DEF Stg
  <2> QED BY <2>1, <2>2, <2>3
<1>4. Parts \subseteq 1..MaxParts /\ (Moving => Parts = Items)
  BY <1>2, PartsOfItems
<1>5. Honest
  <2>1. \A j \in Piped \cup {mem} : j = NoJournal
    BY DEF Init, Piped
  <2>2. NoJournal.undo_safe = FALSE
    BY DEF NoJournal
  <2> QED BY <1>2, <1>3, <1>4, <2>1, <2>2 DEF Honest
<1>6. ASSUME Calm PROVE Agreement
  <2>1. \A k \in 1..MaxParts : Role(durable, k) = "none"
    BY <1>2 DEF Role, NoJournal, NoOutput
  <2>2. NoFile.id = 0
    BY DEF NoFile
  <2>3. \A k \in Parts : Agrees(fs, durable, k)
    BY <1>3, <1>4, <1>6, <2>1, <2>2 DEF Agrees, Calm, PlannedOutput
  <2>4. Aligned(fs, durable)
    BY <1>3, <2>2, <2>3 DEF Aligned
  <2>5. Dropped(durable)
    BY <1>4, <2>1 DEF Dropped
  <2>6. Logged
    BY <1>2 DEF Logged, LoggedPoints, PartPoints
  <2>7. Smooth
    BY <1>2 DEF Smooth
  <2> QED BY <2>4, <2>5, <2>6, <2>7 DEF Agreement
<1> QED BY <1>1, <1>5, <1>6 DEF Recoverable

LEMMA RecoverableStep == Recoverable /\ [Next]_vars => Recoverable'
<1> SUFFICES ASSUME Recoverable, [Next]_vars PROVE Recoverable'
  OBVIOUS
<1>1. PublishedSafe' /\ OutsideAway' /\ Honest'
  BY PublishedSafeStep, OutsideAwayStep, HonestStep DEF Recoverable
<1>2. TypeOK
  BY DEF Recoverable, PublishedSafe, RecoverySafe, ItemsSafe
<1>3. ASSUME Calm' PROVE Agreement'
  <2>1. CASE UNCHANGED vars
    <3>1. op' = op /\ Calm /\ Agreement
      BY <1>3, <2>1 DEF vars, Calm, OnlyCrashed, Recoverable
    <3>2. /\ fs' = fs /\ durable' = durable /\ mem' = mem /\ cmd' = cmd /\ pc' = pc
          /\ at' = at /\ complete' = complete
      BY <2>1 DEF vars, store, proc
    <3> QED BY <3>1, <3>2, AgreementSame
  <2>2. CASE Next
    <3>1. OnlyCrashed(faults') /\ ~op'.crossing /\ op'.before = {}
      BY <1>3 DEF Calm, OnlyCrashed
    <3>2. CalmStep
      BY <1>2, <2>2, <3>1, CalmBefore DEF CalmStep, Recoverable
    <3>3. ~OutsideChange
      BY <1>2, <3>1, NothingFails DEF OutsideChange
    <3> QED BY <2>2, <3>2, <3>3, ProcessCalm, CrashCalm DEF Next
  <2> QED BY <2>1, <2>2
<1> QED BY <1>1, <1>3 DEF Recoverable

(* What agrees with its journal can be rolled back.                        *)
LEMMA AgreeingCanRollBack == Recoverable => CrashedCanRollBack
<1> SUFFICES ASSUME Recoverable, pc = "idle", NeedsRecovery(durable), durable.undo_safe,
                    ~op.crossing, OnlyCrashed(faults)
             PROVE  RecoverAccepts(durable)
  BY DEF CrashedCanRollBack
<1>1. Calm
  BY DEF Recoverable, Honest, Calm, Piped
<1>2. Aligned(fs, durable)
  BY <1>1 DEF Recoverable, Agreement, Followed
<1>3. /\ durable \in Journal /\ op \in Plan
      /\ PendingStaged(durable)
  BY DEF Recoverable, PublishedSafe, RecoverySafe, ItemsSafe, TypeOK, JournalsSound
<1>4. /\ Parts \subseteq 1..MaxParts /\ (Moving => Parts = Items)
      /\ \A i \in Items : PlannedSource(i).id # 0
  BY <1>3, PartsOfItems, JournalAssumption DEF PlannedSource, Items
<1>5. ASSUME NEW k \in Listed(durable)
      PROVE  IF Unpublished(durable, k)
               THEN IF Moving THEN Valid(durable.outputs[k].file, Src(k))
                    ELSE StagedMatch(durable, k)
               ELSE Reversible(durable, k)
  <2>1. /\ k \in Parts /\ Role(durable, k) \in {"pending", "done"} /\ Agrees(fs, durable, k)
    BY <1>2, <1>3, <1>4, <1>5 DEF Listed, Role, Journal, Output, Aligned
  <2>2. CASE Role(durable, k) = "pending" /\ Waiting(fs, durable, k)
    <3>1. Unpublished(durable, k)
      BY <2>2 DEF Unpublished, PendingIn, Role, Waiting, Exists
    <3>2. CASE Moving
      BY <1>4, <2>1, <2>2, <3>1, <3>2 DEF Waiting, Valid, Exists
    <3>3. CASE ~Moving
      <4>1. k \in durable.staging
        BY <1>3, <2>1, <2>2, <3>3 DEF PendingStaged, PendingIn, Role
      <4> QED BY <2>2, <3>1, <3>3, <4>1 DEF Waiting, StagedMatch, Valid, Exists
    <3> QED BY <3>2, <3>3
  <2>3. CASE OutThere(fs, durable, k)
    BY <2>3 DEF OutThere, Unpublished, Reversible, Valid, Exists
  <2> QED BY <2>1, <2>2, <2>3 DEF Agrees
<1> QED BY <1>5 DEF RecoverAccepts

(* Killed at any step of apply or of a resume, and otherwise undisturbed,  *)
(* an operation that replaced nothing can be rolled back: recover          *)
(* --rollback accepts its journal.                                         *)
THEOREM CrashedCanAlwaysRollBack == Spec => []CrashedCanRollBack
<1> QED BY RecoverableFirst, RecoverableStep, AgreeingCanRollBack, PTL DEF Spec

(* A resume gives up only when something failed.                           *)
LEMMA NoResumeGivesUp ==
  ASSUME Recoverable, Next, op.kind \in {"move", "compress"}
  PROVE  ~ResumeGivesUp
<1> SUFFICES ASSUME ResumeGivesUp PROVE FALSE
  OBVIOUS
<1>1. /\ cmd = "resume" /\ pc' = "idle" /\ durable'.status # "applied"
      /\ faults' = faults /\ OnlyCrashed(faults) /\ ~op.crossing
  BY DEF ResumeGivesUp
<1>2. Calm
  BY <1>1 DEF Recoverable, Honest, Calm
<1>3. CalmStep
  BY <1>1, <1>2 DEF CalmStep, Recoverable
<1>4. TypeOK
  BY DEF Recoverable, PublishedSafe, RecoverySafe, ItemsSafe
<1>5. ~OutsideChange
  BY <1>1, <1>4, NothingFails DEF OutsideChange
<1>6. ~Crash
  <2>1. Crash => Fault("crashed_resume")
    BY <1>1 DEF Crash
  <2>2. faults \in [FaultKinds -> 0..MaxFaults] /\ MaxFaults \in Nat
    BY <1>4, JournalAssumption DEF TypeOK
  <2>3. faults["crashed_resume"] \in Nat
    BY <2>2 DEF FaultKinds
  <2>4. Fault("crashed_resume") => faults'["crashed_resume"] = faults["crashed_resume"] + 1
    BY <2>2 DEF Fault, FaultKinds
  <2> QED BY <1>1, <2>1, <2>3, <2>4
<1> QED BY <1>1, <1>3, <1>5, <1>6, ProcessCalm DEF Next, CarriesOn

(* A resume carries a move or an archive to its end, whatever the step the *)
(* earlier commands were killed at.                                        *)
THEOREM ResumesAlwaysComplete == Spec => ResumeCompletes
<1>1. Recoverable /\ [Next]_vars =>
        [ op.kind \in {"move", "compress"} => ~ResumeGivesUp ]_vars
  BY NoResumeGivesUp
<1> QED BY <1>1, RecoverableFirst, RecoverableStep, PTL DEF Spec, ResumeCompletes

=============================================================================
