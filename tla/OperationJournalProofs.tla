------------------------ MODULE OperationJournalProofs ------------------------
(***************************************************************************)
(* Proofs about OperationJournal, for any number of items, any kinds of    *)
(* operation and any number of faults: it is well typed, no operation      *)
(* loses an item, the journal is written ahead of the files, and a journal *)
(* that says rolled back or undone tells the truth.                        *)
(*                                                                         *)
(* That no item is lost is not inductive: a step of a move to another      *)
(* volume removes the original and relies on the copy made before, and a   *)
(* reversal relies on the output being the item's.  ItemsSafe adds where   *)
(* each item is (Kept), what a half-done move has made (HalfMoved), and    *)
(* which commands may be where (Control).                                  *)
(***************************************************************************)
EXTENDS OperationJournal, FunctionTheorems, FiniteSetTheorems, TLAPS

-----------------------------------------------------------------------------
(* The strengthening.                                                      *)

PartPoints == {"intent", "stage", "rename", "discard", "publish_intent", "publish",
               "checkpoint", "item_done", "move"}
StagedPoints == {"stage", "rename", "discard", "publish_intent", "publish"}
Points == PartPoints \cup {"idle", "planned", "validate", "finish", "fail", "rollback",
                          "undo", "unstage"}

Control ==
  /\ pc \in PartPoints => at \in Parts
  /\ pc \in StagedPoints => ~Moving
  /\ pc = "move" => Moving
  /\ pc = "rollback" => at \in 0..NumParts
  /\ pc = "undo" => at \in 1..(NumParts + 1)
  /\ half => Moving /\ at \in Items /\ pc \in {"move", "rollback", "undo"}
  /\ half /\ pc = "rollback" => mem.undo_safe

(* What TypeOK says of the running command.                                *)
CommandTyped ==
  /\ cmd \in {"none", "apply", "undo", "rollback", "recover", "resume"}
  /\ pc \in Points
  /\ at \in 0..(MaxParts + 1)
  /\ half \in BOOLEAN /\ complete \in BOOLEAN

(* The source of an item nobody else touched is the item, or is gone and   *)
(* the output is the item.                                                 *)
Kept(i) ==
  /\ Exists(Src(i)) => fs[Src(i)].data = i
  /\ ~Exists(Src(i)) => Moving /\ Exists(Dst(i)) /\ fs[Dst(i)].data = i

(* Half way through a move to another volume the item is at both ends.     *)
HalfMoved ==
  half /\ at \notin hit =>
    /\ Exists(Src(at)) /\ fs[Src(at)].data = at
    /\ Exists(Dst(at)) /\ fs[Dst(at)].data = at

(* Where there is no file there is nothing.                                *)
Files == {f \in [Path -> File] : \A p \in Path : f[p].id = 0 => f[p] = NoFile}

ItemsSafe ==
  /\ TypeOK /\ fs \in Files
  /\ Control
  /\ \A i \in Items \ hit : Kept(i)
  /\ HalfMoved

-----------------------------------------------------------------------------
(* Parts and items.                                                        *)

(* Every part belongs to an item; a move or a delete has one part for each *)
(* item.                                                                   *)
LEMMA PartsOfItems ==
  ASSUME op \in Plan
  PROVE  /\ NumParts \in Nat /\ NumParts <= MaxParts
         /\ 1 \in Parts /\ Items \subseteq 1..MaxParts
         /\ Parts \subseteq 1..MaxParts
         /\ \A k \in Parts : ItemOf(k) \in Items
         /\ Moving => NumParts = N /\ Parts = Items /\ \A k \in Parts : ItemOf(k) = k
<1>1. N \in Nat /\ N > 0
  BY JournalAssumption
<1>2. op.backup \in BOOLEAN /\ (op.backup => op.kind = "compress")
  BY DEF Plan
<1>3. CASE op.backup
  <2>1. NumParts = 2 * N /\ op.kind = "compress"
    BY <1>2, <1>3 DEF NumParts
  <2>2. \A k \in 1..(2 * N) : (k + 1) \div 2 \in 1..N
    BY <1>1
  <2> QED BY <1>1, <1>3, <2>1, <2>2 DEF Parts, Items, MaxParts, ItemOf, Moving
<1>4. CASE ~op.backup
  BY <1>1, <1>4 DEF NumParts, Parts, Items, MaxParts, ItemOf, Moving
<1> QED BY <1>3, <1>4

(* The places a file can be at.                                            *)
LEMMA Places ==
  /\ \A i \in Items : Src(i) \in Path
  /\ \A k \in 1..MaxParts : Dst(k) \in Path /\ Stg(k) \in Path /\ Tmp(k) \in Path
BY DEF Path, Src, Dst, Stg, Tmp

-----------------------------------------------------------------------------
(* A fresh identity.                                                       *)

(* The set of values a function takes on a finite set is finite.           *)
LEMMA FiniteRange ==
  ASSUME NEW S, IsFiniteSet(S), NEW f, f = [x \in S |-> f[x]]
  PROVE  IsFiniteSet({f[x] : x \in S})
<1> DEFINE T == {f[x] : x \in S}
<1>1. f \in [S -> T] /\ \A t \in T : \E x \in S : f[x] = t
  OBVIOUS
<1>2. f \in Surjection(S, T)
  BY <1>1 DEF Surjection
<1> QED BY <1>2, FS_Surjection

LEMMA PathFinite == IsFiniteSet(Path)
<1>1. N \in Nat
  BY JournalAssumption
<1>2. IsFiniteSet(1..N) /\ IsFiniteSet(1..(2 * N))
  BY <1>1, FS_Interval
<1>3. IsFiniteSet({"src"}) /\ IsFiniteSet({"dst", "stg", "tmp"})
  <2>1. IsFiniteSet({"src"}) /\ IsFiniteSet({"dst"})
    BY FS_Singleton
  <2>2. IsFiniteSet({"dst"} \cup {"stg"})
    BY <2>1, FS_AddElement
  <2>3. IsFiniteSet(({"dst"} \cup {"stg"}) \cup {"tmp"})
    BY <2>2, FS_AddElement
  <2>4. ({"dst"} \cup {"stg"}) \cup {"tmp"} = {"dst", "stg", "tmp"}
    OBVIOUS
  <2> QED BY <2>1, <2>3, <2>4
<1>4. IsFiniteSet({"src"} \X (1..N)) /\ IsFiniteSet({"dst", "stg", "tmp"} \X (1..(2 * N)))
  BY <1>2, <1>3, FS_Product
<1> QED BY <1>4, FS_Union DEF Path, Items, MaxParts

LEMMA UsedFinite == IsFiniteSet(Used)
<1>1. N \in Nat
  BY JournalAssumption
<1>2. ASSUME NEW j PROVE IsFiniteSet(Identities(j))
  <2> DEFINE f == [k \in 1..MaxParts |-> j.outputs[k].file.id]
  <2>1. IsFiniteSet(1..MaxParts)
    BY <1>1, FS_Interval DEF MaxParts
  <2>2. IsFiniteSet({f[k] : k \in 1..MaxParts})
    BY <2>1, FiniteRange
  <2>3. {f[k] : k \in 1..MaxParts} = Identities(j)
    BY DEF Identities
  <2> QED BY <2>2, <2>3
<1>3. IsFiniteSet({fs[p].id : p \in Path})
  <2> DEFINE f == [p \in Path |-> fs[p].id]
  <2>1. IsFiniteSet({f[p] : p \in Path})
    BY PathFinite, FiniteRange
  <2>2. {f[p] : p \in Path} = {fs[p].id : p \in Path}
    OBVIOUS
  <2> QED BY <2>1, <2>2
<1>4. IsFiniteSet(0..(N + MaxParts))
  BY <1>1, FS_Interval DEF MaxParts
<1>5. IsFiniteSet({fs[p].id : p \in Path} \cup Identities(durable))
  BY <1>2, <1>3, FS_Union
<1>6. IsFiniteSet(({fs[p].id : p \in Path} \cup Identities(durable)) \cup Identities(mem))
  BY <1>2, <1>5, FS_Union
<1>7. IsFiniteSet(UNION {Identities(held[v]) : v \in Variables})
  <2> DEFINE f == [v \in Variables |-> Identities(held[v])]
  <2>1. IsFiniteSet({f[v] : v \in Variables})
    BY JournalAssumption, FiniteRange
  <2>2. \A T \in {f[v] : v \in Variables} : IsFiniteSet(T)
    BY <1>2
  <2>3. {f[v] : v \in Variables} = {Identities(held[v]) : v \in Variables}
    OBVIOUS
  <2> HIDE DEF f
  <2> QED BY <2>1, <2>2, <2>3, FS_UNION
<1>8. IsFiniteSet((({fs[p].id : p \in Path} \cup Identities(durable)) \cup Identities(mem))
                    \cup 0..(N + MaxParts))
  BY <1>4, <1>6, FS_Union
<1> DEFINE known == (({fs[p].id : p \in Path} \cup Identities(durable)) \cup Identities(mem))
                      \cup 0..(N + MaxParts)
           kept == UNION {Identities(held[v]) : v \in Variables}
<1>9. IsFiniteSet(known \cup kept)
  <2> HIDE DEF known, kept
  <2>1. IsFiniteSet(known) /\ IsFiniteSet(kept)
    BY <1>7, <1>8 DEF known, kept
  <2> QED BY <2>1, FS_Union
<1>10. Used = known \cup kept
  BY DEF Used
<1> HIDE DEF known, kept
<1> QED BY <1>9, <1>10

(* There is an identity that no file and no journal has.                   *)
LEMMA FreshIsNew == Fresh \in Nat /\ Fresh # 0 /\ Fresh \notin Used
<1> DEFINE c == Cardinality(Used)
<1>1. IsFiniteSet(Used) /\ c \in Nat
  BY UsedFinite, FS_CardinalityType
<1>2. \E n \in 1..(c + 1) : n \notin Used
  <2> SUFFICES ASSUME 1..(c + 1) \subseteq Used PROVE FALSE
    OBVIOUS
  <2>1. Cardinality(1..(c + 1)) <= c
    BY <1>1, FS_Subset
  <2>2. Cardinality(1..(c + 1)) = c + 1
    <3> HIDE DEF c
    <3> QED BY <1>1, FS_Interval
  <2> HIDE DEF c
  <2> QED BY <1>1, <2>1, <2>2
<1>3. Fresh \in 1..(c + 1) /\ Fresh \notin Used
  BY <1>2 DEF Fresh
<1> HIDE DEF c
<1> QED BY <1>1, <1>3

-----------------------------------------------------------------------------
(* What the operations on files and journals return.                       *)

LEMMA FilesTyped ==
  ASSUME fs \in Files, NEW p \in Path, NEW q \in Path
  PROVE  /\ Removed(p) \in Files
         /\ Renamed(p, q) \in Files
         /\ Copied(p, q) \in Files
         /\ [fs EXCEPT ![p] = [id |-> Fresh, data |-> Outside]] \in Files
<1> DEFINE Fine(f) == f \in File /\ (f.id = 0 => f = NoFile)
<1>1. N \in Nat /\ Fresh \in Nat /\ Fresh # 0
  BY JournalAssumption, FreshIsNew
<1>2. fs \in [Path -> File] /\ \A r \in Path : Fine(fs[r])
  BY DEF Files
<1>3. Fine(NoFile)
  BY <1>1 DEF NoFile, File
<1>4. Fine([id |-> Fresh, data |-> Outside])
  BY <1>1 DEF Outside, File
<1>5. fs[p].data \in 0..(N + 2)
  BY <1>2 DEF File
<1>6. Fine([id |-> Fresh, data |-> IF fs[p].data = Outside THEN CopyOfOutside
                                   ELSE fs[p].data])
  BY <1>1, <1>5 DEF CopyOfOutside, File
<1> HIDE DEF Fine
<1>7. ASSUME NEW r \in Path, NEW f, Fine(f)
      PROVE  /\ [fs EXCEPT ![r] = f] \in [Path -> File]
             /\ \A x \in Path : Fine([fs EXCEPT ![r] = f][x])
  BY <1>2, <1>7 DEF Fine
<1>8. /\ Renamed(p, q) \in [Path -> File]
      /\ \A x \in Path : Fine(Renamed(p, q)[x])
  BY <1>2, <1>3 DEF Fine, Renamed
<1>9. /\ Removed(p) \in [Path -> File] /\ \A x \in Path : Fine(Removed(p)[x])
  BY <1>3, <1>7 DEF Removed
<1>10. /\ Copied(p, q) \in [Path -> File] /\ \A x \in Path : Fine(Copied(p, q)[x])
  BY <1>6, <1>7 DEF Copied
<1>11. /\ [fs EXCEPT ![p] = [id |-> Fresh, data |-> Outside]] \in [Path -> File]
       /\ \A x \in Path : Fine([fs EXCEPT ![p] = [id |-> Fresh, data |-> Outside]][x])
  BY <1>4, <1>7
<1> QED BY <1>8, <1>9, <1>10, <1>11 DEF Files, Fine

LEMMA NoJournalTyped == NoJournal \in Journal /\ NoFile \in File
<1>1. N \in Nat
  BY JournalAssumption
<1>2. NoFile \in File /\ NoOutput \in Output
  BY <1>1 DEF NoFile, File, NoOutput, Output
<1> QED BY <1>2 DEF NoJournal, Journal, Statuses

LEMMA JournalsTyped ==
  ASSUME NEW j \in Journal, NEW k \in 1..MaxParts, NEW file \in File
  PROVE  /\ WithStaging(j, k) \in Journal
         /\ WithoutStaging(j, k) \in Journal
         /\ WithPending(j, k, file) \in Journal
         /\ WithoutOutput(j, k) \in Journal
         /\ WithDone(j, k, file) \in Journal
<1>1. NoOutput \in Output
  BY NoJournalTyped DEF NoOutput, Output
<1>2. /\ [role |-> "pending", file |-> file] \in Output
      /\ [role |-> "done", file |-> file] \in Output
  BY DEF Output
<1>3. WithStaging(j, k) \in Journal /\ WithoutStaging(j, k) \in Journal
  BY DEF WithStaging, WithoutStaging, Journal
<1>4. WithPending(j, k, file) \in Journal
  BY <1>2 DEF WithPending, Journal
<1>5. WithoutOutput(j, k) \in Journal
  BY <1>1 DEF WithoutOutput, Journal
<1>6. WithDone(j, k, file) \in Journal
  BY <1>2 DEF WithDone, Journal
<1> QED BY <1>3, <1>4, <1>5, <1>6

(* The records the plan made.                                              *)
LEMMA PlannedTyped ==
  /\ \A i \in Items : PlannedSource(i) \in File
  /\ \A k \in 1..MaxParts : PlannedOutput(k) \in File
<1>1. N \in Nat
  BY JournalAssumption
<1> QED BY <1>1, NoJournalTyped DEF PlannedSource, PlannedOutput, File, Items, MaxParts, Old

(* What a file operation leaves at each place.                             *)
LEMMA FilesAfter ==
  ASSUME fs \in [Path -> File], NEW p \in Path, NEW q \in Path, NEW r \in Path, p # q
  PROVE  /\ Removed(p)[r] = IF r = p THEN NoFile ELSE fs[r]
         /\ Renamed(p, q)[r] = IF r = p THEN NoFile ELSE IF r = q THEN fs[p] ELSE fs[r]
         /\ Copied(p, q)[r].id = (IF r = q THEN Fresh ELSE fs[r].id)
         /\ r # q => Copied(p, q)[r] = fs[r]
         /\ fs[p].data # Outside => Copied(p, q)[q].data = fs[p].data
BY DEF Removed, Renamed, Copied

-----------------------------------------------------------------------------
(* A step keeps the counts of faults typed.                                *)

LEMMA FaultTyped ==
  ASSUME faults \in [FaultKinds -> 0..MaxFaults], NEW x \in FaultKinds, Fault(x)
  PROVE  faults' \in [FaultKinds -> 0..MaxFaults]
<1>1. MaxFaults \in Nat
  BY JournalAssumption
<1>2. \A y \in FaultKinds : faults[y] \in 0..MaxFaults
  OBVIOUS
<1>3. faults[x] + 1 \in 0..MaxFaults
  BY <1>1, <1>2 DEF Fault, FaultKinds
<1> QED BY <1>3 DEF Fault

-----------------------------------------------------------------------------
(* The steps, one aspect at a time.                                        *)

(* The plan is made once.                                                  *)
LEMMA PlanStays ==
  ASSUME Next
  PROVE  op' = op
<1>1. CASE ApplyStart
  BY <1>1 DEF ApplyStart
<1>2. CASE Validate
  BY <1>2 DEF Validate
<1>3. CASE MoveIntent
  BY <1>3 DEF MoveIntent
<1>4. CASE Finish
  BY <1>4 DEF Finish
<1>5. CASE ApplyFails
  BY <1>5 DEF ApplyFails
<1>6. CASE StageIntent
  BY <1>6 DEF StageIntent
<1>7. CASE Stage
  BY <1>7 DEF Stage
<1>8. CASE StageRename
  BY <1>8 DEF StageRename
<1>9. CASE Discard
  BY <1>9 DEF Discard
<1>10. CASE PublishIntent
  BY <1>10 DEF PublishIntent
<1>11. CASE Publish
  BY <1>11 DEF Publish
<1>12. CASE Move
  BY <1>12 DEF Move
<1>13. CASE Checkpoint
  BY <1>13 DEF Checkpoint
<1>14. CASE ItemDone
  BY <1>14 DEF ItemDone
<1>15. CASE RollbackStep
  BY <1>15 DEF RollbackStep
<1>16. CASE RollbackEnd
  BY <1>16 DEF RollbackEnd
<1>17. CASE UndoStep
  BY <1>17 DEF UndoStep
<1>18. CASE UndoEnd
  BY <1>18 DEF UndoEnd
<1>19. CASE Unstage
  BY <1>19 DEF Unstage
<1>20. CASE Revalidate
  BY <1>20 DEF Revalidate
<1>21. CASE Undo
  BY <1>21 DEF Undo
<1>22. CASE Rollback
  BY <1>22 DEF Rollback
<1>23. CASE RecoverRollback
  BY <1>23 DEF RecoverRollback
<1>24. CASE Resume
  BY <1>24 DEF Resume
<1>25. CASE ResumeSkip
  BY <1>25 DEF ResumeSkip
<1>26. CASE ResumeStaged
  BY <1>26 DEF ResumeStaged
<1>27. CASE ResumeRefused
  BY <1>27 DEF ResumeRefused
<1>28. CASE ResumeMove
  BY <1>28 DEF ResumeMove
<1>29. CASE Crash
  BY <1>29 DEF Crash
<1>30. CASE OutsideChange
  BY <1>30 DEF OutsideChange
<1>31. CASE Hold
  BY <1>31 DEF Hold
<1> QED BY <1>31, <1>1, <1>2, <1>3, <1>4, <1>5, <1>6, <1>7, <1>8, <1>9, <1>10, <1>11,
          <1>12, <1>13, <1>14, <1>15, <1>16, <1>17, <1>18, <1>19, <1>20,
          <1>21, <1>22, <1>23, <1>24, <1>25, <1>26, <1>27, <1>28, <1>29, <1>30
      DEF Next, Process, Apply, Staging, Reversal, Command, Resuming

(* Every step counts at most one fault.                                    *)
LEMMA FaultsStep ==
  ASSUME Next
  PROVE  (UNCHANGED faults) \/ \E x \in FaultKinds : Fault(x)
<1>1. CASE ApplyStart
  BY <1>1 DEF ApplyStart, Put, NoFault, FileError, FaultKinds
<1>2. CASE Validate
  BY <1>2 DEF Validate
<1>3. CASE MoveIntent
  BY <1>3 DEF MoveIntent, Put, NoFault, FileError, FaultKinds
<1>4. CASE Finish
  BY <1>4 DEF Finish, Put, NoFault, FileError, FaultKinds
<1>5. CASE ApplyFails
  BY <1>5 DEF ApplyFails, Put, NoFault, FileError, FaultKinds
<1>6. CASE StageIntent
  BY <1>6 DEF StageIntent, Put, NoFault, FileError, FaultKinds
<1>7. CASE Stage
  BY <1>7 DEF Stage, Put, NoFault, FileError, FaultKinds
<1>8. CASE StageRename
  BY <1>8 DEF StageRename, Put, NoFault, FileError, FaultKinds
<1>9. CASE Discard
  BY <1>9 DEF Discard, Put, NoFault, FileError, FaultKinds
<1>10. CASE PublishIntent
  BY <1>10 DEF PublishIntent, Put, NoFault, FileError, FaultKinds
<1>11. CASE Publish
  BY <1>11 DEF Publish, Put, NoFault, FileError, FaultKinds
<1>12. CASE Move
  BY <1>12 DEF Move, Put, NoFault, FileError, FaultKinds, MoveOne
<1>13. CASE Checkpoint
  BY <1>13 DEF Checkpoint, Put, NoFault, FileError, FaultKinds
<1>14. CASE ItemDone
  BY <1>14 DEF ItemDone, Put, NoFault, FileError, FaultKinds
<1>15. CASE RollbackStep
  BY <1>15 DEF RollbackStep, Put, NoFault, FileError, FaultKinds, MoveOne,
       Reverse
<1>16. CASE RollbackEnd
  BY <1>16 DEF RollbackEnd, Put, NoFault, FileError, FaultKinds
<1>17. CASE UndoStep
  BY <1>17 DEF UndoStep, Put, NoFault, FileError, FaultKinds, MoveOne, Reverse
<1>18. CASE UndoEnd
  BY <1>18 DEF UndoEnd, Put, NoFault, FileError, FaultKinds
<1>19. CASE Unstage
  BY <1>19 DEF Unstage, Put, NoFault, FileError, FaultKinds
<1>20. CASE Revalidate
  BY <1>20 DEF Revalidate
<1>21. CASE Undo
  BY <1>21 DEF Undo
<1>22. CASE Rollback
  BY <1>22 DEF Rollback
<1>23. CASE RecoverRollback
  BY <1>23 DEF RecoverRollback
<1>24. CASE Resume
  BY <1>24 DEF Resume
<1>25. CASE ResumeSkip
  BY <1>25 DEF ResumeSkip
<1>26. CASE ResumeStaged
  BY <1>26 DEF ResumeStaged, Put, NoFault, FileError, FaultKinds
<1>27. CASE ResumeRefused
  BY <1>27 DEF ResumeRefused
<1>28. CASE ResumeMove
  BY <1>28 DEF ResumeMove, Put, NoFault, FileError, FaultKinds
<1>29. CASE Crash
  BY <1>29 DEF Crash, FaultKinds
<1>30. CASE OutsideChange
  BY <1>30 DEF OutsideChange, FaultKinds
<1>31. CASE Hold
  BY <1>31 DEF Hold
<1> QED BY <1>31, <1>1, <1>2, <1>3, <1>4, <1>5, <1>6, <1>7, <1>8, <1>9, <1>10, <1>11,
          <1>12, <1>13, <1>14, <1>15, <1>16, <1>17, <1>18, <1>19, <1>20,
          <1>21, <1>22, <1>23, <1>24, <1>25, <1>26, <1>27, <1>28, <1>29, <1>30
      DEF Next, Process, Apply, Staging, Reversal, Command, Resuming

(* Only items are hit.                                                     *)
LEMMA BesidesStep ==
  ASSUME TypeOK, Next
  PROVE  hit' \subseteq Items /\ raced' \in BOOLEAN /\ stale' \in BOOLEAN
<1>1. CASE ApplyStart
  BY <1>1 DEF ApplyStart, besides, TypeOK
<1>2. CASE Validate
  BY <1>2 DEF Validate, besides, TypeOK
<1>3. CASE MoveIntent
  BY <1>3 DEF MoveIntent, besides, TypeOK
<1>4. CASE Finish
  BY <1>4 DEF Finish, besides, TypeOK
<1>5. CASE ApplyFails
  BY <1>5 DEF ApplyFails, besides, TypeOK
<1>6. CASE StageIntent
  BY <1>6 DEF StageIntent, besides, TypeOK
<1>7. CASE Stage
  BY <1>7 DEF Stage, besides, TypeOK
<1>8. CASE StageRename
  BY <1>8 DEF StageRename, besides, TypeOK
<1>9. CASE Discard
  BY <1>9 DEF Discard, besides, TypeOK
<1>10. CASE PublishIntent
  BY <1>10 DEF PublishIntent, besides, TypeOK
<1>11. CASE Publish
  BY <1>11 DEF Publish, besides, TypeOK
<1>12. CASE Move
  BY <1>12 DEF Move, besides, TypeOK
<1>13. CASE Checkpoint
  BY <1>13 DEF Checkpoint, besides, TypeOK
<1>14. CASE ItemDone
  BY <1>14 DEF ItemDone, besides, TypeOK
<1>15. CASE RollbackStep
  BY <1>15 DEF RollbackStep, besides, TypeOK
<1>16. CASE RollbackEnd
  BY <1>16 DEF RollbackEnd, besides, TypeOK
<1>17. CASE UndoStep
  BY <1>17 DEF UndoStep, besides, TypeOK
<1>18. CASE UndoEnd
  BY <1>18 DEF UndoEnd, besides, TypeOK
<1>19. CASE Unstage
  BY <1>19 DEF Unstage, besides, TypeOK
<1>20. CASE Revalidate
  BY <1>20 DEF Revalidate, besides, TypeOK
<1>21. CASE Undo
  BY <1>21 DEF Undo, Begin, TypeOK
<1>22. CASE Rollback
  BY <1>22 DEF Rollback, Begin, TypeOK
<1>23. CASE RecoverRollback
  BY <1>23 DEF RecoverRollback, Begin, TypeOK
<1>24. CASE Resume
  BY <1>24 DEF Resume, Begin, TypeOK
<1>25. CASE ResumeSkip
  BY <1>25 DEF ResumeSkip, besides, TypeOK
<1>26. CASE ResumeStaged
  BY <1>26 DEF ResumeStaged, besides, TypeOK
<1>27. CASE ResumeRefused
  BY <1>27 DEF ResumeRefused, besides, TypeOK
<1>28. CASE ResumeMove
  BY <1>28 DEF ResumeMove, besides, TypeOK
<1>29. CASE Crash
  BY <1>29 DEF Crash, besides, TypeOK
<1>30. CASE OutsideChange
  BY <1>30, PartsOfItems DEF OutsideChange, besides, TypeOK
<1>31. CASE Hold
  BY <1>31 DEF Hold, TypeOK
<1> QED BY <1>31, <1>1, <1>2, <1>3, <1>4, <1>5, <1>6, <1>7, <1>8, <1>9, <1>10, <1>11,
          <1>12, <1>13, <1>14, <1>15, <1>16, <1>17, <1>18, <1>19, <1>20,
          <1>21, <1>22, <1>23, <1>24, <1>25, <1>26, <1>27, <1>28, <1>29, <1>30
      DEF Next, Process, Apply, Staging, Reversal, Command, Resuming

(* A step leaves a file or nothing at every place.                         *)
LEMMA FilesStep ==
  ASSUME TypeOK, Control, fs \in Files, Next
  PROVE  fs' \in Files
<1>1. fs \in Files /\ op \in Plan
  BY DEF TypeOK
<1>2. \A k \in Parts : k \in 1..MaxParts /\ ItemOf(k) \in Items
  BY <1>1, PartsOfItems
<1>3. \A k \in Parts : Dst(k) \in Path /\ Stg(k) \in Path /\ Tmp(k) \in Path
  BY <1>2, Places
<1>4. \A p, q \in Path :
        /\ Removed(p) \in Files
        /\ Renamed(p, q) \in Files
        /\ Copied(p, q) \in Files
        /\ [fs EXCEPT ![p] = [id |-> Fresh, data |-> Outside]] \in Files
  BY <1>1, FilesTyped
<1>5. CASE ApplyStart
  BY <1>5, <1>1 DEF ApplyStart
<1>6. CASE Validate
  BY <1>6, <1>1 DEF Validate, store
<1>7. CASE MoveIntent
  BY <1>7, <1>1 DEF MoveIntent
<1>8. CASE Finish
  BY <1>8, <1>1 DEF Finish
<1>9. CASE ApplyFails
  BY <1>9, <1>1 DEF ApplyFails
<1>10. CASE StageIntent
  BY <1>10, <1>1 DEF StageIntent
<1>11. CASE Stage
  <2>1. at \in Parts
    BY <1>11 DEF Stage, Control, PartPoints
  <2>2. SourceOf(at) \in Path
    <3>1. CASE IsBackup(at)
      <4>1. at - 1 \in 1..MaxParts
        <5>1. at \in 1..MaxParts /\ MaxParts \in Nat /\ at % 2 = 0
          BY <1>2, <2>1, <3>1, JournalAssumption DEF IsBackup, MaxParts
        <5>2. at # 1
          BY <5>1
        <5> QED BY <5>1, <5>2
      <4> QED BY <3>1, <4>1, Places DEF SourceOf
    <3>2. CASE ~IsBackup(at)
      BY <1>2, <2>1, <3>2, Places DEF SourceOf
    <3> QED BY <3>1, <3>2
  <2>3. Src(at) \in Path \/ op.kind # "copy"
    <3>1. op.kind = "copy" => ~op.backup
      BY <1>1 DEF Plan
    <3>2. op.kind = "copy" => Src(at) = SourceOf(at)
      BY <3>1 DEF SourceOf, IsBackup, ItemOf
    <3> QED BY <2>2, <3>2
  <2> QED BY <1>11, <1>1, <1>3, <1>4, <2>1, <2>2, <2>3 DEF Stage
<1>12. CASE StageRename
  BY <1>12, <1>1, <1>3, <1>4 DEF StageRename, Control, PartPoints
<1>13. CASE Discard
  BY <1>13, <1>1, <1>3, <1>4 DEF Discard, Control, PartPoints
<1>14. CASE PublishIntent
  BY <1>14, <1>1 DEF PublishIntent
<1>15. CASE Publish
  BY <1>15, <1>1, <1>3, <1>4 DEF Publish, Control, PartPoints
<1>16. CASE Move
  <2>1. at \in Items
    BY <1>16, <1>1, PartsOfItems DEF Move, Control, PartPoints
  <2>2. Src(at) \in Path /\ Dst(at) \in Path
    BY <1>1, <2>1, PartsOfItems, Places
  <2> QED BY <1>16, <1>1, <1>4, <2>2 DEF Move, MoveOne
<1>17. CASE Checkpoint
  BY <1>17, <1>1 DEF Checkpoint
<1>18. CASE ItemDone
  BY <1>18, <1>1 DEF ItemDone
<1>19. CASE RollbackStep
  <2>1. CASE at \in Listed(mem)
    <3>1. at \in Parts /\ Dst(at) \in Path
      BY <1>3, <2>1 DEF Listed
    <3>2. Moving => Src(at) \in Path
      BY <1>1, <3>1, PartsOfItems, Places
    <3>3. CASE Moving
      BY <1>19, <1>1, <1>4, <2>1, <3>1, <3>2, <3>3 DEF RollbackStep, RollbackNext, Reverse, MoveOne
    <3>4. CASE ~Moving
      BY <1>19, <1>1, <1>4, <2>1, <3>1, <3>4 DEF RollbackStep, Reverse
    <3> QED BY <3>3, <3>4
  <2>2. CASE at \notin Listed(mem)
    BY <1>19, <1>1, <2>2 DEF RollbackStep
  <2> QED BY <2>1, <2>2
<1>20. CASE RollbackEnd
  BY <1>20, <1>1 DEF RollbackEnd
<1>21. CASE UndoStep
  <2>1. CASE at \in Listed(mem)
    <3>1. at \in Parts /\ Dst(at) \in Path
      BY <1>3, <2>1 DEF Listed
    <3>2. Moving => Src(at) \in Path
      BY <1>1, <3>1, PartsOfItems, Places
    <3>3. CASE Moving
      BY <1>21, <1>1, <1>4, <2>1, <3>1, <3>2, <3>3 DEF UndoStep, UndoNext, Reverse, MoveOne
    <3>4. CASE ~Moving
      BY <1>21, <1>1, <1>4, <2>1, <3>1, <3>4 DEF UndoStep, Reverse
    <3> QED BY <3>3, <3>4
  <2>2. CASE at \notin Listed(mem)
    BY <1>21, <1>1, <2>2 DEF UndoStep
  <2> QED BY <2>1, <2>2
<1>22. CASE UndoEnd
  BY <1>22, <1>1 DEF UndoEnd
<1>23. CASE Unstage
  <2>1. PICK k \in mem.staging : fs' = Removed(Stg(k)) \/ UNCHANGED fs
    BY <1>23 DEF Unstage
  <2>2. Stg(k) \in Path
    BY <2>1, Places DEF TypeOK, Journal
  <2> QED BY <1>1, <1>4, <2>1, <2>2
<1>24. CASE Revalidate
  BY <1>24, <1>1 DEF Revalidate, store
<1>25. CASE Undo
  BY <1>25, <1>1 DEF Undo, store
<1>26. CASE Rollback
  BY <1>26, <1>1 DEF Rollback, store
<1>27. CASE RecoverRollback
  BY <1>27, <1>1 DEF RecoverRollback, store
<1>28. CASE Resume
  BY <1>28, <1>1 DEF Resume, store
<1>29. CASE ResumeSkip
  BY <1>29, <1>1 DEF ResumeSkip, store
<1>30. CASE ResumeStaged
  BY <1>30, <1>1, <1>3, <1>4 DEF ResumeStaged, ToResume, Control, PartPoints
<1>31. CASE ResumeRefused
  BY <1>31, <1>1 DEF ResumeRefused, store
<1>32. CASE ResumeMove
  BY <1>32, <1>1 DEF ResumeMove
<1>33. CASE Crash
  BY <1>33, <1>1 DEF Crash, store
<1>34. CASE OutsideChange
  <2>1. PICK k \in Parts, role \in {"src", "dst"} :
          LET p == <<role, IF role = "src" THEN ItemOf(k) ELSE k>>
          IN  \/ fs' = [fs EXCEPT ![p] = [id |-> Fresh, data |-> Outside]]
              \/ fs' = Removed(p)
    BY <1>34 DEF OutsideChange
  <2>2. <<role, IF role = "src" THEN ItemOf(k) ELSE k>> \in Path
    BY <1>2, Places DEF Src, Dst
  <2> QED BY <1>4, <2>1, <2>2
<1>35. CASE Hold
  BY <1>35, <1>1 DEF Hold, store
<1> QED BY <1>35, <1>5, <1>6, <1>7, <1>8, <1>9, <1>10, <1>11, <1>12, <1>13, <1>14,
          <1>15, <1>16, <1>17, <1>18, <1>19, <1>20, <1>21, <1>22, <1>23,
          <1>24, <1>25, <1>26, <1>27, <1>28, <1>29, <1>30, <1>31, <1>32,
          <1>33, <1>34
      DEF Next, Process, Apply, Staging, Reversal, Command, Resuming

(* A command goes only where it may be.                                    *)
LEMMA CommandStep ==
  ASSUME TypeOK, Control, Next
  PROVE  CommandTyped' /\ Control'
<1>1. CommandTyped
  BY DEF TypeOK, CommandTyped, Points, PartPoints
<1>2. op' = op /\ Moving' = Moving /\ NumParts' = NumParts /\ Parts' = Parts
  BY PlanStays DEF Moving, NumParts, Parts
<1>3. /\ NumParts \in Nat /\ NumParts <= MaxParts /\ MaxParts \in Nat
      /\ 1 \in Parts /\ Parts = 1..NumParts
  BY PartsOfItems, JournalAssumption DEF TypeOK, Parts, MaxParts
<1>4. half => Moving /\ pc \in {"move", "rollback", "undo"} /\ at \in Parts
  BY PartsOfItems DEF TypeOK, Control
<1>5. Moving => Parts = Items
  BY PartsOfItems DEF TypeOK
<1>6. CASE ApplyStart
  <2>1. cmd' \in {"none", "apply", "undo", "rollback", "recover", "resume"}
    BY <1>6, <1>1 DEF ApplyStart, Put, Goto, Stop, CommandTyped, Points,
         PartPoints
  <2>2. half' \in BOOLEAN /\ complete' \in BOOLEAN
    BY <1>6, <1>1 DEF ApplyStart, Put, Goto, Stop, CommandTyped, Points
  <2>3. pc' \in Points /\ at' \in 0..(MaxParts + 1)
    BY <1>6, <1>1, <1>2, <1>3, <1>4 DEF ApplyStart, Put, Goto, Stop,
         CommandTyped, Points, PartPoints
  <2>4. Control'
    BY <1>6, <1>1, <1>2, <1>3, <1>4 DEF ApplyStart, Put, Goto, Stop, Control,
         Points, PartPoints, StagedPoints
  <2> QED BY <2>1, <2>2, <2>3, <2>4 DEF CommandTyped
<1>7. CASE Validate
  <2>1. cmd' \in {"none", "apply", "undo", "rollback", "recover", "resume"}
    BY <1>7, <1>1 DEF Validate, Goto, Fail, Stop, CommandTyped, Points,
         PartPoints
  <2>2. half' \in BOOLEAN /\ complete' \in BOOLEAN
    BY <1>7, <1>1 DEF Validate, Goto, Fail, Stop, CommandTyped, Points
  <2>3. pc' \in Points /\ at' \in 0..(MaxParts + 1)
    BY <1>7, <1>1, <1>2, <1>3, <1>4 DEF Validate, Goto, Fail, Stop, CommandTyped,
         Points, PartPoints
  <2>4. Control'
    BY <1>7, <1>1, <1>2, <1>3, <1>4 DEF Validate, Goto, Fail, Stop, Control,
         Points, PartPoints, StagedPoints
  <2> QED BY <2>1, <2>2, <2>3, <2>4 DEF CommandTyped
<1>8. CASE MoveIntent
  <2>1. cmd' \in {"none", "apply", "undo", "rollback", "recover", "resume"}
    BY <1>8, <1>1 DEF MoveIntent, Put, Goto, Fail, Stop, CommandTyped, Points,
         PartPoints
  <2>2. half' \in BOOLEAN /\ complete' \in BOOLEAN
    BY <1>8, <1>1 DEF MoveIntent, Put, Goto, Fail, Stop, CommandTyped, Points
  <2>3. pc' \in Points /\ at' \in 0..(MaxParts + 1)
    BY <1>8, <1>1, <1>2, <1>3, <1>4 DEF MoveIntent, Put, Goto, Fail, Stop,
         CommandTyped, Points, PartPoints
  <2>4. Control'
    BY <1>8, <1>1, <1>2, <1>3, <1>4 DEF MoveIntent, Put, Goto, Fail, Stop,
         Control, Points, PartPoints, StagedPoints
  <2> QED BY <2>1, <2>2, <2>3, <2>4 DEF CommandTyped
<1>9. CASE Finish
  <2>1. cmd' \in {"none", "apply", "undo", "rollback", "recover", "resume"}
    BY <1>9, <1>1 DEF Finish, Put, Stop, CommandTyped, Points, PartPoints
  <2>2. half' \in BOOLEAN /\ complete' \in BOOLEAN
    BY <1>9, <1>1 DEF Finish, Put, Stop, CommandTyped, Points
  <2>3. pc' \in Points /\ at' \in 0..(MaxParts + 1)
    BY <1>9, <1>1, <1>2, <1>3, <1>4 DEF Finish, Put, Stop, CommandTyped, Points,
         PartPoints
  <2>4. Control'
    BY <1>9, <1>1, <1>2, <1>3, <1>4 DEF Finish, Put, Stop, Control, Points,
         PartPoints, StagedPoints
  <2> QED BY <2>1, <2>2, <2>3, <2>4 DEF CommandTyped
<1>10. CASE ApplyFails
  <2>1. cmd' \in {"none", "apply", "undo", "rollback", "recover", "resume"}
    BY <1>10, <1>1 DEF ApplyFails, Put, Stop, CommandTyped, Points, PartPoints
  <2>2. half' \in BOOLEAN /\ complete' \in BOOLEAN
    BY <1>10, <1>1 DEF ApplyFails, Put, Stop, CommandTyped, Points
  <2>3. pc' \in Points /\ at' \in 0..(MaxParts + 1)
    BY <1>10, <1>1, <1>2, <1>3, <1>4 DEF ApplyFails, Put, Stop, CommandTyped,
         Points, PartPoints
  <2>4. Control'
    BY <1>10, <1>1, <1>2, <1>3, <1>4 DEF ApplyFails, Put, Stop, Control, Points,
         PartPoints, StagedPoints
  <2> QED BY <2>1, <2>2, <2>3, <2>4 DEF CommandTyped
<1>11. CASE StageIntent
  <2>1. cmd' \in {"none", "apply", "undo", "rollback", "recover", "resume"}
    BY <1>11, <1>1 DEF StageIntent, Put, Goto, Fail, Stop, CommandTyped, Points,
         PartPoints
  <2>2. half' \in BOOLEAN /\ complete' \in BOOLEAN
    BY <1>11, <1>1 DEF StageIntent, Put, Goto, Fail, Stop, CommandTyped, Points
  <2>3. pc' \in Points /\ at' \in 0..(MaxParts + 1)
    BY <1>11, <1>1, <1>2, <1>3, <1>4 DEF StageIntent, Put, Goto, Fail, Stop,
         CommandTyped, Points, PartPoints
  <2>4. Control'
    BY <1>11, <1>1, <1>2, <1>3, <1>4 DEF StageIntent, Put, Goto, Fail, Stop,
         Control, Points, PartPoints, StagedPoints
  <2> QED BY <2>1, <2>2, <2>3, <2>4 DEF CommandTyped
<1>12. CASE Stage
  <2>1. cmd' \in {"none", "apply", "undo", "rollback", "recover", "resume"}
    BY <1>12, <1>1 DEF Stage, Goto, FailStaged, Stop, CommandTyped, Points,
         PartPoints
  <2>2. half' \in BOOLEAN /\ complete' \in BOOLEAN
    BY <1>12, <1>1 DEF Stage, Goto, FailStaged, Stop, CommandTyped, Points
  <2>3. pc' \in Points /\ at' \in 0..(MaxParts + 1)
    BY <1>12, <1>1, <1>2, <1>3, <1>4 DEF Stage, Goto, FailStaged, Stop,
         CommandTyped, Points, PartPoints
  <2>4. Control'
    BY <1>12, <1>1, <1>2, <1>3, <1>4 DEF Stage, Goto, FailStaged, Stop, Control,
         Points, PartPoints, StagedPoints
  <2> QED BY <2>1, <2>2, <2>3, <2>4 DEF CommandTyped
<1>13. CASE StageRename
  <2>1. cmd' \in {"none", "apply", "undo", "rollback", "recover", "resume"}
    BY <1>13, <1>1 DEF StageRename, Goto, FailStaged, Stop, CommandTyped, Points,
         PartPoints
  <2>2. half' \in BOOLEAN /\ complete' \in BOOLEAN
    BY <1>13, <1>1 DEF StageRename, Goto, FailStaged, Stop, CommandTyped, Points
  <2>3. pc' \in Points /\ at' \in 0..(MaxParts + 1)
    BY <1>13, <1>1, <1>2, <1>3, <1>4 DEF StageRename, Goto, FailStaged, Stop,
         CommandTyped, Points, PartPoints
  <2>4. Control'
    BY <1>13, <1>1, <1>2, <1>3, <1>4 DEF StageRename, Goto, FailStaged, Stop,
         Control, Points, PartPoints, StagedPoints
  <2> QED BY <2>1, <2>2, <2>3, <2>4 DEF CommandTyped
<1>14. CASE Discard
  <2>1. cmd' \in {"none", "apply", "undo", "rollback", "recover", "resume"}
    BY <1>14, <1>1 DEF Discard, Fail, Stop, CommandTyped, Points, PartPoints
  <2>2. half' \in BOOLEAN /\ complete' \in BOOLEAN
    BY <1>14, <1>1 DEF Discard, Fail, Stop, CommandTyped, Points
  <2>3. pc' \in Points /\ at' \in 0..(MaxParts + 1)
    BY <1>14, <1>1, <1>2, <1>3, <1>4 DEF Discard, Fail, Stop, CommandTyped,
         Points, PartPoints
  <2>4. Control'
    BY <1>14, <1>1, <1>2, <1>3, <1>4 DEF Discard, Fail, Stop, Control, Points,
         PartPoints, StagedPoints
  <2> QED BY <2>1, <2>2, <2>3, <2>4 DEF CommandTyped
<1>15. CASE PublishIntent
  <2>1. cmd' \in {"none", "apply", "undo", "rollback", "recover", "resume"}
    BY <1>15, <1>1 DEF PublishIntent, Put, Goto, FailStaged, Stop, CommandTyped,
         Points, PartPoints
  <2>2. half' \in BOOLEAN /\ complete' \in BOOLEAN
    BY <1>15, <1>1 DEF PublishIntent, Put, Goto, FailStaged, Stop, CommandTyped,
         Points
  <2>3. pc' \in Points /\ at' \in 0..(MaxParts + 1)
    BY <1>15, <1>1, <1>2, <1>3, <1>4 DEF PublishIntent, Put, Goto, FailStaged,
         Stop, CommandTyped, Points, PartPoints
  <2>4. Control'
    BY <1>15, <1>1, <1>2, <1>3, <1>4 DEF PublishIntent, Put, Goto, FailStaged,
         Stop, Control, Points, PartPoints, StagedPoints
  <2> QED BY <2>1, <2>2, <2>3, <2>4 DEF CommandTyped
<1>16. CASE Publish
  <2>1. cmd' \in {"none", "apply", "undo", "rollback", "recover", "resume"}
    BY <1>16, <1>1 DEF Publish, Goto, FailStaged, Stop, proc, CommandTyped,
         Points, PartPoints
  <2>2. half' \in BOOLEAN /\ complete' \in BOOLEAN
    BY <1>16, <1>1 DEF Publish, Goto, FailStaged, Stop, proc, CommandTyped, Points
  <2>3. pc' \in Points /\ at' \in 0..(MaxParts + 1)
    BY <1>16, <1>1, <1>2, <1>3, <1>4 DEF Publish, Goto, FailStaged, Stop, proc,
         CommandTyped, Points, PartPoints
  <2>4. Control'
    BY <1>16, <1>1, <1>2, <1>3, <1>4 DEF Publish, Goto, FailStaged, Stop, proc,
         Control, Points, PartPoints, StagedPoints
  <2> QED BY <2>1, <2>2, <2>3, <2>4 DEF CommandTyped
<1>17. CASE Move
  <2>1. cmd' \in {"none", "apply", "undo", "rollback", "recover", "resume"}
    BY <1>17, <1>1 DEF Move, MoveOne, Fail, Stop, proc, CommandTyped, Points,
         PartPoints
  <2>2. half' \in BOOLEAN /\ complete' \in BOOLEAN
    BY <1>17, <1>1 DEF Move, MoveOne, Fail, Stop, proc, CommandTyped, Points
  <2>3. pc' \in Points /\ at' \in 0..(MaxParts + 1)
    BY <1>17, <1>1, <1>2, <1>3, <1>4 DEF Move, MoveOne, Fail, Stop, proc,
         CommandTyped, Points, PartPoints
  <2>4. Control'
    <3>1. pc = "move" /\ at \in Items /\ Moving
      BY <1>17, <1>5 DEF Move, Control, PartPoints
    <3>2. \/ UNCHANGED <<pc, at>> /\ half' \in BOOLEAN
          \/ pc' = "checkpoint" /\ at' = at /\ half' = FALSE
          \/ pc' = "rollback" /\ at' = NumParts /\ half' = FALSE
          \/ pc' = "idle" /\ half' = FALSE
      BY <1>17, <1>1, <2>2 DEF Move, MoveOne, Fail, Stop, proc
    <3> QED BY <1>2, <1>3, <1>5, <3>1, <3>2 DEF Control, PartPoints, StagedPoints
  <2> QED BY <2>1, <2>2, <2>3, <2>4 DEF CommandTyped
<1>18. CASE Checkpoint
  <2>1. cmd' \in {"none", "apply", "undo", "rollback", "recover", "resume"}
    BY <1>18, <1>1 DEF Checkpoint, Put, AfterCheckpoint, Goto, Fail, Stop,
         CommandTyped, Points, PartPoints
  <2>2. half' \in BOOLEAN /\ complete' \in BOOLEAN
    BY <1>18, <1>1 DEF Checkpoint, Put, AfterCheckpoint, Goto, Fail, Stop,
         CommandTyped, Points
  <2>3. pc' \in Points /\ at' \in 0..(MaxParts + 1)
    BY <1>18, <1>1, <1>2, <1>3, <1>4 DEF Checkpoint, Put, AfterCheckpoint, Goto,
         Loop, Fail, Stop, CommandTyped, Points, PartPoints, Control
  <2>4. Control'
    BY <1>18, <1>1, <1>2, <1>3, <1>4 DEF Checkpoint, Put, AfterCheckpoint, Goto,
         Loop, Fail, Stop, Control, Points, PartPoints, StagedPoints
  <2> QED BY <2>1, <2>2, <2>3, <2>4 DEF CommandTyped
<1>19. CASE ItemDone
  <2>1. cmd' \in {"none", "apply", "undo", "rollback", "recover", "resume"}
    BY <1>19, <1>1 DEF ItemDone, Put, Goto, Fail, Stop, CommandTyped, Points,
         PartPoints
  <2>2. half' \in BOOLEAN /\ complete' \in BOOLEAN
    BY <1>19, <1>1 DEF ItemDone, Put, Goto, Fail, Stop, CommandTyped, Points
  <2>3. pc' \in Points /\ at' \in 0..(MaxParts + 1)
    BY <1>19, <1>1, <1>2, <1>3, <1>4 DEF ItemDone, Put, Goto, Loop, Fail, Stop,
         CommandTyped, Points, PartPoints, Control
  <2>4. Control'
    BY <1>19, <1>1, <1>2, <1>3, <1>4 DEF ItemDone, Put, Goto, Loop, Fail, Stop,
         Control, Points, PartPoints, StagedPoints
  <2> QED BY <2>1, <2>2, <2>3, <2>4 DEF CommandTyped
<1>20. CASE RollbackStep
  <2>1. cmd' \in {"none", "apply", "undo", "rollback", "recover", "resume"}
    BY <1>20, <1>1 DEF RollbackStep, Reverse, MoveOne, RollbackNext, proc,
         CommandTyped, Points, PartPoints
  <2>2. half' \in BOOLEAN /\ complete' \in BOOLEAN
    BY <1>20, <1>1 DEF RollbackStep, Reverse, MoveOne, RollbackNext, proc,
         CommandTyped, Points
  <2>3. pc' \in Points /\ at' \in 0..(MaxParts + 1)
    BY <1>20, <1>1, <1>2, <1>3, <1>4 DEF RollbackStep, Reverse, MoveOne,
         RollbackNext, proc, Listed, CommandTyped, Points, PartPoints, Control
  <2>4. Control'
    <3>1. pc = "rollback" /\ at \in 1..NumParts /\ mem.undo_safe
      BY <1>20, <1>3 DEF RollbackStep, Control
    <3>2. /\ UNCHANGED pc /\ at' \in {at, at - 1}
          /\ half' => Moving /\ at' = at /\ at \in Parts /\ UNCHANGED <<pc, mem>>
      <4>1. CASE at \in Listed(mem) /\ Moving
        <5>1. \/ UNCHANGED <<pc, at, mem>> /\ half' = TRUE
              \/ UNCHANGED <<pc, at, mem, half>> /\ ~half
              \/ UNCHANGED pc /\ at' = at - 1 /\ half' = FALSE
          BY <1>20, <4>1 DEF RollbackStep, Reverse, MoveOne, RollbackNext, proc
        <5> QED BY <1>1, <4>1, <5>1 DEF Listed
      <4>2. CASE at \in Listed(mem) /\ ~Moving
        BY <1>20, <4>2 DEF RollbackStep, Reverse, RollbackNext
      <4>3. CASE at \notin Listed(mem)
        BY <1>20, <4>3 DEF RollbackStep, RollbackNext
      <4> QED BY <4>1, <4>2, <4>3
    <3> QED BY <1>2, <1>3, <1>5, <3>1, <3>2 DEF Control, PartPoints, StagedPoints
  <2> QED BY <2>1, <2>2, <2>3, <2>4 DEF CommandTyped
<1>21. CASE RollbackEnd
  <2>1. cmd' \in {"none", "apply", "undo", "rollback", "recover", "resume"}
    BY <1>21, <1>1 DEF RollbackEnd, Put, Goto, Stop, CommandTyped, Points,
         PartPoints
  <2>2. half' \in BOOLEAN /\ complete' \in BOOLEAN
    BY <1>21, <1>1 DEF RollbackEnd, Put, Goto, Stop, CommandTyped, Points
  <2>3. pc' \in Points /\ at' \in 0..(MaxParts + 1)
    BY <1>21, <1>1, <1>2, <1>3, <1>4 DEF RollbackEnd, Put, Goto, Stop,
         CommandTyped, Points, PartPoints
  <2>4. Control'
    <3>1. pc = "rollback" /\ ~half
      BY <1>21, <1>3, <1>4 DEF RollbackEnd, Control, Parts
    <3>2. ~half'
      BY <1>21, <3>1 DEF RollbackEnd, Put, Goto, Stop
    <3>3. pc' \in {"fail", "idle"}
      BY <1>21 DEF RollbackEnd, Put, Goto, Stop
    <3> QED BY <3>2, <3>3 DEF Control, PartPoints, StagedPoints
  <2> QED BY <2>1, <2>2, <2>3, <2>4 DEF CommandTyped
<1>22. CASE UndoStep
  <2>1. cmd' \in {"none", "apply", "undo", "rollback", "recover", "resume"}
    BY <1>22, <1>1 DEF UndoStep, Reverse, MoveOne, UndoNext, Stop, proc,
         CommandTyped, Points, PartPoints
  <2>2. half' \in BOOLEAN /\ complete' \in BOOLEAN
    BY <1>22, <1>1 DEF UndoStep, Reverse, MoveOne, UndoNext, Stop, proc,
         CommandTyped, Points
  <2>3. pc' \in Points /\ at' \in 0..(MaxParts + 1)
    BY <1>22, <1>1, <1>2, <1>3, <1>4 DEF UndoStep, Reverse, MoveOne, UndoNext,
         Stop, proc, Listed, CommandTyped, Points, PartPoints, Control
  <2>4. Control'
    <3>1. pc = "undo" /\ at \in 1..NumParts
      BY <1>22, <1>3 DEF UndoStep, Control
    <3>2. /\ \/ UNCHANGED pc /\ at' \in {at, at + 1}
             \/ pc' = "idle" /\ half' = FALSE
          /\ half' => Moving /\ at' = at /\ at \in Parts /\ UNCHANGED <<pc, mem>>
      <4>1. CASE at \in Listed(mem) /\ Moving
        <5>1. \/ UNCHANGED <<pc, at, mem>> /\ half' = TRUE
              \/ UNCHANGED <<pc, at, mem, half>> /\ ~half
              \/ UNCHANGED pc /\ at' = at + 1 /\ half' = FALSE
              \/ pc' = "idle" /\ half' = FALSE
          BY <1>22, <4>1 DEF UndoStep, Reverse, MoveOne, UndoNext, Stop, proc
        <5> QED BY <1>1, <4>1, <5>1 DEF Listed
      <4>2. CASE at \in Listed(mem) /\ ~Moving
        BY <1>22, <4>2 DEF UndoStep, Reverse, UndoNext, Stop
      <4>3. CASE at \notin Listed(mem)
        BY <1>22, <4>3 DEF UndoStep, UndoNext
      <4> QED BY <4>1, <4>2, <4>3
    <3> QED BY <1>2, <1>3, <1>5, <3>1, <3>2 DEF Control, PartPoints, StagedPoints
  <2> QED BY <2>1, <2>2, <2>3, <2>4 DEF CommandTyped
<1>23. CASE UndoEnd
  <2>1. cmd' \in {"none", "apply", "undo", "rollback", "recover", "resume"}
    BY <1>23, <1>1 DEF UndoEnd, Put, Stop, CommandTyped, Points, PartPoints
  <2>2. half' \in BOOLEAN /\ complete' \in BOOLEAN
    BY <1>23, <1>1 DEF UndoEnd, Put, Stop, CommandTyped, Points
  <2>3. pc' \in Points /\ at' \in 0..(MaxParts + 1)
    BY <1>23, <1>1, <1>2, <1>3, <1>4 DEF UndoEnd, Put, Stop, CommandTyped, Points,
         PartPoints
  <2>4. Control'
    BY <1>23, <1>1, <1>2, <1>3, <1>4 DEF UndoEnd, Put, Stop, Control, Points,
         PartPoints, StagedPoints
  <2> QED BY <2>1, <2>2, <2>3, <2>4 DEF CommandTyped
<1>24. CASE Unstage
  <2>1. cmd' \in {"none", "apply", "undo", "rollback", "recover", "resume"}
    BY <1>24, <1>1 DEF Unstage, Stop, CommandTyped, Points, PartPoints
  <2>2. half' \in BOOLEAN /\ complete' \in BOOLEAN
    BY <1>24, <1>1 DEF Unstage, Stop, CommandTyped, Points
  <2>3. pc' \in Points /\ at' \in 0..(MaxParts + 1)
    BY <1>24, <1>1, <1>2, <1>3, <1>4 DEF Unstage, Stop, CommandTyped, Points,
         PartPoints
  <2>4. Control'
    BY <1>24, <1>1, <1>2, <1>3, <1>4 DEF Unstage, Stop, Control, Points,
         PartPoints, StagedPoints
  <2> QED BY <2>1, <2>2, <2>3, <2>4 DEF CommandTyped
<1>25. CASE Revalidate
  <2>1. cmd' \in {"none", "apply", "undo", "rollback", "recover", "resume"}
    BY <1>25, <1>1 DEF Revalidate, Goto, Stop, CommandTyped, Points, PartPoints
  <2>2. half' \in BOOLEAN /\ complete' \in BOOLEAN
    BY <1>25, <1>1 DEF Revalidate, Goto, Stop, CommandTyped, Points
  <2>3. pc' \in Points /\ at' \in 0..(MaxParts + 1)
    BY <1>25, <1>1, <1>2, <1>3, <1>4 DEF Revalidate, Goto, Stop, CommandTyped,
         Points, PartPoints
  <2>4. Control'
    BY <1>25, <1>1, <1>2, <1>3, <1>4 DEF Revalidate, Goto, Stop, Control, Points,
         PartPoints, StagedPoints
  <2> QED BY <2>1, <2>2, <2>3, <2>4 DEF CommandTyped
<1>26. CASE Undo
  <2>1. cmd' \in {"none", "apply", "undo", "rollback", "recover", "resume"}
    BY <1>26, <1>1 DEF Undo, Begin, CommandTyped, Points, PartPoints
  <2>2. half' \in BOOLEAN /\ complete' \in BOOLEAN
    BY <1>26, <1>1 DEF Undo, Begin, CommandTyped, Points
  <2>3. pc' \in Points /\ at' \in 0..(MaxParts + 1)
    BY <1>26, <1>1, <1>2, <1>3, <1>4 DEF Undo, Begin, CommandTyped, Points,
         PartPoints
  <2>4. Control'
    BY <1>26, <1>1, <1>2, <1>3, <1>4 DEF Undo, Begin, Control, Points, PartPoints,
         StagedPoints
  <2> QED BY <2>1, <2>2, <2>3, <2>4 DEF CommandTyped
<1>27. CASE Rollback
  <2>1. cmd' \in {"none", "apply", "undo", "rollback", "recover", "resume"}
    BY <1>27, <1>1 DEF Rollback, Begin, CommandTyped, Points, PartPoints
  <2>2. half' \in BOOLEAN /\ complete' \in BOOLEAN
    BY <1>27, <1>1 DEF Rollback, Begin, CommandTyped, Points
  <2>3. pc' \in Points /\ at' \in 0..(MaxParts + 1)
    BY <1>27, <1>1, <1>2, <1>3, <1>4 DEF Rollback, Begin, CommandTyped, Points,
         PartPoints
  <2>4. Control'
    BY <1>27, <1>1, <1>2, <1>3, <1>4 DEF Rollback, Begin, Control, Points,
         PartPoints, StagedPoints
  <2> QED BY <2>1, <2>2, <2>3, <2>4 DEF CommandTyped
<1>28. CASE RecoverRollback
  <2>1. cmd' \in {"none", "apply", "undo", "rollback", "recover", "resume"}
    BY <1>28, <1>1 DEF RecoverRollback, Begin, CommandTyped, Points, PartPoints
  <2>2. half' \in BOOLEAN /\ complete' \in BOOLEAN
    BY <1>28, <1>1 DEF RecoverRollback, Begin, CommandTyped, Points
  <2>3. pc' \in Points /\ at' \in 0..(MaxParts + 1)
    BY <1>28, <1>1, <1>2, <1>3, <1>4 DEF RecoverRollback, Begin, CommandTyped,
         Points, PartPoints
  <2>4. Control'
    BY <1>28, <1>1, <1>2, <1>3, <1>4 DEF RecoverRollback, Begin, Control, Points,
         PartPoints, StagedPoints
  <2> QED BY <2>1, <2>2, <2>3, <2>4 DEF CommandTyped
<1>29. CASE Resume
  <2>1. cmd' \in {"none", "apply", "undo", "rollback", "recover", "resume"}
    BY <1>29, <1>1 DEF Resume, Begin, CommandTyped, Points, PartPoints
  <2>2. half' \in BOOLEAN /\ complete' \in BOOLEAN
    BY <1>29, <1>1 DEF Resume, Begin, CommandTyped, Points
  <2>3. pc' \in Points /\ at' \in 0..(MaxParts + 1)
    BY <1>29, <1>1, <1>2, <1>3, <1>4 DEF Resume, Begin, CommandTyped, Points,
         PartPoints
  <2>4. Control'
    BY <1>29, <1>1, <1>2, <1>3, <1>4 DEF Resume, Begin, Control, Points,
         PartPoints, StagedPoints
  <2> QED BY <2>1, <2>2, <2>3, <2>4 DEF CommandTyped
<1>30. CASE ResumeSkip
  <2>1. cmd' \in {"none", "apply", "undo", "rollback", "recover", "resume"}
    BY <1>30, <1>1 DEF ResumeSkip, AfterCheckpoint, Goto, CommandTyped, Points,
         PartPoints
  <2>2. half' \in BOOLEAN /\ complete' \in BOOLEAN
    BY <1>30, <1>1 DEF ResumeSkip, AfterCheckpoint, Goto, CommandTyped, Points
  <2>3. pc' \in Points /\ at' \in 0..(MaxParts + 1)
    BY <1>30, <1>1, <1>2, <1>3, <1>4 DEF ResumeSkip, AfterCheckpoint, Goto, Loop,
         CommandTyped, Points, PartPoints, Control
  <2>4. Control'
    BY <1>30, <1>1, <1>2, <1>3, <1>4 DEF ResumeSkip, AfterCheckpoint, Goto, Loop,
         Control, Points, PartPoints, StagedPoints
  <2> QED BY <2>1, <2>2, <2>3, <2>4 DEF CommandTyped
<1>31. CASE ResumeStaged
  <2>1. cmd' \in {"none", "apply", "undo", "rollback", "recover", "resume"}
    BY <1>31, <1>1 DEF ResumeStaged, ToResume, Goto, Stop, CommandTyped, Points,
         PartPoints
  <2>2. half' \in BOOLEAN /\ complete' \in BOOLEAN
    BY <1>31, <1>1 DEF ResumeStaged, ToResume, Goto, Stop, CommandTyped, Points
  <2>3. pc' \in Points /\ at' \in 0..(MaxParts + 1)
    BY <1>31, <1>1, <1>2, <1>3, <1>4 DEF ResumeStaged, ToResume, Goto, Stop,
         CommandTyped, Points, PartPoints
  <2>4. Control'
    BY <1>31, <1>1, <1>2, <1>3, <1>4 DEF ResumeStaged, ToResume, Goto, Stop,
         Control, Points, PartPoints, StagedPoints
  <2> QED BY <2>1, <2>2, <2>3, <2>4 DEF CommandTyped
<1>32. CASE ResumeRefused
  <2>1. cmd' \in {"none", "apply", "undo", "rollback", "recover", "resume"}
    BY <1>32, <1>1 DEF ResumeRefused, Stop, CommandTyped, Points, PartPoints
  <2>2. half' \in BOOLEAN /\ complete' \in BOOLEAN
    BY <1>32, <1>1 DEF ResumeRefused, Stop, CommandTyped, Points
  <2>3. pc' \in Points /\ at' \in 0..(MaxParts + 1)
    BY <1>32, <1>1, <1>2, <1>3, <1>4 DEF ResumeRefused, Stop, CommandTyped,
         Points, PartPoints
  <2>4. Control'
    BY <1>32, <1>1, <1>2, <1>3, <1>4 DEF ResumeRefused, Stop, Control, Points,
         PartPoints, StagedPoints
  <2> QED BY <2>1, <2>2, <2>3, <2>4 DEF CommandTyped
<1>33. CASE ResumeMove
  <2>1. cmd' \in {"none", "apply", "undo", "rollback", "recover", "resume"}
    BY <1>33, <1>1 DEF ResumeMove, ToResume, Put, Goto, Stop, CommandTyped,
         Points, PartPoints
  <2>2. half' \in BOOLEAN /\ complete' \in BOOLEAN
    BY <1>33, <1>1 DEF ResumeMove, ToResume, Put, Goto, Stop, CommandTyped, Points
  <2>3. pc' \in Points /\ at' \in 0..(MaxParts + 1)
    BY <1>33, <1>1, <1>2, <1>3, <1>4 DEF ResumeMove, ToResume, Put, Goto, Stop,
         CommandTyped, Points, PartPoints
  <2>4. Control'
    BY <1>33, <1>1, <1>2, <1>3, <1>4 DEF ResumeMove, ToResume, Put, Goto, Stop,
         Control, Points, PartPoints, StagedPoints
  <2> QED BY <2>1, <2>2, <2>3, <2>4 DEF CommandTyped
<1>34. CASE Crash
  <2>1. cmd' \in {"none", "apply", "undo", "rollback", "recover", "resume"}
    BY <1>34, <1>1 DEF Crash, Stop, CommandTyped, Points, PartPoints
  <2>2. half' \in BOOLEAN /\ complete' \in BOOLEAN
    BY <1>34, <1>1 DEF Crash, Stop, CommandTyped, Points
  <2>3. pc' \in Points /\ at' \in 0..(MaxParts + 1)
    BY <1>34, <1>1, <1>2, <1>3, <1>4 DEF Crash, Stop, CommandTyped, Points,
         PartPoints
  <2>4. Control'
    BY <1>34, <1>1, <1>2, <1>3, <1>4 DEF Crash, Stop, Control, Points, PartPoints,
         StagedPoints
  <2> QED BY <2>1, <2>2, <2>3, <2>4 DEF CommandTyped
<1>35. CASE OutsideChange
  <2>1. cmd' \in {"none", "apply", "undo", "rollback", "recover", "resume"}
    BY <1>35, <1>1 DEF OutsideChange, proc, CommandTyped, Points, PartPoints
  <2>2. half' \in BOOLEAN /\ complete' \in BOOLEAN
    BY <1>35, <1>1 DEF OutsideChange, proc, CommandTyped, Points
  <2>3. pc' \in Points /\ at' \in 0..(MaxParts + 1)
    BY <1>35, <1>1, <1>2, <1>3, <1>4 DEF OutsideChange, proc, CommandTyped,
         Points, PartPoints
  <2>4. Control'
    BY <1>35, <1>1, <1>2, <1>3, <1>4 DEF OutsideChange, proc, Control, Points,
         PartPoints, StagedPoints
  <2> QED BY <2>1, <2>2, <2>3, <2>4 DEF CommandTyped
<1>36. CASE Hold
  BY <1>36, <1>1, <1>2 DEF Hold, proc, CommandTyped, Control
<1> QED BY <1>36, <1>6, <1>7, <1>8, <1>9, <1>10, <1>11, <1>12, <1>13, <1>14, <1>15,
          <1>16, <1>17, <1>18, <1>19, <1>20, <1>21, <1>22, <1>23, <1>24,
          <1>25, <1>26, <1>27, <1>28, <1>29, <1>30, <1>31, <1>32, <1>33,
          <1>34, <1>35
      DEF Next, Process, Apply, Staging, Reversal, Command, Resuming

(* What a variable holds is a journal.                                     *)
LEMMA PipedTyped ==
  ASSUME TypeOK
  PROVE  \A j \in Piped : j \in Journal
BY DEF TypeOK, Piped

LEMMA HeldStep ==
  ASSUME TypeOK, Next
  PROVE  \/ UNCHANGED held
         \/ held' = [v \in Variables |-> NoJournal]
         \/ /\ Hold
            /\ \E v \in Variables : held' = [held EXCEPT ![v] = durable]
<1>1. CASE Apply
  BY <1>1 DEF Apply, ApplyStart, Validate, MoveIntent, Finish, ApplyFails, besides
<1>2. CASE Staging
  BY <1>2 DEF Staging, StageIntent, Stage, StageRename, Discard, PublishIntent, Publish, besides
<1>3. CASE Move \/ Checkpoint \/ ItemDone
  BY <1>3 DEF Move, Checkpoint, ItemDone, besides
<1>4. CASE Reversal
  BY <1>4 DEF Reversal, RollbackStep, RollbackEnd, UndoStep, UndoEnd, Unstage, Revalidate,
              besides
<1>5. CASE Undo \/ Rollback \/ RecoverRollback \/ Resume
  BY <1>5 DEF Undo, Rollback, RecoverRollback, Resume
<1>6. CASE Resuming
  BY <1>6 DEF Resuming, ResumeSkip, ResumeStaged, ResumeRefused, ResumeMove, besides
<1>7. CASE Crash
  BY <1>7 DEF Crash
<1>8. CASE OutsideChange
  BY <1>8 DEF OutsideChange
<1>9. CASE Hold
  BY <1>9 DEF Hold
<1> QED BY <1>1, <1>2, <1>3, <1>4, <1>5, <1>6, <1>7, <1>8, <1>9
        DEF Next, Process, Command

(* Both journals stay journals.                                            *)
LEMMA JournalStep ==
  ASSUME TypeOK, Control, Next
  PROVE  durable' \in Journal /\ mem' \in Journal
<1>1. durable \in Journal /\ mem \in Journal /\ NoJournal \in Journal
  BY NoJournalTyped DEF TypeOK
<1>2. /\ \A k \in Parts : k \in 1..MaxParts /\ ItemOf(k) \in Items
      /\ Moving => \A k \in Parts : ItemOf(k) = k
  BY PartsOfItems DEF TypeOK
<1>3. \A j \in Journal, k \in 1..MaxParts, file \in File :
        /\ WithStaging(j, k) \in Journal
        /\ WithoutStaging(j, k) \in Journal
        /\ WithPending(j, k, file) \in Journal
        /\ WithoutOutput(j, k) \in Journal
        /\ WithDone(j, k, file) \in Journal
  BY JournalsTyped
<1>4. \A k \in 1..MaxParts : fs[Dst(k)] \in File /\ fs[Stg(k)] \in File
  BY Places DEF TypeOK
<1>5. pc \in PartPoints => at \in Parts /\ at \in 1..MaxParts
  BY <1>2 DEF Control
<1>6. CASE ApplyStart
  <2> DEFINE j == [NoJournal EXCEPT !.status = "in_progress", !.undo_safe = UndoSafe,
                                    !.remaining = Items]
  <2>1. UndoSafe \in BOOLEAN
    <3>1. op.kind \in AllKinds
      BY JournalAssumption DEF TypeOK, Plan
    <3> QED BY <3>1 DEF UndoSafe, AllKinds
  <2>2. j \in Journal
    BY <1>1, <2>1 DEF Journal, Statuses
  <2> HIDE DEF j
  <2>3. durable' \in {durable, j} /\ mem' \in {j, NoJournal}
    BY <1>6 DEF ApplyStart, Put, Goto, Stop, j
  <2> QED BY <1>1, <2>2, <2>3
<1>7. CASE Validate
  BY <1>7, <1>1 DEF Validate, store, Goto, Fail, Stop
<1>8. CASE MoveIntent
  <2>1. PlannedSource(at) \in File /\ at \in 1..MaxParts
    BY <1>8, <1>2, <1>5, PartsOfItems, PlannedTyped DEF MoveIntent, TypeOK, PartPoints
  <2> DEFINE j == WithPending(mem, at, PlannedSource(at))
  <2>2. j \in Journal
    BY <1>1, <1>3, <2>1
  <2> HIDE DEF j
  <2>3. durable' \in {durable, j} /\ mem' \in {mem, j, NoJournal}
    BY <1>8 DEF MoveIntent, Put, Goto, Fail, Stop, j
  <2> QED BY <1>1, <2>2, <2>3
<1>9. CASE Finish
  <2> DEFINE j == [mem EXCEPT !.status = "applied", !.staging = {}]
  <2>1. j \in Journal
    BY <1>1 DEF Journal, Statuses
  <2> HIDE DEF j
  <2>2. durable' \in {durable, j} /\ mem' \in {mem, j, NoJournal}
    BY <1>9 DEF Finish, Put, Stop, j
  <2> QED BY <1>1, <2>1, <2>2
<1>10. CASE ApplyFails
  <2> DEFINE j == [mem EXCEPT !.status = IF mem.status = "in_progress" THEN "failed" ELSE mem.status]
  <2>1. j \in Journal
    BY <1>1 DEF Journal, Statuses
  <2> HIDE DEF j
  <2>2. durable' \in {durable, j} /\ mem' \in {mem, j, NoJournal}
    BY <1>10 DEF ApplyFails, Put, Stop, j
  <2> QED BY <1>1, <2>1, <2>2
<1>11. CASE StageIntent
  <2>1. WithStaging(mem, at) \in Journal
    BY <1>11, <1>1, <1>3, <1>5, NoJournalTyped DEF StageIntent, PartPoints
  <2> QED BY <1>11, <1>1, <2>1 DEF StageIntent, Put, Goto, Fail, Stop
<1>12. CASE Stage
  <2>1. WithoutStaging(mem, at) \in Journal
    BY <1>12, <1>1, <1>3, <1>5, NoJournalTyped DEF Stage, PartPoints
  <2> QED BY <1>12, <1>1, <2>1 DEF Stage, Goto, FailStaged, Stop
<1>13. CASE StageRename
  <2>1. WithoutStaging(mem, at) \in Journal
    BY <1>13, <1>1, <1>3, <1>5, NoJournalTyped DEF StageRename, PartPoints
  <2> QED BY <1>13, <1>1, <2>1 DEF StageRename, Goto, FailStaged, Stop
<1>14. CASE Discard
  BY <1>14, <1>1 DEF Discard, Fail, Stop
<1>15. CASE PublishIntent
  <2>1. /\ WithPending(mem, at, fs[Stg(at)]) \in Journal
        /\ WithoutStaging(mem, at) \in Journal
    BY <1>15, <1>1, <1>3, <1>4, <1>5 DEF PublishIntent, PartPoints
  <2> QED BY <1>15, <1>1, <2>1 DEF PublishIntent, Put, Goto, FailStaged, Stop
<1>16. CASE Publish
  <2>1. Published(mem, at) \in Journal
    BY <1>16, <1>1, <1>3, <1>5, NoJournalTyped DEF Publish, PartPoints, Published
  <2> QED BY <1>16, <1>1, <2>1 DEF Publish, Goto, FailStaged, Stop, proc
<1>17. CASE Move
  <2>1. WithoutOutput(mem, at) \in Journal
    BY <1>17, <1>1, <1>3, <1>5, NoJournalTyped DEF Move, PartPoints
  <2> QED BY <1>17, <1>1, <2>1 DEF Move, MoveOne, Fail, Stop, proc
<1>18. CASE Checkpoint
  <2>1. WithDone(mem, at, fs[Dst(at)]) \in Journal
    BY <1>18, <1>1, <1>3, <1>4, <1>5 DEF Checkpoint, PartPoints
  <2> QED BY <1>18, <1>1, <2>1 DEF Checkpoint, Put, Fail, Stop
<1>19. CASE ItemDone
  <2> DEFINE j == [mem EXCEPT !.remaining = mem.remaining \ {ItemOf(at)}]
  <2>1. j \in Journal
    BY <1>1 DEF Journal
  <2> HIDE DEF j
  <2>2. durable' \in {durable, j} /\ mem' \in {j, NoJournal}
    BY <1>19 DEF ItemDone, Put, Fail, Stop, j
  <2> QED BY <1>1, <2>1, <2>2
<1>20. CASE RollbackStep
  <2>1. CASE at \in Listed(mem) /\ Moving
    BY <1>20, <1>1, <2>1 DEF RollbackStep, Reverse, MoveOne, RollbackNext, proc
  <2>2. CASE at \in Listed(mem) /\ ~Moving
    BY <1>20, <1>1, <2>2 DEF RollbackStep, Reverse, RollbackNext
  <2>3. CASE at \notin Listed(mem)
    BY <1>20, <1>1, <2>3 DEF RollbackStep, RollbackNext
  <2> QED BY <2>1, <2>2, <2>3
<1>21. CASE RollbackEnd
  <2> DEFINE j == [mem EXCEPT !.status = IF mem.undo_safe /\ complete THEN "rolled_back"
                                                ELSE "partially_applied"]
  <2>1. j \in Journal
    BY <1>1 DEF Journal, Statuses
  <2> HIDE DEF j
  <2>2. durable' \in {durable, j} /\ mem' \in {mem, j, NoJournal}
    BY <1>21 DEF RollbackEnd, Put, Goto, Stop, j
  <2> QED BY <1>1, <2>1, <2>2
<1>22. CASE UndoStep
  <2>1. CASE at \in Listed(mem) /\ Moving
    BY <1>22, <1>1, <2>1 DEF UndoStep, Reverse, MoveOne, UndoNext, Stop, proc
  <2>2. CASE at \in Listed(mem) /\ ~Moving
    BY <1>22, <1>1, <2>2 DEF UndoStep, Reverse, UndoNext, Stop
  <2>3. CASE at \notin Listed(mem)
    BY <1>22, <1>1, <2>3 DEF UndoStep, UndoNext
  <2> QED BY <2>1, <2>2, <2>3
<1>23. CASE UndoEnd
  <2> DEFINE j == [mem EXCEPT !.status = "undone"]
  <2>1. j \in Journal
    BY <1>1 DEF Journal, Statuses
  <2> HIDE DEF j
  <2>2. durable' \in {durable, j} /\ mem' \in {mem, j, NoJournal}
    BY <1>23 DEF UndoEnd, Put, Stop, j
  <2> QED BY <1>1, <2>1, <2>2
<1>24. CASE Unstage
  <2>1. PICK k \in mem.staging : mem' \in {WithoutStaging(mem, k), NoJournal}
    BY <1>24 DEF Unstage, Stop
  <2>2. WithoutStaging(mem, k) \in Journal
    BY <1>1, <1>3, <2>1, NoJournalTyped DEF Journal
  <2> QED BY <1>24, <1>1, <2>1, <2>2 DEF Unstage
<1>25. CASE Revalidate
  BY <1>25, <1>1 DEF Revalidate, store, Goto, Stop
<1>26. CASE Undo
  BY <1>26, <1>1, PipedTyped DEF Undo, store, Begin
<1>27. CASE Rollback
  BY <1>27, <1>1, PipedTyped DEF Rollback, store, Begin
<1>28. CASE RecoverRollback
  <2>1. WithoutUnpublished(durable) \in Journal
    <3>1. NoOutput \in Output /\ \A k \in 1..MaxParts : durable.outputs[k] \in Output
      BY <1>1, NoJournalTyped DEF Journal, NoOutput, Output
    <3> QED BY <1>1, <3>1 DEF WithoutUnpublished, Journal
  <2> QED BY <1>28, <1>1, <2>1 DEF RecoverRollback, Begin, store
<1>29. CASE Resume
  BY <1>29, <1>1 DEF Resume, store, Begin
<1>30. CASE ResumeSkip
  BY <1>30, <1>1 DEF ResumeSkip, store
<1>31. CASE ResumeStaged
  <2> DEFINE existing == {k \in mem.staging : Exists(Stg(k))}
             published == [WithoutOutput(mem, at) EXCEPT !.staging = existing]
  <2>1. Published(mem, at) \in Journal /\ WithoutOutput(mem, at) \in Journal
    BY <1>31, <1>1, <1>3, <1>5, NoJournalTyped DEF ResumeStaged, ToResume, PartPoints, Published
  <2>2. published \in Journal
    BY <1>1, <2>1 DEF Journal
  <2> HIDE DEF published
  <2>3. UNCHANGED durable /\ mem' \in {Published(mem, at), published, NoJournal}
    BY <1>31 DEF ResumeStaged, Goto, Stop, published
  <2> QED BY <1>1, <2>1, <2>2, <2>3
<1>32. CASE ResumeRefused
  BY <1>32, <1>1 DEF ResumeRefused, store, Stop
<1>33. CASE ResumeMove
  <2>1. PlannedSource(at) \in File /\ at \in 1..MaxParts
    BY <1>33, <1>2, <1>5, PartsOfItems, PlannedTyped DEF ResumeMove, ToResume, TypeOK, PartPoints
  <2> DEFINE j == IF PendingIn(mem, at) THEN mem ELSE WithPending(mem, at, PlannedSource(at))
  <2>2. j \in Journal /\ WithoutOutput(mem, at) \in Journal
    BY <1>1, <1>3, <2>1
  <2> HIDE DEF j
  <2>3. durable' \in {durable, j} /\ mem' \in {mem, j, WithoutOutput(mem, at), NoJournal}
    BY <1>33 DEF ResumeMove, Put, Goto, Stop, j
  <2> QED BY <1>1, <2>2, <2>3
<1>34. CASE Crash
  BY <1>34, <1>1 DEF Crash, store, Stop
<1>35. CASE OutsideChange
  BY <1>35, <1>1 DEF OutsideChange, proc
<1>36. CASE Hold
  BY <1>36, <1>1 DEF Hold, store, proc
<1> QED BY <1>36, <1>6, <1>7, <1>8, <1>9, <1>10, <1>11, <1>12, <1>13, <1>14, <1>15,
          <1>16, <1>17, <1>18, <1>19, <1>20, <1>21, <1>22, <1>23, <1>24,
          <1>25, <1>26, <1>27, <1>28, <1>29, <1>30, <1>31, <1>32, <1>33,
          <1>34, <1>35
      DEF Next, Process, Apply, Staging, Reversal, Command, Resuming

(* Every reachable state is well typed: one step.                          *)
LEMMA TypedStep ==
  ASSUME TypeOK, Control, fs \in Files, [Next]_vars
  PROVE  TypeOK' /\ Control' /\ fs' \in Files
<1>1. CASE Next
  <2>1. op' \in Plan
    BY <1>1, PlanStays DEF TypeOK
  <2>2. fs' \in Files /\ fs' \in [Path -> File]
    BY <1>1, FilesStep DEF Files
  <2>3. durable' \in Journal /\ mem' \in Journal
    BY <1>1, JournalStep
  <2>4. CommandTyped' /\ Control'
    BY <1>1, CommandStep
  <2>5. faults' \in [FaultKinds -> 0..MaxFaults]
    BY <1>1, FaultsStep, FaultTyped DEF TypeOK
  <2>6. hit' \subseteq Items /\ raced' \in BOOLEAN /\ stale' \in BOOLEAN
    BY <1>1, BesidesStep
  <2>7. held' \in [Variables -> Journal]
    BY <1>1, HeldStep, NoJournalTyped DEF TypeOK
  <2> QED BY <2>1, <2>2, <2>3, <2>4, <2>5, <2>6, <2>7
          DEF TypeOK, CommandTyped, Points, PartPoints
<1>2. CASE UNCHANGED vars
  BY <1>2 DEF vars, store, proc, besides, TypeOK, Control, Parts, NumParts, Moving
<1> QED BY <1>1, <1>2

-----------------------------------------------------------------------------
(* Where the items are.                                                    *)

LEMMA PlacesDiffer ==
  /\ \A i, k : Src(i) # Dst(k) /\ Src(i) # Stg(k) /\ Src(i) # Tmp(k)
  /\ \A i, k : Dst(i) # Stg(k) /\ Dst(i) # Tmp(k) /\ Stg(i) # Tmp(k)
  /\ \A i, k : i # k => Src(i) # Src(k) /\ Dst(i) # Dst(k) /\ Stg(i) # Stg(k)
BY DEF Src, Dst, Stg, Tmp

(* What a step of move_one does to the files: it renames, or removes the   *)
(* original; it takes the copy back, or only fails; it removes what a move *)
(* may replace, or copies.                                                 *)
MoveDone(from, to) ==
  \/ ~half /\ Exists(from) /\ ~Exists(to) /\ fs' = Renamed(from, to) /\ ~half'
  \/ half /\ fs' = Removed(from) /\ ~half'

MoveFailed(from, to) ==
  \/ half /\ fs' = Removed(to) /\ ~half'
  \/ ~half /\ fs' = fs /\ ~half'

MoveGoesOn(from, to) ==
  \/ ~half /\ Exists(from) /\ from = Src(at) /\ fs' = Removed(to) /\ ~half'
  \/ ~half /\ Exists(from) /\ ~Exists(to) /\ fs' = Copied(from, to) /\ half' /\ at' = at

MoveOutcome(from, to) == MoveDone(from, to) \/ MoveFailed(from, to) \/ MoveGoesOn(from, to)

(* Whatever becomes of a move, forward or back, its item is at one end.    *)
LEMMA MoveKeeps ==
  ASSUME ItemsSafe, Moving, at \in Items, UNCHANGED <<op, hit>>,
         NEW from, NEW to, MoveOutcome(from, to),
         \/ from = Src(at) /\ to = Dst(at)
         \/ from = Dst(at) /\ to = Src(at)
  PROVE  (\A i \in Items \ hit : Kept(i))' /\ HalfMoved'
<1>1. /\ fs \in [Path -> File] /\ Moving'
      /\ \A i \in Items : Src(i) \in Path /\ Dst(i) \in Path
  BY PartsOfItems, Places DEF ItemsSafe, TypeOK, Moving
<1>2. from \in Path /\ to \in Path /\ from # to
  BY <1>1, PlacesDiffer
<1>3. \A r \in Path :
        /\ Removed(from)[r] = IF r = from THEN NoFile ELSE fs[r]
        /\ Removed(to)[r] = IF r = to THEN NoFile ELSE fs[r]
        /\ Renamed(from, to)[r] = IF r = from THEN NoFile ELSE IF r = to THEN fs[from] ELSE fs[r]
        /\ r # to => Copied(from, to)[r] = fs[r]
        /\ r = to => Copied(from, to)[r].id = Fresh
  BY <1>1, <1>2, FilesAfter
<1>4. fs[from].data # Outside => Copied(from, to)[to].data = fs[from].data
  BY <1>1, <1>2, FilesAfter
<1>5. \A i \in Items \ {at} : fs'[Src(i)] = fs[Src(i)] /\ fs'[Dst(i)] = fs[Dst(i)]
  <2> SUFFICES ASSUME NEW i \in Items, i # at
               PROVE  fs'[Src(i)] = fs[Src(i)] /\ fs'[Dst(i)] = fs[Dst(i)]
    OBVIOUS
  <2>1. Src(i) \notin {from, to} /\ Dst(i) \notin {from, to}
    BY PlacesDiffer
  <2> QED BY <1>1, <1>3, <2>1 DEF MoveOutcome, MoveDone, MoveFailed, MoveGoesOn
<1>6. \A i \in Items \ hit : i # at => Kept(i)'
  BY <1>1, <1>5 DEF ItemsSafe, Kept, Exists
<1>7. ASSUME NEW i \in Items \ hit, i = at
      PROVE  Kept(i)' /\ HalfMoved'
  <2>1. Kept(i)
    BY <1>7 DEF ItemsSafe
  <2>2. i # Outside
    BY JournalAssumption DEF Items, Outside
  <2>3. NoFile.id = 0 /\ Fresh # 0
    BY FreshIsNew DEF NoFile
  <2> DEFINE src == fs[Src(i)]  dst == fs[Dst(i)]
             srcNow == fs'[Src(i)]  dstNow == fs'[Dst(i)]
             KeptNow == /\ srcNow.id # 0 => srcNow.data = i
                        /\ srcNow.id = 0 => dstNow.id # 0 /\ dstNow.data = i
             HalfNow == half' => /\ at' = i
                                 /\ srcNow.id # 0 /\ srcNow.data = i
                                 /\ dstNow.id # 0 /\ dstNow.data = i
  <2>4. /\ src.id # 0 => src.data = i
        /\ src.id = 0 => dst.id # 0 /\ dst.data = i
    BY <2>1 DEF Kept, Exists
  <2>5. half => src.id # 0 /\ src.data = i /\ dst.id # 0 /\ dst.data = i
    BY <1>7 DEF ItemsSafe, HalfMoved, Exists
  <2>6. Src(i) \in Path /\ Dst(i) \in Path /\ {from, to} = {Src(i), Dst(i)}
    BY <1>1, <1>7
  <2>7. KeptNow /\ HalfNow
    <3>1. CASE fs' = fs /\ ~half'
      BY <2>4, <3>1
    <3>2. CASE half /\ ~half' /\ fs' = Removed(from)
      BY <1>2, <1>3, <2>3, <2>5, <2>6, <3>2
    <3>3. CASE half /\ ~half' /\ fs' = Removed(to)
      BY <1>2, <1>3, <2>3, <2>5, <2>6, <3>3
    <3>4. CASE ~half' /\ Exists(from) /\ from = Src(at) /\ fs' = Removed(to)
      BY <1>2, <1>3, <1>7, <2>3, <2>4, <2>6, <3>4 DEF Exists
    <3>5. CASE ~half' /\ Exists(from) /\ ~Exists(to) /\ fs' = Renamed(from, to)
      BY <1>2, <1>3, <2>3, <2>4, <2>6, <3>5 DEF Exists
    <3>6. CASE half' /\ at' = at /\ Exists(from) /\ ~Exists(to) /\ fs' = Copied(from, to)
      <4>1. fs[from].data = i /\ fs[from].id # 0
        BY <2>4, <2>6, <3>6 DEF Exists
      <4>2. fs'[from] = fs[from] /\ fs'[to].id = Fresh /\ fs'[to].data = i
        BY <1>2, <1>3, <1>4, <2>2, <3>6, <4>1
      <4> QED BY <1>7, <2>3, <2>6, <3>6, <4>1, <4>2
    <3> QED BY <3>1, <3>2, <3>3, <3>4, <3>5, <3>6 DEF MoveOutcome, MoveDone, MoveFailed, MoveGoesOn
  <2>8. Kept(i)'
    BY <1>1, <2>7 DEF Kept, Exists
  <2>9. HalfMoved'
    BY <2>7 DEF HalfMoved, Exists
  <2> QED BY <2>8, <2>9
<1>8. \A i \in Items \ hit : Kept(i)'
  BY <1>6, <1>7
<1>9. HalfMoved'
  <2>1. CASE at \in hit
    <3>1. half' => at' \in hit'
      BY <2>1 DEF MoveOutcome, MoveDone, MoveFailed, MoveGoesOn
    <3> QED BY <3>1 DEF HalfMoved
  <2>2. CASE at \notin hit
    BY <1>7, <2>2
  <2> QED BY <2>1, <2>2
<1> QED BY <1>8, <1>9

(* No step loses an item.                                                  *)
LEMMA KeptStep ==
  ASSUME ItemsSafe, Next
  PROVE  (\A i \in Items \ hit : Kept(i))' /\ HalfMoved'
<1>1. /\ fs \in [Path -> File] /\ Moving' = Moving /\ Control /\ HalfMoved
      /\ \A i \in Items : Src(i) \in Path /\ Dst(i) \in Path
  BY PlanStays, PartsOfItems, Places DEF ItemsSafe, TypeOK, Moving
<1>2. \A k \in Parts :
        /\ k \in 1..MaxParts /\ ItemOf(k) \in Items
        /\ Dst(k) \in Path /\ Stg(k) \in Path /\ Tmp(k) \in Path
        /\ Moving => k \in Items /\ ItemOf(k) = k
  BY PartsOfItems, Places DEF ItemsSafe, TypeOK
<1>3. half => pc \in {"move", "rollback", "undo"} /\ at \in Items /\ Moving
  BY <1>1 DEF Control
<1> DEFINE Same ==
      \A i \in Items :
         fs'[Src(i)] = fs[Src(i)] /\ (Moving => fs'[Dst(i)] = fs[Dst(i)])
<1>4. fs' = fs => Same
  OBVIOUS
<1>5. ASSUME Same, UNCHANGED hit, half' => half /\ at' = at
      PROVE  (\A i \in Items \ hit : Kept(i))' /\ HalfMoved'
  <2>1. ASSUME NEW i \in Items \ hit
        PROVE  Kept(i)'
    <3>1. fs'[Src(i)] = fs[Src(i)] /\ (Moving => fs'[Dst(i)] = fs[Dst(i)])
      BY <1>5
    <3>2. Kept(i)
      BY DEF ItemsSafe
    <3> QED BY <1>1, <3>1, <3>2 DEF Kept, Exists
  <2>2. HalfMoved'
    <3>1. CASE half'
      <4>1. half /\ at' = at /\ at \in Items /\ Moving
        BY <1>3, <1>5, <3>1
      <4>2. fs'[Src(at)] = fs[Src(at)] /\ fs'[Dst(at)] = fs[Dst(at)]
        BY <1>5, <4>1
      <4> QED BY <1>1, <1>5, <4>1, <4>2 DEF HalfMoved, Exists
    <3>2. CASE ~half'
      BY <3>2 DEF HalfMoved
    <3> QED BY <3>1, <3>2
  <2> QED BY <1>5, <2>1, <2>2
<1> HIDE DEF Same
<1>6. CASE ApplyStart
  <2>1. fs' = fs /\ UNCHANGED hit /\ ~half'
    BY <1>6, <1>3 DEF ApplyStart, Put, Goto, Stop, besides
  <2> QED BY <1>4, <1>5, <2>1
<1>7. CASE Validate
  <2>1. fs' = fs /\ UNCHANGED hit /\ ~half'
    BY <1>7, <1>3 DEF Validate, store, Goto, Fail, Stop, besides
  <2> QED BY <1>4, <1>5, <2>1
<1>8. CASE MoveIntent
  <2>1. fs' = fs /\ UNCHANGED hit /\ ~half'
    BY <1>8, <1>3 DEF MoveIntent, Put, Goto, Fail, Stop, besides
  <2> QED BY <1>4, <1>5, <2>1
<1>9. CASE Finish
  <2>1. fs' = fs /\ UNCHANGED hit /\ ~half'
    BY <1>9, <1>3 DEF Finish, Put, Stop, besides
  <2> QED BY <1>4, <1>5, <2>1
<1>10. CASE ApplyFails
  <2>1. fs' = fs /\ UNCHANGED hit /\ ~half'
    BY <1>10, <1>3 DEF ApplyFails, Put, Stop, besides
  <2> QED BY <1>4, <1>5, <2>1
<1>11. CASE StageIntent
  <2>1. fs' = fs /\ UNCHANGED hit /\ ~half'
    BY <1>11, <1>3 DEF StageIntent, Put, Goto, Fail, Stop, besides
  <2> QED BY <1>4, <1>5, <2>1
<1>12. CASE Stage
  <2>1. UNCHANGED hit
    BY <1>12 DEF Stage, besides
  <2>2. ~half'
    BY <1>12, <1>3 DEF Stage, Goto, FailStaged, Stop
  <2>3. Same
    <3>1. at \in Parts
      BY <1>12, <1>1 DEF Stage, Control, PartPoints
    <3>2. fs' \in {Copied(Src(at), Tmp(at)), Copied(SourceOf(at), Stg(at)), fs}
      BY <1>12 DEF Stage
    <3>3. \A r \in Path : r \notin {Tmp(at), Stg(at)} => fs'[r] = fs[r]
      BY <1>1, <1>2, <3>1, <3>2 DEF Copied
    <3> QED BY <1>1, <3>3, PlacesDiffer DEF Same
  <2> QED BY <1>5, <2>1, <2>2, <2>3
<1>13. CASE StageRename
  <2>1. UNCHANGED hit
    BY <1>13 DEF StageRename, besides
  <2>2. ~half'
    BY <1>13, <1>3 DEF StageRename, Goto, FailStaged, Stop
  <2>3. Same
    <3>1. at \in Parts
      BY <1>13, <1>1 DEF StageRename, Control, PartPoints
    <3>2. fs' \in {Renamed(Tmp(at), Stg(at)), Removed(Tmp(at))}
      BY <1>13 DEF StageRename
    <3>3. \A r \in Path : r \notin {Tmp(at), Stg(at)} => fs'[r] = fs[r]
      BY <1>1, <1>2, <3>1, <3>2 DEF Renamed, Removed
    <3> QED BY <1>1, <3>3, PlacesDiffer DEF Same
  <2> QED BY <1>5, <2>1, <2>2, <2>3
<1>14. CASE Discard
  <2>1. UNCHANGED hit
    BY <1>14 DEF Discard, besides
  <2>2. ~half'
    BY <1>14, <1>3 DEF Discard, Fail, Stop
  <2>3. Same
    <3>1. at \in Parts
      BY <1>14, <1>1 DEF Discard, Control, PartPoints
    <3>2. fs' = Removed(Stg(at)) \/ fs' = fs
      BY <1>14 DEF Discard
    <3>3. \A r \in Path : r # Stg(at) => fs'[r] = fs[r]
      BY <1>1, <1>2, <3>1, <3>2 DEF Removed
    <3> QED BY <1>1, <3>3, PlacesDiffer DEF Same
  <2> QED BY <1>5, <2>1, <2>2, <2>3
<1>15. CASE PublishIntent
  <2>1. fs' = fs /\ UNCHANGED hit /\ ~half'
    BY <1>15, <1>3 DEF PublishIntent, Put, Goto, FailStaged, Stop, besides
  <2> QED BY <1>4, <1>5, <2>1
<1>16. CASE Publish
  <2>1. UNCHANGED hit /\ ~Moving /\ at \in Parts
    BY <1>16, <1>1 DEF Publish, besides, Control, PartPoints, StagedPoints
  <2>2. ~half'
    BY <1>16, <1>3 DEF Publish, Goto, FailStaged, proc, Stop
  <2>3. Same
    <3>1. fs' \in {Removed(Dst(at)), Renamed(Stg(at), Dst(at)), fs}
      BY <1>16 DEF Publish
    <3>2. \A r \in Path : r \notin {Stg(at), Dst(at)} => fs'[r] = fs[r]
      BY <1>1, <1>2, <2>1, <3>1 DEF Renamed, Removed
    <3> QED BY <1>1, <2>1, <3>2, PlacesDiffer DEF Same
  <2> QED BY <1>5, <2>1, <2>2, <2>3
<1>17. CASE Move
  <2>1. at \in Items /\ Moving /\ UNCHANGED <<op, hit>>
    <3>1. pc = "move" /\ UNCHANGED <<op, hit>>
      BY <1>17 DEF Move, besides
    <3>2. Moving /\ at \in Parts
      BY <1>1, <3>1 DEF Control, PartPoints
    <3> QED BY <1>2, <3>1, <3>2
  <2>2. MoveOutcome(Src(at), Dst(at))
    BY <1>17 DEF Move, MoveOne, Fail, Stop, proc, MoveOutcome,
           MoveDone, MoveFailed, MoveGoesOn
  <2> QED BY <2>1, <2>2, MoveKeeps
<1>18. CASE Checkpoint
  <2>1. fs' = fs /\ UNCHANGED hit /\ ~half'
    BY <1>18, <1>3 DEF Checkpoint, Put, AfterCheckpoint, Goto, Fail, Stop, besides
  <2> QED BY <1>4, <1>5, <2>1
<1>19. CASE ItemDone
  <2>1. fs' = fs /\ UNCHANGED hit /\ ~half'
    BY <1>19, <1>3 DEF ItemDone, Put, Goto, Fail, Stop, besides
  <2> QED BY <1>4, <1>5, <2>1
<1>20. CASE RollbackStep
  <2>1. CASE at \in Listed(mem) /\ Moving
    <3>1. at \in Items /\ UNCHANGED <<op, hit>>
      <4>1. at \in Parts
        BY <2>1 DEF Listed
      <4>2. UNCHANGED <<op, hit>>
        BY <1>20 DEF RollbackStep, besides
      <4> QED BY <1>2, <2>1, <4>1, <4>2
    <3>2. MoveOutcome(Dst(at), Src(at))
      BY <1>20, <2>1 DEF RollbackStep, Reverse, MoveOne, RollbackNext, proc, MoveOutcome,
           MoveDone, MoveFailed, MoveGoesOn
    <3> QED BY <2>1, <3>1, <3>2, MoveKeeps
  <2>2. CASE at \in Listed(mem) /\ ~Moving
    <3>1. at \in Parts /\ UNCHANGED hit /\ ~half'
      BY <1>20, <2>2 DEF RollbackStep, Reverse, RollbackNext, Listed, besides
    <3>2. fs' = Removed(Dst(at)) \/ fs' = fs
      BY <1>20, <2>2 DEF RollbackStep, Reverse
    <3>3. \A r \in Path : r # Dst(at) => fs'[r] = fs[r]
      BY <1>1, <1>2, <3>1, <3>2 DEF Removed
    <3>4. Same
      BY <1>1, <2>2, <3>3, PlacesDiffer DEF Same
    <3> QED BY <1>5, <3>1, <3>4
  <2>3. CASE at \notin Listed(mem)
    <3>1. fs' = fs /\ UNCHANGED hit /\ ~half'
      BY <1>20, <2>3 DEF RollbackStep, RollbackNext, besides
    <3> QED BY <1>4, <1>5, <3>1
  <2> QED BY <2>1, <2>2, <2>3
<1>21. CASE RollbackEnd
  <2>1. ~half
    BY <1>21, <1>1 DEF RollbackEnd, Control, Items
  <2>2. fs' = fs /\ UNCHANGED hit /\ ~half'
    BY <1>21, <2>1 DEF RollbackEnd, Put, Goto, Stop, besides
  <2> QED BY <1>4, <1>5, <2>2
<1>22. CASE UndoStep
  <2>1. CASE at \in Listed(mem) /\ Moving
    <3>1. at \in Items /\ UNCHANGED <<op, hit>>
      <4>1. at \in Parts
        BY <2>1 DEF Listed
      <4>2. UNCHANGED <<op, hit>>
        BY <1>22 DEF UndoStep, besides
      <4> QED BY <1>2, <2>1, <4>1, <4>2
    <3>2. MoveOutcome(Dst(at), Src(at))
      BY <1>22, <2>1 DEF UndoStep, Reverse, MoveOne, UndoNext, Stop, proc, MoveOutcome,
           MoveDone, MoveFailed, MoveGoesOn
    <3> QED BY <2>1, <3>1, <3>2, MoveKeeps
  <2>2. CASE at \in Listed(mem) /\ ~Moving
    <3>1. at \in Parts /\ UNCHANGED hit /\ ~half'
      BY <1>22, <2>2 DEF UndoStep, Reverse, UndoNext, Stop, Listed, besides
    <3>2. fs' = Removed(Dst(at)) \/ fs' = fs
      BY <1>22, <2>2 DEF UndoStep, Reverse
    <3>3. \A r \in Path : r # Dst(at) => fs'[r] = fs[r]
      BY <1>1, <1>2, <3>1, <3>2 DEF Removed
    <3>4. Same
      BY <1>1, <2>2, <3>3, PlacesDiffer DEF Same
    <3> QED BY <1>5, <3>1, <3>4
  <2>3. CASE at \notin Listed(mem)
    <3>1. fs' = fs /\ UNCHANGED hit /\ ~half'
      BY <1>22, <2>3 DEF UndoStep, UndoNext, besides
    <3> QED BY <1>4, <1>5, <3>1
  <2> QED BY <2>1, <2>2, <2>3
<1>23. CASE UndoEnd
  <2>1. fs' = fs /\ UNCHANGED hit /\ ~half'
    BY <1>23, <1>3 DEF UndoEnd, Put, Stop, besides
  <2> QED BY <1>4, <1>5, <2>1
<1>24. CASE Unstage
  <2>1. UNCHANGED hit
    BY <1>24 DEF Unstage, besides
  <2>2. ~half'
    BY <1>24, <1>3 DEF Unstage, Stop
  <2>3. Same
    <3>1. PICK k \in mem.staging : fs' = Removed(Stg(k)) \/ fs' = fs
      BY <1>24 DEF Unstage
    <3>2. Stg(k) \in Path
      BY <3>1, Places DEF ItemsSafe, TypeOK, Journal
    <3>3. \A r \in Path : r # Stg(k) => fs'[r] = fs[r]
      BY <1>1, <3>1, <3>2 DEF Removed
    <3> QED BY <1>1, <3>3, PlacesDiffer DEF Same
  <2> QED BY <1>5, <2>1, <2>2, <2>3
<1>25. CASE Revalidate
  <2>1. fs' = fs /\ UNCHANGED hit /\ ~half'
    BY <1>25, <1>3 DEF Revalidate, store, Goto, Stop, besides
  <2> QED BY <1>4, <1>5, <2>1
<1>26. CASE Undo
  <2>1. fs' = fs /\ UNCHANGED hit /\ ~half'
    BY <1>26, <1>3 DEF Undo, Begin, store, besides
  <2> QED BY <1>4, <1>5, <2>1
<1>27. CASE Rollback
  <2>1. fs' = fs /\ UNCHANGED hit /\ ~half'
    BY <1>27, <1>3 DEF Rollback, Begin, store, besides
  <2> QED BY <1>4, <1>5, <2>1
<1>28. CASE RecoverRollback
  <2>1. fs' = fs /\ UNCHANGED hit /\ ~half'
    BY <1>28, <1>3 DEF RecoverRollback, Begin, store, besides
  <2> QED BY <1>4, <1>5, <2>1
<1>29. CASE Resume
  <2>1. fs' = fs /\ UNCHANGED hit /\ ~half'
    BY <1>29, <1>3 DEF Resume, Begin, store, besides
  <2> QED BY <1>4, <1>5, <2>1
<1>30. CASE ResumeSkip
  <2>1. fs' = fs /\ UNCHANGED hit /\ ~half'
    BY <1>30, <1>3 DEF ResumeSkip, AfterCheckpoint, Goto, store, ToResume, besides
  <2> QED BY <1>4, <1>5, <2>1
<1>31. CASE ResumeStaged
  <2>1. UNCHANGED hit /\ ~Moving /\ at \in Parts
    BY <1>31, <1>1 DEF ResumeStaged, besides, Control, PartPoints, StagedPoints, ToResume
  <2>2. ~half'
    BY <1>31, <1>3 DEF ResumeStaged, Goto, ToResume, Stop
  <2>3. Same
    <3>1. fs' \in {Renamed(Stg(at), Dst(at)), fs}
      BY <1>31 DEF ResumeStaged
    <3>2. \A r \in Path : r \notin {Stg(at), Dst(at)} => fs'[r] = fs[r]
      BY <1>1, <1>2, <2>1, <3>1 DEF Renamed, Removed
    <3> QED BY <1>1, <2>1, <3>2, PlacesDiffer DEF Same
  <2> QED BY <1>5, <2>1, <2>2, <2>3
<1>32. CASE ResumeRefused
  <2>1. fs' = fs /\ UNCHANGED hit /\ ~half'
    BY <1>32, <1>3 DEF ResumeRefused, ToResume, Stop, store, besides
  <2> QED BY <1>4, <1>5, <2>1
<1>33. CASE ResumeMove
  <2>1. fs' = fs /\ UNCHANGED hit /\ ~half'
    BY <1>33, <1>3 DEF ResumeMove, ToResume, Put, Goto, Stop, besides
  <2> QED BY <1>4, <1>5, <2>1
<1>34. CASE Crash
  <2>1. fs' = fs /\ UNCHANGED hit /\ ~half'
    BY <1>34, <1>3 DEF Crash, Stop, store, besides
  <2> QED BY <1>4, <1>5, <2>1
<1>35. CASE OutsideChange
  <2>1. PICK k \in Parts, role \in {"src", "dst"} :
          LET p == <<role, IF role = "src" THEN ItemOf(k) ELSE k>>
          IN  /\ \/ fs' = [fs EXCEPT ![p] = [id |-> Fresh, data |-> Outside]]
                 \/ fs' = Removed(p)
              /\ hit' = hit \cup {ItemOf(k)}
    BY <1>35 DEF OutsideChange
  <2> DEFINE p == <<role, IF role = "src" THEN ItemOf(k) ELSE k>>
  <2>2. p \in {Src(ItemOf(k)), Dst(k)} /\ p \in Path
    <3>1. p = Src(ItemOf(k)) \/ p = Dst(k)
      BY DEF Src, Dst
    <3> HIDE DEF p
    <3> QED BY <1>1, <1>2, <3>1
  <2>3. \A r \in Path : r # p => fs'[r] = fs[r]
    <3> HIDE DEF p
    <3> QED BY <1>1, <2>1, <2>2 DEF Removed, p
  <2> HIDE DEF p
  <2>4. \A i \in Items : i # ItemOf(k) =>
          fs'[Src(i)] = fs[Src(i)] /\ (Moving => fs'[Dst(i)] = fs[Dst(i)])
    <3> SUFFICES ASSUME NEW i \in Items, i # ItemOf(k)
                 PROVE  fs'[Src(i)] = fs[Src(i)] /\ (Moving => fs'[Dst(i)] = fs[Dst(i)])
      OBVIOUS
    <3>1. Src(i) # p
      BY <2>2, PlacesDiffer
    <3>2. Moving => Dst(i) # p
      <4>1. Moving => i # k
        BY <1>2
      <4> QED BY <2>2, <4>1, PlacesDiffer
    <3> QED BY <1>1, <2>3, <3>1, <3>2
  <2>5. \A i \in Items \ hit' : Kept(i)'
    BY <1>1, <2>1, <2>4 DEF ItemsSafe, Kept, Exists
  <2>6. HalfMoved'
    <3>1. UNCHANGED <<half, at>>
      BY <1>35 DEF OutsideChange, proc
    <3>2. half => at \in Items /\ Moving
      BY <1>1 DEF Control
    <3> QED BY <1>1, <2>1, <2>4, <3>1, <3>2 DEF HalfMoved, Exists
  <2> QED BY <2>5, <2>6
<1>36. CASE Hold
  <2>1. fs' = fs /\ UNCHANGED hit /\ ~half'
    BY <1>36, <1>3 DEF Hold, store, proc
  <2> QED BY <1>4, <1>5, <2>1
<1> QED BY <1>36, <1>6, <1>7, <1>8, <1>9, <1>10, <1>11, <1>12, <1>13, <1>14, <1>15,
          <1>16, <1>17, <1>18, <1>19, <1>20, <1>21, <1>22, <1>23, <1>24,
          <1>25, <1>26, <1>27, <1>28, <1>29, <1>30, <1>31, <1>32, <1>33,
          <1>34, <1>35
      DEF Next, Process, Apply, Staging, Reversal, Command, Resuming

-----------------------------------------------------------------------------
(* The theorems.                                                           *)

LEMMA ItemsSafeFirst == Init => ItemsSafe
<1> SUFFICES ASSUME Init PROVE ItemsSafe
  OBVIOUS
<1>1. N \in Nat /\ N > 0 /\ MaxFaults \in Nat
  BY JournalAssumption
<1>2. op \in Plan /\ pc = "planned" /\ half = FALSE
  BY DEF Init
<1>3. fs \in Files
  <2>1. \A p \in Path :
          /\ p[1] = "src" => p[2] \in Items
          /\ p[1] = "dst" => p[2] \in 1..MaxParts
    BY DEF Path
  <2> DEFINE F(p) == CASE p[1] = "src" -> PlannedSource(p[2])
                       [] p[1] = "dst" -> PlannedOutput(p[2])
                       [] OTHER -> NoFile
  <2>2. \A p \in Path : F(p) \in File /\ (F(p).id = 0 => F(p) = NoFile)
    <3> SUFFICES ASSUME NEW p \in Path
                 PROVE  F(p) \in File /\ (F(p).id = 0 => F(p) = NoFile)
      OBVIOUS
    <3>1. CASE p[1] = "src"
      <4>1. F(p) = PlannedSource(p[2])
        BY <3>1
      <4>2. PlannedSource(p[2]).id # 0
        BY <1>1, <2>1, <3>1 DEF PlannedSource, Items
      <4> HIDE DEF F
      <4> QED BY <2>1, <3>1, <4>1, <4>2, PlannedTyped
    <3>2. CASE p[1] = "dst"
      <4>1. F(p) = PlannedOutput(p[2])
        BY <3>2
      <4>2. PlannedOutput(p[2]) = NoFile \/ PlannedOutput(p[2]).id # 0
        BY <1>1, <2>1, <3>2 DEF PlannedOutput, MaxParts
      <4> HIDE DEF F
      <4> QED BY <2>1, <3>2, <4>1, <4>2, PlannedTyped
    <3>3. CASE p[1] # "src" /\ p[1] # "dst"
      BY <3>3, NoJournalTyped
    <3> QED BY <3>1, <3>2, <3>3
  <2>3. fs = [p \in Path |-> F(p)]
    BY DEF Init
  <2> HIDE DEF F
  <2> QED BY <2>2, <2>3 DEF Files
<1>4. TypeOK
  <2>1. durable \in Journal /\ mem \in Journal /\ held \in [Variables -> Journal]
    BY NoJournalTyped DEF Init
  <2>2. /\ cmd = "apply" /\ pc = "planned" /\ at = 0 /\ half = FALSE /\ complete = TRUE
        /\ hit = {} /\ raced = FALSE /\ stale = FALSE
    BY DEF Init
  <2>3. at \in 0..(MaxParts + 1)
    BY <1>1, <2>2 DEF MaxParts
  <2>4. faults \in [FaultKinds -> 0..MaxFaults]
    BY <1>1 DEF Init
  <2> QED BY <1>2, <1>3, <2>1, <2>2, <2>3, <2>4 DEF TypeOK, Files
<1>5. Control
  BY <1>2 DEF Control, PartPoints, StagedPoints
<1>6. \A i \in Items : Kept(i)
  <2> SUFFICES ASSUME NEW i \in Items PROVE Kept(i)
    OBVIOUS
  <2>1. fs[Src(i)] = PlannedSource(i)
    BY Places DEF Init, Src
  <2> QED BY <1>1, <2>1 DEF Kept, Exists, PlannedSource, Items
<1>7. HalfMoved
  BY <1>2 DEF HalfMoved
<1> QED BY <1>3, <1>4, <1>5, <1>6, <1>7 DEF ItemsSafe

LEMMA ItemsSafeStep == ItemsSafe /\ [Next]_vars => ItemsSafe'
<1> SUFFICES ASSUME ItemsSafe, [Next]_vars PROVE ItemsSafe'
  OBVIOUS
<1>1. TypeOK' /\ Control' /\ fs' \in Files
  BY TypedStep DEF ItemsSafe
<1>2. (\A i \in Items \ hit : Kept(i))' /\ HalfMoved'
  <2>1. CASE Next
    BY <2>1, KeptStep
  <2>2. CASE UNCHANGED vars
    BY <2>2 DEF vars, store, proc, besides, ItemsSafe, Kept, HalfMoved, Exists, Moving
  <2> QED BY <2>1, <2>2
<1> QED BY <1>1, <1>2 DEF ItemsSafe

(* Every reachable state of an operation and its journal is well typed.    *)
THEOREM JournalTyped == Spec => []TypeOK
<1>1. ItemsSafe => TypeOK
  BY DEF ItemsSafe
<1> QED BY ItemsSafeFirst, ItemsSafeStep, <1>1, PTL DEF Spec

(* apply, undo, rollback and recover, killed, failing or resumed at any    *)
(* step, never lose an item that no other program has touched: its data is *)
(* at its source or, for a move or a delete, at its output.                *)
THEOREM NothingIsLost == Spec => []NoItemLost
<1>1. ItemsSafe => NoItemLost
  BY DEF ItemsSafe, Kept, NoItemLost
<1> QED BY ItemsSafeFirst, ItemsSafeStep, <1>1, PTL DEF Spec


-----------------------------------------------------------------------------
(***************************************************************************)
(* The journal is written ahead of the files, and a journal that says      *)
(* rolled back or undone tells the truth.                                  *)
(*                                                                         *)
(* Both rest on what has been Changed: the parts whose output holds an     *)
(* item, and the items whose source has been moved away.  The journal on   *)
(* disk names every such part until it says reversed (Written); what is    *)
(* still ahead of a running apply is unchanged (Ahead); what a reversal    *)
(* has passed and its journal names is unchanged again (Reversed); and,    *)
(* while no file operation has failed, every staging file has its entry    *)
(* (Staged).  An undo or a rollback may have been given an older journal,  *)
(* which need not name everything: it is UpToDate only while none has.     *)
(***************************************************************************)

Holds(k) == Exists(Dst(k)) /\ fs[Dst(k)].data \in Items
Gone(k) == Moving /\ k \in Items \ hit /\ ~Exists(Src(k))
Changed(k) == Holds(k) \/ Gone(k)

Running == pc \notin {"idle", "planned"}

(* The journal j lists part k.                                             *)
Names(j, k) == j.outputs[k].role # "none"

(* The running command has started with the journal on disk.               *)
UpToDate == cmd \in {"apply", "resume"} \/ ~stale

(* The journal on disk, and the one of the running command but for a part  *)
(* about to be checkpointed, name what has changed.                        *)
Written ==
  /\ ~SaysReversed(durable) => \A k \in Parts : Changed(k) => Names(durable, k)
  /\ Running /\ UpToDate => \A k \in Parts : Changed(k) =>
                  Names(mem, k) \/ (pc = "checkpoint" /\ k = at)
  /\ pc \in {"validate", "intent"} => durable = mem
  /\ pc \in {"publish", "move"} => Names(durable, at) /\ Names(mem, at)

(* Nothing is changed before its turn.                                     *)
Ahead ==
  /\ pc \in PartPoints \cup {"finish"} => cmd \in {"apply", "resume"}
  /\ pc \in {"planned", "validate", "fail"} => cmd = "apply"
  /\ pc \in {"planned", "validate"} => \A k \in Parts : ~Changed(k)
  /\ cmd = "apply" /\ pc \in PartPoints => \A k \in Parts : Changed(k) => k <= at
  /\ cmd = "apply" /\ pc = "intent" => \A k \in Parts : Changed(k) => k < at
  /\ pc \in StagedPoints \ {"discard"} => \A k \in Parts : Changed(k) => k # at
  /\ pc = "move" /\ ~half => \A k \in Parts : Changed(k) => k # at

(* What a reversal has passed is as it was before.                         *)
Reversed ==
  /\ pc = "rollback" /\ complete /\ mem.undo_safe =>
       \A k \in Parts : Changed(k) /\ Names(mem, k) => k <= at
  /\ pc = "undo" => \A k \in Parts : Changed(k) /\ Names(mem, k) => k >= at
  /\ pc = "undo" => cmd = "undo"
  /\ SaysReversed(durable) =>
       /\ \/ pc \in {"idle", "fail"}
          \/ stale /\ pc \in {"rollback", "undo"} /\ cmd \in {"rollback", "undo"}
       /\ \A k \in Parts : Names(durable, k) \/ ~stale => ~Changed(k)
  /\ SaysReversed(mem) => pc = "fail" /\ \A k \in Parts : ~Changed(k)

(* The journal on disk is one that a command was given, and has reversed.  *)
Superseded == stale /\ SaysReversed(durable)

(* Where staging files are.                                                *)
Staged ==
  /\ pc \in StagedPoints \ {"discard"} => at \in mem.staging /\ at \in durable.staging
  /\ faults["file"] = 0 => \A k \in Parts : Exists(Stg(k)) =>
       /\ ~Superseded => k \in durable.staging
       /\ Running /\ UpToDate => k \in mem.staging \/ (pc = "discard" /\ k = at)
       /\ cmd = "apply" => \/ pc \in {"publish_intent", "publish", "discard"} /\ k = at
                           \/ pc \in {"rollback", "fail"}

RecoverySafe == ItemsSafe /\ Written /\ Ahead /\ Reversed /\ Staged

-----------------------------------------------------------------------------
(* What the entries of a journal are after it is written to.               *)

LEMMA PlanKept ==
  ASSUME Next
  PROVE  op' = op /\ Moving' = Moving /\ NumParts' = NumParts /\ Parts' = Parts
BY PlanStays DEF Moving, NumParts, Parts

LEMMA Entries ==
  ASSUME NEW j \in Journal, NEW k \in 1..MaxParts, NEW file
  PROVE  /\ \A p \in 1..MaxParts :
              /\ Names(WithStaging(j, k), p) <=> Names(j, p)
              /\ Names(WithoutStaging(j, k), p) <=> Names(j, p)
              /\ Names(WithPending(j, k, file), p) <=> Names(j, p) \/ p = k
              /\ Names(WithoutOutput(j, k), p) <=> Names(j, p) /\ p # k
              /\ Names(WithDone(j, k, file), p) <=> Names(j, p) \/ p = k
              /\ Names(Published(j, k), p) <=> Names(j, p) /\ p # k
         /\ WithStaging(j, k).staging = j.staging \cup {k}
         /\ WithoutStaging(j, k).staging = j.staging \ {k}
         /\ WithPending(j, k, file).staging = j.staging
         /\ WithoutOutput(j, k).staging = j.staging
         /\ WithDone(j, k, file).staging = j.staging
         /\ Published(j, k).staging = j.staging \ {k}
         /\ WithStaging(j, k).status = j.status
         /\ WithoutStaging(j, k).status = j.status
         /\ WithPending(j, k, file).status = j.status
         /\ WithoutOutput(j, k).status = j.status
         /\ WithDone(j, k, file).status = j.status
         /\ Published(j, k).status = j.status
<1>1. NoOutput.role = "none"
  BY DEF NoOutput
<1>2. \A p \in 1..MaxParts :
        /\ Names(WithStaging(j, k), p) <=> Names(j, p)
        /\ Names(WithoutStaging(j, k), p) <=> Names(j, p)
        /\ Names(WithPending(j, k, file), p) <=> Names(j, p) \/ p = k
        /\ Names(WithoutOutput(j, k), p) <=> Names(j, p) /\ p # k
  BY <1>1 DEF Names, Journal, WithStaging, WithoutStaging, WithPending, WithoutOutput
<1>3. \A p \in 1..MaxParts : Names(WithDone(j, k, file), p) <=> Names(j, p) \/ p = k
  BY DEF Names, Journal, WithDone
<1>4. \A p \in 1..MaxParts : Names(Published(j, k), p) <=> Names(j, p) /\ p # k
  BY <1>1 DEF Names, Journal, Published, WithoutStaging, WithoutOutput
<1>5. /\ WithStaging(j, k).staging = j.staging \cup {k}
      /\ WithoutStaging(j, k).staging = j.staging \ {k}
      /\ WithPending(j, k, file).staging = j.staging
      /\ WithoutOutput(j, k).staging = j.staging
      /\ WithStaging(j, k).status = j.status
      /\ WithoutStaging(j, k).status = j.status
      /\ WithPending(j, k, file).status = j.status
      /\ WithoutOutput(j, k).status = j.status
  BY DEF Journal, WithStaging, WithoutStaging, WithPending, WithoutOutput
<1>6. WithDone(j, k, file).staging = j.staging /\ WithDone(j, k, file).status = j.status
  BY DEF Journal, WithDone
<1>7. Published(j, k).staging = j.staging \ {k} /\ Published(j, k).status = j.status
  BY DEF Journal, Published, WithoutStaging, WithoutOutput
<1> QED BY <1>2, <1>3, <1>4, <1>5, <1>6, <1>7

-----------------------------------------------------------------------------
(* What a step changes.                                                    *)

(* Where no source and no output is touched nothing changes.               *)
LEMMA UntouchedParts ==
  ASSUME op \in Plan, UNCHANGED <<op, hit>>,
         \A i \in Items : fs'[Src(i)] = fs[Src(i)],
         \A k \in Parts : fs'[Dst(k)] = fs[Dst(k)]
  PROVE  \A k \in Parts : Changed(k)' <=> Changed(k)
<1> SUFFICES ASSUME NEW k \in Parts PROVE Changed(k)' <=> Changed(k)
  OBVIOUS
<1>1. Holds(k)' <=> Holds(k)
  BY DEF Holds, Exists
<1>2. Gone(k)' <=> Gone(k)
  BY DEF Gone, Exists, Moving
<1> QED BY <1>1, <1>2 DEF Changed

(* A step of a move touches the running part only.                         *)
LEMMA MoveTouches ==
  ASSUME ItemsSafe, Moving, at \in Items, UNCHANGED <<op, hit>>,
         NEW from, NEW to, MoveOutcome(from, to),
         \/ from = Src(at) /\ to = Dst(at)
         \/ from = Dst(at) /\ to = Src(at)
  PROVE  \A k \in Parts : k # at => (Changed(k)' <=> Changed(k))
<1> SUFFICES ASSUME NEW k \in Parts, k # at PROVE Changed(k)' <=> Changed(k)
  OBVIOUS
<1>1. /\ fs \in [Path -> File] /\ k \in Items
      /\ Src(k) \in Path /\ Dst(k) \in Path /\ from \in Path /\ to \in Path
  BY PartsOfItems, Places DEF ItemsSafe, TypeOK
<1>2. Src(k) \notin {from, to} /\ Dst(k) \notin {from, to}
  BY PlacesDiffer
<1>3. fs'[Src(k)] = fs[Src(k)] /\ fs'[Dst(k)] = fs[Dst(k)]
  BY <1>1, <1>2
     DEF MoveOutcome, MoveDone, MoveFailed, MoveGoesOn, Removed, Renamed, Copied
<1>4. Holds(k)' <=> Holds(k)
  BY <1>3 DEF Holds, Exists
<1>5. Gone(k)' <=> Gone(k)
  BY <1>3 DEF Gone, Exists, Moving
<1> QED BY <1>4, <1>5 DEF Changed

(* A move that fails, or has only removed what it replaces, has changed    *)
(* nothing.                                                                *)
LEMMA ForwardMove ==
  ASSUME ItemsSafe, Moving, at \in Items, UNCHANGED <<op, hit>>,
         ~half => \A k \in Parts : Changed(k) => k # at,
         \/ MoveFailed(Src(at), Dst(at))
         \/ MoveGoesOn(Src(at), Dst(at)) /\ ~half'
  PROVE  \A k \in Parts : Changed(k)' => k # at
<1> SUFFICES ASSUME NEW k \in Parts, k = at PROVE ~Changed(k)'
  OBVIOUS
<1>1. /\ fs \in [Path -> File] /\ Src(k) \in Path /\ Dst(k) \in Path /\ Src(k) # Dst(k)
      /\ NoFile.id = 0
  BY Places, PartsOfItems, PlacesDiffer DEF ItemsSafe, TypeOK, NoFile
<1>2. CASE half /\ fs' = Removed(Dst(at))
  <2>1. fs'[Dst(k)] = NoFile /\ fs'[Src(k)] = fs[Src(k)]
    BY <1>1, <1>2 DEF Removed
  <2>2. k \notin hit => Exists(Src(k))
    BY <1>2 DEF ItemsSafe, HalfMoved
  <2>3. ~Holds(k)'
    BY <1>1, <2>1 DEF Holds, Exists
  <2>4. ~Gone(k)'
    BY <2>1, <2>2 DEF Gone, Exists
  <2> QED BY <2>3, <2>4 DEF Changed
<1>3. CASE ~half /\ fs' = fs
  <2>1. Holds(k)' <=> Holds(k)
    BY <1>3 DEF Holds, Exists
  <2>2. Gone(k)' <=> Gone(k)
    BY <1>3 DEF Gone, Exists, Moving
  <2> QED BY <1>3, <2>1, <2>2 DEF Changed
<1>4. CASE ~half /\ fs' = Removed(Dst(at))
  <2>1. fs'[Dst(k)] = NoFile /\ fs'[Src(k)] = fs[Src(k)]
    BY <1>1, <1>4 DEF Removed
  <2>2. ~Holds(k)'
    BY <1>1, <2>1 DEF Holds, Exists
  <2>3. Gone(k)' <=> Gone(k)
    BY <2>1 DEF Gone, Exists, Moving
  <2> QED BY <1>4, <2>2, <2>3 DEF Changed
<1> QED BY <1>2, <1>3, <1>4 DEF MoveFailed, MoveGoesOn

(* A move back changes nothing that was not changed, and when it is done   *)
(* the item is as it was.                                                  *)
LEMMA BackwardMove ==
  ASSUME ItemsSafe, Moving, at \in Items, UNCHANGED <<op, hit>>,
         MoveOutcome(Dst(at), Src(at))
  PROVE  /\ \A k \in Parts : Changed(k)' => Changed(k)
         /\ MoveDone(Dst(at), Src(at)) => \A k \in Parts : Changed(k)' => k # at
<1>1. \A k \in Parts : k # at => (Changed(k)' <=> Changed(k))
  BY MoveTouches
<1>2. ASSUME NEW k \in Parts, k = at
      PROVE  /\ Changed(k)' => Changed(k)
             /\ MoveDone(Dst(at), Src(at)) => ~Changed(k)'
  <2>1. /\ fs \in [Path -> File] /\ Src(k) \in Path /\ Dst(k) \in Path /\ Src(k) # Dst(k)
        /\ NoFile.id = 0 /\ k \in Items
    BY <1>2, Places, PartsOfItems, PlacesDiffer DEF ItemsSafe, TypeOK, NoFile
  <2>2. half /\ k \notin hit => Exists(Src(k)) /\ Holds(k)
    BY <1>2, <2>1 DEF ItemsSafe, HalfMoved, Holds
  <2>3. CASE ~half /\ Exists(Dst(at)) /\ fs' = Renamed(Dst(at), Src(at))
    <3>1. fs'[Dst(k)] = NoFile /\ fs'[Src(k)] = fs[Dst(k)] /\ fs[Dst(k)].id # 0
      BY <1>2, <2>1, <2>3 DEF Renamed, Exists
    <3> QED BY <2>1, <3>1 DEF Changed, Holds, Gone, Exists
  <2>4. CASE half /\ fs' = Removed(Dst(at))
    <3>1. fs'[Dst(k)] = NoFile /\ fs'[Src(k)] = fs[Src(k)]
      BY <1>2, <2>1, <2>4 DEF Removed
    <3> QED BY <2>1, <2>2, <2>4, <3>1 DEF Changed, Holds, Gone, Exists
  <2>5. CASE half /\ fs' = Removed(Src(at)) /\ ~MoveDone(Dst(at), Src(at))
    <3>1. fs'[Dst(k)] = fs[Dst(k)]
      BY <1>2, <2>1, <2>5 DEF Removed
    <3>2. Holds(k)' => Holds(k)
      BY <3>1 DEF Holds, Exists
    <3>3. Gone(k)' => k \notin hit
      BY DEF Gone
    <3> QED BY <2>2, <2>5, <3>2, <3>3 DEF Changed
  <2>6. CASE fs' = fs /\ ~MoveDone(Dst(at), Src(at))
    BY <2>6 DEF Changed, Holds, Gone, Exists, Moving
  <2>7. CASE MoveGoesOn(Dst(at), Src(at)) /\ ~MoveDone(Dst(at), Src(at))
    <3>1. fs' = Copied(Dst(k), Src(k))
      BY <1>2, <2>1, <2>7 DEF MoveGoesOn
    <3>2. fs'[Dst(k)] = fs[Dst(k)] /\ fs'[Src(k)].id = Fresh
      BY <2>1, <3>1, FilesAfter
    <3> QED BY <2>7, <3>2, FreshIsNew DEF Changed, Holds, Gone, Exists
  <2>8. Dst(at) # Src(at) /\ (MoveDone(Dst(at), Src(at)) =>
            \/ ~half /\ Exists(Dst(at)) /\ fs' = Renamed(Dst(at), Src(at))
            \/ half /\ fs' = Removed(Dst(at)))
    BY <1>2, <2>1 DEF MoveDone
  <2>9. CASE MoveDone(Dst(at), Src(at))
    BY <2>3, <2>4, <2>8, <2>9
  <2>10. CASE ~MoveDone(Dst(at), Src(at))
    BY <2>5, <2>6, <2>7, <2>10 DEF MoveOutcome, MoveFailed
  <2> QED BY <2>9, <2>10
<1> QED BY <1>1, <1>2

(* A part the journal on disk names may be changed by its publication or   *)
(* its move, which leads to its checkpoint or has copied.                  *)
MayChange(k) ==
  /\ k = at /\ Names(durable, k) /\ UNCHANGED <<durable, at>>
  /\ pc' = "checkpoint" \/ (pc' = "move" /\ half' /\ Names(mem', k))

LEMMA ForwardEffect ==
  ASSUME RecoverySafe, Move
  PROVE  /\ \A k \in Parts : Changed(k)' => Changed(k) \/ MayChange(k)
         /\ pc' # "checkpoint" /\ ~half' => \A k \in Parts : Changed(k)' => k # at
<1>1. /\ at \in Items /\ Moving /\ UNCHANGED <<op, hit>>
      /\ pc = "move" /\ Names(durable, at) /\ Names(mem, at)
      /\ ~half => \A k \in Parts : Changed(k) => k # at
  <2>1. pc = "move" /\ UNCHANGED <<op, hit>>
    BY DEF Move, besides
  <2>2. Moving /\ at \in Parts
    BY <2>1 DEF RecoverySafe, ItemsSafe, Control, PartPoints
  <2>3. at \in Items
    BY <2>2, PartsOfItems DEF RecoverySafe, ItemsSafe, TypeOK
  <2> QED BY <2>1, <2>2, <2>3 DEF RecoverySafe, Written, Ahead
<1>2. \/ MoveDone(Src(at), Dst(at)) /\ pc' = "checkpoint" /\ UNCHANGED <<durable, at>>
      \/ MoveFailed(Src(at), Dst(at))
      \/ /\ MoveGoesOn(Src(at), Dst(at))
         /\ pc' = "move" /\ UNCHANGED <<durable, at, mem>>
  BY <1>1 DEF Move, MoveOne, Fail, Stop, proc, MoveDone, MoveFailed, MoveGoesOn
<1>3. \A k \in Parts : k # at => (Changed(k)' <=> Changed(k))
  BY <1>1, <1>2, MoveTouches DEF MoveOutcome, RecoverySafe
<1>4. CASE MoveDone(Src(at), Dst(at)) /\ pc' = "checkpoint" /\ UNCHANGED <<durable, at>>
  BY <1>1, <1>3, <1>4 DEF MayChange
<1>5. CASE MoveFailed(Src(at), Dst(at)) \/ (MoveGoesOn(Src(at), Dst(at)) /\ ~half')
  <2>1. \A k \in Parts : Changed(k)' => k # at
    BY <1>1, <1>5, ForwardMove DEF RecoverySafe
  <2> QED BY <1>3, <2>1
<1>6. CASE /\ MoveGoesOn(Src(at), Dst(at)) /\ half'
           /\ pc' = "move" /\ UNCHANGED <<durable, at, mem>>
  BY <1>1, <1>3, <1>6 DEF MayChange, Names
<1> QED BY <1>2, <1>4, <1>5, <1>6

(* Removing an output changes nothing else, and it is no item's then.      *)
LEMMA RemovedOutput ==
  ASSUME ItemsSafe, UNCHANGED <<op, hit>>, NEW p \in Parts, fs' = Removed(Dst(p))
  PROVE  /\ \A k \in Parts : Changed(k)' => Changed(k)
         /\ ~Moving => \A k \in Parts : Changed(k)' => k # p
<1> SUFFICES ASSUME NEW k \in Parts
             PROVE  /\ Changed(k)' => Changed(k)
                    /\ ~Moving /\ Changed(k)' => k # p
  OBVIOUS
<1>1. fs \in [Path -> File] /\ Dst(k) \in Path /\ Dst(p) \in Path /\ NoFile.id = 0
  BY PartsOfItems, Places DEF ItemsSafe, TypeOK, NoFile
<1>2. k \in Items => fs'[Src(k)] = fs[Src(k)]
  BY <1>1, Places, PlacesDiffer DEF Removed
<1>3. fs'[Dst(k)] = IF k = p THEN NoFile ELSE fs[Dst(k)]
  BY <1>1, PlacesDiffer DEF Removed
<1>4. Holds(k)' => Holds(k) /\ k # p
  BY <1>1, <1>3 DEF Holds, Exists
<1>5. Gone(k)' => Gone(k)
  BY <1>2 DEF Gone, Exists, Moving
<1>6. ~Moving => ~Gone(k)'
  BY DEF Gone, Moving
<1> QED BY <1>4, <1>5, <1>6 DEF Changed

LEMMA RollbackEffect ==
  ASSUME RecoverySafe, RollbackStep
  PROVE  /\ \A k \in Parts : Changed(k)' => Changed(k)
         /\ at' # at /\ complete' =>
              \A k \in Parts : Changed(k)' /\ Names(mem, k) => k # at
<1>1. pc = "rollback" /\ Running /\ UNCHANGED <<op, hit>> /\ op \in Plan
  BY DEF RollbackStep, besides, Running, RecoverySafe, ItemsSafe, TypeOK
<1>2. CASE at \in Listed(mem) /\ Moving
  <2>1. at \in Items
    BY <1>1, <1>2, PartsOfItems DEF Listed
  <2>2. \/ MoveDone(Dst(at), Src(at))
        \/ MoveFailed(Dst(at), Src(at)) /\ ~complete'
        \/ MoveGoesOn(Dst(at), Src(at)) /\ at' = at
    BY <1>1, <1>2
       DEF RollbackStep, Reverse, MoveOne, RollbackNext, proc, MoveDone, MoveFailed,
           MoveGoesOn
  <2>3. MoveOutcome(Dst(at), Src(at))
    BY <2>2 DEF MoveOutcome
  <2> QED BY <1>1, <1>2, <2>1, <2>2, <2>3, BackwardMove DEF RecoverySafe
<1>3. CASE at \in Listed(mem) /\ ~Moving
  <2>1. at \in Parts
    BY <1>3 DEF Listed
  <2>2. fs' = Removed(Dst(at)) \/ (fs' = fs /\ ~complete')
    BY <1>3 DEF RollbackStep, Reverse, RollbackNext
  <2>3. CASE fs' = Removed(Dst(at))
    BY <1>1, <1>3, <2>1, <2>3, RemovedOutput DEF RecoverySafe
  <2>4. CASE fs' = fs /\ ~complete'
    <3>1. \A k \in Parts : Changed(k)' <=> Changed(k)
      BY <1>1, <2>4, UntouchedParts
    <3> QED BY <2>4, <3>1
  <2> QED BY <2>2, <2>3, <2>4
<1>4. CASE at \notin Listed(mem)
  <2>1. fs' = fs
    BY <1>4 DEF RollbackStep
  <2>2. \A k \in Parts : Changed(k)' <=> Changed(k)
    BY <1>1, <2>1, UntouchedParts
  <2>3. \A k \in Parts : Names(mem, k) => k # at
    BY <1>4 DEF Listed, Names
  <2> QED BY <2>2, <2>3
<1> QED BY <1>2, <1>3, <1>4

LEMMA UndoEffect ==
  ASSUME RecoverySafe, UndoStep
  PROVE  /\ \A k \in Parts : Changed(k)' => Changed(k)
         /\ at' # at /\ pc' = "undo" =>
              \A k \in Parts : Changed(k)' /\ Names(mem, k) => k # at
<1>1. pc = "undo" /\ Running /\ UNCHANGED <<op, hit>> /\ op \in Plan
  BY DEF UndoStep, besides, Running, RecoverySafe, ItemsSafe, TypeOK
<1>2. CASE at \in Listed(mem) /\ Moving
  <2>1. at \in Items
    BY <1>1, <1>2, PartsOfItems DEF Listed
  <2>2. \/ MoveDone(Dst(at), Src(at))
        \/ MoveFailed(Dst(at), Src(at)) /\ pc' = "idle"
        \/ MoveGoesOn(Dst(at), Src(at)) /\ at' = at
    BY <1>1, <1>2
       DEF UndoStep, Reverse, MoveOne, UndoNext, Stop, proc, MoveDone, MoveFailed,
           MoveGoesOn
  <2>3. MoveOutcome(Dst(at), Src(at))
    BY <2>2 DEF MoveOutcome
  <2> QED BY <1>1, <1>2, <2>1, <2>2, <2>3, BackwardMove DEF RecoverySafe
<1>3. CASE at \in Listed(mem) /\ ~Moving
  <2>1. at \in Parts
    BY <1>3 DEF Listed
  <2>2. fs' = Removed(Dst(at)) \/ (fs' = fs /\ pc' = "idle")
    BY <1>3 DEF UndoStep, Reverse, UndoNext, Stop
  <2>3. CASE fs' = Removed(Dst(at))
    BY <1>1, <1>3, <2>1, <2>3, RemovedOutput DEF RecoverySafe
  <2>4. CASE fs' = fs /\ pc' = "idle"
    <3>1. \A k \in Parts : Changed(k)' <=> Changed(k)
      BY <1>1, <2>4, UntouchedParts
    <3> QED BY <2>4, <3>1
  <2> QED BY <2>2, <2>3, <2>4
<1>4. CASE at \notin Listed(mem)
  <2>1. fs' = fs
    BY <1>4 DEF UndoStep
  <2>2. \A k \in Parts : Changed(k)' <=> Changed(k)
    BY <1>1, <2>1, UntouchedParts
  <2>3. \A k \in Parts : Names(mem, k) => k # at
    BY <1>4 DEF Listed, Names
  <2> QED BY <2>2, <2>3
<1> QED BY <1>2, <1>3, <1>4

(* No step changes what the journal on disk does not name.                 *)
LEMMA Effects ==
  ASSUME RecoverySafe, Next
  PROVE  \A k \in Parts : Changed(k)' => Changed(k) \/ MayChange(k)
<1>1. op' = op /\ op \in Plan /\ fs \in [Path -> File] /\ ItemsSafe
  BY PlanStays DEF RecoverySafe, ItemsSafe, TypeOK
<1>2. \A k \in Parts :
        /\ k \in 1..MaxParts /\ ItemOf(k) \in Items
        /\ Dst(k) \in Path /\ Stg(k) \in Path /\ Tmp(k) \in Path
  BY <1>1, PartsOfItems, Places
<1>3. pc \in PartPoints => at \in Parts
  BY DEF RecoverySafe, ItemsSafe, Control
<1>4. ASSUME UNCHANGED hit,
             \A r \in Path : (\A i : r # Stg(i) /\ r # Tmp(i)) => fs'[r] = fs[r]
      PROVE  \A k \in Parts : Changed(k)' <=> Changed(k)
  <2>1. \A i \in Items : fs'[Src(i)] = fs[Src(i)]
    BY <1>4, Places, PlacesDiffer
  <2>2. \A k \in Parts : fs'[Dst(k)] = fs[Dst(k)]
    BY <1>2, <1>4, PlacesDiffer
  <2> QED BY <1>1, <1>4, <2>1, <2>2, UntouchedParts
<1>5. CASE ApplyStart
  <2>1. fs' = fs /\ UNCHANGED hit
    BY <1>5 DEF ApplyStart, besides
  <2> QED BY <1>4, <2>1
<1>6. CASE Validate
  <2>1. fs' = fs /\ UNCHANGED hit
    BY <1>6 DEF Validate, besides, store
  <2> QED BY <1>4, <2>1
<1>7. CASE MoveIntent
  <2>1. fs' = fs /\ UNCHANGED hit
    BY <1>7 DEF MoveIntent, besides
  <2> QED BY <1>4, <2>1
<1>8. CASE Finish
  <2>1. fs' = fs /\ UNCHANGED hit
    BY <1>8 DEF Finish, besides
  <2> QED BY <1>4, <2>1
<1>9. CASE ApplyFails
  <2>1. fs' = fs /\ UNCHANGED hit
    BY <1>9 DEF ApplyFails, besides
  <2> QED BY <1>4, <2>1
<1>10. CASE StageIntent
  <2>1. fs' = fs /\ UNCHANGED hit
    BY <1>10 DEF StageIntent, besides
  <2> QED BY <1>4, <2>1
<1>11. CASE Stage
  <2>1. UNCHANGED hit
    BY <1>11 DEF Stage, besides
  <2>2. at \in Parts
    BY <1>11, <1>3 DEF Stage, PartPoints
  <2>3. fs' \in {Copied(Src(at), Tmp(at)), Copied(SourceOf(at), Stg(at)), fs}
    BY <1>11 DEF Stage
  <2>4. \A r \in Path : (\A i : r # Stg(i) /\ r # Tmp(i)) => fs'[r] = fs[r]
    BY <1>1, <1>2, <2>2, <2>3 DEF Copied
  <2> QED BY <1>4, <2>1, <2>4
<1>12. CASE StageRename
  <2>1. UNCHANGED hit
    BY <1>12 DEF StageRename, besides
  <2>2. at \in Parts
    BY <1>12, <1>3 DEF StageRename, PartPoints
  <2>3. fs' \in {Renamed(Tmp(at), Stg(at)), Removed(Tmp(at))}
    BY <1>12 DEF StageRename
  <2>4. \A r \in Path : (\A i : r # Stg(i) /\ r # Tmp(i)) => fs'[r] = fs[r]
    BY <1>1, <1>2, <2>2, <2>3 DEF Renamed, Removed
  <2> QED BY <1>4, <2>1, <2>4
<1>13. CASE Discard
  <2>1. UNCHANGED hit
    BY <1>13 DEF Discard, besides
  <2>2. at \in Parts
    BY <1>13, <1>3 DEF Discard, PartPoints
  <2>3. fs' \in {Removed(Stg(at)), fs}
    BY <1>13 DEF Discard
  <2>4. \A r \in Path : (\A i : r # Stg(i) /\ r # Tmp(i)) => fs'[r] = fs[r]
    BY <1>1, <1>2, <2>2, <2>3 DEF Removed
  <2> QED BY <1>4, <2>1, <2>4
<1>14. CASE PublishIntent
  <2>1. fs' = fs /\ UNCHANGED hit
    BY <1>14 DEF PublishIntent, besides
  <2> QED BY <1>4, <2>1
<1>15. CASE Publish
  <2>1. UNCHANGED hit /\ at \in Parts /\ Names(durable, at)
    BY <1>15, <1>3 DEF Publish, besides, PartPoints, RecoverySafe, Written, Names
  <2>2. \/ fs' = Removed(Dst(at))
        \/ /\ fs' = Renamed(Stg(at), Dst(at))
           /\ pc' = "checkpoint" /\ UNCHANGED <<durable, at>>
        \/ fs' = fs
    BY <1>15 DEF Publish, Goto
  <2>3. CASE fs' = Removed(Dst(at))
    BY <1>1, <2>1, <2>3, RemovedOutput
  <2>4. CASE /\ fs' = Renamed(Stg(at), Dst(at))
             /\ pc' = "checkpoint" /\ UNCHANGED <<durable, at>>
    <3>1. \A r \in Path : r # Stg(at) /\ r # Dst(at) => fs'[r] = fs[r]
      BY <1>1, <1>2, <2>1, <2>4 DEF Renamed
    <3>2. \A k \in Parts : k # at => fs'[Dst(k)] = fs[Dst(k)]
      BY <1>2, <3>1, PlacesDiffer
    <3>3. \A i \in Items : fs'[Src(i)] = fs[Src(i)]
      BY <3>1, Places, PlacesDiffer
    <3>4. \A k \in Parts : k # at => (Holds(k)' <=> Holds(k))
      BY <3>2 DEF Holds, Exists
    <3>5. \A k \in Parts : Gone(k)' <=> Gone(k)
      BY <1>1, <2>1, <3>3 DEF Gone, Exists, Moving
    <3> QED BY <2>1, <2>4, <3>4, <3>5 DEF Changed, MayChange
  <2>5. CASE fs' = fs
    BY <1>4, <2>1, <2>5
  <2> QED BY <2>2, <2>3, <2>4, <2>5
<1>16. CASE Move
  BY <1>16, ForwardEffect
<1>17. CASE Checkpoint
  <2>1. fs' = fs /\ UNCHANGED hit
    BY <1>17 DEF Checkpoint, besides
  <2> QED BY <1>4, <2>1
<1>18. CASE ItemDone
  <2>1. fs' = fs /\ UNCHANGED hit
    BY <1>18 DEF ItemDone, besides
  <2> QED BY <1>4, <2>1
<1>19. CASE RollbackStep
  BY <1>19, RollbackEffect
<1>20. CASE RollbackEnd
  <2>1. fs' = fs /\ UNCHANGED hit
    BY <1>20 DEF RollbackEnd, besides
  <2> QED BY <1>4, <2>1
<1>21. CASE UndoStep
  BY <1>21, UndoEffect
<1>22. CASE UndoEnd
  <2>1. fs' = fs /\ UNCHANGED hit
    BY <1>22 DEF UndoEnd, besides
  <2> QED BY <1>4, <2>1
<1>23. CASE Unstage
  <2>1. UNCHANGED hit
    BY <1>23 DEF Unstage, besides
  <2>2. PICK k \in mem.staging : fs' \in {Removed(Stg(k)), fs}
    BY <1>23 DEF Unstage
  <2>3. Stg(k) \in Path
    BY <1>1, <2>2, Places DEF ItemsSafe, TypeOK, Journal
  <2>4. \A r \in Path : (\A i : r # Stg(i) /\ r # Tmp(i)) => fs'[r] = fs[r]
    BY <1>1, <2>2, <2>3 DEF Removed
  <2> QED BY <1>4, <2>1, <2>4
<1>24. CASE Revalidate
  <2>1. fs' = fs /\ UNCHANGED hit
    BY <1>24 DEF Revalidate, besides, store
  <2> QED BY <1>4, <2>1
<1>25. CASE Undo
  <2>1. fs' = fs /\ UNCHANGED hit
    BY <1>25 DEF Undo, besides, Begin, store
  <2> QED BY <1>4, <2>1
<1>26. CASE Rollback
  <2>1. fs' = fs /\ UNCHANGED hit
    BY <1>26 DEF Rollback, besides, Begin, store
  <2> QED BY <1>4, <2>1
<1>27. CASE RecoverRollback
  <2>1. fs' = fs /\ UNCHANGED hit
    BY <1>27 DEF RecoverRollback, besides, Begin, store
  <2> QED BY <1>4, <2>1
<1>28. CASE Resume
  <2>1. fs' = fs /\ UNCHANGED hit
    BY <1>28 DEF Resume, besides, Begin, store
  <2> QED BY <1>4, <2>1
<1>29. CASE ResumeSkip
  <2>1. fs' = fs /\ UNCHANGED hit
    BY <1>29 DEF ResumeSkip, besides, store
  <2> QED BY <1>4, <2>1
<1>30. CASE ResumeStaged
  <2>1. UNCHANGED hit /\ at \in Parts /\ Names(durable, at)
    BY <1>30, <1>3
       DEF ResumeStaged, besides, PartPoints, RecoverySafe, Written, Names, ToResume,
           PendingIn
  <2>2. \/ fs' = Removed(Dst(at))
        \/ /\ fs' = Renamed(Stg(at), Dst(at))
           /\ pc' = "checkpoint" /\ UNCHANGED <<durable, at>>
        \/ fs' = fs
    BY <1>30 DEF ResumeStaged, Goto
  <2>3. CASE fs' = Removed(Dst(at))
    BY <1>1, <2>1, <2>3, RemovedOutput
  <2>4. CASE /\ fs' = Renamed(Stg(at), Dst(at))
             /\ pc' = "checkpoint" /\ UNCHANGED <<durable, at>>
    <3>1. \A r \in Path : r # Stg(at) /\ r # Dst(at) => fs'[r] = fs[r]
      BY <1>1, <1>2, <2>1, <2>4 DEF Renamed
    <3>2. \A k \in Parts : k # at => fs'[Dst(k)] = fs[Dst(k)]
      BY <1>2, <3>1, PlacesDiffer
    <3>3. \A i \in Items : fs'[Src(i)] = fs[Src(i)]
      BY <3>1, Places, PlacesDiffer
    <3>4. \A k \in Parts : k # at => (Holds(k)' <=> Holds(k))
      BY <3>2 DEF Holds, Exists
    <3>5. \A k \in Parts : Gone(k)' <=> Gone(k)
      BY <1>1, <2>1, <3>3 DEF Gone, Exists, Moving
    <3> QED BY <2>1, <2>4, <3>4, <3>5 DEF Changed, MayChange
  <2>5. CASE fs' = fs
    BY <1>4, <2>1, <2>5
  <2> QED BY <2>2, <2>3, <2>4, <2>5
<1>31. CASE ResumeRefused
  <2>1. fs' = fs /\ UNCHANGED hit
    BY <1>31 DEF ResumeRefused, besides, store
  <2> QED BY <1>4, <2>1
<1>32. CASE ResumeMove
  <2>1. fs' = fs /\ UNCHANGED hit
    BY <1>32 DEF ResumeMove, besides
  <2> QED BY <1>4, <2>1
<1>33. CASE Crash
  <2>1. fs' = fs /\ UNCHANGED hit
    BY <1>33 DEF Crash, besides, store
  <2> QED BY <1>4, <2>1
<1>34. CASE OutsideChange
  <2>1. PICK k \in Parts, role \in {"src", "dst"} :
          LET p == <<role, IF role = "src" THEN ItemOf(k) ELSE k>>
          IN  /\ \/ fs' = [fs EXCEPT ![p] = [id |-> Fresh, data |-> Outside]]
                 \/ fs' = Removed(p)
              /\ hit' = hit \cup {ItemOf(k)}
    BY <1>34 DEF OutsideChange
  <2> DEFINE p == <<role, IF role = "src" THEN ItemOf(k) ELSE k>>
  <2>2. (p = Src(ItemOf(k)) \/ p = Dst(k)) /\ p \in Path
    <3>1. p = Src(ItemOf(k)) \/ p = Dst(k)
      BY DEF Src, Dst
    <3> HIDE DEF p
    <3> QED BY <1>2, <3>1, Places
  <2>3. /\ \A r \in Path : r # p => fs'[r] = fs[r]
        /\ fs'[p].id = 0 \/ fs'[p].data = Outside
    <3>1. NoFile.id = 0
      BY DEF NoFile
    <3>2. fs' = [fs EXCEPT ![p] = [id |-> Fresh, data |-> Outside]] \/ fs' = Removed(p)
      BY <2>1
    <3> HIDE DEF p
    <3> QED BY <1>1, <2>2, <3>1, <3>2 DEF Removed
  <2> HIDE DEF p
  <2>4. Outside \notin Items
    BY JournalAssumption DEF Outside, Items
  <2>5. \A q \in Parts : Holds(q)' => Holds(q)
    <3> SUFFICES ASSUME NEW q \in Parts, Holds(q)' PROVE Holds(q)
      OBVIOUS
    <3>1. fs'[Dst(q)].id # 0 /\ fs'[Dst(q)].data \in Items
      BY DEF Holds, Exists
    <3>2. Dst(q) # p
      BY <2>3, <2>4, <3>1
    <3>3. fs'[Dst(q)] = fs[Dst(q)]
      BY <1>2, <2>3, <3>2
    <3> QED BY <3>1, <3>3 DEF Holds, Exists
  <2>6. \A q \in Parts : Gone(q)' => Gone(q)
    <3> SUFFICES ASSUME NEW q \in Parts, Gone(q)' PROVE Gone(q)
      OBVIOUS
    <3>1. Moving /\ q \in Items /\ q \notin hit /\ q # ItemOf(k) /\ fs'[Src(q)].id = 0
      BY <1>1, <2>1 DEF Gone, Exists, Moving
    <3>2. Src(q) # p
      BY <2>2, <3>1, PlacesDiffer
    <3>3. fs'[Src(q)] = fs[Src(q)]
      BY <2>3, <3>1, <3>2, Places
    <3> QED BY <3>1, <3>3 DEF Gone, Exists
  <2> QED BY <2>5, <2>6 DEF Changed
<1>35. CASE Hold
  <2>1. fs' = fs /\ UNCHANGED hit
    BY <1>35 DEF Hold, store
  <2> QED BY <1>4, <2>1
<1> QED BY <1>35, <1>5, <1>6, <1>7, <1>8, <1>9, <1>10, <1>11, <1>12, <1>13, <1>14,
          <1>15, <1>16, <1>17, <1>18, <1>19, <1>20, <1>21, <1>22, <1>23,
          <1>24, <1>25, <1>26, <1>27, <1>28, <1>29, <1>30, <1>31, <1>32,
          <1>33, <1>34
      DEF Next, Process, Apply, Staging, Reversal, Command, Resuming

-----------------------------------------------------------------------------
(* The journal is written ahead.                                           *)

(* An intermediate journal that drops what was never published still names *)
(* what has changed.                                                       *)
LEMMA UnpublishedUnchanged ==
  ASSUME RecoverySafe, RecoverAccepts(durable), NEW k \in Parts, Changed(k)
  PROVE  Names(WithoutUnpublished(durable), k)
<1>1. Names(durable, k) /\ k \in 1..MaxParts /\ durable \in Journal
  <2>1. ~SaysReversed(durable)
    BY DEF RecoverAccepts, NeedsRecovery, SaysReversed
  <2> QED BY <2>1, PartsOfItems DEF RecoverySafe, Written, ItemsSafe, TypeOK
<1>2. ~Unpublished(durable, k)
  <2> SUFFICES ASSUME Unpublished(durable, k) PROVE FALSE
    OBVIOUS
  <2>1. ~Exists(Dst(k)) /\ k \in Listed(durable)
    BY <1>1 DEF Unpublished, Listed, Names
  <2>2. Gone(k)
    BY <2>1 DEF Changed, Holds
  <2>3. Moving /\ ~Exists(Src(k))
    BY <2>2 DEF Gone
  <2>4. Valid(durable.outputs[k].file, Src(k))
    BY <2>1, <2>3 DEF RecoverAccepts
  <2> QED BY <2>3, <2>4 DEF Valid
<1> QED BY <1>1, <1>2 DEF WithoutUnpublished, Names

(* An output that has gone before its checkpoint is no item's any more.    *)
LEMMA LostBeforeCheckpoint ==
  ASSUME ItemsSafe, ~Exists(Dst(at)), NEW k \in Parts, Changed(k)
  PROVE  k # at
<1> SUFFICES ASSUME k = at PROVE FALSE
  OBVIOUS
<1>1. Gone(k)
  BY DEF Changed, Holds
<1> QED BY <1>1 DEF Gone, ItemsSafe, Kept

(* Only undo and rollback are given a journal.                             *)
LEMMA StaleKept ==
  ASSUME Next
  PROVE  (stale => stale') /\ (pc # "idle" => stale' = stale)
<1>1. ASSUME ~Command PROVE stale' = stale
  <2>1. CASE Apply
    BY <2>1 DEF Apply, ApplyStart, Validate, MoveIntent, Finish, ApplyFails, besides
  <2>2. CASE Staging
    BY <2>2 DEF Staging, StageIntent, Stage, StageRename, Discard, PublishIntent, Publish,
                besides
  <2>3. CASE Move \/ Checkpoint \/ ItemDone
    BY <2>3 DEF Move, Checkpoint, ItemDone, besides
  <2>4. CASE Reversal
    BY <2>4 DEF Reversal, RollbackStep, UndoStep, RollbackEnd, UndoEnd, Unstage, Revalidate,
                besides
  <2>5. CASE Resuming
    BY <2>5 DEF Resuming, ResumeSkip, ResumeStaged, ResumeRefused, ResumeMove, besides
  <2>6. CASE Crash \/ OutsideChange
    BY <2>6 DEF Crash, OutsideChange
  <2> QED BY <1>1, <2>1, <2>2, <2>3, <2>4, <2>5, <2>6 DEF Next, Process
<1>2. CASE Undo \/ Rollback
  BY <1>2 DEF Undo, Rollback
<1>3. CASE Command /\ ~Undo /\ ~Rollback
  <2>1. stale' = stale /\ pc = "idle"
    BY <1>3 DEF Command, Hold, RecoverRollback, Resume
  <2> QED BY <2>1
<1>4. CASE ~Command
  BY <1>1, <1>4
<1> QED BY <1>2, <1>3, <1>4

(* A command that is up to date stays so.                                  *)
LEMMA StaysUpToDate ==
  ASSUME Next, Running, UpToDate'
  PROVE  UpToDate \/ pc' = "idle"
<1>1. ASSUME stale' = stale, cmd' = cmd PROVE UpToDate
  BY <1>1 DEF UpToDate
<1>2. CASE Apply
  BY <1>1, <1>2 DEF Apply, ApplyStart, Validate, MoveIntent, Finish, ApplyFails, besides, Put,
                    Goto, Stop, Fail, Running
<1>3. CASE Staging
  BY <1>1, <1>3 DEF Staging, StageIntent, Stage, StageRename, Discard, PublishIntent, Publish,
                    besides, Put, Goto, Stop, Fail, FailStaged, proc
<1>4. CASE Move \/ Checkpoint \/ ItemDone
  BY <1>1, <1>4 DEF Move, MoveOne, Checkpoint, ItemDone, besides, Put, Goto, Stop, Fail, proc,
                    AfterCheckpoint
<1>5. CASE RollbackStep \/ UndoStep
  BY <1>1, <1>5 DEF RollbackStep, UndoStep, RollbackNext, UndoNext, Reverse, MoveOne, Stop,
                    besides, proc
<1>6. CASE RollbackEnd \/ UndoEnd \/ Unstage \/ Revalidate
  BY <1>1, <1>6 DEF RollbackEnd, UndoEnd, Unstage, Revalidate, Put, Goto, Stop, besides
<1>7. CASE Command
  BY <1>7 DEF Command, Hold, Undo, Rollback, RecoverRollback, Resume, Running
<1>8. CASE Resuming
  BY <1>1, <1>8 DEF Resuming, ResumeSkip, ResumeStaged, ResumeRefused, ResumeMove, ToResume,
                    AfterCheckpoint, Put, Goto, Stop, besides
<1>9. CASE Crash
  BY <1>9 DEF Crash, Stop
<1>10. CASE OutsideChange
  <2>1. stale' = stale /\ cmd' = cmd
    BY <1>10 DEF OutsideChange, proc
  <2> QED BY <1>1, <2>1
<1> QED BY <1>2, <1>3, <1>4, <1>5, <1>6, <1>7, <1>8, <1>9, <1>10
       DEF Next, Process, Reversal

(* A journal undo or rollback accepts does not say reversed, and when it   *)
(* is up to date it is the one on disk.                                    *)
LEMMA Given ==
  ASSUME TypeOK, Undo \/ Rollback
  PROVE  /\ pc = "idle" /\ mem' \in Journal /\ ~SaysReversed(mem')
         /\ UNCHANGED <<op, fs, durable, faults, held, hit>>
         /\ stale' = (stale \/ mem' # durable)
         /\ \/ pc' = "undo" /\ cmd' = "undo" /\ at' = 1 /\ UndoAccepts(mem')
            \/ pc' = "rollback" /\ cmd' = "rollback" /\ at' = NumParts /\ RollbackAccepts(mem')
         /\ UpToDate' => mem' = durable /\ ~stale
<1>1. CASE Undo
  <2>1. PICK j \in Piped : UndoAccepts(j) /\ Begin("undo", j, "undo", 1)
                           /\ stale' = (stale \/ j # durable)
    BY <1>1 DEF Undo
  <2>2. j \in Journal /\ mem' = j
    BY <2>1, PipedTyped DEF Begin
  <2> QED BY <1>1, <2>1, <2>2 DEF Undo, Begin, UndoAccepts, SaysReversed, UpToDate, store
<1>2. CASE Rollback
  <2>1. PICK j \in Piped : RollbackAccepts(j) /\ Begin("rollback", j, "rollback", NumParts)
                           /\ stale' = (stale \/ j # durable)
    BY <1>2 DEF Rollback
  <2>2. j \in Journal /\ mem' = j
    BY <2>1, PipedTyped DEF Begin
  <2> QED BY <1>2, <2>1, <2>2
             DEF Rollback, Begin, RollbackAccepts, NeedsRecovery, SaysReversed, UpToDate, store
<1> QED BY <1>1, <1>2

(* What a step must leave for the journal to be written ahead again.       *)
StillNamed ==
  /\ ~SaysReversed(durable') => \A k \in Parts : Changed(k) => Names(durable', k)
  /\ Running' /\ UpToDate' => \A k \in Parts : Changed(k) /\ Changed(k)' =>
                   Names(mem', k) \/ (pc' = "checkpoint" /\ k = at')
  /\ pc' \in {"validate", "intent"} => durable' = mem'
  /\ pc' \in {"publish", "move"} => Names(durable', at') /\ Names(mem', at')

LEMMA WrittenBy ==
  ASSUME RecoverySafe, Next, StillNamed
  PROVE  Written'
<1>1. Parts' = Parts
  BY PlanKept
<1>2. \A k \in Parts : Changed(k)' => Changed(k) \/ MayChange(k)
  BY Effects
<1>3. ASSUME ~SaysReversed(durable'), NEW k \in Parts, Changed(k)' PROVE Names(durable', k)
  <2>1. CASE Changed(k)
    BY <1>3, <2>1 DEF StillNamed
  <2>2. CASE MayChange(k)
    BY <2>2 DEF MayChange, Names
  <2> QED BY <1>2, <1>3, <2>1, <2>2
<1>4. ASSUME NEW k \in Parts, Changed(k)', Running', UpToDate'
      PROVE  Names(mem', k) \/ (pc' = "checkpoint" /\ k = at')
  <2>1. CASE Changed(k)
    BY <1>4, <2>1 DEF StillNamed
  <2>2. CASE MayChange(k)
    BY <2>2 DEF MayChange
  <2> QED BY <1>2, <1>4, <2>1, <2>2
<1> QED BY <1>1, <1>3, <1>4 DEF Written, StillNamed, Names, SaysReversed

(* ... and every action does.                                              *)
LEMMA WrittenStep ==
  ASSUME RecoverySafe, Next
  PROVE  Written'
<1>1. op' = op /\ Parts' = Parts /\ ItemsSafe /\ Control /\ op \in Plan
  BY PlanKept DEF RecoverySafe, ItemsSafe, TypeOK
<1>2. \A k \in Parts : k \in 1..MaxParts
  BY <1>1, PartsOfItems
<1>3. pc \in PartPoints => at \in Parts /\ at \in 1..MaxParts
  BY <1>1, <1>2 DEF Control
<1>4. durable \in Journal /\ mem \in Journal
  BY <1>1 DEF ItemsSafe, TypeOK
<1>5. \A k \in Parts : Changed(k)' => Changed(k) \/ MayChange(k)
  BY Effects
<1>6. /\ Written /\ Ahead
      /\ Running /\ UpToDate' => UpToDate \/ pc' = "idle"
      /\ cmd = "apply" => UpToDate
      /\ pc \in PartPoints \cup {"finish", "validate", "fail"} => UpToDate
  BY StaysUpToDate DEF RecoverySafe, Ahead, UpToDate
<1>7. pc \in PartPoints => \A file : \A p \in 1..MaxParts :
        /\ Names(WithStaging(mem, at), p) <=> Names(mem, p)
        /\ Names(WithoutStaging(mem, at), p) <=> Names(mem, p)
        /\ Names(WithPending(mem, at, file), p) <=> Names(mem, p) \/ p = at
        /\ Names(WithoutOutput(mem, at), p) <=> Names(mem, p) /\ p # at
        /\ Names(WithDone(mem, at, file), p) <=> Names(mem, p) \/ p = at
        /\ Names(Published(mem, at), p) <=> Names(mem, p) /\ p # at
  BY <1>3, <1>4, Entries
<1>8. SUFFICES StillNamed
  BY WrittenBy
<1>9. CASE ApplyStart
  BY <1>9, <1>6 DEF ApplyStart, Put, Goto, Stop, Running, Ahead, StillNamed
<1>10. CASE Validate
  BY <1>10, <1>6 DEF Validate, Goto, Fail, Stop, store, Running, Written,
       StillNamed, Names
<1>11. CASE MoveIntent
  BY <1>11, <1>1, <1>2, <1>3, <1>4, <1>6, <1>7 DEF MoveIntent, Put, Goto,
       Stop, Fail, FailStaged, Running, Written, StillNamed, PartPoints,
       store, Names, AfterCheckpoint, Loop
<1>12. CASE Finish
  <2>1. \A p \in Parts : p \in 1..MaxParts /\ mem \in Journal
    BY <1>2, <1>4
  <2> QED BY <1>12, <1>6, <2>1
             DEF Finish, Put, Goto, Stop, Fail, Loop, Running, Written, StillNamed,
                 Names, Journal
<1>13. CASE ApplyFails
  <2>1. \A p \in Parts : p \in 1..MaxParts /\ mem \in Journal
    BY <1>2, <1>4
  <2> QED BY <1>13, <1>6, <2>1
             DEF ApplyFails, Put, Goto, Stop, Fail, Loop, Running, Written, StillNamed,
                 Names, Journal
<1>14. CASE StageIntent
  BY <1>14, <1>1, <1>2, <1>3, <1>4, <1>6, <1>7 DEF StageIntent, Put, Goto,
       Stop, Fail, FailStaged, Running, Written, StillNamed, PartPoints,
       store, Names, AfterCheckpoint, Loop
<1>15. CASE Stage
  BY <1>15, <1>1, <1>2, <1>3, <1>4, <1>6, <1>7 DEF Stage, Put, Goto, Stop,
       Fail, FailStaged, Running, Written, StillNamed, PartPoints, store,
       Names, AfterCheckpoint, Loop
<1>16. CASE StageRename
  BY <1>16, <1>1, <1>2, <1>3, <1>4, <1>6, <1>7 DEF StageRename, Put, Goto,
       Stop, Fail, FailStaged, Running, Written, StillNamed, PartPoints,
       store, Names, AfterCheckpoint, Loop
<1>17. CASE Discard
  BY <1>17, <1>1, <1>2, <1>3, <1>4, <1>6, <1>7 DEF Discard, Put, Goto, Stop,
       Fail, FailStaged, Running, Written, StillNamed, PartPoints, store,
       Names, AfterCheckpoint, Loop
<1>18. CASE PublishIntent
  BY <1>18, <1>1, <1>2, <1>3, <1>4, <1>6, <1>7 DEF PublishIntent, Put, Goto,
       Stop, Fail, FailStaged, Running, Written, StillNamed, PartPoints,
       store, Names, AfterCheckpoint, Loop
<1>19. CASE Publish
  <2>1. /\ at \in Parts /\ pc = "publish" /\ durable' = durable
        /\ \/ mem' = mem /\ pc' = "publish" /\ at' = at
           \/ mem' = Published(mem, at) /\ pc' = "checkpoint" /\ at' = at
           \/ pc' = "idle"
           \/ mem' = Published(mem, at) /\ pc' = "discard"
    BY <1>19, <1>3 DEF Publish, FailStaged, Stop, Goto, PartPoints, proc
  <2>2. \A k \in Parts : Changed(k) => k # at
    BY <1>6, <2>1 DEF Ahead, StagedPoints
  <2> QED BY <1>2, <1>6, <1>7, <2>1, <2>2
             DEF Written, StillNamed, Running, PartPoints, Names
<1>20. CASE Move
  <2>1. /\ at \in Parts /\ pc = "move" /\ durable' = durable
        /\ \/ mem' = mem /\ pc' = "move" /\ at' = at
           \/ mem' = WithoutOutput(mem, at) /\ pc' = "checkpoint" /\ at' = at
           \/ pc' = "idle"
           \/ mem' = WithoutOutput(mem, at) /\ pc' = "rollback" /\ ~half'
    BY <1>20, <1>3 DEF Move, MoveOne, Fail, Stop, PartPoints, proc
  <2>2. pc' # "checkpoint" /\ ~half' => \A k \in Parts : Changed(k)' => k # at
    BY <1>20, ForwardEffect
  <2> QED BY <1>2, <1>6, <1>7, <2>1, <2>2
             DEF Written, StillNamed, Running, PartPoints, Names
<1>21. CASE Checkpoint
  <2>1. /\ at \in Parts /\ pc = "checkpoint"
        /\ \/ /\ durable' = WithDone(mem, at, fs[Dst(at)]) /\ mem' = durable'
              /\ pc' \in {"item_done", "intent", "finish"}
           \/ /\ durable' = durable
              /\ \/ pc' = "idle"
                 \/ pc' \in {"rollback", "fail"} /\ mem' = WithDone(mem, at, fs[Dst(at)])
           \/ /\ durable' = durable /\ ~Exists(Dst(at))
              /\ pc' = "idle" \/ (pc' \in {"rollback", "fail"} /\ mem' = mem)
    BY <1>21, <1>3
       DEF Checkpoint, Put, Fail, Stop, AfterCheckpoint, Goto, Loop, PartPoints
  <2>2. ~Exists(Dst(at)) => \A k \in Parts : Changed(k) => k # at
    BY <1>1, LostBeforeCheckpoint
  <2> QED BY <1>2, <1>6, <1>7, <2>1, <2>2
             DEF Written, StillNamed, Running, PartPoints, Names
<1>22. CASE ItemDone
  <2>1. \A p \in Parts : p \in 1..MaxParts /\ mem \in Journal
    BY <1>2, <1>4
  <2> QED BY <1>22, <1>6, <2>1
             DEF ItemDone, Put, Goto, Stop, Fail, Loop, Running, Written, StillNamed,
                 Names, Journal, PartPoints
<1>23. CASE RollbackStep
  <2>1. /\ pc \in {"rollback", "undo"} /\ durable' = durable
        /\ (mem' = mem /\ pc' = pc) \/ pc' = "idle"
    BY <1>23 DEF RollbackStep, RollbackNext, Reverse, MoveOne, Stop, proc
  <2> QED BY <1>6, <2>1 DEF Written, StillNamed, Running, Names
<1>24. CASE RollbackEnd
  <2>1. \A p \in Parts : p \in 1..MaxParts /\ mem \in Journal
    BY <1>2, <1>4
  <2> QED BY <1>24, <1>6, <2>1
             DEF RollbackEnd, Put, Goto, Stop, Fail, Loop, Running, Written,
                 StillNamed, Names, Journal, SaysReversed
<1>25. CASE UndoStep
  <2>1. /\ pc \in {"rollback", "undo"} /\ durable' = durable
        /\ (mem' = mem /\ pc' = pc) \/ pc' = "idle"
    BY <1>25 DEF UndoStep, UndoNext, Reverse, MoveOne, Stop, proc
  <2> QED BY <1>6, <2>1 DEF Written, StillNamed, Running, Names
<1>26. CASE UndoEnd
  <2>1. \A p \in Parts : p \in 1..MaxParts /\ mem \in Journal
    BY <1>2, <1>4
  <2> QED BY <1>26, <1>6, <2>1
             DEF UndoEnd, Put, Goto, Stop, Fail, Loop, Running, Written, StillNamed,
                 Names, Journal, SaysReversed
<1>27. CASE Unstage
  <2>1. PICK k \in mem.staging :
          /\ pc = "unstage" /\ durable' = durable
          /\ (mem' = WithoutStaging(mem, k) /\ pc' = pc) \/ pc' = "idle"
    BY <1>27 DEF Unstage, Stop
  <2>2. k \in 1..MaxParts
    BY <1>4, <2>1 DEF Journal
  <2>3. \A p \in Parts : Names(WithoutStaging(mem, k), p) <=> Names(mem, p)
    BY <1>2, <1>4, <2>2, Entries
  <2> QED BY <1>6, <2>1, <2>3 DEF Written, StillNamed, Running, Names
<1>28. CASE Revalidate
  BY <1>28, <1>1, <1>2, <1>3, <1>4, <1>6, <1>7 DEF Revalidate, Put, Goto,
       Stop, Fail, FailStaged, Running, Written, StillNamed, PartPoints,
       store, Names, AfterCheckpoint, Loop
<1>29. CASE Undo
  BY <1>29, <1>1, <1>6, Given DEF ItemsSafe, Written, StillNamed, Names
<1>30. CASE Rollback
  BY <1>30, <1>1, <1>6, Given DEF ItemsSafe, Written, StillNamed, Names
<1>31. CASE RecoverRollback
  <2>1. /\ RecoverAccepts(durable) /\ durable' = durable
        /\ mem' = WithoutUnpublished(durable) /\ pc' = "unstage"
    BY <1>31 DEF RecoverRollback, Begin, store
  <2>2. \A k \in Parts : Changed(k) => Names(mem', k)
    BY <2>1, UnpublishedUnchanged DEF Names
  <2> QED BY <1>6, <2>1, <2>2 DEF Written, StillNamed, Names
<1>32. CASE Resume
  <2>1. ~SaysReversed(durable)
    BY <1>32 DEF Resume, ResumeAccepts, NeedsRecovery, SaysReversed
  <2> QED BY <1>32, <1>6, <2>1 DEF Resume, Begin, store, Running, Written, StillNamed, Names
<1>33. CASE ResumeSkip
  BY <1>33, <1>6 DEF ResumeSkip, AfterCheckpoint, Loop, Goto, store, Running,
       Written, StillNamed, Names
<1>34. CASE ResumeStaged
  <2>1. /\ at \in Parts /\ pc = "intent" /\ durable' = durable
        /\ \/ /\ pc' = "checkpoint" /\ at' = at
              /\ \A k \in Parts : k # at => mem'.outputs[k] = mem.outputs[k]
           \/ pc' = "idle"
    <3>1. /\ at \in Parts /\ pc = "intent" /\ durable' = durable
          /\ \/ /\ pc' = "checkpoint" /\ at' = at
                /\ \/ mem' = Published(mem, at)
                   \/ mem' = [WithoutOutput(mem, at) EXCEPT
                                !.staging = {k \in mem.staging : Exists(Stg(k))}]
             \/ pc' = "idle"
      BY <1>34, <1>3 DEF ResumeStaged, ToResume, Goto, Stop, PartPoints
    <3> QED BY <1>2, <1>4, <3>1 DEF Published, WithoutStaging, WithoutOutput, Journal
  <2> QED BY <1>6, <2>1 DEF Written, StillNamed, Running, Names
<1>35. CASE ResumeRefused
  BY <1>35, <1>1, <1>2, <1>3, <1>4, <1>6, <1>7 DEF ResumeRefused, Put, Goto,
       Stop, Fail, FailStaged, Running, Written, StillNamed, PartPoints,
       store, Names, AfterCheckpoint, Loop
<1>36. CASE ResumeMove
  <2>1. /\ at \in Parts /\ pc = "intent" /\ mem = durable
        /\ \/ mem' = mem /\ durable' = mem /\ PendingIn(mem, at) /\ pc' = "move" /\ at' = at
           \/ /\ mem' = WithPending(mem, at, PlannedSource(at)) /\ durable' = mem'
              /\ pc' = "move" /\ at' = at
           \/ /\ mem' = WithoutOutput(mem, at) /\ durable' = durable
              /\ pc' = "checkpoint" /\ at' = at
           \/ pc' = "idle" /\ durable' = durable
    <3> DEFINE j == WithPending(mem, at, PlannedSource(at))
    <3>1. at \in Parts /\ pc = "intent" /\ mem = durable
      BY <1>36, <1>3, <1>6 DEF ResumeMove, ToResume, PartPoints, Written
    <3>2. CASE PendingIn(mem, at)
      BY <1>36, <3>1, <3>2 DEF ResumeMove, Put, Goto, Stop
    <3>3. CASE ~PendingIn(mem, at)
      <4>1. j # mem
        <5>1. at \in 1..MaxParts /\ mem \in Journal
          BY <1>2, <1>4, <3>1
        <5>2. j.outputs[at].role = "pending"
          BY <5>1 DEF WithPending, Journal
        <5> HIDE DEF j
        <5> QED BY <3>3, <5>2 DEF PendingIn
      <4> QED BY <1>36, <3>1, <3>3, <4>1 DEF ResumeMove, Put, Goto, Stop
    <3> QED BY <3>2, <3>3
  <2>2. PendingIn(mem, at) => Names(mem, at)
    BY DEF PendingIn, Names
  <2> QED BY <1>2, <1>6, <1>7, <2>1, <2>2
             DEF Written, StillNamed, Running, PartPoints, Names
<1>37. CASE Crash
  BY <1>37, <1>6 DEF Crash, Stop, store, Running, Written, StillNamed
<1>38. CASE OutsideChange
  <2>1. UNCHANGED <<durable, proc>>
    BY <1>38 DEF OutsideChange
  <2> QED BY <1>6, <2>1 DEF proc, Written, StillNamed, Running, Names
<1>39. CASE Hold
  BY <1>39, <1>6 DEF Hold, store, proc, Running, Written, StillNamed
<1> QED BY <1>39, <1>9, <1>10, <1>11, <1>12, <1>13, <1>14, <1>15, <1>16, <1>17,
          <1>18, <1>19, <1>20, <1>21, <1>22, <1>23, <1>24, <1>25, <1>26,
          <1>27, <1>28, <1>29, <1>30, <1>31, <1>32, <1>33, <1>34, <1>35,
          <1>36, <1>37, <1>38
      DEF Next, Process, Apply, Staging, Reversal, Command, Resuming

-----------------------------------------------------------------------------
(* Nothing is changed before its turn.                                     *)

(* What a step must leave for what is ahead to be unchanged.               *)
StillAhead ==
  /\ pc' \in PartPoints \cup {"finish"} => cmd' \in {"apply", "resume"}
  /\ pc' \in {"planned", "validate", "fail"} => cmd' = "apply"
  /\ pc' \in {"planned", "validate"} => \A k \in Parts : ~Changed(k)
  /\ cmd' = "apply" /\ pc' \in PartPoints => \A k \in Parts : Changed(k) => k <= at'
  /\ cmd' = "apply" /\ pc' = "intent" => \A k \in Parts : Changed(k) => k < at'
  /\ pc' \in StagedPoints \ {"discard"} => \A k \in Parts : Changed(k) => k # at'
  /\ pc' = "move" /\ ~half' => \A k \in Parts : Changed(k)' => k # at'

LEMMA AheadBy ==
  ASSUME RecoverySafe, Next, StillAhead
  PROVE  Ahead'
<1>1. Parts' = Parts /\ at \in Int
  BY PlanKept DEF RecoverySafe, ItemsSafe, TypeOK
<1>2. \A k \in Parts : Changed(k)' => Changed(k) \/ MayChange(k)
  BY Effects
<1>3. \A k \in Parts : MayChange(k) =>
        k = at /\ at' = at /\ (pc' = "checkpoint" \/ (pc' = "move" /\ half'))
  BY DEF MayChange
<1>4. ASSUME NEW k \in Parts, Changed(k)'
      PROVE  /\ pc' \notin {"planned", "validate"}
             /\ cmd' = "apply" /\ pc' \in PartPoints => k <= at'
             /\ cmd' = "apply" /\ pc' = "intent" => k < at'
             /\ pc' \in StagedPoints \ {"discard"} => k # at'
             /\ pc' = "move" /\ ~half' => k # at'
  <2>1. CASE Changed(k)
    BY <1>4, <2>1 DEF StillAhead
  <2>2. CASE MayChange(k)
    BY <1>1, <1>3, <2>2 DEF StagedPoints
  <2> QED BY <1>2, <1>4, <2>1, <2>2
<1> QED BY <1>1, <1>4 DEF Ahead, StillAhead

(* ... and every action does.                                              *)
LEMMA AheadStep ==
  ASSUME RecoverySafe, Next
  PROVE  Ahead'
<1>1. op' = op /\ Parts' = Parts /\ ItemsSafe /\ Control /\ op \in Plan
  BY PlanKept DEF RecoverySafe, ItemsSafe, TypeOK
<1>2. \A k \in Parts : k \in 1..MaxParts
  BY <1>1, PartsOfItems
<1>3. pc \in PartPoints => at \in Parts /\ at \in 1..MaxParts
  BY <1>1, <1>2 DEF Control
<1>4. at \in Int /\ \A k \in Parts : k \in Int
  BY <1>1 DEF ItemsSafe, TypeOK, Parts
<1>5. Written /\ Ahead
  BY DEF RecoverySafe
<1>6. SUFFICES StillAhead
  BY AheadBy
<1>7. CASE ApplyStart
  BY <1>7, <1>3, <1>4, <1>5 DEF ApplyStart, Put, Goto, Stop, Fail, FailStaged,
       Ahead, StillAhead, PartPoints, StagedPoints, store, AfterCheckpoint,
       Loop, proc
<1>8. CASE Validate
  BY <1>8, <1>3, <1>4, <1>5 DEF Validate, Put, Goto, Stop, Fail, FailStaged,
       Ahead, StillAhead, PartPoints, StagedPoints, store, AfterCheckpoint,
       Loop, proc
<1>9. CASE MoveIntent
  <2>1. /\ at \in Parts /\ pc = "intent" /\ cmd = "apply" /\ (pc' = "idle" \/ cmd' = cmd)
        /\ (pc' = "move" /\ at' = at) \/ pc' \in {"idle", "rollback", "fail"}
        /\ UNCHANGED <<op, fs, hit>>
    BY <1>9, <1>3 DEF MoveIntent, Put, Goto, Fail, Stop, PartPoints, besides
  <2>2. \A k \in Parts : Changed(k)' => Changed(k)
    BY <2>1 DEF Changed, Holds, Gone, Exists, Moving
  <2> QED BY <1>4, <1>5, <2>1, <2>2 DEF Ahead, StillAhead, PartPoints, StagedPoints
<1>10. CASE Finish
  BY <1>10, <1>3, <1>4, <1>5 DEF Finish, Put, Goto, Stop, Fail, FailStaged,
       Ahead, StillAhead, PartPoints, StagedPoints, store, AfterCheckpoint,
       Loop, proc
<1>11. CASE ApplyFails
  BY <1>11, <1>3, <1>4, <1>5 DEF ApplyFails, Put, Goto, Stop, Fail,
       FailStaged, Ahead, StillAhead, PartPoints, StagedPoints, store,
       AfterCheckpoint, Loop, proc
<1>12. CASE StageIntent
  <2>1. /\ at \in Parts /\ pc = "intent" /\ (pc' = "idle" \/ cmd' = cmd)
        /\ (pc' = "stage" /\ at' = at) \/ pc' \in {"idle", "rollback"}
    BY <1>12, <1>3 DEF StageIntent, Put, Goto, Fail, Stop, PartPoints
  <2>2. cmd # "apply" => pc' = "idle" \/ ~Names(mem, at)
    <3>1. cmd = "resume" => mem.outputs[at].role # "done" /\ ~PendingIn(mem, at)
      BY <1>12 DEF StageIntent, MayRebuild
    <3>2. cmd = "resume" => ~Names(mem, at)
      BY <2>1, <1>2, <3>1, <1>1 DEF PendingIn, Names, ItemsSafe, TypeOK, Journal, Output
    <3>3. cmd \in {"apply", "resume"}
      BY <1>5, <2>1 DEF Ahead, PartPoints
    <3> QED BY <3>2, <3>3
  <2>3. cmd # "apply" /\ pc' # "idle" => \A k \in Parts : Changed(k) => k # at
    BY <1>5, <2>1, <2>2 DEF Written, Running, Ahead, UpToDate, PartPoints
  <2> QED BY <1>4, <1>5, <2>1, <2>3 DEF Ahead, StillAhead, PartPoints, StagedPoints
<1>13. CASE Stage
  BY <1>13, <1>3, <1>4, <1>5 DEF Stage, Put, Goto, Stop, Fail, FailStaged,
       Ahead, StillAhead, PartPoints, StagedPoints, store, AfterCheckpoint,
       Loop, proc
<1>14. CASE StageRename
  BY <1>14, <1>3, <1>4, <1>5 DEF StageRename, Put, Goto, Stop, Fail,
       FailStaged, Ahead, StillAhead, PartPoints, StagedPoints, store,
       AfterCheckpoint, Loop, proc
<1>15. CASE Discard
  BY <1>15, <1>3, <1>4, <1>5 DEF Discard, Put, Goto, Stop, Fail, FailStaged,
       Ahead, StillAhead, PartPoints, StagedPoints, store, AfterCheckpoint,
       Loop, proc
<1>16. CASE PublishIntent
  BY <1>16, <1>3, <1>4, <1>5 DEF PublishIntent, Put, Goto, Stop, Fail,
       FailStaged, Ahead, StillAhead, PartPoints, StagedPoints, store,
       AfterCheckpoint, Loop, proc
<1>17. CASE Publish
  BY <1>17, <1>3, <1>4, <1>5 DEF Publish, Put, Goto, Stop, Fail, FailStaged,
       Ahead, StillAhead, PartPoints, StagedPoints, store, AfterCheckpoint,
       Loop, proc
<1>18. CASE Move
  <2>1. /\ at \in Parts /\ pc = "move" /\ (pc' = "idle" \/ cmd' = cmd)
        /\ (pc' \in {"move", "checkpoint"} /\ at' = at) \/ pc' \in {"idle", "rollback"}
    BY <1>18, <1>3 DEF Move, MoveOne, Fail, Stop, PartPoints, proc
  <2>2. pc' # "checkpoint" /\ ~half' => \A k \in Parts : Changed(k)' => k # at
    BY <1>18, ForwardEffect
  <2> QED BY <1>5, <2>1, <2>2 DEF Ahead, StillAhead, PartPoints, StagedPoints
<1>19. CASE Checkpoint
  BY <1>19, <1>3, <1>4, <1>5 DEF Checkpoint, Put, Goto, Stop, Fail,
       FailStaged, Ahead, StillAhead, PartPoints, StagedPoints, store,
       AfterCheckpoint, Loop, proc
<1>20. CASE ItemDone
  BY <1>20, <1>3, <1>4, <1>5 DEF ItemDone, Put, Goto, Stop, Fail, FailStaged,
       Ahead, StillAhead, PartPoints, StagedPoints, store, AfterCheckpoint,
       Loop, proc
<1>21. CASE RollbackStep
  <2>1. pc' \in {"rollback", "undo", "idle"}
    BY <1>21 DEF RollbackStep, RollbackNext, Reverse, MoveOne, Stop, proc
  <2> QED BY <2>1 DEF StillAhead, PartPoints, StagedPoints
<1>22. CASE RollbackEnd
  BY <1>22, <1>3, <1>4, <1>5 DEF RollbackEnd, Put, Goto, Stop, Fail,
       FailStaged, Ahead, StillAhead, PartPoints, StagedPoints, store,
       AfterCheckpoint, Loop, proc
<1>23. CASE UndoStep
  <2>1. pc' \in {"rollback", "undo", "idle"}
    BY <1>23 DEF UndoStep, UndoNext, Reverse, MoveOne, Stop, proc
  <2> QED BY <2>1 DEF StillAhead, PartPoints, StagedPoints
<1>24. CASE UndoEnd
  BY <1>24, <1>3, <1>4, <1>5 DEF UndoEnd, Put, Goto, Stop, Fail, FailStaged,
       Ahead, StillAhead, PartPoints, StagedPoints, store, AfterCheckpoint,
       Loop, proc
<1>25. CASE Unstage
  <2>1. pc' \in {"unstage", "idle"}
    BY <1>25 DEF Unstage, Stop
  <2> QED BY <2>1 DEF StillAhead, PartPoints, StagedPoints
<1>26. CASE Revalidate
  BY <1>26, <1>3, <1>4, <1>5 DEF Revalidate, Put, Goto, Stop, Fail,
       FailStaged, Ahead, StillAhead, PartPoints, StagedPoints, store,
       AfterCheckpoint, Loop, proc
<1>27. CASE Undo
  BY <1>27 DEF Undo, Begin, StillAhead, PartPoints, StagedPoints
<1>28. CASE Rollback
  BY <1>28 DEF Rollback, Begin, StillAhead, PartPoints, StagedPoints
<1>29. CASE RecoverRollback
  BY <1>29 DEF RecoverRollback, Begin, StillAhead, PartPoints, StagedPoints
<1>30. CASE Resume
  BY <1>30 DEF Resume, Begin, StillAhead, PartPoints, StagedPoints
<1>31. CASE ResumeSkip
  BY <1>31, <1>3, <1>4, <1>5 DEF ResumeSkip, Put, Goto, Stop, Fail,
       FailStaged, Ahead, StillAhead, PartPoints, StagedPoints, store,
       AfterCheckpoint, Loop, proc
<1>32. CASE ResumeStaged
  <2>1. pc' \in {"checkpoint", "idle"} /\ cmd = "resume" /\ (pc' = "idle" \/ cmd' = cmd)
    BY <1>32 DEF ResumeStaged, ToResume, Goto, Stop
  <2> QED BY <2>1 DEF StillAhead, PartPoints, StagedPoints
<1>33. CASE ResumeRefused
  BY <1>33, <1>3, <1>4, <1>5 DEF ResumeRefused, Put, Goto, Stop, Fail,
       FailStaged, Ahead, StillAhead, PartPoints, StagedPoints, store,
       AfterCheckpoint, Loop, proc
<1>34. CASE ResumeMove
  <2>1. /\ at \in Parts /\ pc = "intent" /\ cmd = "resume" /\ (pc' = "idle" \/ cmd' = cmd)
        /\ \/ /\ pc' = "move" /\ at' = at
              /\ Exists(Src(at)) /\ ~Exists(Dst(at)) /\ UNCHANGED <<op, fs, hit>>
           \/ pc' \in {"checkpoint", "idle"}
    BY <1>34, <1>3 DEF ResumeMove, ToResume, Put, Goto, Stop, PartPoints, Valid, besides
  <2>2. pc' = "move" => \A k \in Parts : Changed(k)' => k # at'
    BY <2>1 DEF Changed, Holds, Gone, Exists
  <2> QED BY <2>1, <2>2 DEF StillAhead, PartPoints, StagedPoints
<1>35. CASE Crash
  BY <1>35, <1>3, <1>4, <1>5 DEF Crash, Put, Goto, Stop, Fail, FailStaged,
       Ahead, StillAhead, PartPoints, StagedPoints, store, AfterCheckpoint,
       Loop, proc
<1>36. CASE OutsideChange
  <2>1. UNCHANGED proc
    BY <1>36 DEF OutsideChange
  <2>2. pc' = "move" /\ ~half' => \A k \in Parts : Changed(k)' => Changed(k)
    <3>1. \A k \in Parts : MayChange(k) => pc' = "checkpoint" \/ (pc' = "move" /\ half')
      BY DEF MayChange
    <3> QED BY <3>1, Effects
  <2> QED BY <1>5, <2>1, <2>2 DEF proc, Ahead, StillAhead
<1>37. CASE Hold
  BY <1>37 DEF Hold, proc, StillAhead, PartPoints, StagedPoints
<1> QED BY <1>37, <1>7, <1>8, <1>9, <1>10, <1>11, <1>12, <1>13, <1>14, <1>15, <1>16,
          <1>17, <1>18, <1>19, <1>20, <1>21, <1>22, <1>23, <1>24, <1>25,
          <1>26, <1>27, <1>28, <1>29, <1>30, <1>31, <1>32, <1>33, <1>34,
          <1>35, <1>36
      DEF Next, Process, Apply, Staging, Reversal, Command, Resuming

-----------------------------------------------------------------------------
(* A journal that says reversed tells the truth.                           *)

(* What a step must leave for a reversal to be as far as it says.          *)
StillReversed ==
  /\ pc' = "rollback" /\ complete' /\ mem'.undo_safe =>
       \A k \in Parts : Changed(k) /\ Changed(k)' /\ Names(mem', k) => k <= at'
  /\ pc' = "undo" =>
       \A k \in Parts : Changed(k) /\ Changed(k)' /\ Names(mem', k) => k >= at'
  /\ pc' = "undo" => cmd' = "undo"
  /\ SaysReversed(durable') =>
       /\ \/ pc' \in {"idle", "fail"}
          \/ stale' /\ pc' \in {"rollback", "undo"} /\ cmd' \in {"rollback", "undo"}
       /\ \A k \in Parts : Names(durable', k) \/ ~stale' => ~Changed(k)
  /\ SaysReversed(mem') => pc' = "fail" /\ \A k \in Parts : ~Changed(k)

LEMMA ReversedBy ==
  ASSUME RecoverySafe, Next, StillReversed
  PROVE  Reversed'
<1>1. Parts' = Parts
  BY PlanKept
<1>2. \A k \in Parts : Changed(k)' => Changed(k) \/ MayChange(k)
  BY Effects
<1>3. pc' \in {"rollback", "undo", "idle", "fail"} =>
        \A k \in Parts : Changed(k)' => Changed(k)
  BY <1>2 DEF MayChange
<1> QED BY <1>1, <1>3 DEF Reversed, StillReversed, SaysReversed, Names

(* ... and every action does.                                              *)
LEMMA ReversedStep ==
  ASSUME RecoverySafe, Next
  PROVE  Reversed'
<1>1. op' = op /\ Parts' = Parts /\ ItemsSafe /\ Control /\ op \in Plan
  BY PlanKept DEF RecoverySafe, ItemsSafe, TypeOK
<1>2. \A k \in Parts : k \in 1..MaxParts
  BY <1>1, PartsOfItems
<1>3. pc \in PartPoints => at \in 1..MaxParts
  BY <1>1, <1>2 DEF Control
<1>4. /\ at \in Int /\ NumParts \in Int
      /\ \A k \in Parts : k \in Int /\ 1 <= k /\ k <= NumParts
  BY <1>1, JournalAssumption DEF ItemsSafe, TypeOK, Parts, NumParts
<1>5. durable \in Journal /\ mem \in Journal
  BY <1>1 DEF ItemsSafe, TypeOK
<1>6. Reversed /\ Written
  BY DEF RecoverySafe
<1>7. pc \in PartPoints => \A file :
        /\ WithStaging(mem, at).status = mem.status
        /\ WithoutStaging(mem, at).status = mem.status
        /\ WithPending(mem, at, file).status = mem.status
        /\ WithoutOutput(mem, at).status = mem.status
        /\ WithDone(mem, at, file).status = mem.status
        /\ Published(mem, at).status = mem.status
  BY <1>3, <1>5, Entries
<1>8. ~SaysReversed(NoJournal) /\ (pc # "idle" => stale' = stale)
  BY StaleKept DEF SaysReversed, NoJournal
<1>9. SUFFICES StillReversed
  BY ReversedBy
<1>10. CASE ApplyStart
  <2>1. /\ pc = "planned"
        /\ durable' = durable \/ durable'.status = "in_progress"
        /\ (pc' = "validate" /\ mem'.status = "in_progress") \/ (pc' = "idle" /\ mem' = NoJournal)
    BY <1>10 DEF ApplyStart, Put, Goto, Stop, NoJournal
  <2> QED BY <1>6, <1>8, <2>1 DEF Reversed, StillReversed, SaysReversed
<1>11. CASE Validate
  BY <1>11, <1>3, <1>4, <1>6, <1>7, <1>8 DEF Validate, Put, Goto, Stop, Fail,
       FailStaged, Reversed, StillReversed, SaysReversed, PartPoints, store,
       AfterCheckpoint, Loop, proc
<1>12. CASE MoveIntent
  <2>1. /\ pc \in PartPoints \ {"rollback", "undo", "fail", "idle"}
        /\ durable' \in {durable, WithPending(mem, at, PlannedSource(at))}
        /\ mem' \in {mem, WithPending(mem, at, PlannedSource(at)), NoJournal}
        /\ (pc' = "rollback" => at' = NumParts) /\ pc' # "undo"
    BY <1>12
       DEF MoveIntent, Put, Goto, Fail, FailStaged, Stop, ToResume, PartPoints, proc
  <2> QED BY <1>4, <1>6, <1>7, <1>8, <2>1 DEF Reversed, StillReversed, SaysReversed
<1>13. CASE Finish
  <2>1. /\ pc = "finish" /\ pc' = "idle" /\ mem' = NoJournal
        /\ durable' = durable \/ durable' = [mem EXCEPT !.status = "applied", !.staging = {}]
    BY <1>13 DEF Finish, Put, Stop
  <2>2. durable' = durable \/ durable'.status = "applied"
    BY <1>5, <2>1 DEF Journal
  <2> QED BY <1>6, <1>8, <2>1, <2>2 DEF Reversed, StillReversed, SaysReversed
<1>14. CASE ApplyFails
  <2>1. /\ pc = "fail" /\ pc' = "idle" /\ mem' = NoJournal
        /\ durable' = durable \/
             durable' = [mem EXCEPT !.status = IF mem.status = "in_progress" THEN "failed"
                                               ELSE mem.status]
    BY <1>14 DEF ApplyFails, Put, Stop
  <2>2. durable' = durable \/ (SaysReversed(durable') => SaysReversed(mem))
    BY <1>5, <2>1 DEF SaysReversed, Journal
  <2> QED BY <1>6, <1>8, <2>1, <2>2 DEF Reversed, StillReversed, SaysReversed
<1>15. CASE StageIntent
  <2>1. /\ pc \in PartPoints \ {"rollback", "undo", "fail", "idle"}
        /\ durable' \in {durable, WithStaging(mem, at)}
        /\ mem' \in {mem, WithStaging(mem, at), NoJournal}
        /\ (pc' = "rollback" => at' = NumParts) /\ pc' # "undo"
    BY <1>15
       DEF StageIntent, Put, Goto, Fail, FailStaged, Stop, ToResume, PartPoints, proc
  <2> QED BY <1>4, <1>6, <1>7, <1>8, <2>1 DEF Reversed, StillReversed, SaysReversed
<1>16. CASE Stage
  <2>1. /\ pc \in PartPoints \ {"rollback", "undo", "fail", "idle"}
        /\ durable' \in {durable}
        /\ mem' \in {mem, WithoutStaging(mem, at), NoJournal}
        /\ (pc' = "rollback" => at' = NumParts) /\ pc' # "undo"
    BY <1>16 DEF Stage, Put, Goto, Fail, FailStaged, Stop, ToResume, PartPoints, proc
  <2> QED BY <1>4, <1>6, <1>7, <1>8, <2>1 DEF Reversed, StillReversed, SaysReversed
<1>17. CASE StageRename
  <2>1. /\ pc \in PartPoints \ {"rollback", "undo", "fail", "idle"}
        /\ durable' \in {durable}
        /\ mem' \in {mem, WithoutStaging(mem, at), NoJournal}
        /\ (pc' = "rollback" => at' = NumParts) /\ pc' # "undo"
    BY <1>17
       DEF StageRename, Put, Goto, Fail, FailStaged, Stop, ToResume, PartPoints, proc
  <2> QED BY <1>4, <1>6, <1>7, <1>8, <2>1 DEF Reversed, StillReversed, SaysReversed
<1>18. CASE Discard
  BY <1>18, <1>3, <1>4, <1>6, <1>7, <1>8 DEF Discard, Put, Goto, Stop, Fail,
       FailStaged, Reversed, StillReversed, SaysReversed, PartPoints, store,
       AfterCheckpoint, Loop, proc
<1>19. CASE PublishIntent
  <2>1. /\ pc \in PartPoints \ {"rollback", "undo", "fail", "idle"}
        /\ durable' \in {durable, WithPending(mem, at, fs[Stg(at)])}
        /\ mem' \in {mem, WithPending(mem, at, fs[Stg(at)]), WithoutStaging(mem, at), NoJournal}
        /\ (pc' = "rollback" => at' = NumParts) /\ pc' # "undo"
    BY <1>19
       DEF PublishIntent, Put, Goto, Fail, FailStaged, Stop, ToResume, PartPoints, proc
  <2> QED BY <1>4, <1>6, <1>7, <1>8, <2>1 DEF Reversed, StillReversed, SaysReversed
<1>20. CASE Publish
  <2>1. /\ pc \in PartPoints \ {"rollback", "undo", "fail", "idle"}
        /\ durable' \in {durable}
        /\ mem' \in {mem, Published(mem, at), NoJournal}
        /\ (pc' = "rollback" => at' = NumParts) /\ pc' # "undo"
    BY <1>20 DEF Publish, Put, Goto, Fail, FailStaged, Stop, ToResume, PartPoints, proc
  <2> QED BY <1>4, <1>6, <1>7, <1>8, <2>1 DEF Reversed, StillReversed, SaysReversed
<1>21. CASE Move
  <2>1. /\ pc = "move" /\ durable' = durable
        /\ mem' \in {mem, WithoutOutput(mem, at), NoJournal}
        /\ (pc' = "rollback" => at' = NumParts) /\ pc' # "undo"
    BY <1>21 DEF Move, MoveOne, Fail, Stop, proc
  <2> QED BY <1>4, <1>6, <1>7, <1>8, <2>1
             DEF Reversed, StillReversed, SaysReversed, PartPoints
<1>22. CASE Checkpoint
  <2>1. /\ pc = "checkpoint" /\ durable' \in {durable, WithDone(mem, at, fs[Dst(at)])}
        /\ mem' \in {mem, WithDone(mem, at, fs[Dst(at)]), NoJournal}
        /\ (pc' = "rollback" => at' = NumParts) /\ pc' # "undo"
    BY <1>22 DEF Checkpoint, Put, Fail, Stop, Goto, AfterCheckpoint, Loop
  <2> QED BY <1>4, <1>6, <1>7, <1>8, <2>1
             DEF Reversed, StillReversed, SaysReversed, PartPoints
<1>23. CASE ItemDone
  <2> DEFINE j == [mem EXCEPT !.remaining = mem.remaining \ {ItemOf(at)}]
  <2>1. /\ pc = "item_done" /\ durable' \in {durable, j} /\ mem' \in {j, NoJournal}
        /\ pc' \notin {"rollback", "undo"}
    BY <1>23 DEF ItemDone, Put, Goto, Fail, Stop, Loop
  <2>2. j.status = mem.status
    BY <1>5 DEF Journal
  <2> HIDE DEF j
  <2> QED BY <1>6, <1>8, <2>1, <2>2 DEF Reversed, StillReversed, SaysReversed
<1>24. CASE RollbackStep
  <2>1. /\ pc = "rollback" /\ durable' = durable /\ mem' = mem /\ pc' = pc /\ cmd' = cmd
        /\ complete' => complete
        /\ at' = at \/ at' = at - 1
    BY <1>24 DEF RollbackStep, RollbackNext, Reverse, MoveOne, proc
  <2>2. at' # at /\ complete' =>
          \A k \in Parts : Changed(k)' /\ Names(mem, k) => k # at
    BY <1>24, RollbackEffect
  <2> QED BY <1>4, <1>6, <1>8, <2>1, <2>2 DEF Reversed, StillReversed, SaysReversed
<1>25. CASE RollbackEnd
  <2> DEFINE done == mem.undo_safe /\ complete
  <2>1. /\ pc = "rollback" /\ (at = 0 \/ ~mem.undo_safe)
        /\ pc' \in {"fail", "idle"}
        /\ durable' = durable \/ durable' =
             [mem EXCEPT !.status = IF done THEN "rolled_back" ELSE "partially_applied"]
        /\ \/ /\ pc' = "fail" /\ cmd = "apply"
              /\ mem' = [mem EXCEPT !.status = IF done THEN "rolled_back"
                                               ELSE "partially_applied"]
           \/ mem' = NoJournal
    BY <1>25 DEF RollbackEnd, Put, Goto, Stop
  <2>2. done => \A k \in Parts : Names(mem, k) => ~Changed(k)
    BY <1>4, <1>6, <2>1 DEF Reversed
  <2>3. cmd = "apply" \/ ~stale => \A k \in Parts : Changed(k) => Names(mem, k)
    BY <1>6, <2>1 DEF Written, Running, UpToDate
  <2>4. \A s \in {"rolled_back", "partially_applied"} :
          /\ [mem EXCEPT !.status = s].status = s
          /\ \A k \in Parts : Names([mem EXCEPT !.status = s], k) <=> Names(mem, k)
    BY <1>2, <1>5 DEF Journal, Names
  <2>5. CASE done
    <3>1. /\ durable' = durable \/ (SaysReversed(durable') /\
               \A k \in Parts : Names(durable', k) <=> Names(mem, k))
          /\ (pc' = "fail" /\ cmd = "apply") \/ mem' = NoJournal
      BY <2>1, <2>4, <2>5 DEF SaysReversed
    <3>2. \A k \in Parts : Names(mem, k) => ~Changed(k)
      BY <2>2, <2>5
    <3> HIDE DEF done
    <3> QED BY <1>6, <1>8, <2>1, <2>3, <3>1, <3>2 DEF Reversed, StillReversed
  <2>6. CASE ~done
    <3>1. /\ durable' = durable \/ ~SaysReversed(durable')
          /\ ~SaysReversed(mem')
      BY <1>8, <2>1, <2>4, <2>6 DEF SaysReversed
    <3> HIDE DEF done
    <3> QED BY <1>6, <1>8, <2>1, <3>1 DEF Reversed, StillReversed
  <2> QED BY <2>5, <2>6
<1>26. CASE UndoStep
  <2>1. /\ pc = "undo" /\ durable' = durable
        /\ \/ mem' = mem /\ pc' = pc /\ cmd' = cmd /\ at' \in {at, at + 1}
           \/ mem' = NoJournal /\ pc' = "idle"
    BY <1>26 DEF UndoStep, UndoNext, Reverse, MoveOne, Stop, proc
  <2>2. at' # at /\ pc' = "undo" =>
          \A k \in Parts : Changed(k)' /\ Names(mem, k) => k # at
    BY <1>26, UndoEffect
  <2> QED BY <1>4, <1>6, <1>8, <2>1, <2>2 DEF Reversed, StillReversed, SaysReversed
<1>27. CASE UndoEnd
  <2>1. /\ pc = "undo" /\ at = NumParts + 1 /\ pc' = "idle" /\ mem' = NoJournal
        /\ durable' = durable \/ durable' = [mem EXCEPT !.status = "undone"]
    BY <1>27 DEF UndoEnd, Put, Stop
  <2>2. \A k \in Parts : Names(mem, k) => ~Changed(k)
    BY <1>4, <1>6, <2>1 DEF Reversed
  <2>3. ~stale => \A k \in Parts : Changed(k) => Names(mem, k)
    BY <1>6, <2>1 DEF Written, Running, UpToDate
  <2>4. \A k \in Parts : Names([mem EXCEPT !.status = "undone"], k) <=> Names(mem, k)
    BY <1>2, <1>5 DEF Journal, Names
  <2> QED BY <1>6, <1>8, <2>1, <2>2, <2>3, <2>4 DEF Reversed, StillReversed, SaysReversed
<1>28. CASE Unstage
  <2>1. PICK k \in mem.staging :
          /\ pc = "unstage" /\ durable' = durable /\ pc' \in {"unstage", "idle"}
          /\ mem' = WithoutStaging(mem, k) \/ mem' = NoJournal
    BY <1>28 DEF Unstage, Stop
  <2>2. k \in 1..MaxParts
    BY <1>5, <2>1 DEF Journal
  <2>3. WithoutStaging(mem, k).status = mem.status
    BY <1>5, <2>2, Entries
  <2> QED BY <1>6, <1>8, <2>1, <2>3 DEF Reversed, StillReversed, SaysReversed
<1>29. CASE Revalidate
  BY <1>29, <1>3, <1>4, <1>6, <1>7, <1>8 DEF Revalidate, Put, Goto, Stop,
       Fail, FailStaged, Reversed, StillReversed, SaysReversed, PartPoints,
       store, AfterCheckpoint, Loop, proc
<1>30. CASE Undo
  BY <1>30, <1>1, <1>4, <1>6, Given DEF ItemsSafe, StillReversed, Reversed
<1>31. CASE Rollback
  BY <1>31, <1>1, <1>4, <1>6, Given DEF ItemsSafe, StillReversed, Reversed
<1>32. CASE RecoverRollback
  <2>1. /\ pc' = "unstage" /\ durable' = durable
        /\ mem' = WithoutUnpublished(durable) /\ NeedsRecovery(durable)
    BY <1>32 DEF RecoverRollback, RecoverAccepts, Begin, store
  <2>2. mem'.status = durable.status
    BY <1>5, <2>1 DEF WithoutUnpublished, Journal
  <2> QED BY <2>1, <2>2 DEF StillReversed, SaysReversed, NeedsRecovery
<1>33. CASE Resume
  BY <1>33, <1>4, <1>6 DEF Resume, Begin, StillReversed, Reversed,
       SaysReversed, store, ResumeAccepts, NeedsRecovery
<1>34. CASE ResumeSkip
  BY <1>34, <1>3, <1>4, <1>6, <1>7, <1>8 DEF ResumeSkip, Put, Goto, Stop,
       Fail, FailStaged, Reversed, StillReversed, SaysReversed, PartPoints,
       store, AfterCheckpoint, Loop, proc
<1>35. CASE ResumeStaged
  <2>1. /\ pc = "intent" /\ durable' = durable /\ pc' \in {"checkpoint", "idle"}
        /\ \/ mem' \in {Published(mem, at), NoJournal}
           \/ mem' = [WithoutOutput(mem, at) EXCEPT
                        !.staging = {k \in mem.staging : Exists(Stg(k))}]
    BY <1>35 DEF ResumeStaged, ToResume, Goto, Stop
  <2>2. [WithoutOutput(mem, at) EXCEPT
          !.staging = {k \in mem.staging : Exists(Stg(k))}].status = mem.status
    BY <1>5 DEF WithoutOutput, Journal
  <2> QED BY <1>6, <1>7, <1>8, <2>1, <2>2
             DEF Reversed, StillReversed, SaysReversed, PartPoints
<1>36. CASE ResumeRefused
  BY <1>36, <1>3, <1>4, <1>6, <1>7, <1>8 DEF ResumeRefused, ToResume, Put, Goto, Stop,
       Fail, FailStaged, Reversed, StillReversed, SaysReversed, PartPoints,
       store, AfterCheckpoint, Loop, proc
<1>37. CASE ResumeMove
  <2>1. /\ pc \in PartPoints \ {"rollback", "undo", "fail", "idle"}
        /\ durable' \in {durable, WithPending(mem, at, PlannedSource(at))}
        /\ mem' \in {mem, WithPending(mem, at, PlannedSource(at)), WithoutOutput(mem, at), NoJournal}
        /\ (pc' = "rollback" => at' = NumParts) /\ pc' # "undo"
    BY <1>37
       DEF ResumeMove, Put, Goto, Fail, FailStaged, Stop, ToResume, PartPoints, proc
  <2> QED BY <1>4, <1>6, <1>7, <1>8, <2>1 DEF Reversed, StillReversed, SaysReversed
<1>38. CASE Crash
  BY <1>38, <1>3, <1>4, <1>6, <1>7, <1>8 DEF Crash, Put, Goto, Stop, Fail,
       FailStaged, Reversed, StillReversed, SaysReversed, PartPoints, store,
       AfterCheckpoint, Loop, proc
<1>39. CASE OutsideChange
  <2>1. UNCHANGED <<durable, proc, stale>>
    BY <1>39 DEF OutsideChange
  <2> QED BY <1>6, <2>1 DEF proc, Reversed, StillReversed, SaysReversed
<1>40. CASE Hold
  BY <1>40, <1>6 DEF Hold, store, proc, Reversed, StillReversed
<1> QED BY <1>40, <1>10, <1>11, <1>12, <1>13, <1>14, <1>15, <1>16, <1>17, <1>18,
          <1>19, <1>20, <1>21, <1>22, <1>23, <1>24, <1>25, <1>26, <1>27,
          <1>28, <1>29, <1>30, <1>31, <1>32, <1>33, <1>34, <1>35, <1>36,
          <1>37, <1>38, <1>39
      DEF Next, Process, Apply, Staging, Reversal, Command, Resuming

-----------------------------------------------------------------------------
(* Staging files are listed.                                               *)

(* What each staging file needs after a step.                              *)
StillListed(k) ==
  /\ ~Superseded' => k \in durable'.staging
  /\ Running' /\ UpToDate' => k \in mem'.staging \/ (pc' = "discard" /\ k = at')
  /\ cmd' = "apply" => \/ pc' \in {"publish_intent", "publish", "discard"} /\ k = at'
                       \/ pc' \in {"rollback", "fail"}

(* What the state before says of it.                                       *)
WasListed(k) ==
  /\ Exists(Stg(k))
  /\ ~Superseded => k \in durable.staging
  /\ Running /\ UpToDate => k \in mem.staging \/ (pc = "discard" /\ k = at)
  /\ cmd = "apply" => \/ pc \in {"publish_intent", "publish", "discard"} /\ k = at
                      \/ pc \in {"rollback", "fail"}

(* No step makes a staging file the journals do not list.                  *)
LEMMA StagedStep ==
  ASSUME RecoverySafe, Next
  PROVE  Staged'
<1>1. op' = op /\ Parts' = Parts /\ ItemsSafe /\ op \in Plan /\ fs \in [Path -> File]
  BY PlanKept DEF RecoverySafe, ItemsSafe, TypeOK
<1>2. \A k \in Parts :
        /\ k \in 1..MaxParts /\ ItemOf(k) \in Items
        /\ Dst(k) \in Path /\ Stg(k) \in Path /\ Tmp(k) \in Path
  BY <1>1, PartsOfItems, Places
<1>3. pc \in PartPoints => at \in Parts /\ at \in 1..MaxParts
  BY <1>2 DEF RecoverySafe, ItemsSafe, Control
<1>4. durable \in Journal /\ mem \in Journal
  BY <1>1 DEF ItemsSafe, TypeOK
<1>5. /\ Fault("file") => faults'["file"] # 0
      /\ \A x \in FaultKinds : Fault(x) /\ faults'["file"] = 0 => faults["file"] = 0
  <2>1. faults \in [FaultKinds -> 0..MaxFaults] /\ MaxFaults \in Nat
    BY <1>1, JournalAssumption DEF ItemsSafe, TypeOK
  <2>2. "file" \in FaultKinds /\ faults["file"] \in Nat
    BY <2>1 DEF FaultKinds
  <2> QED BY <2>1, <2>2 DEF Fault
<1>6. faults'["file"] = 0 => faults["file"] = 0
  BY <1>5, FaultsStep
<1>7. pc \in PartPoints => \A file :
        /\ WithStaging(mem, at).staging = mem.staging \cup {at}
        /\ WithoutStaging(mem, at).staging = mem.staging \ {at}
        /\ WithPending(mem, at, file).staging = mem.staging
        /\ WithoutOutput(mem, at).staging = mem.staging
        /\ WithDone(mem, at, file).staging = mem.staging
        /\ Published(mem, at).staging = mem.staging \ {at}
  BY <1>3, <1>4, Entries
<1>8. /\ pc \in StagedPoints \ {"discard"} => at \in mem.staging /\ at \in durable.staging
      /\ durable' = durable /\ Superseded => Superseded'
      /\ pc \in PartPoints \cup {"planned", "validate", "finish", "fail"} => UpToDate
      /\ cmd = "apply" => UpToDate
      /\ Running /\ UpToDate' => UpToDate \/ pc' = "idle"
  BY StaysUpToDate, StaleKept
     DEF RecoverySafe, Staged, Ahead, Superseded, SaysReversed, UpToDate
<1>9. faults'["file"] = 0 => \A k \in Parts : Exists(Stg(k)) => WasListed(k)
  BY <1>6 DEF RecoverySafe, Staged, WasListed
<1>10. SUFFICES
        /\ pc' \in StagedPoints \ {"discard"} =>
             at' \in mem'.staging /\ at' \in durable'.staging
        /\ faults'["file"] = 0 => \A k \in Parts : Exists(Stg(k))' => StillListed(k)
  BY <1>1 DEF Staged, StillListed, Stg
<1>11. CASE ApplyStart
  <2>1. /\ pc = "planned" /\ cmd = "apply"
        /\ pc' \in {"validate", "idle"} /\ cmd' \in {cmd, "none"}
    BY <1>11 DEF ApplyStart, Put, Goto, Stop, RecoverySafe, Ahead
  <2>2. \A k \in Parts : Exists(Stg(k))' => Exists(Stg(k))
    <3>1. fs' = fs
      BY <1>11 DEF ApplyStart, store
    <3> QED BY <3>1 DEF Exists, Stg
  <2> QED BY <1>3, <1>7, <1>8, <1>9, <2>1, <2>2
             DEF WasListed, StillListed, Running, StagedPoints, PartPoints
<1>12. CASE Validate
  <2>1. /\ pc = "validate" /\ durable' = durable
        /\ (pc' = "intent" /\ mem' = mem) \/ (pc' = "fail" /\ mem' = mem) \/ pc' = "idle"
        /\ cmd' \in {cmd, "none"}
    BY <1>12 DEF Validate, Goto, Fail, Stop, store
  <2>2. \A k \in Parts : Exists(Stg(k))' => Exists(Stg(k))
    <3>1. fs' = fs
      BY <1>12 DEF Validate, store
    <3> QED BY <3>1 DEF Exists, Stg
  <2> QED BY <1>3, <1>7, <1>8, <1>9, <2>1, <2>2
             DEF WasListed, StillListed, Running, StagedPoints, PartPoints
<1>13. CASE MoveIntent
  <2>1. /\ pc = "intent" /\ cmd' \in {cmd, "none"}
        /\ \/ /\ durable' = WithPending(mem, at, PlannedSource(at)) /\ mem' = durable'
              /\ pc' = "move" /\ at' = at
           \/ /\ durable' = durable /\ pc' \in {"rollback", "fail"}
              /\ mem' \in {mem, WithPending(mem, at, PlannedSource(at))}
           \/ durable' = durable /\ cmd' = "none" /\ pc' = "idle"
    BY <1>13 DEF MoveIntent, Put, Goto, Fail, FailStaged, Stop
  <2>2. \A k \in Parts : Exists(Stg(k))' => Exists(Stg(k))
    <3>1. fs' = fs
      BY <1>13 DEF MoveIntent, store
    <3> QED BY <3>1 DEF Exists, Stg
  <2> QED BY <1>3, <1>7, <1>8, <1>9, <2>1, <2>2
             DEF WasListed, StillListed, Running, StagedPoints, PartPoints
<1>14. CASE Finish
  <2>1. /\ pc = "finish" /\ pc' = "idle" /\ cmd' = "none" /\ fs' = fs
        /\ durable' = durable \/ ~(cmd = "resume" /\ \E k \in mem.staging : Exists(Stg(k)))
    BY <1>14 DEF Finish, Put, Stop
  <2>2. cmd \in {"apply", "resume"}
    BY <2>1 DEF RecoverySafe, Ahead
  <2>3. \A k \in Parts : Exists(Stg(k))' => Exists(Stg(k))
    BY <2>1 DEF Exists, Stg
  <2> QED BY <1>8, <1>9, <2>1, <2>2, <2>3 DEF WasListed, StillListed, Running, StagedPoints
<1>15. CASE ApplyFails
  <2>1. /\ pc = "fail" /\ cmd' = "none" /\ pc' = "idle"
        /\ durable' = durable \/ durable'.staging = mem.staging
    BY <1>15, <1>4 DEF ApplyFails, Put, Stop, Journal
  <2>2. \A k \in Parts : Exists(Stg(k))' => Exists(Stg(k))
    <3>1. fs' = fs
      BY <1>15 DEF ApplyFails, store
    <3> QED BY <3>1 DEF Exists, Stg
  <2> QED BY <1>3, <1>7, <1>8, <1>9, <2>1, <2>2
             DEF WasListed, StillListed, Running, StagedPoints, PartPoints
<1>16. CASE StageIntent
  <2>1. /\ pc = "intent" /\ cmd' \in {cmd, "none"}
        /\ \/ durable' = WithStaging(mem, at) /\ mem' = durable' /\ pc' = "stage" /\ at' = at
           \/ durable' = durable /\ pc' = "rollback" /\ mem' = mem
           \/ durable' = durable /\ cmd' = "none" /\ pc' = "idle"
    BY <1>16 DEF StageIntent, Put, Goto, Fail, FailStaged, Stop
  <2>2. \A k \in Parts : Exists(Stg(k))' => Exists(Stg(k))
    <3>1. fs' = fs
      BY <1>16 DEF StageIntent, store
    <3> QED BY <3>1 DEF Exists, Stg
  <2> QED BY <1>3, <1>7, <1>8, <1>9, <2>1, <2>2
             DEF WasListed, StillListed, Running, StagedPoints, PartPoints
<1>17. CASE Stage
  <2>1. /\ pc = "stage" /\ durable' = durable /\ cmd' \in {cmd, "none"}
        /\ \/ fs' = Copied(Src(at), Tmp(at)) /\ mem' = mem /\ pc' = "rename" /\ at' = at
           \/ /\ fs' = Copied(SourceOf(at), Stg(at)) /\ mem' = mem
              /\ pc' = "publish_intent" /\ at' = at
           \/ /\ fs' = fs /\ mem' \in {mem, WithoutStaging(mem, at)}
              /\ pc' = "discard" /\ at' = at
           \/ fs' = fs /\ cmd' = "none" /\ pc' = "idle"
    BY <1>17 DEF Stage, FailStaged, Goto, Stop
  <2>2. \A k \in Parts : k # at /\ Exists(Stg(k))' => Exists(Stg(k))
    <3>1. \A k \in Parts : k # at => fs'[Stg(k)] = fs[Stg(k)]
      BY <1>1, <1>2, <1>3, <2>1, PlacesDiffer DEF Copied, PartPoints
    <3> QED BY <3>1 DEF Exists, Stg
  <2>3. pc' # "publish_intent" /\ Exists(Stg(at))' => Exists(Stg(at)) \/ at' # at
    <3>1. pc' # "publish_intent" => fs'[Stg(at)] = fs[Stg(at)] \/ at' # at
      BY <1>1, <1>2, <1>3, <2>1, PlacesDiffer DEF Copied, PartPoints
    <3> QED BY <3>1 DEF Exists, Stg
  <2> QED BY <1>3, <1>7, <1>8, <1>9, <2>1, <2>2, <2>3
             DEF WasListed, StillListed, Running, StagedPoints, PartPoints
<1>18. CASE StageRename
  <2>1. /\ pc = "rename" /\ durable' = durable /\ cmd' \in {cmd, "none"}
        /\ \/ /\ fs' = Renamed(Tmp(at), Stg(at)) /\ mem' = mem
              /\ pc' = "publish_intent" /\ at' = at
           \/ /\ Fault("file") /\ pc' \in {"discard", "idle"}
    BY <1>18 DEF StageRename, FailStaged, Goto, Stop
  <2>2. CASE Fault("file") /\ pc' \in {"discard", "idle"}
    BY <1>5, <2>2 DEF StagedPoints
  <2>3. CASE /\ fs' = Renamed(Tmp(at), Stg(at)) /\ mem' = mem
             /\ pc' = "publish_intent" /\ at' = at
    <3>1. \A k \in Parts : k # at => fs'[Stg(k)] = fs[Stg(k)]
      BY <1>1, <1>2, <1>3, <2>1, <2>3, PlacesDiffer DEF Renamed, PartPoints
    <3>2. \A k \in Parts : k # at /\ Exists(Stg(k))' => Exists(Stg(k))
      BY <3>1 DEF Exists, Stg
    <3> QED BY <1>3, <1>7, <1>8, <1>9, <2>1, <2>3, <3>2
               DEF WasListed, StillListed, Running, StagedPoints, PartPoints
  <2> QED BY <2>1, <2>2, <2>3
<1>19. CASE Discard
  <2>1. /\ pc = "discard" /\ durable' = durable /\ cmd' \in {cmd, "none"}
        /\ fs' = Removed(Stg(at)) \/ Fault("file")
        /\ (pc' = "rollback" /\ mem' = mem) \/ (pc' = "idle" /\ cmd' = "none")
    BY <1>19 DEF Discard, Fail, Stop
  <2>2. CASE Fault("file")
    BY <1>5, <2>1, <2>2 DEF StagedPoints
  <2>3. CASE fs' = Removed(Stg(at))
    <3>1. \A k \in Parts : fs'[Stg(k)] = IF k = at THEN NoFile ELSE fs[Stg(k)]
      BY <1>1, <1>2, <1>3, <2>1, <2>3, PlacesDiffer DEF Removed, PartPoints
    <3>2. NoFile.id = 0
      BY DEF NoFile
    <3>3. \A k \in Parts : Exists(Stg(k))' => Exists(Stg(k)) /\ k # at
      BY <3>1, <3>2 DEF Exists, Stg
    <3> QED BY <1>8, <1>9, <2>1, <3>3
               DEF WasListed, StillListed, Running, StagedPoints, PartPoints
  <2> QED BY <2>1, <2>2, <2>3
<1>20. CASE PublishIntent
  <2>1. /\ pc = "publish_intent" /\ cmd' \in {cmd, "none"}
        /\ \/ /\ durable' = WithPending(mem, at, fs[Stg(at)]) /\ mem' = durable'
              /\ pc' = "publish" /\ at' = at
           \/ /\ durable' = durable /\ pc' = "discard" /\ at' = at
              /\ mem' \in {mem, WithoutStaging(mem, at)}
           \/ durable' = durable /\ cmd' = "none" /\ pc' = "idle"
    BY <1>20 DEF PublishIntent, Put, Goto, Fail, FailStaged, Stop
  <2>2. \A k \in Parts : Exists(Stg(k))' => Exists(Stg(k))
    <3>1. fs' = fs
      BY <1>20 DEF PublishIntent, store
    <3> QED BY <3>1 DEF Exists, Stg
  <2> QED BY <1>3, <1>7, <1>8, <1>9, <2>1, <2>2
             DEF WasListed, StillListed, Running, StagedPoints, PartPoints
<1>21. CASE Publish
  <2>1. /\ pc = "publish" /\ durable' = durable /\ cmd' \in {cmd, "none"}
        /\ \/ fs' = Removed(Dst(at)) /\ mem' = mem /\ pc' = pc /\ at' = at
           \/ fs' = Renamed(Stg(at), Dst(at)) /\ mem' = Published(mem, at) /\ pc' = "checkpoint"
           \/ fs' = fs /\ mem' = Published(mem, at) /\ pc' = "discard" /\ at' = at
           \/ fs' = fs /\ pc' = "idle" /\ cmd' = "none"
    BY <1>21 DEF Publish, FailStaged, Goto, Stop, proc
  <2>2. \A k \in Parts :
          /\ Exists(Stg(k))' => Exists(Stg(k))
          /\ fs' = Renamed(Stg(at), Dst(at)) /\ Exists(Stg(k))' => k # at
    <3>1. NoFile.id = 0 /\ at \in Parts
      BY <1>3, <2>1 DEF NoFile, PartPoints
    <3>2. fs' = Renamed(Stg(at), Dst(at)) =>
            \A k \in Parts : fs'[Stg(k)] = IF k = at THEN NoFile ELSE fs[Stg(k)]
      BY <1>1, <1>2, <3>1, PlacesDiffer DEF Renamed
    <3>3. fs' = Removed(Dst(at)) => \A k \in Parts : fs'[Stg(k)] = fs[Stg(k)]
      BY <1>1, <1>2, <3>1, PlacesDiffer DEF Removed
    <3> QED BY <2>1, <3>1, <3>2, <3>3 DEF Exists, Stg
  <2> QED BY <1>3, <1>7, <1>8, <1>9, <2>1, <2>2
             DEF WasListed, StillListed, Running, StagedPoints, PartPoints
<1>22. CASE Move
  <2>1. /\ pc = "move" /\ durable' = durable /\ cmd' \in {cmd, "none"}
        /\ mem' \in {mem, WithoutOutput(mem, at)} \/ pc' = "idle"
        /\ pc' \in {"move", "checkpoint", "rollback"} \/ (pc' = "idle" /\ cmd' = "none")
    BY <1>22 DEF Move, MoveOne, Fail, Stop, proc
  <2>2. \A k \in Parts : Exists(Stg(k))' => Exists(Stg(k))
    <3>1. at \in Parts
      BY <1>3, <2>1 DEF PartPoints
    <3>2. \/ fs' \in {fs, Removed(Src(at)), Removed(Dst(at))}
          \/ fs' \in {Renamed(Src(at), Dst(at)), Copied(Src(at), Dst(at))}
      BY <1>22 DEF Move, MoveOne
    <3>3. \A k \in Parts : fs'[Stg(k)] = fs[Stg(k)]
      BY <1>1, <1>2, <3>1, <3>2, PlacesDiffer DEF Removed, Renamed, Copied
    <3> QED BY <3>3 DEF Exists, Stg
  <2> QED BY <1>3, <1>7, <1>8, <1>9, <2>1, <2>2
             DEF WasListed, StillListed, Running, StagedPoints, PartPoints
<1>23. CASE Checkpoint
  <2>1. /\ pc = "checkpoint" /\ cmd' \in {cmd, "none"}
        /\ durable' \in {durable, WithDone(mem, at, fs[Dst(at)])}
        /\ \/ mem' \in {mem, WithDone(mem, at, fs[Dst(at)])}
           \/ pc' = "idle"
        /\ pc' \in {"item_done", "intent", "finish", "rollback", "fail"} \/ (pc' = "idle" /\ cmd' = "none")
    BY <1>23 DEF Checkpoint, Put, Fail, Stop, Goto, AfterCheckpoint, Loop
  <2>2. \A k \in Parts : Exists(Stg(k))' => Exists(Stg(k))
    <3>1. fs' = fs
      BY <1>23 DEF Checkpoint, store
    <3> QED BY <3>1 DEF Exists, Stg
  <2> QED BY <1>3, <1>7, <1>8, <1>9, <2>1, <2>2
             DEF WasListed, StillListed, Running, StagedPoints, PartPoints
<1>24. CASE ItemDone
  <2>1. /\ pc = "item_done" /\ cmd' \in {cmd, "none"}
        /\ durable' = durable \/ durable'.staging = mem.staging
        /\ mem'.staging = mem.staging \/ pc' = "idle"
        /\ pc' \in {"intent", "finish", "fail"} \/ (pc' = "idle" /\ cmd' = "none")
    BY <1>24, <1>4 DEF ItemDone, Put, Fail, Stop, Goto, Loop, Journal
  <2>2. \A k \in Parts : Exists(Stg(k))' => Exists(Stg(k))
    <3>1. fs' = fs
      BY <1>24 DEF ItemDone, store
    <3> QED BY <3>1 DEF Exists, Stg
  <2> QED BY <1>3, <1>7, <1>8, <1>9, <2>1, <2>2
             DEF WasListed, StillListed, Running, StagedPoints, PartPoints
<1>25. CASE RollbackStep
  <2>1. /\ pc = "rollback" /\ durable' = durable /\ cmd' = cmd /\ mem' = mem /\ pc' = pc
    BY <1>25 DEF RollbackStep, RollbackNext, Reverse, MoveOne, proc
  <2>2. \A k \in Parts : Exists(Stg(k))' => Exists(Stg(k))
    <3>1. fs' = fs \/ at \in Parts
      BY <1>25 DEF RollbackStep, Listed
    <3>2. \/ fs' \in {fs, Removed(Src(at)), Removed(Dst(at))}
          \/ fs' \in {Renamed(Dst(at), Src(at)), Copied(Dst(at), Src(at))}
      BY <1>25 DEF RollbackStep, Reverse, MoveOne
    <3>3. \A k \in Parts : fs'[Stg(k)] = fs[Stg(k)]
      BY <1>1, <1>2, <3>1, <3>2, PlacesDiffer DEF Removed, Renamed, Copied
    <3> QED BY <3>3 DEF Exists, Stg
  <2> QED BY <1>3, <1>7, <1>8, <1>9, <2>1, <2>2
             DEF WasListed, StillListed, Running, StagedPoints, PartPoints
<1>26. CASE RollbackEnd
  <2>1. /\ pc = "rollback"
        /\ (cmd' = "none" /\ pc' = "idle") \/ (pc' = "fail" /\ mem'.staging = mem.staging)
        /\ \/ durable' = durable
           \/ durable'.staging = mem.staging /\ (cmd = "apply" \/ SaysReversed(durable'))
    BY <1>26, <1>4 DEF RollbackEnd, Put, Goto, Stop, Journal, SaysReversed
  <2>2. \A k \in Parts : Exists(Stg(k))' => Exists(Stg(k))
    <3>1. fs' = fs
      BY <1>26 DEF RollbackEnd, store
    <3> QED BY <3>1 DEF Exists, Stg
  <2>3. ~Superseded' /\ SaysReversed(durable') => UpToDate
    BY <2>1, StaleKept DEF Superseded, UpToDate
  <2> QED BY <1>3, <1>7, <1>8, <1>9, <2>1, <2>2, <2>3
             DEF WasListed, StillListed, Running, StagedPoints, PartPoints
<1>27. CASE UndoStep
  <2>1. /\ pc = "undo" /\ durable' = durable
        /\ (cmd' = cmd /\ mem' = mem /\ pc' = pc) \/ (pc' = "idle" /\ cmd' = "none")
    BY <1>27 DEF UndoStep, UndoNext, Reverse, MoveOne, Stop, proc
  <2>2. \A k \in Parts : Exists(Stg(k))' => Exists(Stg(k))
    <3>1. fs' = fs \/ at \in Parts
      BY <1>27 DEF UndoStep, Listed
    <3>2. \/ fs' \in {fs, Removed(Src(at)), Removed(Dst(at))}
          \/ fs' \in {Renamed(Dst(at), Src(at)), Copied(Dst(at), Src(at))}
      BY <1>27 DEF UndoStep, Reverse, MoveOne
    <3>3. \A k \in Parts : fs'[Stg(k)] = fs[Stg(k)]
      BY <1>1, <1>2, <3>1, <3>2, PlacesDiffer DEF Removed, Renamed, Copied
    <3> QED BY <3>3 DEF Exists, Stg
  <2> QED BY <1>3, <1>7, <1>8, <1>9, <2>1, <2>2
             DEF WasListed, StillListed, Running, StagedPoints, PartPoints
<1>28. CASE UndoEnd
  <2>1. /\ pc = "undo" /\ cmd' = "none" /\ pc' = "idle"
        /\ durable' = durable \/ (durable'.staging = mem.staging /\ SaysReversed(durable'))
    BY <1>28, <1>4 DEF UndoEnd, Put, Stop, Journal, SaysReversed
  <2>2. \A k \in Parts : Exists(Stg(k))' => Exists(Stg(k))
    <3>1. fs' = fs
      BY <1>28 DEF UndoEnd, store
    <3> QED BY <3>1 DEF Exists, Stg
  <2>3. ~Superseded' /\ SaysReversed(durable') => UpToDate
    BY <2>1, StaleKept DEF Superseded, UpToDate
  <2> QED BY <1>3, <1>7, <1>8, <1>9, <2>1, <2>2, <2>3
             DEF WasListed, StillListed, Running, StagedPoints, PartPoints
<1>29. CASE Unstage
  <2>1. PICK s \in mem.staging :
          /\ pc = "unstage" /\ durable' = durable /\ cmd' \in {cmd, "none"}
          /\ \/ /\ fs' = Removed(Stg(s)) /\ mem' = WithoutStaging(mem, s) /\ pc' = pc
             \/ fs' = fs /\ pc' = "idle" /\ cmd' = "none"
    BY <1>29 DEF Unstage, Stop
  <2>2. s \in 1..MaxParts
    BY <1>4, <2>1 DEF Journal
  <2>3. WithoutStaging(mem, s).staging = mem.staging \ {s}
    BY <1>4, <2>2, Entries
  <2>4. \A k \in Parts :
          /\ Exists(Stg(k))' => Exists(Stg(k))
          /\ fs' = Removed(Stg(s)) /\ Exists(Stg(k))' => k # s
    <3>1. NoFile.id = 0
      BY DEF NoFile
    <3>2. fs' = Removed(Stg(s)) =>
            \A k \in Parts : fs'[Stg(k)] = IF k = s THEN NoFile ELSE fs[Stg(k)]
      BY <1>1, <1>2, <2>2, PlacesDiffer DEF Removed
    <3> QED BY <2>1, <3>1, <3>2 DEF Exists, Stg
  <2> QED BY <1>8, <1>9, <2>1, <2>3, <2>4 DEF WasListed, StillListed, Running, StagedPoints
<1>30. CASE Revalidate
  <2>1. /\ pc = "unstage" /\ durable' = durable
        /\ (pc' = "rollback" /\ mem' = mem /\ cmd' = cmd) \/ (pc' = "idle" /\ cmd' = "none")
    BY <1>30 DEF Revalidate, Goto, Stop, store
  <2>2. \A k \in Parts : Exists(Stg(k))' => Exists(Stg(k))
    <3>1. fs' = fs
      BY <1>30 DEF Revalidate, store
    <3> QED BY <3>1 DEF Exists, Stg
  <2> QED BY <1>3, <1>7, <1>8, <1>9, <2>1, <2>2
             DEF WasListed, StillListed, Running, StagedPoints, PartPoints
<1>31. CASE Undo
  <2>1. /\ pc = "idle" /\ durable' = durable /\ cmd' # "apply"
        /\ pc' \in {"undo", "rollback"}
        /\ UpToDate' => mem' = durable /\ ~Superseded
    BY <1>31, <1>1, Given DEF ItemsSafe, Superseded
  <2>2. \A k \in Parts : Exists(Stg(k))' => Exists(Stg(k))
    <3>1. fs' = fs
      BY <1>31, <1>1, Given DEF ItemsSafe
    <3> QED BY <3>1 DEF Exists, Stg
  <2> QED BY <1>3, <1>7, <1>8, <1>9, <2>1, <2>2
             DEF WasListed, StillListed, Running, StagedPoints, PartPoints
<1>32. CASE Rollback
  <2>1. /\ pc = "idle" /\ durable' = durable /\ cmd' # "apply"
        /\ pc' \in {"undo", "rollback"}
        /\ UpToDate' => mem' = durable /\ ~Superseded
    BY <1>32, <1>1, Given DEF ItemsSafe, Superseded
  <2>2. \A k \in Parts : Exists(Stg(k))' => Exists(Stg(k))
    <3>1. fs' = fs
      BY <1>32, <1>1, Given DEF ItemsSafe
    <3> QED BY <3>1 DEF Exists, Stg
  <2> QED BY <1>3, <1>7, <1>8, <1>9, <2>1, <2>2
             DEF WasListed, StillListed, Running, StagedPoints, PartPoints
<1>33. CASE RecoverRollback
  <2>1. /\ pc = "idle" /\ durable' = durable /\ mem'.staging = durable.staging
        /\ cmd' # "apply" /\ pc' = "unstage" /\ ~Superseded
    BY <1>33, <1>4 DEF RecoverRollback, Begin, store, WithoutUnpublished, Journal,
         RecoverAccepts, NeedsRecovery, Superseded, SaysReversed
  <2>2. \A k \in Parts : Exists(Stg(k))' => Exists(Stg(k))
    <3>1. fs' = fs
      BY <1>33 DEF RecoverRollback, store
    <3> QED BY <3>1 DEF Exists, Stg
  <2> QED BY <1>3, <1>7, <1>8, <1>9, <2>1, <2>2
             DEF WasListed, StillListed, Running, StagedPoints, PartPoints
<1>34. CASE Resume
  <2>1. /\ pc = "idle" /\ durable' = durable /\ mem' = durable
        /\ cmd' # "apply" /\ pc' = "intent" /\ ~Superseded
    BY <1>34 DEF Resume, Begin, store, ResumeAccepts, NeedsRecovery, Superseded, SaysReversed
  <2>2. \A k \in Parts : Exists(Stg(k))' => Exists(Stg(k))
    <3>1. fs' = fs
      BY <1>34 DEF Resume, store
    <3> QED BY <3>1 DEF Exists, Stg
  <2> QED BY <1>3, <1>7, <1>8, <1>9, <2>1, <2>2
             DEF WasListed, StillListed, Running, StagedPoints, PartPoints
<1>35. CASE ResumeSkip
  <2>1. /\ pc = "intent" /\ cmd = "resume" /\ cmd' = cmd /\ durable' = durable /\ mem' = mem
        /\ pc' \in {"item_done", "intent", "finish"}
    BY <1>35 DEF ResumeSkip, AfterCheckpoint, Loop, Goto, store
  <2>2. \A k \in Parts : Exists(Stg(k))' => Exists(Stg(k))
    <3>1. fs' = fs
      BY <1>35 DEF ResumeSkip, store
    <3> QED BY <3>1 DEF Exists, Stg
  <2> QED BY <1>3, <1>7, <1>8, <1>9, <2>1, <2>2
             DEF WasListed, StillListed, Running, StagedPoints, PartPoints
<1>36. CASE ResumeStaged
  <2>1. /\ pc = "intent" /\ cmd = "resume" /\ durable' = durable /\ cmd' \in {cmd, "none"}
        /\ \/ fs' = Renamed(Stg(at), Dst(at)) /\ mem' = Published(mem, at) /\ pc' = "checkpoint"
           \/ /\ fs' = fs /\ pc' = "checkpoint"
              /\ \A k \in mem.staging : ~Exists(Stg(k))
           \/ fs' = fs /\ pc' = "idle" /\ cmd' = "none"
    BY <1>36 DEF ResumeStaged, ToResume, Goto, Stop
  <2>2. \A k \in Parts :
          /\ Exists(Stg(k))' => Exists(Stg(k))
          /\ fs' = Renamed(Stg(at), Dst(at)) /\ Exists(Stg(k))' => k # at
    <3>1. NoFile.id = 0 /\ at \in Parts
      BY <1>3, <2>1 DEF NoFile, PartPoints
    <3>2. fs' = Renamed(Stg(at), Dst(at)) =>
            \A k \in Parts : fs'[Stg(k)] = IF k = at THEN NoFile ELSE fs[Stg(k)]
      BY <1>1, <1>2, <3>1, PlacesDiffer DEF Renamed
    <3>3. fs' = Removed(Dst(at)) => \A k \in Parts : fs'[Stg(k)] = fs[Stg(k)]
      BY <1>1, <1>2, <3>1, PlacesDiffer DEF Removed
    <3> QED BY <2>1, <3>1, <3>2, <3>3 DEF Exists, Stg
  <2> QED BY <1>3, <1>7, <1>8, <1>9, <2>1, <2>2
             DEF WasListed, StillListed, Running, StagedPoints, PartPoints
<1>37. CASE ResumeRefused
  <2>1. /\ durable' = durable /\ pc' = "idle" /\ cmd' = "none"
    BY <1>37 DEF ResumeRefused, Stop, store
  <2>2. \A k \in Parts : Exists(Stg(k))' => Exists(Stg(k))
    <3>1. fs' = fs
      BY <1>37 DEF ResumeRefused, store
    <3> QED BY <3>1 DEF Exists, Stg
  <2> QED BY <1>3, <1>7, <1>8, <1>9, <2>1, <2>2
             DEF WasListed, StillListed, Running, StagedPoints, PartPoints
<1>38. CASE ResumeMove
  <2>1. /\ pc = "intent" /\ cmd = "resume" /\ cmd' \in {cmd, "none"}
        /\ durable' \in {durable, WithPending(mem, at, PlannedSource(at))}
        /\ \/ /\ pc' \in {"move", "checkpoint"}
              /\ mem' \in {mem, WithPending(mem, at, PlannedSource(at)), WithoutOutput(mem, at)}
           \/ pc' = "idle" /\ cmd' = "none"
    BY <1>38 DEF ResumeMove, ToResume, Put, Goto, Stop
  <2>2. \A k \in Parts : Exists(Stg(k))' => Exists(Stg(k))
    <3>1. fs' = fs
      BY <1>38 DEF ResumeMove, store
    <3> QED BY <3>1 DEF Exists, Stg
  <2> QED BY <1>3, <1>7, <1>8, <1>9, <2>1, <2>2
             DEF WasListed, StillListed, Running, StagedPoints, PartPoints
<1>39. CASE Crash
  <2>1. /\ durable' = durable /\ pc' = "idle" /\ cmd' = "none"
    BY <1>39 DEF Crash, Stop, store
  <2>2. \A k \in Parts : Exists(Stg(k))' => Exists(Stg(k))
    <3>1. fs' = fs
      BY <1>39 DEF Crash, store
    <3> QED BY <3>1 DEF Exists, Stg
  <2> QED BY <1>3, <1>7, <1>8, <1>9, <2>1, <2>2
             DEF WasListed, StillListed, Running, StagedPoints, PartPoints
<1>40. CASE OutsideChange
  <2>1. UNCHANGED <<durable, mem, cmd, pc, at>>
    BY <1>40 DEF OutsideChange, proc
  <2>2. \A k \in Parts : Exists(Stg(k))' => Exists(Stg(k))
    <3>1. PICK k \in Parts, role \in {"src", "dst"} :
            LET p == <<role, IF role = "src" THEN ItemOf(k) ELSE k>>
            IN  \/ fs' = [fs EXCEPT ![p] = [id |-> Fresh, data |-> Outside]]
                \/ fs' = Removed(p)
      BY <1>40 DEF OutsideChange
    <3>2. \A q \in Parts : fs'[Stg(q)] = fs[Stg(q)]
      BY <1>1, <1>2, <3>1 DEF Removed, Stg
    <3> QED BY <3>2 DEF Exists, Stg
  <2> QED BY <1>3, <1>7, <1>8, <1>9, <2>1, <2>2
             DEF WasListed, StillListed, Running, StagedPoints, PartPoints
<1>41. CASE Hold
  <2>1. UNCHANGED <<fs, durable, mem, cmd, pc, at>>
    BY <1>41 DEF Hold, store, proc
  <2>2. \A k \in Parts : Exists(Stg(k))' => Exists(Stg(k))
    BY <2>1 DEF Exists, Stg
  <2> QED BY <1>3, <1>7, <1>8, <1>9, <2>1, <2>2
             DEF WasListed, StillListed, Running, StagedPoints, PartPoints
<1> QED BY <1>41, <1>11, <1>12, <1>13, <1>14, <1>15, <1>16, <1>17, <1>18, <1>19,
          <1>20, <1>21, <1>22, <1>23, <1>24, <1>25, <1>26, <1>27, <1>28,
          <1>29, <1>30, <1>31, <1>32, <1>33, <1>34, <1>35, <1>36, <1>37,
          <1>38, <1>39, <1>40
      DEF Next, Process, Apply, Staging, Reversal, Command, Resuming

-----------------------------------------------------------------------------
(* The theorems.                                                           *)

(* Before the operation starts nothing is changed.                         *)
LEMMA RecoverySafeFirst == Init => RecoverySafe
<1> SUFFICES ASSUME Init PROVE RecoverySafe
  OBVIOUS
<1>1. /\ N \in Nat /\ N > 0 /\ op \in Plan /\ pc = "planned" /\ cmd = "apply" /\ ~stale
      /\ durable = NoJournal /\ mem = NoJournal
  BY JournalAssumption DEF Init
<1>2. /\ \A i \in Items : fs[Src(i)] = PlannedSource(i)
      /\ \A k \in Parts : fs[Dst(k)] = PlannedOutput(k) /\ fs[Stg(k)] = NoFile
  BY <1>1, PartsOfItems, Places DEF Init, Src, Dst, Stg
<1>3. \A k \in Parts : ~Changed(k)
  <2>1. \A k \in Parts : ~Holds(k)
    <3>1. 0 \notin Items
      BY <1>1 DEF Items
    <3>2. ASSUME NEW k \in Parts PROVE fs[Dst(k)].data = 0
      <4>1. fs[Dst(k)] = PlannedOutput(k)
        BY <1>2
      <4> QED BY <4>1 DEF PlannedOutput, NoFile, Old
    <3> QED BY <3>1, <3>2 DEF Holds, Exists
  <2>2. \A k \in Parts : ~Gone(k)
    <3>1. \A i \in Items : i # 0
      BY <1>1 DEF Items
    <3>2. ASSUME NEW i \in Items PROVE fs[Src(i)].id # 0
      <4>1. fs[Src(i)] = PlannedSource(i)
        BY <1>2
      <4> QED BY <3>1, <4>1 DEF PlannedSource
    <3> QED BY <3>2 DEF Gone, Exists
  <2> QED BY <2>1, <2>2 DEF Changed
<1>4. \A k \in Parts : ~Exists(Stg(k))
  BY <1>2 DEF Exists, NoFile
<1>5. Written /\ Ahead
  BY <1>1, <1>3 DEF Written, Ahead, Running, PartPoints, StagedPoints
<1>6. Reversed
  BY <1>1 DEF Reversed, SaysReversed, NoJournal
<1>7. Staged
  BY <1>1, <1>4 DEF Staged, StagedPoints
<1> QED BY <1>5, <1>6, <1>7, ItemsSafeFirst DEF RecoverySafe

(* ... and every step keeps the invariant.                                 *)
LEMMA RecoverySafeStep == RecoverySafe /\ [Next]_vars => RecoverySafe'
<1> SUFFICES ASSUME RecoverySafe, [Next]_vars PROVE RecoverySafe'
  OBVIOUS
<1>1. ItemsSafe'
  BY ItemsSafeStep DEF RecoverySafe
<1>2. CASE Next
  BY <1>1, <1>2, WrittenStep, AheadStep, ReversedStep, StagedStep DEF RecoverySafe
<1>3. CASE UNCHANGED vars
  <2>1. /\ UNCHANGED <<op, fs, durable, mem, cmd, pc, at, half, complete, faults, stale, hit>>
        /\ Parts' = Parts
    BY <1>3 DEF vars, store, proc, besides, Parts, NumParts
  <2>2. \A k \in Parts : Changed(k)' <=> Changed(k)
    BY <2>1 DEF Changed, Holds, Gone, Exists, Moving
  <2>3. Written' /\ Ahead'
    BY <2>1, <2>2 DEF RecoverySafe, Written, Ahead, Running, UpToDate, Names, SaysReversed
  <2>4. Reversed'
    BY <2>1, <2>2 DEF RecoverySafe, Reversed, SaysReversed, Names
  <2>5. Staged'
    BY <2>1 DEF RecoverySafe, Staged, Running, UpToDate, Superseded, SaysReversed, Exists, Stg
  <2> QED BY <1>1, <2>3, <2>4, <2>5 DEF RecoverySafe
<1> QED BY <1>2, <1>3

(* Written ahead: a crash at any step of apply, undo, rollback or recover  *)
(* leaves a journal that names every published output, every source moved  *)
(* away and, unless a file operation failed, every staging file; until     *)
(* undo or rollback has stored, as reversed, a journal that is older than  *)
(* the one in the database.                                                *)
THEOREM EveryChangeIsNamed == Spec => []JournalNamesEveryChange
<1>1. RecoverySafe => JournalNamesEveryChange
  <2> SUFFICES ASSUME RecoverySafe, ~Superseded
               PROVE  /\ \A k \in Parts :
                           Exists(Dst(k)) /\ fs[Dst(k)].data \in Items => k \in Listed(durable)
                      /\ Moving => \A i \in Items \ hit : ~Exists(Src(i)) => i \in Listed(durable)
                      /\ faults["file"] = 0 =>
                           \A k \in Parts : Exists(Stg(k)) => k \in durable.staging
    BY DEF JournalNamesEveryChange, Superseded
  <2>1. \A k \in Parts : Changed(k) => k \in Listed(durable)
    BY DEF RecoverySafe, Written, Reversed, Superseded, Names, Listed
  <2>2. \A k \in Parts : Exists(Dst(k)) /\ fs[Dst(k)].data \in Items => k \in Listed(durable)
    BY <2>1 DEF Changed, Holds
  <2>3. Moving => \A i \in Items \ hit : ~Exists(Src(i)) => i \in Listed(durable)
    BY <2>1, PartsOfItems DEF Changed, Gone, RecoverySafe, ItemsSafe, TypeOK
  <2>4. faults["file"] = 0 => \A k \in Parts : Exists(Stg(k)) => k \in durable.staging
    BY DEF RecoverySafe, Staged
  <2> QED BY <2>2, <2>3, <2>4
<1> QED BY RecoverySafeFirst, RecoverySafeStep, <1>1, PTL DEF Spec

(* rollback, undo and the rollback of a failed apply write their status    *)
(* only when the sources of the outputs in the journal they write are back *)
(* and none of those outputs is left; and when no command has been given   *)
(* an older journal, those are all the outputs there are.                  *)
THEOREM ReversalsTellTheTruth == Spec => []ReversedMeansRestored
<1>1. RecoverySafe => ReversedMeansRestored
  <2> SUFFICES ASSUME RecoverySafe, SaysReversed(durable),
                      NEW k \in Parts, k \in Listed(durable) \/ ~stale
               PROVE  /\ fs[Dst(k)].data \notin Items
                      /\ ItemOf(k) \notin hit =>
                           fs[Src(ItemOf(k))].data = ItemOf(k) /\ Exists(Src(ItemOf(k)))
    BY DEF ReversedMeansRestored
  <2>1. ~Changed(k)
    BY DEF RecoverySafe, Reversed, Listed, Names
  <2>2. op \in Plan /\ fs \in Files /\ \A i \in Items \ hit : Kept(i)
    BY DEF RecoverySafe, ItemsSafe, TypeOK
  <2>3. ASSUME ItemOf(k) \notin hit
        PROVE  fs[Src(ItemOf(k))].data = ItemOf(k) /\ Exists(Src(ItemOf(k)))
    <3>1. Kept(ItemOf(k)) /\ ItemOf(k) \in Items
      BY <2>2, <2>3, PartsOfItems
    <3>2. ~Exists(Src(ItemOf(k))) => Moving
      BY <3>1 DEF Kept
    <3>3. Moving => ItemOf(k) = k
      BY <2>2, PartsOfItems
    <3>4. Exists(Src(ItemOf(k)))
      BY <2>1, <2>3, <3>1, <3>2, <3>3 DEF Changed, Gone
    <3> QED BY <3>1, <3>4 DEF Kept
  <2>4. fs[Dst(k)].data \notin Items
    <3> SUFFICES ASSUME fs[Dst(k)].data \in Items PROVE FALSE
      OBVIOUS
    <3>1. ~Exists(Dst(k))
      BY <2>1 DEF Changed, Holds
    <3>2. fs[Dst(k)] = NoFile
      BY <2>2, <3>1, PartsOfItems, Places DEF Exists, Files
    <3> QED BY <3>2 DEF NoFile, Items
  <2> QED BY <2>3, <2>4
<1> QED BY RecoverySafeFirst, RecoverySafeStep, <1>1, PTL DEF Spec

=============================================================================
