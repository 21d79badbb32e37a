-------------------------- MODULE OperationJournal --------------------------
(***************************************************************************)
(* Planned file operations and their journal (src/operation.rs): `apply`   *)
(* of a copy, move, delete or compress plan, `undo`, `rollback` and        *)
(* `recover`, over a file system other programs also write.                *)
(*                                                                         *)
(* Every file operation and every write of the journal is an action of its *)
(* own; the shell may be killed between any two of them, a file operation  *)
(* or a journal write may fail, and another program may change a source or *)
(* an output.  One operation is followed, with any number of commands      *)
(* about it, and shell variables that hold its journal as it once was:     *)
(* `undo` and `rollback` reverse the journal they are given, and store it. *)
(*                                                                         *)
(* An operation has N items.  Each item has one output, or, for an archive *)
(* with a backup, two; the outputs are its parts, in order.                *)
(*                                                                         *)
(* ExistsOnly, WithDoneOnly, LoopEarly, PublishUnlogged, RemoveAlways,     *)
(* NextUnchecked, RollbackPastFirst and PendingRefused are faulty variants *)
(* of the definitions after them.                                          *)
(***************************************************************************)
EXTENDS Integers, FiniteSets

CONSTANTS
  N,          \* items of the operation
  Kinds,      \* the kinds of operation planned
  Crossing,   \* a set of Booleans: may a move go to another volume
  Variables,  \* shell variables that may hold the journal
  MaxFaults   \* crashes, failures and outside changes in a behaviour

AllKinds == {"copy", "move", "delete", "compress"}
FaultKinds == {"crashed_apply", "crashed_resume", "crashed_reversal", "put", "file",
               "outside"}

ASSUME JournalAssumption ==
  /\ N \in Nat \ {0}
  /\ Kinds \subseteq AllKinds
  /\ Crossing \subseteq BOOLEAN
  /\ IsFiniteSet(Variables)
  /\ MaxFaults \in Nat

Items == 1..N

VARIABLES
  op,       \* the plan: its kind, whether it forces, backs up or crosses volumes,
            \* and the outputs that existed when it was made
  fs,       \* the file at each path
  durable,  \* the journal in the database
  mem,      \* the journal in the memory of the running command
  cmd,      \* the running command
  pc,       \* where it is
  at,       \* the part it works on
  half,     \* a move to another volume has copied, and not yet removed
  complete, \* no step of the running rollback has failed
  faults,   \* how often each kind of fault has occurred
  held,     \* the journal in each shell variable
  stale,    \* a command has reversed a journal other than the one in the database
  hit,      \* items another program has changed a file of
  raced     \* another program has changed a file since the running command
            \* validated the files

store == <<fs, durable>>
proc == <<mem, cmd, pc, at, half, complete>>
besides == <<held, stale, hit, raced>>
vars == <<op, store, proc, faults, besides>>

-----------------------------------------------------------------------------
(* Files.  A file has an identity (volume, file index, size and time of    *)
(* modification) and data: that of an item, of an output that was there    *)
(* before, of another program, or copied from a file of another program.   *)

Old == 0
Outside == N + 1
CopyOfOutside == N + 2

NoFile == [id |-> 0, data |-> 0]
File == [id : Nat, data : 0..(N + 2)]

MaxParts == 2 * N
Path == {"src"} \X Items \cup {"dst", "stg", "tmp"} \X (1..MaxParts)

Src(i) == <<"src", i>>
Dst(k) == <<"dst", k>>  \* the output, or the quarantine path of a delete
Stg(k) == <<"stg", k>>  \* staging_path
Tmp(k) == <<"tmp", k>>  \* copy_temp_path

(* An item's archive comes before its backup.                              *)
NumParts == IF op.backup THEN 2 * N ELSE N
Parts == 1..NumParts
ItemOf(k) == IF op.backup THEN (k + 1) \div 2 ELSE k
IsBackup(k) == op.backup /\ k % 2 = 0
LastOfItem(k) == ~op.backup \/ IsBackup(k)
SourceOf(k) == IF IsBackup(k) THEN Dst(k - 1) ELSE Src(ItemOf(k))

Moving == op.kind \in {"move", "delete"}
Exists(p) == fs[p].id # 0

(* The identities the journals remember, and one that is new.              *)
Identities(j) == {j.outputs[k].file.id : k \in 1..MaxParts}
Used == {fs[p].id : p \in Path} \cup Identities(durable) \cup Identities(mem)
          \cup 0..(N + MaxParts) \cup UNION {Identities(held[v]) : v \in Variables}
Fresh == CHOOSE n \in 1..(Cardinality(Used) + 1) : n \notin Used

Removed(p) == [fs EXCEPT ![p] = NoFile]
Renamed(from, to) == [fs EXCEPT ![to] = fs[from], ![from] = NoFile]
Copied(from, to) ==
  [fs EXCEPT ![to] = [id |-> Fresh, data |-> IF fs[from].data = Outside THEN CopyOfOutside
                                             ELSE fs[from].data]]

(* The files the plan recorded.                                            *)
PlannedSource(i) == [id |-> i, data |-> i]
PlannedOutput(k) == IF k \in op.before THEN [id |-> N + k, data |-> Old] ELSE NoFile

-----------------------------------------------------------------------------
(* The journal.                                                            *)

Statuses == {"none", "in_progress", "applied", "failed", "partially_applied",
             "rolled_back", "undone"}
NoOutput == [role |-> "none", file |-> NoFile]
Output == [role : {"none", "pending", "done"}, file : File]

Journal == [status : Statuses, undo_safe : BOOLEAN, outputs : [1..MaxParts -> Output],
            staging : SUBSET (1..MaxParts), remaining : SUBSET Items]

NoJournal == [status |-> "none", undo_safe |-> FALSE,
              outputs |-> [k \in 1..MaxParts |-> NoOutput],
              staging |-> {}, remaining |-> {}]

NeedsRecovery(j) == j.status \in {"in_progress", "partially_applied", "failed"}

Listed(j) == {k \in Parts : j.outputs[k].role # "none"}
PendingIn(j, k) == j.outputs[k].role = "pending"

WithStaging(j, k) == [j EXCEPT !.staging = @ \cup {k}]
WithoutStaging(j, k) == [j EXCEPT !.staging = @ \ {k}]
WithPending(j, k, file) == [j EXCEPT !.outputs[k] = [role |-> "pending", file |-> file]]
WithoutOutput(j, k) == [j EXCEPT !.outputs[k] = NoOutput]
WithDoneOnly(j, k, file) ==
  [j EXCEPT !.outputs[k] = [role |-> "done", file |-> file]]

WithDone(j, k, file) ==
  [j EXCEPT !.outputs[k] = [role |-> "done", file |-> file],
            !.remaining = IF op.kind = "compress" THEN @ ELSE @ \ {ItemOf(k)}]

ExistsOnly(file, p) == Exists(p)

(* validate_record: the file at p is still the one recorded.               *)
Valid(file, p) == Exists(p) /\ fs[p] = file

-----------------------------------------------------------------------------
(* How a command goes on.                                                  *)

Fault(x) ==
  /\ faults["crashed_apply"] + faults["crashed_resume"] + faults["crashed_reversal"]
       + faults["put"] + faults["file"] + faults["outside"] < MaxFaults
  /\ faults' = [faults EXCEPT ![x] = @ + 1]

NoFault == UNCHANGED faults

Goto(p, k) == pc' = p /\ at' = k /\ UNCHANGED <<cmd, half, complete>>

Stop ==
  /\ cmd' = "none" /\ pc' = "idle" /\ at' = 0 /\ half' = FALSE /\ complete' = TRUE
  /\ mem' = NoJournal

LoopEarly(k) == IF k >= NumParts THEN "finish" ELSE "intent"

(* Where the loop over the parts goes after part k - 1.                    *)
Loop(k) == IF k > NumParts THEN "finish" ELSE "intent"

(* An error: apply rolls back or only records the failure, a resume        *)
(* returns and leaves the journal as it was last written.                  *)
Fail(how, j) ==
  IF cmd = "resume" THEN Stop
  ELSE /\ mem' = j /\ pc' = how /\ at' = NumParts
       /\ half' = FALSE /\ complete' = TRUE /\ UNCHANGED cmd

(* put_journal(j).                                                         *)
Put(j, Then, Else) ==
  \/ durable' = j /\ NoFault /\ Then
  \/ Fault("put") /\ UNCHANGED durable /\ Else

(* A file operation that fails.                                            *)
FileError(Impossible) == IF Impossible THEN NoFault ELSE Fault("file")

(* move_one(from, to, force): a rename, or to another volume a copy and a  *)
(* removal; when that fails the copy is taken back.                        *)
MoveOne(from, to, force, Then, Else) ==
  \/ /\ ~half /\ Exists(from) /\ Exists(to) /\ force
     /\ fs' = Removed(to) /\ NoFault /\ UNCHANGED <<durable, proc>>
  \/ /\ ~half /\ ~op.crossing /\ Exists(from) /\ ~Exists(to)
     /\ fs' = Renamed(from, to) /\ NoFault /\ Then
  \/ /\ ~half /\ op.crossing /\ Exists(from) /\ ~Exists(to)
     /\ fs' = Copied(from, to) /\ NoFault
     /\ half' = TRUE /\ UNCHANGED <<durable, mem, cmd, pc, at, complete>>
  \/ /\ half /\ Exists(from)
     /\ fs' = Removed(from) /\ NoFault /\ Then
  \/ /\ FileError(~Exists(from) \/ (~half /\ Exists(to) /\ ~force))
     /\ fs' = IF half THEN Removed(to) ELSE fs
     /\ Else

-----------------------------------------------------------------------------
(* apply.                                                                  *)

(* undo_safe: no output is about to be replaced.  For an archive that is   *)
(* looked up now, for a transfer it was when the plan was made.            *)
UndoSafe ==
  CASE op.kind = "delete" -> TRUE
    [] op.kind = "compress" -> \A k \in Parts : ~Exists(Dst(k))
    [] OTHER -> op.before = {}

ApplyStart ==
  LET j == [NoJournal EXCEPT !.status = "in_progress", !.undo_safe = UndoSafe,
                             !.remaining = Items]
  IN /\ pc = "planned"
     /\ Put(j, mem' = j /\ Goto("validate", 0), Stop)
     /\ UNCHANGED <<op, fs, besides>>

(* Drift of a source, or of an output since the plan, or an output that    *)
(* may not be replaced: the operation fails before it touches a file.      *)
OutputAsPlanned(k) ==
  CASE op.kind = "delete" -> TRUE
    [] op.kind = "compress" -> Exists(Dst(k)) => op.force
    [] OTHER -> /\ fs[Dst(k)] = PlannedOutput(k)
                /\ Exists(Dst(k)) => op.force

AsPlanned ==
  /\ \A i \in Items : Valid(PlannedSource(i), Src(i))
  /\ \A k \in Parts : OutputAsPlanned(k)

Validate ==
  /\ pc = "validate"
  /\ IF AsPlanned THEN Goto("intent", 1) /\ UNCHANGED mem ELSE Fail("fail", mem)
  /\ UNCHANGED <<op, store, faults, besides>>

(* checkpoint_staging.  A resume first checks that the source is unchanged *)
(* and, for a copy, that the output is free.                               *)
MayRebuild(k) ==
  /\ ~PendingIn(mem, k)
  /\ op.kind = "copy" => ~Exists(Dst(k))
  /\ IF IsBackup(k) THEN TRUE ELSE Valid(PlannedSource(ItemOf(k)), Src(ItemOf(k)))

StageIntent ==
  LET j == WithStaging(mem, at)
  IN /\ pc = "intent" /\ ~Moving
     /\ cmd = "resume" => (ItemOf(at) \in mem.remaining /\ mem.outputs[at].role # "done")
     /\ cmd = "resume" => MayRebuild(at)
     /\ Put(j, mem' = j /\ Goto("stage", at), Fail("rollback", mem))
     /\ UNCHANGED <<op, fs, besides>>

(* The error path of a staged part, which removes the staging file.        *)
FailStaged(j) ==
  IF cmd = "resume" THEN Stop ELSE mem' = j /\ Goto("discard", at)

(* copy_one to the staging path, without force: it copies to a temporary   *)
(* file and renames that.  An archive, or its backup, is written at the    *)
(* staging path itself, in place of what is there.                         *)
Stage ==
  /\ pc = "stage"
  /\ \/ /\ op.kind = "copy" /\ Exists(Src(at)) /\ ~Exists(Stg(at))
        /\ fs' = Copied(Src(at), Tmp(at)) /\ NoFault
        /\ Goto("rename", at) /\ UNCHANGED mem
     \/ /\ op.kind = "compress" /\ Exists(SourceOf(at))
        /\ fs' = Copied(SourceOf(at), Stg(at)) /\ NoFault
        /\ Goto("publish_intent", at) /\ UNCHANGED mem
     \/ /\ FileError(~Exists(SourceOf(at)) \/ (op.kind = "copy" /\ Exists(Stg(at))))
        /\ FailStaged(IF op.kind = "copy" THEN WithoutStaging(mem, at) ELSE mem)
        /\ UNCHANGED fs
  /\ UNCHANGED <<op, durable, besides>>

StageRename ==
  /\ pc = "rename"
  /\ \/ /\ fs' = Renamed(Tmp(at), Stg(at)) /\ NoFault
        /\ Goto("publish_intent", at) /\ UNCHANGED mem
     \/ /\ Fault("file") /\ fs' = Removed(Tmp(at))
        /\ FailStaged(WithoutStaging(mem, at))
  /\ UNCHANGED <<op, durable, besides>>

Discard ==
  /\ pc = "discard"
  /\ \/ fs' = Removed(Stg(at)) /\ NoFault
     \/ Exists(Stg(at)) /\ Fault("file") /\ UNCHANGED fs
  /\ Fail("rollback", mem)
  /\ UNCHANGED <<op, durable, besides>>

PublishUnlogged ==
  /\ pc = "publish_intent"
  /\ mem' = WithPending(mem, at, fs[Stg(at)]) /\ Goto("publish", at)
  /\ UNCHANGED <<op, store, faults, besides>>

(* The record of the staged file goes into the journal, under the path it  *)
(* will have, before it is published.                                      *)
PublishIntent ==
  LET j == WithPending(mem, at, fs[Stg(at)])
      dropped == IF op.kind = "copy" THEN WithoutStaging(mem, at) ELSE mem
  IN /\ pc = "publish_intent"
     /\ Put(j, mem' = j /\ Goto("publish", at), FailStaged(dropped))
     /\ UNCHANGED <<op, fs, besides>>

(* publish_staged; a resume never forces.                                  *)
Forces == op.force /\ cmd # "resume"
Published(j, k) == WithoutStaging(WithoutOutput(j, k), k)

Publish ==
  /\ pc = "publish"
  /\ \/ /\ Exists(Dst(at)) /\ Forces
        /\ fs' = Removed(Dst(at)) /\ NoFault /\ UNCHANGED proc
     \/ /\ ~Exists(Dst(at))
        /\ fs' = Renamed(Stg(at), Dst(at)) /\ NoFault
        /\ mem' = Published(mem, at) /\ Goto("checkpoint", at)
     \/ /\ FileError(Exists(Dst(at)) /\ ~Forces) /\ UNCHANGED fs
        /\ FailStaged(Published(mem, at))
  /\ UNCHANGED <<op, durable, besides>>

(* The output as it now is goes into the journal.  A transfer that cannot  *)
(* write it fails without rolling back, an archive rolls back.             *)
AfterCheckpoint(k) ==
  IF op.kind = "compress" /\ LastOfItem(k)
    THEN Goto("item_done", k) ELSE Goto(Loop(k + 1), k + 1)

Checkpoint ==
  LET j == WithDone(mem, at, fs[Dst(at)])
      how == IF op.kind = "compress" THEN "rollback" ELSE "fail"
  IN /\ pc = "checkpoint"
     /\ IF Exists(Dst(at))
          THEN Put(j, mem' = j /\ AfterCheckpoint(at), Fail(how, j))
          ELSE NoFault /\ UNCHANGED durable /\ Fail(how, mem)
     /\ UNCHANGED <<op, fs, besides>>

(* remaining_archives drops an item once its backup is checkpointed.       *)
ItemDone ==
  LET j == [mem EXCEPT !.remaining = @ \ {ItemOf(at)}]
  IN /\ pc = "item_done"
     /\ Put(j, mem' = j /\ Goto(Loop(at + 1), at + 1), Fail("fail", j))
     /\ UNCHANGED <<op, fs, besides>>

(* The intent of a move records the source's identity under the new path.  *)
(* When it cannot be written a move rolls back; a delete does not, and     *)
(* keeps the intent in the journal it then marks failed.                   *)
MoveIntent ==
  LET j == WithPending(mem, at, PlannedSource(at))
      failed == IF op.kind = "delete" THEN Fail("fail", j) ELSE Fail("rollback", mem)
  IN /\ pc = "intent" /\ Moving /\ cmd = "apply"
     /\ Put(j, mem' = j /\ Goto("move", at), failed)
     /\ UNCHANGED <<op, fs, besides>>

Move ==
  /\ pc = "move"
  /\ MoveOne(Src(at), Dst(at), Forces,
       /\ mem' = WithoutOutput(mem, at) /\ pc' = "checkpoint" /\ half' = FALSE
       /\ UNCHANGED <<durable, cmd, at, complete>>,
       UNCHANGED durable /\ Fail("rollback", WithoutOutput(mem, at)))
  /\ UNCHANGED <<op, besides>>

Finish ==
  LET j == [mem EXCEPT !.status = "applied", !.staging = {}]
  IN /\ pc = "finish"
     /\ IF cmd = "resume" /\ (mem.remaining # {} \/ \E k \in mem.staging : Exists(Stg(k)))
          THEN UNCHANGED durable /\ NoFault /\ Stop
          ELSE Put(j, Stop, Stop)
     /\ UNCHANGED <<op, fs, besides>>

(* The failed operation records its error; what cannot be written is       *)
(* ignored.                                                                *)
ApplyFails ==
  LET j == [mem EXCEPT !.status = IF @ = "in_progress" THEN "failed" ELSE @]
  IN /\ pc = "fail"
     /\ Put(j, Stop, Stop)
     /\ UNCHANGED <<op, fs, besides>>

-----------------------------------------------------------------------------
(* Reversing outputs.                                                      *)

Begin(c, j, p, k) ==
  /\ cmd' = c /\ mem' = j /\ pc' = p /\ at' = k
  /\ raced' = FALSE /\ UNCHANGED <<half, complete>>

RemoveAlways(k, Then, Else) ==
  \/ Exists(Dst(k)) /\ fs' = Removed(Dst(k)) /\ NoFault /\ Then
  \/ FileError(~Exists(Dst(k))) /\ UNCHANGED fs /\ Else

(* One output: a moved file goes back, a created one is removed.           *)
Reverse(k, Then, Else) ==
  IF Moving
    THEN MoveOne(Dst(k), Src(k), FALSE, Then, Else)
    ELSE \/ Exists(Dst(k)) /\ fs' = Removed(Dst(k)) /\ NoFault /\ Then
         \/ FileError(~Exists(Dst(k))) /\ UNCHANGED fs /\ Else

NextUnchecked(ok) ==
  /\ at' = at - 1 /\ half' = FALSE /\ UNCHANGED complete
  /\ UNCHANGED <<durable, mem, cmd, pc>>

(* transactional_rollback: from the last output to the first, going on     *)
(* after a failure.                                                        *)
RollbackNext(ok) ==
  /\ at' = at - 1 /\ half' = FALSE /\ complete' = (complete /\ ok)
  /\ UNCHANGED <<durable, mem, cmd, pc>>

RollbackPastFirst ==
  /\ pc = "rollback" /\ mem.undo_safe /\ at >= 0
  /\ IF at \in Listed(mem)
       THEN Reverse(at, RollbackNext(TRUE), RollbackNext(FALSE))
       ELSE UNCHANGED fs /\ NoFault /\ RollbackNext(TRUE)
  /\ UNCHANGED <<op, besides>>

RollbackStep ==
  /\ pc = "rollback" /\ mem.undo_safe /\ at > 0
  /\ IF at \in Listed(mem)
       THEN Reverse(at, RollbackNext(TRUE), RollbackNext(FALSE))
       ELSE UNCHANGED fs /\ NoFault /\ RollbackNext(TRUE)
  /\ UNCHANGED <<op, besides>>

(* apply writes the outcome and then fails; a command writes it only when  *)
(* everything was reversed.                                                *)
RollbackEnd ==
  LET done == mem.undo_safe /\ complete
      j == [mem EXCEPT !.status = IF done THEN "rolled_back" ELSE "partially_applied"]
  IN /\ pc = "rollback" /\ (at = 0 \/ ~mem.undo_safe)
     /\ CASE cmd = "apply" -> Put(j, mem' = j /\ Goto("fail", 0), mem' = j /\ Goto("fail", 0))
          [] cmd # "apply" /\ done -> Put(j, Stop, Stop)
          [] OTHER -> UNCHANGED durable /\ NoFault /\ Stop
     /\ UNCHANGED <<op, fs, besides>>

(* Every output is the file recorded and every original path is free.      *)
Reversible(j, k) ==
  /\ Valid(j.outputs[k].file, Dst(k))
  /\ Moving => ~Exists(Src(k))

(* `let v = journal ID`: the variable keeps the journal as it is now.  One *)
(* that no command accepts is as good as none.                             *)
Hold ==
  /\ pc = "idle" /\ (NeedsRecovery(durable) \/ durable.status = "applied")
  /\ \E v \in Variables : held' = [held EXCEPT ![v] = durable]
  /\ UNCHANGED <<op, store, proc, faults, stale, hit, raced>>

(* The journals that can be piped to undo or rollback.                     *)
Piped == {durable} \cup {held[v] : v \in Variables}

(* `undo`: reverses the outputs in their order, up to the first failure.   *)
UndoAccepts(j) ==
  j.status = "applied" /\ j.undo_safe /\ \A k \in Listed(j) : Reversible(j, k)

Undo ==
  /\ pc = "idle"
  /\ \E j \in Piped :
       /\ UndoAccepts(j)
       /\ Begin("undo", j, "undo", 1)
       /\ stale' = (stale \/ j # durable)
  /\ UNCHANGED <<op, store, faults, held, hit>>

UndoNext ==
  /\ at' = at + 1 /\ half' = FALSE
  /\ UNCHANGED <<durable, mem, cmd, pc, complete>>

UndoStep ==
  /\ pc = "undo" /\ at <= NumParts
  /\ IF at \in Listed(mem)
       THEN Reverse(at, UndoNext, UNCHANGED durable /\ Stop)
       ELSE UNCHANGED fs /\ NoFault /\ UndoNext
  /\ UNCHANGED <<op, besides>>

UndoEnd ==
  /\ pc = "undo" /\ at = NumParts + 1
  /\ Put([mem EXCEPT !.status = "undone"], Stop, Stop)
  /\ UNCHANGED <<op, fs, besides>>

(* `rollback`, of a journal that was not finished.                         *)
RollbackAccepts(j) ==
  NeedsRecovery(j) /\ j.undo_safe /\ \A k \in Listed(j) : Reversible(j, k)

Rollback ==
  /\ pc = "idle"
  /\ \E j \in Piped :
       /\ RollbackAccepts(j)
       /\ Begin("rollback", j, "rollback", NumParts)
       /\ stale' = (stale \/ j # durable)
  /\ UNCHANGED <<op, store, faults, held, hit>>

(* `recover --rollback`.  A pending output that was never published counts *)
(* as not there: its source is still in place, or its staging file is.     *)
Unpublished(j, k) == PendingIn(j, k) /\ ~Exists(Dst(k))

StagedMatch(j, k) == \E s \in j.staging : Valid(j.outputs[k].file, Stg(s))

PendingRefused(j) ==
  NeedsRecovery(j) /\ j.undo_safe /\ \A k \in Listed(j) : Reversible(j, k)

RecoverAccepts(j) ==
  /\ NeedsRecovery(j) /\ j.undo_safe
  /\ \A k \in Listed(j) :
       IF Unpublished(j, k)
         THEN IF Moving THEN Valid(j.outputs[k].file, Src(k)) ELSE StagedMatch(j, k)
         ELSE Reversible(j, k)

WithoutUnpublished(j) ==
  [j EXCEPT !.outputs = [k \in 1..MaxParts |->
                           IF Unpublished(j, k) THEN NoOutput ELSE j.outputs[k]]]

RecoverRollback ==
  /\ pc = "idle" /\ RecoverAccepts(durable)
  /\ Begin("recover", WithoutUnpublished(durable), "unstage", 0)
  /\ UNCHANGED <<op, store, faults, held, stale, hit>>

(* The staging files are removed one by one, then rollback() validates the *)
(* outputs once more.                                                      *)
Unstage ==
  /\ pc = "unstage"
  /\ \E k \in mem.staging :
       /\ \A s \in mem.staging : s >= k
       /\ \/ /\ fs' = Removed(Stg(k)) /\ NoFault
             /\ mem' = WithoutStaging(mem, k) /\ UNCHANGED <<cmd, pc, at, half, complete>>
          \/ /\ Exists(Stg(k)) /\ Fault("file") /\ UNCHANGED fs /\ Stop
  /\ UNCHANGED <<op, durable, besides>>

Revalidate ==
  /\ pc = "unstage" /\ mem.staging = {}
  /\ IF RollbackAccepts(mem) THEN Goto("rollback", NumParts) /\ UNCHANGED mem ELSE Stop
  /\ UNCHANGED <<op, store, faults, besides>>

-----------------------------------------------------------------------------
(* `recover --resume` of a copy, a move or an archive.                     *)

ResumeAccepts(j) ==
  /\ NeedsRecovery(j) /\ j.undo_safe /\ op.kind # "delete"
  /\ \A k \in Listed(j) : ~PendingIn(j, k) =>
       /\ Valid(j.outputs[k].file, Dst(k))
       /\ Moving => ~Exists(Src(k))

Resume ==
  /\ pc = "idle" /\ ResumeAccepts(durable)
  /\ Begin("resume", durable, "intent", 1)
  /\ UNCHANGED <<op, store, faults, held, stale, hit>>

(* A part that is done, or whose item is.                                  *)
ResumeSkip ==
  /\ cmd = "resume" /\ pc = "intent"
  /\ ItemOf(at) \notin mem.remaining \/ mem.outputs[at].role = "done"
  /\ IF ItemOf(at) \in mem.remaining THEN AfterCheckpoint(at) ELSE Goto(Loop(at + 1), at + 1)
  /\ UNCHANGED <<op, store, mem, faults, besides>>

ToResume(k) ==
  /\ cmd = "resume" /\ pc = "intent"
  /\ ItemOf(k) \in mem.remaining /\ mem.outputs[k].role # "done"

(* resume_pending_publication: a staged file that matches the record is    *)
(* published, a published one is accepted, anything else is refused.       *)
ResumeStaged ==
  LET staged == StagedMatch(mem, at)
      existing == {k \in mem.staging : Exists(Stg(k))}
      published == [WithoutOutput(mem, at) EXCEPT !.staging = existing]
  IN /\ ToResume(at) /\ ~Moving /\ PendingIn(mem, at)
     /\ \/ /\ staged /\ ~Exists(Dst(at))
           /\ fs' = Renamed(Stg(at), Dst(at)) /\ NoFault
           /\ mem' = Published(mem, at) /\ Goto("checkpoint", at)
        \/ /\ ~staged /\ existing = {} /\ Valid(mem.outputs[at].file, Dst(at))
           /\ mem' = published /\ Goto("checkpoint", at) /\ NoFault /\ UNCHANGED fs
        \/ /\ FileError(staged = Exists(Dst(at)) \/ (~staged /\ existing # {})
                         \/ (~staged /\ ~Valid(mem.outputs[at].file, Dst(at))))
           /\ Stop /\ UNCHANGED fs
     /\ UNCHANGED <<op, durable, besides>>

ResumeRefused ==
  /\ ToResume(at) /\ ~Moving /\ ~PendingIn(mem, at) /\ ~MayRebuild(at)
  /\ Stop
  /\ UNCHANGED <<op, store, faults, besides>>

(* A move: exactly one of source and destination exists, and it is the     *)
(* file recorded.                                                          *)
ResumeMove ==
  LET j == IF PendingIn(mem, at) THEN mem ELSE WithPending(mem, at, PlannedSource(at))
      unmoved == Valid(PlannedSource(at), Src(at)) /\ ~Exists(Dst(at))
      moved == /\ ~Exists(Src(at)) /\ PendingIn(mem, at)
               /\ Valid(mem.outputs[at].file, Dst(at))
  IN /\ ToResume(at) /\ Moving
     /\ CASE unmoved /\ j = mem -> Goto("move", at) /\ NoFault /\ UNCHANGED <<durable, mem>>
          [] unmoved /\ j # mem -> Put(j, mem' = j /\ Goto("move", at), Stop)
          [] moved -> /\ mem' = WithoutOutput(mem, at) /\ Goto("checkpoint", at)
                      /\ NoFault /\ UNCHANGED durable
          [] OTHER -> Stop /\ NoFault /\ UNCHANGED durable
     /\ UNCHANGED <<op, fs, besides>>

-----------------------------------------------------------------------------
(* Faults.                                                                 *)

Crash ==
  /\ pc # "idle" /\ pc # "planned"
  /\ Fault(CASE cmd = "apply" /\ pc # "rollback" -> "crashed_apply"
             [] cmd = "resume" -> "crashed_resume"
             [] OTHER -> "crashed_reversal")
  /\ Stop
  /\ held' = [v \in Variables |-> NoJournal]
  /\ UNCHANGED <<op, store, stale, hit, raced>>

(* Another program writes or removes a source or an output.                *)
OutsideChange ==
  \E k \in Parts, role \in {"src", "dst"} :
    LET p == <<role, IF role = "src" THEN ItemOf(k) ELSE k>>
    IN /\ Fault("outside")
       /\ \/ fs' = [fs EXCEPT ![p] = [id |-> Fresh, data |-> Outside]]
          \/ Exists(p) /\ fs' = Removed(p)
       /\ hit' = hit \cup {ItemOf(k)}
       /\ raced' = (raced \/ pc \notin {"planned", "validate", "idle"})
       /\ UNCHANGED <<op, durable, proc, held, stale>>

-----------------------------------------------------------------------------
Plan ==
  {o \in [kind : Kinds, force : BOOLEAN, backup : BOOLEAN, crossing : Crossing,
          before : SUBSET (1..MaxParts)] :
     /\ o.backup => o.kind = "compress"
     /\ o.crossing => o.kind = "move"
     /\ o.before \subseteq 1..(IF o.backup THEN 2 * N ELSE N)
     /\ o.kind = "delete" => (o.before = {} /\ ~o.force)}

Init ==
  /\ op \in Plan
  /\ fs = [p \in Path |->
             CASE p[1] = "src" -> PlannedSource(p[2])
               [] p[1] = "dst" -> PlannedOutput(p[2])
               [] OTHER -> NoFile]
  /\ durable = NoJournal /\ mem = NoJournal
  /\ cmd = "apply" /\ pc = "planned" /\ at = 0 /\ half = FALSE /\ complete = TRUE
  /\ faults = [x \in FaultKinds |-> 0]
  /\ held = [v \in Variables |-> NoJournal] /\ stale = FALSE
  /\ hit = {} /\ raced = FALSE

Apply == ApplyStart \/ Validate \/ MoveIntent \/ Finish \/ ApplyFails
Staging == StageIntent \/ Stage \/ StageRename \/ Discard \/ PublishIntent \/ Publish
Reversal == RollbackStep \/ RollbackEnd \/ UndoStep \/ UndoEnd \/ Unstage \/ Revalidate
Command == Hold \/ Undo \/ Rollback \/ RecoverRollback \/ Resume
Resuming == ResumeSkip \/ ResumeStaged \/ ResumeRefused \/ ResumeMove

Process ==
  Apply \/ Staging \/ Move \/ Checkpoint \/ ItemDone \/ Reversal \/ Command \/ Resuming

Next == Process \/ Crash \/ OutsideChange

Spec == Init /\ [][Next]_vars

-----------------------------------------------------------------------------
TypeOK ==
  /\ op \in Plan
  /\ fs \in [Path -> File]
  /\ durable \in Journal /\ mem \in Journal
  /\ cmd \in {"none", "apply", "undo", "rollback", "recover", "resume"}
  /\ pc \in {"idle", "planned", "validate", "intent", "stage", "rename", "discard",
             "publish_intent", "publish", "checkpoint", "item_done", "move", "finish",
             "fail", "rollback", "undo", "unstage"}
  /\ at \in 0..(MaxParts + 1)
  /\ half \in BOOLEAN /\ complete \in BOOLEAN
  /\ faults \in [FaultKinds -> 0..MaxFaults]
  /\ held \in [Variables -> Journal] /\ stale \in BOOLEAN
  /\ hit \subseteq Items /\ raced \in BOOLEAN

(* No operation loses an item: until another program touches its files,    *)
(* its data is at its source or, for a move or a delete, at its output.    *)
NoItemLost ==
  \A i \in Items \ hit :
    \E p \in {Src(i)} \cup (IF Moving THEN {Dst(i)} ELSE {}) : fs[p].data = i /\ Exists(p)

(* Written ahead: whatever the operation did to the files, a crash leaves  *)
(* a journal that names it, be it a published output, a source moved away  *)
(* or a staging file (unless the removal of one failed), until a command   *)
(* has stored a journal older than the one in the database as reversed.    *)
SaysReversed(j) == j.status \in {"rolled_back", "undone"}

JournalNamesEveryChange ==
  ~(stale /\ SaysReversed(durable)) =>
    /\ \A k \in Parts : Exists(Dst(k)) /\ fs[Dst(k)].data \in Items => k \in Listed(durable)
    /\ Moving => \A i \in Items \ hit : ~Exists(Src(i)) => i \in Listed(durable)
    /\ faults["file"] = 0 => \A k \in Parts : Exists(Stg(k)) => k \in durable.staging

(* A journal that says rolled back or undone tells the truth of the        *)
(* outputs it lists: none of them is left and their sources are back.      *)
(* While no command has reversed an older journal it does of all outputs.  *)
ReversedMeansRestored ==
  SaysReversed(durable) =>
    \A k \in Parts : k \in Listed(durable) \/ ~stale =>
      /\ fs[Dst(k)].data \notin Items
      /\ LET i == ItemOf(k) IN i \notin hit => fs[Src(i)].data = i /\ Exists(Src(i))

(* "Durable evidence of what an operation actually created": every output  *)
(* the operation has published is in the journal, whichever commands have  *)
(* been given.                                                             *)
JournalIsEvidence ==
  \A k \in Parts : Exists(Dst(k)) /\ fs[Dst(k)].data \in Items => k \in Listed(durable)

(* A journal becomes applied only when every item is published and nothing *)
(* is pending, staged or left to do.                                       *)
AppliedMeansPublished ==
  [][ durable.status # "applied" /\ durable'.status = "applied" =>
        /\ \A k \in Parts : ItemOf(k) \notin hit => fs[Dst(k)].data = ItemOf(k)
        /\ \A k \in Parts : durable'.outputs[k].role = "done"
        /\ durable'.remaining = {} /\ durable'.staging = {}
        /\ \A k \in Parts : ~Exists(Stg(k)) ]_vars

(* A command never removes or replaces a file of another program that was  *)
(* there when it validated the files; only --force of an archive may.  A   *)
(* file put in the place of an output before its checkpoint passes for the *)
(* output, and may be moved or reversed with it.                           *)
Recorded(j, file) == \E k \in 1..MaxParts : j.outputs[k].file = file

OutsideFilesKept ==
  [][ ~raced /\ faults'["outside"] = faults["outside"]
        /\ ~(op.kind = "compress" /\ op.force)
        => \A p \in Path : fs[p].data = Outside /\ ~Recorded(mem, fs[p])
             => \E q \in Path : fs'[q] = fs[p] ]_vars

(* Killed at any step of apply or of a resume, and otherwise undisturbed,  *)
(* an operation that replaced nothing can be rolled back.  A move to       *)
(* another volume is left out: its copy has a new identity.                *)
OnlyCrashed(f) ==
  f["crashed_reversal"] = 0 /\ f["put"] = 0 /\ f["file"] = 0 /\ f["outside"] = 0

CrashedCanRollBack ==
  pc = "idle" /\ NeedsRecovery(durable) /\ durable.undo_safe /\ ~op.crossing
    /\ OnlyCrashed(faults)
    => RecoverAccepts(durable)

(* ... and a resume carries a move or an archive to its end, whatever the  *)
(* step the earlier commands were killed at.                               *)
ResumeGivesUp ==
  cmd = "resume" /\ pc' = "idle" /\ durable'.status # "applied"
    /\ faults' = faults /\ OnlyCrashed(faults) /\ ~op.crossing

ResumeCompletes == [][ op.kind \in {"move", "compress"} => ~ResumeGivesUp ]_vars

(* copy_resume_completes_every_persisted_crash_state_idempotently.         *)
CopyResumeCompletes == [][ op.kind = "copy" => ~ResumeGivesUp ]_vars

=============================================================================
