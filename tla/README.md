# A specification of ion-win

ion-win is a command shell for Windows written in Rust (`src/src/*.rs`): a line
editor, an Ion-like language, structured pipelines, and an execution platform
that launches external programs, watches them, and runs tasks, schedules and
journalled file operations. This directory holds TLA+ modules of the parts of
it in which order, concurrency, failure and state matter, the configurations
that check them with TLC, and proofs checked by TLAPS.

## Inventory

| Component | Source | State it keeps | Operations | What is hard | What makes it correct | Here |
|---|---|---|---|---|---|---|
| Execution manager | `execution.rs`, `job_object.rs` | active executions, bounded history, background children, Job Objects, behind one mutex | launch (external, captured, pipeline, background), `jobs`, `exec list/show/wait/cancel`, `wait`, `disown`, cancellation, deadlines, escalation | waits and launches hold no lock between their critical sections; Ctrl+C, watchers and other workers come in between; process exits race everything | one holder per active execution; documented lifecycle; the first cause of an end wins; deadlines and cancellation take effect | modelled, proved in part |
| Job control | `jobctl.rs` | the process-wide interrupt flag | `request_interrupt`, `take_interrupt`, Ctrl+Break to PIDs, a sleeping escalator per cancellation | the flag is shared by all threads and consumed by whoever polls first; signals go out after the lock is released | no interrupt lost or left over | modelled |
| Parallel block | `shell.rs` 725-948 | `ParallelSchedule`, result channel, one interpreter clone per worker | launch, receive, refill, finish | completion-driven refill against Ctrl+C | never more than N workers, every worker joined, success only if all succeeded | modelled, safety proved |
| Pipeline executor | `pipeline.rs`, `pipeline_exec.rs` | handles, pipes and the carried value of the stages started so far | parse, classify, run a stage in process, spawn, feed, forward, redirect, capture, wait, give up | pipes are bounded and the shell feeds them itself; setup fails half-way; stages appear after a cancellation | output arrives whole and in order; every pipeline ends; the registry agrees with the handles | partly |
| State actor | `state.rs` | variables, tasks, schedules, journals, in a redb database or in memory | one command at a time over a channel | a second shell finds the database locked and falls back to memory | commands are atomic | partly |
| Tasks and schedules | `task.rs`, `schedule.rs`, `task_scheduler.rs`, `shell.rs` 2485-2946 | task revisions, schedule snapshots, Windows scheduled tasks | task create/delete/run, schedule create/enable/disable/delete | the OS scheduler and the registry change in two steps with compensation; a schedule holds a snapshot of a revision | every schedule names a task; registry, scheduler and snapshot agree | modelled, proved in part |
| Operation journal | `operation.rs`, `fs_ops.rs`, `copy.rs`, `state.rs` | plan, durable journal, staged files | apply, undo, rollback, `recover --rollback`, `recover --resume` | a crash between any two steps; outside changes to files; journal writes that fail | no content lost; a rolled-back operation leaves the original layout; recovery ends | modelled, proved in part |
| Archive transaction | `compress.rs`, `operation.rs` 181-300 | staging file, journal | compress under the journal, with a backup of the archive | the same | the same | partly |
| Shared history | `history.rs` | one text file, a named mutex, per-process limits and ignore rules | append, load, inspect, compact, replace | several shells, crash while appending or compacting | the file keeps the latest entries whole; what was entered can be recalled | modelled, proved |
| Line editor | `editor.rs` | buffer, cursor, selection anchor, recall list and position, saved line, clipboard | one key at a time | keys in any order share that state | no line is lost by browsing, selecting, cutting and pasting | partly, its properties proved |
| Shell loop, control flow | `shell.rs`, `main.rs` | interpreter, nested calls, interrupt flag | prompt, blocks, if, while, for, match, functions, chains, source, eval, parallel | interrupts and `exit` unwind nested constructs | scopes are balanced; nothing runs while a flow unwinds; an interrupt ends the input | partly |
| Interpreter | `interp.rs`, `functions.rs`, `types.rs`, ... | stacks of scope frames, functions, status, captures | expansion, let and its operators, export, drop, conditions | names are owned by the frame that first defined them, across blocks and calls | one owner for each name | partly |
| Structured data | `table.rs`, `fileset.rs`, `temporal_column.rs` | tables, file sets | select, where, merge, JSON and CSV | rows with different columns, repeated columns | conversions read back; merge overrides | modelled |
| File builtins | `fs_builtins.rs`, `fs_ops.rs`, `delete.rs`, `stat.rs` | none | what a stage makes of its arguments and its input | sequential | - | partly, as stages |
| Resolution, elevation | `command_resolver.rs`, `elevate.rs` | none | operating-system queries | sequential | - | no |
| Database client | `postgres.rs` and others | connections | a driver library's calls | sequential | - | no |

How they interact. `shell.rs` dispatches a statement to `pipeline_exec.rs` or
to `execution.rs`; both create executions in the one `ExecutionManager`. The
Ctrl+C handler calls `jobctl::request_interrupt`, which sets the flag that
block loops poll and asks the manager for a snapshot of the processes to
signal. A `parallel` block runs cloned interpreters in threads that share the
manager and the flag. Tasks run as foreground executions with deadlines and
limits. Schedules snapshot tasks; the state actor stores both, and also the
journals that `pipeline_exec.rs` writes through while an operation is applied.
The prompt loop reads a line from the editor, whose recall list it loads from
the shared history, and appends what was entered when it has run.

## Modules

| Module | Role |
|---|---|
| `ExecutionLifecycle` | abstract specification: what `exec list` and `exec show` may report of an execution over time |
| `ExecutionManager` | the registry of `execution.rs` with runners, waiters, the Ctrl+C handler, deadline watchers, escalators and child processes; refines `ExecutionLifecycle` |
| `MCExecutionManager` | the launches of its bounded instances |
| `ExecutionManagerProofs` | types, ownership, launches and the registry of `ExecutionManager` proved, then the refinement of `ExecutionLifecycle`, the first cause, escalation and the recorded outcome |
| `ParallelBlock` | the coordinator, workers, channel and interrupt flag of a `parallel` block |
| `ParallelBlockProofs` | theorems about `ParallelBlock` and their proofs |
| `ScheduleRegistry` | `task` and `schedule` commands over the registry, the operating system's scheduler and the snapshot files |
| `MCScheduleRegistry` | the symmetry of its instance |
| `ScheduleRegistryProofs` | theorems about `ScheduleRegistry` and their proofs |
| `OperationJournal` | a planned file operation, its journal, its crashes and its recoveries |
| `OperationJournalProofs` | types, the safety of items, the journal written ahead and truthful reversals proved |
| `OperationJournalOutcomeProofs` | what commands do to the files of other programs, and what an applied journal stands for, proved; extends the former |
| `LineEditor` | operators: what each key makes of the editor's state |
| `SharedHistory` | shells that edit, run and record lines in one history file; extends `LineEditor` |
| `MCSharedHistory` | the scenarios, keys and texts of its instance |
| `SharedHistoryProofs` | all six properties of `SharedHistory` and `LineEditor` proved |
| `Interpreter` | operators: scopes, expansion, assignment |
| `Shell` | the shell's loop and statements as a stack of nested calls; extends `Interpreter` |
| `MCShell` | the lines, scripts and files of its instance |
| `ShellProofs` | types, scopes, owners of names and unwinding of `Shell` proved, with lemmas about `Interpreter` |
| `Tables` | operators: tables and their JSON and CSV text |
| `Stages` | operators: the outcomes of a stage that runs in the shell; extends `Tables` |
| `Pipeline` | one pipeline: shell, processes, pipes, forwarding threads; extends `Stages` |
| `MCPipeline` | the lines, programs and files of its instance, and the assumptions that check `Tables` and `Stages` |
| `PipelineProofs` | types of `Pipeline`, and who holds which pipe, proved |

Definitions named in a module's header as faulty variants (`KeepScope`,
`LoopEarly`, ...) are not part of the specification: each is what the definition
after it would be with a plausible mistake, and shows that a property would
notice it.

### ExecutionManager

One action is one critical section of the manager mutex (`with_manager`, or a
method called under it) or one operating-system call made outside it. So
`run_foreground_spec` is the sequence `Create`, `StartExternal`, `Spawn` (or
`SpawnFails`), `AssignJob` (or `AssignJobIgnored`, `AssignJobFails`),
`RunExternal`, `RunnerReap`, `RunnerFinish`, and `pc[id]` is where that call is.
Operations that refresh the background jobs first (`jobs`, `exec list`, `exec
show`, `exec wait`, `exec cancel`) hold the mutex over several actions: `lock`
names the operation and the jobs it has still to look at, and every other
critical section has the guard `Unlocked`. Processes may exit meanwhile, as
they do under the real lock.

| Code | Model |
|---|---|
| `active`, `Execution.state` | `state`, `"absent"` when the id is not in `active` |
| `processes`, `exit_code` | `processes`, `exited` (a set of stages) |
| `history: VecDeque` | `history`, a sequence trimmed to `HistoryLimit` |
| `job_objects` | `job`, the processes assigned; `{}` when there is none |
| `background_children`, and the `Vec<Child>` of a waiting call | `children` and `owner` (`"manager"`, `"runner"`, or a waiter) |
| `timeout_triggered` | `timeout_triggered` |
| `arm_timeout` threads, 750 ms threads of `signal_cancellation` | `timers`, `graces` |
| a child process | `os` and `broken` (it has received Ctrl+Break) |

Abstractions, each of them deliberate:

- A process is named by its execution and stage. PIDs are not reused; what a
  signal to a reused PID would do is not modelled.
- Taking the snapshot of a cancellation and sending Ctrl+Break are one action,
  since delivery is asynchronous anyway. The escalation is its own action, at
  any later moment.
- Pending escalators with the same set of executions are merged in `graces`.
- Arming the timer is joined to `RunExternal`, killing and reaping a process
  whose policy cannot be applied to `AssignJobFails`, and a failed spawn to the
  transition it causes: no other thread can see the state in between, or it
  differs only in a handle nobody else knows.
- A waiter's exit codes are recorded when it finishes; `exited` includes them
  from the moment it has them.
- `limits` stands for a memory or process count limit. The host may reject Job
  Objects for any process (`AssignJobIgnored`).
- The interactive thread assembles at most one background pipeline at a time,
  and runs no other command meanwhile (`Constructing`, `ShellIdle`): background
  pipelines are not allowed in parallel workers.
- `next_id` stops at `MaxId`, which stands for `u64::MAX`.
- Specs other than those of tasks carry no deadline and no limits.

### ParallelBlock

The coordinator's loop is `LaunchFirst`, `StartReceiving`, `Receive`, `Refill`
and `Finish`; a worker polls the flag before each statement (`Poll`), executes
it (`Statement`, or one of the ways a statement meets an interrupt), and
reports (`Conclude` reads the flag, `Send` sends). The two reads of the flag
and the send are separate actions, because other threads take the flag in
between. Statements are opaque: an external command among them is an
execution of `ExecutionManager`. A worker does not panic (the release
profile aborts the process), and an empty expansion returns before there is a
schedule.

### ScheduleRegistry

One action is one request to the state worker (a redb transaction), one run of
`schtasks.exe`, or one access to a snapshot file; `call[c]` is the command a
thread is in, with its locals. The path of `schedule create` is `BeginCreate`,
`ReadTask`, `ReadSchedule`, `ReadPreviousTask`, then `task_scheduler::register`
(`WriteSnapshot`, `Register`, or one of their failures and `RestoreSnapshot`),
and `StoreSchedule`; when the last fails, `Compensation` says where the command
goes with `undo` set: through `register` again with what it had read before, or
to `Unregister`. `delete`, `enable` and `disable` go through the same places.

| Code | Model |
|---|---|
| tables `TASKS`, `SCHEDULES` | `tasks` (a revision for each name), `schedules` |
| Task Scheduler entries `\ion-win-NAME` | `registered` |
| `%APPDATA%\ion-win\scheduled\NAME.task.json` | `snapshot` |
| `replace`, `force`, `enabled`, `task`, `previous`, `previous_task`, `previous_snapshot` | `force`, `enabled`, `revision`, `prev`, `prev_task`, `saved` |

- A task's command, directory and policy are its revision; `MaxRevision` bounds
  them. Triggers and working directories only reach the XML, whose failures are
  `XmlFails`. Writing and removing the XML file is part of the call of
  `schtasks`.
- A call fails in the kinds of `Failing`; `MaxFaults` bounds the failures of one
  command, and commands that overlap do not all fail. `schtasks` also fails for
  a name that is not registered. A failed write leaves the file as it was or
  `Damaged`; a redb transaction is atomic.
- `list`, `show` and `run` change nothing here. A second shell, which keeps
  its registry in memory but shares scheduler and files, is not modelled.
- `excuse` is a history variable: what may have set the stores apart since a
  name was last right. A command gathers its own (`call[c].excuse`) and leaves it
  with the name when it returns; a create or delete that succeeds without one clears
  the name's. Three excuses are defects that a run of their own shows: the task was
  replaced after its create had read it (`replaced`), a failed enable or disable had
  asked for what was already so (`flag`), a failed register left another snapshot
  than it found (`unrestored`). `disturbed` is a crash inside a command, two commands
  on one name at once, a second failure in one command, or more than one of the other
  three. `StoresAgree` speaks of the names with no excuse, `StoresAlwaysAgree` of all
  that are not disturbed; both compare the enabled flag as well.

### OperationJournal

One action is one file operation or one write of the journal; the shell may be
killed (`Crash`) between any two of them. `cmd` is the running command, `pc` the
place in it and `at` the part of the operation it works on. `apply_transfer`
and its like are `ApplyStart`, `Validate`, then for each part `StageIntent`,
`Stage`, `StageRename`, `PublishIntent`, `Publish` and `Checkpoint` (a move or a
delete has `MoveIntent` and `Move` instead); an error goes to `rollback`,
`discard` or `fail` as the code's does. `undo`, `rollback`, `recover --rollback`
and `recover --resume` start from a crash or an end whenever they accept the
journal. The last two read it from the database; `undo` and `rollback` reverse the
journal that is piped to them and store the result, and that may be one a variable
has kept since before later commands (`Hold`, `Piped`).

| Code | Model |
|---|---|
| `OperationJournal` in the database | `durable` |
| the journal of the running command | `mem`: what it would write next |
| journals in variables (`let v = journal ID`) | `held`; a crash empties them |
| `status`, `undo_safe`, `staging_paths`, `remaining_roots` | fields of the same names, paths by their part |
| `outputs` with a `pending` mark and a file record | `outputs[k]`: role `none`, `pending` or `done`, and the file |
| a file and its `FileRecord` (volume, index, size, time) | `fs`: an identity and data for every path |
| `staging_path`, `copy_temp_path` | `Stg(k)`, `Tmp(k)` |

- Data says whose content a file has: an item's, what was there before, or
  another program's. That is all the properties tell apart.
- An operation has `N` items, each with one output; an archive with `--backup`
  has a second one, whose source is the archive. Outputs are `Parts`, in order.
- A move to another volume is a copy and a removal (`half`); a file keeps its
  identity when renamed and gets a `Fresh` one when copied.
- `MaxFaults` bounds crashes, failures and outside changes together. A failure
  the state makes certain (the source is gone) is not counted.
- `OutsideChange` puts another program's file in the place of a source or an
  output. `hit` and `raced` are history variables: which items it touched, and
  whether it came after the running command looked. So is `stale`: `undo` or
  `rollback` has been given another journal than the one in the database.
- A variable is filled from the database between commands, with a journal that some
  command accepts. What a command returns is the journal it has just stored, or one
  it has reversed, which no command accepts.
- `recover` does not know whether the command that wrote the journal still
  runs; one command runs at a time here.
- Edits within one second that keep size and index are not noticed by the
  code; every change here has a new identity. A crash may leave a copy's
  temporary file, which no journal names and no property mentions.

### LineEditor and SharedHistory

A shell is at one of `Places`: `prompt` (loads the recall list, `Refresh`),
`typing` or `block` (one key an action), `run`, `append` (the mutex is free and
the batch ready), `compact` and `replace` (it holds the mutex), or `gone`. The
code holds the named mutex from `append_batch` to the end of `compact_locked`:
`AppendBatch` takes it, `ReplaceFile` or `CompactFails` or a death releases it,
and an abandoned mutex is acquired like a free one.

| Code | Model |
|---|---|
| the history file | `file`, its lines: session marks, times, commands |
| named mutex | `lock` |
| temporary files of compaction | `temps` |
| `HISTFILE_SIZE`, `HISTORY_SIZE`, `HISTORY_TIMESTAMP`, `HISTORY_IGNORE`, ... | `shell[s].config` |
| editor: buffer, cursor, anchor, history index, saved line | `shell[s].editor`, changed by the operators of `LineEditor` |
| the entries accepted since the prompt | `shell[s].accepted` |

- Characters are atoms; a `Mark` combines with the character before it, so that
  graphemes are longer than one character. Bytes are not modelled.
- `Characters` is any set with a space, a newline and `Mark`; no key types a newline
  and no completion holds one, so a line that is accepted is one line of the file.
  A command that looks like a mark or a time of the file (`#5`) is left out: the
  lines of the file are records with a kind.
- `log` is a history variable: every record ever appended.
- A behaviour has a scenario (`budget`) that bounds its keys, lines and deaths
  and says what the file holds at first. The scenarios `Sharing`, `Commands`,
  `Blocks` and `Editing` of `MCSharedHistory` spend the bounds on different
  questions, because their product would not add interactions: keys do not
  touch the file, and appending does not look at the cursor.
- A line's first character says what it does. What it does elsewhere is
  `Shell`'s.

### Interpreter and Shell

`stack` holds the nested calls of `exec_lines`, `exec_block`, the loops,
`call_function`, chains, `source` and the prompt's capture, innermost first; `flow`
is the `Flow` the innermost returned and `at` whether the shell prompts, reads, runs
or has stopped. The statements, loops and lists that call `take_interrupt` and then
unwind are in `MustPoll`. The builtins that call it and return as usual
(`InterruptibleBuiltins`: `copy`, `compress`, `stat` and the database's `connect`) may
take the flag whenever they run, alone, as a stage of a pipeline or as a condition
(`InterruptAfter`). An interpreter is a record: `frames` are the six stacks of scopes
merged into partial functions from `<<kind, name>>`, which is sound because the
code pushes and pops them together; text is a sequence of atoms (words,
numbers, references, literals not expanded yet).

| Code | Model |
|---|---|
| `exec_block`, `push_scope`, `pop_scope` | `EnterBlock`, `LeaveBlock` |
| `extract_block`, the splits at `else` and `case` | `Body`, `After`, `Marks`, `Part` |
| `eval_condition` | `EvalCondition`: the set of results, `&&` and `\|\|` to the right as in the code |
| `call_function` with `isolate_global_scope`, `restore_scope` | `call` entries with the frames they hide in `saved` |
| `let_cmd`, its operators and types | `Let`, with integers between `-MaxInt` and `MaxInt` |
| `INTERRUPTED` | `interrupt`, set by `CtrlC` at any point |

- The results of external commands, pipelines, parallel blocks and `read` are
  free.
- Lines are records of their first word and their tokens: parsing of text into
  tokens is left out, except where blocks begin and end.
- File sets, plans and journals are treated as tables are; `$len` stands for the
  methods that read a variable.

### Tables, Stages and Pipeline

`Parse` and `Classify` are the code's. The shell (`at`, `phase`) takes the stages
from left to right: a builtin stage is `RunStage`, an external one `Spawn`, then
`Feed` (the shell writes all the text of a builtin before it into the new
program) and, if a builtin follows, `ReadOutput` to the end; `Launched`, `Wait`
follow. Processes and the two threads that forward both streams for `&|` run
beside it.

| Code | Model |
|---|---|
| `carry` and the pending child streams of `run_impl` | `carry`: nothing, bytes, a pipe, two pipes, a table, file set, plan or journal |
| anonymous pipes and who holds their ends | `pipes`: data, writers, readers; end of file when `writers` is empty |
| a program | writes text of its own to both streams, then copies none, one or all of its input, fails when its output has no reader |
| the stages of `run_builtin_stage` and the structured stages | `InProcess`: a set of outcomes (ok, text or value, world) |
| files, saved journals, operations performed | `world` |

- A file operation only notes in `world.did` what it did to which sources: how it
  does it is `OperationJournal`'s.
- Text is in units: a line, a CSV record, a JSON array. Quoting and layout are
  left out.
- `Meant` gives the meaning of a line when programs are functions of their
  text, without processes; `OutputIntact` compares the two. It allows both
  orders where the code merges two streams.

## Runs

| Run | Instance | What it shows |
|---|---|---|
| `Executions` | 2 launches out of 6 kinds, up to 2 stages, 1 waiter, history of 1 (2.0 million states) | types, ownership, launch agreement, registry and history, results, precedence of causes, precision of escalation, refinement of `ExecutionLifecycle` |
| `ExecutionLiveness` | 2 launches of 1 stage, 1 waiter (129 thousand) | deadlines and cancellation take effect |
| `BackgroundResult` | 1 background pipeline of 2 stages | violated: see below |
| `ParallelBlock` | 3 inputs, 2 workers, 2 statements, 2 presses of Ctrl+C | slots, result, interrupt accounting, termination |
| `ScheduleRegistry` | 2 threads, 2 tasks, 1 schedule, 2 revisions, 2 failures in a command, crashes (3.5 million) | references, agreement of the stores with the enabled flag, repair |
| `ScheduleDefects` | the same with 1 failure | violated: see below |
| `OperationJournal` | 2 items, every kind, with and without another volume, 1 variable, 2 faults (935 thousand) | nothing lost, write-ahead journal, truthful statuses, recoverability, outside files kept |
| `CopyResume` | copies of 2 items, 1 fault | violated: see below |
| `SharedHistory` | 2 shells, lines of 3 characters, 4 scenarios (428 thousand) | the file under several shells and deaths, recall and listing, the editor's state |
| `Shell` | 14 kinds of input, 3 inputs a session, 1 press of Ctrl+C (45 thousand) | scopes, owners of names, unwinding, interrupts |
| `Pipeline` | 45 lines of up to 4 stages, pipes of 2 units (155 thousand) | intact output, termination, absence of standstill; `Tables` by assumption |
| `PipelineStalls` | 2 lines that overflow a pipe | violated: see below |

Two further configurations show a property that is false of the code and are not in
`PROJECT.json`: `InterruptedCopy.cfg` (module `MCShell`, `TakenInterruptUnwinds`) and
`StaleJournal.cfg` (module `OperationJournal`, `JournalIsEvidence`).

Bounds. Two executions are enough for every pairwise interaction: Ctrl+C
reaching several, the record of one evicting the other's (`HistoryLimit` 1),
one launched while the other is waited for. The first is a task, a captured
command, a foreground or a background pipeline; the second a command under limits
or a background job of builtins alone (two background jobs with processes share
the registry and nothing else). Two stages are enough for exits in
either order, for a setup that fails half-way and for a partial disown; the
first stage of a pipeline of three adds no new position. A second waiter would
need a second interactive thread, which only parallel workers provide; one
already interleaves with everything. In `ParallelBlock` three inputs on two
workers give a queue with one entry, so that refill after a completion matters,
and two statements give a worker that notices an interrupt of which an earlier
statement ended.

In `ScheduleRegistry` commands on different names share nothing but tasks,
so one name suffices; two tasks allow a replacement that changes the task, and
two revisions a snapshot that is out of date. A second failure is one of the
compensation for the first: it disturbs the name, and the run shows that a later
create or delete without failure repairs it. Threads and tasks are symmetric.

In `OperationJournal` items are worked on one after the other, so two give each
of them a neighbour that is done and one that is not, and two faults let a crash
meet a failure, an outside change or a crash of the recovery. One variable holds a
journal of any earlier moment; a second could only hold another one. In `SharedHistory`
two shells with limits of 2 and 3 disagree on what to keep, and files reach both
limits. In `Shell` three inputs let the first define what the second uses and
leaves behind for the third; calls nest through the scripts. In `Pipeline` a pipe
of two units is full after two writes and the lines write up to three; four
stages put a builtin before, between and after programs.

Deadlock is checked where something always goes on (`ExecutionManager`,
`ScheduleRegistry`, `Pipeline`, which has `Rest` for a pipeline that is over); blocks,
operations and shells end, so `ParallelBlock`, `OperationJournal`, `SharedHistory`
and `Shell` are run without it.

### What the code does differently from its documents

Four runs show it:

- **BackgroundResult** (`execution.rs:1298`). `HANDOVER.md:88`: "the final
  stage still determines pipeline success", for foreground and background
  pipelines. `refresh_background_jobs` decides from the children that finished
  between the last two refreshes only. If `jobs` runs after the final stage has
  failed and again after the first has succeeded, the pipeline is recorded
  `Completed`.
- **CopyResume** (`operation.rs:598`, `copy.rs:229`). The test at
  `operation.rs:1240` is named
  `copy_resume_completes_every_persisted_crash_state_idempotently`, and
  `builtin_names.rs:760` says that resume supports copies. After a crash between
  the copy to the staging file and the record of the pending output, resume copies
  to the staging file again, without force, and is refused, every time.
- **PipelineStalls** (`pipeline_exec.rs:1132`, `1083`). Line 201: "Runs `pipeline`
  to completion". With `^|`, as in the trace of `gen ^| pass`, nobody reads the
  program's standard output, and a program that fills that pipe is waited for until
  Ctrl+C. And the shell writes all of a builtin's text into a program before it
  starts the stage that reads that program's output; with more text than two pipes
  hold, both wait.
- **ScheduleDefects**. `ARCHITECTURE.md:959`: "Create/replace/delete/enable/disable
  apply OS changes first and compensate or roll back if registry persistence fails.";
  "Replacing or deleting a task referenced by a schedule is rejected so snapshots
  cannot silently become stale." `HANDOVER.md:93`: "failed replacement preserves the
  prior snapshot". `StoresAlwaysAgree` is what they promise together, and fails in
  three ways. The run stops at the shortest; the other two show with one caller
  (`Callers = {c1}`) and the failures named.
  - `shell.rs:2755`: a task is replaced after `schedule create` has read it and before
    it stores the schedule. `put_schedule` looks only for a task of that name, and the
    schedule has the snapshot of the older one for good (the trace of the run).
  - `shell.rs:2914`: `enable` and `disable` compensate with the opposite of the setting
    asked for, not with the one before. When they asked for what was already so, the
    scheduler ends up with the other one (`Failing = {"state"}`).
  - `task_scheduler.rs:30`: `register` restores the previous snapshot only when
    `schtasks` fails; the `?` of lines 25-33 return past that (`Failing = {"xml"}`).

The models contain these as well, as behaviours the properties admit:

- `undo` and `rollback` reverse the journal piped to them, which a variable may have
  kept while a resume published more, and store it over the newer one
  (`pipeline_exec.rs:785`, `818`). The outputs only the newer one listed are then named
  nowhere (`operation.rs:62`: "Durable evidence of what an operation actually
  created"). `JournalNamesEveryChange` ends there; `ReversedMeansRestored` goes on to
  hold of the outputs the stored journal lists. `StaleJournal.cfg` shows it.
- `copy`, `stat`, `compress` and the database's `connect` take the interrupt flag and
  return as usual (`copy.rs:189`, `stat.rs:125`, `compress.rs:575`, `postgres.rs:92`;
  `jobctl.rs:70`: "stop looping and unwind back to the prompt"), so that a loop around
  them goes on. `InterruptEndsInput` names them as the only ones that may;
  `InterruptedCopy.cfg` shows it.

- Ctrl+C while an execution is `Created` or `Starting` skips it, and it then runs
  (`execution.rs:1119`; `README.md:93`: "cancels all active foreground
  executions").
- In a parallel block the worker that polls first takes the flag; until its result
  arrives the coordinator may launch a queued input (`shell.rs:916`; `README.md:94`:
  "prevents queued inputs from launching").
- Variables a sourced file sets in a block's scope vanish with the block
  (`shell.rs:1773`; comment at 1757).
- A command that is not found is recalled until the next refresh although the rules
  ignore it (`shell.rs:169-172`, `136`, `editor.rs:160`).
- `&|` interleaves both streams; the comment at `pipeline_exec.rs:20` says
  concatenated. The status of a pipeline is that of its last external program, and
  success when it has none (lines 201-203 say final stage).
- `files | select size | move d` has no path column left and moves nothing
  (`fs_ops.rs:96`); `cat f > f` empties `f` before it is read; `say > o &| x` loses
  the errors that were to be merged.
- The function `PROMPT` overwrites the status of the previous statement
  (`shell.rs:109`). `a && b || c` is `a && (b || c)` (`shell.rs:1161`). `drop` never
  removes a function (`interp.rs:1277`; `builtin_names.rs:684`). An element of `for`
  is expanded again when it is bound, single-quoted or not (`shell.rs:710`).

## Fairness

`ExecutionManager`: threads that have entered the manager get the mutex and
run on (the standard mutex makes no stronger promise, so strong fairness is
asked of waits and timers, whose guards are disabled while another thread
holds it), and sleeping watchers wake up. No program exits by itself; one that
does not ignore Ctrl+Break exits when it has got it. Launches, disowns and
Ctrl+C are under no fairness. `ParallelBlock`: the coordinator and every worker
keep running, and every statement ends, by itself or because its command was
cancelled, which is what `CancellationTakesEffect` says.

`Shell`: the one thread that runs statements keeps running (`ThreadRuns`: weak
fairness of its step, spelled out because the step is always possible except
when it waits for the user). Users and Ctrl+C are under none, and an external
command ends, for the reason above.

`Pipeline`: as long as the shell, a thread or a program can take a step, one of
them does (`RunsOn`). This is weaker than fairness to each of them, and enough,
since every step uses up text or ends somebody.

`ScheduleRegistry`, `OperationJournal` and `SharedHistory` make no liveness claim and
have no fairness: what they promise of progress (`ResumeCompletes`,
`CrashedCanRollBack`) is stated of the steps and states in which a command gives
up.

## Proofs

`ExecutionManagerProofs` proves, for every number of ids and stages, every
history limit, set of waiters and choice of launches that meet the
assumptions of `ExecutionManager`:

| Theorem | Statement |
|---|---|
| `TypeCorrect` | `Spec => []TypeOK` |
| `OwnershipSafe` | `Spec => []OwnedIffActive` |
| `LaunchSafe` | `Spec => []LaunchStateAgrees` |
| `RegistrySafe` | `Spec => []RegistryConsistent` |

None of the four invariants but the last is inductive alone. `Typed` adds to
`TypeOK` that the history respects its limit (so that `Trim` yields a sequence
of records) and that a lock held by `wait` or `cancel` names an allocated id and
a waiter. `Ownership` adds to `OwnedIffActive` where each kind of holder may
be (`HolderKnowsPlace`), that only background executions are handed to the
manager or a waiter, that wait loops and refreshes work on executions they hold
(otherwise two of them could retire one execution), and that ids not allocated
are idle. `Agreement` adds to `LaunchStateAgrees` that a launch path fits the
kind of its execution. Each was checked with TLC on the instances above
before it was proved. The proofs go by the actions of `Next`; `TrimKeepsOrder`
says what trimming does to positions in the history, and `RetireRegistry` what
retiring an execution does to the registry.

The second half of the module proves, under the same assumptions:

| Theorem | Statement |
|---|---|
| `FirstCauseAlwaysWins` | `Spec => FirstCauseWins` |
| `LifecycleImplemented` | `HistoryLimit # 0`: `Spec => ImplementsLifecycle` |
| `EscalationPrecise` | `Spec => OnlyCancellingAreTerminated` |
| `FinalStageDecides` | `Spec => []CompletedMeansFinalStageSucceeded` |

The first two rest on `RegistryStep`: whatever the action, the registry either
creates one execution, ends one, or lets all of them go on (each stays, advances
along the lifecycle, or is disowned). The rest is about these three moves instead of
36 actions. Its additional invariant, `PoliciesAreExternal`, is that only tasks
carry deadlines and limits. With a limit of 0 an execution whose launch fails would
go from Starting to forgotten at once, which the abstract specification does not
allow; the code's limit is 1000 (`DEFAULT_HISTORY_LIMIT`), so the hypothesis costs nothing.

The other two need to know what becomes of child handles. `Accounted` says that
a child without a record is one of a launch still under way, and that a process
running in the Job Object has a handle or a record: this is why escalation cannot
reach a disowned process. `FinalPending` says that the final stage is still to be
waited for, or was the last one waited for and decided the verdict; it holds because
handles are taken in stage order, and, for one process, because a refresh leaves
nothing behind. It is false for background pipelines of several stages, where
`BackgroundResultIsFinalStage` fails. `StepMoves` lists all that a step may do to
the processes and to the history.

`ParallelBlockProofs` proves, for every number of inputs, workers, statements and
presses, all four safety properties that the run checks:

| Theorem | Statement |
|---|---|
| `BlockTyped` | `Spec => []TypeOK` |
| `SlotsAlwaysMatch` | `Spec => []SlotsMatchThreads` |
| `SuccessIsEveryones` | `Spec => []SuccessMeansAllSucceeded` |
| `NoInterruptIsLost` | `Spec => []InterruptAccountedFor` |

`Executing` adds to the types that a worker that executes has a statement left.
`Ledger` is the book-keeping behind the slots: inputs are launched in order, a
worker is reported exactly if its result is in the channel or received, a result
is in the channel once, the schedule's count is that of the threads launched and
not received, and a block is done only when that is zero. `ReportsTruthful` says
that a result, wherever it is, claims success only for a body that ran to its
end, and `InterruptTraced` that a press not taken by a builtin is in the flag, a
worker, the channel or the schedule. The counting steps rest on the library's
theorems about cardinalities.

`ScheduleRegistryProofs` proves, for every number of threads, tasks, schedules,
revisions and failures:

| Theorem | Statement |
|---|---|
| `RegistryTypeCorrect` | `Spec => []TypeOK` |
| `ScheduleNamesATaskAlways` | `Spec => []ScheduleNamesATask` |
| `StoresAgreeAlways` | `Spec => []StoresAgree` |

Types are where compensation could go wrong: a command that registers again
must have read the previous schedule and its task. `Locals` says, for each
place, what the command has read by then, and with `TypeOK` and
`ScheduleNamesATask` it is inductive. `OneCall`, `Returned` and `WentTo` are the
three ways a step changes a command; the proof names one for each action.

`StoresAgree` compares the registry with the scheduler, enabled flag included, and
with the snapshot, on every name without an excuse; no bound on failures is assumed,
since a second failure in a command is an excuse itself. `AgreeInv` is the invariant
behind it. A command is clean unless it has been disturbed; a clean command is alone on
its name and `OnCourse`: for each place, what it has read is still what the registry
holds, but for a replaced task (`Reads`), and what it has written is in the scheduler
and the snapshot, with what was there before in the places it has not come to and in
`saved` (`Writes`), which is what a compensation must put back. What was there before
is only known to be right of a name without an excuse. That is why a create or delete
that succeeds clears the name: it has written all three stores itself.

`OperationJournalProofs` proves, for every number of items, every set of kinds,
moves within a volume and across, and any number of faults:

| Theorem | Statement |
|---|---|
| `JournalTyped` | `Spec => []TypeOK` |
| `NothingIsLost` | `Spec => []NoItemLost` |

`NoItemLost` is not inductive: the second half of a move to another volume removes
the original, and a reversal moves whatever is at the output. `ItemsSafe` says
where each untouched item is (`Kept`: the source is the item or is gone, and when it
is gone the output is the item), what a half-done move or reversal has made
(`HalfMoved`), and which commands may be at which place (`Control`). The types need
that a fresh identity exists (`FreshIsNew`, by counting those in use) and that a
path without a file has no data (`Files`). `FilesAfter` and `MoveKeeps` say what
each operation on files, and a move in its parts, does to an item; the proof goes
by the actions.

The second half of the module proves, under the same assumption:

| Theorem | Statement |
|---|---|
| `EveryChangeIsNamed` | `Spec => []JournalNamesEveryChange` |
| `ReversalsTellTheTruth` | `Spec => []ReversedMeansRestored` |

The first holds until `undo` or `rollback` stores as reversed a journal other than the
one in the database (`stale`); the second holds of the outputs that the stored journal
lists, whichever it is, and of all of them while not `stale`.

Both are about what is `Changed`: the parts whose output holds an item's data and the
items whose source has gone. `Effects` says that a step changes nothing but a part the
journal on disk already names, at a publication or a move that leads to its checkpoint.
`Written` says that both journals, the one on disk and the one in memory, name what is
changed (the latter but for the part about to be checkpointed); `Ahead`, that what an
apply has not come to, or has only staged, is unchanged, which is what lets a failed
part be dropped from the journal; `UpToDate`, that only an `undo` or `rollback` given an
older journal works on one that need not name everything; `Reversed`, that what a
rollback or undo has passed is unchanged again, as long as no step of it has failed;
`Staged`, where staging files may be. `StillNamed`, `StillAhead` and `StillReversed` are
what a step has to leave for each, and every action is shown to.

`OperationJournalOutcomeProofs` extends that:

| Theorem | Statement |
|---|---|
| `OutsideFilesAlwaysKept` | `Spec => OutsideFilesKept` |
| `AppliedAlwaysPublished` | `Spec => AppliedMeansPublished` |
| `CrashedCanAlwaysRollBack` | `Spec => []CrashedCanRollBack` |
| `ResumesAlwaysComplete` | `Spec => ResumeCompletes` |

`FileMoves` lists the six things a step may do to the files: work on a staging file,
publish one where there is none, make room for it, go on with a move, go back with it,
remove an output. `OutsideAway` says why none of them meets a file of another program:
once an apply has validated the files there is none at a source or an output, a
resumed move has validated its source, a copy to another volume is the command's own,
and an output a reversal takes back is the file its journal records.

`PublishedSafe`, the invariant behind the second, is about the way of an apply or
a resume. A journal lists its parts in order, all of them done but the last, and
records for each the data of its item; what it has not left to do is done; no part
with a staging file is done (`JournalsSound`). The parts before the one worked on are
done, and an apply's journal has exactly the items from there on left to do
(`Position`). Unless another program has touched it, what is staged is the item
(`StagedHolds`), and so is what is about to be published or checkpointed
(`CurrentHolds`) and each output that is done (`DoneHolds`). That is what a resume needs
to find after a crash at any step; it checks every recorded output against the file
there before it goes on, and this check is what gives it `DoneHolds` again. After the
last part everything follows, and `OnlyFinishApplies` says that no other step writes
the status `applied`. A journal in a variable is sound too, and has nothing done that
the one on disk, or in the memory of a resume, has not (`Behind`, in `HeldSafe`); one
that says applied is held only when nothing needs recovery. So an older
journal, stored again as reversed, claims nothing that the newer one did not.

The other two say that a crash alone never strands an operation. `recover --rollback`
and `resume` give up when any output differs from what the journal recorded, so they
need an exact match, and not the bounds above. It holds as long as the journal is
`Calm`: only kills of an apply or a resume have disturbed it and nothing was replaced.
Then (`Agreement`) each output is either in its place or waits, with the recorded
identity, where it is published from, and only the first part that is not done is staged
(`Aligned`); what is done is no longer left to do (`Dropped`); the journal in memory is
the one on disk, but for the part about to be checkpointed (`Logged`); and no command is
on its way to a failure (`Smooth`). Staging of the first undone part only is what makes
a resume pass: it rewrites the parts in order, and a staging file further on would be
one its journal knows nothing of. `Recoverable` is all of it with `PublishedSafe` and
`OutsideAway`, and `Honest`, which says that a journal that claims to be reversible, on
disk, in memory or in a variable, has replaced nothing (`undo_safe` in the code). One
lemma per action shows that it stays and that a resume of a move or an archive goes on
(`CarriesOn`). A copy is left out for the reason the run `CopyResume` shows.

`ShellProofs` proves, for every program, input, `initrc` and sourced file, every
number of inputs and of presses:

| Theorem | Statement |
|---|---|
| `TypeCorrect` | `Spec => []TypeOK` |
| `ScopesAlwaysFollowBlocks` | `Spec => []ScopesFollowBlocks` |
| `EachNameAlwaysHasOneOwner` | `Spec => []EachNameHasOneOwner` |
| `LeavingAlwaysRunsNothing` | `Spec => LeavingRunsNothing` |

The program is data: nothing is assumed of it, so the theorems hold of all the
programs of the model's language and not only of those in `MCShell`. The invariant is
`Fits`, between the frames and the stack of what is running: as many frames as `Scopes`
counts, for the frames alive and for those each waiting call hides, and one owner of
each name in all of these. It is needed for the hidden ones because a return makes
them the frames again. Two more parts make it inductive: the entries of the prompt and of
`initrc` are the outermost (`StackOK`), and echo is captured only while the prompt
function is evaluated (`Prompting`). `FitsPlain`, `FitsBlock` and `FitsCall` say
what an entry pushed or popped, with its scopes, leaves of it, and `FitsGrown`
that assignment does no harm, since it writes where the name is or, if nowhere, in
the innermost frame (`HomeHolds`). Expansion, conditions and types need no induction:
whatever value they compute, it goes to one name.

`SharedHistoryProofs` proves, for every number of shells, every set of characters,
keys and completions, every length of line and list of scenarios, all six properties
that the run checks:

| Theorem | Statement |
|---|---|
| `TypesAreKept` | `Spec => []TypeOK` |
| `FileKeepsLatest` | `Spec => []FileIsLatest` |
| `NewestCanBeRecalled` | `Spec => NewestIsRecalled` |
| `ListingAlwaysMatches` | `Spec => []ListingMatchesRecall` |
| `BrowsingAlwaysReturns` | `Spec => []BrowsingReturns` |
| `CutThenPasteRestores` | `Spec => []CutPasteRestores` |

They rest on `EditorAssumption` (a completion is one line) and `HistoryAssumption` (a
scenario starts from a file as shells leave it, and no key is a newline).

The invariant has four parts. `FileKept`: the file reads back as an end of the log,
and one at least as long as the smallest limit or the log. `Locking`: at most one shell
holds the mutex, it is the one that compacts, and while it is about to replace the
file its compaction file is the newest records of the file *as it still is*. That
last clause is what `FileIsLatest` needs and does not say: without it a shell could
replace the file with what it was before another's batch. `Running`: each shell's
editor has its cursor and its selection inside the line. `WellBegun`: the scenario. The
lemma `StepKeeps` reduces a step to the shell that takes it; there is one lemma for each
action.

What a file reads back as is a fold over its lines, and so is what the ignore rules
keep. `FoldExists`, `ChainTo` and `ChainFrom` turn a fold into the chain of its
intermediate results, and `Least` and `Climb` give induction along a chain from the
well-foundedness of `<`, so none of the library's induction theorems is needed. From
them follow what the properties need of the operators: records written and read are
the same records, the latest of the latest are the latest, a batch appended reads as
the batch, and n times Up, n times Down walk the chain of recalled lines and back.
`ListingMatches` counts: the filter on records takes as many of each command as the
filter on commands keeps, whatever the order.

`PipelineProofs` proves, for lines of any length, any programs, files, variables and
journals, and pipes of any capacity:

| Theorem | Statement |
|---|---|
| `PipelineTyped` | `Spec => []TypeOK` |

It assumes that a stored variable and a saved journal have all their parts
(`StagesAssumption`, `PipelineAssumption`) and that a line has from 1 to `MaxStages`
stages (`LineAssumption`). `TypeOK` is about who holds which pipe, which is what the
`carry` of `run_impl` must get right at every turn. Two things make it
inductive. `StagesSound`: whatever a stage of the shell is given, it leaves a world
whose journals are journals, and its value is a table, a file set, a plan or a
journal, so that it can never be taken for a pipe; there is a lemma for each group of
stages. And `Carrying` and `Feeding`: a pipe that is carried is an output of the
stage before, and from its start until it is handed over the shell alone reads
it. `NoNewHolder` and `ShellReadsOn` say what closing, writing and reading leave of
that, whoever does it; only a start gives anybody a pipe.

Only model-checked: `OutputIntact` of `Pipeline`. It is true of the lines of the run,
and not of every line: in `gen > o | cat o` the shell reads the file while the program
still writes it, so there is no theorem for all of `Jobs`. The recursive functions and
folds of `Interpreter`, `Tables` and `Stages` are checked over bounded inputs
(the assumptions of `MCPipeline`): what they compute for every input would need the
induction above for each of them, and theorems that take an operator as a parameter
cannot be instantiated here. Liveness and `ENABLED` are out of the prover's reach
(`InterruptEndsInput`, `PipelineCompletes` and those of the executions). The
properties of the four violation runs and of the two further configurations are false
of the code.

## Not modelled

- Execution manager: reuse of PIDs; a Ctrl+Break that reaches a process created
  after the snapshot.
- Schedules: a second shell, which keeps its registry in memory but shares the
  scheduler and the snapshot files. State actor: persistent variables, and the
  choice of database or memory.
- Operation journal: two commands on one journal at the same time, extraction's
  entry names, directory trees (an item is one file).
- Shell: `cd`, `pushd`, `popd`, nested brace groups of one line, the history arrays,
  `$(( ))`, process expansion, most methods, the second tokenisation of `eval`, the
  splitting of raw text into chains, and the dispatch to `task`, `schedule`, `exec`,
  which the modules above have.
- Pipeline: redirected standard error of stages in the shell, one file opened twice
  by one stage, `--backup`, short options of `copy` and `compress`, JSON
  read as CSV, failing registrations (those are `ExecutionManager`'s), errors inside
  a copying thread.
- Line editor: widths of characters, highlighting, redrawing, the console mode.
- Command resolution, elevation and the database client: sequential code around
  operating-system calls and a driver library, with no state of their own.

## Plan

1. `ExecutionLifecycle`, `ExecutionManager`, `ParallelBlock`, `ScheduleRegistry`: done,
   with their proofs.
2. `OperationJournal`, `SharedHistory` with `LineEditor`, `Shell` with `Interpreter`,
   `Pipeline` with `Stages` and `Tables`: done.
3. To prove next: that the output of a pipeline is intact when no stage reads a file that
   another writes.
4. To model next: nested journals of one directory tree, and a second shell on the
   in-memory registry.
