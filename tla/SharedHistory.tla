---------------------------- MODULE SharedHistory ----------------------------
(***************************************************************************)
(* Interactive shells that share one history file (src/history.rs, the     *)
(* prompt loop of src/shell.rs) and edit their lines with LineEditor.      *)
(*                                                                         *)
(* Every shell is a process; the named mutex is held from the append to    *)
(* the end of the compaction, and a shell may die at any point of it.  A   *)
(* line is a sequence of characters; its first character says what it is:  *)
(* a block opener, "end", an unknown command, `history --compact`, "exit", *)
(* or any other command.                                                   *)
(*                                                                         *)
(* AppendUnlocked, RetainOldest and FirstOfEach are faulty variants of the *)
(* definitions after them.                                                 *)
(***************************************************************************)
EXTENDS LineEditor

CONSTANTS
  Shells,     \* shell processes
  Keys,       \* the keys pressed one by one
  MaxLine,    \* characters of a line
  Scenarios   \* what a behaviour may do (see IsScenario)

Opener == "{"   End == "}"   Unknown == "?"   Compact == "h"   Exit == "x"

(* HISTFILE_ENABLED, HISTFILE_SIZE, HISTORY_SIZE, HISTORY_TIMESTAMP and    *)
(* HISTORY_IGNORE; the rule "regex" stands for a pattern that matches the  *)
(* lines that begin with "b".                                              *)
Config == [enabled : BOOLEAN, fileSize : Nat, size : Nat, timestamped : BOOLEAN,
           ignore : SUBSET {"all", "whitespace", "duplicates", "no_such_command", "regex"}]

NoSession == "none"
NoTime == 0

Sessions == (Shells \X Nat) \cup {NoSession}

SessionLine(s) == [kind |-> "session", of |-> s]
TimeLine(t) == [kind |-> "time", of |-> t]
CommandLine(c) == [kind |-> "command", of |-> c]

VARIABLES
  file,      \* the lines of the history file
  lock,      \* the shell that holds the mutex, or {}
  temps,     \* compaction files left behind by shells that died
  shell,     \* each shell: see NewShell
  clipboard, \* the text of the clipboard
  budget,    \* the scenario, and what is left of its lines, keys and faults
  log        \* every record ever appended, in the order of the appends

vars == <<file, lock, temps, shell, clipboard, budget, log>>

-----------------------------------------------------------------------------
(* Records and their file format.                                          *)

(* A newline in a command would end its line in the file.                  *)
Cut(lines, c) ==
  IF c = Newline THEN Append(lines, <<>>)
  ELSE Append(Front(lines), Append(Last(lines), c))

LinesOf(command) ==
  LET parts == FoldLeft(Cut, <<<<>>>>, command)
  IN  [i \in DOMAIN parts |-> CommandLine(parts[i])]

(* The session and the time that the next command has, and the records.    *)
ReadLine(acc, l) ==
  CASE l.kind = "session" -> [acc EXCEPT !.session = l.of]
    [] l.kind = "time" -> [acc EXCEPT !.time = l.of]
    [] l.kind = "command" ->
         [acc EXCEPT !.time = NoTime,
                     !.records = Append(acc.records, [time |-> acc.time,
                                        session |-> acc.session, command |-> l.of])]

NothingRead == [session |-> NoSession, time |-> NoTime, records |-> <<>>]

ReadFile(lines) == FoldLeft(ReadLine, NothingRead, lines)
ParseRecords(lines) == ReadFile(lines).records

TimeAndCommand(r) ==
  (IF r.time = NoTime THEN <<>> ELSE <<TimeLine(r.time)>>) \o LinesOf(r.command)

WriteRecord(acc, r) ==
  [session |-> r.session,
   out |-> acc.out \o (IF r.session = acc.session THEN <<>>
                       ELSE <<SessionLine(r.session)>>) \o TimeAndCommand(r)]

SerializeRecords(records) ==
  FoldLeft(WriteRecord, [session |-> NoSession, out |-> <<>>], records).out

RetainOldest(items, limit) == SubSeq(items, 1, Min({limit, Len(items)}))
RetainLatest(items, limit) == SubSeq(items, Max({0, Len(items) - limit}) + 1, Len(items))

CommandsOf(records) == [i \in DOMAIN records |-> records[i].command]

(* apply_ignore_rules: a repeated command keeps its last occurrence only.  *)
Ignored(c, rules) ==
  \/ "all" \in rules
  \/ "whitespace" \in rules /\ c # <<>> /\ c[1] = Space
  \/ "regex" \in rules /\ c # <<>> /\ c[1] = "b"

Kept(entries, rules, i) ==
  /\ ~Ignored(entries[i], rules)
  /\ "duplicates" \in rules => \A j \in (i + 1)..Len(entries) : entries[j] # entries[i]

ApplyIgnoreRules(entries, rules) ==
  LET chosen(acc, i) == IF Kept(entries, rules, i) THEN Append(acc, entries[i]) ELSE acc
  IN  FoldLeftDomain(chosen, <<>>, entries)

FirstOfEach(records, rules) ==
  LET take(acc, r) ==
        IF Contains(acc.remaining, r.command)
        THEN [remaining |-> RemoveFirst(acc.remaining, r.command),
              records |-> Append(acc.records, r)]
        ELSE acc
  IN  FoldLeft(take, [remaining |-> ApplyIgnoreRules(CommandsOf(records), rules),
                      records |-> <<>>], records).records

(* apply_ignore_rules_to_records: from the newest, each record whose       *)
(* command is still among those kept.  rposition takes off the last of     *)
(* equal commands: as only how many are left matters, so does the first.   *)
TakeRecord(r, acc) ==
  IF Contains(acc.remaining, r.command)
  THEN [remaining |-> RemoveFirst(acc.remaining, r.command), records |-> <<r>> \o acc.records]
  ELSE acc

ApplyIgnoreRulesToRecords(records, rules) ==
  FoldRight(TakeRecord, records,
            [remaining |-> ApplyIgnoreRules(CommandsOf(records), rules),
             records |-> <<>>]).records

(* The recall list, and the records `history` shows.                       *)
Load(c) ==
  RetainLatest(ApplyIgnoreRules(CommandsOf(ParseRecords(file)), c.ignore), c.size)

Inspect(c) ==
  RetainLatest(ApplyIgnoreRulesToRecords(ParseRecords(file), c.ignore), c.size)

-----------------------------------------------------------------------------
(* What a behaviour begins with.                                           *)

(* A file as the shells leave it: a time is always that of a command.      *)
IsFileLine(l) ==
  \/ l = SessionLine(l.of) /\ l.of \in Sessions
  \/ l = TimeLine(l.of) /\ l.of \in Nat
  \/ l = CommandLine(l.of) /\ l.of \in Lines /\ OneLine(l.of)

IsHistoryFile(f) ==
  /\ f \in Seq(Range(f)) /\ \A i \in DOMAIN f : IsFileLine(f[i])
  /\ ReadFile(f).time = NoTime

(* The lines entered, the key presses and the faults of a behaviour, the   *)
(* texts pasted or typed as a whole, what the history file and the         *)
(* clipboard hold at first, the settings sessions have, and who types.     *)
IsScenario(c) ==
  /\ c \in [lines : Nat, keys : Nat, faults : Nat, texts : SUBSET Lines, file : {c.file},
            clipboard : Lines, configs : SUBSET Config, typists : SUBSET Shells]
  /\ c.configs # {} /\ IsHistoryFile(c.file)

(* Enter is the only key that ends a line.                                 *)
ASSUME HistoryAssumption ==
  /\ \A c \in Scenarios : IsScenario(c)
  /\ Keys \subseteq EditingKeys \cup MovingKeys \cup (Characters \ {Newline})

-----------------------------------------------------------------------------
(* A shell: where it is in the prompt loop, its settings, the number of    *)
(* its sessions, its recall list, its editor, the block being read and its *)
(* depth, the lines accepted and not yet appended, whether it leaves after *)
(* them, and its compaction file.                                          *)
(***************************************************************************)
Places == {"prompt", "typing", "block", "run", "append", "compact", "replace", "gone"}

NewShell(s, c, n) ==
  [at |-> "prompt", config |-> c, session |-> <<s, n>>, recall |-> <<>>,
   editor |-> FreshEditor(<<>>), body |-> <<>>, depth |-> 0, accepted |-> <<>>,
   leaving |-> FALSE, compacted |-> <<>>]

First(line) == IF line = <<>> THEN Space ELSE line[1]
FirstWord(line) ==
  LET words == SelectSeq(line, LAMBDA c : c # Space) IN First(words)

Put(s, r) == shell' = [shell EXCEPT ![s] = r]
Free == lock = {}
Spend(what) == budget[what] > 0 /\ budget' = [budget EXCEPT ![what] = @ - 1]

Init ==
  /\ budget \in Scenarios
  /\ file = budget.file
  /\ lock = {} /\ temps = {}
  /\ \E c \in [Shells -> budget.configs] :
       shell = [s \in Shells |-> NewShell(s, c[s], 1)]
  /\ clipboard = budget.clipboard
  /\ log = ParseRecords(file)

(* The top of the loop: the shared history replaces the recall list.  With *)
(* persistence off the list stays as it is.                                *)
Refresh(s) ==
  LET c == shell[s].config
      recall == IF c.enabled THEN Load(c) ELSE shell[s].recall
  IN  /\ shell[s].at = "prompt"
      /\ c.enabled => Free
      /\ Put(s, [shell[s] EXCEPT !.at = "typing", !.recall = recall,
                                 !.editor = FreshEditor(recall)])
      /\ UNCHANGED <<file, lock, temps, clipboard, budget, log>>

-----------------------------------------------------------------------------
(* Keys, at the prompt and on the continuation lines of a block.           *)

AtEditor(s) == s \in budget.typists /\ shell[s].at \in {"typing", "block"}
Buffer(s) == shell[s].editor.buffer

Typed(s, e) ==
  /\ Len(e.buffer) <= MaxLine
  /\ Put(s, [shell[s] EXCEPT !.editor = e])
  /\ UNCHANGED <<file, lock, temps, log>>

EditKey(s) ==
  /\ AtEditor(s) /\ Spend("keys")
  /\ \E k \in EditingKeys \cap Keys : Typed(s, Edited(shell[s].editor)[k])
  /\ UNCHANGED clipboard

MoveKey(s) ==
  LET e == shell[s].editor
  IN  /\ AtEditor(s) /\ Spend("keys")
      /\ \E k \in MovingKeys \cap Keys :
           \/ Typed(s, MoveTo(e, Destination(e)[k]))
           \/ Typed(s, ExtendSelection(e, Destination(e)[k]))  \* with Shift
      /\ UNCHANGED clipboard

RecallKey(s) ==
  /\ AtEditor(s) /\ Spend("keys")
  /\ \/ Typed(s, Up(shell[s].editor, shell[s].recall))
     \/ Typed(s, Down(shell[s].editor, shell[s].recall))
  /\ UNCHANGED clipboard

CharKey(s) ==
  /\ AtEditor(s) /\ Spend("keys")
  /\ \E c \in Keys \ (EditingKeys \cup MovingKeys) :
       Typed(s, InsertText(shell[s].editor, <<c>>))
  /\ UNCHANGED clipboard

TabKey(s) ==
  /\ AtEditor(s) /\ Spend("keys")
  /\ Typed(s, Complete(shell[s].editor))
  /\ UNCHANGED clipboard

(* A bracketed paste into an empty line; how whole lines are entered.      *)
Paste(s) ==
  /\ AtEditor(s) /\ Buffer(s) = <<>> /\ budget.lines > 0
  /\ \E t \in budget.texts : Typed(s, InsertText(shell[s].editor, SingleLine(t)))
  /\ UNCHANGED <<clipboard, budget>>

(* Ctrl+C copies the selection, or else abandons the line; Ctrl+X cuts the *)
(* selection unless the clipboard refuses it; Ctrl+V pastes.               *)
CopyKey(s) ==
  LET e == shell[s].editor
  IN  /\ AtEditor(s) /\ Spend("keys")
      /\ \/ /\ Selecting(e)
            /\ clipboard' \in {SelectedText(e), clipboard}
            /\ Typed(s, e)
         \/ /\ ~Selecting(e)
            /\ Typed(s, Cleared(e, shell[s].recall))
            /\ UNCHANGED clipboard

CutKey(s) ==
  LET e == shell[s].editor
  IN  /\ AtEditor(s) /\ Selecting(e) /\ Spend("keys")
      /\ clipboard' = SelectedText(e)
      /\ Typed(s, DeleteSelection(e))

PasteKey(s) ==
  /\ AtEditor(s) /\ Spend("keys")
  /\ Typed(s, InsertText(shell[s].editor, SingleLine(clipboard)))
  /\ UNCHANGED clipboard

(* Esc drops the selection, or else the line.                              *)
EscKey(s) ==
  LET e == shell[s].editor
  IN  /\ AtEditor(s) /\ Spend("keys")
      /\ e.anchor # NoAnchor \/ shell[s].at = "typing" \/ e.buffer # <<>>
      /\ Typed(s, IF e.anchor # NoAnchor THEN [e EXCEPT !.anchor = NoAnchor]
                  ELSE Cleared(e, shell[s].recall))
      /\ UNCHANGED clipboard

-----------------------------------------------------------------------------
(* Lines.                                                                  *)

(* Enter at the prompt.                                                    *)
EnterLine(s) ==
  LET line == Buffer(s)
      recall == AddHistory(shell[s].recall, line)
      r == [shell[s] EXCEPT !.recall = recall, !.editor = FreshEditor(recall)]
  IN  /\ shell[s].at = "typing" /\ Spend("lines")
      /\ Put(s, CASE IsBlank(line) -> [r EXCEPT !.at = "prompt"]
                  [] FirstWord(line) = Opener ->
                       [r EXCEPT !.at = "block", !.body = <<line>>, !.depth = 1]
                  [] OTHER -> [r EXCEPT !.at = "run", !.accepted = <<line>>])
      /\ UNCHANGED <<file, lock, temps, clipboard, log>>

(* Enter on a line of a block, up to its `end`.                            *)
EnterBlockLine(s) ==
  LET line == Buffer(s)
      recall == AddHistory(shell[s].recall, line)
      word == FirstWord(line)
      depth == shell[s].depth + (IF word = Opener THEN 1 ELSE IF word = End THEN -1 ELSE 0)
      r == [shell[s] EXCEPT !.recall = recall, !.editor = FreshEditor(recall),
                            !.depth = depth]
  IN  /\ shell[s].at = "block" /\ Spend("lines")
      /\ Put(s, IF depth = 0 THEN [r EXCEPT !.at = "run", !.accepted = r.body, !.body = <<>>]
                ELSE [r EXCEPT !.body = Append(@, line)])
      /\ UNCHANGED <<file, lock, temps, clipboard, log>>

(* Ctrl+D on an empty line: the end of the session, or of the block.       *)
EndOfInput(s) ==
  /\ AtEditor(s) /\ Buffer(s) = <<>> /\ Spend("keys")
  /\ Put(s, IF shell[s].at = "typing" THEN [shell[s] EXCEPT !.at = "gone"]
            ELSE [shell[s] EXCEPT !.at = "run", !.accepted = shell[s].body, !.body = <<>>,
                                  !.depth = 0])
  /\ UNCHANGED <<file, lock, temps, clipboard, log>>

(* Esc on an empty continuation line cancels the block.                    *)
AbortBlock(s) ==
  /\ shell[s].at = "block" /\ Buffer(s) = <<>> /\ shell[s].editor.anchor = NoAnchor
  /\ Spend("keys")
  /\ Put(s, [shell[s] EXCEPT !.at = "prompt", !.body = <<>>, !.depth = 0])
  /\ UNCHANGED <<file, lock, temps, clipboard, log>>

-----------------------------------------------------------------------------
(* Execution and persistence of what was entered.                          *)

Left(r) ==
  [r EXCEPT !.at = IF r.leaving THEN "gone" ELSE "prompt", !.accepted = <<>>]

IsBlock(r) == FirstWord(r.accepted[1]) = Opener
NotFound(r) == ~IsBlock(r) /\ FirstWord(r.accepted[1]) = Unknown

(* should_persist_input and the early returns of append.                   *)
Dispatched(r) ==
  LET kept == ApplyIgnoreRules(r.accepted, r.config.ignore)
  IN  IF \/ NotFound(r) /\ "no_such_command" \in r.config.ignore
         \/ ~r.config.enabled \/ kept = <<>>
      THEN Left(r)
      ELSE [r EXCEPT !.at = "append", !.accepted = kept]

IsCompact(r) == ~IsBlock(r) /\ FirstWord(r.accepted[1]) = Compact /\ r.config.enabled

(* A command or a block runs.  A block may exit the shell.                 *)
Execute(s) ==
  LET r == shell[s]
      line == r.accepted[1]
  IN  /\ r.at = "run" /\ ~IsCompact(r)
      /\ \E leaving \in IF IsBlock(r) THEN BOOLEAN ELSE {FirstWord(line) = Exit} :
           Put(s, Dispatched([r EXCEPT !.leaving = leaving]))
      /\ UNCHANGED <<file, lock, temps, clipboard, budget, log>>

(* `history --compact` takes the mutex and compacts.                       *)
CompactCommand(s) ==
  /\ shell[s].at = "run" /\ IsCompact(shell[s]) /\ Free
  /\ lock' = {s}
  /\ Put(s, [shell[s] EXCEPT !.at = "compact"])
  /\ UNCHANGED <<file, temps, clipboard, budget, log>>

(* The batch, under the mutex: a session line, then the commands.          *)
Batch(r) ==
  [i \in DOMAIN r.accepted |->
     [time |-> IF r.config.timestamped THEN Len(log) + 1 ELSE NoTime,
      session |-> r.session, command |-> r.accepted[i]]]

BatchLines(s) ==
  <<SessionLine(shell[s].session)>>
    \o FlattenSeq([i \in DOMAIN shell[s].accepted |-> TimeAndCommand(Batch(shell[s])[i])])

AppendUnlocked(s) ==
  /\ shell[s].at = "append"
  /\ file' = file \o BatchLines(s) /\ log' = log \o Batch(shell[s])
  /\ Put(s, [shell[s] EXCEPT !.at = "compact", !.accepted = <<>>])
  /\ UNCHANGED <<lock, temps, clipboard, budget>>

AppendBatch(s) ==
  /\ shell[s].at = "append" /\ Free
  /\ lock' = {s}
  /\ file' = file \o BatchLines(s) /\ log' = log \o Batch(shell[s])
  /\ Put(s, [shell[s] EXCEPT !.at = "compact", !.accepted = <<>>])
  /\ UNCHANGED <<temps, clipboard, budget>>

(* The file cannot be opened or written.                                   *)
AppendFails(s) ==
  /\ shell[s].at = "append" /\ Free /\ Spend("faults")
  /\ Put(s, Left(shell[s]))
  /\ UNCHANGED <<file, lock, temps, clipboard, log>>

(* After a compaction by `history --compact` the command is still to be    *)
(* appended.                                                               *)
Released(r) == IF r.accepted # <<>> THEN Dispatched([r EXCEPT !.compacted = <<>>])
               ELSE Left([r EXCEPT !.compacted = <<>>])

(* compact_locked, up to the compaction file.                              *)
CompactLocked(s) ==
  LET records == ParseRecords(file)
      limit == shell[s].config.fileSize
  IN  /\ shell[s].at = "compact"
      /\ IF Len(records) <= limit
         THEN lock' = lock \ {s} /\ Put(s, Released(shell[s]))
         ELSE /\ Put(s, [shell[s] EXCEPT !.at = "replace",
                           !.compacted = SerializeRecords(RetainLatest(records, limit))])
              /\ UNCHANGED lock
      /\ UNCHANGED <<file, temps, clipboard, budget, log>>

ReplaceFile(s) ==
  /\ shell[s].at = "replace"
  /\ file' = shell[s].compacted
  /\ lock' = lock \ {s}
  /\ Put(s, Released(shell[s]))
  /\ UNCHANGED <<temps, clipboard, budget, log>>

(* The compaction file cannot be written, or cannot replace the history    *)
(* file; then it is removed.                                               *)
CompactFails(s) ==
  /\ shell[s].at \in {"compact", "replace"} /\ Spend("faults")
  /\ lock' = lock \ {s}
  /\ Put(s, Released(shell[s]))
  /\ UNCHANGED <<file, temps, clipboard, log>>

(* The process dies; the mutex is abandoned, the next session starts.      *)
Crash(s) ==
  /\ shell[s].at \notin {"typing", "gone"} /\ Spend("faults")
  /\ lock' = lock \ {s}
  /\ temps' = IF shell[s].at = "replace" THEN temps \cup {shell[s].session} ELSE temps
  /\ \E c \in budget.configs : Put(s, NewShell(s, c, shell[s].session[2] + 1))
  /\ UNCHANGED <<file, clipboard, log>>

Next ==
  \E s \in Shells :
       \/ Refresh(s) \/ Paste(s) \/ EditKey(s) \/ MoveKey(s) \/ RecallKey(s)
       \/ CharKey(s) \/ TabKey(s) \/ CopyKey(s) \/ CutKey(s) \/ PasteKey(s)
       \/ EscKey(s) \/ EnterLine(s) \/ EnterBlockLine(s) \/ EndOfInput(s)
       \/ AbortBlock(s) \/ Execute(s) \/ CompactCommand(s) \/ AppendBatch(s)
       \/ AppendFails(s) \/ CompactLocked(s) \/ ReplaceFile(s) \/ CompactFails(s)
       \/ Crash(s)

Spec == Init /\ [][Next]_vars

-----------------------------------------------------------------------------
(* Every shell's state is well-formed, its cursor and its selection lie    *)
(* inside the line (the code slices the line with them), an empty          *)
(* selection is never kept, and the mutex is held exactly by the shell     *)
(* that compacts.                                                          *)
SoundEditor(e, recall) ==
  /\ e \in EditorState(Lines)
  /\ e.cursor <= Len(e.buffer) /\ e.anchor <= Len(e.buffer) /\ e.anchor # e.cursor
  /\ e.index <= Len(recall)

TypeOK ==
  /\ clipboard \in Lines
  /\ \A s \in Shells :
       /\ shell[s].at \in Places
       /\ shell[s].config \in budget.configs
       /\ AtEditor(s) => SoundEditor(shell[s].editor, shell[s].recall)
       /\ s \in lock <=> shell[s].at \in {"compact", "replace"}
       /\ shell[s].at \in {"run", "append"} => shell[s].accepted # <<>>

(* The file always holds the newest records, whole, in the order of their  *)
(* appends and with the sessions and times they were appended with; never  *)
(* fewer than the smallest HISTFILE_SIZE keeps, whoever compacts and       *)
(* whenever it dies (append, compact_locked, replace_file).                *)
SmallestLimit == Min({c.fileSize : c \in budget.configs})

FileIsLatest ==
  LET records == ParseRecords(file)
  IN  /\ IsSuffix(records, log)
      /\ Len(records) >= Min({Len(log), SmallestLimit})

(* A command completed in any shell before a prompt can be recalled there, *)
(* if the shell does not ignore it ("so Up-arrow sees commands entered in  *)
(* other windows").                                                        *)
NewestIsRecalled ==
  [][\A s \in Shells :
       LET c == shell[s].config
       IN  /\ shell[s].at = "prompt" /\ shell'[s].at = "typing" /\ log # <<>>
           /\ c.enabled /\ c.size > 0 /\ SmallestLimit > 0
           /\ ~Ignored(Last(log).command, c.ignore)
           => Contains(shell'[s].recall, Last(log).command)]_vars

(* `history` lists exactly what a prompt would recall: the filter on       *)
(* records and the filter on commands agree.                               *)
ListingMatchesRecall ==
  \A s \in Shells : CommandsOf(Inspect(shell[s].config)) = Load(shell[s].config)

(* Browsing up from the line being typed and down again brings it back,    *)
(* however far (Up, Down and saved_current).                               *)
Times(n, step(_), e) == FoldLeft(LAMBDA x, i : step(x), e, [i \in 1..n |-> i])

BrowsingReturns ==
  \A s \in Shells :
    LET e == shell[s].editor  recall == shell[s].recall
        up(x) == Up(x, recall)  down(x) == Down(x, recall)
    IN  AtEditor(s) /\ e.index = Len(recall) =>
          \A n \in 0..Len(recall) : Times(n, down, Times(n, up, e)).buffer = e.buffer

(* Cutting a selection and pasting it where the cursor was left restores   *)
(* the line (Ctrl+X, Ctrl+V).                                              *)
CutPasteRestores ==
  \A s \in Shells :
    LET e == shell[s].editor
    IN  AtEditor(s) /\ Selecting(e) =>
          InsertText(DeleteSelection(e), SingleLine(SelectedText(e))).buffer = e.buffer

=============================================================================
