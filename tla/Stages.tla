------------------------------- MODULE Stages -------------------------------
(* The pipeline stages that run inside the shell (pipeline_exec.rs, with the
   listings of fs_builtins.rs and the manifests of copy.rs, fs_ops.rs,
   compress.rs, delete.rs and stat.rs): what each makes of its arguments and
   of what the stage before it carried to it.

   A stage has a set of outcomes, since what happens to files outside this
   model decides some of them.  What a file operation does to the files is
   left to OperationJournal: here it is noted in did, with its sources.

   A world is [files, saved, did]: the files by path, the saved journals and
   the file operations performed. *)
EXTENDS Tables

CONSTANTS
  Tree,          \* the directory entries, sorted: [path, dir, dot]
  LongOptions,   \* the words that begin with --
  ShortOptions,  \* the words that begin with one dash
  Variables,     \* the structured variables: a function from names to values
  Functions      \* the names of functions

\* What a stage carries to the next one.
Nothing == [kind |-> "none"]
Bytes(text) == [kind |-> "bytes", text |-> text]
Table(rows) == [kind |-> "table", rows |-> rows]
Plan(op, paths, force) ==
    [kind |-> "plan", op |-> op, paths |-> paths, force |-> force]
Journal(id, op, status, safe, paths) ==
    [kind |-> "journal", id |-> id, op |-> op, status |-> status,
     safe |-> safe, paths |-> paths]

IsStructured(value) == value.kind \in {"table", "fileset", "plan", "journal"}

IsFileSet(value) ==
    /\ value.kind = "fileset"
    /\ value = [kind |-> "fileset", files |-> value.files, roots |-> value.roots,
                columns |-> value.columns]

IsJournal(value) ==
    /\ value.kind = "journal"
    /\ value = Journal(value.id, value.op, value.status, value.safe, value.paths)

\* A structured value with all its parts.
IsValue(value) ==
    \/ value.kind = "table" /\ value = Table(value.rows)
    \/ IsFileSet(value)
    \/ value.kind = "plan" /\ value = Plan(value.op, value.paths, value.force)
    \/ IsJournal(value)

ASSUME StagesAssumption == \A name \in DOMAIN Variables : IsValue(Variables[name])

PlanTable(plan) ==
    [i \in DOMAIN plan.paths |->
        << <<"operation", plan.op>>, <<"source", plan.paths[i]>> >>]

JournalTable(journal) ==
    [i \in DOMAIN journal.paths |->
        << <<"operation_id", journal.id>>, <<"operation", journal.op>>,
           <<"status", journal.status>>, <<"path", journal.paths[i]>> >>]

Rows(value) ==
    CASE value.kind = "table"   -> value.rows
      [] value.kind = "fileset" -> FileTable(value)
      [] value.kind = "plan"    -> PlanTable(value)
      [] value.kind = "journal" -> JournalTable(value)

----------------------------------------------------------------------------
(* Outcomes. *)

Failed(world) ==
    [ok |-> FALSE, form |-> "text", text |-> << >>, value |-> Nothing,
     world |-> world]

Fails(world) == {Failed(world)}

\* Text for the next stage, the file or the console.
Says(text, world) == {[Failed(world) EXCEPT !.ok = TRUE, !.text = text]}

\* A structured value, shown as JSON where the pipeline ends.
Gives(value, world) ==
    {[Failed(world) EXCEPT !.ok = TRUE, !.form = "value", !.value = value]}

\* A summary, shown wherever the stage is; value goes on.
Reports(op, paths, value, world) ==
    {[ok |-> TRUE, form |-> "report", text |-> Lines(<<op>>), value |-> value,
      world |-> [world EXCEPT !.did = Append(@, <<op, paths>>)]]}

MayFail(outcomes, world) == outcomes \cup Fails(world)

----------------------------------------------------------------------------
(* Text: echo, cat, find, files and folders. *)

Kind(world, path) ==
    IF path \in DOMAIN world.files THEN world.files[path].kind ELSE "none"

Given(args, flags) == \E i \in DOMAIN args : args[i] \in flags

Positional(args) ==
    SelectSeq(args, LAMBDA a : a \notin LongOptions \cup ShortOptions)

OnlyOptions(args, options, flags) ==
    \A i \in DOMAIN args : args[i] \in options => args[i] \in flags

Echo(args, world) ==
    LET words == IF args # << >> /\ args[1] = "-n" THEN Tail(args) ELSE args
        line  == IF words = << >> THEN ""
                 ELSE FoldLeft(LAMBDA l, w : l \o " " \o w, words[1], Tail(words))
    IN  Says(Lines(<<line>>), world)

Cat(args, world) ==
    IF args # << >> /\ \A i \in DOMAIN args : Kind(world, args[i]) = "file"
    THEN Says(FlattenSeq([i \in DOMAIN args |-> world.files[args[i]].text]), world)
    ELSE Fails(world)

AllOptions == LongOptions \cup ShortOptions

Entries(dir, all, world) ==
    SelectSeq(Tree, LAMBDA e : /\ e.dir = dir
                               /\ Kind(world, e.path) # "none"
                               /\ e.dot => all)

\* The files below a directory, without hidden ones unless all are asked for.
FilesBelow(dir, recurse, all, world) ==
    LET below[d \in DOMAIN world.files] ==
          UNION {IF Kind(world, e.path) = "file" THEN {e.path}
                 ELSE IF recurse THEN below[e.path] ELSE {}
                 : e \in ToSet(Entries(d, all, world))}
    IN  below[dir]

InTreeOrder(paths) ==
    LET entries == SelectSeq(Tree, LAMBDA e : e.path \in paths)
    IN  [i \in DOMAIN entries |-> entries[i].path]

FindFlags == {"--all", "-a", "--recurse", "-r"}

Found(args, dirs, world) ==
    InTreeOrder(UNION {FilesBelow(d, Given(args, {"--recurse", "-r"}),
                                  Given(args, {"--all", "-a"}), world) : d \in dirs})

\* Directories that cannot be read are left out while one can be.
FindText(args, world) ==
    LET named == ToSet(Positional(args))
        dirs  == {d \in IF named = {} THEN {"."} ELSE named : Kind(world, d) = "dir"}
    IN  IF OnlyOptions(args, AllOptions, FindFlags) /\ dirs # {}
        THEN Says(Lines(Found(args, dirs, world)), world)
        ELSE Fails(world)

StatRecord(path, hash, world) ==
    FileRecord(path, ToString(Len(world.files[path].text)),
               Kind(world, path) = "dir",
               IF hash THEN ToString(world.files[path].text) ELSE NoHash)

StatRecords(paths, hash, world) ==
    LET present == SelectSeq(paths, LAMBDA p :
                       Kind(world, p) # "none" /\ (hash => Kind(world, p) = "file"))
    IN  [i \in DOMAIN present |-> StatRecord(present[i], hash, world)]

\* Below the directories of a file set, which become the roots of the result.
FindInFileSet(args, in, world) ==
    IF /\ OnlyOptions(args, AllOptions, FindFlags)
       /\ Positional(args) = << >>
       /\ \A i \in DOMAIN in.files : in.files[i].isDir
    THEN Gives(NewFileSet(StatRecords(Found(args, ToSet(FilePaths(in)), world),
                                      FALSE, world),
                          FilePaths(in)), world)
    ELSE Fails(world)

Find(args, in, world) ==
    IF in.kind = "fileset" THEN FindInFileSet(args, in, world)
                           ELSE FindText(args, world)

ListEntries(kind, args, world) ==
    LET named   == Positional(args)
        dir     == IF named = << >> THEN "." ELSE named[1]
        entries == SelectSeq(Entries(dir, Given(args, {"--all", "-a"}), world),
                             LAMBDA e : Kind(world, e.path) = kind)
    IN  IF /\ OnlyOptions(args, AllOptions, {"--all", "-a", "--full", "-f"})
           /\ Len(named) <= 1
           /\ Kind(world, dir) = "dir"
        THEN Gives(NewFileSet(StatRecords([i \in DOMAIN entries |-> entries[i].path],
                                          FALSE, world), << >>), world)
        ELSE Fails(world)

----------------------------------------------------------------------------
(* Structured stages. *)

FromJsonStage(in, world) ==
    IF in.kind = "bytes" /\ IsJson(in.text)
    THEN Gives(Table(FromJson(in.text)), world) ELSE Fails(world)

FromCsvStage(in, world) ==
    IF in.kind = "bytes" /\ IsCsv(in.text)
    THEN Gives(Table(FromCsv(in.text)), world) ELSE Fails(world)

ToJsonStage(in, world) ==
    IF IsStructured(in) THEN Says(ToJson(Rows(in)), world) ELSE Fails(world)

ToCsvStage(in, world) ==
    IF IsStructured(in) THEN Says(ToCsv(Rows(in)), world) ELSE Fails(world)

SelectStage(args, in, world) ==
    CASE in.kind = "fileset" -> Gives(SelectFiles(in, args), world)
      [] in.kind = "table"   -> Gives(Table(SelectColumns(in.rows, args)), world)
      [] OTHER               -> Fails(world)

MergeStage(args, in, world) ==
    IF /\ in.kind = "table"
       /\ Len(args) = 1
       /\ args[1] \in DOMAIN Variables
       /\ Variables[args[1]].kind = "table"
       /\ SameRowCount(in.rows, Variables[args[1]].rows)
    THEN Gives(Table(MergeTables(in.rows, Variables[args[1]].rows)), world)
    ELSE Fails(world)

WhereStage(args, in, world) ==
    CASE Len(args) # 3 \/ ~(args[2] \in WhereOperators) -> Fails(world)
      [] in.kind = "fileset" ->
           Gives(FilterFiles(in, args[1], args[2], args[3]), world)
      [] in.kind = "table" ->
           Gives(Table(FilterTable(in.rows, args[1], args[2], args[3])), world)
      [] OTHER -> Fails(world)

DateColumnStage(args, in, world) ==
    IF in.kind = "table" /\ CanTransform(in.rows, args)
    THEN Gives(Table(Transform(in.rows, args)), world) ELSE Fails(world)

\* Files named as arguments win over those that are piped in.
StatStage(args, in, world) ==
    LET hash  == Given(args, {"--hash"})
        named == SelectSeq(args, LAMBDA a : a \notin LongOptions \cup {"sha256"})
        paths == CASE named # << >>     -> named
                   [] in.kind = "bytes" -> PathLines(in.text)
                   [] OTHER             -> << >>
    IN  CASE ~OnlyOptions(args, LongOptions, {"--hash"})
               \/ \E i \in DOMAIN args :
                     /\ args[i] = "--hash"
                     /\ i < Len(args) => args[i + 1] # "sha256" -> Fails(world)
          [] named = << >> /\ in.kind = "fileset" /\ ~hash -> Gives(in, world)
          [] named = << >> /\ in.kind = "fileset" /\ hash ->
               Gives(NewFileSet(StatRecords(FilePaths(in), TRUE, world), << >>), world)
          [] OTHER -> Gives(NewFileSet(StatRecords(paths, hash, world), << >>), world)

----------------------------------------------------------------------------
(* File operations.  Files named as arguments win over a manifest that is
   piped in; --plan needs a file set and does nothing yet.  Left out: --backup,
   and the short options that copy and compress take for file names. *)

IsManifest(in) == in.kind \in {"table", "fileset"}

\* Whether the arguments leave the sources to the manifest.
TakesManifest(op, positional) == Len(positional) = IF op = "delete" THEN 0 ELSE 1

NamesFiles(op, positional) == Len(positional) >= IF op = "delete" THEN 1 ELSE 2

NamedFiles(op, positional) ==
    IF op = "delete" THEN positional ELSE Front(positional)

\* move and delete look the paths up in the columns that are shown, copy and
\* compress take those of the records.
ManifestPaths(op, in) ==
    IF in.kind = "fileset" /\ op \in {"copy", "compress"}
    THEN FilePaths(in) ELSE TablePaths(Rows(in))

\* A moved or deleted manifest is stale and is not passed on.
Forwarded(op, in) == IF op \in {"copy", "compress"} THEN in ELSE Nothing

\* Plans move and copy files only; directories are deleted with --recurse.
PlannedOperation(op, args, in, world) ==
    LET force == op # "delete" /\ Given(args, {"--force", "-f"})
    IN  IF /\ \E i \in DOMAIN in.files : in.files[i].isDir
           /\ op = "delete" => ~Given(args, {"--recurse", "-r"})
        THEN Fails(world)
        ELSE MayFail(Gives(Plan(op, FilePaths(in), force), world), world)

FileOperation(op, args, positional, in, world) ==
    CASE NamesFiles(op, positional) ->
           Reports(op, NamedFiles(op, positional), Nothing, world)
      [] TakesManifest(op, positional) /\ IsManifest(in) ->
           Reports(op, ManifestPaths(op, in), Forwarded(op, in), world)
      [] OTHER -> Fails(world)

PlanOrDo(op, args, in, world) ==
    LET positional == Positional(args)
    IN  CASE ~Given(args, {"--plan"}) ->
               FileOperation(op, args, positional, in, world)
          [] /\ Given(args, {"--plan"})
             /\ TakesManifest(op, positional)
             /\ in.kind = "fileset" -> PlannedOperation(op, args, in, world)
          [] OTHER -> Fails(world)

CopyStage(args, in, world) ==
    IF OnlyOptions(args, AllOptions, {"--force", "-f", "--plan"})
    THEN PlanOrDo("copy", args, in, world) ELSE Fails(world)

MoveStage(args, in, world) ==
    IF OnlyOptions(args, AllOptions, {"--force", "-f", "--plan"})
    THEN PlanOrDo("move", args, in, world) ELSE Fails(world)

DeleteStage(args, in, world) ==
    IF /\ OnlyOptions(args, AllOptions,
                      {"--permanent", "--force", "-f", "--recurse", "-r", "--plan"})
       /\ Given(args, {"--permanent"}) =>
            Given(args, {"--force", "-f"}) /\ ~Given(args, {"--plan"})
    THEN PlanOrDo("delete", args, in, world) ELSE Fails(world)

\* One archive for each root of the file set, applied at once or planned.
CompressPerRoot(args, in, world) ==
    IF /\ TakesManifest("compress", Positional(args))
       /\ in.kind = "fileset"
       /\ in.roots # << >>
    THEN IF Given(args, {"--plan"})
         THEN PlannedOperation("compress", args, in, world)
         ELSE MayFail(Reports("compress", FilePaths(in), in, world), world)
    ELSE Fails(world)

CompressStage(args, in, world) ==
    CASE ~OnlyOptions(args, AllOptions,
                      {"--force", "-f", "--per-root", "--plan", "--apply"}) ->
           Fails(world)
      [] Given(args, {"--plan"}) /\ Given(args, {"--apply"})          -> Fails(world)
      [] Given(args, {"--per-root"})          -> CompressPerRoot(args, in, world)
      [] Given(args, {"--plan", "--apply"})   -> Fails(world)
      [] OTHER -> FileOperation("compress", args, Positional(args), in, world)

----------------------------------------------------------------------------
(* Journals: apply, undo, rollback, recover and journal. *)

Save(journal, world) ==
    LET i == SelectInSeq(world.saved, LAMBDA j : j.id = journal.id)
    IN  [world EXCEPT !.saved =
            IF i = 0 THEN Append(@, journal) ELSE ReplaceAt(@, i, journal)]

NeedsRecovery(journal) ==
    journal.status \in {"in_progress", "partially_applied", "failed"}

Ended(journal, status) == [journal EXCEPT !.status = status]

\* An apply that fails leaves its journal too.  What replaced a file cannot be
\* undone, and only a forced plan replaces one.
ApplyStage(args, in, world) ==
    IF args = << >> /\ in.kind = "plan"
    THEN LET id == ToString(Len(world.saved) + 1)
             Of(status, safe) == Journal(id, in.op, status, safe, in.paths)
             done == [world EXCEPT !.did = Append(@, <<in.op, in.paths>>)]
         IN  UNION {Gives(Of("applied", safe), Save(Of("applied", safe), done))
                    \cup Fails(Save(Of("failed", safe), world))
                    \cup Fails(Save(Of("partially_applied", safe), world))
                    \cup Fails(Save(Of("rolled_back", safe), world))
                    : safe \in {TRUE, ~in.force}}
    ELSE Fails(world)

\* The journal may come out although it could not be saved.
Reversed(journal, status, world) ==
    LET undone == [world EXCEPT !.did = Append(@, <<status, journal.paths>>)]
    IN  Gives(Ended(journal, status), undone)
        \cup Gives(Ended(journal, status), Save(Ended(journal, status), undone))
        \cup Fails(world)

UndoStage(args, in, world) ==
    IF args = << >> /\ in.kind = "journal" /\ in.status = "applied" /\ in.safe
    THEN Reversed(in, "undone", world) ELSE Fails(world)

RollbackStage(args, in, world) ==
    IF args = << >> /\ in.kind = "journal" /\ NeedsRecovery(in) /\ in.safe
    THEN Reversed(in, "rolled_back", world) ELSE Fails(world)

JournalRow(journal) ==
    << <<"operation_id", journal.id>>, <<"operation", journal.op>>,
       <<"status", journal.status>> >>

Saved(id, world) == {j \in ToSet(world.saved) : j.id = id}

RecoverStage(args, world) ==
    LET ids    == Positional(args)
        found  == {j \in Saved(ids[1], world) : NeedsRecovery(j)}
        listed == SelectSeq(world.saved, NeedsRecovery)
        rollback == Given(args, {"--rollback"})
        resume   == Given(args, {"--resume"})
    IN  CASE \/ ~OnlyOptions(args, LongOptions, {"--rollback", "--resume"})
             \/ rollback /\ resume
             \/ Len(ids) > 1
             \/ ids = << >> /\ (rollback \/ resume) -> Fails(world)
          [] ids = << >> -> Gives(Table([i \in DOMAIN listed |-> JournalRow(listed[i])]),
                                  world)
          [] found = {}  -> Fails(world)
          [] rollback -> UNION {IF j.safe THEN Reversed(j, "rolled_back", world)
                                          ELSE Fails(world) : j \in found}
          [] resume   -> UNION {IF j.safe /\ j.op # "delete"
                                THEN MayFail(Gives(Ended(j, "applied"),
                                               Save(Ended(j, "applied"), world)), world)
                                ELSE Fails(world) : j \in found}
          [] OTHER    -> UNION {Gives(j, world) : j \in found}

JournalStage(args, world) ==
    CASE Len(args) > 1 -> Fails(world)
      [] args = << >>  -> Gives(Table([i \in DOMAIN world.saved |->
                                          JournalRow(world.saved[i])]), world)
      [] OTHER         -> LET found == Saved(args[1], world)
                          IN  IF found = {} THEN Fails(world)
                              ELSE UNION {Gives(j, world) : j \in found}

----------------------------------------------------------------------------
(* The stages by their command. *)

Providers == {"echo", "cat", "find", "files", "folders", "dirs"}
FileOperations == {"copy", "cp", "move", "mv", "compress", "delete"}
JournalCommands == {"apply", "undo", "rollback", "recover", "journal"}
Transforms ==
    {"from-json", "to-json", "from-csv", "to-csv", "select", "merge", "where",
     "filter", "date-column", "stat"}

\* Builtins that cannot be a stage.
ElsewhereOnly ==
    {"pvar", "elevate", "is-elevated", "dmark", "test", "matches", "let", "drop",
     "fn", "read", "source", "exit", "quit", "help", "end"}

\* What a stage is: its first word decides.  The empty command is unsupported.
Classify(words) ==
    CASE words = << >> -> "unsupported"
      [] words[1] \in Providers \cup FileOperations \cup JournalCommands
                       \cup Transforms -> words[1]
      [] words[1] \in DOMAIN Variables -> "variable"
      [] words[1] \in Functions \cup ElsewhereOnly -> "unsupported"
      [] OTHER -> "external"

\* The stages whose input the shell reads itself.
ReadByShell ==
    {"from-json", "from-csv", "select", "merge", "to-json", "where", "filter",
     "date-column", "stat"}

\* What the stage of words makes of in; a file set wins over a table of its name.
InProcess(words, in, world) ==
    LET args == Tail(words)
        kind == Classify(words)
    IN  CASE kind = "echo"                -> Echo(args, world)
          [] kind = "cat"                 -> Cat(args, world)
          [] kind = "find"                -> Find(args, in, world)
          [] kind = "files"               -> ListEntries("file", args, world)
          [] kind \in {"folders", "dirs"} -> ListEntries("dir", args, world)
          [] kind \in {"copy", "cp"}      -> CopyStage(args, in, world)
          [] kind \in {"move", "mv"}      -> MoveStage(args, in, world)
          [] kind = "compress"            -> CompressStage(args, in, world)
          [] kind = "delete"              -> DeleteStage(args, in, world)
          [] kind = "apply"               -> ApplyStage(args, in, world)
          [] kind = "undo"                -> UndoStage(args, in, world)
          [] kind = "rollback"            -> RollbackStage(args, in, world)
          [] kind = "recover"             -> RecoverStage(args, world)
          [] kind = "journal"             -> JournalStage(args, world)
          [] kind = "from-json"           -> FromJsonStage(in, world)
          [] kind = "from-csv"            -> FromCsvStage(in, world)
          [] kind = "to-json"             -> ToJsonStage(in, world)
          [] kind = "to-csv"              -> ToCsvStage(in, world)
          [] kind = "select"              -> SelectStage(args, in, world)
          [] kind = "merge"               -> MergeStage(args, in, world)
          [] kind \in {"where", "filter"} -> WhereStage(args, in, world)
          [] kind = "date-column"         -> DateColumnStage(args, in, world)
          [] kind = "stat"                -> StatStage(args, in, world)
          [] kind = "variable"            -> Gives(Variables[words[1]], world)

=============================================================================
