------------------------------ MODULE Pipeline ------------------------------
(* Running one pipeline (pipeline.rs, pipeline_exec.rs): its line is parsed
   and its stages classified; the shell goes through them from left to right,
   runs its own stages at once and starts a process for each of the others,
   connected by pipes; then it waits for them in the same order.

   A pipe holds PipeCapacity units of text.  Who may write to it and read from
   it are holders: <<k, "proc">> is the process of stage k, <<k, "out">> and
   <<k, "err">> the threads that forward both streams of stage k - 1 to it,
   and <<0, "shell">> the shell.  A stream is connected to a Handle: a pipe
   <<k, "in">>, <<k, "out">> or <<k, "err">>, or <<0, name>> for the console, the
   null device and the files.

   A program writes its own text, then copies none, one or all of the units
   that it reads, and ends; the pipe's other end gone, it fails.

   CloseWithFirst, KeepInput and SpawnLeavingCarry are faulty variants of the
   definitions after them. *)
EXTENDS Stages, FiniteSets

CONSTANTS
  Jobs,          \* the lines: [tokens, capture]
  Programs,      \* the programs that are found: [writes, copies, ok] by name
  Disk,          \* the files there are at first
  Journals,      \* the journals saved at first
  MaxStages,     \* most stages of a line
  PipeCapacity

ASSUME PipelineAssumption ==
    /\ PipeCapacity \in Nat \ {0} /\ MaxStages \in Nat \ {0}
    /\ \A name \in DOMAIN Programs : Programs[name].ok \in BOOLEAN
    /\ Journals \in Seq(ToSet(Journals))
    /\ \A i \in DOMAIN Journals : IsJournal(Journals[i])

VARIABLES
  job,        \* the parsed line
  at,         \* the stage the shell is at
  phase,      \* what it does there
  carry,      \* what feeds the next stage
  left,       \* text still to be written to the stage, or read from it
  procs,      \* the processes, by stage
  threads,    \* the forwarding threads, by holder
  pipes,      \* the pipes, by handle
  shown,      \* what each stage's streams showed on the console
  world,      \* the files, journals and file operations
  captured,   \* the value that let stores
  result      \* the status returned

vars == <<job, at, phase, carry, left, procs, threads, pipes, shown, world,
          captured, result>>

----------------------------------------------------------------------------
(* Parsing. *)

PipeOperators == {"|", "^|", "&|"}
RedirectOperators == {">", ">>", "^>", "&>"}

Stage(words, redirects) == [words |-> words, redirects |-> redirects]

\* One token more: the target of the redirection before it, whatever it is; an
\* operator; the & that ends the line; or a word.
ParseToken(tokens, p, i) ==
    LET token == tokens[i]
        last  == i = Len(tokens)
    IN  CASE p.target # "" ->
               [p EXCEPT !.target = "",
                         !.stage.redirects = Append(@, <<p.target, token>>)]
          [] p.target = "" /\ token \in PipeOperators ->
               [p EXCEPT !.stages = Append(@, p.stage),
                         !.stage = Stage(<< >>, << >>),
                         !.pipes = Append(@, token)]
          [] p.target = "" /\ token \in RedirectOperators -> [p EXCEPT !.target = token]
          [] p.target = "" /\ token = "&" /\ last  -> [p EXCEPT !.background = TRUE]
          [] p.target = "" /\ token = "&!" /\ last -> [p EXCEPT !.disown = TRUE]
          [] OTHER -> [p EXCEPT !.stage.words = Append(@, token)]

Parse(tokens) ==
    LET empty == [stages |-> << >>, pipes |-> << >>, stage |-> Stage(<< >>, << >>),
                  target |-> "", background |-> FALSE, disown |-> FALSE]
        p == FoldLeft(LAMBDA q, i : ParseToken(tokens, q, i), empty,
                      [i \in DOMAIN tokens |-> i])
    IN  [stages |-> Append(p.stages, p.stage), pipes |-> p.pipes,
         background |-> p.background, disown |-> p.disown]

\* Parse makes at least one stage; no line has more than MaxStages.
ASSUME LineAssumption ==
    \A j \in Jobs : LET stages == Parse(j.tokens).stages
                    IN  stages \in Seq(ToSet(stages)) /\ Len(stages) \in 1..MaxStages

\* One plain command, which the shell dispatches without a pipeline.
IsTrivial(p) ==
    /\ Len(p.stages) <= 1
    /\ ~p.background /\ ~p.disown
    /\ p.stages[1].redirects = << >>

\* The last redirection of a stream wins; &> is of both.
Target(redirects, operators) ==
    LET i == SelectLastInSeq(redirects, LAMBDA r : r[1] \in operators)
    IN  IF i = 0 THEN << >> ELSE redirects[i]

OutTarget(redirects) == Target(redirects, {">", ">>", "&>"})
ErrTarget(redirects) == Target(redirects, {"^>", "&>"})

IsWritable(w, target) ==
    target # << >> => target[2] \in DOMAIN w.files /\ w.files[target[2]].kind # "dir"

\* The file is created, and emptied unless it is appended to.
OpenFile(w, target) ==
    IF target = << >> THEN w
    ELSE [w EXCEPT !.files[target[2]] =
            [kind |-> "file", text |-> IF target[1] = ">>" THEN @.text ELSE << >>]]

\* Both files of a stage are opened before anything is run.
OpenTargets(w, redirects) ==
    OpenFile(OpenFile(w, OutTarget(redirects)), ErrTarget(redirects))

AppendFile(w, path, text) == [w EXCEPT !.files[path].text = @ \o text]

----------------------------------------------------------------------------
(* Streams. *)

Shell   == <<0, "shell">>
Console == <<0, "console">>
Null    == <<0, "null">>
Proc(k) == <<k, "proc">>

Streams   == {"out", "err"}
StageNumbers == 1..MaxStages
Handles   == StageNumbers \X {"in", "out", "err"}
ThreadIds == StageNumbers \X Streams

IsPipe(handle) == handle[1] # 0

NoPipe == [data |-> << >>, writers |-> {}, readers |-> {}]
NewPipe(writers, readers) == [data |-> << >>, writers |-> writers, readers |-> readers]

HasRoom(p, handle) == Len(p[handle].data) < PipeCapacity
Put(p, handle, unit) == [p EXCEPT ![handle].data = Append(@, unit)]
Take(p, handle) == [p EXCEPT ![handle].data = Tail(@)]
AtEnd(p, handle) == p[handle].data = << >> /\ p[handle].writers = {}

\* The ends that holder has of the pipes of hs are closed.
Close(p, holder, hs) ==
    [h \in Handles |-> IF h \in hs
                       THEN [p[h] EXCEPT !.writers = @ \ {holder},
                                         !.readers = @ \ {holder}]
                       ELSE p[h]]

Drop(p, holder) == Close(p, holder, Handles)

\* The read end of a pipe changes hands.
HandOver(p, handle, from, to) ==
    [p EXCEPT ![handle].readers = (@ \ {from}) \cup {to}]

NoProc == [state |-> "none", writes |-> << >>, copies |-> "none", ok |-> FALSE,
           in |-> Null, out |-> Null, err |-> Null]

NoThread == [state |-> "none", held |-> << >>]

Stdio(handle)   == [kind |-> "stdio", handle |-> handle]
Both(out, err)  == [kind |-> "merge", out |-> out, err |-> err]

----------------------------------------------------------------------------
(* The shell goes through the stages. *)

IsLast(k)    == k = Len(job.line.stages)
Words(k)     == job.line.stages[k].words
Redirects(k) == job.line.stages[k].redirects
PipeAfter(k) == IF IsLast(k) THEN "" ELSE job.line.pipes[k]
IsProcess(k) == Classify(Words(k)) = "external"
Foreground   == ~job.line.background /\ ~job.line.disown

Init ==
    /\ job \in {[line |-> Parse(j.tokens), capture |-> j.capture] : j \in Jobs}
    /\ at = 0 /\ phase = "start"
    /\ carry = Nothing /\ left = << >>
    /\ procs = [k \in StageNumbers |-> NoProc]
    /\ threads = [t \in ThreadIds |-> NoThread]
    /\ pipes = [h \in Handles |-> NoPipe]
    /\ shown = [t \in ThreadIds |-> << >>]
    /\ world = [files |-> Disk, saved |-> Journals, did |-> << >>]
    /\ captured = Nothing
    /\ result = TRUE

\* The children stay as they are, but the shell's ends of their pipes close.
Abort ==
    /\ phase' = "failed" /\ result' = FALSE
    /\ pipes' = Drop(pipes, Shell)
    /\ carry' = Nothing /\ left' = << >>
    /\ UNCHANGED <<job, at, procs, threads, shown, captured>>

\* A line of empty stages is no error; one stage that cannot be one is.
Start ==
    /\ phase = "start"
    /\ LET kinds == {Classify(s.words) : s \in ToSet(job.line.stages)}
           empty == \A s \in ToSet(job.line.stages) : s.words = << >>
       IN  /\ phase' = CASE empty -> "done"
                         [] ~empty /\ "unsupported" \in kinds -> "failed"
                         [] OTHER -> "stage"
           /\ result' = (empty \/ "unsupported" \notin kinds)
    /\ at' = 1
    /\ UNCHANGED <<job, carry, left, procs, threads, pipes, shown, world, captured>>

GoOn ==
    /\ at' = at + 1
    /\ phase' = IF IsLast(at) THEN "launched" ELSE "stage"

CanOpen ==
    IsWritable(world, OutTarget(Redirects(at))) /\ IsWritable(world, ErrTarget(Redirects(at)))

\* The file of stdout may have been emptied although the one of stderr failed.
RedirectionFails ==
    /\ phase = "stage" /\ ~CanOpen
    /\ world' = IF IsWritable(world, OutTarget(Redirects(at)))
                THEN OpenFile(world, OutTarget(Redirects(at))) ELSE world
    /\ Abort

\* Where the outcome o of a stage of the shell goes.  Text and values stop at a
\* file or at the end of the line; a report is shown at once and its value
\* goes on.
Delivered(o, target, last, capture) ==
    LET text   == IF o.form = "value" THEN ToJson(Rows(o.value)) ELSE o.text
        stops  == target # << >> \/ last
        stored == o.form = "value" /\ target = << >> /\ last /\ capture
        visible == /\ target = << >>
                   /\ ~stored
                   /\ last \/ o.form = "report"
    IN  [carry |-> CASE o.form = "report"            -> o.value
                     [] o.form # "report" /\ stops   -> Nothing
                     [] o.form = "value" /\ ~stops   -> o.value
                     [] o.form = "text" /\ ~stops    -> Bytes(text),
         world |-> IF target = << >> THEN o.world ELSE AppendFile(o.world, target[2], text),
         shown |-> IF visible THEN text ELSE << >>,
         captured |-> IF stored THEN o.value ELSE Nothing]

Outcomes(k) == InProcess(Words(k), carry, OpenTargets(world, Redirects(k)))

StageFails ==
    /\ phase = "stage" /\ ~IsProcess(at) /\ CanOpen
    /\ \E o \in {o \in Outcomes(at) : ~o.ok} : world' = o.world
    /\ Abort

Deliveries(k) ==
    {Delivered(o, OutTarget(Redirects(k)), IsLast(k), job.capture)
     : o \in {o \in Outcomes(k) : o.ok}}

\* A stage of the shell; what was to feed it is dropped.
RunStage ==
    /\ phase = "stage" /\ ~IsProcess(at) /\ CanOpen
    /\ \E d \in Deliveries(at) :
         /\ carry' = d.carry
         /\ world' = d.world
         /\ shown' = [shown EXCEPT ![<<at, "out">>] = d.shown]
         /\ captured' = d.captured
    /\ pipes' = CASE carry.kind = "stdio" -> Close(pipes, Shell, {carry.handle})
                  [] carry.kind = "merge" -> Close(pipes, Shell, {carry.out, carry.err})
                  [] OTHER -> pipes
    /\ GoOn
    /\ UNCHANGED <<job, left, procs, threads, result>>

----------------------------------------------------------------------------
(* A process is started, fed, and its output claimed. *)

Input(k, c) ==
    CASE c.kind = "none"  -> IF k = 1 THEN Console ELSE Null
      [] c.kind = "stdio" -> c.handle
      [] OTHER            -> <<k, "in">>

\* stdout is piped whenever a stage follows; stderr only for ^| and &|.
Output(k) ==
    LET target == OutTarget(Redirects(k))
    IN  CASE target # << >>             -> <<0, target[2]>>
          [] target = << >> /\ ~IsLast(k) -> <<k, "out">>
          [] OTHER                      -> Console

ErrOutput(k) ==
    LET target == ErrTarget(Redirects(k))
    IN  CASE target # << >> -> <<0, target[2]>>
          [] target = << >> /\ PipeAfter(k) \in {"^|", "&|"} -> <<k, "err">>
          [] OTHER -> Console

\* The text that the shell itself writes to the process: tables go as JSON.
FedText(c) ==
    CASE c.kind = "bytes" -> c.text [] c.kind = "table" -> ToJson(c.rows)
      [] OTHER -> << >>

InputPipes(k, c) ==
    CASE c.kind = "stdio" -> HandOver(pipes, c.handle, Shell, Proc(k))
      [] c.kind \in {"bytes", "table"} ->
           [pipes EXCEPT ![<<k, "in">>] = NewPipe({Shell}, {Proc(k)})]
      [] c.kind = "merge" ->
           HandOver(HandOver([pipes EXCEPT ![<<k, "in">>] =
                                NewPipe({<<k, "out">>, <<k, "err">>}, {Proc(k)})],
                             c.out, Shell, <<k, "out">>),
                    c.err, Shell, <<k, "err">>)
      [] OTHER -> pipes

NewOutputs(k) == {<<k, "out">>, <<k, "err">>} \cap {Output(k), ErrOutput(k)}

Started(k, program, c) ==
    [state |-> "running", writes |-> program.writes, copies |-> program.copies,
     ok |-> program.ok, in |-> Input(k, c), out |-> Output(k), err |-> ErrOutput(k)]

\* File sets, plans and journals are not turned into text on their own.
CanFeed(c) == ~(c.kind \in {"fileset", "plan", "journal"})

SpawnLeavingCarry == carry

SpawnedCarry == Nothing

Spawn ==
    /\ phase = "stage" /\ IsProcess(at) /\ CanOpen
    /\ Words(at)[1] \in DOMAIN Programs
    /\ CanFeed(carry)
    /\ procs' = [procs EXCEPT ![at] = Started(at, Programs[Words(at)[1]], carry)]
    /\ pipes' = [h \in Handles |-> IF h \in NewOutputs(at)
                                   THEN NewPipe({Proc(at)}, {Shell})
                                   ELSE InputPipes(at, carry)[h]]
    /\ threads' = IF carry.kind = "merge"
                  THEN [threads EXCEPT ![<<at, "out">>].state = "running",
                                       ![<<at, "err">>].state = "running"]
                  ELSE threads
    /\ left' = FedText(carry)
    /\ carry' = SpawnedCarry
    /\ world' = OpenTargets(world, Redirects(at))
    /\ phase' = "feed"
    /\ UNCHANGED <<job, at, shown, captured, result>>

\* The command is not found, cannot be started, or cannot take what it is fed.
SpawnFails ==
    /\ phase = "stage" /\ IsProcess(at) /\ CanOpen
    /\ world' = OpenTargets(world, Redirects(at))
    /\ Abort

\* The shell writes the whole text before it goes on; a reader that is gone
\* ends the writing without an error.
Feed ==
    /\ phase = "feed" /\ left # << >>
    /\ LET to == <<at, "in">>
       IN  \/ /\ pipes[to].readers = {}
              /\ left' = << >>
              /\ UNCHANGED pipes
           \/ /\ pipes[to].readers # {} /\ HasRoom(pipes, to)
              /\ pipes' = Put(pipes, to, Head(left))
              /\ left' = Tail(left)
    /\ UNCHANGED <<job, at, phase, carry, procs, threads, shown, world, captured, result>>

KeepInput(p, k) == p

\* Once all is written the process sees the end of its input.
CloseInput(p, k) == Close(p, Shell, {<<k, "in">>})

IsPiped(k, stream) == (IF stream = "out" THEN procs[k].out ELSE procs[k].err) = <<k, stream>>

\* What the process leaves to the next stage.  &| needs both streams and drops
\* the one it took when the other is a file; ^| leaves stdout unread.
Claimed(k) ==
    CASE PipeAfter(k) = "|" /\ IsPiped(k, "out")  -> Stdio(<<k, "out">>)
      [] PipeAfter(k) = "^|" /\ IsPiped(k, "err") -> Stdio(<<k, "err">>)
      [] PipeAfter(k) = "&|" /\ IsPiped(k, "out") /\ IsPiped(k, "err") ->
           Both(<<k, "out">>, <<k, "err">>)
      [] OTHER -> Nothing

\* A stage of the shell after | gets the text, not the pipe.
IsReadByShell(k) ==
    /\ PipeAfter(k) = "|" /\ IsPiped(k, "out")
    /\ Classify(Words(k + 1)) \in ReadByShell

Claim ==
    /\ phase = "feed" /\ left = << >>
    /\ LET fed == CloseInput(pipes, at)
       IN  pipes' = IF PipeAfter(at) = "&|" /\ Claimed(at) = Nothing
                    THEN Close(fed, Shell, {<<at, "out">>, <<at, "err">>})
                    ELSE fed
    /\ \/ /\ IsReadByShell(at)
          /\ phase' = "read"
          /\ UNCHANGED <<at, carry>>
       \/ /\ ~IsReadByShell(at)
          /\ GoOn
          /\ carry' = Claimed(at)
    /\ UNCHANGED <<job, left, procs, threads, shown, world, captured, result>>

\* The shell reads the output of a process to its end.
ReadOutput ==
    /\ phase = "read"
    /\ LET from == <<at, "out">>
       IN  \/ /\ pipes[from].data # << >>
              /\ left' = Append(left, Head(pipes[from].data))
              /\ pipes' = Take(pipes, from)
              /\ UNCHANGED <<at, phase, carry>>
           \/ /\ AtEnd(pipes, from)
              /\ carry' = Bytes(left)
              /\ left' = << >>
              /\ pipes' = Close(pipes, Shell, {from})
              /\ GoOn
    /\ UNCHANGED <<job, procs, threads, shown, world, captured, result>>

----------------------------------------------------------------------------
(* All stages have run or are running. *)

\* A background job keeps its children, a disowned one lets go of them.
Leave ==
    /\ phase = "launched" /\ ~Foreground
    /\ phase' = "done" /\ result' = TRUE
    /\ pipes' = IF job.line.disown THEN Drop(pipes, Shell) ELSE pipes
    /\ UNCHANGED <<job, at, carry, left, procs, threads, shown, world, captured>>

BeginWait ==
    /\ phase = "launched" /\ Foreground
    /\ phase' = "wait" /\ at' = 1 /\ result' = TRUE
    /\ UNCHANGED <<job, carry, left, procs, threads, pipes, shown, world, captured>>

\* The status is that of the last child, TRUE without any.
WaitChild ==
    /\ phase = "wait"
    /\ at <= Len(job.line.stages)
    /\ procs[at].state # "running"
    /\ result' = IF procs[at].state = "ended" THEN procs[at].ok ELSE result
    /\ pipes' = Close(pipes, Shell, {<<at, "out">>, <<at, "err">>})
    /\ at' = at + 1
    /\ UNCHANGED <<job, phase, carry, left, procs, threads, shown, world, captured>>

JoinThreads ==
    /\ phase = "wait"
    /\ at > Len(job.line.stages)
    /\ \A t \in ThreadIds : threads[t].state # "running"
    /\ phase' = "done"
    /\ UNCHANGED <<job, at, carry, left, procs, threads, pipes, shown, world,
                   captured, result>>

----------------------------------------------------------------------------
(* The forwarding threads of &|. *)

Source(t) == <<t[1] - 1, t[2]>>
Destination(t) == <<t[1], "in">>

ForwardRead(t) ==
    /\ threads[t].state = "running" /\ threads[t].held = << >>
    /\ pipes[Source(t)].data # << >>
    /\ threads' = [threads EXCEPT ![t].held = <<Head(pipes[Source(t)].data)>>]
    /\ pipes' = Take(pipes, Source(t))
    /\ UNCHANGED <<job, at, phase, carry, left, procs, shown, world, captured, result>>

ForwardWrite(t) ==
    /\ threads[t].state = "running" /\ threads[t].held # << >>
    /\ pipes[Destination(t)].readers # {} /\ HasRoom(pipes, Destination(t))
    /\ threads' = [threads EXCEPT ![t].held = << >>]
    /\ pipes' = Put(pipes, Destination(t), threads[t].held[1])
    /\ UNCHANGED <<job, at, phase, carry, left, procs, shown, world, captured, result>>

CloseWithFirst(p, t) ==
    Drop(Drop(p, <<t[1], "out">>), <<t[1], "err">>)

\* The process sees the end of its input when both threads have let go of it.
ThreadLetsGo(p, t) == Drop(p, t)

ForwardEnd(t) ==
    /\ threads[t].state = "running"
    /\ \/ threads[t].held = << >> /\ AtEnd(pipes, Source(t))
       \/ threads[t].held # << >> /\ pipes[Destination(t)].readers = {}
    /\ threads' = [threads EXCEPT ![t].state = "ended", ![t].held = << >>]
    /\ pipes' = ThreadLetsGo(pipes, t)
    /\ UNCHANGED <<job, at, phase, carry, left, procs, shown, world, captured, result>>

----------------------------------------------------------------------------
(* The programs. *)

End(k, ok) ==
    /\ procs' = [procs EXCEPT ![k].state = "ended", ![k].ok = ok,
                              ![k].writes = << >>, ![k].copies = "none"]
    /\ pipes' = Drop(pipes, Proc(k))
    /\ UNCHANGED <<shown, world>>

WritesTo(k) ==
    IF Head(procs[k].writes)[1] = "out" THEN procs[k].out ELSE procs[k].err

Write(k) ==
    LET write == Head(procs[k].writes)
        to    == WritesTo(k)
        Wrote == procs' = [procs EXCEPT ![k].writes = Tail(@)]
    IN  /\ procs[k].state = "running" /\ procs[k].writes # << >>
        /\ \/ /\ to = Console /\ Wrote
              /\ shown' = [shown EXCEPT ![<<k, write[1]>>] = Append(@, write[2])]
              /\ UNCHANGED <<pipes, world>>
           \/ /\ ~IsPipe(to) /\ to # Console /\ Wrote
              /\ world' = AppendFile(world, to[2], <<write[2]>>)
              /\ UNCHANGED <<pipes, shown>>
           \/ /\ IsPipe(to) /\ pipes[to].readers # {} /\ HasRoom(pipes, to) /\ Wrote
              /\ pipes' = Put(pipes, to, write[2])
              /\ UNCHANGED <<shown, world>>
           \/ /\ IsPipe(to) /\ pipes[to].readers = {}
              /\ End(k, FALSE)
        /\ UNCHANGED <<job, at, phase, carry, left, threads, captured, result>>

Reads(k) == /\ procs[k].state = "running" /\ procs[k].writes = << >>
            /\ procs[k].copies # "none"

Copy(k) ==
    LET from == procs[k].in
    IN  /\ Reads(k) /\ IsPipe(from)
        /\ pipes[from].data # << >>
        /\ procs' = [procs EXCEPT
              ![k].writes = << <<"out", Head(pipes[from].data)>> >>,
              ![k].copies = IF @ = "one" THEN "none" ELSE @]
        /\ pipes' = Take(pipes, from)
        /\ UNCHANGED <<job, at, phase, carry, left, threads, shown, world, captured,
                       result>>

\* At the end of the input; nobody types anything on the console.
Exit(k) ==
    /\ procs[k].state = "running" /\ procs[k].writes = << >>
    /\ procs[k].copies # "none" /\ IsPipe(procs[k].in) => AtEnd(pipes, procs[k].in)
    /\ End(k, procs[k].ok)
    /\ UNCHANGED <<job, at, phase, carry, left, threads, captured, result>>

RunShell ==
    \/ Start \/ RedirectionFails \/ StageFails \/ RunStage \/ Spawn \/ SpawnFails
    \/ Feed \/ Claim \/ ReadOutput \/ Leave \/ BeginWait \/ WaitChild \/ JoinThreads

RunThread(t) == ForwardRead(t) \/ ForwardWrite(t) \/ ForwardEnd(t)

RunProcess(k) == Write(k) \/ Copy(k) \/ Exit(k)

----------------------------------------------------------------------------
(* Who waits, and for what: room in a pipe, text, or the end of another.  Rest
   is a step that nobody takes, so that TLC, which looks for deadlocks, shows
   that whoever does not wait can take a step. *)

IsFull(handle)  == pipes[handle].readers # {} /\ ~HasRoom(pipes, handle)
IsEmpty(handle) == pipes[handle].data = << >> /\ pipes[handle].writers # {}

ShellWaits ==
    \/ phase \in {"done", "failed"}
    \/ phase = "feed" /\ left # << >> /\ IsFull(<<at, "in">>)
    \/ phase = "read" /\ IsEmpty(<<at, "out">>)
    \/ /\ phase = "wait" /\ at <= Len(job.line.stages)
       /\ procs[at].state = "running"
    \/ /\ phase = "wait" /\ at > Len(job.line.stages)
       /\ \E t \in ThreadIds : threads[t].state = "running"

ThreadWaits(t) ==
    \/ threads[t].state # "running"
    \/ threads[t].held # << >> /\ IsFull(Destination(t))
    \/ threads[t].held = << >> /\ IsEmpty(Source(t))

ProcessWaits(k) ==
    \/ procs[k].state # "running"
    \/ /\ procs[k].writes # << >>
       /\ IsPipe(WritesTo(k)) /\ IsFull(WritesTo(k))
    \/ Reads(k) /\ IsPipe(procs[k].in) /\ IsEmpty(procs[k].in)

SomeoneRuns ==
    \/ ~ShellWaits
    \/ \E t \in ThreadIds : ~ThreadWaits(t)
    \/ \E k \in StageNumbers : ~ProcessWaits(k)

Rest == ~SomeoneRuns /\ UNCHANGED vars

Next ==
    \/ RunShell
    \/ \E t \in ThreadIds : RunThread(t)
    \/ \E k \in StageNumbers : RunProcess(k)
    \/ Rest

\* The shell, the threads and the processes run as long as one of them can.
RunsOn == []<>~SomeoneRuns \/ []<><<TRUE>>_vars

Spec == Init /\ [][Next]_vars /\ RunsOn

----------------------------------------------------------------------------
(* What a pipeline means when its programs are functions of the text they are
   given, without processes, pipes and threads. *)

Written(program, stream) ==
    LET ws == SelectSeq(program.writes, LAMBDA w : w[1] = stream)
    IN  [i \in DOMAIN ws |-> ws[i][2]]

Copied(program, text) ==
    CASE program.copies = "all"  -> text
      [] program.copies = "one"  -> SubSeq(text, 1, 1)
      [] program.copies = "none" -> << >>

\* The sequences that have s and t in them, each in its order.
Merges(s, t) ==
    LET n == Len(s) + Len(t)
        Upto(S, i) == Cardinality({j \in S : j <= i})
    IN  {[i \in 1..n |-> IF i \in S THEN s[Upto(S, i)] ELSE t[i - Upto(S, i)]]
         : S \in {T \in SUBSET (1..n) : Cardinality(T) = Len(s)}}

Showing(streams, k, out, err) ==
    [t \in ThreadIds |-> CASE t = <<k, "out">> -> out
                          [] t = <<k, "err">> -> err
                          [] t[1] # k         -> streams[t]]

\* What the program of stage k may leave: the text for the next stage and the
\* contents of its files, which both streams may share.
MeantProcess(k, m) ==
    LET program == Programs[Words(k)[1]]
        out  == Written(program, "out") \o Copied(program, FedText(m.carry))
        err  == Written(program, "err")
        outT == OutTarget(Redirects(k))
        errT == ErrTarget(Redirects(k))
        w    == OpenTargets(m.world, Redirects(k))
        w1   == IF outT = << >> THEN w ELSE AppendFile(w, outT[2], out)
        worlds == IF outT # << >> /\ outT = errT
                  THEN {AppendFile(w, outT[2], text) : text \in Merges(out, err)}
                  ELSE {IF errT = << >> THEN w1 ELSE AppendFile(w1, errT[2], err)}
        carries == CASE PipeAfter(k) = "|" /\ outT = << >> -> {Bytes(out)}
                     [] PipeAfter(k) = "^|" /\ errT = << >> -> {Bytes(err)}
                     [] PipeAfter(k) = "&|" /\ outT = << >> /\ errT = << >> ->
                          {Bytes(text) : text \in Merges(out, err)}
                     [] OTHER -> {Nothing}
        onConsole(target, text, ops) ==
            IF target = << >> /\ PipeAfter(k) \in ops THEN text ELSE << >>
    IN  {[carry |-> c, world |-> v, captured |-> Nothing,
          shown |-> Showing(m.shown, k, onConsole(outT, out, {""}),
                            onConsole(errT, err, {"", "|"}))]
         : c \in carries, v \in worlds}

MeantStage(k, m) ==
    IF IsProcess(k) THEN MeantProcess(k, m)
    ELSE {LET d == Delivered(o, OutTarget(Redirects(k)), IsLast(k), job.capture)
          IN  [carry |-> d.carry, world |-> d.world, captured |-> d.captured,
               shown |-> Showing(m.shown, k, d.shown, << >>)]
          : o \in {o \in InProcess(Words(k), m.carry,
                                   OpenTargets(m.world, Redirects(k))) : o.ok}}

Meant ==
    LET start == [carry |-> Nothing, captured |-> Nothing,
                  world |-> [files |-> Disk, saved |-> Journals, did |-> << >>],
                  shown |-> [t \in ThreadIds |-> << >>]]
    IN  FoldLeft(LAMBDA ms, k : UNION {MeantStage(k, m) : m \in ms}, {start},
                 [k \in DOMAIN job.line.stages |-> k])

----------------------------------------------------------------------------
(* Properties. *)

HasEnded(k) == procs[k].state # "running"

\* Type invariant.  Every value has its kind, no pipe holds more than it can, no
\* pipe has two readers, a process that has ended holds no pipe, and the shell
\* does not keep for the next stage what this one was given
\* (run_impl's carry and post_spawn_*, pipeline_exec.rs).
TypeOK ==
    /\ at \in 0..(MaxStages + 1)
    /\ phase \in {"start", "stage", "feed", "read", "launched", "wait", "done",
                  "failed"}
    /\ carry.kind \in {"none", "bytes", "stdio", "merge", "table", "fileset", "plan",
                       "journal"}
    /\ captured = Nothing \/ IsStructured(captured)
    /\ \A h \in Handles : /\ Len(pipes[h].data) <= PipeCapacity
                          /\ Cardinality(pipes[h].readers) <= 1
    /\ \A k \in StageNumbers :
         procs[k].state = "ended" =>
             \A h \in Handles : Proc(k) \notin pipes[h].readers \cup pipes[h].writers
    /\ phase \in {"feed", "read"} => carry = Nothing
    /\ carry.kind = "stdio" => pipes[carry.handle].readers = {Shell}
    /\ result \in BOOLEAN

\* When a foreground pipeline has ended and no program failed, the console, the
\* files and the stored value have what the programs, taken as functions, make
\* of the text: through pipes, threads and the shell's own reading and writing
\* nothing is lost, doubled or put out of order (run_impl, pipeline_exec.rs).
OutputIntact ==
    phase = "done" /\ Foreground /\ at > 1
      /\ (\A k \in StageNumbers : procs[k].state = "ended" => procs[k].ok)
    => \E m \in Meant :
         shown = m.shown /\ world = m.world /\ captured = m.captured

Completed ==
    /\ phase \in {"done", "failed"}
    /\ \A k \in StageNumbers : HasEnded(k)
    /\ \A t \in ThreadIds : threads[t].state # "running"

\* A pipeline comes to its end, and so does every program it started: the shell,
\* the programs and the threads do not wait for one another for ever ("Runs
\* `pipeline` to completion", pipeline_exec.rs).
PipelineCompletes == <>[]Completed

\* The same of a state: everyone waits only when all is over.
NoStandstill == ~SomeoneRuns => Completed

=============================================================================
