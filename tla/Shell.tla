-------------------------------- MODULE Shell --------------------------------
(* The shell loop and the execution of statements (shell.rs): the prompt and
   the PROMPT function, initrc and source, blocks and their scopes, loops,
   function calls, && and ||, and the cooperative Ctrl+C flag, over the
   interpreter of Interpreter.

   The nested calls of the code are a stack, innermost first; flow is what the
   construct on top of it has just returned.  A line is a record whose cmd is
   its first word, already split into tokens; blocks are flat lists of lines
   closed by end, as they are in the code.  A line of cmd run is a command
   that is not built in, by its name.

   What an external command, a pipeline or a parallel block returns is free,
   and so is what read reads.

   KeepScope, IgnorePoll and ChainAfterAnything are faulty variants of the
   definitions after them. *)
EXTENDS Interpreter

CONSTANTS
  Inputs,     \* what the user may type at the prompt: a set of lists of lines
  Scripts,    \* the scripts that may be run instead of a prompt
  Initrcs,    \* the contents initrc may have
  Files,      \* the files that source finds, by name
  Typed,      \* what the user may type for read: sequences of fields
  Tables,     \* the tables a structured pipeline may produce
  MaxInputs,  \* inputs typed in one session
  Presses     \* most times the user presses Ctrl+C

ASSUME ShellAssumption == MaxInputs \in Nat /\ Presses \in Nat

VARIABLES
  interp,     \* the interpreter
  env,        \* the process environment that export wrote
  stack,      \* the calls in progress, innermost first
  flow,       \* the Flow that the innermost of them returned
  at,         \* what the shell does
  script,     \* it runs a script and has no prompt
  interrupt,  \* INTERRUPTED
  typed, presses

vars == <<interp, env, stack, flow, at, script, interrupt, typed, presses>>

Flow == {"Normal", "Break", "LoopContinue", "ShellExit", "Interrupted"}

----------------------------------------------------------------------------
(* Lines and blocks. *)

IsBlockOpener(line) ==
    line.cmd \in {"if", "while", "for", "parallel", "match", "fn"}

\* Blocks opened and not closed in lines[first..last].
Depth(lines, first, last) ==
      Cardinality({k \in first..last : IsBlockOpener(lines[k])})
    - Cardinality({k \in first..last : lines[k].cmd = "end"})

\* Where the block that opens at start is closed.
BlockEnd(lines, start) ==
    LET ends == {j \in (start + 1)..Len(lines) : Depth(lines, start, j) = 0}
    IN  IF ends = {} THEN Len(lines) + 1 ELSE Min(ends)

\* extract_block for the block that opens at the first line.
Body(lines) == SubSeq(lines, 2, BlockEnd(lines, 1) - 1)
After(lines) == SubSeq(lines, BlockEnd(lines, 1) + 1, Len(lines))

\* What read_block_body makes of the lines typed: a block always ends in end.
TypedBlock(lines) ==
    Append(SubSeq(lines, 1, BlockEnd(lines, 1) - 1), [cmd |-> "end"])

\* The parts of a body that begin at the lines of that cmd which are not in
\* an inner block.
Marks(body, cmd) ==
    SetToSortSeq({j \in DOMAIN body : /\ body[j].cmd = cmd
                                      /\ Depth(body, 1, j - 1) = 0}, <)

Part(body, marks, k) ==
    SubSeq(body, marks[k] + 1,
           IF k = Len(marks) THEN Len(body) ELSE marks[k + 1] - 1)

----------------------------------------------------------------------------
(* Conditions: clauses, each with the operator that joins it to the rest. *)

EvalTest(args) ==
    CASE Len(args) = 0 -> FALSE
      [] Len(args) = 1 -> args[1] # <<>>
      [] Len(args) = 2 /\ args[1] = <<Word("-n")>> -> args[2] # <<>>
      [] Len(args) = 2 /\ args[1] = <<Word("-z")>> -> args[2] = <<>>
      [] Len(args) = 3 /\ args[2] = <<Word("=")>> -> args[1] = args[3]
      [] Len(args) = 3 /\ args[2] = <<Word("!=")>> -> args[1] # args[3]
      [] Len(args) = 3 /\ args[2] = <<Word("-lt")>> ->
            IsInt(args[1]) /\ IsInt(args[3]) /\ args[1][1][2] < args[3][1][2]
      [] OTHER -> FALSE

EvalBool(args) ==
    Len(args) = 1 /\ args[1] \in {<<Num(1)>>, <<Word("true")>>}

EvalEq(args) ==
    \/ Len(args) = 2 /\ args[1] = args[2]
    \/ Len(args) = 3 /\ args[1] = <<Word("not")>> /\ args[2] # args[3]

EvalWords(cmd, args) ==
    CASE cmd = "test" -> EvalTest(args)
      [] cmd = "bool" -> EvalBool(args)
      [] cmd = "eq" -> EvalEq(args)

EvalExists(I, line) ==
    CASE line.flag = "-a" -> ResolveArray(I, line.name) # <<>>
      [] line.flag = "-s" -> ResolveScalar(I, line.name) # <<>>
      [] line.flag = "--fn" -> line.name \in DOMAIN I.functions

EvalIntersects(I, line) ==
    /\ IsSet(I, <<"array", line.left>>) /\ IsSet(I, <<"array", line.right>>)
    /\ ToSet(ResolveArray(I, line.left)) \cap ToSet(ResolveArray(I, line.right)) # {}

\* The results a builtin condition or an external command may have.
Results(I, line) ==
    CASE line.cmd = "true" -> {TRUE}
      [] line.cmd = "false" -> {FALSE}
      [] line.cmd \in {"test", "bool", "eq"} ->
            {EvalWords(line.cmd, ExpandAll(I, line.args))}
      [] line.cmd = "exists" /\ line.flag \in {"-a", "-s", "--fn"} ->
            {EvalExists(I, line)}
      [] line.cmd = "intersects" -> {EvalIntersects(I, line)}
      [] OTHER -> BOOLEAN

ClauseResults(I, clause) ==
    {IF clause.not THEN ~b ELSE b : b \in Results(I, clause.line)}

Joined(op, left, right) ==
    CASE op = "&&" -> left /\ right
      [] op = "||" -> left \/ right
      [] OTHER -> left

\* && and || associate to the right.
EvalCondition(I, cond) ==
    FoldRight(LAMBDA clause, rest :
                  {Joined(clause.op, l, r) : l \in ClauseResults(I, clause), r \in rest},
              cond, {FALSE})

----------------------------------------------------------------------------
(* The stack. *)

Block(lines) == [kind |-> "block", todo |-> lines]
Pending(line) == [kind |-> "line", line |-> line]

Top == Head(stack)
Below == Tail(stack)
Running(kind) == at = "run" /\ stack # <<>> /\ Top.kind = kind

\* exec_block: a scope of its own around the lines.
EnterBlock(I, lines, rest) ==
    /\ interp' = PushScope(I)
    /\ stack' = <<Block(lines)>> \o rest

\* take_interrupt, before anything a loop or a block does next.
MustPoll ==
    \/ Running("block") /\ Top.todo # <<>>
    \/ Running("while")
    \/ Running("for") /\ Top.items # <<>>

TakeInterrupt ==
    /\ MustPoll /\ flow = "Normal" /\ interrupt
    /\ interrupt' = FALSE
    /\ flow' = "Interrupted"
    /\ stack' = IF Top.kind = "block" THEN stack ELSE Below
    /\ UNCHANGED <<interp, env, at, script, typed, presses>>

IgnorePoll(kind) == Running(kind) /\ flow = "Normal" /\ (kind = "while" \/ ~interrupt)
MayRun(kind) == Running(kind) /\ flow = "Normal" /\ ~interrupt
NextIs(cmds) == MayRun("block") /\ Top.todo # <<>> /\ Top.todo[1].cmd \in cmds

\* The builtins that poll the flag while they work, alone or as a stage of a
\* pipeline, and when it is set take it, clean up and return as usual.
InterruptibleBuiltins == {"copy", "compress", "stat", "pg-connect"}
TakesInterrupt(line) == line.cmd \in InterruptibleBuiltins \cup {"pipeline", "table"}

\* The flag after lines have run; what was pressed after the last poll stays.
InterruptAfter(lines) ==
    interrupt' \in IF \E line \in lines : TakesInterrupt(line)
                   THEN {interrupt, FALSE} ELSE {interrupt}
Rest(lines) == <<Block(lines)>> \o Below

KeepScope(I) == IF flow = "LoopContinue" THEN I ELSE PopScope(I)
LeaveScope(I) == PopScope(I)

\* A block ends after its last line or with the first flow that is not normal.
LeaveBlock ==
    /\ Running("block")
    /\ Top.todo = <<>> \/ flow # "Normal"
    /\ interp' = LeaveScope(interp)
    /\ stack' = Below
    /\ UNCHANGED <<env, flow, at, script, interrupt, typed, presses>>

\* A line that opens no block goes to dispatch.
NextLine ==
    /\ MayRun("block") /\ Top.todo # <<>>
    /\ ~IsBlockOpener(Top.todo[1])
    /\ stack' = <<Pending(Top.todo[1])>> \o Rest(Tail(Top.todo))
    /\ UNCHANGED <<interp, env, flow, at, script, interrupt, typed, presses>>

\* The branches of an if, split at its else lines.
IfBranches(header, body) ==
    LET marks == <<0>> \o Marks(body, "else")
    IN  [k \in DOMAIN marks |->
            [any |-> TRUE, pattern |-> <<>>,
             cond |-> IF k = 1 THEN header.cond ELSE body[marks[k]].cond,
             lines |-> Part(body, marks, k)]]

\* The branches of a match; a case may carry a statement on its own line.
MatchBranches(body) ==
    LET marks == Marks(body, "case")
    IN  [k \in DOMAIN marks |->
            LET case == body[marks[k]]
            IN  [any |-> case.any, pattern |-> case.pattern, cond |-> case.guard,
                 lines |-> case.inline \o Part(body, marks, k)]]

MatchOperand(I, tokens) ==
    UNION {ToSet(ArrayFrom(I, tokens[i])) : i \in DOMAIN tokens}

ExecIf ==
    /\ NextIs({"if"})
    /\ stack' = <<[kind |-> "branches", subject |-> {},
                   branches |-> IfBranches(Top.todo[1], Body(Top.todo))]>>
                 \o Rest(After(Top.todo))
    /\ UNCHANGED <<interp, env, flow, at, script, interrupt, typed, presses>>

ExecMatch ==
    /\ NextIs({"match"})
    /\ stack' = <<[kind |-> "branches",
                   subject |-> MatchOperand(interp, Top.todo[1].subject),
                   branches |-> MatchBranches(Body(Top.todo))]>>
                 \o Rest(After(Top.todo))
    /\ UNCHANGED <<interp, env, flow, at, script, interrupt, typed, presses>>

\* Subject and pattern match when they share an element.
Matches(I, subject, branch) ==
    branch.any \/ subject \cap MatchOperand(I, branch.pattern) # {}

\* The pipelines that evaluating a condition may run.
PipelinesOf(cond) == {line \in {cond[i].line : i \in DOMAIN cond} : line.cmd = "pipeline"}

\* The first branch that matches, and whose condition or guard holds, runs.
TryBranch ==
    /\ Running("branches") /\ flow = "Normal"
    /\ IF Top.branches = <<>>
       THEN stack' = Below /\ UNCHANGED interp
       ELSE LET branch == Head(Top.branches)
                matches == Matches(interp, Top.subject, branch)
            IN  \E holds \in IF matches THEN EvalCondition(interp, branch.cond) ELSE {FALSE} :
                  IF holds
                  THEN EnterBlock(interp, branch.lines, Below)
                  ELSE /\ stack' = <<[Top EXCEPT !.branches = Tail(@)]>> \o Below
                       /\ UNCHANGED interp
    /\ InterruptAfter(IF Top.branches = <<>> THEN {} ELSE PipelinesOf(Head(Top.branches).cond))
    /\ UNCHANGED <<env, flow, at, script, typed, presses>>

ExecWhile ==
    /\ NextIs({"while"})
    /\ stack' = <<[kind |-> "while", cond |-> Top.todo[1].cond, body |-> Body(Top.todo)]>>
                 \o Rest(After(Top.todo))
    /\ UNCHANGED <<interp, env, flow, at, script, interrupt, typed, presses>>

\* The flag is clear when the condition starts: what a copy or a stat piped in
\* the condition takes is a press that came and went.
Iterate ==
    /\ MayRun("while")
    /\ \E holds \in EvalCondition(interp, Top.cond) :
          IF holds
          THEN EnterBlock(interp, Top.body, stack)
          ELSE stack' = Below /\ UNCHANGED interp
    /\ UNCHANGED <<env, flow, at, script, interrupt, typed, presses>>

\* The rows of a table when the single token names one, else the words of
\* the expansion.
ForItems(I, line) ==
    LET t == <<"table", line.tokens[1].text[1][2]>>
    IN  IF Len(line.tokens) = 1 /\ IsSet(I, t)
        THEN [table |-> TRUE, items |-> ValueOf(I, t)]
        ELSE [table |-> FALSE, items |-> ExpandAll(I, line.tokens)]

ExecFor ==
    /\ NextIs({"for"})
    /\ LET line == Top.todo[1]
           found == ForItems(interp, line)
       IN  stack' = <<[kind |-> "for", var |-> line.var, table |-> found.table,
                       items |-> found.items, body |-> Body(Top.todo)]>>
                     \o Rest(After(Top.todo))
    /\ UNCHANGED <<interp, env, flow, at, script, interrupt, typed, presses>>

\* A row is bound as a table of its own; a word goes through let, in the scope
\* around the loop, and is expanded again there.
BindElement(I, loop) ==
    LET item == loop.items[1]
    IN  IF loop.table
        THEN SetVariable(I, <<"table", loop.var>>, <<item>>)
        ELSE Let(I, [name |-> loop.var, op |-> "=", type |-> "any",
                     rhs |-> <<Token("None", item)>>])

NextElement ==
    /\ Running("for") /\ flow = "Normal"
    /\ interrupt => Top.items = <<>>
    /\ IF Top.items = <<>>
       THEN stack' = Below /\ UNCHANGED interp
       ELSE EnterBlock(BindElement(interp, Top), Top.body,
                       <<[Top EXCEPT !.items = Tail(@)]>> \o Below)
    /\ UNCHANGED <<env, flow, at, script, interrupt, typed, presses>>

\* What a loop does with the flow of its body.
LoopFlow ==
    /\ Running("while") \/ Running("for")
    /\ flow # "Normal"
    /\ stack' = IF flow = "LoopContinue" THEN stack ELSE Below
    /\ flow' = IF flow \in {"Break", "LoopContinue"} THEN "Normal" ELSE flow
    /\ UNCHANGED <<interp, env, at, script, interrupt, typed, presses>>

DefineFn ==
    /\ NextIs({"fn"})
    /\ LET line == Top.todo[1]
       IN  interp' = DefineFunction(interp, line.name,
                         [params |-> line.params, body |-> Body(Top.todo)])
    /\ stack' = Rest(After(Top.todo))
    /\ UNCHANGED <<env, flow, at, script, interrupt, typed, presses>>

\* Only the first word of each line of a parallel body is looked at.
ParallelAccepts(line, body) ==
    /\ line.workers \in 1..64
    /\ \A i \in DOMAIN body :
          body[i].cmd \notin {"break", "continue", "parallel", "export", "source"}

\* Its workers run on clones of the interpreter; only the status comes back,
\* and the Ctrl+C that the user pressed meanwhile.
ExecParallel ==
    /\ NextIs({"parallel"})
    /\ LET line == Top.todo[1]
           statuses == CASE ~ParallelAccepts(line, Body(Top.todo)) -> {FALSE}
                         [] ExpandAll(interp, line.tokens) = <<>> -> {TRUE}
                         [] OTHER -> BOOLEAN
       IN  \E ok \in statuses : interp' = SetStatus(interp, ok)
    /\ stack' = Rest(After(Top.todo))
    /\ \/ UNCHANGED <<flow, presses>>
       \/ /\ ParallelAccepts(Top.todo[1], Body(Top.todo))
          /\ presses < Presses
          /\ presses' = presses + 1
          /\ flow' = "Interrupted"
    /\ UNCHANGED <<env, at, script, interrupt, typed>>

----------------------------------------------------------------------------
(* dispatch. *)

Dispatching(cmds) ==
    Running("line") /\ flow = "Normal" /\ Top.line.cmd \in cmds

\* The part before the first && or || runs first.
DispatchChain ==
    /\ Dispatching({"chain"})
    /\ stack' = <<Pending(Top.line.before),
                  [kind |-> "chain", op |-> Top.line.op, after |-> Top.line.after]>>
                 \o Below
    /\ UNCHANGED <<interp, env, flow, at, script, interrupt, typed, presses>>

ChainAfterAnything == flow # "ShellExit"
ChainGoesOn == flow = "Normal"

Chain ==
    /\ Running("chain")
    /\ stack' = IF ChainGoesOn /\ interp.status = (Top.op = "&&")
                THEN <<Pending(Top.after)>> \o Below ELSE Below
    /\ flow' = IF ChainGoesOn THEN "Normal" ELSE flow
    /\ UNCHANGED <<interp, env, at, script, interrupt, typed, presses>>

\* and STMT, or STMT: the status the previous statement left decides.
DispatchAndOr ==
    /\ Dispatching({"and", "or"})
    /\ stack' = IF interp.status = (Top.line.cmd = "and")
                THEN <<Pending(Top.line.rest)>> \o Below ELSE Below
    /\ UNCHANGED <<interp, env, flow, at, script, interrupt, typed, presses>>

\* eval: the expanded words are dispatched as a statement of their own.
DispatchEval ==
    /\ Dispatching({"eval"})
    /\ interp' = SetStatus(interp, TRUE)
    /\ stack' = <<Pending(Top.line.rest)>> \o Below
    /\ UNCHANGED <<env, flow, at, script, interrupt, typed, presses>>

DispatchFlow ==
    /\ Dispatching({"exit", "break", "continue"})
    /\ interp' = SetStatus(interp, TRUE)
    /\ flow' = CASE Top.line.cmd = "exit" -> "ShellExit"
                 [] Top.line.cmd = "break" -> "Break"
                 [] OTHER -> "LoopContinue"
    /\ stack' = Below
    /\ UNCHANGED <<env, at, script, interrupt, typed, presses>>

\* The last variable takes what is left of the line.
SplitFields(fields, n) ==
    [i \in 1..n |-> CASE i < n /\ i <= Len(fields) -> fields[i]
                      [] i = n /\ n <= Len(fields) ->
                            Join(SubSeq(fields, n, Len(fields)))
                      [] OTHER -> <<>>]

ReadInto(I, names, fields) ==
    LET parts == SplitFields(fields, Len(names))
        bound == [i \in DOMAIN names |-> [v |-> <<"scalar", names[i]>>, value |-> parts[i]]]
    IN  SetStatus(SetVariables(I, Bindings(bound)), TRUE)

\* Names that a user's function overrides.
Overridable == {"echo", "test", "true", "false", "bool", "eq", "run",
                "copy", "compress", "stat"}
CommandName(line) == IF line.cmd = "run" THEN line.name ELSE line.cmd
IsCall(I, line) ==
    line.cmd \in Overridable /\ CommandName(line) \in DOMAIN I.functions

\* read fails at the end of input; a pipeline may leave a table, or nothing.
ReadOutcomes(I, line) ==
    {SetStatus(I, FALSE)} \cup {ReadInto(I, line.names, fields) : fields \in Typed}
TableOutcomes(I, line) ==
    {SetStatus(I, FALSE)} \cup
    {SetStatus(SetVariable(I, <<"table", line.name>>, o[1]), o[2]) : o \in Tables \X BOOLEAN}
ResultOutcomes(I, line) == {SetStatus(I, ok) : ok \in Results(I, line)}

\* The interpreters that a statement without control flow may leave.
Outcomes(I, line) ==
    LET J == SetStatus(I, TRUE)
    IN  CASE line.cmd = "let" -> {Let(J, line)}
          [] line.cmd = "export" -> {IF ExportRefused(line) THEN J ELSE Let(J, line)}
          [] line.cmd = "drop" -> {Drop(J, line.name)}
          [] line.cmd = "echo" -> {Echo(J, Join(ExpandAll(J, line.args)))}
          [] line.cmd \in {"end", "copy", "compress", "stat"} -> {J}
          [] line.cmd = "read" -> ReadOutcomes(I, line)
          [] line.cmd = "table" -> TableOutcomes(I, line)
          [] OTHER -> ResultOutcomes(I, line)

DispatchSimple ==
    /\ Running("line") /\ flow = "Normal"
    /\ Top.line.cmd \notin {"chain", "and", "or", "eval", "exit", "break", "continue",
                          "source"}
    /\ ~IsCall(interp, Top.line)
    /\ interp' \in Outcomes(interp, Top.line)
    /\ env' = IF Top.line.cmd = "export" /\ ~ExportRefused(Top.line)
              THEN (Top.line.name :> ExportedValue(interp', Top.line)) @@ env
              ELSE env
    /\ stack' = Below
    /\ InterruptAfter({Top.line})
    /\ UNCHANGED <<flow, at, script, typed, presses>>

DispatchSource ==
    /\ Dispatching({"source"})
    /\ LET I == SetStatus(interp, TRUE)
       IN  IF Top.line.file \in DOMAIN Files
           THEN EnterBlock(I, Files[Top.line.file], <<[kind |-> "source"]>> \o Below)
           ELSE interp' = I /\ stack' = Below
    /\ UNCHANGED <<env, flow, at, script, interrupt, typed, presses>>

ReturnFromSource ==
    /\ Running("source")
    /\ stack' = Below
    /\ UNCHANGED <<interp, env, flow, at, script, interrupt, typed, presses>>

\* call_function: arguments are bound first, then the caller's scopes hidden.
CallFunction(I, name, args, rest) ==
    LET def == I.functions[name]
        bound == BindAll(I, def.params, args)
    IN  IF Len(args) # Len(def.params) \/ \E i \in DOMAIN bound : ~bound[i].ok
        THEN interp' = I /\ stack' = rest
        ELSE EnterBlock(DefineParameters(PushScope(IsolateGlobalScope(I)), bound),
                        def.body,
                        <<[kind |-> "call", saved |-> HiddenScopes(I)]>> \o rest)

DispatchCall ==
    /\ Running("line") /\ flow = "Normal"
    /\ IsCall(interp, Top.line)
    /\ CallFunction(SetStatus(interp, TRUE), CommandName(Top.line), Top.line.args, Below)
    /\ UNCHANGED <<env, flow, at, script, interrupt, typed, presses>>

\* break and continue do not leave a function.
ReturnFromCall ==
    /\ Running("call")
    /\ interp' = RestoreScope(PopScope(interp), Top.saved)
    /\ stack' = Below
    /\ flow' = IF flow \in {"Break", "LoopContinue"} THEN "Normal" ELSE flow
    /\ UNCHANGED <<env, at, script, interrupt, typed, presses>>

----------------------------------------------------------------------------
(* The prompt, scripts and startup. *)

Pwd == <<"scalar", "PWD">>

\* sync_pwd, then PROMPT if it is defined.
RenderPrompt ==
    /\ at = "prompt"
    /\ LET I == SetVariable(interp, Pwd, <<Word("dir")>>)
       IN  IF "PROMPT" \in DOMAIN I.functions
           THEN /\ CallFunction(BeginCapture(I), "PROMPT", <<>>, <<[kind |-> "prompt"]>>)
                /\ at' = "run"
           ELSE interp' = I /\ at' = "reading" /\ UNCHANGED stack
    /\ UNCHANGED <<env, flow, script, interrupt, typed, presses>>

\* Whatever PROMPT returned is dropped.
PromptRendered ==
    /\ Running("prompt")
    /\ interp' = EndCapture(interp)
    /\ stack' = Below /\ flow' = "Normal" /\ at' = "reading"
    /\ UNCHANGED <<env, script, interrupt, typed, presses>>

\* A line, or a block that the user does not abandon.
ReadLine ==
    /\ at = "reading" /\ typed < MaxInputs
    /\ typed' = typed + 1
    /\ \E lines \in Inputs :
         IF IsBlockOpener(lines[1])
         THEN \/ /\ EnterBlock(interp, TypedBlock(lines), <<>>)
                 /\ at' = "run"
              \/ at' = "prompt" /\ UNCHANGED <<interp, stack>>
         ELSE /\ stack' = <<Pending(lines[1])>>
              /\ at' = "run"
              /\ UNCHANGED interp
    /\ UNCHANGED <<env, flow, script, interrupt, presses>>

EndOfInput ==
    /\ at = "reading"
    /\ at' = "stopped"
    /\ UNCHANGED <<interp, env, stack, flow, script, interrupt, typed, presses>>

\* The input is done: only exit, or the end of a script, stops the shell.
InputDone ==
    /\ at = "run" /\ stack = <<>>
    /\ at' = IF script \/ flow = "ShellExit" THEN "stopped" ELSE "prompt"
    /\ flow' = "Normal"
    /\ UNCHANGED <<interp, env, stack, script, interrupt, typed, presses>>

\* What initrc returned is dropped too.
Started ==
    /\ Running("initrc")
    /\ at' = "prompt" /\ flow' = "Normal" /\ stack' = Below
    /\ UNCHANGED <<interp, env, script, interrupt, typed, presses>>

\* The line editor reads in raw mode, where Ctrl+C is only a key.
CtrlC ==
    /\ presses < Presses
    /\ at \in {"prompt", "run"}
    /\ presses' = presses + 1
    /\ interrupt' = TRUE
    /\ UNCHANGED <<interp, env, stack, flow, at, script, typed>>

ScriptArgs == <<"array", "args">>

\* initrc is run like a sourced file, and a script like a block.
Init ==
    /\ env = <<>> /\ flow = "Normal" /\ at = "run"
    /\ interrupt = FALSE /\ typed = 0 /\ presses = 0
    /\ \/ /\ script = TRUE
          /\ interp = PushScope(SetVariable(NewInterpreter, ScriptArgs, <<<<Word("a")>>>>))
          /\ \E lines \in Scripts : stack = <<Block(lines)>>
       \/ /\ script = FALSE
          /\ interp = PushScope(NewInterpreter)
          /\ \E lines \in Initrcs : 
                stack = <<Block(lines), [kind |-> "source"], [kind |-> "initrc"]>>

Run ==
    \/ TakeInterrupt \/ LeaveBlock \/ NextLine
    \/ ExecIf \/ ExecMatch \/ TryBranch \/ ExecWhile \/ Iterate \/ ExecFor \/ NextElement
    \/ LoopFlow \/ DefineFn \/ ExecParallel
    \/ DispatchChain \/ Chain \/ DispatchAndOr \/ DispatchEval \/ DispatchFlow \/ DispatchSimple
    \/ DispatchSource \/ ReturnFromSource \/ DispatchCall \/ ReturnFromCall
    \/ RenderPrompt \/ PromptRendered \/ InputDone \/ Started

Next == Run \/ ReadLine \/ EndOfInput \/ CtrlC

\* The thread of the shell always has a step of Run to take but when it waits
\* for the user or has stopped, and takes it: weak fairness of Run, spelled out
\* (a Ctrl+C is no step of that thread, but there are only so many).
ThreadRuns == \/ []<>(at \in {"reading", "stopped"})
              \/ []<><<TRUE>>_vars

Spec == Init /\ [][Next]_vars /\ ThreadRuns

----------------------------------------------------------------------------
(* Properties. *)

Kind == {"block", "line", "branches", "while", "for", "chain", "call", "source",
         "prompt", "initrc"}

\* The values have the types of the code.
TypeOK ==
    /\ flow \in Flow /\ at \in {"prompt", "reading", "run", "stopped"}
    /\ {script, interrupt, interp.status, interp.capturing} \subseteq BOOLEAN
    /\ typed \in 0..MaxInputs /\ presses \in 0..Presses
    /\ \A i \in DOMAIN stack : stack[i].kind \in Kind
    /\ Len(interp.frames) >= 1
    /\ \A i \in DOMAIN interp.frames : \A v \in DOMAIN interp.frames[i] : v[1] \in Kinds
    /\ at # "run" => stack = <<>> /\ flow = "Normal" /\ ~interp.capturing

Calls(entries) == {i \in DOMAIN entries : entries[i].kind = "call"}

\* The blocks between entry c (0: the top) and the next call below it, and the
\* scopes they stand for: one each, and the one of the parameters of that call.
BlocksBelow(entries, c) ==
    {i \in DOMAIN entries : /\ entries[i].kind = "block" /\ i > c
                            /\ \A d \in Calls(entries) : d > c => i < d}
InCall(entries, c) == \E d \in Calls(entries) : d > c
Scopes(entries, c) ==
    Cardinality(BlocksBelow(entries, c)) + (IF InCall(entries, c) THEN 1 ELSE 0)

\* The scopes alive are exactly those of the blocks being executed: whatever
\* mix of break, continue, exit, Ctrl+C and normal ends the blocks have seen,
\* exec_block's one push and one pop (shell.rs:304-306) and the frames that
\* call_function hides and restores (1888-1900) always balance, here and in
\* every call that waits.
ScopesFollowBlocks ==
    /\ Len(interp.frames) = 1 + Scopes(stack, 0)
    /\ \A c \in Calls(stack) : Len(stack[c].saved) = Scopes(stack, c)

SingleOwners(frames, inCall) ==
    \A i, j \in DOMAIN frames :
        i < j /\ DOMAIN frames[i] \cap DOMAIN frames[j] # {}
            => i = 1 /\ j = 2 /\ inCall

\* The frame that first defined a name keeps owning it (interp.rs:1003-1063):
\* no two frames of a call hold one variable, unless a parameter shadows a
\* global.  An assignment in a loop, a branch or a call never makes a second
\* copy that vanishes with its block and leaves the old value behind.
EachNameHasOneOwner ==
    /\ SingleOwners(interp.frames, InCall(stack, 0))
    /\ \A c \in Calls(stack) :
          SingleOwners(<<Head(interp.frames)>> \o stack[c].saved, InCall(stack, c))

\* While an exit, a break, a continue or an interrupt leaves the constructs it
\* was raised in, no statement runs: the status, the functions, the global
\* variables and the environment stay, and every step leaves a construct or
\* stays (shell.rs:399-401, 1158, 350-363).
LeavingRunsNothing ==
    [][ at = "run" /\ flow # "Normal" =>
          /\ interp'.status = interp.status
          /\ interp'.functions = interp.functions
          /\ interp'.frames[1] = interp.frames[1]
          /\ env' = env
          /\ stack' = stack \/ Len(stack') < Len(stack) ]_vars

\* A Ctrl+C is never lost and never ignored: it is taken, in loops without any
\* statement too; what takes it is a loop or a block, which then ends the line,
\* block or script being run (shell.rs:322-324, 340-348, 704-709), or a builtin
\* that stops for it (copy.rs:188-190) and alone may let the input go on.
BuiltinStops ==
    \/ Running("line") /\ TakesInterrupt(Top.line)
    \/ Running("branches") /\ PipelinesOf(Head(Top.branches).cond) # {}
InterruptEndsInput ==
    /\ [][ interrupt /\ ~interrupt' => flow' = "Interrupted" \/ BuiltinStops ]_vars
    /\ interrupt /\ at = "run" ~> ~interrupt \/ at # "run"
    /\ flow = "Interrupted" ~> at # "run"

\* jobctl.rs:70-71: what takes an interrupt stops looping and unwinds.
TakenInterruptUnwinds ==
    [][ interrupt /\ ~interrupt' /\ (\E i \in DOMAIN stack : stack[i].kind \in {"while", "for"})
          => flow' = "Interrupted" ]_vars

=============================================================================
