---------------------------- MODULE Interpreter ----------------------------
(* The interpreter's state and what the statements of the language read and
   change in it (interp.rs, functions.rs, types.rs): the stacks of scope
   frames, the functions, the status of the previous statement, the expansion
   of words, and let, export and drop.

   An interpreter is a record: frames (the global one first), functions,
   status, capturing and captured (the echo capture of the prompt).  The six
   stacks of the code move together, so a frame is one partial function from
   <<kind, name>>; Kinds has three of them, file sets, plans and journals
   being treated as tables are.

   Text is a sequence of the atoms a string is made of: a word, a number, a
   reference or the text of a literal that is not expanded yet.  Blanks inside
   a string only separate atoms.  A token is a text and how it was quoted.

   SetInnermost and KeepCapture are faulty variants of the definitions after
   them. *)
EXTENDS Integers, SequencesExt, FiniteSetsExt, Functions, TLC

CONSTANTS MaxInt  \* stands for the largest i64

ASSUME MaxIntAssumption == MaxInt \in Nat \ {0}

Kinds == {"scalar", "array", "table"}

(* Atoms.  Numbers have their own tag, so that no value is compared with one
   of another sort. *)
Word(w)      == <<"word", w>>
Num(n)       == <<"num", n>>
Scalar(x)    == <<"$", x>>
Array(x)     == <<"@", x>>
Slice(x, s)  == <<"@[", x, s>>        \* @x[s]
List(ts)     == <<"[", ts>>           \* [ ... ], ts its tokens
Braces(es)   == <<"{", es>>           \* {a,b,1..3}, es its elements
Len1(t)      == <<"len", t>>          \* $len(t)
Reversed(t)  == <<"reverse", t>>      \* @reverse(t)

Token(quoting, text) == [quoting |-> quoting, text |-> text]
Bare(atom) == Token("None", <<atom>>)

\* The spec of a slice: an index, or a range whose bounds may be left out.
Index(i) == [index |-> {i}, start |-> {}, step |-> 1, end |-> {}, inclusive |-> FALSE]
SliceRange(start, step, end, inclusive) ==
    [index |-> {}, start |-> start, step |-> step, end |-> end, inclusive |-> inclusive]

\* An element of a brace group: a text, or a span of numbers.
Element(text) == [words |-> {text}, start |-> 0, end |-> 0, step |-> 1, inclusive |-> FALSE]
Span(start, end, step, inclusive) ==
    [words |-> {}, start |-> start, end |-> end, step |-> step, inclusive |-> inclusive]

NewInterpreter ==
    [frames |-> << <<>> >>, functions |-> <<>>, status |-> TRUE,
     capturing |-> FALSE, captured |-> FALSE]

----------------------------------------------------------------------------
(* Scopes. *)

\* The innermost frame that holds variable v; 0 when none does.
Owner(frames, v) ==
    LET holders == {i \in DOMAIN frames : v \in DOMAIN frames[i]}
    IN  IF holders = {} THEN 0 ELSE Max(holders)

IsSet(I, v) == \E i \in DOMAIN I.frames : v \in DOMAIN I.frames[i]
\* The value of v, and that of nothing when there is none.
ValueOf(I, v) ==
    LET i == Owner(I.frames, v) IN IF i = 0 THEN <<>> ELSE I.frames[i][v]

\* What a frame becomes when the variables of values get these values.
Overlay(values, frame) ==
    [v \in DOMAIN values \cup DOMAIN frame |->
        IF v \in DOMAIN values THEN values[v] ELSE frame[v]]

Define(frames, i, values) == [frames EXCEPT ![i] = Overlay(values, @)]

\* The variable of each binding; of two bindings of one, the later.
Bindings(bound) ==
    [v \in {bound[i].v : i \in DOMAIN bound} |->
        bound[Max({i \in DOMAIN bound : bound[i].v = v})].value]

DefineLocals(I, values) == [I EXCEPT !.frames = Define(@, Len(@), values)]

SetInnermost(I, values) == DefineLocals(I, values)

\* The frame that first defined a name keeps owning it; a name nobody holds
\* is defined in the innermost one.
Home(frames, v) ==
    LET i == Owner(frames, v) IN IF i = 0 THEN Len(frames) ELSE i

SetVariables(I, values) ==
    [I EXCEPT !.frames =
        [i \in DOMAIN @ |->
            Overlay(Restrict(values, {v \in DOMAIN values : Home(@, v) = i}), @[i])]]

SetVariable(I, v, value) == SetVariables(I, [x \in {v} |-> value])

PushScope(I) == [I EXCEPT !.frames = Append(@, <<>>)]

PopScope(I) ==
    [I EXCEPT !.frames = IF Len(@) > 1 THEN SubSeq(@, 1, Len(@) - 1) ELSE @]

\* What a call hides, and the interpreter it leaves the callee.
HiddenScopes(I) == Tail(I.frames)
IsolateGlobalScope(I) == [I EXCEPT !.frames = <<Head(@)>>]

RestoreScope(I, saved) == [I EXCEPT !.frames = @ \o saved]

\* drop: each kind of variable of that name goes from its innermost owner.
Drop(I, name) ==
    [I EXCEPT !.frames =
        [i \in DOMAIN @ |->
            Restrict(@[i], {v \in DOMAIN @[i] :
                               v[2] # name \/ Owner(@, v) # i})]]

SetStatus(I, ok) == [I EXCEPT !.status = ok]
DefineFunction(I, name, def) == [I EXCEPT !.functions = (name :> def) @@ @]

BeginCapture(I) == [I EXCEPT !.capturing = TRUE, !.captured = FALSE]
KeepCapture(I) == [I EXCEPT !.captured = FALSE]
EndCapture(I) == [I EXCEPT !.capturing = FALSE, !.captured = FALSE]
\* echo writes to the capture buffer when one is open.
Echo(I, text) ==
    IF I.capturing THEN [I EXCEPT !.captured = @ \/ text # <<>>] ELSE I

----------------------------------------------------------------------------
(* Expansion. *)

Join(texts) == FlattenSeq(texts)

ResolveScalar(I, x) == ValueOf(I, <<"scalar", x>>)
ResolveArray(I, x) == ValueOf(I, <<"array", x>>)

Given(bound, default) == IF bound = {} THEN default ELSE Min(bound)

\* The indices a range selects from n elements: rising for a positive step,
\* falling for a negative one, none for step 0.
SliceIndices(n, s) ==
    LET up == s.step > 0
        first == Given(s.start, IF up THEN 0 ELSE n - 1)
        from == IF up /\ first < 0 THEN 0 ELSE first
        beyond == IF s.end = {} \/ s.inclusive THEN 0 ELSE IF up THEN -1 ELSE 1
        last == Given(s.end, IF up THEN n - 1 ELSE 0) + beyond
        step == IF up THEN s.step ELSE -s.step
    IN  IF s.step = 0 \/ from >= n THEN <<>>
        ELSE SetToSortSeq({i \in 0..(n - 1) :
                              IF up THEN i \in from..last /\ (i - from) % step = 0
                              ELSE i \in last..from /\ (from - i) % step = 0},
                          LAMBDA i, j : up = (i < j))

ArraySlice(items, s) ==
    LET indices == IF s.index = {} THEN SliceIndices(Len(items), s)
                   ELSE SetToSeq(s.index \cap 0..(Len(items) - 1))
    IN  [k \in DOMAIN indices |-> items[indices[k] + 1]]

\* A span counts by its step's magnitude, towards its end.
NumericSequence(e) ==
    LET by == Max({e.step, -e.step, 1})
        distance == Max({e.end - e.start, e.start - e.end})
        count == (distance + by - (IF e.inclusive THEN 0 ELSE 1)) \div by
        sign == IF e.start <= e.end THEN by ELSE -by
    IN  [k \in 1..count |-> <<Num(e.start + (k - 1) * sign)>>]

\* What a brace group may be replaced by.
Options(elements) ==
    FlattenSeq([k \in DOMAIN elements |->
        IF elements[k].words = {} THEN NumericSequence(elements[k])
        ELSE SetToSeq(elements[k].words)])

\* Every combination of the options of a word's groups, the first slowest.
ExpandBraces(text) ==
    FoldLeft(LAMBDA combos, atom :
                 LET options == IF atom[1] = "{" THEN Options(atom[2]) ELSE <<<<atom>>>>
                 IN  FlattenSeq([c \in DOMAIN combos |->
                         [o \in DOMAIN options |-> combos[c] \o options[o]]]),
             <<<<>>>>, text)

\* The words one atom stands for by itself.
WordsOf(I, atom) ==
    CASE atom[1] = "@" -> ResolveArray(I, atom[2])
      [] atom[1] = "$" -> <<ResolveScalar(I, atom[2])>>
      [] OTHER -> <<<<atom>>>>

\* A bare word among a method's arguments is looked up by name first.
NamedArg(I, token) ==
    LET name == token.text[1][2]
    IN  CASE IsSet(I, <<"scalar", name>>) -> <<ResolveScalar(I, name)>>
          [] IsSet(I, <<"array", name>>) -> ResolveArray(I, name)
          [] OTHER -> <<token.text>>

MethodArg(I, token) ==
    LET atom == token.text[1]
        atoms == IF atom[1] = "[" THEN [i \in DOMAIN atom[2] |-> atom[2][i].text[1]]
                 ELSE <<atom>>
    IN  IF token.quoting = "None" /\ atom[1] = "word"
        THEN NamedArg(I, token)
        ELSE FlattenSeq([i \in DOMAIN atoms |-> WordsOf(I, atoms[i])])

\* $len counts a table's rows, an array's elements or a string's atoms.
StringMethodLen(I, token) ==
    LET t == <<"table", token.text[1][2]>>
        arg == MethodArg(I, token)
    IN  IF token.quoting = "None" /\ IsSet(I, t)
        THEN Len(ValueOf(I, t))
        ELSE IF Len(arg) = 1 THEN Len(arg[1]) ELSE Len(arg)

ArrayMethodReverse(I, token) == Reverse(MethodArg(I, token))

\* Substitution inside a token: an array becomes its elements joined.
InterpolateAtom(I, atom) ==
    CASE atom[1] = "$"  -> ResolveScalar(I, atom[2])
      [] atom[1] = "@"  -> Join(ResolveArray(I, atom[2]))
      [] atom[1] = "@[" -> Join(ArraySlice(ResolveArray(I, atom[2]), atom[3]))
      [] atom[1] = "len" -> <<Num(StringMethodLen(I, atom[2]))>>
      [] atom[1] = "reverse" -> Join(ArrayMethodReverse(I, atom[2]))
      [] OTHER -> <<atom>>

Interpolate(I, text) ==
    Join([i \in DOMAIN text |-> InterpolateAtom(I, text[i])])

\* Only a bare token becomes several words: one that is exactly an array or
\* an array method, or that has a brace group anywhere.
FansOut(token) ==
    /\ token.quoting = "None"
    /\ \/ Len(token.text) = 1 /\ token.text[1][1] \in {"@", "@[", "reverse"}
       \/ \E i \in DOMAIN token.text : token.text[i][1] = "{"

FanOut(I, text) ==
    LET atom == text[1]
        words == ExpandBraces(text)
    IN  CASE atom[1] = "@" -> ResolveArray(I, atom[2])
          [] atom[1] = "@[" -> ArraySlice(ResolveArray(I, atom[2]), atom[3])
          [] atom[1] = "reverse" -> ArrayMethodReverse(I, atom[2])
          [] OTHER -> [i \in DOMAIN words |-> Interpolate(I, words[i])]

ExpandToken(I, token) ==
    CASE token.quoting = "Single" -> <<token.text>>
      [] FansOut(token) -> FanOut(I, token.text)
      [] OTHER -> <<Interpolate(I, token.text)>>

ExpandAll(I, tokens) ==
    FlattenSeq([i \in DOMAIN tokens |-> ExpandToken(I, tokens[i])])

IsList(token) == token.text # <<>> /\ token.text[1][1] = "["

ScalarFrom(I, token) == Join(ExpandToken(I, token))
ArrayFrom(I, token) ==
    ExpandAll(I, IF IsList(token) THEN token.text[1][2] ELSE <<token>>)

----------------------------------------------------------------------------
(* let, export and types. *)

Failed == [ok |-> FALSE, value |-> <<>>]
Ok(value) == [ok |-> TRUE, value |-> value]

\* Validation against a declared type; bool is also normalised.
Validate(value, type) ==
    CASE type \in {"any", "str"} -> Ok(value)
      [] type = "int" ->
            IF Len(value) = 1 /\ value[1][1] = "num" THEN Ok(value) ELSE Failed
      [] type = "bool" ->
            CASE value \in {<<Word("true")>>, <<Num(1)>>} -> Ok(<<Word("true")>>)
              [] value \in {<<Word("false")>>, <<Word("n")>>, <<Num(0)>>} ->
                    Ok(<<Word("false")>>)
              [] OTHER -> Failed

IsInt(text) == Len(text) = 1 /\ text[1][1] = "num"

\* Integer assignment operators: checked, and // rounds as div_euclid does.
ApplyArith(current, op, operand) ==
    LET a == current[1][2]
        b == operand[1][2]
        result == CASE op = "+=" -> a + b
                    [] op = "-=" -> a - b
                    [] op = "*=" -> a * b
                    [] op = "//=" -> IF b > 0 THEN a \div b
                                     ELSE 0 - (a \div (0 - b))
    IN  IF ~IsInt(current) \/ ~IsInt(operand) THEN Failed
        ELSE IF op = "//=" /\ b = 0 THEN Failed
        ELSE IF result \notin (-MaxInt - 1)..MaxInt THEN Failed
        ELSE Ok(<<Num(result)>>)

\* let NAME[:TYPE] = VALUE and let NAME OP VALUE.  A single right-hand token
\* that begins with a bracket makes an array, however it was quoted and
\* whatever the type; a value that fails leaves the variable as it was.
LetsArray(s) == s.op = "=" /\ Len(s.rhs) = 1 /\ IsList(s.rhs[1])

LetScalar(I, s, text) ==
    IF s.op = "=" THEN Validate(text, s.type)
    ELSE IF Len(s.rhs) = 1 THEN ApplyArith(ResolveScalar(I, s.name), s.op, text)
    ELSE Failed

Let(I, s) ==
    LET words == ExpandAll(I, IF LetsArray(s) THEN s.rhs[1].text[1][2] ELSE s.rhs)
        scalar == LetScalar(I, s, Join(words))
    IN  CASE LetsArray(s) -> SetVariable(I, <<"array", s.name>>, words)
          [] ~LetsArray(s) /\ scalar.ok ->
                SetVariable(I, <<"scalar", s.name>>, scalar.value)
          [] OTHER -> I

\* export NAME = VALUE refuses arrays; otherwise it is let, and whatever the
\* scalar then holds goes to the process environment.
ExportRefused(s) == Len(s.rhs) = 1 /\ IsList(s.rhs[1])
ExportedValue(I, s) == ResolveScalar(I, s.name)

\* The parameters of a call bound to its arguments, all of them resolved
\* before anything is hidden; not ok when one of them has the wrong type.
BindArgument(I, param, token) ==
    LET words == ArrayFrom(I, token)
        checked == IF param.array
                   THEN [i \in DOMAIN words |-> Validate(words[i], param.type)]
                   ELSE <<Validate(ScalarFrom(I, token), param.type)>>
    IN  [ok |-> \A i \in DOMAIN checked : checked[i].ok,
         v |-> <<IF param.array THEN "array" ELSE "scalar", param.name>>,
         value |-> IF param.array THEN [i \in DOMAIN checked |-> checked[i].value]
                   ELSE checked[1].value]

BindAll(I, params, tokens) ==
    [i \in DOMAIN params |-> BindArgument(I, params[i], tokens[i])]

DefineParameters(I, bound) == DefineLocals(I, Bindings(bound))
=============================================================================
