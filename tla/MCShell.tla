------------------------------ MODULE MCShell ------------------------------
(* A small vocabulary of lines for Shell. *)
EXTENDS Shell

W(w) == Bare(Word(w))
N(n) == Bare(Num(n))
V(x) == Bare(Scalar(x))

Cmd(cmd) == [cmd |-> cmd]
LetTo(x, op, tokens) ==
    [cmd |-> "let", name |-> x, op |-> op, type |-> "any", rhs |-> tokens]
LetIs(x, token) == LetTo(x, "=", <<token>>)
Builtin(cmd, args) == [cmd |-> cmd, args |-> args]
Call(name, args) == [cmd |-> "run", name |-> name, args |-> args]
If(cond) == [cmd |-> "if", cond |-> cond]
Else(cond) == [cmd |-> "else", cond |-> cond]
While(cond) == [cmd |-> "while", cond |-> cond]
For(x, tokens) == [cmd |-> "for", var |-> x, tokens |-> tokens]
Fn(name, params) == [cmd |-> "fn", name |-> name, params |-> params]
Case(pattern, guard) ==
    [cmd |-> "case", any |-> FALSE, pattern |-> pattern, guard |-> guard, inline |-> <<>>]
CaseAny(inline) ==
    [cmd |-> "case", any |-> TRUE, pattern |-> <<>>,
     guard |-> <<[not |-> FALSE, line |-> Cmd("true"), op |-> ""]>>,
     inline |-> inline]
Chained(before, op, after) ==
    [cmd |-> "chain", before |-> before, op |-> op, after |-> after]

Clause(line, op) == [not |-> FALSE, line |-> line, op |-> op]
Not(line) == [not |-> TRUE, line |-> line, op |-> ""]
Is(x, token) == Builtin("eq", <<V(x), token>>)
Always == <<Clause(Cmd("true"), "")>>
External == Call("cmd", <<>>)
End == Cmd("end")

Scalar1(name, type) == [name |-> name, array |-> FALSE, type |-> type]
List1(name) == [name |-> name, array |-> TRUE, type |-> "any"]

MCInputs == {
  \* assignments that must find their owner from inside a branch
  <<LetIs("x", N(1))>>,
  <<If(<<Clause(Is("x", N(1)), "&&"), Not(Cmd("false"))>>),
      LetIs("x", N(2)), LetIs("y", N(3)), Call("f", <<V("y")>>),
    Else(<<Clause(External, "||"), Clause([cmd |-> "exists", flag |-> "-s", name |-> "x"], "")>>),
      Call("f", <<W("w")>>), [cmd |-> "drop", name |-> "x"],
      [cmd |-> "source", file |-> "missing"],
    Else(<<Clause(External, "")>>), Chained(External, "&&", Cmd("exit")),
    End>>,
  \* loops that only Ctrl+C ends
  <<While(Always), End>>,
  \* ... and that only a Ctrl+C its copy does not take ends
  <<While(Always), Cmd("copy"), End>>,
  <<While(<<Not(Is("x", N(3)))>>), LetTo("x", "+=", <<N(1)>>),
      Chained(External, "&&", Cmd("continue")), Cmd("break"), End>>,
  <<Fn("PROMPT", <<>>), Builtin("echo", <<V("PWD")>>), Call("f", <<N(2)>>),
      [cmd |-> "or", rest |-> [cmd |-> "eval", rest |-> Cmd("exit")]], End>>,
  <<[cmd |-> "source", file |-> "rc"]>>,
  <<[cmd |-> "table", name |-> "t"]>>,
  <<For("r", <<W("t")>>), LetIs("n", Bare(Len1(W("r")))), LetIs("z", V("n")), End>>,
  <<[cmd |-> "match", subject |-> <<V("x")>>],
      Case(<<Bare(List(<<N(1), N(2)>>))>>, <<Clause(External, "")>>), Cmd("break"),
      CaseAny(<<[cmd |-> "export", name |-> "e", op |-> "=", type |-> "any", rhs |-> <<V("x")>>]>>),
    End>>,
  <<[cmd |-> "parallel", workers |-> 2, tokens |-> <<N(1), N(2)>>], External, End>>,
  <<[cmd |-> "read", names |-> <<"x", "y">>]>>,
  <<[cmd |-> "and", rest |-> Call("f", <<N(1)>>)]>>,
  <<[cmd |-> "pipeline"]>>
}

\* A script: functions that call each other, with an array parameter.
MCScripts == {
  <<Fn("g", <<List1("l")>>),
      For("x", <<Bare(Array("l"))>>), LetIs("k", V("x")), Call("h", <<V("k")>>), End,
    End,
    Fn("h", <<Scalar1("k", "any")>>),
      If(<<Clause(Builtin("test", <<V("k"), W("="), N(2)>>), "")>>),
        LetIs("k", N(3)), LetIs("total", V("k")), Cmd("exit"),
      Else(<<Clause([cmd |-> "intersects", left |-> "args", right |-> "args"], "")>>),
        LetIs("total", V("k")), LetIs("l", N(0)),
      End,
    End,
    LetIs("total", N(0)),
    LetIs("k", Bare(List(<<N(1), N(2)>>))),
    Chained(Call("g", <<Bare(Array("k"))>>), "&&", Call("g", <<Bare(Slice("args", SliceRange({}, -1, {}, FALSE)))>>)),
    Cmd("break"), LetIs("after", N(1))>> }

\* f has a typed parameter, a loop and names of its own.
RcFile ==
  <<LetIs("s", N(1)), If(Always), LetIs("s", N(2)), LetIs("u", N(3)), End,
    Fn("f", <<Scalar1("a", "int")>>),
      LetIs("y", N(9)),
      For("i", <<V("a"), Bare(Braces(<<Span(2, 1, 1, FALSE), Element(<<Word("b")>>)>>))>>),
        LetIs("x", V("i")), Chained(External, "||", Cmd("break")),
      End, Cmd("continue"),
    End>>
MCFiles == [f \in {"rc"} |-> RcFile]
MCInitrcs == {<<>>, RcFile, <<Cmd("exit")>>}
MCTyped == {<<>>, <<<<Num(1)>>, <<Word("b")>>, <<Word("c")>>>>}
Row1 == [c \in {"c"} |-> <<Num(1)>>]
Row2 == [c \in {"c"} |-> <<Num(2)>>]
MCTables == {<<Row1, Row2>>}
=============================================================================
