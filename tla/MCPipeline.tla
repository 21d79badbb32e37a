----------------------------- MODULE MCPipeline -----------------------------
(* The instance of Pipeline that TLC checks: lines that join the stages in the
   ways that matter, a small tree of files, and a few programs. *)
EXTENDS Pipeline

CONSTANT Lot   \* the lines of this run: "fits" or "overflows"

Line(text) == <<"line", text>>

Objects == << << <<"n", "1">>, <<"at", "noon">> >>, << <<"n", "2">>, <<"at", "noon">> >> >>
Scores  == << << <<"n", "3">>, <<"who", "x">> >>, << <<"who", "y">> >> >>

MCPrograms ==
    LET Program(writes, copies, ok) == [writes |-> writes, copies |-> copies, ok |-> ok]
        Out(texts) == [i \in DOMAIN texts |-> <<"out", Line(texts[i])>>]
        Err(texts) == [i \in DOMAIN texts |-> <<"err", Line(texts[i])>>]
    IN  [gen  |-> Program(Out(<<"x", "y", "z">>), "none", TRUE),
         say  |-> Program(Out(<<"x">>) \o Err(<<"e", "f">>) \o Out(<<"y">>), "none", TRUE),
         tool |-> Program(<< <<"out", ToJson(Objects)[1]>> >>, "none", TRUE),
         pass |-> Program(<< >>, "all", TRUE),
         log  |-> Program(Err(<<"l">>), "all", TRUE),
         head |-> Program(<< >>, "one", TRUE),
         bad  |-> Program(<< >>, "all", FALSE)]

MCTree ==
    LET Entry(path, dir, dot) == [path |-> path, dir |-> dir, dot |-> dot]
    IN  <<Entry(".h", ".", TRUE), Entry("a", ".", FALSE), Entry("d", ".", FALSE),
          Entry("d/c", "d", FALSE), Entry("d/e", "d", FALSE), Entry("o", ".", FALSE),
          Entry("t", ".", FALSE)>>

MCDisk ==
    LET File(text) == [kind |-> "file", text |-> text]
        Dir        == [kind |-> "dir", text |-> << >>]
        None       == [kind |-> "none", text |-> << >>]
    IN  [p \in {".", ".h", "a", "d", "d/c", "d/e", "o", "t", "q"} |->
            CASE p \in {".", "d", "d/e"} -> Dir
              [] p = "a" -> File(<<Line("a"), Line("d/c")>>)
              [] p = "t" -> File(ToCsv(Scores))
              [] p \in {"o", "q"} -> None
              [] p \in {".h", "d/c"} -> File(<<Line(p)>>)]

MCVariables ==
    [objects |-> Table(Objects), scores |-> Table(Scores),
     chosen  |-> NewFileSet(<<FileRecord("a", "2", FALSE, NoHash)>>, << >>),
     planned |-> Plan("copy", <<"a">>, TRUE),
     entry   |-> Journal("2", "move", "failed", TRUE, <<"d/c">>)]

MCJournals ==
    <<Journal("1", "copy", "applied", TRUE, <<"a">>), MCVariables.entry>>

MCNumbers ==
    [t \in {ToString(i) : i \in 0..9} |-> CHOOSE i \in 0..9 : ToString(i) = t]

MCInstants == [p \in {<<"date", "noon">>} |-> "today"]

MCLongOptions ==
    {"--force", "--plan", "--per-root", "--apply", "--recurse", "--permanent",
     "--all", "--full", "--hash", "--rollback", "--resume", "--bogus"}

Fits == {
    <<"gen", "|", "pass">>,
    <<"gen", "|", "pass", "|", "pass", ">", "o">>,
    <<"echo", "-n", "x", "y", "|", "pass", ">>", "a">>,
    <<"cat", "a", "|", "pass", "&">>,
    <<"cat", "a", "q", "|", "pass">>,
    <<"say", "^|", "pass">>,
    <<"say", "&|", "pass">>,
    <<"say", "&|", "log", "&|", "pass">>,
    <<"say", "&>", "o">>,
    <<"say", ">", "q", "^>", "o">>,
    <<"say", ">", "o", "&|", "pass">>,
    <<"say", "&|", "head", "&!">>,
    <<"gen", "|", "head">>,
    <<"gen", "|", "bad", "&!">>,
    <<"gen", "|", "echo", "b", ">", "o">>,
    <<"gen", "|", "from-json">>,
    <<"say", "|", "from-csv", "|", "to-csv">>,
    <<"tool", "|", "from-json", "|", "where", "n", "-gt", "1">>,
    <<"tool", "|", "from-json", "|", "pass">>,
    <<"cat", "t", "|", "from-csv", "|", "to-json", "|", "pass">>,
    <<"files", "--all", "|", "stat", "--hash", "sha256", "|", "to-csv">>,
    <<"folders", "|", "find", "--recurse", "|", "compress", "--per-root", "o", "|",
      "copy", "d", ">", "q">>,
    <<"folders", "|", "find", "|", "compress", "--per-root", "--plan", "o">>,
    <<"files", "|", "select", "size", "|", "move", "d">>,
    <<"chosen", "|", "copy", "--plan", "d", "|", "apply", "|", "undo">>,
    <<"chosen", "|", "pass">>,
    <<"find", "d", "o", "|", "stat", "|", "delete", "--recurse">>,
    <<"cat", "a", "|", "stat", "|", "to-csv", "|", "head">>,
    <<"objects", "|", "merge", "scores", "|", "date-column", "at", "day", "date">>,
    <<"planned", "|", "apply", "|", "to-csv">>,
    <<"entry", "|", "rollback", "|", "to-json", ">", "o">>,
    <<"recover", "2", "--rollback", ">", "o">>,
    <<"recover", "2", "--resume", "|", "undo">>,
    <<"recover", "|", "select", "status">>,
    <<"journal", "1", "|", "undo", "|", "pass">>,
    <<"copy", "a", "d", "|", "delete", "--permanent", "a">>,
    <<"missing", "|", "pass">>,
    <<"echo", "x", ">", "d">>,
    <<"echo", "x", ">", "o", "^>", "d">>,
    <<"echo", "x", "|", "test", "y">>,
    <<"echo", "x", "|">>,
    <<"|", "&">>}

Stored == {<<"tool", "|", "from-json", "|", "select", "n">>,
           <<"files", "|", "where", "size", "-le", "2">>,
           <<"journal", "|", "where", "status", "=", "failed">>}

\* More is written than pipes hold to a stage whose reader does not read yet.
Overflows == {
    <<"cat", "a", "a", "a", "|", "pass", "|", "pass">>,
    <<"gen", "^|", "pass">>}

MCJobs ==
    [tokens : IF Lot = "fits" THEN Fits ELSE Overflows, capture : {FALSE}]
    \cup [tokens : IF Lot = "fits" THEN Stored ELSE {}, capture : {TRUE}]

----------------------------------------------------------------------------
(* Tables and their text, over all small tables. *)

SmallRows ==
    UNION {[1..n -> {"p", "q"} \X {"1", "2"}] : n \in 0..2}

SmallTables == UNION {[1..n -> SmallRows] : n \in 0..2}

AsFunction(row) == [c \in {row[i][1] : i \in DOMAIN row} |-> Cell(row, c)]

\* Merging two rows is, column by column, the right one over the left one.
ASSUME MergeIsOverride ==
    \A row, over \in SmallRows :
        (\A i, j \in DOMAIN over : over[i][1] = over[j][1] => i = j) =>
            AsFunction(MergeRow(row, over)) = AsFunction(over) @@ AsFunction(row)

\* Reading back the JSON of a table gives it with one cell for each name.
ASSUME JsonReadsBack ==
    \A table \in SmallTables :
        LET back == FromJson(ToJson(table))
        IN  /\ Len(back) = Len(table)
            /\ \A i \in DOMAIN back :
                 /\ DOMAIN AsFunction(back[i]) = DOMAIN AsFunction(table[i])
                 /\ Len(back[i]) = Cardinality(DOMAIN AsFunction(table[i]))

\* Reading back the CSV of a table that has a column gives its first cells, with
\* every column in every row.
ASSUME CsvReadsBack ==
    \A table \in {t \in SmallTables : Columns(t) # << >>} :
        LET text == ToCsv(table)
            back == FromCsv(text)
        IN  /\ IsCsv(text)
            /\ Len(back) = Len(table)
            /\ \A i \in DOMAIN back : \A c \in ToSet(Columns(table)) :
                 Cell(back[i], c) = IF HasColumn(table[i], c) THEN Cell(table[i], c)
                                                              ELSE ""

\* The plain commands are not run as pipelines.
ASSUME NoTrivialJob == \A j \in MCJobs : ~IsTrivial(Parse(j.tokens))

\* The name of a redirection's target is never taken for an operator.
ASSUME TargetIsAWord ==
    \A op \in RedirectOperators, target \in PipeOperators \cup {"&", "x"} :
        LET p == Parse(<<"echo", op, target>>)
        IN  /\ Len(p.stages) = 1
            /\ p.stages[1].redirects = << <<op, target>> >>
            /\ ~p.background

=============================================================================
