------------------------------- MODULE Tables -------------------------------
(* The values that structured pipelines carry (table.rs, fileset.rs,
   temporal_column.rs) and the text they are read from and written to.

   A table is a sequence of rows, and a row a sequence of <<column, value>>
   with no promise that the rows have the same columns or that a column
   appears once.  Text is a sequence of units: <<"line", w>> is a line of plain
   text, <<"csv", fields>> a CSV record as its unquoted fields, <<"json", t>>
   a JSON array of the objects t.  Quoting and layout are left out. *)
EXTENDS Integers, SequencesExt

CONSTANTS
  Numbers,    \* the numbers that texts parse as: a function from texts
  Instants    \* what date-column makes of a value: <<operation, value>> to text

----------------------------------------------------------------------------
(* Rows: the first cell of a column is the one that counts. *)

HasColumn(row, column) == \E i \in DOMAIN row : row[i][1] = column

Cell(row, column) == row[SelectInSeq(row, LAMBDA c : c[1] = column)][2]

PutCell(row, cell) ==
    IF HasColumn(row, cell[1])
    THEN [row EXCEPT ![SelectInSeq(row, LAMBDA c : c[1] = cell[1])][2] = cell[2]]
    ELSE Append(row, cell)

\* The right-hand row replaces cells of the same name and adds the others.
MergeRow(left, right) == FoldLeft(PutCell, left, right)

SameRowCount(left, right) == Len(left) = Len(right)

MergeTables(left, right) ==
    [i \in DOMAIN left |-> MergeRow(left[i], right[i])]

SelectRow(row, columns) ==
    FlattenSeq([k \in DOMAIN columns |->
        IF HasColumn(row, columns[k])
        THEN << <<columns[k], Cell(row, columns[k])>> >>
        ELSE << >>])

SelectColumns(table, columns) ==
    [i \in DOMAIN table |-> SelectRow(table[i], columns)]

WhereOperators == {"=", "==", "!=", "-eq", "-ne", "-lt", "-le", "-gt", "-ge"}

\* test A OP B: = and != compare texts, the others numbers.
EvalTest(a, op, b) ==
    \/ op \in {"=", "=="} /\ a = b
    \/ op = "!=" /\ a # b
    \/ /\ op \in {"-eq", "-ne", "-lt", "-le", "-gt", "-ge"}
       /\ {a, b} \subseteq DOMAIN Numbers
       /\ LET x == Numbers[a]  y == Numbers[b]
          IN  CASE op = "-eq" -> x = y  [] op = "-ne" -> x # y
                [] op = "-lt" -> x < y  [] op = "-le" -> x <= y
                [] op = "-gt" -> x > y  [] op = "-ge" -> x >= y

Satisfies(row, column, op, value) ==
    HasColumn(row, column) /\ EvalTest(Cell(row, column), op, value)

FilterTable(table, column, op, value) ==
    SelectSeq(table, LAMBDA row : Satisfies(row, column, op, value))

----------------------------------------------------------------------------
(* JSON and CSV text. *)

Lines(texts) == [i \in DOMAIN texts |-> <<"line", texts[i]>>]

\* A JSON object has each name once: the last value, where the first stood.
ToJson(table) ==
    << <<"json", [i \in DOMAIN table |-> FoldLeft(PutCell, << >>, table[i])]>> >>

IsJson(text) == Len(text) = 1 /\ text[1][1] = "json"

FromJson(text) == text[1][2]

\* The columns of all rows, in the order they are first seen.
Columns(table) ==
    FoldLeft(LAMBDA seen, cell : IF Contains(seen, cell[1])
                                 THEN seen ELSE Append(seen, cell[1]),
             << >>, FlattenSeq(table))

ToCsv(table) ==
    LET columns == Columns(table)
        Fields(row) == [k \in DOMAIN columns |->
                          IF HasColumn(row, columns[k]) THEN Cell(row, columns[k])
                                                        ELSE ""]
    IN  << <<"csv", columns>> >>
        \o [i \in DOMAIN table |-> <<"csv", Fields(table[i])>>]

\* A plain line is a record of one field, and so is a record written with none.
Records(text) ==
    [i \in DOMAIN text |->
        CASE text[i][1] = "line" -> <<text[i][2]>>
          [] text[i] = <<"csv", << >> >> -> <<"">>
          [] OTHER -> text[i][2]]

\* No record has more fields than the first, which names the columns.
IsCsv(text) ==
    /\ \A i \in DOMAIN text : text[i][1] # "json"
    /\ \A i \in DOMAIN text : Len(Records(text)[i]) <= Len(Records(text)[1])

FromCsv(text) ==
    IF text = << >> THEN << >>
    ELSE LET records == Records(text)
         IN  [i \in 1..(Len(records) - 1) |->
                [k \in DOMAIN records[i + 1] |->
                    <<records[1][k], records[i + 1][k]>>]]

\* The paths in text, one per line.
PathLines(text) ==
    LET records == Records(SelectSeq(text, LAMBDA u : u[1] # "json"))
        alone   == SelectSeq(records, LAMBDA r : Len(r) = 1 /\ r # <<"">>)
    IN  [i \in DOMAIN alone |-> alone[i][1]]

----------------------------------------------------------------------------
(* File sets: records of files, and the columns of them that are shown. *)

NoHash == ""

FileRecord(path, size, isDir, hash) ==
    [path |-> path, size |-> size, isDir |-> isDir, hash |-> hash]

FileRow(file) ==
    << <<"path", file.path>>, <<"size", file.size>>, <<"modified", "then">>,
       <<"is_dir", IF file.isDir THEN "true" ELSE "false">> >>
    \o IF file.hash = NoHash THEN << >> ELSE << <<"sha256", file.hash>> >>

NewFileSet(files, roots) ==
    [kind |-> "fileset", files |-> files, roots |-> roots,
     columns |-> {"path", "size", "modified", "is_dir"}
                 \cup {c \in {"sha256"} :
                        \E i \in DOMAIN files : files[i].hash # NoHash}]

FileTable(fileset) ==
    [i \in DOMAIN fileset.files |->
        SelectSeq(FileRow(fileset.files[i]), LAMBDA c : c[1] \in fileset.columns)]

\* Selecting columns hides the others: the records stay whole.
SelectFiles(fileset, columns) == [fileset EXCEPT !.columns = ToSet(columns)]

FilterFiles(fileset, column, op, value) ==
    [fileset EXCEPT !.files =
        SelectSeq(@, LAMBDA f : Satisfies(FileRow(f), column, op, value))]

FilePaths(fileset) == [i \in DOMAIN fileset.files |-> fileset.files[i].path]

\* The path column of a table: rows that have none are left out.
TablePaths(table) ==
    LET named == SelectSeq(table, LAMBDA row : HasColumn(row, "path"))
    IN  [i \in DOMAIN named |-> Cell(named[i], "path")]

----------------------------------------------------------------------------
(* date-column SOURCE DESTINATION OPERATION [ARGUMENT...] *)

Arities(operation) ==
    CASE operation \in {"date", "time", "datetime", "timestamp"} -> {0}
      [] operation = "format" -> {1}
      [] operation \in {"timezone", "at-timezone"} -> 1..3
      [] operation \in {"add", "sub"} -> 1..4
      [] OTHER -> {}

CanTransform(table, args) ==
    /\ Len(args) >= 3
    /\ Len(args) - 3 \in Arities(args[3])
    /\ \A i \in DOMAIN table :
         /\ HasColumn(table[i], args[1])
         /\ <<args[3], Cell(table[i], args[1])>> \in DOMAIN Instants

Transform(table, args) ==
    [i \in DOMAIN table |->
        PutCell(table[i], <<args[2], Instants[<<args[3], Cell(table[i], args[1])>>]>>)]

=============================================================================
