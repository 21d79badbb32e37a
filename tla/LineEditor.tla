----------------------------- MODULE LineEditor -----------------------------
(***************************************************************************)
(* The line editor of the interactive prompt (src/editor.rs): what each    *)
(* key does to the line being typed, its cursor, its selection and the     *)
(* position in the recalled history.                                       *)
(*                                                                         *)
(* A character is a string of its own; Mark is a combining mark, which     *)
(* joins the character before it in one grapheme cluster.  Positions count *)
(* the characters to their left, as in the code.                           *)
(*                                                                         *)
(* DropLast, ForgetCursor and RecallWithoutSaving are faulty variants of   *)
(* the definitions after them.                                             *)
(***************************************************************************)
EXTENDS Integers, SequencesExt

CONSTANTS
  Characters,  \* what a line is made of
  Builtins,    \* the command names Tab knows
  Paths        \* the paths it finds

Space == " "
Newline == "\n"
Mark == "mark"
NoAnchor == -1

Lines == Seq(Characters)
OneLine(text) == \A i \in DOMAIN text : text[i] # Newline

(* No command and no path has a newline.                                   *)
ASSUME EditorAssumption ==
  /\ {Space, Newline, Mark} \subseteq Characters
  /\ \A w \in Builtins \cup Paths : w \in Lines /\ OneLine(w)

(* The fields of run_editor: the line, its cursor, where the selection     *)
(* began, the recalled line shown (past the last: none), and the line that *)
(* was being typed when the recall began.                                  *)
FreshEditor(recall) ==
  [buffer |-> <<>>, cursor |-> 0, anchor |-> NoAnchor, index |-> Len(recall), saved |-> <<>>]

EditorState(lines) ==
  [buffer : lines, cursor : Nat, anchor : Nat \cup {NoAnchor}, index : Nat, saved : lines]

-----------------------------------------------------------------------------
(* Boundaries.                                                             *)

Blank(b, i, j) == \A k \in (i + 1)..j : b[k] = Space
Solid(b, i, j) == \A k \in (i + 1)..j : b[k] # Space

PrevWordBoundary(b, p) ==
  LET word == Min({i \in 0..p : Blank(b, i, p)})
  IN  Min({i \in 0..word : Solid(b, i, word)})

NextWordBoundary(b, p) ==
  LET gap == Max({i \in p..Len(b) : Solid(b, p, i)})
  IN  Max({i \in gap..Len(b) : Blank(b, gap, i)})

(* The last cluster of the prefix, the first cluster of the suffix.        *)
PrevGraphemeBoundary(b, p) ==
  IF p = 0 THEN 0 ELSE Max({i \in 0..(p - 1) : i = 0 \/ b[i + 1] # Mark})

NextGraphemeBoundary(b, p) ==
  IF p >= Len(b) THEN Len(b)
  ELSE Min({i \in (p + 1)..Len(b) : i = Len(b) \/ b[i + 1] # Mark})

-----------------------------------------------------------------------------
(* The selection.                                                          *)

Selecting(e) == e.anchor # NoAnchor /\ e.anchor # e.cursor
SelectionStart(e) == Min({e.anchor, e.cursor})
SelectionEnd(e) == Max({e.anchor, e.cursor})
DropLast(e) == SubSeq(e.buffer, SelectionStart(e) + 1, SelectionEnd(e) - 1)
SelectedText(e) == SubSeq(e.buffer, SelectionStart(e) + 1, SelectionEnd(e))

Without(b, i, j) == SubSeq(b, 1, i) \o SubSeq(b, j + 1, Len(b))

ForgetCursor(e) ==
  IF Selecting(e)
  THEN [e EXCEPT !.buffer = Without(e.buffer, SelectionStart(e), SelectionEnd(e)),
                 !.anchor = NoAnchor]
  ELSE [e EXCEPT !.anchor = NoAnchor]

DeleteSelection(e) ==
  IF Selecting(e)
  THEN [e EXCEPT !.buffer = Without(e.buffer, SelectionStart(e), SelectionEnd(e)),
                 !.cursor = SelectionStart(e), !.anchor = NoAnchor]
  ELSE [e EXCEPT !.anchor = NoAnchor]

ExtendSelection(e, destination) ==
  LET from == IF e.anchor = NoAnchor THEN e.cursor ELSE e.anchor
  IN  [e EXCEPT !.cursor = destination,
                !.anchor = IF from = destination THEN NoAnchor ELSE from]

MoveTo(e, destination) == [e EXCEPT !.cursor = destination, !.anchor = NoAnchor]

(* A deleting key removes the selection if there is one.                   *)
DeleteTo(e, i, j) ==
  IF Selecting(e) THEN DeleteSelection(e)
  ELSE [e EXCEPT !.buffer = Without(e.buffer, i, j), !.cursor = i, !.anchor = NoAnchor]

InsertText(e, text) ==
  LET d == DeleteSelection(e)
  IN  [d EXCEPT !.buffer = SubSeq(d.buffer, 1, d.cursor) \o text
                             \o SubSeq(d.buffer, d.cursor + 1, Len(d.buffer)),
                !.cursor = d.cursor + Len(text)]

(* single_line_clipboard_text                                              *)
SingleLine(text) == [i \in DOMAIN text |-> IF text[i] = Newline THEN Space ELSE text[i]]

Cleared(e, recall) == [FreshEditor(recall) EXCEPT !.saved = e.saved]

-----------------------------------------------------------------------------
(* Keys that need nothing but the editor.                                  *)

EditingKeys == {"CtrlU", "CtrlK", "CtrlW", "Backspace", "Delete"}
MovingKeys == {"Left", "Right", "Home", "End", "CtrlLeft", "CtrlRight"}

Edited(e) ==
  LET b == e.buffer  p == e.cursor
  IN  [CtrlU |-> DeleteTo(e, 0, p),
       CtrlK |-> DeleteTo(e, p, Len(b)),
       CtrlW |-> DeleteTo(e, PrevWordBoundary(b, p), p),
       Backspace |-> DeleteTo(e, PrevGraphemeBoundary(b, p), p),
       Delete |-> DeleteTo(e, p, NextGraphemeBoundary(b, p))]

Destination(e) ==
  LET b == e.buffer  p == e.cursor
  IN  [Left |-> PrevGraphemeBoundary(b, p),
       Right |-> NextGraphemeBoundary(b, p),
       Home |-> 0,
       End |-> Len(b),
       CtrlLeft |-> PrevWordBoundary(b, p),
       CtrlRight |-> NextWordBoundary(b, p)]

-----------------------------------------------------------------------------
(* Recall.                                                                 *)

RecallWithoutSaving(e, recall) ==
  IF e.index = 0 THEN e
  ELSE LET line == recall[e.index]
       IN  [e EXCEPT !.index = e.index - 1, !.buffer = line, !.cursor = Len(line),
                     !.anchor = NoAnchor]

Up(e, recall) ==
  IF e.index = 0 THEN e
  ELSE LET line == recall[e.index]
       IN  [e EXCEPT !.saved = IF e.index = Len(recall) THEN e.buffer ELSE e.saved,
                     !.index = e.index - 1, !.buffer = line, !.cursor = Len(line),
                     !.anchor = NoAnchor]

Down(e, recall) ==
  IF e.index >= Len(recall) THEN e
  ELSE LET next == e.index + 1
           line == IF next = Len(recall) THEN e.saved ELSE recall[next + 1]
       IN  [e EXCEPT !.index = next, !.buffer = line, !.cursor = Len(line),
                     !.anchor = NoAnchor]

(* add_history: no blank line, and no line twice in a row.                 *)
IsBlank(line) == Blank(line, 0, Len(line))

AddHistory(recall, line) ==
  IF IsBlank(line) \/ (recall # <<>> /\ Last(recall) = line) THEN recall
  ELSE Append(recall, line)

-----------------------------------------------------------------------------
(* Completion of the word before the cursor.                               *)

TokenStart(b, p) == Min({i \in 0..p : Solid(b, i, p)})

LooksLikePath(token) == token[1] = "."

CompletionOf(token, first) ==
  LET words == IF first /\ ~LooksLikePath(token) THEN Builtins \cup Paths ELSE Paths
      matches == {w \in words : IsPrefix(token, w)}
      common == LongestCommonPrefix(matches)
  IN  IF matches = {} \/ Len(common) <= Len(token) THEN token ELSE common

Complete(e) ==
  LET d == DeleteSelection(e)
      start == TokenStart(d.buffer, d.cursor)
      token == SubSeq(d.buffer, start + 1, d.cursor)
      word == CompletionOf(token, Blank(d.buffer, 0, start))
  IN  IF token = <<>> \/ word = token THEN d
      ELSE [d EXCEPT !.buffer = SubSeq(d.buffer, 1, start) \o word
                                  \o SubSeq(d.buffer, d.cursor + 1, Len(d.buffer)),
                     !.cursor = start + Len(word)]

=============================================================================
