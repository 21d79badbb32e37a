------------------------- MODULE SharedHistoryProofs -------------------------
(***************************************************************************)
(* Machine-checked, for any number of shells, any keys, lines and faults:  *)
(* the history file always holds the newest records as they were appended, *)
(* what was entered last can be recalled at the next prompt, `history`     *)
(* lists what would be recalled, and the editor keeps its cursor and its   *)
(* selection inside the line, comes back from browsing and restores what   *)
(* was cut.                                                                *)
(*                                                                         *)
(* The folds of the model are turned into chains of their intermediate     *)
(* results (FoldExists, ChainTo, ChainFrom); what is proved of a fold is   *)
(* proved along its chain.                                                 *)
(***************************************************************************)
EXTENDS SharedHistory, FiniteSetTheorems, SequenceTheorems, WellFoundedInduction, TLAPS

-----------------------------------------------------------------------------
(* Induction.  Nat is well-founded under <, so what holds of 0 and climbs  *)
(* holds up to n; a set of numbers has its least and its greatest.         *)

(* A set of numbers that is not empty has a least one.                     *)
LEMMA Least ==
  ASSUME NEW T \in SUBSET Nat, T # {}
  PROVE  \E m \in T : \A n \in T : m <= n
<1>1. IsWellFoundedOn(OpToRel(<, Nat), Nat)
  BY NatLessThanWellFounded
<1>2. PICK m \in T : \A n \in T : <<n, m>> \notin OpToRel(<, Nat)
  BY <1>1, WFMin
<1>3. \A n \in T : <<n, m>> \notin OpToRel(<, Nat) => ~(n < m)
  BY DEF OpToRel
<1>4. \A n \in T : n \in Nat /\ m \in Nat /\ ~(n < m)
  BY <1>2, <1>3
<1>5. \A n \in T : m <= n
  BY <1>4
<1> QED BY <1>5

(* Induction up to n.                                                      *)
LEMMA Climb ==
  ASSUME NEW n \in Nat, NEW T, 0 \in T, \A k \in 0..(n - 1) : k \in T => k + 1 \in T
  PROVE  \A k \in 0..n : k \in T
<1> SUFFICES ASSUME (0..n) \ T # {} PROVE FALSE
  OBVIOUS
<1>0. (0..n) \ T \in SUBSET Nat
  OBVIOUS
<1>1. PICK m \in (0..n) \ T : \A k \in (0..n) \ T : m <= k
  BY <1>0, Least, Zenon
<1>2. m # 0 /\ m - 1 \in 0..(n - 1) /\ ~(m <= m - 1)
  BY <1>1
<1>3. m - 1 \in T
  BY <1>1, <1>2
<1> QED BY <1>1, <1>2, <1>3

LEMMA MinIsLeast ==
  ASSUME NEW S \in SUBSET Nat, S # {}
  PROVE  Min(S) \in S /\ \A x \in S : Min(S) <= x
<1>1. PICK m \in S : \A x \in S : m <= x
  BY Least, Zenon
<1> QED BY <1>1 DEF Min

LEMMA MaxIsGreatest ==
  ASSUME NEW n \in Nat, NEW S \in SUBSET (0..n), S # {}
  PROVE  Max(S) \in S /\ \A x \in S : x <= Max(S)
<1>0. {n - x : x \in S} \in SUBSET Nat /\ {n - x : x \in S} # {}
  <2>1. PICK y \in S : TRUE
    OBVIOUS
  <2>2. n - y \in {n - x : x \in S}
    BY <2>1
  <2>3. \A x \in S : n - x \in Nat
    OBVIOUS
  <2> QED BY <2>2, <2>3
<1>1. PICK d \in {n - x : x \in S} : \A e \in {n - x : x \in S} : d <= e
  BY <1>0, Least, Zenon
<1>2. PICK m \in S : d = n - m
  BY <1>1
<1>3. \A x \in S : m >= x
  <2> TAKE x \in S
  <2>1. n - m <= n - x
    BY <1>1, <1>2
  <2> QED BY <2>1
<1>4. Max(S) \in S /\ \A y \in S : Max(S) >= y
  BY <1>3 DEF Max
<1> QED BY <1>4

LEMMA MaxOfUpTo ==
  ASSUME NEW k \in Nat \ {0}
  PROVE  Max(1..k) = k /\ (1..k) \ {k} = 1..(k - 1)
<1>1. Max(1..k) \in 1..k /\ \A x \in 1..k : x <= Max(1..k)
  BY MaxIsGreatest, 1..k \in SUBSET (0..k), 1 \in 1..k
<1> QED BY <1>1

(* The function that MapThenFoldSet chooses: the fold of every subset of   *)
(* 1..n, one index after the other as pick has it.                         *)
Whole(it, n, base, F, pick) ==
  it = [s \in SUBSET (1..n) |-> IF s = {} THEN base ELSE F[<<it[s \ {pick[s]}], pick[s]>>]]

(* It exists, by induction on the size of the subset.                      *)
LEMMA FoldExists ==
  ASSUME NEW n \in Nat, NEW V, NEW base \in V, NEW F \in [V \X (1..n) -> V],
         NEW pick, \A s \in SUBSET (1..n) : s # {} => pick[s] \in s
  PROVE  \E it \in [SUBSET (1..n) -> V] : Whole(it, n, base, F, pick)
<1> DEFINE NextOf(it, s) == IF s = {} THEN base ELSE F[<<it[s \ {pick[s]}], pick[s]>>]
           Good(it, k) == \A s \in SUBSET (1..n) : Cardinality(s) <= k => it[s] = NextOf(it, s)
           T == {k \in 0..n : \E it \in [SUBSET (1..n) -> V] : Good(it, k)}
<1>1. \A s \in SUBSET (1..n) : IsFiniteSet(s) /\ Cardinality(s) \in 0..n
  <2>1. IsFiniteSet(1..n) /\ Cardinality(1..n) = n
    BY FS_Interval
  <2> TAKE s \in SUBSET (1..n)
  <2>2. IsFiniteSet(s) /\ Cardinality(s) <= Cardinality(1..n)
    BY <2>1, FS_Subset
  <2>3. Cardinality(s) \in Nat
    BY <2>2, FS_CardinalityType
  <2> QED BY <2>1, <2>2, <2>3
<1>2. 0 \in T
  <2> DEFINE it == [s \in SUBSET (1..n) |-> base]
  <2>1. it \in [SUBSET (1..n) -> V] /\ Good(it, 0)
    BY <1>1, FS_EmptySet
  <2> HIDE DEF it, Good
  <2> QED BY <2>1
<1>3. ASSUME NEW k \in 0..(n - 1), k \in T PROVE k + 1 \in T
  <2>1. PICK it \in [SUBSET (1..n) -> V] : Good(it, k)
    BY <1>3
  <2> DEFINE jt == [s \in SUBSET (1..n) |-> NextOf(it, s)]
  <2>2. \A s \in SUBSET (1..n) : NextOf(it, s) \in V
    OBVIOUS
  <2>3. jt \in [SUBSET (1..n) -> V]
    BY <2>2
  <2>4. ASSUME NEW s \in SUBSET (1..n), Cardinality(s) <= k + 1, s # {}
        PROVE  jt[s \ {pick[s]}] = it[s \ {pick[s]}]
    <3> DEFINE r == s \ {pick[s]}
    <3>1. r \in SUBSET (1..n) /\ Cardinality(r) = Cardinality(s) - 1
      BY <1>1, <2>4, FS_RemoveElement
    <3>2. Cardinality(r) <= k
      BY <1>1, <2>4, <3>1
    <3> QED BY <2>1, <3>1, <3>2
  <2>5. Good(jt, k + 1)
    BY <2>4
  <2>6. k + 1 \in 0..n
    OBVIOUS
  <2> HIDE DEF jt, Good
  <2> QED BY <2>3, <2>5, <2>6
<1>4. n \in T
  <2> HIDE DEF T
  <2> QED BY <1>2, <1>3, Climb
<1>5. PICK it \in [SUBSET (1..n) -> V] : Good(it, n)
  <2> HIDE DEF Good
  <2> QED BY <1>4
<1>6. \A s \in SUBSET (1..n) : it[s] = NextOf(it, s)
  <2> TAKE s \in SUBSET (1..n)
  <2>1. Cardinality(s) <= n
    BY <1>1
  <2> QED BY <1>5, <2>1
<1>7. it = [s \in SUBSET (1..n) |-> NextOf(it, s)]
  BY <1>6
<1> QED BY <1>7 DEF Whole

(* A fold from the left takes the greatest index last; g[k] is what it has *)
(* after k of them.                                                        *)
Folded(it, n, V, F) ==
  \A s \in SUBSET (1..n) : s # {} /\ it[s \ {Max(s)}] \in V
                             => it[s] = F[<<it[s \ {Max(s)}], Max(s)>>]

IsChain(g, n, F) == \A k \in 1..n : g[k] = F[<<g[k - 1], k>>]

LEMMA ChainTo ==
  ASSUME NEW n \in Nat, NEW V, NEW F \in [V \X (1..n) -> V],
         NEW it, it[{}] \in V, Folded(it, n, V, F)
  PROVE  \E g \in [0..n -> V] : g[0] = it[{}] /\ g[n] = it[1..n] /\ IsChain(g, n, F)
<1> DEFINE T == {k \in 0..n : it[1..k] \in V}
           g == [k \in 0..n |-> it[1..k]]
<1>1. 1..0 = {}
  OBVIOUS
<1>2. \A k \in 1..n : it[1..(k - 1)] \in V => it[1..k] = F[<<it[1..(k - 1)], k>>]
  <2> TAKE k \in 1..n
  <2>1. 1..k \in SUBSET (1..n) /\ 1..k # {}
    OBVIOUS
  <2>2. Max(1..k) = k /\ (1..k) \ {k} = 1..(k - 1)
    BY MaxOfUpTo
  <2> HAVE it[1..(k - 1)] \in V
  <2> QED BY <2>1, <2>2 DEF Folded
<1>3. 0 \in T
  BY <1>1
<1>4. ASSUME NEW k \in 0..(n - 1), k \in T PROVE k + 1 \in T
  <2>1. k + 1 \in 1..n /\ (k + 1) - 1 = k
    OBVIOUS
  <2>2. it[1..(k + 1)] = F[<<it[1..k], k + 1>>]
    BY <1>2, <1>4, <2>1
  <2> QED BY <1>4, <2>1, <2>2
<1>5. \A k \in 0..n : k \in T
  <2> HIDE DEF T
  <2> QED BY <1>3, <1>4, Climb
<1>6. \A k \in 0..n : it[1..k] \in V
  BY <1>5
<1>7. g \in [0..n -> V] /\ g[0] = it[{}] /\ g[n] = it[1..n]
  BY <1>1, <1>6
<1>8. \A k \in 1..n : g[k] = F[<<g[k - 1], k>>]
  <2> TAKE k \in 1..n
  <2>1. k - 1 \in 0..n /\ k \in 0..n
    OBVIOUS
  <2> QED BY <1>2, <1>6, <2>1
<1> QED
  <2> HIDE DEF g
  <2> QED BY <1>7, <1>8 DEF IsChain

(* Two chains that start alike and go on alike are the same.               *)
Alike(g, h, n) == g[0] = h[0] /\ \A k \in 1..n : g[k - 1] = h[k - 1] => g[k] = h[k]

LEMMA ChainsAgree ==
  ASSUME NEW n \in Nat, NEW g, NEW h, Alike(g, h, n)
  PROVE  \A k \in 0..n : g[k] = h[k]
<1> DEFINE T == {k \in 0..n : g[k] = h[k]}
<1>1. 0 \in T
  BY DEF Alike
<1>2. ASSUME NEW k \in 0..(n - 1), k \in T PROVE k + 1 \in T
  <2>1. k + 1 \in 1..n /\ (k + 1) - 1 = k
    OBVIOUS
  <2> QED BY <1>2, <2>1 DEF Alike
<1>3. \A k \in 0..n : k \in T
  <2> HIDE DEF T
  <2> QED BY <1>1, <1>2, Climb
<1> QED BY <1>3

-----------------------------------------------------------------------------
(* What is read from and written to the file.                              *)

Glyph == Characters \ {Newline}
Text == Seq(Glyph)

FileLine ==
  [kind : {"session"}, of : Sessions] \cup [kind : {"time"}, of : Nat]
    \cup [kind : {"command"}, of : Text]

Record == [time : Nat, session : Sessions, command : Text]
Reading == [session : Sessions, time : Nat, records : Seq(Record)]

LEMMA TextIsLines == Text = {l \in Lines : OneLine(l)}
<1>1. Text \subseteq Lines
  BY SeqMonotonic DEF Text, Glyph, Lines
<1>2. ASSUME NEW l \in Text PROVE OneLine(l)
  BY <1>2 DEF OneLine, Text, Glyph
<1>3. ASSUME NEW l \in Lines, OneLine(l) PROVE l \in Text
  BY <1>3 DEF OneLine, Text, Glyph, Lines
<1> QED BY <1>1, <1>2, <1>3

LEMMA ReadLineTyped ==
  ASSUME NEW acc \in Reading, NEW l \in FileLine
  PROVE  ReadLine(acc, l) \in Reading
<1>1. CASE l.kind = "session"
  <2>1. l.of \in Sessions
    BY <1>1 DEF FileLine
  <2> QED BY <1>1, <2>1 DEF ReadLine, Reading
<1>2. CASE l.kind = "time"
  <2>1. l.of \in Nat
    BY <1>2 DEF FileLine
  <2> QED BY <1>2, <2>1 DEF ReadLine, Reading
<1>3. CASE l.kind = "command"
  <2>1. l.of \in Text
    BY <1>3 DEF FileLine
  <2> DEFINE r == [time |-> acc.time, session |-> acc.session, command |-> l.of]
  <2>2. r \in Record
    BY <2>1 DEF Record, Reading
  <2>3. acc.records \in Seq(Record)
    BY DEF Reading
  <2>4. Append(acc.records, r) \in Seq(Record)
    BY <2>2, <2>3, AppendProperties
  <2>5. ReadLine(acc, l) = [acc EXCEPT !.time = NoTime, !.records = Append(acc.records, r)]
    BY <1>3 DEF ReadLine
  <2>6. NoTime \in Nat
    BY DEF NoTime
  <2> HIDE DEF r
  <2> QED BY <2>4, <2>5, <2>6 DEF Reading
<1> QED BY <1>1, <1>2, <1>3 DEF FileLine

(* *)
(* ReadFile, line by line.                                                 *)
LEMMA ReadChain ==
  ASSUME NEW lines \in Seq(FileLine)
  PROVE  \E g \in [0..Len(lines) -> Reading] :
           /\ g[0] = NothingRead
           /\ \A k \in 1..Len(lines) : g[k] = ReadLine(g[k - 1], lines[k])
           /\ ReadFile(lines) = g[Len(lines)]
<1> DEFINE n == Len(lines)
           F == [p \in Reading \X (1..n) |-> ReadLine(p[1], lines[p[2]])]
           top == [s \in SUBSET (1..n) |-> Max(s)]
           step(it, s) == IF s = {} THEN NothingRead
                          ELSE ReadLine(it[s \ {Max(s)}], lines[Max(s)])
           it == CHOOSE it : it = [s \in SUBSET (1..n) |-> step(it, s)]
<1>1. n \in Nat /\ DOMAIN lines = 1..n /\ NothingRead \in Reading
  BY DEF NothingRead, Reading, NoTime, Sessions
<1>2. F \in [Reading \X (1..n) -> Reading]
  BY ReadLineTyped, ElementOfSeq
<1>3. \A s \in SUBSET (1..n) : s # {} => Max(s) \in s
  BY <1>1, MaxIsGreatest, 1..n \subseteq 0..n
<1>4. \E jt : jt = [s \in SUBSET (1..n) |-> step(jt, s)]
  <2>1. PICK jt \in [SUBSET (1..n) -> Reading] : Whole(jt, n, NothingRead, F, top)
    BY <1>1, <1>2, <1>3, FoldExists
  <2>2. \A s \in SUBSET (1..n) : s # {} => jt[s \ {Max(s)}] \in Reading /\ Max(s) \in 1..n
    BY <1>3
  <2>3. \A s \in SUBSET (1..n) : jt[s] = step(jt, s)
    BY <2>1, <2>2 DEF Whole
  <2>4. jt = [s \in SUBSET (1..n) |-> step(jt, s)]
    BY <2>3
  <2> QED BY <2>4
<1>5. it = [s \in SUBSET (1..n) |-> step(it, s)]
  BY <1>4
<1>6. ReadFile(lines) = it[1..n]
  BY <1>1 DEF ReadFile, FoldLeft, MapThenFoldSet
<1>7. it[{}] = NothingRead /\ Folded(it, n, Reading, F)
  <2> HIDE DEF it
  <2> QED BY <1>3, <1>5 DEF Folded
<1>8. PICK g \in [0..n -> Reading] : g[0] = it[{}] /\ g[n] = it[1..n] /\ IsChain(g, n, F)
  <2> HIDE DEF it, F, n
  <2> QED BY <1>1, <1>2, <1>7, ChainTo
<1>9. \A k \in 1..n : g[k] = ReadLine(g[k - 1], lines[k])
  <2> TAKE k \in 1..n
  <2>1. k - 1 \in 0..n
    BY <1>1
  <2> QED BY <1>8, <2>1 DEF IsChain
<1> HIDE DEF it
<1> QED BY <1>1, <1>6, <1>7, <1>8, <1>9

LEMMA ReadTyped ==
  ASSUME NEW lines \in Seq(FileLine)
  PROVE  ReadFile(lines) \in Reading /\ ParseRecords(lines) \in Seq(Record)
<1>1. PICK g \in [0..Len(lines) -> Reading] : ReadFile(lines) = g[Len(lines)]
  BY ReadChain
<1> QED BY <1>1, Len(lines) \in 0..Len(lines) DEF ParseRecords, Reading

LEMMA ReadNothing == ReadFile(<<>>) = NothingRead
<1>1. <<>> \in Seq(FileLine) /\ Len(<<>>) = 0
  OBVIOUS
<1> QED BY <1>1, ReadChain

LEMMA ReadSnoc ==
  ASSUME NEW lines \in Seq(FileLine), NEW l \in FileLine
  PROVE  ReadFile(Append(lines, l)) = ReadLine(ReadFile(lines), l)
<1> DEFINE n == Len(lines)  more == Append(lines, l)
<1>1. /\ n \in Nat /\ more \in Seq(FileLine) /\ Len(more) = n + 1
      /\ more[n + 1] = l /\ \A k \in 1..n : more[k] = lines[k]
  BY AppendProperties
<1> HIDE DEF n, more
<1>2. PICK g : /\ g[0] = NothingRead /\ ReadFile(lines) = g[n]
               /\ \A k \in 1..n : g[k] = ReadLine(g[k - 1], lines[k])
  BY ReadChain DEF n
<1>3. PICK h : /\ h[0] = NothingRead /\ ReadFile(more) = h[n + 1]
               /\ \A k \in 1..(n + 1) : h[k] = ReadLine(h[k - 1], more[k])
  BY <1>1, ReadChain
<1>4. Alike(g, h, n)
  BY <1>1, <1>2, <1>3 DEF Alike
<1>5. \A k \in 0..n : g[k] = h[k]
  BY <1>1, <1>4, ChainsAgree
<1>6. h[n + 1] = ReadLine(h[n], l)
  BY <1>1, <1>3
<1> QED BY <1>1, <1>2, <1>3, <1>5, <1>6 DEF more

(* A command that has no newline is written as one line.                   *)
(* The lines of a command, character by character.                         *)
LEMMA CutChain ==
  ASSUME NEW c \in Text
  PROVE  FoldLeft(Cut, <<<<>>>>, c) = <<c>>
<1> DEFINE n == Len(c)
           V == {<<t>> : t \in Text}
           F == [p \in V \X (1..n) |-> Cut(p[1], c[p[2]])]
           top == [s \in SUBSET (1..n) |-> Max(s)]
           step(it, s) == IF s = {} THEN <<<<>>>> ELSE Cut(it[s \ {Max(s)}], c[Max(s)])
           it == CHOOSE it : it = [s \in SUBSET (1..n) |-> step(it, s)]
           want == [k \in 0..n |-> <<SubSeq(c, 1, k)>>]
<1>0. <<>> \in Text
  BY DEF Text
<1>1. n \in Nat /\ DOMAIN c = 1..n /\ <<<<>>>> \in V
  <2>1. n \in Nat /\ DOMAIN c = 1..n
    BY DEF Text
  <2>2. <<<<>>>> \in V
    BY <1>0, Zenon
  <2> QED BY <2>1, <2>2
<1>2. \A t \in Text, k \in 1..n : Append(t, c[k]) \in Text /\ Cut(<<t>>, c[k]) = <<Append(t, c[k])>>
  <2> TAKE t \in Text, k \in 1..n
  <2>1. c[k] \in Glyph /\ c[k] # Newline
    BY ElementOfSeq DEF Text, Glyph
  <2>2. Append(t, c[k]) \in Text
    BY <2>1, AppendProperties DEF Text
  <2>3. <<t>> \in Seq(Text) /\ Len(<<t>>) = 1 /\ <<t>>[1] = t
    OBVIOUS
  <2>4. Front(<<t>>) = <<>> /\ Last(<<t>>) = t
    BY <2>3, SubSeqEmpty DEF Front, Last
  <2>5. Append(<<>>, Append(t, c[k])) = <<Append(t, c[k])>>
    BY <2>2
  <2> QED BY <2>1, <2>2, <2>4, <2>5 DEF Cut
<1>3. F \in [V \X (1..n) -> V]
  <2>1. \A v \in V, k \in 1..n : Cut(v, c[k]) \in V
    BY <1>2
  <2> HIDE DEF V, n
  <2> QED BY <2>1
<1>4. \A s \in SUBSET (1..n) : s # {} => Max(s) \in s
  BY <1>1, MaxIsGreatest, 1..n \subseteq 0..n
<1>5. \E jt : jt = [s \in SUBSET (1..n) |-> step(jt, s)]
  <2>1. PICK jt \in [SUBSET (1..n) -> V] : Whole(jt, n, <<<<>>>>, F, top)
    BY <1>1, <1>3, <1>4, FoldExists
  <2>2. \A s \in SUBSET (1..n) : s # {} => jt[s \ {Max(s)}] \in V /\ Max(s) \in 1..n
    BY <1>4
  <2>3. \A s \in SUBSET (1..n) : jt[s] = step(jt, s)
    BY <2>1, <2>2 DEF Whole
  <2>4. jt = [s \in SUBSET (1..n) |-> step(jt, s)]
    BY <2>3
  <2> QED BY <2>4
<1>6. it = [s \in SUBSET (1..n) |-> step(it, s)]
  BY <1>5
<1>7. FoldLeft(Cut, <<<<>>>>, c) = it[1..n]
  BY <1>1 DEF FoldLeft, MapThenFoldSet
<1>8. it[{}] = <<<<>>>> /\ Folded(it, n, V, F)
  <2> HIDE DEF it
  <2> QED BY <1>4, <1>6 DEF Folded
<1>9. PICK g \in [0..n -> V] : g[0] = it[{}] /\ g[n] = it[1..n] /\ IsChain(g, n, F)
  <2>1. it[{}] \in V /\ n \in Nat
    BY <1>1, <1>8
  <2> HIDE DEF it, F, n, V
  <2> QED BY <1>3, <1>8, <2>1, ChainTo
<1> HIDE DEF it
<1>10. \A k \in 1..n : g[k - 1] = want[k - 1] => g[k] = want[k]
  <2> SUFFICES ASSUME NEW k \in 1..n, g[k - 1] = want[k - 1] PROVE g[k] = want[k]
    OBVIOUS
  <2>0. k - 1 \in 0..n /\ k \in 0..n
    BY <1>1
  <2>1. want[k - 1] = <<SubSeq(c, 1, k - 1)>> /\ want[k] = <<SubSeq(c, 1, k)>>
    BY <2>0
  <2>2. SubSeq(c, 1, k - 1) \in Text
    BY <1>1, SubSeqProperties, ElementOfSeq DEF Text
  <2>3. g[k] = Cut(g[k - 1], c[k])
    <3>1. g[k] = F[<<g[k - 1], k>>] /\ g[k - 1] \in V
      BY <1>9, <2>0 DEF IsChain
    <3> HIDE DEF V
    <3> QED BY <3>1
  <2>4. Append(SubSeq(c, 1, k - 1), c[k]) = SubSeq(c, 1, k)
    BY <1>1 DEF Text
  <2> QED BY <1>2, <2>1, <2>2, <2>3, <2>4
<1>11. g[0] = want[0]
  <2>1. SubSeq(c, 1, 0) = <<>> /\ 0 \in 0..n
    BY <1>1, SubSeqEmpty
  <2>2. want[0] = <<<<>>>>
    BY <2>1
  <2> QED BY <1>8, <1>9, <2>2
<1>12. g[n] = want[n]
  <2> HIDE DEF n, want
  <2>1. Alike(g, want, n)
    BY <1>10, <1>11 DEF Alike
  <2> QED BY <1>1, <2>1, ChainsAgree, n \in 0..n
<1> QED BY <1>1, <1>7, <1>9, <1>12, SubSeqFull DEF Text

(* A command without a newline is one line of the file.                    *)
LEMMA OneLineOf ==
  ASSUME NEW c \in Text
  PROVE  LinesOf(c) = <<CommandLine(c)>>
BY CutChain DEF LinesOf

SessionBefore(r, session) ==
  IF r.session = session THEN <<>> ELSE <<SessionLine(r.session)>>

LEMMA LinesTyped ==
  ASSUME NEW r \in Record
  PROVE  /\ SessionLine(r.session) \in FileLine
         /\ r.time # NoTime => TimeLine(r.time) \in FileLine
         /\ CommandLine(r.command) \in FileLine
         /\ TimeAndCommand(r) \in Seq(FileLine)
<1>1. /\ SessionLine(r.session) \in FileLine /\ TimeLine(r.time) \in FileLine
      /\ CommandLine(r.command) \in FileLine
  BY DEF Record, FileLine, SessionLine, TimeLine, CommandLine
<1>2. LinesOf(r.command) = <<CommandLine(r.command)>>
  BY OneLineOf DEF Record
<1>3. <<CommandLine(r.command)>> \in Seq(FileLine) /\ <<TimeLine(r.time)>> \in Seq(FileLine)
      /\ <<>> \in Seq(FileLine)
  BY <1>1
<1>4. TimeAndCommand(r) \in Seq(FileLine)
  BY <1>2, <1>3, ConcatProperties DEF TimeAndCommand
<1> QED BY <1>1, <1>4

(* What reading a file makes of one record more.                           *)
LEMMA ReadRecord ==
  ASSUME NEW lines \in Seq(FileLine), NEW r \in Record, ReadFile(lines).time = NoTime,
         ReadFile(lines).session = r.session
  PROVE  ReadFile(lines \o TimeAndCommand(r)) =
           [session |-> r.session, time |-> NoTime,
            records |-> Append(ParseRecords(lines), r)]
<1> DEFINE read == ReadFile(lines)
           cmd == CommandLine(r.command)
           stamp == TimeLine(r.time)
<1>1. read \in Reading /\ read.time = NoTime /\ read.session = r.session
  BY ReadTyped
<1>3. LinesOf(r.command) = <<cmd>> /\ cmd \in FileLine
  BY OneLineOf, LinesTyped DEF Record
<1>4. r = [time |-> r.time, session |-> r.session, command |-> r.command]
  BY DEF Record
<1>5. CASE r.time = NoTime
  <2>1. lines \o TimeAndCommand(r) = Append(lines, cmd)
    <3>1. TimeAndCommand(r) = <<>> \o <<cmd>>
      BY <1>3, <1>5 DEF TimeAndCommand
    <3>2. <<cmd>> \in Seq(FileLine)
      BY <1>3
    <3> QED BY <1>3, <3>1, <3>2, ConcatEmptySeq, AppendIsConcat
  <2>2. ReadFile(lines \o TimeAndCommand(r)) = ReadLine(read, cmd)
    BY <1>3, <2>1, ReadSnoc
  <2> HIDE DEF read
  <2>3. read = [session |-> r.session, time |-> NoTime, records |-> read.records]
    BY <1>1 DEF Reading
  <2>4. ReadLine([session |-> r.session, time |-> NoTime, records |-> read.records], cmd)
          = [session |-> r.session, time |-> NoTime, records |-> Append(read.records, r)]
    BY <1>4, <1>5 DEF ReadLine, CommandLine
  <2> QED BY <2>2, <2>3, <2>4 DEF ParseRecords, read
<1>6. CASE r.time # NoTime
  <2>0. stamp \in FileLine
    BY <1>6, LinesTyped
  <2>1. lines \o TimeAndCommand(r) = Append(Append(lines, stamp), cmd)
    <3>1. TimeAndCommand(r) = <<stamp>> \o <<cmd>>
      BY <1>3, <1>6 DEF TimeAndCommand
    <3>2. <<cmd>> \in Seq(FileLine) /\ <<stamp>> \in Seq(FileLine)
      BY <1>3, <2>0
    <3>3. lines \o (<<stamp>> \o <<cmd>>) = (lines \o <<stamp>>) \o <<cmd>>
      BY <3>2, ConcatAssociative
    <3>4. lines \o <<stamp>> = Append(lines, stamp) /\ Append(lines, stamp) \in Seq(FileLine)
      BY <2>0, AppendIsConcat, AppendProperties
    <3>5. Append(lines, stamp) \o <<cmd>> = Append(Append(lines, stamp), cmd)
      BY <1>3, <3>4, AppendIsConcat
    <3> QED BY <3>1, <3>3, <3>4, <3>5
  <2>2. ReadFile(lines \o TimeAndCommand(r)) = ReadLine(ReadLine(read, stamp), cmd)
    <3>1. Append(lines, stamp) \in Seq(FileLine)
      BY <2>0, AppendProperties
    <3>2. ReadFile(Append(lines, stamp)) = ReadLine(read, stamp)
      BY <2>0, ReadSnoc
    <3>3. ReadFile(Append(Append(lines, stamp), cmd))
            = ReadLine(ReadFile(Append(lines, stamp)), cmd)
      BY <1>3, <3>1, ReadSnoc
    <3> QED BY <2>1, <3>2, <3>3
  <2>3. ReadLine(read, stamp) = [read EXCEPT !.time = r.time]
    BY DEF ReadLine, TimeLine
  <2> HIDE DEF read
  <2>4. [read EXCEPT !.time = r.time] =
          [session |-> r.session, time |-> r.time, records |-> read.records]
    BY <1>1 DEF Reading
  <2>5. ReadLine([session |-> r.session, time |-> r.time, records |-> read.records], cmd)
          = [session |-> r.session, time |-> NoTime, records |-> Append(read.records, r)]
    BY <1>4 DEF ReadLine, CommandLine
  <2> QED BY <2>2, <2>3, <2>4, <2>5 DEF ParseRecords, read
<1> QED BY <1>5, <1>6

LEMMA ReadSession ==
  ASSUME NEW lines \in Seq(FileLine), NEW s \in Sessions
  PROVE  /\ <<SessionLine(s)>> \in Seq(FileLine)
         /\ ReadFile(lines \o <<SessionLine(s)>>) = [ReadFile(lines) EXCEPT !.session = s]
<1>1. SessionLine(s) \in FileLine
  BY DEF FileLine, SessionLine
<1>2. lines \o <<SessionLine(s)>> = Append(lines, SessionLine(s))
  BY <1>1, AppendIsConcat
<1>3. ReadFile(Append(lines, SessionLine(s))) = ReadLine(ReadFile(lines), SessionLine(s))
  BY <1>1, ReadSnoc
<1>4. ReadLine(ReadFile(lines), SessionLine(s)) = [ReadFile(lines) EXCEPT !.session = s]
  BY DEF ReadLine, SessionLine
<1>5. <<SessionLine(s)>> \in Seq(FileLine)
  BY <1>1
<1> QED BY <1>2, <1>3, <1>4, <1>5

LEMMA ReadSessionAndRecord ==
  ASSUME NEW lines \in Seq(FileLine), NEW r \in Record, ReadFile(lines).time = NoTime,
         NEW session \in Sessions, ReadFile(lines).session = session
  PROVE  /\ lines \o SessionBefore(r, session) \o TimeAndCommand(r) \in Seq(FileLine)
         /\ ReadFile(lines \o SessionBefore(r, session) \o TimeAndCommand(r)) =
              [session |-> r.session, time |-> NoTime,
               records |-> Append(ParseRecords(lines), r)]
<1> DEFINE more == lines \o SessionBefore(r, session)
<1>1. TimeAndCommand(r) \in Seq(FileLine)
  BY LinesTyped
<1>2. /\ more \in Seq(FileLine) /\ ReadFile(more).time = NoTime
      /\ ReadFile(more).session = r.session /\ ParseRecords(more) = ParseRecords(lines)
  <2>1. CASE r.session = session
    <3>1. more = lines
      BY <2>1, ConcatEmptySeq DEF SessionBefore
    <3> QED BY <2>1, <3>1
  <2>2. CASE r.session # session
    <3>1. r.session \in Sessions /\ ReadFile(lines) \in Reading
      BY ReadTyped DEF Record
    <3>2. more = lines \o <<SessionLine(r.session)>>
      BY <2>2 DEF SessionBefore
    <3>3. ReadFile(more) = [ReadFile(lines) EXCEPT !.session = r.session]
      BY <3>1, <3>2, ReadSession
    <3>4. more \in Seq(FileLine)
      BY <3>1, <3>2, ReadSession, ConcatProperties
    <3> HIDE DEF more
    <3> QED BY <3>1, <3>3, <3>4 DEF ParseRecords, Reading
  <2> QED BY <2>1, <2>2
<1>3. more \o TimeAndCommand(r) \in Seq(FileLine)
  BY <1>1, <1>2, ConcatProperties
<1> QED BY <1>2, <1>3, ReadRecord

Writing == [session : Sessions, out : Seq(FileLine)]
NothingWritten == [session |-> NoSession, out |-> <<>>]

LEMMA WriteRecordTyped ==
  ASSUME NEW acc \in Writing, NEW r \in Record
  PROVE  /\ WriteRecord(acc, r) \in Writing
         /\ WriteRecord(acc, r).session = r.session
         /\ WriteRecord(acc, r).out = acc.out \o SessionBefore(r, acc.session) \o TimeAndCommand(r)
<1>1. acc.out \in Seq(FileLine) /\ acc.session \in Sessions /\ r.session \in Sessions
  BY DEF Writing, Record
<1>2. SessionLine(r.session) \in FileLine /\ TimeAndCommand(r) \in Seq(FileLine)
  BY LinesTyped
<1>3. SessionBefore(r, acc.session) \in Seq(FileLine)
  <2>1. <<SessionLine(r.session)>> \in Seq(FileLine) /\ <<>> \in Seq(FileLine)
    BY <1>2
  <2> QED BY <2>1 DEF SessionBefore
<1>4. acc.out \o SessionBefore(r, acc.session) \o TimeAndCommand(r) \in Seq(FileLine)
  BY <1>1, <1>2, <1>3, ConcatProperties
<1> QED BY <1>1, <1>4 DEF WriteRecord, Writing, SessionBefore

(* SerializeRecords, record by record.                                     *)
LEMMA WriteChain ==
  ASSUME NEW rs \in Seq(Record)
  PROVE  \E g \in [0..Len(rs) -> Writing] :
           /\ g[0] = NothingWritten
           /\ \A k \in 1..Len(rs) : g[k] = WriteRecord(g[k - 1], rs[k])
           /\ SerializeRecords(rs) = g[Len(rs)].out
<1> DEFINE n == Len(rs)
           F == [p \in Writing \X (1..n) |-> WriteRecord(p[1], rs[p[2]])]
           top == [s \in SUBSET (1..n) |-> Max(s)]
           step(it, s) == IF s = {} THEN NothingWritten
                          ELSE WriteRecord(it[s \ {Max(s)}], rs[Max(s)])
           it == CHOOSE it : it = [s \in SUBSET (1..n) |-> step(it, s)]
<1>1. n \in Nat /\ DOMAIN rs = 1..n /\ NothingWritten \in Writing
  BY DEF NothingWritten, Writing, Sessions
<1>2. F \in [Writing \X (1..n) -> Writing]
  BY WriteRecordTyped, ElementOfSeq
<1>3. \A s \in SUBSET (1..n) : s # {} => Max(s) \in s
  BY <1>1, MaxIsGreatest, 1..n \subseteq 0..n
<1>4. \E jt : jt = [s \in SUBSET (1..n) |-> step(jt, s)]
  <2>1. PICK jt \in [SUBSET (1..n) -> Writing] : Whole(jt, n, NothingWritten, F, top)
    BY <1>1, <1>2, <1>3, FoldExists
  <2>2. \A s \in SUBSET (1..n) : s # {} => jt[s \ {Max(s)}] \in Writing /\ Max(s) \in 1..n
    BY <1>3
  <2>3. \A s \in SUBSET (1..n) : jt[s] = step(jt, s)
    BY <2>1, <2>2 DEF Whole
  <2>4. jt = [s \in SUBSET (1..n) |-> step(jt, s)]
    BY <2>3
  <2> QED BY <2>4
<1>5. it = [s \in SUBSET (1..n) |-> step(it, s)]
  BY <1>4
<1>6. SerializeRecords(rs) = it[1..n].out
  BY <1>1 DEF SerializeRecords, FoldLeft, MapThenFoldSet, NothingWritten
<1>7. it[{}] = NothingWritten /\ Folded(it, n, Writing, F)
  <2> HIDE DEF it
  <2> QED BY <1>3, <1>5 DEF Folded
<1>8. PICK g \in [0..n -> Writing] : g[0] = it[{}] /\ g[n] = it[1..n] /\ IsChain(g, n, F)
  <2> HIDE DEF it, F, n
  <2> QED BY <1>1, <1>2, <1>7, ChainTo
<1>9. \A k \in 1..n : g[k] = WriteRecord(g[k - 1], rs[k])
  <2> TAKE k \in 1..n
  <2>1. k - 1 \in 0..n
    BY <1>1
  <2> QED BY <1>8, <2>1 DEF IsChain
<1> HIDE DEF it
<1> QED BY <1>1, <1>6, <1>7, <1>8, <1>9

(* Written records are read back as they were.                             *)
LEMMA RecordsReadBack ==
  ASSUME NEW rs \in Seq(Record)
  PROVE  /\ SerializeRecords(rs) \in Seq(FileLine)
         /\ ReadFile(SerializeRecords(rs)).time = NoTime
         /\ ParseRecords(SerializeRecords(rs)) = rs
<1> DEFINE n == Len(rs)
<1>1. PICK g \in [0..n -> Writing] :
        /\ g[0] = NothingWritten
        /\ \A k \in 1..n : g[k] = WriteRecord(g[k - 1], rs[k])
        /\ SerializeRecords(rs) = g[n].out
  BY WriteChain
<1> DEFINE T == {k \in 0..n : ReadFile(g[k].out) =
                   [session |-> g[k].session, time |-> NoTime, records |-> SubSeq(rs, 1, k)]}
<1>2. n \in Nat
  OBVIOUS
<1>3. 0 \in T
  <2>1. SubSeq(rs, 1, 0) = <<>>
    BY SubSeqEmpty
  <2>2. g[0].out = <<>> /\ g[0].session = NoSession
    BY <1>1 DEF NothingWritten
  <2>3. ReadFile(g[0].out) = [session |-> g[0].session, time |-> NoTime, records |-> <<>>]
    BY <2>2, ReadNothing DEF NothingRead
  <2> QED BY <1>2, <2>1, <2>3
<1>4. ASSUME NEW k \in 0..(n - 1), k \in T PROVE k + 1 \in T
  <2> DEFINE acc == g[k]  r == rs[k + 1]
  <2>1. /\ k + 1 \in 1..n /\ k \in 0..n /\ (k + 1) - 1 = k /\ acc \in Writing
        /\ g[k + 1] = WriteRecord(g[k], r)
    BY <1>1, <1>2
  <2>2. r \in Record
    BY <2>1, ElementOfSeq
  <2>3. /\ ReadFile(acc.out) =
             [session |-> acc.session, time |-> NoTime, records |-> SubSeq(rs, 1, k)]
        /\ acc.out \in Seq(FileLine) /\ acc.session \in Sessions
    BY <1>4, <2>1 DEF Writing
  <2> HIDE DEF acc, r
  <2>9. ReadFile(acc.out).time = NoTime /\ ReadFile(acc.out).session = acc.session
    BY <2>3
  <2>4. ReadFile(acc.out \o SessionBefore(r, acc.session) \o TimeAndCommand(r)) =
          [session |-> r.session, time |-> NoTime, records |-> Append(ParseRecords(acc.out), r)]
    BY <2>2, <2>3, <2>9, ReadSessionAndRecord
  <2>5. ParseRecords(acc.out) = SubSeq(rs, 1, k)
    BY <2>3 DEF ParseRecords
  <2>6. Append(SubSeq(rs, 1, k), r) = SubSeq(rs, 1, k + 1)
    BY <2>1 DEF r
  <2>7. /\ g[k + 1].session = r.session
        /\ g[k + 1].out = acc.out \o SessionBefore(r, acc.session) \o TimeAndCommand(r)
    BY <2>1, <2>2, WriteRecordTyped DEF acc
  <2>8. ReadFile(g[k + 1].out) =
          [session |-> g[k + 1].session, time |-> NoTime, records |-> SubSeq(rs, 1, k + 1)]
    BY <2>4, <2>5, <2>6, <2>7
  <2> QED BY <2>1, <2>8
<1>5. \A k \in 0..n : k \in T
  <2> HIDE DEF T
  <2> QED BY <1>2, <1>3, <1>4, Climb
<1>6. ReadFile(g[n].out) = [session |-> g[n].session, time |-> NoTime, records |-> SubSeq(rs, 1, n)]
  BY <1>2, <1>5
<1>7. g[n].out \in Seq(FileLine)
  BY <1>1, <1>2 DEF Writing
<1> QED BY <1>1, <1>6, <1>7, SubSeqFull DEF ParseRecords

Flat(f, ss, k) == \A i \in 1..k : f[i] = IF i = 1 THEN ss[i] ELSE f[i - 1] \o ss[i]

(* Flattening is concatenating one sequence after the other.               *)
(* The lines of a batch, command by command.                               *)
LEMMA FlattenChain ==
  ASSUME NEW V, NEW ss \in Seq(Seq(V)), ss # <<>>
  PROVE  \E g \in [1..Len(ss) -> Seq(V)] :
           /\ Flat(g, ss, Len(ss))
           /\ FlattenSeq(ss) = g[Len(ss)]
<1> DEFINE n == Len(ss)
           T == {k \in 0..n : \E f \in [1..n -> Seq(V)] : Flat(f, ss, k)}
           step(f, i) == IF i = 1 THEN ss[i] ELSE f[i - 1] \o ss[i]
           flatten == CHOOSE flatten : flatten = [i \in 1..n |-> step(flatten, i)]
<1>1. n \in Nat /\ n # 0 /\ DOMAIN ss = 1..n /\ \A i \in 1..n : ss[i] \in Seq(V)
  BY ElementOfSeq
<1> HIDE DEF n
<1>2. 0 \in T
  <2> DEFINE none == [i \in 1..n |-> <<>>]
  <2>1. none \in [1..n -> Seq(V)]
    OBVIOUS
  <2>2. Flat(none, ss, 0)
    BY DEF Flat
  <2>3. 0 \in 0..n
    BY <1>1
  <2> HIDE DEF none
  <2> QED BY <2>1, <2>2, <2>3
<1>3. ASSUME NEW k \in 0..(n - 1), k \in T PROVE k + 1 \in T
  <2>1. PICK f \in [1..n -> Seq(V)] : Flat(f, ss, k)
    BY <1>3
  <2>2. k + 1 \in 1..n /\ k + 1 \in 0..n
    BY <1>1
  <2> DEFINE next == IF k = 0 THEN ss[1] ELSE f[k] \o ss[k + 1]
             g == [f EXCEPT ![k + 1] = next]
  <2>3. next \in Seq(V)
    <3>1. CASE k = 0
      BY <1>1, <2>2, <3>1
    <3>2. CASE k # 0
      <4>1. k \in 1..n
        BY <1>1, <3>2
      <4> QED BY <1>1, <2>2, <3>2, <4>1, ConcatProperties
    <3> QED BY <3>1, <3>2
  <2> HIDE DEF next
  <2>4. g \in [1..n -> Seq(V)]
    BY <2>3
  <2>5. g[k + 1] = next /\ \A i \in 1..k : g[i] = f[i]
    BY <1>1, <2>2
  <2> HIDE DEF g
  <2>6. Flat(g, ss, k + 1)
    <3> SUFFICES ASSUME NEW i \in 1..(k + 1) PROVE g[i] = step(g, i)
      BY DEF Flat
    <3>1. CASE i \in 1..k
      <4>1. i = 1 \/ i - 1 \in 1..k
        BY <3>1
      <4> QED BY <2>1, <2>5, <3>1, <4>1 DEF Flat
    <3>2. CASE i = k + 1 /\ k = 0
      BY <2>5, <3>2 DEF next
    <3>3. CASE i = k + 1 /\ k # 0
      <4>1. k \in 1..k /\ i # 1 /\ i - 1 = k
        BY <3>3
      <4> QED BY <2>5, <3>3, <4>1 DEF next
    <3> QED BY <3>1, <3>2, <3>3
  <2> QED BY <2>2, <2>4, <2>6
<1>4. \A k \in 0..n : k \in T
  <2> HIDE DEF T
  <2> QED BY <1>1, <1>2, <1>3, Climb
<1>5. PICK f \in [1..n -> Seq(V)] : Flat(f, ss, n)
  <2>1. n \in 0..n
    BY <1>1
  <2> QED BY <1>4, <2>1
<1>6. f = [i \in 1..n |-> step(f, i)]
  BY <1>5 DEF Flat
<1>7. flatten = [i \in 1..n |-> step(flatten, i)]
  BY <1>6
<1>8. FlattenSeq(ss) = flatten[n]
  BY <1>1 DEF FlattenSeq, n
<1>9. Flat(flatten, ss, n)
  <2> HIDE DEF flatten
  <2> QED BY <1>7 DEF Flat
<1> HIDE DEF flatten
<1>10. \A k \in 1..n : flatten[k] = f[k]
  <2> DEFINE U == {k \in 0..n : k = 0 \/ flatten[k] = f[k]}
  <2>1. 0 \in U
    BY <1>1
  <2>2. ASSUME NEW k \in 0..(n - 1), k \in U PROVE k + 1 \in U
    <3>1. k + 1 \in 1..n /\ k + 1 \in 0..n /\ (k + 1) - 1 = k
      BY <1>1
    <3>2. flatten[k + 1] = step(flatten, k + 1) /\ f[k + 1] = step(f, k + 1)
      BY <1>5, <1>9, <3>1 DEF Flat
    <3>3. k = 0 => k + 1 = 1
      OBVIOUS
    <3> QED BY <2>2, <3>1, <3>2, <3>3
  <2>3. \A k \in 0..n : k \in U
    <3> HIDE DEF U
    <3> QED BY <1>1, <2>1, <2>2, Climb
  <2> QED BY <2>3
<1>11. FlattenSeq(ss) = f[n]
  BY <1>1, <1>8, <1>10
<1> QED BY <1>5, <1>11 DEF n

BatchText(bs) == FlattenSeq([i \in DOMAIN bs |-> TimeAndCommand(bs[i])])

(* A batch is read back after the file it was appended to.                 *)
(* What an append adds to the file is read back as the batch.              *)
LEMMA BatchReadsBack ==
  ASSUME NEW lines \in Seq(FileLine), ReadFile(lines).time = NoTime,
         NEW s \in Sessions, NEW bs \in Seq(Record), bs # <<>>,
         \A i \in 1..Len(bs) : bs[i].session = s
  PROVE  LET after == lines \o (<<SessionLine(s)>> \o BatchText(bs))
         IN  /\ after \in Seq(FileLine)
             /\ ReadFile(after).time = NoTime
             /\ ParseRecords(after) = ParseRecords(lines) \o bs
<1> DEFINE n == Len(bs)
           ss == [i \in DOMAIN bs |-> TimeAndCommand(bs[i])]
           begun == lines \o <<SessionLine(s)>>
           before == ParseRecords(lines)
<1>1. n \in Nat /\ n # 0 /\ DOMAIN bs = 1..n /\ \A i \in 1..n : bs[i] \in Record
  BY ElementOfSeq
<1>2. ss \in Seq(Seq(FileLine)) /\ Len(ss) = n /\ ss # <<>>
      /\ \A i \in 1..n : ss[i] = TimeAndCommand(bs[i]) /\ ss[i] \in Seq(FileLine)
  <2>1. \A i \in 1..n : TimeAndCommand(bs[i]) \in Seq(FileLine)
    BY <1>1, LinesTyped
  <2>2. ss \in Seq(Seq(FileLine)) /\ Len(ss) = n
    BY <1>1, <2>1
  <2> QED BY <1>1, <2>1, <2>2
<1> HIDE DEF n
<1>3. PICK g \in [1..n -> Seq(FileLine)] : Flat(g, ss, n) /\ FlattenSeq(ss) = g[n]
  <2> HIDE DEF ss
  <2> QED BY <1>2, FlattenChain
<1>4. /\ begun \in Seq(FileLine) /\ <<SessionLine(s)>> \in Seq(FileLine)
      /\ ReadFile(begun) = [session |-> s, time |-> NoTime, records |-> before]
      /\ before \in Seq(Record)
  <2>1. ReadFile(lines) \in Reading /\ before \in Seq(Record)
    BY ReadTyped
  <2>2. <<SessionLine(s)>> \in Seq(FileLine)
        /\ ReadFile(begun) = [ReadFile(lines) EXCEPT !.session = s]
    BY ReadSession
  <2>3. [ReadFile(lines) EXCEPT !.session = s]
          = [session |-> s, time |-> NoTime, records |-> before]
    BY <2>1 DEF Reading, ParseRecords
  <2>4. begun \in Seq(FileLine)
    BY <2>2, ConcatProperties
  <2> QED BY <2>1, <2>2, <2>3, <2>4
<1> HIDE DEF begun, before, ss
<1> DEFINE Read(k) == ReadFile(begun \o g[k]) =
                        [session |-> s, time |-> NoTime, records |-> before \o SubSeq(bs, 1, k)]
           T == {k \in 0..n : k = 0 \/ Read(k)}
<1>5. 0 \in T
  BY <1>1
<1>6. ASSUME NEW k \in 0..(n - 1), k \in T PROVE k + 1 \in T
  <2> DEFINE r == bs[k + 1]
             t == TimeAndCommand(r)
             text == IF k = 0 THEN begun ELSE begun \o g[k]
             rs == before \o SubSeq(bs, 1, k)
  <2>1. k + 1 \in 1..n /\ k + 1 \in 0..n /\ r \in Record /\ r.session = s
        /\ t \in Seq(FileLine) /\ ss[k + 1] = t
    BY <1>1, <1>2 DEF n
  <2> HIDE DEF t, r
  <2>2. text \in Seq(FileLine) /\ begun \o g[k + 1] = text \o t
    <3>1. CASE k = 0
      <4>1. g[1] = ss[1]
        BY <1>1, <1>3, 1 \in 1..n DEF Flat
      <4>2. k + 1 = 1
        BY <3>1
      <4>3. g[k + 1] = t
        BY <2>1, <4>1, <4>2
      <4>4. text = begun
        BY <3>1
      <4> QED BY <1>4, <4>3, <4>4
    <3>2. CASE k # 0
      <4>1. k \in 1..n /\ g[k] \in Seq(FileLine) /\ k + 1 # 1 /\ (k + 1) - 1 = k
        BY <1>1, <3>2
      <4>2. g[k + 1] = g[k] \o t
        BY <1>3, <2>1, <4>1 DEF Flat
      <4> DEFINE u == g[k]
      <4>5. u \in Seq(FileLine)
        BY <4>1
      <4> HIDE DEF u
      <4>6. begun \o (u \o t) = (begun \o u) \o t
        BY <1>4, <2>1, <4>5
      <4>3. begun \o (g[k] \o t) = (begun \o g[k]) \o t
        BY <4>6 DEF u
      <4>4. begun \o g[k] \in Seq(FileLine)
        BY <1>4, <4>1, ConcatProperties
      <4> QED BY <3>2, <4>2, <4>3, <4>4
    <3> QED BY <3>1, <3>2
  <2>3. ReadFile(text) = [session |-> s, time |-> NoTime, records |-> rs]
    <3>1. CASE k = 0
      <4>1. rs = before
        BY <1>1, <1>4, <3>1, SubSeqEmpty, ConcatEmptySeq
      <4> QED BY <1>4, <3>1, <4>1
    <3>2. CASE k # 0
      BY <1>6, <3>2
    <3> QED BY <3>1, <3>2
  <2>4. Append(rs, r) = before \o SubSeq(bs, 1, k + 1)
    <3>1. Append(SubSeq(bs, 1, k), r) = SubSeq(bs, 1, k + 1)
      BY <1>1, <2>1 DEF n, r
    <3>2. SubSeq(bs, 1, k) \in Seq(Record)
      BY <1>1, <2>1, SubSeqProperties DEF n
    <3> DEFINE some == SubSeq(bs, 1, k)
    <3> HIDE DEF some
    <3>3. some \in Seq(Record) /\ before \o some \in Seq(Record) /\ <<r>> \in Seq(Record)
      BY <1>4, <2>1, <3>2, ConcatProperties DEF some
    <3> DEFINE one == <<r>>
    <3>4. one \in Seq(Record)
      BY <3>3
    <3>6. Append(before \o some, r) = (before \o some) \o one
          /\ Append(some, r) = some \o one
      BY <2>1, <3>3, AppendIsConcat
    <3> HIDE DEF one
    <3>7. (before \o some) \o one = before \o (some \o one)
      BY <1>4, <3>3, <3>4
    <3>5. Append(before \o some, r) = before \o Append(some, r)
      BY <3>6, <3>7
    <3> QED BY <3>1, <3>5 DEF some
  <2> HIDE DEF text, rs
  <2>5. ReadFile(text).time = NoTime /\ ReadFile(text).session = r.session
        /\ ParseRecords(text) = rs
    BY <2>1, <2>3 DEF ParseRecords
  <2>6. ReadFile(text \o t) =
          [session |-> r.session, time |-> NoTime, records |-> Append(ParseRecords(text), r)]
    BY <2>1, <2>2, <2>5, ReadRecord DEF t
  <2>7. Read(k + 1)
    BY <2>1, <2>2, <2>4, <2>5, <2>6
  <2> HIDE DEF Read
  <2> QED BY <2>1, <2>7
<1>7. \A k \in 0..n : k \in T
  <2> HIDE DEF T
  <2> QED BY <1>1, <1>5, <1>6, Climb
<1>8. Read(n)
  <2> HIDE DEF Read
  <2> QED BY <1>1, <1>7
<1>9. g[n] \in Seq(FileLine) /\ BatchText(bs) = g[n]
  BY <1>1, <1>3 DEF BatchText, ss
<1> DEFINE h == <<SessionLine(s)>>
<1> HIDE DEF h
<1> DEFINE u == g[n]
<1>16. h \in Seq(FileLine) /\ u \in Seq(FileLine)
  BY <1>4, <1>9 DEF h
<1> HIDE DEF u
<1>17. lines \o (h \o u) = (lines \o h) \o u
  BY <1>16
<1>10. lines \o (h \o g[n]) = (lines \o h) \o g[n]
  BY <1>17 DEF u
<1>11. begun \o g[n] \in Seq(FileLine)
  BY <1>4, <1>9, ConcatProperties
<1>12. lines \o (<<SessionLine(s)>> \o BatchText(bs)) = begun \o g[n]
  BY <1>9, <1>10 DEF begun, h
<1>13. SubSeq(bs, 1, n) = bs
  BY SubSeqFull DEF n
<1>14. ReadFile(begun \o g[n]) = [session |-> s, time |-> NoTime, records |-> before \o bs]
  BY <1>8, <1>13
<1>15. ReadFile(begun \o g[n]).time = NoTime /\ ParseRecords(begun \o g[n]) = before \o bs
  BY <1>14 DEF ParseRecords
<1> QED BY <1>11, <1>12, <1>15 DEF before

-----------------------------------------------------------------------------
(* Suffixes, and the rules of HISTORY_IGNORE.                              *)

Ends(r, l) ==
  /\ Len(r) <= Len(l)
  /\ \A i \in 1..Len(r) : r[i] = l[Len(l) - Len(r) + i]

(* IsSuffix reverses both sequences; element by element it says Ends.      *)
LEMMA SuffixIsEnd ==
  ASSUME NEW V, NEW r \in Seq(V), NEW l \in Seq(V)
  PROVE  IsSuffix(r, l) <=> Ends(r, l)
<1> DEFINE n == Len(r)  m == Len(l)  rr == Reverse(r)  rl == Reverse(l)
<1>1. n \in Nat /\ m \in Nat
  OBVIOUS
<1>2. /\ rr \in Seq(V) /\ Len(rr) = n /\ \A i \in 1..n : rr[i] = r[(n - i) + 1]
      /\ rl \in Seq(V) /\ Len(rl) = m /\ \A i \in 1..m : rl[i] = l[(m - i) + 1]
  <2>1. \A i \in 1..n : (n - i) + 1 \in 1..n
    BY <1>1
  <2>2. \A i \in 1..m : (m - i) + 1 \in 1..m
    BY <1>1
  <2>3. rr \in [1..n -> V] /\ rl \in [1..m -> V]
    BY <2>1, <2>2, ElementOfSeq DEF Reverse
  <2>4. rr \in Seq(V) /\ Len(rr) = n
    BY <1>1, <2>3, IsASeq
  <2>5. rl \in Seq(V) /\ Len(rl) = m
    BY <1>1, <2>3, IsASeq
  <2> QED BY <2>4, <2>5 DEF Reverse
<1>3. IsSuffix(r, l) <=> n <= m /\ SubSeq(rr, 1, n) = SubSeq(rl, 1, n)
  BY <1>2 DEF IsSuffix, IsPrefix
<1> HIDE DEF rr, rl, n, m
<1>4. ASSUME n <= m
      PROVE SubSeq(rr, 1, n) = SubSeq(rl, 1, n) <=> \A i \in 1..n : rr[i] = rl[i]
  BY <1>1, <1>2, <1>4
<1>5. ASSUME n <= m
      PROVE (\A i \in 1..n : rr[i] = rl[i]) <=> \A i \in 1..n : r[i] = l[m - n + i]
  <2>2. ASSUME \A i \in 1..n : rr[i] = rl[i], NEW i \in 1..n PROVE r[i] = l[m - n + i]
    <3> DEFINE j == (n - i) + 1
    <3>1. j \in 1..n /\ j \in 1..m /\ (n - j) + 1 = i /\ (m - j) + 1 = m - n + i
      BY <1>1, <1>5
    <3> HIDE DEF j
    <3>2. rr[j] = rl[j]
      BY <2>2, <3>1
    <3> QED BY <1>2, <3>1, <3>2
  <2>3. ASSUME \A i \in 1..n : r[i] = l[m - n + i], NEW i \in 1..n PROVE rr[i] = rl[i]
    <3> DEFINE j == (n - i) + 1
    <3>1. j \in 1..n /\ i \in 1..m /\ (n - i) + 1 = j /\ (m - i) + 1 = m - n + j
      BY <1>1, <1>5
    <3> HIDE DEF j
    <3>2. r[j] = l[m - n + j]
      BY <2>3, <3>1
    <3> QED BY <1>2, <3>1, <3>2
  <2> QED BY <2>2, <2>3
<1> QED BY <1>3, <1>4, <1>5 DEF Ends, n, m

Excess(items, limit) == IF Len(items) > limit THEN Len(items) - limit ELSE 0

LEMMA RetainedAre ==
  ASSUME NEW V, NEW items \in Seq(V), NEW limit \in Nat
  PROVE  /\ RetainLatest(items, limit) \in Seq(V)
         /\ Excess(items, limit) \in 0..Len(items)
         /\ Len(RetainLatest(items, limit)) = Len(items) - Excess(items, limit)
         /\ \A i \in 1..(Len(items) - Excess(items, limit)) :
              RetainLatest(items, limit)[i] = items[Excess(items, limit) + i]
<1> DEFINE n == Len(items)  m == Max({0, n - limit})
<1>1. n \in Nat
  OBVIOUS
<1>2. m = Excess(items, limit)
  <2>1. {0, n - limit} # {} /\ 0 - limit \in Int
    BY <1>1
  <2>2. CASE n > limit
    <3>1. {0, n - limit} \in SUBSET (0..n)
      BY <1>1, <2>2
    <3>2. m \in {0, n - limit} /\ \A x \in {0, n - limit} : x <= m
      BY <1>1, <3>1, MaxIsGreatest
    <3> QED BY <1>1, <2>2, <3>2 DEF Excess
  <2>3. CASE ~(n > limit)
    <3>1. \A y \in {0, n - limit} : 0 >= y
      BY <1>1, <2>3
    <3>2. m \in {0, n - limit} /\ \A y \in {0, n - limit} : m >= y
      BY <3>1 DEF Max
    <3> QED BY <1>1, <2>3, <3>2 DEF Excess
  <2> QED BY <2>2, <2>3
<1>3. m \in 0..n
  BY <1>1, <1>2 DEF Excess
<1>4. RetainLatest(items, limit) = SubSeq(items, m + 1, n)
  BY DEF RetainLatest
<1> HIDE DEF m, n
<1>5. /\ SubSeq(items, m + 1, n) \in Seq(V) /\ Len(SubSeq(items, m + 1, n)) = n - m
      /\ \A i \in 1..(n - m) : SubSeq(items, m + 1, n)[i] = items[m + i]
  <2>1. m + 1 \in 1..(n + 1)
    BY <1>1, <1>3
  <2> QED BY <1>1, <1>3, <2>1 DEF n
<1> QED BY <1>2, <1>3, <1>4, <1>5 DEF n

LEMMA CommandsTyped ==
  ASSUME NEW rs \in Seq(Record)
  PROVE  /\ CommandsOf(rs) \in Seq(Text) /\ Len(CommandsOf(rs)) = Len(rs)
         /\ \A i \in 1..Len(rs) : CommandsOf(rs)[i] = rs[i].command
<1>1. \A i \in 1..Len(rs) : rs[i] \in Record
  BY ElementOfSeq
<1>2. CommandsOf(rs) \in [1..Len(rs) -> Text]
  BY <1>1 DEF CommandsOf, Record
<1> QED BY <1>2, IsASeq DEF CommandsOf

(* ApplyIgnoreRules, entry by entry.                                       *)
LEMMA KeptChain ==
  ASSUME NEW cs \in Seq(Text), NEW rules
  PROVE  \E g \in [0..Len(cs) -> Seq(Text)] :
           /\ g[0] = <<>>
           /\ \A k \in 1..Len(cs) :
                g[k] = IF Kept(cs, rules, k) THEN Append(g[k - 1], cs[k]) ELSE g[k - 1]
           /\ ApplyIgnoreRules(cs, rules) = g[Len(cs)]
<1> DEFINE n == Len(cs)
           V == Seq(Text)
           chosen(acc, i) == IF Kept(cs, rules, i) THEN Append(acc, cs[i]) ELSE acc
           F == [p \in V \X (1..n) |-> chosen(p[1], p[2])]
           top == [s \in SUBSET (1..n) |-> Max(s)]
           own == [i \in DOMAIN cs |-> i]
           step(it, s) == IF s = {} THEN <<>> ELSE chosen(it[s \ {Max(s)}], own[Max(s)])
           it == CHOOSE it : it = [s \in SUBSET (1..n) |-> step(it, s)]
<1>1. n \in Nat /\ DOMAIN cs = 1..n /\ <<>> \in V
  OBVIOUS
<1>10. DOMAIN own = 1..n /\ \A i \in 1..n : own[i] = i
  BY <1>1
<1>2. F \in [V \X (1..n) -> V]
  <2>1. \A v \in V, k \in 1..n : chosen(v, k) \in V
    BY ElementOfSeq, AppendProperties
  <2> HIDE DEF V, n, chosen
  <2> QED BY <2>1
<1>3. \A s \in SUBSET (1..n) : s # {} => Max(s) \in s
  BY <1>1, MaxIsGreatest, 1..n \subseteq 0..n
<1>4. \E jt : jt = [s \in SUBSET (1..n) |-> step(jt, s)]
  <2>1. PICK jt \in [SUBSET (1..n) -> V] : Whole(jt, n, <<>>, F, top)
    <3> HIDE DEF V, F, n
    <3> QED BY <1>1, <1>2, <1>3, FoldExists
  <2>2. \A s \in SUBSET (1..n) : s # {} => jt[s \ {Max(s)}] \in V /\ Max(s) \in 1..n
                                         /\ own[Max(s)] = Max(s)
    <3> HIDE DEF own, n
    <3> QED BY <1>3, <1>10
  <2> HIDE DEF chosen, V, n, own
  <2>3. \A s \in SUBSET (1..n) : jt[s] = step(jt, s)
    BY <2>1, <2>2 DEF Whole
  <2>4. jt = [s \in SUBSET (1..n) |-> step(jt, s)]
    BY <2>3
  <2> QED BY <2>4
<1>5. it = [s \in SUBSET (1..n) |-> step(it, s)]
  <2> HIDE DEF step, n
  <2> QED BY <1>4
<1>6. ApplyIgnoreRules(cs, rules) = it[1..n]
  <2> QED BY <1>1, <1>10 DEF ApplyIgnoreRules, FoldLeftDomain, FoldLeft, MapThenFoldSet
<1>7. it[{}] = <<>> /\ Folded(it, n, V, F)
  <2>1. \A s \in SUBSET (1..n) : s # {} => own[Max(s)] = Max(s) /\ Max(s) \in 1..n
    <3> HIDE DEF own, n
    <3> QED BY <1>3, <1>10
  <2> HIDE DEF it, chosen, V, n, own
  <2> QED BY <1>5, <2>1 DEF Folded
<1>8. PICK g \in [0..n -> V] : g[0] = it[{}] /\ g[n] = it[1..n] /\ IsChain(g, n, F)
  <2>1. it[{}] \in V
    <3> HIDE DEF it
    <3> QED BY <1>1, <1>7
  <2> HIDE DEF it, F, n, V
  <2> QED BY <1>1, <1>2, <1>7, <2>1, ChainTo
<1>9. \A k \in 1..n : g[k] = chosen(g[k - 1], k)
  <2> TAKE k \in 1..n
  <2>1. k - 1 \in 0..n
    BY <1>1
  <2> HIDE DEF chosen, V
  <2> QED BY <1>8, <2>1 DEF IsChain
<1> HIDE DEF it
<1> QED BY <1>1, <1>6, <1>7, <1>8, <1>9

(* What the rules leave: commands, the last one if it is not ignored, and  *)
(* nothing of nothing.                                                     *)
LEMMA RulesLeave ==
  ASSUME NEW cs \in Seq(Text), NEW rules
  PROVE  /\ ApplyIgnoreRules(cs, rules) \in Seq(Text)
         /\ cs # <<>> /\ ~Ignored(Last(cs), rules) =>
              /\ ApplyIgnoreRules(cs, rules) # <<>>
              /\ Last(ApplyIgnoreRules(cs, rules)) = Last(cs)
<1> DEFINE n == Len(cs)
<1>1. PICK g \in [0..n -> Seq(Text)] :
           /\ \A k \in 1..n :
                g[k] = IF Kept(cs, rules, k) THEN Append(g[k - 1], cs[k]) ELSE g[k - 1]
           /\ ApplyIgnoreRules(cs, rules) = g[n]
  BY KeptChain
<1>2. n \in Nat /\ n \in 0..n
  OBVIOUS
<1>3. ASSUME cs # <<>>, ~Ignored(Last(cs), rules)
      PROVE  g[n] # <<>> /\ Last(g[n]) = Last(cs)
  <2>1. n \in 1..n /\ n - 1 \in 0..n /\ Last(cs) = cs[n] /\ cs[n] \in Text
    BY <1>3, ElementOfSeq DEF Last
  <2>2. Kept(cs, rules, n)
    BY <1>2, <1>3, <2>1 DEF Kept
  <2>3. g[n] = Append(g[n - 1], cs[n]) /\ g[n - 1] \in Seq(Text)
    BY <1>1, <2>1, <2>2
  <2> QED BY <2>1, <2>3, AppendProperties DEF Last
<1> QED BY <1>1, <1>2, <1>3

-----------------------------------------------------------------------------
(* The line editor keeps its cursor and its selection inside the line.     *)

(* A boundary lies between the cursor and the end it is searched for.      *)
(* Every boundary of LineEditor lies inside the line.                      *)
LEMMA BoundariesInside ==
  ASSUME NEW b \in Text, NEW p \in 0..Len(b)
  PROVE  /\ PrevWordBoundary(b, p) \in 0..p
         /\ NextWordBoundary(b, p) \in p..Len(b)
         /\ PrevGraphemeBoundary(b, p) \in 0..p
         /\ NextGraphemeBoundary(b, p) \in p..Len(b)
         /\ TokenStart(b, p) \in 0..p
<1> DEFINE n == Len(b)
<1>1. n \in Nat /\ p \in Nat /\ p <= n
  BY DEF Text
<1> HIDE DEF n
<1>2. \A q \in Nat : Blank(b, q, q) /\ Solid(b, q, q)
  BY DEF Blank, Solid
<1>3. ASSUME NEW q \in Nat, NEW S \in SUBSET (0..q), q \in S PROVE Min(S) \in 0..q
  <2>1. S \in SUBSET Nat /\ S # {}
    BY <1>3
  <2> QED BY <2>1, MinIsLeast
<1>4. ASSUME NEW q \in 0..n, NEW S \in SUBSET (q..n), S # {} PROVE Max(S) \in q..n
  <2>1. S \in SUBSET (0..n)
    BY <1>1
  <2> QED BY <1>1, <1>4, <2>1, MaxIsGreatest
<1>5. PrevWordBoundary(b, p) \in 0..p
  <2> DEFINE word == Min({i \in 0..p : Blank(b, i, p)})
  <2>1. word \in 0..p
    BY <1>1, <1>2, <1>3
  <2> HIDE DEF word
  <2>2. Min({i \in 0..word : Solid(b, i, word)}) \in 0..word
    BY <1>2, <1>3, <2>1
  <2> QED BY <2>1, <2>2 DEF PrevWordBoundary, word
<1>6. NextWordBoundary(b, p) \in p..n
  <2> DEFINE gap == Max({i \in p..n : Solid(b, p, i)})
  <2>1. p \in {i \in p..n : Solid(b, p, i)}
    BY <1>1, <1>2
  <2>2. gap \in p..n
    BY <1>1, <1>4, <2>1
  <2> HIDE DEF gap
  <2>3. gap \in {i \in gap..n : Blank(b, gap, i)} /\ gap \in 0..n
    BY <1>1, <1>2, <2>2
  <2>4. Max({i \in gap..n : Blank(b, gap, i)}) \in gap..n
    BY <1>4, <2>3
  <2> QED BY <1>1, <2>2, <2>4 DEF NextWordBoundary, gap, n
<1>7. PrevGraphemeBoundary(b, p) \in 0..p
  <2>1. CASE p = 0
    BY <2>1 DEF PrevGraphemeBoundary
  <2>2. CASE p # 0
    <3> DEFINE S == {i \in 0..(p - 1) : i = 0 \/ b[i + 1] # Mark}
    <3>1. 0 \in S /\ S \in SUBSET (0..p)
      BY <1>1, <2>2
    <3>2. Max(S) \in 0..p
      <4> HIDE DEF S
      <4> QED BY <1>1, <3>1, MaxIsGreatest
    <3> QED BY <2>2, <3>2 DEF PrevGraphemeBoundary
  <2> QED BY <2>1, <2>2
<1>8. NextGraphemeBoundary(b, p) \in p..n
  <2>1. CASE p >= n
    BY <1>1, <2>1 DEF NextGraphemeBoundary, n
  <2>2. CASE ~(p >= n)
    <3> DEFINE S == {i \in (p + 1)..n : i = n \/ b[i + 1] # Mark}
    <3>1. n \in S /\ S \in SUBSET Nat
      BY <1>1, <2>2
    <3>2. Min(S) \in S
      <4> HIDE DEF S
      <4> QED BY <3>1, MinIsLeast
    <3>3. Min(S) \in p..n
      BY <1>1, <3>2
    <3> QED BY <2>2, <3>3 DEF NextGraphemeBoundary, n
  <2> QED BY <2>1, <2>2
<1>9. TokenStart(b, p) \in 0..p
  BY <1>1, <1>2, <1>3 DEF TokenStart
<1> QED BY <1>5, <1>6, <1>7, <1>8, <1>9 DEF n

Sound(e, n) ==
  /\ e \in EditorState(Text)
  /\ e.cursor <= Len(e.buffer) /\ e.anchor <= Len(e.buffer) /\ e.anchor # e.cursor
  /\ e.index <= n

LEMMA WithoutTyped ==
  ASSUME NEW b \in Text, NEW j \in 0..Len(b), NEW i \in 0..j
  PROVE  Without(b, i, j) \in Text /\ Len(Without(b, i, j)) = i + (Len(b) - j)
<1>1. Len(b) \in Nat /\ i \in 0..Len(b) /\ b \in Seq(Glyph)
  BY DEF Text
<1>2. /\ SubSeq(b, 1, i) \in Seq(Glyph) /\ Len(SubSeq(b, 1, i)) = i
      /\ SubSeq(b, j + 1, Len(b)) \in Seq(Glyph) /\ Len(SubSeq(b, j + 1, Len(b))) = Len(b) - j
  BY <1>1
<1> QED BY <1>2, ConcatProperties DEF Without, Text

LEMMA SelectionInside ==
  ASSUME NEW n \in Nat, NEW e, Sound(e, n), Selecting(e)
  PROVE  /\ SelectionStart(e) \in 0..SelectionEnd(e) /\ SelectionEnd(e) \in 0..Len(e.buffer)
         /\ SelectionStart(e) < SelectionEnd(e)
         /\ e.buffer \in Text
<1> DEFINE S == {e.anchor, e.cursor}  m == Len(e.buffer)
<1>1. m \in Nat /\ e.buffer \in Text /\ e.anchor \in 0..m /\ e.cursor \in 0..m
      /\ e.anchor # e.cursor
  BY DEF Sound, EditorState, Selecting, NoAnchor, Text
<1>2. S \in SUBSET Nat /\ S \in SUBSET (0..m) /\ S # {}
  BY <1>1
<1> HIDE DEF m
<1>3. /\ Min(S) \in S /\ \A x \in S : Min(S) <= x
      /\ Max(S) \in S /\ \A x \in S : x <= Max(S)
  <2> HIDE DEF S
  <2> QED BY <1>1, <1>2, MinIsLeast, MaxIsGreatest
<1>4. Min(S) \in 0..Max(S) /\ Max(S) \in 0..m /\ Min(S) < Max(S)
  <2>1. e.anchor < e.cursor \/ e.cursor < e.anchor
    BY <1>1
  <2>2. Min(S) < Max(S) /\ Min(S) \in Nat /\ Max(S) \in Nat
    BY <1>1, <1>3, <2>1
  <2> QED BY <1>1, <1>3, <2>2
<1> QED BY <1>1, <1>4 DEF SelectionStart, SelectionEnd, m

LEMMA DeleteSelectionSound ==
  ASSUME NEW n \in Nat, NEW e, Sound(e, n)
  PROVE  /\ Sound(DeleteSelection(e), n) /\ DeleteSelection(e).anchor = NoAnchor
         /\ DeleteSelection(e).index = e.index
<1> DEFINE d == DeleteSelection(e)
<1>0. e \in EditorState(Text) /\ e.buffer \in Text /\ e.cursor \in Nat /\ e.cursor <= Len(e.buffer)
      /\ Len(e.buffer) \in Nat /\ e.index \in Nat /\ e.index <= n
  BY DEF Sound, EditorState, Text
<1>1. CASE Selecting(e)
  <2> DEFINE i == SelectionStart(e)  j == SelectionEnd(e)  w == Without(e.buffer, i, j)
  <2>1. i \in 0..j /\ j \in 0..Len(e.buffer)
    BY <1>1, SelectionInside
  <2>2. w \in Text /\ Len(w) = i + (Len(e.buffer) - j)
    BY <1>0, <2>1, WithoutTyped
  <2>3. d = [e EXCEPT !.buffer = w, !.cursor = i, !.anchor = NoAnchor]
    BY <1>1 DEF DeleteSelection
  <2>9. i \in Nat
    BY <2>1
  <2> HIDE DEF w, i, j, d
  <2>4. d \in EditorState(Text) /\ d.buffer = w /\ d.cursor = i /\ d.anchor = NoAnchor
        /\ d.index = e.index
    <3>1. e \in EditorState(Text) /\ w \in Text
      BY <1>0, <2>2
    <3> QED BY <2>3, <2>9, <3>1 DEF EditorState
  <2>5. i <= Len(w) /\ i \in Nat /\ Len(w) \in Nat
    BY <1>0, <2>1, <2>2
  <2> QED BY <1>0, <2>4, <2>5 DEF Sound, d, NoAnchor
<1>2. CASE ~Selecting(e)
  <2>1. d = [e EXCEPT !.anchor = NoAnchor]
    BY <1>2 DEF DeleteSelection
  <2> HIDE DEF d
  <2>2. d \in EditorState(Text) /\ d.buffer = e.buffer /\ d.cursor = e.cursor
        /\ d.anchor = NoAnchor /\ d.index = e.index
    BY <1>0, <2>1 DEF EditorState
  <2> QED BY <1>0, <2>2 DEF Sound, d, NoAnchor
<1> QED BY <1>1, <1>2

LEMMA MoveSound ==
  ASSUME NEW n \in Nat, NEW e, Sound(e, n), NEW d \in 0..Len(e.buffer)
  PROVE  Sound(MoveTo(e, d), n) /\ Sound(ExtendSelection(e, d), n)
<1>0. e \in EditorState(Text) /\ e.buffer \in Text /\ e.cursor \in Nat /\ e.cursor <= Len(e.buffer)
      /\ Len(e.buffer) \in Nat /\ e.index \in Nat /\ e.index <= n /\ d \in Nat /\ d <= Len(e.buffer)
      /\ e.anchor \in Nat \cup {NoAnchor} /\ e.anchor <= Len(e.buffer)
  BY DEF Sound, EditorState, Text
<1>1. Sound(MoveTo(e, d), n)
  <2> DEFINE m == MoveTo(e, d)
  <2>2. m \in EditorState(Text) /\ m.buffer = e.buffer /\ m.cursor = d
        /\ m.anchor = NoAnchor /\ m.index = e.index
    BY <1>0 DEF EditorState, MoveTo
  <2> HIDE DEF m
  <2>3. Sound(m, n)
    BY <1>0, <2>2 DEF Sound, NoAnchor
  <2> QED BY <2>3 DEF m
<1>2. Sound(ExtendSelection(e, d), n)
  <2> DEFINE m == ExtendSelection(e, d)
             from == IF e.anchor = NoAnchor THEN e.cursor ELSE e.anchor
             to == IF from = d THEN NoAnchor ELSE from
  <2>1. from \in Nat /\ from <= Len(e.buffer)
    BY <1>0
  <2> HIDE DEF from
  <2>2. to \in Nat \cup {NoAnchor} /\ to <= Len(e.buffer) /\ to # d
    BY <1>0, <2>1 DEF NoAnchor
  <2>3. m = [e EXCEPT !.cursor = d, !.anchor = to]
    BY DEF ExtendSelection, from
  <2> HIDE DEF m, to
  <2>4. m \in EditorState(Text) /\ m.buffer = e.buffer /\ m.cursor = d
        /\ m.anchor = to /\ m.index = e.index
    BY <1>0, <2>2, <2>3 DEF EditorState
  <2>5. Sound(m, n)
    BY <1>0, <2>2, <2>4 DEF Sound
  <2> QED BY <2>5 DEF m
<1> QED BY <1>1, <1>2

LEMMA DeleteToSound ==
  ASSUME NEW n \in Nat, NEW e, Sound(e, n), NEW j \in 0..Len(e.buffer), NEW i \in 0..j
  PROVE  Sound(DeleteTo(e, i, j), n)
<1>0. e \in EditorState(Text) /\ e.buffer \in Text
      /\ Len(e.buffer) \in Nat /\ e.index \in Nat /\ e.index <= n
  BY DEF Sound, EditorState, Text
<1>1. CASE Selecting(e)
  BY <1>1, DeleteSelectionSound DEF DeleteTo
<1>2. CASE ~Selecting(e)
  <2> DEFINE w == Without(e.buffer, i, j)  d == DeleteTo(e, i, j)
  <2>2. w \in Text /\ Len(w) = i + (Len(e.buffer) - j)
    BY <1>0, WithoutTyped
  <2>3. d = [e EXCEPT !.buffer = w, !.cursor = i, !.anchor = NoAnchor]
    BY <1>2 DEF DeleteTo
  <2>9. i \in Nat
    BY <1>0
  <2> HIDE DEF w, d
  <2>4. d \in EditorState(Text) /\ d.buffer = w /\ d.cursor = i /\ d.anchor = NoAnchor
        /\ d.index = e.index
    <3>1. e \in EditorState(Text) /\ w \in Text
      BY <1>0, <2>2
    <3> QED BY <2>3, <2>9, <3>1 DEF EditorState
  <2>5. i <= Len(w) /\ i \in Nat /\ Len(w) \in Nat
    BY <1>0, <2>2
  <2>6. Sound(d, n)
    BY <1>0, <2>4, <2>5 DEF Sound, NoAnchor
  <2> QED BY <2>6 DEF d
<1> QED BY <1>1, <1>2

LEMMA SoundParts ==
  ASSUME NEW n \in Nat, NEW e, Sound(e, n)
  PROVE  /\ e \in EditorState(Text) /\ e.buffer \in Text /\ e.buffer \in Seq(Glyph)
         /\ Len(e.buffer) \in Nat /\ e.cursor \in 0..Len(e.buffer)
         /\ e.index \in 0..n /\ e.saved \in Text
         /\ e.anchor \in Nat \cup {NoAnchor} /\ e.anchor <= Len(e.buffer)
         /\ e.anchor # e.cursor
BY DEF Sound, EditorState, Text

LEMMA EditedSound ==
  ASSUME NEW n \in Nat, NEW e, Sound(e, n), NEW k \in EditingKeys
  PROVE  Sound(Edited(e)[k], n)
<1>1. e.buffer \in Text /\ Len(e.buffer) \in Nat /\ e.cursor \in 0..Len(e.buffer)
  BY SoundParts
<1> DEFINE b == e.buffer  p == e.cursor
<1>2. /\ PrevWordBoundary(b, p) \in 0..p /\ PrevGraphemeBoundary(b, p) \in 0..p
      /\ NextGraphemeBoundary(b, p) \in p..Len(b)
  BY <1>1, BoundariesInside
<1>3. /\ 0 \in 0..p /\ Len(b) \in 0..Len(b) /\ p \in 0..Len(b)
      /\ NextGraphemeBoundary(b, p) \in 0..Len(b) /\ p \in 0..NextGraphemeBoundary(b, p)
  BY <1>1, <1>2
<1>4. /\ Sound(DeleteTo(e, 0, p), n) /\ Sound(DeleteTo(e, p, Len(b)), n)
      /\ Sound(DeleteTo(e, PrevWordBoundary(b, p), p), n)
      /\ Sound(DeleteTo(e, PrevGraphemeBoundary(b, p), p), n)
      /\ Sound(DeleteTo(e, p, NextGraphemeBoundary(b, p)), n)
  BY <1>1, <1>2, <1>3, DeleteToSound
<1> QED BY <1>4 DEF Edited, EditingKeys

LEMMA DestinationInside ==
  ASSUME NEW n \in Nat, NEW e, Sound(e, n), NEW k \in MovingKeys
  PROVE  Destination(e)[k] \in 0..Len(e.buffer)
<1>1. e.buffer \in Text /\ Len(e.buffer) \in Nat /\ e.cursor \in 0..Len(e.buffer)
  BY SoundParts
<1> DEFINE b == e.buffer  p == e.cursor
<1>2. /\ PrevWordBoundary(b, p) \in 0..p /\ PrevGraphemeBoundary(b, p) \in 0..p
      /\ NextGraphemeBoundary(b, p) \in p..Len(b) /\ NextWordBoundary(b, p) \in p..Len(b)
  BY <1>1, BoundariesInside
<1>3. /\ 0 \in 0..Len(b) /\ Len(b) \in 0..Len(b)
      /\ PrevWordBoundary(b, p) \in 0..Len(b) /\ PrevGraphemeBoundary(b, p) \in 0..Len(b)
      /\ NextGraphemeBoundary(b, p) \in 0..Len(b) /\ NextWordBoundary(b, p) \in 0..Len(b)
  BY <1>1, <1>2
<1> QED BY <1>3 DEF Destination, MovingKeys

LEMMA AroundCursor ==
  ASSUME NEW b \in Text, NEW j \in 0..Len(b), NEW i \in 0..j, NEW text \in Text
  PROVE  LET w == SubSeq(b, 1, i) \o text \o SubSeq(b, j + 1, Len(b))
         IN  w \in Text /\ Len(w) = i + Len(text) + (Len(b) - j)
<1>1. Len(b) \in Nat /\ i \in 0..Len(b) /\ b \in Seq(Glyph) /\ text \in Seq(Glyph)
  BY DEF Text
<1>2. /\ SubSeq(b, 1, i) \in Seq(Glyph) /\ Len(SubSeq(b, 1, i)) = i
      /\ SubSeq(b, j + 1, Len(b)) \in Seq(Glyph) /\ Len(SubSeq(b, j + 1, Len(b))) = Len(b) - j
  BY <1>1
<1>3. SubSeq(b, 1, i) \o text \in Seq(Glyph) /\ Len(SubSeq(b, 1, i) \o text) = i + Len(text)
  BY <1>1, <1>2, ConcatProperties
<1> DEFINE x == SubSeq(b, 1, i) \o text  y == SubSeq(b, j + 1, Len(b))
<1>4. /\ x \in Seq(Glyph) /\ y \in Seq(Glyph) /\ Len(x) = i + Len(text)
      /\ Len(y) = Len(b) - j
  BY <1>2, <1>3
<1>6. SubSeq(b, 1, i) \o text \o SubSeq(b, j + 1, Len(b)) = x \o y
  OBVIOUS
<1> HIDE DEF x, y
<1>5. x \o y \in Seq(Glyph) /\ Len(x \o y) = Len(x) + Len(y)
  BY <1>4, ConcatProperties
<1> QED BY <1>4, <1>5, <1>6 DEF Text

LEMMA InsertSound ==
  ASSUME NEW n \in Nat, NEW e, Sound(e, n), NEW text \in Text
  PROVE  Sound(InsertText(e, text), n)
<1> DEFINE d == DeleteSelection(e)
           w == SubSeq(d.buffer, 1, d.cursor) \o text
                  \o SubSeq(d.buffer, d.cursor + 1, Len(d.buffer))
           c == d.cursor + Len(text)
           r == InsertText(e, text)
<1>1. Sound(d, n) /\ d.anchor = NoAnchor
  BY DeleteSelectionSound
<1> HIDE DEF d
<1>2. d \in EditorState(Text) /\ d.buffer \in Text /\ Len(d.buffer) \in Nat
      /\ d.cursor \in 0..Len(d.buffer) /\ d.index \in 0..n
  BY <1>1, SoundParts
<1>3. Len(text) \in Nat /\ d.cursor \in 0..d.cursor
  BY <1>2 DEF Text
<1>4. w \in Text /\ Len(w) = d.cursor + Len(text) + (Len(d.buffer) - d.cursor)
  BY <1>2, <1>3, AroundCursor
<1>5. r = [d EXCEPT !.buffer = w, !.cursor = c]
  BY DEF InsertText, d
<1>6. c \in Nat /\ c <= Len(w) /\ Len(w) \in Nat /\ -1 # c
  BY <1>2, <1>3, <1>4
<1> HIDE DEF w, c, r
<1>7. w \in Text /\ c \in Nat /\ d \in EditorState(Text)
  BY <1>2, <1>4, <1>6
<1>8. /\ r \in EditorState(Text) /\ r.buffer = w /\ r.cursor = c /\ r.anchor = d.anchor
      /\ r.index = d.index
  BY <1>5, <1>7 DEF EditorState
<1>9. Sound(r, n)
  BY <1>1, <1>2, <1>6, <1>8 DEF Sound, NoAnchor
<1> QED BY <1>9 DEF r

LEMMA SingleLineTyped ==
  ASSUME NEW text \in Lines
  PROVE  SingleLine(text) \in Text /\ Len(SingleLine(text)) = Len(text)
<1>1. \A i \in 1..Len(text) : text[i] \in Characters /\ Len(text) \in Nat
  BY ElementOfSeq DEF Lines
<1>2. Space \in Glyph
  BY EditorAssumption DEF Space, Newline, Glyph
<1>3. SingleLine(text) \in [1..Len(text) -> Glyph]
  <2>1. DOMAIN text = 1..Len(text)
    BY DEF Lines
  <2> QED BY <1>1, <1>2, <2>1 DEF SingleLine, Glyph
<1>4. Len(text) \in Nat
  BY DEF Lines
<1> QED BY <1>3, <1>4, IsASeq DEF Text

LEMMA FreshSound ==
  ASSUME NEW recall \in Seq(Text)
  PROVE  Sound(FreshEditor(recall), Len(recall))
<1>1. <<>> \in Text /\ Len(recall) \in Nat /\ Len(<<>>) = 0
  BY DEF Text
<1> QED BY <1>1 DEF Sound, FreshEditor, EditorState, NoAnchor

LEMMA ClearedSound ==
  ASSUME NEW recall \in Seq(Text), NEW e, Sound(e, Len(recall))
  PROVE  Sound(Cleared(e, recall), Len(recall))
<1>1. <<>> \in Text /\ Len(recall) \in Nat /\ Len(<<>>) = 0
  BY DEF Text
<1>2. e.saved \in Text
  BY <1>1, SoundParts
<1> QED BY <1>1, <1>2 DEF Sound, Cleared, FreshEditor, EditorState, NoAnchor

LEMMA DroppedSound ==
  ASSUME NEW n \in Nat, NEW e, Sound(e, n)
  PROVE  Sound([e EXCEPT !.anchor = NoAnchor], n)
<1> DEFINE d == [e EXCEPT !.anchor = NoAnchor]
<1>1. e \in EditorState(Text) /\ e.buffer \in Text /\ Len(e.buffer) \in Nat
      /\ e.cursor \in 0..Len(e.buffer) /\ e.index \in 0..n
  BY SoundParts
<1>2. /\ d \in EditorState(Text) /\ d.buffer = e.buffer /\ d.cursor = e.cursor
      /\ d.anchor = NoAnchor /\ d.index = e.index
  BY <1>1 DEF EditorState
<1> HIDE DEF d
<1>3. Sound(d, n)
  BY <1>1, <1>2 DEF Sound, NoAnchor
<1> QED BY <1>3 DEF d

LEMMA RecallSound ==
  ASSUME NEW recall \in Seq(Text), NEW e, Sound(e, Len(recall))
  PROVE  Sound(Up(e, recall), Len(recall)) /\ Sound(Down(e, recall), Len(recall))
<1> DEFINE n == Len(recall)
<1>0. n \in Nat
  OBVIOUS
<1>1. e \in EditorState(Text) /\ e.buffer \in Text /\ e.index \in 0..n /\ e.saved \in Text
  BY <1>0, SoundParts
<1>2. ASSUME NEW i \in 0..n, NEW line \in Text, NEW saved \in Text, NEW d,
             d = [e EXCEPT !.saved = saved, !.index = i, !.buffer = line, !.cursor = Len(line),
                           !.anchor = NoAnchor]
      PROVE  Sound(d, n)
  <2>1. Len(line) \in Nat /\ i \in Nat
    BY <1>0 DEF Text
  <2>2. /\ d \in EditorState(Text) /\ d.buffer = line /\ d.cursor = Len(line)
        /\ d.anchor = NoAnchor /\ d.index = i
    BY <1>1, <1>2, <2>1 DEF EditorState
  <2> QED BY <1>0, <2>1, <2>2 DEF Sound, NoAnchor
<1>3. Sound(Up(e, recall), n)
  <2>1. CASE e.index = 0
    BY <2>1 DEF Up
  <2>2. CASE e.index # 0
    <3> DEFINE line == recall[e.index]
               saved == IF e.index = n THEN e.buffer ELSE e.saved
               d == Up(e, recall)
    <3>1. e.index - 1 \in 0..n /\ line \in Text /\ saved \in Text
      BY <1>0, <1>1, <2>2, ElementOfSeq
    <3>2. d = [e EXCEPT !.saved = saved, !.index = e.index - 1, !.buffer = line,
                        !.cursor = Len(line), !.anchor = NoAnchor]
      BY <2>2 DEF Up
    <3> HIDE DEF line, saved, d, n
    <3>3. Sound(d, n)
      BY <1>2, <3>1, <3>2
    <3> QED BY <3>3 DEF d
  <2> QED BY <2>1, <2>2
<1>4. Sound(Down(e, recall), n)
  <2>1. CASE e.index >= n
    BY <2>1 DEF Down
  <2>2. CASE ~(e.index >= n)
    <3> DEFINE i == e.index + 1
               line == IF i = n THEN e.saved ELSE recall[i + 1]
               saved == e.saved
               d == Down(e, recall)
    <3>1. i \in 0..n /\ line \in Text /\ saved \in Text
      <4>1. i \in 0..n /\ (i # n => i + 1 \in 1..n)
        BY <1>0, <1>1, <2>2
      <4> QED BY <1>1, <4>1, ElementOfSeq
    <3>2. d = [e EXCEPT !.saved = saved, !.index = i, !.buffer = line,
                        !.cursor = Len(line), !.anchor = NoAnchor]
      BY <1>1, <2>2 DEF Down, EditorState
    <3> HIDE DEF line, saved, d, n, i
    <3>3. Sound(d, n)
      BY <1>2, <3>1, <3>2
    <3> QED BY <3>3 DEF d
  <2> QED BY <2>1, <2>2
<1> QED BY <1>3, <1>4

LEMMA AddHistoryTyped ==
  ASSUME NEW recall \in Seq(Text), NEW line \in Text
  PROVE  AddHistory(recall, line) \in Seq(Text)
BY AppendProperties DEF AddHistory

LEMMA CompletionTyped ==
  ASSUME NEW token \in Text, NEW first
  PROVE  CompletionOf(token, first) \in Text
<1> DEFINE words == IF first /\ ~LooksLikePath(token) THEN Builtins \cup Paths ELSE Paths
           matches == {w \in words : IsPrefix(token, w)}
           common == LongestCommonPrefix(matches)
<1>1. \A w \in matches : w \in Text
  BY EditorAssumption, TextIsLines
<1>2. \/ CompletionOf(token, first) = token
      \/ matches # {} /\ CompletionOf(token, first) = common
  <2>1. CompletionOf(token, first) =
          IF matches = {} \/ Len(common) <= Len(token) THEN token ELSE common
    BY DEF CompletionOf
  <2> HIDE DEF matches, common
  <2> QED BY <2>1
<1> HIDE DEF matches
<1>3. ASSUME matches # {} PROVE common \in Text
  <2>1. PICK w \in matches : TRUE
    BY <1>3
  <2>2. w \in Text /\ Len(w) \in Nat
    BY <1>1 DEF Text
  <2> DEFINE C == CommonPrefixes(matches)
             L == {Len(c) : c \in C}
  <2>3. \A c \in C : c \in Text /\ Len(c) \in 0..Len(w)
    <3> TAKE c \in C
    <3>1. PICK v \in matches : c \in Prefixes(v)
      BY DEF CommonPrefixes
    <3>2. PICK l \in 0..Len(v) : c = SubSeq(v, 1, l)
      BY <3>1 DEF Prefixes
    <3>3. v \in Seq(Glyph) /\ Len(v) \in Nat
      BY <1>1, <3>1 DEF Text
    <3>4. c \in Text /\ Len(c) \in Nat
      <4>1. SubSeq(v, 1, l) \in Seq(Glyph) /\ Len(SubSeq(v, 1, l)) \in Nat
        BY <3>2, <3>3
      <4> QED BY <3>2, <4>1 DEF Text
    <3>5. Len(c) <= Len(w)
      BY <2>1 DEF CommonPrefixes, IsPrefix
    <3> QED BY <2>2, <3>4, <3>5
  <2>4. <<>> \in C
    <3>1. \A v \in matches : <<>> = SubSeq(v, 1, 0) /\ IsPrefix(<<>>, v) /\ 0 \in 0..Len(v)
      <4> TAKE v \in matches
      <4>1. v \in Seq(Glyph) /\ Len(v) \in Nat
        BY <1>1 DEF Text
      <4>2. SubSeq(v, 1, 0) = <<>> /\ Len(<<>>) = 0 /\ SubSeq(<<>>, 1, 0) = <<>>
        BY <4>1, SubSeqEmpty
      <4> QED BY <4>1, <4>2 DEF IsPrefix
    <3>2. <<>> \in Prefixes(w)
      BY <2>1, <3>1 DEF Prefixes
    <3> QED BY <2>1, <3>1, <3>2 DEF CommonPrefixes
  <2> HIDE DEF C
  <2>5. L \in SUBSET (0..Len(w)) /\ L # {}
    BY <2>3, <2>4
  <2>6. Max(L) \in L /\ \A x \in L : x <= Max(L)
    <3> HIDE DEF L
    <3> QED BY <2>2, <2>5, MaxIsGreatest
  <2>7. \E c \in C : \A o \in C : Len(o) <= Len(c)
    <3>1. PICK c \in C : Max(L) = Len(c)
      BY <2>6
    <3>2. \A o \in C : Len(o) \in L
      OBVIOUS
    <3>3. \A o \in C : Len(o) <= Len(c)
      <4> HIDE DEF L
      <4> QED BY <2>6, <3>1, <3>2
    <3> QED BY <3>1, <3>3
  <2>8. common = CHOOSE c \in C : \A o \in C : Len(o) <= Len(c)
    BY DEF LongestCommonPrefix, C
  <2>9. common \in C
    <3> HIDE DEF common
    <3> QED BY <2>7, <2>8
  <2> QED BY <2>3, <2>9
<1> HIDE DEF common
<1> QED BY <1>2, <1>3

LEMMA CompleteSound ==
  ASSUME NEW n \in Nat, NEW e, Sound(e, n)
  PROVE  Sound(Complete(e), n)
<1> DEFINE d == DeleteSelection(e)
           start == TokenStart(d.buffer, d.cursor)
           token == SubSeq(d.buffer, start + 1, d.cursor)
           word == CompletionOf(token, Blank(d.buffer, 0, start))
           w == SubSeq(d.buffer, 1, start) \o word \o SubSeq(d.buffer, d.cursor + 1, Len(d.buffer))
           c == start + Len(word)
           r == Complete(e)
<1>1. Sound(d, n) /\ d.anchor = NoAnchor
  BY DeleteSelectionSound
<1> HIDE DEF d
<1>2. d \in EditorState(Text) /\ d.buffer \in Text /\ d.buffer \in Seq(Glyph)
      /\ Len(d.buffer) \in Nat /\ d.cursor \in 0..Len(d.buffer) /\ d.index \in 0..n
  BY <1>1, SoundParts
<1>3. start \in 0..d.cursor
  BY <1>2, BoundariesInside
<1> HIDE DEF start
<1>4. token \in Text
  <2>1. token \in Seq(Glyph)
    BY <1>2, <1>3
  <2> QED BY <2>1 DEF Text
<1> HIDE DEF token
<1>5. word \in Text
  BY <1>4, CompletionTyped
<1> HIDE DEF word
<1>6. w \in Text /\ Len(w) = start + Len(word) + (Len(d.buffer) - d.cursor) /\ Len(word) \in Nat
  <2>1. Len(word) \in Nat
    BY <1>5 DEF Text
  <2> QED BY <1>2, <1>3, <1>5, <2>1, AroundCursor
<1>7. c \in Nat /\ c <= Len(w) /\ Len(w) \in Nat /\ -1 # c
  BY <1>2, <1>3, <1>6
<1>8. r = d \/ r = [d EXCEPT !.buffer = w, !.cursor = c]
  BY DEF Complete, d, start, token, word
<1> HIDE DEF w, c, r
<1>9. CASE r = d
  BY <1>1, <1>9 DEF r
<1>10. CASE r = [d EXCEPT !.buffer = w, !.cursor = c]
  <2>1. w \in Text /\ c \in Nat /\ d \in EditorState(Text)
    BY <1>2, <1>6, <1>7
  <2>2. /\ r \in EditorState(Text) /\ r.buffer = w /\ r.cursor = c /\ r.anchor = d.anchor
        /\ r.index = d.index
    BY <1>10, <2>1 DEF EditorState
  <2>3. Sound(r, n)
    BY <1>1, <1>2, <1>7, <2>2 DEF Sound, NoAnchor
  <2> QED BY <2>3 DEF r
<1> QED BY <1>8, <1>9, <1>10

-----------------------------------------------------------------------------
(* The invariant, and the actions that keep it.                            *)

(* A shell, whatever it is doing.                                          *)
ShellType ==
  [at : Places, config : Config, session : Shells \X Nat, recall : Seq(Text),
   editor : EditorState(Text), body : Seq(Text), depth : Int, accepted : Seq(Text),
   leaving : BOOLEAN, compacted : Seq(FileLine)]

Holding == {"compact", "replace"}

(* What holds of a shell by itself.                                        *)
Fine(r, configs) ==
  /\ r \in ShellType /\ r.config \in configs
  /\ Sound(r.editor, Len(r.recall))
  /\ r.at \in {"run", "append"} => r.accepted # <<>>
  /\ r.at = "block" => r.body # <<>>

(* A shell about to replace the file has written the newest records of the *)
(* file as it still is.                                                    *)
Compacts(r, f) ==
  /\ Len(ParseRecords(f)) > r.config.fileSize
  /\ r.compacted = SerializeRecords(RetainLatest(ParseRecords(f), r.config.fileSize))

(* The rest of the state: the scenario, and the clipboard.                 *)
WellBegun == IsScenario(budget) /\ clipboard \in Lines

(* The file reads back as the end of the log, and as enough of it.         *)
FileKept ==
  /\ file \in Seq(FileLine) /\ ReadFile(file).time = NoTime
  /\ log \in Seq(Record)
  /\ Ends(ParseRecords(file), log)
  /\ Len(ParseRecords(file)) >= Len(log) \/ Len(ParseRecords(file)) >= SmallestLimit

Running ==
  /\ shell = [s \in Shells |-> shell[s]]
  /\ \A s \in Shells : Fine(shell[s], budget.configs)

(* At most one shell holds the mutex, and it is the one that compacts.     *)
Locking ==
  /\ lock \subseteq Shells
  /\ \A s, t \in lock : s = t
  /\ \A s \in Shells : s \in lock <=> shell[s].at \in Holding
  /\ \A s \in Shells : shell[s].at = "replace" => Compacts(shell[s], file)

Inv == WellBegun /\ FileKept /\ Running /\ Locking

Budgeted == IsScenario(budget)' /\ budget'.configs = budget.configs

(* A step of one shell keeps the invariant if its own new state is fine and *)
(* the file changes only while no other shell holds the mutex.             *)
LEMMA StepKeeps ==
  ASSUME Inv, NEW s \in Shells, NEW r, Put(s, r), Fine(r, budget.configs), Budgeted,
         clipboard' \in Lines, FileKept', lock' \subseteq Shells,
         \A t \in Shells \ {s} : t \in lock' <=> t \in lock,
         s \in lock' <=> r.at \in Holding,
         s \in lock' => lock \subseteq {s},
         file' = file \/ lock \subseteq {s},
         r.at = "replace" => Compacts(r, file')
  PROVE  Inv'
<1>1. shell' = [t \in Shells |-> IF t = s THEN r ELSE shell[t]]
  BY DEF Put, Inv, Running
<1>2. Running'
  <2>1. \A t \in Shells : Fine(shell'[t], budget.configs)
    BY <1>1 DEF Inv, Running
  <2>2. shell' = [t \in Shells |-> shell'[t]]
    BY <1>1
  <2> QED BY <2>1, <2>2 DEF Running, Budgeted
<1>3. Locking'
  <2>1. \A t, u \in lock' : t = u
    <3>1. \A t, u \in lock : t = u
      BY DEF Inv, Locking
    <3>2. CASE s \in lock'
      BY <3>2
    <3>3. CASE s \notin lock'
      BY <3>1, <3>3
    <3> QED BY <3>2, <3>3
  <2>2. \A t \in Shells : t \in lock' <=> shell'[t].at \in Holding
    BY <1>1 DEF Inv, Locking
  <2>3. \A t \in Shells : shell'[t].at = "replace" => Compacts(shell'[t], file')
    <3> SUFFICES ASSUME NEW t \in Shells, shell'[t].at = "replace"
                 PROVE Compacts(shell'[t], file')
      OBVIOUS
    <3>1. CASE t = s
      BY <1>1, <3>1
    <3>2. CASE t # s
      <4>1. shell'[t] = shell[t]
        BY <1>1, <3>2
      <4>2. t \in lock /\ Compacts(shell[t], file)
        BY <4>1 DEF Inv, Locking, Holding
      <4>3. file' = file
        BY <3>2, <4>2
      <4> QED BY <4>1, <4>2, <4>3
    <3> QED BY <3>1, <3>2
  <2> QED BY <2>1, <2>2, <2>3 DEF Locking
<1>4. WellBegun'
  BY DEF WellBegun, Budgeted
<1> QED BY <1>2, <1>3, <1>4 DEF Inv

LEMMA SmallestStays ==
  ASSUME Budgeted
  PROVE  SmallestLimit' = SmallestLimit
BY DEF SmallestLimit, Budgeted

LEMMA KeptStays ==
  ASSUME Inv, Budgeted, UNCHANGED <<file, log>>
  PROVE  FileKept'
<1>1. SmallestLimit' = SmallestLimit
  BY SmallestStays
<1>2. FileKept
  BY DEF Inv
<1> QED BY <1>1, <1>2 DEF FileKept

(* A step of a shell that neither takes nor holds the mutex.               *)
LEMMA AloneKeeps ==
  ASSUME Inv, NEW s \in Shells, NEW r, Put(s, r), Fine(r, budget.configs), Budgeted,
         clipboard' \in Lines, UNCHANGED <<file, lock, log>>,
         shell[s].at \notin Holding, r.at \notin Holding
  PROVE  Inv'
<1>1. FileKept'
  BY KeptStays
<1>2. s \notin lock /\ lock \subseteq Shells
  BY DEF Inv, Locking
<1>3. r.at # "replace"
  BY DEF Holding
<1> QED BY <1>1, <1>2, <1>3, StepKeeps

LEMMA ScenarioParts ==
  ASSUME IsScenario(budget)
  PROVE  /\ budget.configs \subseteq Config /\ budget.configs # {}
         /\ budget.texts \subseteq Lines
         /\ budget.lines \in Nat /\ budget.keys \in Nat /\ budget.faults \in Nat
BY DEF IsScenario

LEMMA BudgetStays ==
  ASSUME Inv, UNCHANGED budget
  PROVE  Budgeted
<1>1. IsScenario(budget)
  BY DEF Inv, WellBegun
<1>2. IsScenario(budget')
  BY <1>1
<1>3. IsScenario(budget)'
  BY <1>2 DEF IsScenario
<1> QED BY <1>3 DEF Budgeted

LEMMA SpendKeeps ==
  ASSUME Inv, NEW what \in {"keys", "lines", "faults"}, Spend(what)
  PROVE  Budgeted
<1>1. IsScenario(budget)
  BY DEF Inv, WellBegun
<1>2. budget[what] \in Nat /\ budget[what] > 0
  BY <1>1, ScenarioParts DEF Spend
<1>3. budget[what] - 1 \in Nat
  BY <1>2
<1>4. budget' = [budget EXCEPT ![what] = budget[what] - 1]
  BY DEF Spend
<1> DEFINE left == budget[what] - 1
<1>5. budget \in [lines : Nat, keys : Nat, faults : Nat, texts : SUBSET Lines,
                  file : {budget.file}, clipboard : Lines, configs : SUBSET Config,
                  typists : SUBSET Shells]
      /\ budget.configs # {} /\ IsHistoryFile(budget.file)
  BY <1>1 DEF IsScenario
<1> HIDE DEF left
<1>6. budget' \in [lines : Nat, keys : Nat, faults : Nat, texts : SUBSET Lines,
                  file : {budget.file}, clipboard : Lines, configs : SUBSET Config,
                  typists : SUBSET Shells]
      /\ budget'.configs = budget.configs /\ budget'.file = budget.file
  <2>1. CASE what = "keys"
    BY <1>3, <1>4, <1>5, <2>1
  <2>2. CASE what = "lines"
    BY <1>3, <1>4, <1>5, <2>2
  <2>3. CASE what = "faults"
    BY <1>3, <1>4, <1>5, <2>3
  <2> QED BY <2>1, <2>2, <2>3
<1>7. IsScenario(budget)'
  BY <1>5, <1>6 DEF IsScenario
<1> QED BY <1>6, <1>7 DEF Budgeted

LEMMA ShellParts ==
  ASSUME Inv, NEW s \in Shells
  PROVE  /\ Fine(shell[s], budget.configs) /\ shell[s] \in ShellType
         /\ shell[s].config \in budget.configs /\ shell[s].config \in Config
         /\ shell[s].session \in Shells \X Nat
         /\ shell[s].recall \in Seq(Text) /\ Len(shell[s].recall) \in Nat
         /\ Sound(shell[s].editor, Len(shell[s].recall))
         /\ shell[s].editor \in EditorState(Text) /\ Buffer(s) \in Text
         /\ shell[s].body \in Seq(Text) /\ shell[s].depth \in Int
         /\ shell[s].accepted \in Seq(Text) /\ shell[s].leaving \in BOOLEAN
         /\ shell[s].compacted \in Seq(FileLine) /\ shell[s].at \in Places
<1>1. Fine(shell[s], budget.configs)
  BY DEF Inv, Running
<1>2. shell[s] \in ShellType /\ shell[s].config \in budget.configs
      /\ Sound(shell[s].editor, Len(shell[s].recall))
  BY <1>1 DEF Fine
<1>3. shell[s].editor \in EditorState(Text)
  BY <1>2 DEF ShellType
<1>4. Buffer(s) \in Text
  BY <1>3 DEF EditorState, Buffer
<1> QED BY <1>1, <1>2, <1>3, <1>4 DEF ShellType

LEMMA TypedKeeps ==
  ASSUME Inv, NEW s \in Shells, AtEditor(s), NEW e, Sound(e, Len(shell[s].recall)),
         Typed(s, e), Budgeted, clipboard' \in Lines
  PROVE  Inv'
<1> DEFINE r == [shell[s] EXCEPT !.editor = e]
<1>1. e \in EditorState(Text)
  BY DEF Sound
<1>2. /\ shell[s] \in ShellType /\ Fine(shell[s], budget.configs)
  BY ShellParts
<1>3. /\ r \in ShellType /\ r.editor = e /\ r.recall = shell[s].recall
      /\ r.config = shell[s].config /\ r.at = shell[s].at /\ r.accepted = shell[s].accepted
      /\ r.body = shell[s].body
  BY <1>1, <1>2 DEF ShellType
<1>4. Put(s, r) /\ UNCHANGED <<file, lock, log>>
  BY DEF Typed
<1>5. shell[s].at \notin Holding
  BY DEF AtEditor, Holding
<1> HIDE DEF r
<1>6. Fine(r, budget.configs)
  BY <1>2, <1>3 DEF Fine
<1> QED BY <1>3, <1>4, <1>5, <1>6, AloneKeeps

LEMMA KeysKeep ==
  ASSUME Inv, NEW s \in Shells,
         \/ EditKey(s) \/ MoveKey(s) \/ RecallKey(s) \/ CharKey(s) \/ TabKey(s)
  PROVE  Inv'
<1> DEFINE e == shell[s].editor  recall == shell[s].recall  n == Len(recall)
<1>1. Sound(e, n) /\ n \in Nat /\ recall \in Seq(Text)
  BY ShellParts
<1>2. AtEditor(s) /\ Spend("keys") /\ UNCHANGED clipboard
  BY DEF EditKey, MoveKey, RecallKey, CharKey, TabKey
<1>3. Budgeted /\ clipboard' \in Lines
  BY <1>2, SpendKeeps DEF Inv, WellBegun
<1> HIDE DEF e, recall, n
<1>4. \E d : Sound(d, n) /\ Typed(s, d)
  <2>1. CASE EditKey(s)
    <3>1. PICK k \in EditingKeys : Typed(s, Edited(e)[k])
      BY <2>1 DEF EditKey, e
    <3> QED BY <1>1, <3>1, EditedSound
  <2>2. CASE MoveKey(s)
    <3>1. PICK k \in MovingKeys : \/ Typed(s, MoveTo(e, Destination(e)[k]))
                                  \/ Typed(s, ExtendSelection(e, Destination(e)[k]))
      BY <2>2 DEF MoveKey, e
    <3>2. Destination(e)[k] \in 0..Len(e.buffer)
      BY <1>1, DestinationInside
    <3>3. /\ Sound(MoveTo(e, Destination(e)[k]), n)
          /\ Sound(ExtendSelection(e, Destination(e)[k]), n)
      BY <1>1, <3>2, MoveSound
    <3> QED BY <3>1, <3>3
  <2>3. CASE RecallKey(s)
    <3>1. Typed(s, Up(e, recall)) \/ Typed(s, Down(e, recall))
      BY <2>3 DEF RecallKey, e, recall
    <3>2. Sound(Up(e, recall), n) /\ Sound(Down(e, recall), n)
      BY <1>1, RecallSound DEF n
    <3> QED BY <3>1, <3>2
  <2>4. CASE CharKey(s)
    <3>1. PICK c \in Keys \ (EditingKeys \cup MovingKeys) : Typed(s, InsertText(e, <<c>>))
      BY <2>4 DEF CharKey, e
    <3>2. c \in Glyph
      BY HistoryAssumption DEF Glyph
    <3>3. <<c>> \in Text
      BY <3>2 DEF Text
    <3> QED BY <1>1, <3>1, <3>3, InsertSound
  <2>5. CASE TabKey(s)
    BY <1>1, <2>5, CompleteSound DEF TabKey, e
  <2> QED BY <2>1, <2>2, <2>3, <2>4, <2>5
<1>5. PICK d : Sound(d, n) /\ Typed(s, d)
  BY <1>4
<1> QED BY <1>2, <1>3, <1>5, TypedKeeps DEF n, recall

LEMMA SelectedTyped ==
  ASSUME NEW n \in Nat, NEW e, Sound(e, n), Selecting(e)
  PROVE  SelectedText(e) \in Text
<1> DEFINE i == SelectionStart(e)  j == SelectionEnd(e)
<1>1. i \in 0..j /\ j \in 0..Len(e.buffer) /\ e.buffer \in Text
  BY SelectionInside
<1>2. e.buffer \in Seq(Glyph) /\ Len(e.buffer) \in Nat
  BY <1>1 DEF Text
<1> HIDE DEF i, j
<1>3. SubSeq(e.buffer, i + 1, j) \in Seq(Glyph)
  BY <1>1, <1>2
<1> QED BY <1>3 DEF SelectedText, Text, i, j

LEMMA ClipboardKeysKeep ==
  ASSUME Inv, NEW s \in Shells,
         \/ Paste(s) \/ CopyKey(s) \/ CutKey(s) \/ PasteKey(s) \/ EscKey(s)
  PROVE  Inv'
<1> DEFINE e == shell[s].editor  recall == shell[s].recall  n == Len(recall)
<1>1. Sound(e, n) /\ n \in Nat /\ recall \in Seq(Text)
  BY ShellParts
<1>2. AtEditor(s)
  BY DEF Paste, CopyKey, CutKey, PasteKey, EscKey
<1>3. Budgeted
  <2>1. Spend("keys") \/ UNCHANGED budget
    BY DEF Paste, CopyKey, CutKey, PasteKey, EscKey
  <2> QED BY <2>1, SpendKeeps, BudgetStays
<1>4. clipboard \in Lines /\ Text \subseteq Lines
  BY TextIsLines DEF Inv, WellBegun
<1>5. Sound(Cleared(e, recall), n)
  BY <1>1, ClearedSound
<1> HIDE DEF e, recall, n
<1>6. \E d : Sound(d, n) /\ Typed(s, d) /\ clipboard' \in Lines
  <2>1. CASE Paste(s)
    <3>1. PICK t \in budget.texts : Typed(s, InsertText(e, SingleLine(t)))
      BY <2>1 DEF Paste, e
    <3>2. t \in Lines
      BY ScenarioParts DEF Inv, WellBegun
    <3>3. SingleLine(t) \in Text /\ UNCHANGED clipboard
      BY <2>1, <3>2, SingleLineTyped DEF Paste
    <3> QED BY <1>1, <1>4, <3>1, <3>3, InsertSound
  <2>2. CASE CopyKey(s)
    <3>1. CASE Selecting(e)
      <4>1. Typed(s, e) /\ clipboard' \in {SelectedText(e), clipboard}
        BY <2>2, <3>1 DEF CopyKey, e
      <4>2. SelectedText(e) \in Text
        BY <1>1, <3>1, SelectedTyped
      <4> QED BY <1>1, <1>4, <4>1, <4>2
    <3>2. CASE ~Selecting(e)
      BY <1>4, <1>5, <2>2, <3>2 DEF CopyKey, e, recall
    <3> QED BY <3>1, <3>2
  <2>3. CASE CutKey(s)
    <3>1. Selecting(e) /\ clipboard' = SelectedText(e) /\ Typed(s, DeleteSelection(e))
      BY <2>3 DEF CutKey, e
    <3>2. SelectedText(e) \in Text /\ Sound(DeleteSelection(e), n)
      BY <1>1, <3>1, SelectedTyped, DeleteSelectionSound
    <3> QED BY <1>4, <3>1, <3>2
  <2>4. CASE PasteKey(s)
    <3>1. SingleLine(clipboard) \in Text
      BY <1>4, SingleLineTyped
    <3>2. Sound(InsertText(e, SingleLine(clipboard)), n)
      BY <1>1, <3>1, InsertSound
    <3> QED BY <1>4, <2>4, <3>2 DEF PasteKey, e
  <2>5. CASE EscKey(s)
    <3>1. UNCHANGED clipboard /\ (Typed(s, [e EXCEPT !.anchor = NoAnchor])
                                  \/ Typed(s, Cleared(e, recall)))
      BY <2>5 DEF EscKey, e, recall
    <3>2. Sound([e EXCEPT !.anchor = NoAnchor], n)
      BY <1>1, DroppedSound
    <3> QED BY <1>4, <1>5, <3>1, <3>2
  <2> QED BY <2>1, <2>2, <2>3, <2>4, <2>5
<1>7. PICK d : Sound(d, n) /\ Typed(s, d) /\ clipboard' \in Lines
  BY <1>6
<1> QED BY <1>2, <1>3, <1>7, TypedKeeps DEF n, recall

LEMMA LoadTyped ==
  ASSUME Inv, NEW c \in Config
  PROVE  Load(c) \in Seq(Text)
<1>1. CommandsOf(ParseRecords(file)) \in Seq(Text)
  BY ReadTyped, CommandsTyped DEF Inv, FileKept
<1>2. ApplyIgnoreRules(CommandsOf(ParseRecords(file)), c.ignore) \in Seq(Text)
  BY <1>1, RulesLeave
<1>3. c.size \in Nat
  BY DEF Config
<1> QED BY <1>2, <1>3, RetainedAre DEF Load

LEMMA RefreshKeeps ==
  ASSUME Inv, NEW s \in Shells, Refresh(s)
  PROVE  Inv'
<1> DEFINE c == shell[s].config
           recall == IF c.enabled THEN Load(c) ELSE shell[s].recall
           r == [shell[s] EXCEPT !.at = "typing", !.recall = recall,
                                 !.editor = FreshEditor(recall)]
<1>1. shell[s] \in ShellType /\ c \in budget.configs /\ c \in Config
      /\ shell[s].recall \in Seq(Text)
  BY ShellParts
<1>2. recall \in Seq(Text)
  BY <1>1, LoadTyped
<1>3. Put(s, r) /\ UNCHANGED <<file, lock, log, clipboard, budget>> /\ shell[s].at = "prompt"
  BY DEF Refresh
<1> HIDE DEF recall
<1>4. Sound(FreshEditor(recall), Len(recall))
  BY <1>2, FreshSound
<1>5. FreshEditor(recall) \in EditorState(Text)
  BY <1>4 DEF Sound
<1>6. /\ r \in ShellType /\ r.editor = FreshEditor(recall) /\ r.recall = recall
      /\ r.config = c /\ r.at = "typing"
  BY <1>1, <1>2, <1>5 DEF ShellType, Places
<1> HIDE DEF r
<1>7. Fine(r, budget.configs)
  BY <1>1, <1>4, <1>6 DEF Fine
<1>8. Budgeted /\ clipboard' \in Lines
  BY <1>3, BudgetStays DEF Inv, WellBegun
<1>9. shell[s].at \notin Holding /\ r.at \notin Holding
  BY <1>3, <1>6 DEF Holding
<1> QED BY <1>3, <1>7, <1>8, <1>9, AloneKeeps

Entered(s, r, recall) ==
  /\ Put(s, r) /\ r \in ShellType /\ r.editor = FreshEditor(recall)
  /\ r.recall = recall /\ r.config = shell[s].config
  /\ r.at \in {"prompt", "block", "run"}
  /\ r.at = "run" => r.accepted # <<>>
  /\ r.at = "block" => r.body # <<>>

LEMMA EntersKeep ==
  ASSUME Inv, NEW s \in Shells, EnterLine(s) \/ EnterBlockLine(s)
  PROVE  Inv'
<1> DEFINE line == Buffer(s)
           recall == AddHistory(shell[s].recall, line)
           d == shell[s].depth + (IF FirstWord(line) = Opener THEN 1
                                  ELSE IF FirstWord(line) = End THEN -1 ELSE 0)
<1>1. shell[s] \in ShellType /\ shell[s].config \in budget.configs
      /\ shell[s].recall \in Seq(Text) /\ line \in Text /\ shell[s].body \in Seq(Text)
      /\ shell[s].depth \in Int
  BY ShellParts
<1>2. recall \in Seq(Text)
  BY <1>1, AddHistoryTyped
<1>3. d \in Int
  BY <1>1
<1>4. Spend("lines") /\ UNCHANGED <<file, lock, log, clipboard>>
      /\ shell[s].at \in {"typing", "block"}
  BY DEF EnterLine, EnterBlockLine
<1> HIDE DEF recall, line, d
<1>5. Sound(FreshEditor(recall), Len(recall))
  BY <1>2, FreshSound
<1>6. FreshEditor(recall) \in EditorState(Text)
  BY <1>5 DEF Sound
<1>7. Budgeted /\ clipboard' \in Lines
  BY <1>4, SpendKeeps DEF Inv, WellBegun
<1> DEFINE q == [shell[s] EXCEPT !.recall = recall, !.editor = FreshEditor(recall)]
           w == [shell[s] EXCEPT !.recall = recall, !.editor = FreshEditor(recall), !.depth = d]
<1>8. /\ q \in ShellType /\ q.editor = FreshEditor(recall) /\ q.recall = recall
      /\ q.config = shell[s].config
  BY <1>1, <1>2, <1>6 DEF ShellType
<1>9. /\ w \in ShellType /\ w.editor = FreshEditor(recall) /\ w.recall = recall
      /\ w.config = shell[s].config /\ w.at = shell[s].at /\ w.body = shell[s].body
  BY <1>1, <1>2, <1>3, <1>6 DEF ShellType
<1>10. <<line>> \in Seq(Text) /\ <<line>> # <<>>
  BY <1>1
<1>11. shell[s].at = "block" => shell[s].body # <<>>
  BY ShellParts DEF Fine
<1>12. Append(shell[s].body, line) \in Seq(Text) /\ Append(shell[s].body, line) # <<>>
  BY <1>1, AppendProperties
<1>13. \E r : Entered(s, r, recall)
  <2>1. CASE EnterLine(s)
    <3> DEFINE one == <<line>>
               a == [q EXCEPT !.at = "prompt"]
               b == [q EXCEPT !.at = "block", !.body = one, !.depth = 1]
               c == [q EXCEPT !.at = "run", !.accepted = one]
    <3>1. Put(s, a) \/ Put(s, b) \/ Put(s, c)
      <4>1. Put(s, CASE IsBlank(line) -> a [] FirstWord(line) = Opener -> b [] OTHER -> c)
        BY <2>1 DEF EnterLine, line, recall
      <4> HIDE DEF a, b, c
      <4> QED BY <4>1
    <3>8. one \in Seq(Text) /\ one # <<>> /\ q \in ShellType
      BY <1>8, <1>10
    <3> HIDE DEF q, one
    <3>2. /\ a \in ShellType /\ a.editor = FreshEditor(recall) /\ a.recall = recall
          /\ a.config = shell[s].config /\ a.at = "prompt"
      BY <1>8 DEF ShellType, Places
    <3>3. /\ b \in ShellType /\ b.editor = FreshEditor(recall) /\ b.recall = recall
          /\ b.config = shell[s].config /\ b.at = "block" /\ b.body = one
      <4> DEFINE deep == 1
                 block == "block"
      <4>1. deep \in Int /\ block \in Places
        BY DEF Places
      <4>2. b = [q EXCEPT !.at = block, !.body = one, !.depth = deep]
        OBVIOUS
      <4> HIDE DEF deep, b
      <4>3. b \in ShellType
        BY <3>8, <4>1, <4>2 DEF ShellType
      <4>4. /\ b.editor = q.editor /\ b.recall = q.recall /\ b.config = q.config
            /\ b.at = block /\ b.body = one
        BY <3>8, <4>2 DEF ShellType
      <4> QED BY <1>8, <4>3, <4>4
    <3>4. /\ c \in ShellType /\ c.editor = FreshEditor(recall) /\ c.recall = recall
          /\ c.config = shell[s].config /\ c.at = "run" /\ c.accepted = one
      BY <1>8, <3>8 DEF ShellType, Places
    <3> HIDE DEF a, b, c
    <3>5. CASE Put(s, a)
      BY <3>2, <3>5 DEF Entered
    <3>6. CASE Put(s, b)
      BY <3>3, <3>6, <3>8 DEF Entered
    <3>7. CASE Put(s, c)
      BY <3>4, <3>7, <3>8 DEF Entered
    <3> QED BY <3>1, <3>5, <3>6, <3>7
  <2>2. CASE EnterBlockLine(s)
    <3> DEFINE body == shell[s].body
               a == [w EXCEPT !.at = "run", !.accepted = body, !.body = <<>>]
               b == [w EXCEPT !.body = Append(w.body, line)]
    <3>0. shell[s].at = "block" /\ shell[s].body # <<>>
      BY <1>11, <2>2 DEF EnterBlockLine
    <3>1. Put(s, a) \/ Put(s, b)
      <4>1. Put(s, IF d = 0 THEN a ELSE b)
        BY <1>9, <2>2 DEF EnterBlockLine, line, recall, d
      <4> HIDE DEF a, b
      <4> QED BY <4>1
    <3>8. body \in Seq(Text) /\ <<>> \in Seq(Text) /\ w \in ShellType
      BY <1>1, <1>9
    <3> HIDE DEF w, body
    <3>2. /\ a \in ShellType /\ a.editor = FreshEditor(recall) /\ a.recall = recall
          /\ a.config = shell[s].config /\ a.at = "run" /\ a.accepted = body
      BY <1>9, <3>8 DEF ShellType, Places
    <3>3. /\ b \in ShellType /\ b.editor = FreshEditor(recall) /\ b.recall = recall
          /\ b.config = shell[s].config /\ b.at = "block" /\ b.body = Append(shell[s].body, line)
      BY <1>9, <1>12, <3>0 DEF ShellType, Places
    <3> HIDE DEF a, b
    <3>5. CASE Put(s, a)
      BY <3>0, <3>2, <3>5 DEF Entered, body
    <3>6. CASE Put(s, b)
      BY <1>12, <3>3, <3>6 DEF Entered
    <3> QED BY <3>1, <3>5, <3>6
  <2> QED BY <2>1, <2>2
<1>14. PICK r : Entered(s, r, recall)
  BY <1>13
<1>15. Fine(r, budget.configs)
  BY <1>1, <1>5, <1>14 DEF Fine, Entered
<1>16. shell[s].at \notin Holding /\ r.at \notin Holding
  BY <1>4, <1>14 DEF Holding, Entered
<1> QED BY <1>4, <1>7, <1>14, <1>15, <1>16, AloneKeeps DEF Entered

Ready(r, configs) ==
  r \in ShellType /\ r.config \in configs /\ Sound(r.editor, Len(r.recall))

LEMMA LeftFine ==
  ASSUME NEW configs, NEW r, Ready(r, configs)
  PROVE  Fine(Left(r), configs) /\ Left(r).at \notin Holding
<1> DEFINE at == IF r.leaving THEN "gone" ELSE "prompt"
           q == Left(r)
<1>1. r \in ShellType /\ <<>> \in Seq(Text) /\ at \in Places
  BY DEF Ready, Places
<1>2. q = [r EXCEPT !.at = at, !.accepted = <<>>]
  BY DEF Left
<1>3. at \in {"gone", "prompt"}
  OBVIOUS
<1> HIDE DEF at, q
<1>4. /\ q \in ShellType /\ q.at = at /\ q.config = r.config /\ q.editor = r.editor
      /\ q.recall = r.recall
  BY <1>1, <1>2 DEF ShellType
<1>5. Fine(q, configs) /\ q.at \notin Holding
  BY <1>3, <1>4 DEF Fine, Ready, Holding
<1> QED BY <1>5 DEF q

LEMMA DispatchedFine ==
  ASSUME NEW configs, NEW r, Ready(r, configs)
  PROVE  Fine(Dispatched(r), configs) /\ Dispatched(r).at \notin Holding
<1> DEFINE kept == ApplyIgnoreRules(r.accepted, r.config.ignore)
           q == [r EXCEPT !.at = "append", !.accepted = kept]
<1>1. r \in ShellType /\ r.accepted \in Seq(Text)
  BY DEF Ready, ShellType
<1>2. kept \in Seq(Text)
  BY <1>1, RulesLeave
<1>3. Dispatched(r) = Left(r) \/ (kept # <<>> /\ Dispatched(r) = q)
  BY DEF Dispatched
<1> HIDE DEF kept
<1>4. /\ q \in ShellType /\ q.at = "append" /\ q.config = r.config /\ q.editor = r.editor
      /\ q.recall = r.recall /\ q.accepted = kept
  BY <1>1, <1>2 DEF ShellType, Places
<1> HIDE DEF q
<1>5. kept # <<>> => Fine(q, configs) /\ q.at \notin Holding
  BY <1>4 DEF Fine, Ready, Holding
<1>6. CASE Dispatched(r) = Left(r)
  BY <1>6, LeftFine
<1>7. CASE kept # <<>> /\ Dispatched(r) = q
  BY <1>5, <1>7
<1> QED BY <1>3, <1>6, <1>7

LEMMA ReleasedFine ==
  ASSUME NEW configs, NEW r, Ready(r, configs)
  PROVE  Fine(Released(r), configs) /\ Released(r).at \notin Holding
<1> DEFINE q == [r EXCEPT !.compacted = <<>>]
<1>1. r \in ShellType /\ <<>> \in Seq(FileLine)
  BY DEF Ready
<1>2. q \in ShellType /\ q.config = r.config /\ q.editor = r.editor /\ q.recall = r.recall
  BY <1>1 DEF ShellType
<1>4. Released(r) = Dispatched(q) \/ Released(r) = Left(q)
  BY DEF Released
<1> HIDE DEF q
<1>3. Ready(q, configs)
  BY <1>2 DEF Ready
<1> QED BY <1>3, <1>4, DispatchedFine, LeftFine

LEMMA ShellReady ==
  ASSUME Inv, NEW s \in Shells
  PROVE  Ready(shell[s], budget.configs)
BY ShellParts DEF Ready

LEMMA EndOfInputKeeps ==
  ASSUME Inv, NEW s \in Shells, EndOfInput(s)
  PROVE  Inv'
<1> DEFINE body == shell[s].body
           zero == 0
           a == [shell[s] EXCEPT !.at = "gone"]
           b == [shell[s] EXCEPT !.at = "run", !.accepted = body, !.body = <<>>, !.depth = zero]
<1>1. /\ shell[s] \in ShellType /\ shell[s].config \in budget.configs /\ body \in Seq(Text)
      /\ Sound(shell[s].editor, Len(shell[s].recall)) /\ <<>> \in Seq(Text) /\ zero \in Int
      /\ shell[s].at = "block" => body # <<>>
  BY ShellParts DEF Fine
<1>2. Spend("keys") /\ UNCHANGED <<file, lock, log, clipboard>>
      /\ shell[s].at \in {"typing", "block"}
      /\ Put(s, IF shell[s].at = "typing" THEN a ELSE b)
  BY DEF EndOfInput, AtEditor
<1>3. Budgeted /\ clipboard' \in Lines
  BY <1>2, SpendKeeps DEF Inv, WellBegun
<1> HIDE DEF body, zero
<1>4. /\ a \in ShellType /\ a.at = "gone" /\ a.config = shell[s].config
      /\ a.editor = shell[s].editor /\ a.recall = shell[s].recall
  BY <1>1 DEF ShellType, Places
<1>5. /\ b \in ShellType /\ b.at = "run" /\ b.config = shell[s].config
      /\ b.editor = shell[s].editor /\ b.recall = shell[s].recall /\ b.accepted = body
  <2> DEFINE run == "run"
  <2>1. b = [shell[s] EXCEPT !.at = run, !.accepted = body, !.body = <<>>, !.depth = zero]
        /\ run \in Places
    BY DEF Places
  <2> HIDE DEF b
  <2> QED BY <1>1, <2>1 DEF ShellType
<1> HIDE DEF a, b
<1>6. shell[s].at \notin Holding /\ a.at \notin Holding /\ b.at \notin Holding
  BY <1>2, <1>4, <1>5 DEF Holding
<1>7. CASE shell[s].at = "typing"
  <2>1. Fine(a, budget.configs) /\ Put(s, a)
    BY <1>1, <1>2, <1>4, <1>7 DEF Fine
  <2> QED BY <1>2, <1>3, <1>6, <2>1, AloneKeeps
<1>8. CASE shell[s].at = "block"
  <2>1. Fine(b, budget.configs) /\ Put(s, b)
    BY <1>1, <1>2, <1>5, <1>8 DEF Fine
  <2> QED BY <1>2, <1>3, <1>6, <2>1, AloneKeeps
<1> QED BY <1>2, <1>7, <1>8

LEMMA AbortKeeps ==
  ASSUME Inv, NEW s \in Shells, AbortBlock(s)
  PROVE  Inv'
<1> DEFINE zero == 0
           b == [shell[s] EXCEPT !.at = "prompt", !.body = <<>>, !.depth = zero]
<1>1. /\ shell[s] \in ShellType /\ shell[s].config \in budget.configs
      /\ Sound(shell[s].editor, Len(shell[s].recall)) /\ <<>> \in Seq(Text) /\ zero \in Int
  BY ShellParts
<1>2. Spend("keys") /\ UNCHANGED <<file, lock, log, clipboard>> /\ shell[s].at = "block"
      /\ Put(s, b)
  BY DEF AbortBlock
<1>3. Budgeted /\ clipboard' \in Lines
  BY <1>2, SpendKeeps DEF Inv, WellBegun
<1> HIDE DEF zero
<1>5. /\ b \in ShellType /\ b.at = "prompt" /\ b.config = shell[s].config
      /\ b.editor = shell[s].editor /\ b.recall = shell[s].recall
  <2> DEFINE at == "prompt"
  <2>1. b = [shell[s] EXCEPT !.at = at, !.body = <<>>, !.depth = zero] /\ at \in Places
    BY DEF Places
  <2> HIDE DEF b
  <2> QED BY <1>1, <2>1 DEF ShellType
<1> HIDE DEF b
<1>6. shell[s].at \notin Holding /\ b.at \notin Holding
  BY <1>2, <1>5 DEF Holding
<1>7. Fine(b, budget.configs)
  BY <1>1, <1>5 DEF Fine
<1> QED BY <1>2, <1>3, <1>6, <1>7, AloneKeeps

LEMMA ExecuteKeeps ==
  ASSUME Inv, NEW s \in Shells, Execute(s)
  PROVE  Inv'
<1>1. Ready(shell[s], budget.configs)
  BY ShellReady
<1>2. PICK leaving \in BOOLEAN : Put(s, Dispatched([shell[s] EXCEPT !.leaving = leaving]))
  BY DEF Execute
<1>3. UNCHANGED <<file, lock, log, clipboard, budget>> /\ shell[s].at = "run"
  BY DEF Execute
<1> DEFINE r == [shell[s] EXCEPT !.leaving = leaving]
<1>4. /\ r \in ShellType /\ r.config = shell[s].config /\ r.editor = shell[s].editor
      /\ r.recall = shell[s].recall
  BY <1>1 DEF Ready, ShellType
<1> HIDE DEF r
<1>5. Ready(r, budget.configs)
  BY <1>1, <1>4 DEF Ready
<1>6. Fine(Dispatched(r), budget.configs) /\ Dispatched(r).at \notin Holding
  BY <1>5, DispatchedFine
<1>7. Put(s, Dispatched(r))
  BY <1>2 DEF r
<1>8. Budgeted /\ clipboard' \in Lines /\ shell[s].at \notin Holding
  BY <1>3, BudgetStays DEF Inv, WellBegun, Holding
<1> QED BY <1>3, <1>6, <1>7, <1>8, AloneKeeps

LEMMA AppendFailsKeeps ==
  ASSUME Inv, NEW s \in Shells, AppendFails(s)
  PROVE  Inv'
<1>1. Ready(shell[s], budget.configs)
  BY ShellReady
<1>2. UNCHANGED <<file, lock, log, clipboard>> /\ shell[s].at = "append" /\ Spend("faults")
      /\ Put(s, Left(shell[s]))
  BY DEF AppendFails
<1>3. Fine(Left(shell[s]), budget.configs) /\ Left(shell[s]).at \notin Holding
  BY <1>1, LeftFine
<1>4. Budgeted /\ clipboard' \in Lines /\ shell[s].at \notin Holding
  BY <1>2, SpendKeeps DEF Inv, WellBegun, Holding
<1> QED BY <1>2, <1>3, <1>4, AloneKeeps

LEMMA EndsTransitive ==
  ASSUME NEW V, NEW a \in Seq(V), NEW b \in Seq(V), NEW c \in Seq(V), Ends(a, b), Ends(b, c)
  PROVE  Ends(a, c)
<1> DEFINE i == Len(a)  j == Len(b)  k == Len(c)
<1>1. i \in Nat /\ j \in Nat /\ k \in Nat
  OBVIOUS
<1>2. i <= j /\ j <= k /\ (\A x \in 1..i : a[x] = b[j - i + x])
      /\ (\A x \in 1..j : b[x] = c[k - j + x])
  BY DEF Ends
<1> HIDE DEF i, j, k
<1>3. ASSUME NEW x \in 1..i PROVE a[x] = c[k - i + x]
  <2> DEFINE y == j - i + x
  <2>1. y \in 1..j /\ k - j + y = k - i + x
    BY <1>1, <1>2
  <2>2. a[x] = b[y]
    BY <1>2
  <2> HIDE DEF y
  <2> QED BY <1>2, <2>1, <2>2
<1>4. i <= k
  BY <1>1, <1>2
<1> QED BY <1>3, <1>4 DEF Ends, i, k

LEMMA EndsExtend ==
  ASSUME NEW V, NEW a \in Seq(V), NEW b \in Seq(V), NEW m \in Seq(V), Ends(a, b)
  PROVE  Ends(a \o m, b \o m)
<1> DEFINE i == Len(a)  j == Len(b)  k == Len(m)  am == a \o m  bm == b \o m
<1>1. i \in Nat /\ j \in Nat /\ k \in Nat
  OBVIOUS
<1>2. i <= j /\ (\A x \in 1..i : a[x] = b[j - i + x])
  BY DEF Ends
<1>3. /\ Len(am) = i + k /\ \A x \in 1..(i + k) : am[x] = IF x <= i THEN a[x] ELSE m[x - i]
      /\ Len(bm) = j + k /\ \A x \in 1..(j + k) : bm[x] = IF x <= j THEN b[x] ELSE m[x - j]
  BY ConcatProperties
<1> HIDE DEF i, j, k, am, bm
<1>4. ASSUME NEW x \in 1..(i + k) PROVE am[x] = bm[(j + k) - (i + k) + x]
  <2> DEFINE y == j - i + x
  <2>1. y \in 1..(j + k) /\ (j + k) - (i + k) + x = y
    BY <1>1, <1>2
  <2>2. CASE x <= i
    <3>1. y <= j /\ a[x] = b[y]
      BY <1>1, <1>2, <2>2
    <3> HIDE DEF y
    <3> QED BY <1>3, <2>1, <2>2, <3>1
  <2>3. CASE ~(x <= i)
    <3>1. ~(y <= j) /\ y - j = x - i
      BY <1>1, <1>2, <2>3
    <3> HIDE DEF y
    <3> QED BY <1>3, <2>1, <2>3, <3>1
  <2> QED BY <2>2, <2>3
<1>5. Len(am) <= Len(bm)
  BY <1>1, <1>2, <1>3
<1>6. Ends(am, bm)
  BY <1>3, <1>4, <1>5 DEF Ends
<1> QED BY <1>6 DEF am, bm

LEMMA CompactCommandKeeps ==
  ASSUME Inv, NEW s \in Shells, CompactCommand(s)
  PROVE  Inv'
<1> DEFINE r == [shell[s] EXCEPT !.at = "compact"]
<1>1. shell[s] \in ShellType /\ Ready(shell[s], budget.configs)
  BY ShellParts, ShellReady
<1>2. /\ r \in ShellType /\ r.at = "compact" /\ r.config = shell[s].config
      /\ r.editor = shell[s].editor /\ r.recall = shell[s].recall
  BY <1>1 DEF ShellType, Places
<1>3. Put(s, r) /\ UNCHANGED <<file, log, clipboard, budget>> /\ lock = {} /\ lock' = {s}
  BY DEF CompactCommand, Free
<1> HIDE DEF r
<1>4. Fine(r, budget.configs)
  BY <1>1, <1>2 DEF Fine, Ready
<1>5. Budgeted /\ clipboard' \in Lines
  BY <1>3, BudgetStays DEF Inv, WellBegun
<1>6. FileKept'
  BY <1>3, <1>5, KeptStays
<1>7. r.at \in Holding /\ r.at # "replace"
  BY <1>2 DEF Holding
<1> QED BY <1>3, <1>4, <1>5, <1>6, <1>7, StepKeeps

LEMMA HoldsAlone ==
  ASSUME Inv, NEW s \in Shells, shell[s].at \in Holding
  PROVE  s \in lock /\ lock \subseteq {s}
BY DEF Inv, Locking

LEMMA CompactLockedKeeps ==
  ASSUME Inv, NEW s \in Shells, CompactLocked(s)
  PROVE  Inv'
<1> DEFINE records == ParseRecords(file)
           limit == shell[s].config.fileSize
           made == SerializeRecords(RetainLatest(records, limit))
           r == [shell[s] EXCEPT !.at = "replace", !.compacted = made]
<1>1. shell[s] \in ShellType /\ Ready(shell[s], budget.configs) /\ shell[s].config \in Config
  BY ShellParts, ShellReady
<1>2. records \in Seq(Record) /\ limit \in Nat /\ Len(records) \in Nat
  BY <1>1, ReadTyped DEF Inv, FileKept, Config
<1>3. made \in Seq(FileLine)
  BY <1>2, RetainedAre, RecordsReadBack
<1>4. UNCHANGED <<file, log, clipboard, budget>> /\ shell[s].at = "compact"
  BY DEF CompactLocked
<1>5. Budgeted /\ clipboard' \in Lines
  BY <1>4, BudgetStays DEF Inv, WellBegun
<1>6. FileKept'
  BY <1>4, <1>5, KeptStays
<1>7. s \in lock /\ lock \subseteq {s} /\ lock \subseteq Shells
  BY <1>4, HoldsAlone DEF Holding, Inv, Locking
<1>8. CASE Len(records) <= limit
  <2>1. lock' = lock \ {s} /\ Put(s, Released(shell[s]))
    BY <1>8 DEF CompactLocked
  <2>2. Fine(Released(shell[s]), budget.configs) /\ Released(shell[s]).at \notin Holding
    BY <1>1, ReleasedFine
  <2>3. Released(shell[s]).at # "replace"
    BY <2>2 DEF Holding
  <2> QED BY <1>4, <1>5, <1>6, <1>7, <2>1, <2>2, <2>3, StepKeeps
<1>9. CASE ~(Len(records) <= limit)
  <2>1. UNCHANGED lock /\ Put(s, r)
    BY <1>9 DEF CompactLocked
  <2> HIDE DEF made
  <2>2. /\ r \in ShellType /\ r.at = "replace" /\ r.config = shell[s].config
        /\ r.editor = shell[s].editor /\ r.recall = shell[s].recall /\ r.compacted = made
    BY <1>1, <1>3 DEF ShellType, Places
  <2> HIDE DEF r
  <2>3. Fine(r, budget.configs)
    BY <1>1, <2>2 DEF Fine, Ready
  <2>4. Compacts(r, file)
    BY <1>2, <1>9, <2>2 DEF Compacts, made
  <2>5. r.at \in Holding /\ Compacts(r, file')
    BY <1>4, <2>2, <2>4 DEF Holding
  <2> QED BY <1>4, <1>5, <1>6, <1>7, <2>1, <2>3, <2>5, StepKeeps
<1> QED BY <1>8, <1>9

LEMMA CompactFailsKeeps ==
  ASSUME Inv, NEW s \in Shells, CompactFails(s)
  PROVE  Inv'
<1>1. Ready(shell[s], budget.configs)
  BY ShellReady
<1>2. /\ UNCHANGED <<file, log, clipboard>> /\ shell[s].at \in Holding /\ Spend("faults")
      /\ lock' = lock \ {s} /\ Put(s, Released(shell[s]))
  BY DEF CompactFails, Holding
<1>3. Budgeted /\ clipboard' \in Lines
  BY <1>2, SpendKeeps DEF Inv, WellBegun
<1>4. FileKept'
  BY <1>2, <1>3, KeptStays
<1>5. lock \subseteq Shells
  BY DEF Inv, Locking
<1>6. Fine(Released(shell[s]), budget.configs) /\ Released(shell[s]).at \notin Holding
  BY <1>1, ReleasedFine
<1>7. Released(shell[s]).at # "replace"
  BY <1>6 DEF Holding
<1> QED BY <1>2, <1>3, <1>4, <1>5, <1>6, <1>7, StepKeeps

LEMMA CrashKeeps ==
  ASSUME Inv, NEW s \in Shells, Crash(s)
  PROVE  Inv'
<1>1. shell[s].session \in Shells \X Nat
  BY ShellParts
<1>2. /\ UNCHANGED <<file, log, clipboard>> /\ Spend("faults") /\ lock' = lock \ {s}
  BY DEF Crash
<1>3. PICK c \in budget.configs : Put(s, NewShell(s, c, shell[s].session[2] + 1))
  BY DEF Crash
<1> DEFINE r == NewShell(s, c, shell[s].session[2] + 1)
<1>4. c \in Config
  BY ScenarioParts DEF Inv, WellBegun
<1>5. <<>> \in Seq(Text) /\ <<>> \in Seq(FileLine) /\ 0 \in Int
      /\ <<s, shell[s].session[2] + 1>> \in Shells \X Nat
  BY <1>1
<1>6. Sound(FreshEditor(<<>>), Len(<<>>))
  BY <1>5, FreshSound
<1>7. FreshEditor(<<>>) \in EditorState(Text)
  BY <1>6 DEF Sound
<1>8. r \in ShellType /\ r.at = "prompt" /\ r.config = c /\ r.recall = <<>>
      /\ r.editor = FreshEditor(<<>>)
  BY <1>4, <1>5, <1>7 DEF NewShell, ShellType, Places
<1> HIDE DEF r
<1>9. Fine(r, budget.configs) /\ r.at \notin Holding /\ r.at # "replace"
  BY <1>6, <1>8 DEF Fine, Holding
<1>10. Budgeted /\ clipboard' \in Lines
  BY <1>2, SpendKeeps DEF Inv, WellBegun
<1>11. FileKept'
  BY <1>2, <1>10, KeptStays
<1>12. lock \subseteq Shells
  BY DEF Inv, Locking
<1>13. Put(s, r)
  BY <1>3 DEF r
<1> QED BY <1>2, <1>9, <1>10, <1>11, <1>12, <1>13, StepKeeps

LEMMA SmallestIsLeast ==
  ASSUME IsScenario(budget), NEW c \in budget.configs
  PROVE  SmallestLimit \in Nat /\ SmallestLimit <= c.fileSize
<1> DEFINE S == {d.fileSize : d \in budget.configs}
<1>1. S \in SUBSET Nat /\ S # {} /\ c.fileSize \in S
  BY ScenarioParts DEF Config
<1> HIDE DEF S
<1>2. Min(S) \in S /\ \A x \in S : Min(S) <= x
  BY <1>1, MinIsLeast
<1> QED BY <1>1, <1>2 DEF SmallestLimit, S

LEMMA ReplaceFileKeeps ==
  ASSUME Inv, NEW s \in Shells, ReplaceFile(s)
  PROVE  Inv'
<1> DEFINE records == ParseRecords(file)
           limit == shell[s].config.fileSize
           kept == RetainLatest(records, limit)
<1>1. Ready(shell[s], budget.configs) /\ shell[s].config \in Config
      /\ shell[s].config \in budget.configs
  BY ShellParts, ShellReady
<1>2. records \in Seq(Record) /\ limit \in Nat /\ Len(records) \in Nat /\ log \in Seq(Record)
      /\ Ends(records, log)
  BY <1>1, ReadTyped DEF Inv, FileKept, Config
<1>3. /\ UNCHANGED <<log, clipboard, budget>> /\ shell[s].at = "replace"
      /\ lock' = lock \ {s} /\ Put(s, Released(shell[s])) /\ file' = shell[s].compacted
  BY DEF ReplaceFile
<1>4. Len(records) > limit /\ file' = SerializeRecords(kept)
  BY <1>3 DEF Inv, Locking, Compacts
<1>5. /\ kept \in Seq(Record) /\ Len(kept) = limit
      /\ \A i \in 1..limit : kept[i] = records[Len(records) - limit + i]
  <2> HIDE DEF records, limit
  <2>1. Excess(records, limit) = Len(records) - limit
    BY <1>4 DEF Excess
  <2>2. Len(records) - Excess(records, limit) = limit
    BY <1>2, <2>1
  <2>3. /\ kept \in Seq(Record) /\ Len(kept) = Len(records) - Excess(records, limit)
        /\ \A i \in 1..(Len(records) - Excess(records, limit)) :
             kept[i] = records[Excess(records, limit) + i]
    BY <1>2, RetainedAre
  <2> HIDE DEF kept
  <2> QED BY <2>1, <2>2, <2>3
<1> HIDE DEF kept, records, limit
<1>6. Ends(kept, log)
  <2>1. Ends(kept, records)
    BY <1>2, <1>4, <1>5 DEF Ends
  <2> QED BY <1>2, <1>5, <2>1, EndsTransitive
<1>7. file' \in Seq(FileLine) /\ ReadFile(file').time = NoTime /\ ParseRecords(file') = kept
  BY <1>4, <1>5, RecordsReadBack
<1>8. Budgeted /\ clipboard' \in Lines
  BY <1>3, BudgetStays DEF Inv, WellBegun
<1>9. SmallestLimit' <= limit
  BY <1>1, <1>8, SmallestIsLeast, SmallestStays DEF Inv, WellBegun, limit
<1>10. FileKept'
  <2>1. Len(ParseRecords(file')) >= SmallestLimit'
    BY <1>1, <1>5, <1>7, <1>8, <1>9, SmallestIsLeast, SmallestStays, <1>2 DEF Inv, WellBegun
  <2> QED BY <1>2, <1>3, <1>6, <1>7, <2>1 DEF FileKept
<1>11. lock \subseteq Shells /\ lock \subseteq {s}
  BY <1>3, HoldsAlone DEF Inv, Locking, Holding
<1>12. Fine(Released(shell[s]), budget.configs) /\ Released(shell[s]).at \notin Holding
  BY <1>1, ReleasedFine
<1>13. Released(shell[s]).at # "replace"
  BY <1>12 DEF Holding
<1> QED BY <1>3, <1>8, <1>10, <1>11, <1>12, <1>13, StepKeeps

LEMMA AppendBatchKeeps ==
  ASSUME Inv, NEW s \in Shells, AppendBatch(s)
  PROVE  Inv'
<1> DEFINE records == ParseRecords(file)
           bs == Batch(shell[s])
           r == [shell[s] EXCEPT !.at = "compact", !.accepted = <<>>]
           accepted == shell[s].accepted
           session == shell[s].session
<1>1. Ready(shell[s], budget.configs) /\ shell[s] \in ShellType
      /\ accepted \in Seq(Text) /\ session \in Sessions
  BY ShellParts, ShellReady DEF Sessions
<1>2. records \in Seq(Record) /\ Len(records) \in Nat /\ log \in Seq(Record)
      /\ Ends(records, log) /\ file \in Seq(FileLine) /\ ReadFile(file).time = NoTime
      /\ Len(log) \in Nat
  BY ReadTyped DEF Inv, FileKept
<1>3. /\ UNCHANGED <<clipboard, budget>> /\ shell[s].at = "append" /\ lock = {} /\ lock' = {s}
      /\ file' = file \o BatchLines(s) /\ log' = log \o bs /\ Put(s, r)
  BY DEF AppendBatch, Free
<1>4. accepted # <<>>
  BY <1>3, ShellParts DEF Fine
<1>5. /\ bs \in Seq(Record) /\ bs # <<>> /\ DOMAIN bs = DOMAIN accepted
      /\ \A i \in 1..Len(bs) : bs[i].session = session
  <2> DEFINE n == Len(accepted)
             time == IF shell[s].config.timestamped THEN Len(log) + 1 ELSE NoTime
  <2>1. n \in Nat /\ n # 0 /\ DOMAIN accepted = 1..n /\ \A i \in 1..n : accepted[i] \in Text
    BY <1>1, <1>4, ElementOfSeq
  <2>2. time \in Nat
    BY <1>2 DEF NoTime
  <2>3. bs = [i \in 1..n |-> [time |-> time, session |-> session, command |-> accepted[i]]]
    BY <2>1 DEF Batch
  <2> HIDE DEF n, time, session, accepted, bs
  <2>4. bs \in [1..n -> Record] /\ \A i \in 1..n : bs[i].session = session
    BY <1>1, <2>1, <2>2, <2>3 DEF Record
  <2>5. bs \in Seq(Record) /\ Len(bs) = n
    BY <2>1, <2>4, IsASeq
  <2> QED BY <2>1, <2>4, <2>5
<1>6. BatchLines(s) = <<SessionLine(session)>> \o BatchText(bs)
  BY <1>5 DEF BatchLines, BatchText
<1> HIDE DEF bs, session, accepted, records
<1>7. /\ file' \in Seq(FileLine) /\ ReadFile(file').time = NoTime
      /\ ParseRecords(file') = records \o bs
  <2> DEFINE after == file \o (<<SessionLine(session)>> \o BatchText(bs))
  <2>1. after \in Seq(FileLine) /\ ReadFile(after).time = NoTime
        /\ ParseRecords(after) = ParseRecords(file) \o bs
    BY <1>1, <1>2, <1>5, BatchReadsBack
  <2>2. file' = after
    BY <1>3, <1>6
  <2> HIDE DEF after
  <2> QED BY <2>1, <2>2 DEF records
<1>8. log' \in Seq(Record) /\ Ends(records \o bs, log')
  BY <1>2, <1>3, <1>5, EndsExtend, ConcatProperties
<1>9. Budgeted /\ clipboard' \in Lines
  BY <1>3, BudgetStays DEF Inv, WellBegun
<1>10. FileKept'
  <2>1. Len(records) >= Len(log) \/ Len(records) >= SmallestLimit
    BY DEF Inv, FileKept, records
  <2>2. Len(records \o bs) = Len(records) + Len(bs) /\ Len(log') = Len(log) + Len(bs)
        /\ Len(bs) \in Nat
    BY <1>2, <1>3, <1>5, ConcatProperties
  <2>3. PICK c \in budget.configs : TRUE
    BY ScenarioParts DEF Inv, WellBegun
  <2>4. SmallestLimit \in Nat /\ SmallestLimit' = SmallestLimit
    BY <1>9, <2>3, SmallestIsLeast, SmallestStays DEF Inv, WellBegun
  <2>5. Len(records \o bs) >= Len(log') \/ Len(records \o bs) >= SmallestLimit'
    BY <1>2, <2>1, <2>2, <2>4
  <2> QED BY <1>7, <1>8, <2>5 DEF FileKept
<1>11. /\ r \in ShellType /\ r.at = "compact" /\ r.config = shell[s].config
       /\ r.editor = shell[s].editor /\ r.recall = shell[s].recall
  <2>1. <<>> \in Seq(Text) /\ "compact" \in Places
    BY DEF Places
  <2> QED BY <1>1, <2>1 DEF ShellType
<1> HIDE DEF r
<1>12. Fine(r, budget.configs) /\ r.at \in Holding /\ r.at # "replace"
  BY <1>1, <1>11 DEF Fine, Ready, Holding
<1> QED BY <1>3, <1>9, <1>10, <1>12, StepKeeps

-----------------------------------------------------------------------------
(* What the invariant gives.                                               *)

LEMMA HistoryFileTyped ==
  ASSUME NEW f, IsHistoryFile(f)
  PROVE  f \in Seq(FileLine) /\ ReadFile(f).time = NoTime
<1>1. f \in Seq(Range(f)) /\ ReadFile(f).time = NoTime /\ \A i \in DOMAIN f : IsFileLine(f[i])
  BY DEF IsHistoryFile
<1>2. ASSUME NEW l, IsFileLine(l) PROVE l \in FileLine
  <2>1. CASE l = SessionLine(l.of) /\ l.of \in Sessions
    BY <2>1 DEF SessionLine, FileLine
  <2>2. CASE l = TimeLine(l.of) /\ l.of \in Nat
    BY <2>2 DEF TimeLine, FileLine
  <2>3. CASE l = CommandLine(l.of) /\ l.of \in Lines /\ OneLine(l.of)
    <3>1. l.of \in Text
      BY <2>3, TextIsLines
    <3> QED BY <2>3, <3>1 DEF CommandLine, FileLine
  <2> QED BY <1>2, <2>1, <2>2, <2>3 DEF IsFileLine
<1>3. Range(f) \subseteq FileLine
  BY <1>1, <1>2 DEF Range
<1> QED BY <1>1, <1>3, SeqMonotonic

LEMMA InitHolds == Init => Inv
<1> SUFFICES ASSUME Init PROVE Inv
  OBVIOUS
<1>1. IsScenario(budget)
  BY HistoryAssumption DEF Init
<1>2. budget.clipboard \in Lines /\ IsHistoryFile(budget.file)
  BY <1>1 DEF IsScenario
<1>3. WellBegun
  BY <1>1, <1>2 DEF WellBegun, Init
<1>4. file \in Seq(FileLine) /\ ReadFile(file).time = NoTime
  BY <1>2, HistoryFileTyped DEF Init
<1>5. log \in Seq(Record) /\ log = ParseRecords(file) /\ Len(log) \in Nat
  <2>1. ParseRecords(file) \in Seq(Record)
    BY <1>4, ReadTyped
  <2> QED BY <2>1 DEF Init
<1>6. FileKept
  <2>1. Ends(log, log)
    BY <1>5 DEF Ends
  <2>2. Len(ParseRecords(file)) >= Len(log)
    BY <1>5
  <2> QED BY <1>4, <1>5, <2>1, <2>2 DEF FileKept
<1>7. PICK c \in [Shells -> budget.configs] : shell = [s \in Shells |-> NewShell(s, c[s], 1)]
  BY DEF Init
<1>8. ASSUME NEW s \in Shells
      PROVE  /\ Fine(shell[s], budget.configs)
             /\ shell[s].at = "prompt"
  <2> DEFINE r == NewShell(s, c[s], 1)
  <2>1. shell[s] = r /\ c[s] \in budget.configs /\ c[s] \in Config
    BY <1>1, <1>7, ScenarioParts
  <2>2. <<>> \in Seq(Text) /\ <<>> \in Seq(FileLine) /\ 0 \in Int /\ <<s, 1>> \in Shells \X Nat
    OBVIOUS
  <2>3. Sound(FreshEditor(<<>>), Len(<<>>))
    BY <2>2, FreshSound
  <2>4. FreshEditor(<<>>) \in EditorState(Text)
    BY <2>3 DEF Sound
  <2>5. r \in ShellType /\ r.at = "prompt" /\ r.config = c[s] /\ r.recall = <<>>
        /\ r.editor = FreshEditor(<<>>)
    BY <2>1, <2>2, <2>4 DEF NewShell, ShellType, Places
  <2> HIDE DEF r
  <2>6. Fine(r, budget.configs)
    BY <2>1, <2>3, <2>5 DEF Fine
  <2> QED BY <2>1, <2>5, <2>6
<1>9. Running
  BY <1>7, <1>8 DEF Running
<1>10. Locking
  <2>1. lock = {}
    BY DEF Init
  <2> QED BY <1>8, <2>1 DEF Locking, Holding
<1> QED BY <1>3, <1>6, <1>9, <1>10 DEF Inv

LEMMA NextKeeps == Inv /\ [Next]_vars => Inv'
<1> SUFFICES ASSUME Inv, [Next]_vars PROVE Inv'
  OBVIOUS
<1>1. CASE UNCHANGED vars
  <2>1. Budgeted
    BY <1>1, BudgetStays DEF vars
  <2>2. FileKept'
    BY <1>1, <2>1, KeptStays DEF vars
  <2>3. WellBegun'
    BY <1>1, <2>1 DEF vars, Inv, WellBegun, Budgeted
  <2>4. Running'
    BY <1>1 DEF vars, Inv, Running
  <2>5. Locking'
    BY <1>1 DEF vars, Inv, Locking
  <2> QED BY <2>2, <2>3, <2>4, <2>5 DEF Inv
<1>2. CASE Next
  <2>1. PICK s \in Shells :
       \/ Refresh(s) \/ Paste(s) \/ EditKey(s) \/ MoveKey(s) \/ RecallKey(s)
       \/ CharKey(s) \/ TabKey(s) \/ CopyKey(s) \/ CutKey(s) \/ PasteKey(s)
       \/ EscKey(s) \/ EnterLine(s) \/ EnterBlockLine(s) \/ EndOfInput(s)
       \/ AbortBlock(s) \/ Execute(s) \/ CompactCommand(s) \/ AppendBatch(s)
       \/ AppendFails(s) \/ CompactLocked(s) \/ ReplaceFile(s) \/ CompactFails(s)
       \/ Crash(s)
    BY <1>2 DEF Next
  <2>2. CASE EditKey(s) \/ MoveKey(s) \/ RecallKey(s) \/ CharKey(s) \/ TabKey(s)
    BY <2>2, KeysKeep
  <2>3. CASE Paste(s) \/ CopyKey(s) \/ CutKey(s) \/ PasteKey(s) \/ EscKey(s)
    BY <2>3, ClipboardKeysKeep
  <2>4. CASE Refresh(s)
    BY <2>4, RefreshKeeps
  <2>5. CASE EnterLine(s) \/ EnterBlockLine(s)
    BY <2>5, EntersKeep
  <2>6. CASE EndOfInput(s)
    BY <2>6, EndOfInputKeeps
  <2>7. CASE AbortBlock(s)
    BY <2>7, AbortKeeps
  <2>8. CASE Execute(s)
    BY <2>8, ExecuteKeeps
  <2>9. CASE CompactCommand(s)
    BY <2>9, CompactCommandKeeps
  <2>10. CASE AppendBatch(s)
    BY <2>10, AppendBatchKeeps
  <2>11. CASE AppendFails(s)
    BY <2>11, AppendFailsKeeps
  <2>12. CASE CompactLocked(s)
    BY <2>12, CompactLockedKeeps
  <2>13. CASE ReplaceFile(s)
    BY <2>13, ReplaceFileKeeps
  <2>14. CASE CompactFails(s)
    BY <2>14, CompactFailsKeeps
  <2>15. CASE Crash(s)
    BY <2>15, CrashKeeps
  <2> QED BY <2>1, <2>2, <2>3, <2>4, <2>5, <2>6, <2>7, <2>8, <2>9, <2>10, <2>11, <2>12,
             <2>13, <2>14, <2>15
<1> QED BY <1>1, <1>2

LEMMA InvImpliesTypeOK == Inv => TypeOK
<1> SUFFICES ASSUME Inv PROVE TypeOK
  OBVIOUS
<1>1. ASSUME NEW s \in Shells
      PROVE  /\ shell[s].at \in Places /\ shell[s].config \in budget.configs
             /\ SoundEditor(shell[s].editor, shell[s].recall)
             /\ shell[s].at \in {"run", "append"} => shell[s].accepted # <<>>
  <2>1. Sound(shell[s].editor, Len(shell[s].recall)) /\ Fine(shell[s], budget.configs)
        /\ shell[s].at \in Places /\ shell[s].config \in budget.configs
    BY ShellParts
  <2>2. EditorState(Text) \subseteq EditorState(Lines)
    BY TextIsLines DEF EditorState
  <2>3. SoundEditor(shell[s].editor, shell[s].recall)
    BY <2>1, <2>2 DEF SoundEditor, Sound
  <2> QED BY <2>1, <2>3 DEF Fine
<1>2. \A s \in Shells : s \in lock <=> shell[s].at \in {"compact", "replace"}
  BY DEF Inv, Locking, Holding
<1> QED BY <1>1, <1>2 DEF TypeOK, Inv, WellBegun

LEMMA InvImpliesLatest == Inv => FileIsLatest
<1> SUFFICES ASSUME Inv PROVE FileIsLatest
  OBVIOUS
<1> DEFINE records == ParseRecords(file)
<1>1. records \in Seq(Record) /\ log \in Seq(Record) /\ Ends(records, log)
      /\ (Len(records) >= Len(log) \/ Len(records) >= SmallestLimit)
  BY ReadTyped DEF Inv, FileKept
<1>2. IsSuffix(records, log)
  BY <1>1, SuffixIsEnd
<1>3. PICK c \in budget.configs : TRUE
  BY ScenarioParts DEF Inv, WellBegun
<1>4. SmallestLimit \in Nat
  BY <1>3, SmallestIsLeast DEF Inv, WellBegun
<1> DEFINE S == {Len(log), SmallestLimit}
<1>5. S \in SUBSET Nat /\ S # {}
  BY <1>1, <1>4
<1>6. Min(S) \in Nat /\ Min(S) <= Len(log) /\ Min(S) <= SmallestLimit
  <2>1. Min(S) \in S /\ \A x \in S : Min(S) <= x
    <3> HIDE DEF S
    <3> QED BY <1>5, MinIsLeast
  <2> QED BY <1>1, <1>4, <2>1
<1> HIDE DEF records
<1>7. Len(records) >= Min(S)
  <2> HIDE DEF S
  <2> QED BY <1>1, <1>4, <1>6
<1> QED BY <1>2, <1>7 DEF FileIsLatest, records

(* Every shell, its editor and the clipboard keep their types, the cursor  *)
(* and the selection stay inside the line, and the mutex is held exactly   *)
(* by the shell that compacts.                                             *)
THEOREM TypesAreKept == Spec => []TypeOK
<1>1. Inv => TypeOK
  BY InvImpliesTypeOK
<1> QED BY InitHolds, NextKeeps, <1>1, PTL DEF Spec

(* Whoever compacts and whenever a shell dies, the file holds the newest   *)
(* records, whole and in order, and enough of them (append,                *)
(* compact_locked, replace_file).                                          *)
THEOREM FileKeepsLatest == Spec => []FileIsLatest
BY InitHolds, NextKeeps, InvImpliesLatest, PTL DEF Spec

(* The parts of a concatenation.                                           *)
LEMMA HalvesOf ==
  ASSUME NEW V, NEW x \in Seq(V), NEW y \in Seq(V)
  PROVE  /\ SubSeq(x \o y, 1, Len(x)) = x
         /\ SubSeq(x \o y, Len(x) + 1, Len(x \o y)) = y
<1> DEFINE z == x \o y
<1>1. /\ z \in Seq(V) /\ Len(z) = Len(x) + Len(y)
      /\ \A k \in 1..(Len(x) + Len(y)) : z[k] = IF k <= Len(x) THEN x[k] ELSE y[k - Len(x)]
  BY ConcatProperties
<1> HIDE DEF z
<1>2. SubSeq(z, 1, Len(x)) = x
  BY <1>1
<1> DEFINE w == SubSeq(z, Len(x) + 1, Len(z))
<1>3. w \in Seq(V) /\ Len(w) = Len(y) /\ \A k \in 1..Len(y) : w[k] = z[Len(x) + k]
  BY <1>1
<1>4. \A k \in 1..Len(y) : z[Len(x) + k] = y[k]
  <2> TAKE k \in 1..Len(y)
  <2>1. Len(x) + k \in 1..(Len(x) + Len(y)) /\ ~(Len(x) + k <= Len(x)) /\ (Len(x) + k) - Len(x) = k
    OBVIOUS
  <2> QED BY <1>1, <2>1
<1> HIDE DEF w
<1>5. w = y
  BY <1>3, <1>4, SeqEqual
<1> QED BY <1>2, <1>5 DEF w, z

LEMMA CutAndPasted ==
  ASSUME NEW b \in Text, NEW j \in 0..Len(b), NEW i \in 0..j
  PROVE  LET w == Without(b, i, j)
         IN  SubSeq(w, 1, i) \o SubSeq(b, i + 1, j) \o SubSeq(w, i + 1, Len(w)) = b
<1> DEFINE x == SubSeq(b, 1, i)  y == SubSeq(b, j + 1, Len(b))  t == SubSeq(b, i + 1, j)
           n == Len(b)
<1>1. b \in Seq(Glyph) /\ n \in Nat
  BY DEF Text
<1>2. /\ x \in Seq(Glyph) /\ Len(x) = i /\ y \in Seq(Glyph)
      /\ t \in Seq(Glyph)
  BY <1>1
<1>3. Without(b, i, j) = x \o y
  BY DEF Without
<1>4. x \o t = SubSeq(b, 1, j)
  <2>1. 1 \in 1..(n + 1) /\ i \in (1 - 1)..n /\ j \in i..n
    BY <1>1
  <2> HIDE DEF n
  <2> QED BY <1>1, <2>1, ConcatAdjacentSubSeq DEF n
<1>5. SubSeq(b, 1, j) \o y = SubSeq(b, 1, n)
  <2>1. 1 \in 1..(n + 1) /\ j \in (1 - 1)..n /\ n \in j..n
    BY <1>1
  <2> QED BY <1>1, <2>1, ConcatAdjacentSubSeq
<1>6. SubSeq(b, 1, n) = b
  BY <1>1, SubSeqFull
<1> HIDE DEF x, y, t
<1>7. SubSeq(x \o y, 1, i) = x /\ SubSeq(x \o y, i + 1, Len(x \o y)) = y
  BY <1>2, HalvesOf
<1> QED BY <1>3, <1>4, <1>5, <1>6, <1>7 DEF t

LEMMA PastedBack ==
  ASSUME NEW n \in Nat, NEW e, Sound(e, n), Selecting(e)
  PROVE  InsertText(DeleteSelection(e), SingleLine(SelectedText(e))).buffer = e.buffer
<1> DEFINE i == SelectionStart(e)  j == SelectionEnd(e)  b == e.buffer
           w == Without(b, i, j)  d == DeleteSelection(e)  c == DeleteSelection(d)
           t == SelectedText(e)
           p == SubSeq(c.buffer, 1, c.cursor) \o SingleLine(t)
                  \o SubSeq(c.buffer, c.cursor + 1, Len(c.buffer))
<1>1. i \in 0..j /\ j \in 0..Len(b) /\ b \in Text
  BY SelectionInside
<1>2. e \in EditorState(Text)
  BY SoundParts
<1>3. d = [e EXCEPT !.buffer = w, !.cursor = i, !.anchor = NoAnchor]
  BY DEF DeleteSelection
<1>4. t = SubSeq(b, i + 1, j) /\ t \in Text
  BY SelectedTyped DEF SelectedText
<1>5. SingleLine(t) = t
  <2>1. t \in Seq(Glyph) /\ \A k \in DOMAIN t : t[k] # Newline
    BY <1>4 DEF Text, Glyph
  <2> HIDE DEF t
  <2>2. SingleLine(t) = [k \in DOMAIN t |-> t[k]]
    BY <2>1 DEF SingleLine
  <2> QED BY <2>1, <2>2
<1>6. SubSeq(w, 1, i) \o SubSeq(b, i + 1, j) \o SubSeq(w, i + 1, Len(w)) = b
  BY <1>1, CutAndPasted
<1> HIDE DEF w, i, j, b, t
<1>7. d.buffer = w /\ d.cursor = i /\ d.anchor = NoAnchor
      /\ d \in [{"buffer", "cursor", "anchor", "index", "saved"} -> {d[f] : f \in DOMAIN d}]
  <2> HIDE DEF d
  <2> QED BY <1>2, <1>3 DEF EditorState
<1> HIDE DEF d
<1>8. c = [d EXCEPT !.anchor = NoAnchor]
  BY <1>7 DEF DeleteSelection, Selecting
<1>9. c.buffer = w /\ c.cursor = i
      /\ c \in [{"buffer", "cursor", "anchor", "index", "saved"} -> {c[f] : f \in DOMAIN c}]
  <2> HIDE DEF c
  <2> QED BY <1>7, <1>8
<1>10. InsertText(d, SingleLine(t))
         = [c EXCEPT !.buffer = p, !.cursor = c.cursor + Len(SingleLine(t))]
  BY DEF InsertText
<1> HIDE DEF c
<1>11. p = SubSeq(w, 1, i) \o SubSeq(b, i + 1, j) \o SubSeq(w, i + 1, Len(w))
  BY <1>4, <1>5, <1>9
<1> HIDE DEF p
<1>12. InsertText(d, SingleLine(t)).buffer = p
  BY <1>9, <1>10
<1> QED BY <1>6, <1>11, <1>12 DEF d, b, t

LEMMA InvImpliesRestores == Inv => CutPasteRestores
<1> SUFFICES ASSUME Inv, NEW s \in Shells, Selecting(shell[s].editor)
             PROVE  InsertText(DeleteSelection(shell[s].editor),
                               SingleLine(SelectedText(shell[s].editor))).buffer
                      = shell[s].editor.buffer
  BY DEF CutPasteRestores
<1>1. Sound(shell[s].editor, Len(shell[s].recall)) /\ Len(shell[s].recall) \in Nat
  BY ShellParts
<1> QED BY <1>1, PastedBack

(* Ctrl+X and then Ctrl+V give the line back.                              *)
THEOREM CutThenPasteRestores == Spec => []CutPasteRestores
BY InitHolds, NextKeeps, InvImpliesRestores, PTL DEF Spec

(* Nothing but the refresh takes a shell from its prompt to typing.        *)
LEMMA OnlyRefreshPrompts ==
  ASSUME Inv, NEW s \in Shells, NEW t \in Shells,
         \/ Refresh(s) \/ Paste(s) \/ EditKey(s) \/ MoveKey(s) \/ RecallKey(s)
         \/ CharKey(s) \/ TabKey(s) \/ CopyKey(s) \/ CutKey(s) \/ PasteKey(s)
         \/ EscKey(s) \/ EnterLine(s) \/ EnterBlockLine(s) \/ EndOfInput(s)
         \/ AbortBlock(s) \/ Execute(s) \/ CompactCommand(s) \/ AppendBatch(s)
         \/ AppendFails(s) \/ CompactLocked(s) \/ ReplaceFile(s) \/ CompactFails(s)
         \/ Crash(s),
         shell[t].at = "prompt", shell'[t].at = "typing"
  PROVE  Refresh(t)
<1>1. \A r : Put(s, r) => s = t /\ r.at = "typing"
  <2> SUFFICES ASSUME NEW r, Put(s, r) PROVE s = t /\ r.at = "typing"
    OBVIOUS
  <2>1. shell' = [u \in Shells |-> IF u = s THEN r ELSE shell[u]]
    BY DEF Put, Inv, Running
  <2> QED BY <2>1
<1>2. CASE Refresh(s)
  BY <1>1, <1>2 DEF Refresh
<1>3. ASSUME AtEditor(s) PROVE s # t
  BY <1>3 DEF AtEditor
<1>4. \A e : ~(Typed(s, e) /\ AtEditor(s))
  BY <1>1, <1>3 DEF Typed
<1>5. CASE Paste(s)
  BY <1>4, <1>5 DEF Paste
<1>6. CASE EditKey(s)
  BY <1>4, <1>6 DEF EditKey
<1>7. CASE MoveKey(s)
  BY <1>4, <1>7 DEF MoveKey
<1>8. CASE RecallKey(s)
  BY <1>4, <1>8 DEF RecallKey
<1>9. CASE CharKey(s)
  BY <1>4, <1>9 DEF CharKey
<1>10. CASE TabKey(s)
  BY <1>4, <1>10 DEF TabKey
<1>11. CASE CopyKey(s)
  BY <1>4, <1>11 DEF CopyKey
<1>12. CASE CutKey(s)
  BY <1>4, <1>12 DEF CutKey
<1>13. CASE PasteKey(s)
  BY <1>4, <1>13 DEF PasteKey
<1>14. CASE EscKey(s)
  BY <1>4, <1>14 DEF EscKey
<1>15. CASE EnterLine(s)
  <2>1. shell[s].at = "typing" /\ \E r : Put(s, r)
    BY <1>15 DEF EnterLine
  <2> QED BY <1>1, <2>1
<1>16. CASE EnterBlockLine(s)
  <2>1. shell[s].at = "block" /\ \E r : Put(s, r)
    BY <1>16 DEF EnterBlockLine
  <2> QED BY <1>1, <2>1
<1>17. CASE EndOfInput(s)
  <2>1. AtEditor(s) /\ \E r : Put(s, r)
    BY <1>17 DEF EndOfInput
  <2> QED BY <1>1, <1>3, <2>1
<1>18. CASE AbortBlock(s)
  <2>1. shell[s].at = "block" /\ \E r : Put(s, r)
    BY <1>18 DEF AbortBlock
  <2> QED BY <1>1, <2>1
<1>19. CASE Execute(s) \/ CompactCommand(s)
  <2>1. shell[s].at = "run" /\ \E r : Put(s, r)
    BY <1>19 DEF Execute, CompactCommand
  <2> QED BY <1>1, <2>1
<1>20. CASE AppendBatch(s) \/ AppendFails(s)
  <2>1. shell[s].at = "append" /\ \E r : Put(s, r)
    BY <1>20 DEF AppendBatch, AppendFails
  <2> QED BY <1>1, <2>1
<1>21. CASE CompactLocked(s)
  <2>1. shell[s].at = "compact" /\ \E r : Put(s, r)
    BY <1>21 DEF CompactLocked
  <2> QED BY <1>1, <2>1
<1>22. CASE ReplaceFile(s) \/ CompactFails(s)
  <2>1. shell[s].at # "prompt" /\ \E r : Put(s, r)
    BY <1>22 DEF ReplaceFile, CompactFails
  <2> QED BY <1>1, <2>1
<1>23. CASE Crash(s)
  <2>1. PICK c : Put(s, NewShell(s, c, shell[s].session[2] + 1))
    BY <1>23 DEF Crash
  <2> QED BY <1>1, <2>1 DEF NewShell
<1> QED BY <1>2, <1>5, <1>6, <1>7, <1>8, <1>9, <1>10, <1>11, <1>12, <1>13, <1>14, <1>15,
           <1>16, <1>17, <1>18, <1>19, <1>20, <1>21, <1>22, <1>23

LEMMA LoadHasNewest ==
  ASSUME Inv, NEW c \in Config, log # <<>>, c.size > 0, SmallestLimit > 0,
         ~Ignored(Last(log).command, c.ignore)
  PROVE  Contains(Load(c), Last(log).command)
<1> DEFINE rs == ParseRecords(file)  cs == CommandsOf(rs)  kept == ApplyIgnoreRules(cs, c.ignore)
           x == Last(log).command
<1>1. rs \in Seq(Record) /\ log \in Seq(Record) /\ Ends(rs, log)
      /\ (Len(rs) >= Len(log) \/ Len(rs) >= SmallestLimit)
  BY ReadTyped DEF Inv, FileKept
<1>2. Len(log) \in Nat /\ Len(log) > 0 /\ Len(rs) \in Nat
  BY <1>1
<1>3. SmallestLimit \in Nat
  <2>1. PICK d \in budget.configs : TRUE
    BY ScenarioParts DEF Inv, WellBegun
  <2> QED BY <2>1, SmallestIsLeast DEF Inv, WellBegun
<1>4. Len(rs) > 0 /\ Len(rs) \in 1..Len(rs)
  BY <1>1, <1>2, <1>3
<1>5. rs[Len(rs)] = log[Len(log)]
  <2>1. Len(log) - Len(rs) + Len(rs) = Len(log)
    BY <1>2
  <2> QED BY <1>1, <1>4, <2>1 DEF Ends
<1> HIDE DEF rs
<1>6. cs \in Seq(Text) /\ Len(cs) = Len(rs) /\ cs[Len(rs)] = x
  BY <1>1, <1>4, <1>5, CommandsTyped DEF Last
<1> HIDE DEF cs, x
<1>7. cs # <<>> /\ Last(cs) = x
  BY <1>4, <1>6 DEF Last
<1>8. kept \in Seq(Text) /\ kept # <<>> /\ Last(kept) = x
  BY <1>6, <1>7, RulesLeave DEF x
<1> HIDE DEF kept
<1>9. Load(c) = RetainLatest(kept, c.size) /\ c.size \in Nat
  BY DEF Load, kept, cs, rs, Config
<1> DEFINE m == Excess(kept, c.size)  n == Len(kept)  out == RetainLatest(kept, c.size)
<1>10. m \in 0..n /\ Len(out) = n - m /\ \A i \in 1..(n - m) : out[i] = kept[m + i]
  BY <1>8, <1>9, RetainedAre
<1>11. n \in Nat /\ n > 0 /\ m < n
  BY <1>8, <1>9 DEF Excess
<1> HIDE DEF m, out
<1>12. n - m \in 1..(n - m) /\ m + (n - m) = n
  BY <1>10, <1>11
<1>13. out[n - m] = kept[n] /\ n - m \in 1..Len(out)
  BY <1>10, <1>12
<1>14. out[n - m] = x
  BY <1>8, <1>13 DEF Last
<1> QED BY <1>9, <1>13, <1>14 DEF Contains, out, x

(* At a prompt the newest command of any shell can be recalled, unless the *)
(* settings of this one ignore it (prompt loop, load_history).             *)
THEOREM NewestCanBeRecalled == Spec => NewestIsRecalled
<1> DEFINE Recalled ==
       \A s \in Shells :
         LET c == shell[s].config
         IN  /\ shell[s].at = "prompt" /\ shell'[s].at = "typing" /\ log # <<>>
             /\ c.enabled /\ c.size > 0 /\ SmallestLimit > 0
             /\ ~Ignored(Last(log).command, c.ignore)
             => Contains(shell'[s].recall, Last(log).command)
<1>1. Inv /\ [Next]_vars => [Recalled]_vars
  <2> SUFFICES ASSUME Inv, Next, NEW t \in Shells,
                      shell[t].at = "prompt", shell'[t].at = "typing", log # <<>>,
                      shell[t].config.enabled, shell[t].config.size > 0, SmallestLimit > 0,
                      ~Ignored(Last(log).command, shell[t].config.ignore)
               PROVE  Contains(shell'[t].recall, Last(log).command)
    OBVIOUS
  <2> DEFINE c == shell[t].config
  <2>1. Refresh(t)
    BY OnlyRefreshPrompts DEF Next
  <2>2. shell' = [shell EXCEPT ![t] = [shell[t] EXCEPT !.at = "typing", !.recall = Load(c),
                                                !.editor = FreshEditor(Load(c))]]
    BY <2>1 DEF Refresh, Put
  <2>3. shell[t] \in ShellType /\ c \in Config
    <3>1. Fine(shell[t], budget.configs) /\ budget.configs \subseteq Config
      BY ScenarioParts DEF Inv, Running, WellBegun
    <3> QED BY <3>1 DEF Fine
  <2>4. shell'[t].recall = Load(c)
    <3>1. shell'[t] = [shell[t] EXCEPT !.at = "typing", !.recall = Load(c),
                                       !.editor = FreshEditor(Load(c))]
      BY <2>2 DEF Inv, Running
    <3> DEFINE l == Load(c)
    <3> HIDE DEF l
    <3>2. shell'[t] = [shell[t] EXCEPT !.at = "typing", !.recall = l, !.editor = FreshEditor(l)]
      BY <3>1 DEF l
    <3>3. shell'[t].recall = l
      BY <2>3, <3>2 DEF ShellType
    <3> QED BY <3>3 DEF l
  <2>5. Contains(Load(c), Last(log).command)
    BY <2>3, LoadHasNewest
  <2> QED BY <2>4, <2>5
<1>2. []Inv /\ [][Next]_vars => [][Recalled]_vars
  BY <1>1, PTL
<1>3. Init => Inv
  BY InitHolds
<1> QED BY <1>2, <1>3, NextKeeps, PTL DEF Spec, NewestIsRecalled

Editors(n) == {e \in EditorState(Text) : Sound(e, n)}

GoesUp(g, n, recall) == \A k \in 1..n : g[k] = Up(g[k - 1], recall)
GoesDown(g, n, recall) == \A k \in 1..n : g[k] = Down(g[k - 1], recall)

(* Up pressed n times, and Down.                                           *)
LEMMA UpChain ==
  ASSUME NEW recall \in Seq(Text), NEW e, Sound(e, Len(recall)), NEW n \in Nat
  PROVE  LET step(x) == Up(x, recall)
         IN  \E g \in [0..n -> Editors(Len(recall))] :
               /\ g[0] = e /\ g[n] = Times(n, step, e)
               /\ GoesUp(g, n, recall)
<1> DEFINE V == Editors(Len(recall))
           move(x) == Up(x, recall)
           F == [p \in V \X (1..n) |-> move(p[1])]
           top == [s \in SUBSET (1..n) |-> Max(s)]
           next(it, s) == IF s = {} THEN e ELSE move(it[s \ {Max(s)}])
           it == CHOOSE it : it = [s \in SUBSET (1..n) |-> next(it, s)]
<1>1. e \in V
  BY DEF Editors, Sound
<1>2. F \in [V \X (1..n) -> V]
  <2>1. \A v \in V : move(v) \in V
    <3> TAKE v \in V
    <3>1. Sound(v, Len(recall))
      BY DEF Editors
    <3>2. Sound(Up(v, recall), Len(recall))
      BY <3>1, RecallSound
    <3> QED BY <3>2 DEF Editors, Sound
  <2> HIDE DEF V, move
  <2> QED BY <2>1
<1>3. \A s \in SUBSET (1..n) : s # {} => Max(s) \in s
  BY MaxIsGreatest, 1..n \subseteq 0..n
<1>4. \E jt : jt = [s \in SUBSET (1..n) |-> next(jt, s)]
  <2>1. PICK jt \in [SUBSET (1..n) -> V] : Whole(jt, n, e, F, top)
    <3> HIDE DEF V, F
    <3> QED BY <1>1, <1>2, <1>3, FoldExists
  <2>2. \A s \in SUBSET (1..n) : s # {} => jt[s \ {Max(s)}] \in V /\ Max(s) \in 1..n
    BY <1>3
  <2> HIDE DEF move, V
  <2>3. \A s \in SUBSET (1..n) : jt[s] = next(jt, s)
    BY <2>1, <2>2 DEF Whole
  <2>4. jt = [s \in SUBSET (1..n) |-> next(jt, s)]
    BY <2>3
  <2> QED BY <2>4
<1>5. it = [s \in SUBSET (1..n) |-> next(it, s)]
  <2> HIDE DEF next
  <2> QED BY <1>4
<1>6. Times(n, move, e) = it[1..n]
  BY DEF Times, FoldLeft, MapThenFoldSet
<1>7. it[{}] = e /\ Folded(it, n, V, F)
  <2>1. \A s \in SUBSET (1..n) : s # {} => Max(s) \in 1..n
    BY <1>3
  <2> HIDE DEF it, move, V
  <2> QED BY <1>5, <2>1 DEF Folded
<1>8. PICK g \in [0..n -> V] : g[0] = it[{}] /\ g[n] = it[1..n] /\ IsChain(g, n, F)
  <2>1. it[{}] \in V
    <3> HIDE DEF it
    <3> QED BY <1>1, <1>7
  <2> HIDE DEF it, F, V
  <2> QED BY <1>2, <1>7, <2>1, ChainTo
<1>9. \A k \in 1..n : g[k] = move(g[k - 1])
  <2> TAKE k \in 1..n
  <2>1. k - 1 \in 0..n
    OBVIOUS
  <2> HIDE DEF move, V
  <2> QED BY <1>8, <2>1 DEF IsChain
<1> HIDE DEF it
<1> QED BY <1>6, <1>7, <1>8, <1>9 DEF GoesUp

LEMMA DownChain ==
  ASSUME NEW recall \in Seq(Text), NEW e, Sound(e, Len(recall)), NEW n \in Nat
  PROVE  LET step(x) == Down(x, recall)
         IN  \E g \in [0..n -> Editors(Len(recall))] :
               /\ g[0] = e /\ g[n] = Times(n, step, e)
               /\ GoesDown(g, n, recall)
<1> DEFINE V == Editors(Len(recall))
           move(x) == Down(x, recall)
           F == [p \in V \X (1..n) |-> move(p[1])]
           top == [s \in SUBSET (1..n) |-> Max(s)]
           next(it, s) == IF s = {} THEN e ELSE move(it[s \ {Max(s)}])
           it == CHOOSE it : it = [s \in SUBSET (1..n) |-> next(it, s)]
<1>1. e \in V
  BY DEF Editors, Sound
<1>2. F \in [V \X (1..n) -> V]
  <2>1. \A v \in V : move(v) \in V
    <3> TAKE v \in V
    <3>1. Sound(v, Len(recall))
      BY DEF Editors
    <3>2. Sound(Down(v, recall), Len(recall))
      BY <3>1, RecallSound
    <3> QED BY <3>2 DEF Editors, Sound
  <2> HIDE DEF V, move
  <2> QED BY <2>1
<1>3. \A s \in SUBSET (1..n) : s # {} => Max(s) \in s
  BY MaxIsGreatest, 1..n \subseteq 0..n
<1>4. \E jt : jt = [s \in SUBSET (1..n) |-> next(jt, s)]
  <2>1. PICK jt \in [SUBSET (1..n) -> V] : Whole(jt, n, e, F, top)
    <3> HIDE DEF V, F
    <3> QED BY <1>1, <1>2, <1>3, FoldExists
  <2>2. \A s \in SUBSET (1..n) : s # {} => jt[s \ {Max(s)}] \in V /\ Max(s) \in 1..n
    BY <1>3
  <2> HIDE DEF move, V
  <2>3. \A s \in SUBSET (1..n) : jt[s] = next(jt, s)
    BY <2>1, <2>2 DEF Whole
  <2>4. jt = [s \in SUBSET (1..n) |-> next(jt, s)]
    BY <2>3
  <2> QED BY <2>4
<1>5. it = [s \in SUBSET (1..n) |-> next(it, s)]
  <2> HIDE DEF next
  <2> QED BY <1>4
<1>6. Times(n, move, e) = it[1..n]
  BY DEF Times, FoldLeft, MapThenFoldSet
<1>7. it[{}] = e /\ Folded(it, n, V, F)
  <2>1. \A s \in SUBSET (1..n) : s # {} => Max(s) \in 1..n
    BY <1>3
  <2> HIDE DEF it, move, V
  <2> QED BY <1>5, <2>1 DEF Folded
<1>8. PICK g \in [0..n -> V] : g[0] = it[{}] /\ g[n] = it[1..n] /\ IsChain(g, n, F)
  <2>1. it[{}] \in V
    <3> HIDE DEF it
    <3> QED BY <1>1, <1>7
  <2> HIDE DEF it, F, V
  <2> QED BY <1>2, <1>7, <2>1, ChainTo
<1>9. \A k \in 1..n : g[k] = move(g[k - 1])
  <2> TAKE k \in 1..n
  <2>1. k - 1 \in 0..n
    OBVIOUS
  <2> HIDE DEF move, V
  <2> QED BY <1>8, <2>1 DEF IsChain
<1> HIDE DEF it
<1> QED BY <1>6, <1>7, <1>8, <1>9 DEF GoesDown

(* The line being typed is saved by the first Up, no Up or Down between    *)
(* loses it, and the last Down brings it back.                             *)
LEMMA UpAndDown ==
  ASSUME NEW recall \in Seq(Text), NEW e, Sound(e, Len(recall)), e.index = Len(recall),
         NEW n \in 0..Len(recall)
  PROVE  LET up(x) == Up(x, recall)  down(x) == Down(x, recall)
         IN  Times(n, down, Times(n, up, e)).buffer = e.buffer
<1> DEFINE m == Len(recall)  up(x) == Up(x, recall)  down(x) == Down(x, recall)
           V == Editors(m)
<1>1. m \in Nat /\ n \in Nat /\ n <= m
  OBVIOUS
<1>2. PICK g \in [0..n -> V] : /\ g[0] = e /\ g[n] = Times(n, up, e)
                               /\ GoesUp(g, n, recall)
  <2>1. n \in Nat
    BY <1>1
  <2>2. Sound(e, Len(recall))
    OBVIOUS
  <2> HIDE DEF V
  <2>3. \E g \in [0..n -> Editors(Len(recall))] :
          /\ g[0] = e /\ g[n] = Times(n, up, e)
          /\ GoesUp(g, n, recall)
    BY <2>1, <2>2, UpChain 
  <2> QED BY <2>3 DEF V
<1>3. ASSUME NEW v \in V
      PROVE  /\ v \in EditorState(Text) /\ v.index \in 0..m /\ Sound(v, m)
             /\ v.index > 0 => Up(v, recall).index = v.index - 1
             /\ v.index > 0 => Up(v, recall).saved = IF v.index = m THEN v.buffer ELSE v.saved
             /\ v.index < m => Down(v, recall).index = v.index + 1
             /\ v.index < m => Down(v, recall).saved = v.saved
             /\ v.index + 1 = m => Down(v, recall).buffer = v.saved
  <2>1. Sound(v, m) /\ v \in EditorState(Text) /\ v.index \in 0..m
    BY <1>1, SoundParts DEF Editors
  <2> HIDE DEF V
  <2>2. v.index > 0 => /\ Up(v, recall).index = v.index - 1
                       /\ Up(v, recall).saved = IF v.index = m THEN v.buffer ELSE v.saved
    <3> SUFFICES ASSUME v.index > 0
                 PROVE /\ Up(v, recall).index = v.index - 1
                       /\ Up(v, recall).saved = IF v.index = m THEN v.buffer ELSE v.saved
      OBVIOUS
    <3> DEFINE line == recall[v.index]  i == v.index - 1
               z == IF v.index = m THEN v.buffer ELSE v.saved  c == Len(line)  r == Up(v, recall)
    <3>1. r = [v EXCEPT !.saved = z, !.index = i, !.buffer = line, !.cursor = c,
                        !.anchor = NoAnchor]
      BY <2>1 DEF Up
    <3> HIDE DEF line, i, z, c, r
    <3>2. r.index = i /\ r.saved = z
      BY <2>1, <3>1 DEF EditorState
    <3> QED BY <3>2 DEF r, i, z
  <2>3. v.index < m => /\ Down(v, recall).index = v.index + 1
                       /\ Down(v, recall).saved = v.saved
                       /\ v.index + 1 = m => Down(v, recall).buffer = v.saved
    <3> SUFFICES ASSUME v.index < m
                 PROVE /\ Down(v, recall).index = v.index + 1
                       /\ Down(v, recall).saved = v.saved
                       /\ v.index + 1 = m => Down(v, recall).buffer = v.saved
      OBVIOUS
    <3> DEFINE i == v.index + 1  line == IF i = m THEN v.saved ELSE recall[i + 1]
               c == Len(line)  r == Down(v, recall)
    <3>1. r = [v EXCEPT !.index = i, !.buffer = line, !.cursor = c, !.anchor = NoAnchor]
      BY <1>1, <2>1 DEF Down
    <3>2. i = m => line = v.saved
      OBVIOUS
    <3> HIDE DEF line, i, c, r
    <3>3. r.index = i /\ r.buffer = line /\ r.saved = v.saved
      BY <2>1, <3>1 DEF EditorState
    <3> QED BY <3>2, <3>3 DEF r, i
  <2> QED BY <1>1, <2>1, <2>2, <2>3
<1>4. CASE n = 0
  <2>1. PICK h \in [0..n -> V] : h[0] = g[n] /\ h[n] = Times(n, down, g[n])
    <3>1. g[n] \in V /\ Sound(g[n], m)
      BY <1>1, <1>3
    <3> QED BY <1>1, <3>1, DownChain
  <2> QED BY <1>2, <1>4, <2>1
<1>5. CASE n > 0
  <2> DEFINE P == {k \in 0..n : g[k].index = m - k /\ (k > 0 => g[k].saved = e.buffer)}
  <2>1. 0 \in P
    BY <1>1, <1>2
  <2>2. ASSUME NEW k \in 0..(n - 1), k \in P PROVE k + 1 \in P
    <3>1. k + 1 \in 1..n /\ (k + 1) - 1 = k /\ k \in 0..n /\ m - k > 0 /\ k + 1 \in 0..n
      BY <1>1
    <3>2. g[k + 1] = Up(g[k], recall) /\ g[k] \in V
      BY <1>2, <3>1 DEF GoesUp
    <3>3. /\ g[k + 1].index = (m - k) - 1
          /\ g[k + 1].saved = IF m - k = m THEN g[k].buffer ELSE g[k].saved
      BY <1>3, <2>2, <3>1, <3>2
    <3>4. g[k + 1].saved = e.buffer
      <4>1. CASE k = 0
        BY <1>1, <1>2, <3>3, <4>1
      <4>2. CASE k # 0
        BY <1>1, <2>2, <3>3, <4>2
      <4> QED BY <4>1, <4>2
    <3> QED BY <1>1, <3>1, <3>3, <3>4
  <2>3. n \in P
    <3> HIDE DEF P
    <3>1. \A k \in 0..n : k \in P
      BY <1>1, <2>1, <2>2, Climb
    <3> QED BY <1>1, <3>1
  <2>4. PICK h \in [0..n -> V] : /\ h[0] = g[n] /\ h[n] = Times(n, down, g[n])
                                 /\ GoesDown(h, n, recall)
    <3>1. g[n] \in V /\ Sound(g[n], m)
      BY <1>1, <1>3
    <3> QED BY <1>1, <3>1, DownChain
  <2> DEFINE Q == {k \in 0..n : h[k].index = m - n + k /\ h[k].saved = e.buffer
                                 /\ (k = n => h[k].buffer = e.buffer)}
  <2>5. 0 \in Q
    BY <1>1, <1>5, <2>3, <2>4
  <2>6. ASSUME NEW k \in 0..(n - 1), k \in Q PROVE k + 1 \in Q
    <3>1. k + 1 \in 1..n /\ (k + 1) - 1 = k /\ k \in 0..n /\ m - n + k < m /\ k + 1 \in 0..n
          /\ (m - n + k) + 1 = m - n + (k + 1)
          /\ (k + 1 = n => (m - n + k) + 1 = m)
      BY <1>1
    <3>2. h[k + 1] = Down(h[k], recall) /\ h[k] \in V
      BY <2>4, <3>1 DEF GoesDown
    <3>3. h[k].index = m - n + k /\ h[k].saved = e.buffer
      BY <2>6
    <3>4. /\ h[k + 1].index = (m - n + k) + 1 /\ h[k + 1].saved = e.buffer
          /\ ((m - n + k) + 1 = m => h[k + 1].buffer = e.buffer)
      BY <1>3, <3>1, <3>2, <3>3
    <3> QED BY <3>1, <3>4
  <2>7. n \in Q
    <3> HIDE DEF Q
    <3>1. \A k \in 0..n : k \in Q
      BY <1>1, <2>5, <2>6, Climb
    <3> QED BY <1>1, <3>1
  <2> QED BY <1>2, <2>4, <2>7
<1> QED BY <1>1, <1>4, <1>5

LEMMA InvImpliesReturns == Inv => BrowsingReturns
<1> SUFFICES ASSUME Inv, NEW s \in Shells, shell[s].editor.index = Len(shell[s].recall),
                    NEW n \in 0..Len(shell[s].recall)
             PROVE  LET up(x) == Up(x, shell[s].recall)  down(x) == Down(x, shell[s].recall)
                    IN  Times(n, down, Times(n, up, shell[s].editor)).buffer
                          = shell[s].editor.buffer
  BY DEF BrowsingReturns
<1>1. Sound(shell[s].editor, Len(shell[s].recall)) /\ shell[s].recall \in Seq(Text)
  BY ShellParts
<1> QED BY <1>1, UpAndDown

(* However far one browses up and down again, the line that was being      *)
(* typed comes back.                                                       *)
THEOREM BrowsingAlwaysReturns == Spec => []BrowsingReturns
BY InitHolds, NextKeeps, InvImpliesReturns, PTL DEF Spec

(* How often c occurs in s.                                                *)
PlacesOf(s, c) == {j \in 1..Len(s) : s[j] = c}
Occurrences(s, c) == Cardinality(PlacesOf(s, c))

LEMMA OccurrencesTyped ==
  ASSUME NEW V, NEW s \in Seq(V), NEW c
  PROVE  /\ IsFiniteSet(PlacesOf(s, c)) /\ Occurrences(s, c) \in Nat
         /\ Contains(s, c) <=> Occurrences(s, c) > 0
<1>1. Len(s) \in Nat
  OBVIOUS
<1>2. IsFiniteSet(1..Len(s))
  BY <1>1, FS_Interval
<1>3. IsFiniteSet(PlacesOf(s, c))
  BY <1>2, FS_Subset DEF PlacesOf
<1>4. Occurrences(s, c) \in Nat
  BY <1>3, FS_CardinalityType DEF Occurrences
<1>5. Occurrences(s, c) = 0 <=> PlacesOf(s, c) = {}
  BY <1>3, FS_EmptySet DEF Occurrences
<1>6. Contains(s, c) <=> PlacesOf(s, c) # {}
  BY DEF Contains, PlacesOf
<1> QED BY <1>3, <1>4, <1>5, <1>6

LEMMA OccurrencesAppended ==
  ASSUME NEW V, NEW s \in Seq(V), NEW x \in V, NEW c
  PROVE  Occurrences(Append(s, x), c) = Occurrences(s, c) + (IF x = c THEN 1 ELSE 0)
<1> DEFINE n == Len(s)  t == Append(s, x)
<1>1. n \in Nat /\ t \in Seq(V) /\ Len(t) = n + 1 /\ t[n + 1] = x
      /\ \A j \in 1..n : t[j] = s[j]
  BY AppendProperties
<1> HIDE DEF t
<1>2. CASE x = c
  <2>1. PlacesOf(t, c) = PlacesOf(s, c) \cup {n + 1} /\ n + 1 \notin PlacesOf(s, c)
    BY <1>1, <1>2 DEF PlacesOf
  <2>2. Cardinality(PlacesOf(s, c) \cup {n + 1}) = Cardinality(PlacesOf(s, c)) + 1
    BY <2>1, OccurrencesTyped, FS_AddElement
  <2> QED BY <1>2, <2>1, <2>2 DEF Occurrences, t
<1>3. CASE x # c
  <2>1. PlacesOf(t, c) = PlacesOf(s, c)
    BY <1>1, <1>3 DEF PlacesOf
  <2>2. Cardinality(PlacesOf(s, c)) \in Nat
    BY OccurrencesTyped DEF Occurrences
  <2> QED BY <1>3, <2>1, <2>2 DEF Occurrences, t
<1> QED BY <1>2, <1>3

LEMMA FirstRemoved ==
  ASSUME NEW V, NEW s \in Seq(V), NEW c, Contains(s, c)
  PROVE  \E f \in 1..Len(s) :
           /\ s[f] = c /\ RemoveFirst(s, c) \in Seq(V)
           /\ Len(RemoveFirst(s, c)) = Len(s) - 1
           /\ \A j \in 1..(Len(s) - 1) :
                RemoveFirst(s, c)[j] = IF j < f THEN s[j] ELSE s[j + 1]
<1> DEFINE n == Len(s)  S == {i \in 1..n : s[i] = c}  f == Min(S)
           x == SubSeq(s, 1, f - 1)  y == SubSeq(s, f + 1, n)
<1>1. n \in Nat /\ S # {} /\ S \in SUBSET Nat
  BY DEF Contains
<1>2. f \in S
  <2> HIDE DEF S
  <2> QED BY <1>1, MinIsLeast
<1>3. f \in 1..n /\ s[f] = c
  <2> HIDE DEF f
  <2> QED BY <1>2
<1>4. RemoveFirst(s, c) = x \o y
  BY <1>1 DEF RemoveFirst, RemoveAt, SelectInSeq, Contains
<1> HIDE DEF f
<1>5. /\ x \in Seq(V) /\ Len(x) = f - 1 /\ \A j \in 1..(f - 1) : x[j] = s[j]
      /\ y \in Seq(V) /\ Len(y) = n - f /\ \A j \in 1..(n - f) : y[j] = s[f + j]
  BY <1>1, <1>3
<1> HIDE DEF x, y
<1>6. /\ x \o y \in Seq(V) /\ Len(x \o y) = Len(x) + Len(y)
      /\ \A k \in 1..(Len(x) + Len(y)) : (x \o y)[k] = IF k <= Len(x) THEN x[k] ELSE y[k - Len(x)]
  BY <1>5, ConcatProperties
<1> DEFINE z == x \o y
<1> HIDE DEF z
<1>7. z \in Seq(V) /\ Len(z) = n - 1
      /\ \A k \in 1..(n - 1) : z[k] = IF k <= f - 1 THEN x[k] ELSE y[k - (f - 1)]
  BY <1>1, <1>3, <1>5, <1>6 DEF z
<1>8. ASSUME NEW j \in 1..(n - 1) PROVE z[j] = IF j < f THEN s[j] ELSE s[j + 1]
  <2>1. CASE j < f
    <3>1. j \in 1..(f - 1) /\ j <= f - 1
      BY <1>3, <2>1
    <3> QED BY <1>5, <1>7, <2>1, <3>1
  <2>2. CASE ~(j < f)
    <3>1. ~(j <= f - 1) /\ j - (f - 1) \in 1..(n - f) /\ f + (j - (f - 1)) = j + 1
      BY <1>1, <1>3, <2>2
    <3> QED BY <1>5, <1>7, <2>2, <3>1
  <2> QED BY <2>1, <2>2
<1> QED BY <1>3, <1>4, <1>7, <1>8 DEF z

LEMMA OccurrencesLeft ==
  ASSUME NEW V, NEW s \in Seq(V), NEW c, Contains(s, c), NEW d
  PROVE  /\ RemoveFirst(s, c) \in Seq(V)
         /\ Occurrences(RemoveFirst(s, c), d) = Occurrences(s, d) - (IF d = c THEN 1 ELSE 0)
<1> DEFINE n == Len(s)  r == RemoveFirst(s, c)
<1>1. PICK f \in 1..n : /\ s[f] = c /\ r \in Seq(V) /\ Len(r) = n - 1
                        /\ \A j \in 1..(n - 1) : r[j] = IF j < f THEN s[j] ELSE s[j + 1]
  BY FirstRemoved
<1> HIDE DEF r
<1> DEFINE A == PlacesOf(r, d)  B == PlacesOf(s, d) \ {f}
           m == [j \in A |-> IF j < f THEN j ELSE j + 1]
<1>2. n \in Nat /\ IsFiniteSet(A) /\ IsFiniteSet(PlacesOf(s, d)) /\ Occurrences(s, d) \in Nat
  BY <1>1, OccurrencesTyped
<1>3. A = {j \in 1..(n - 1) : (IF j < f THEN s[j] ELSE s[j + 1]) = d}
  BY <1>1 DEF PlacesOf
<1>4. B = {j \in 1..n : s[j] = d /\ j # f}
  BY DEF PlacesOf
<1> HIDE DEF A, B
<1>5. m \in [A -> B]
  <2> SUFFICES ASSUME NEW j \in A PROVE (IF j < f THEN j ELSE j + 1) \in B
    OBVIOUS
  <2> QED BY <1>2, <1>3, <1>4
<1>6. IsInjective(m)
  BY <1>2, <1>3 DEF IsInjective
<1>7. \A t \in B : \E j \in A : m[j] = t
  <2> TAKE t \in B
  <2>1. CASE t < f
    <3>1. t \in A
      BY <1>2, <1>3, <1>4, <2>1
    <3> QED BY <2>1, <3>1
  <2>2. CASE ~(t < f)
    <3>1. t - 1 \in A /\ ~(t - 1 < f) /\ (t - 1) + 1 = t
      BY <1>2, <1>3, <1>4, <2>2
    <3> QED BY <3>1
  <2> QED BY <2>1, <2>2
<1>8. ExistsBijection(A, B)
  <2> HIDE DEF m
  <2> QED BY <1>5, <1>6, <1>7 DEF ExistsBijection, Bijection, Injection, Surjection
<1>9. Cardinality(B) = Cardinality(A)
  BY <1>2, <1>8, FS_Bijection
<1>10. Cardinality(B) = IF f \in PlacesOf(s, d) THEN Cardinality(PlacesOf(s, d)) - 1
                        ELSE Cardinality(PlacesOf(s, d))
  BY <1>2, FS_RemoveElement DEF B
<1>11. f \in PlacesOf(s, d) <=> d = c
  BY <1>1 DEF PlacesOf
<1> QED BY <1>1, <1>2, <1>9, <1>10, <1>11 DEF Occurrences, r, A

LEMMA MinOfFrom ==
  ASSUME NEW n \in Nat, NEW k \in 1..n
  PROVE  Min(k..n) = k /\ (k..n) \ {k} = (k + 1)..n
<1>1. k..n \in SUBSET Nat /\ k..n # {} /\ k \in k..n
  OBVIOUS
<1>2. Min(k..n) \in k..n /\ \A x \in k..n : Min(k..n) <= x
  BY <1>1, MinIsLeast
<1> QED BY <1>1, <1>2

(* A fold from the right takes the least index last; h[k] is what it has   *)
(* after the indices above k.                                              *)
FoldedBack(it, n, V, F) ==
  \A s \in SUBSET (1..n) : s # {} /\ it[s \ {Min(s)}] \in V
                             => it[s] = F[<<it[s \ {Min(s)}], Min(s)>>]

IsChainBack(h, n, F) == \A k \in 1..n : h[k - 1] = F[<<h[k], k>>]

LEMMA ChainFrom ==
  ASSUME NEW n \in Nat, NEW V, NEW F \in [V \X (1..n) -> V],
         NEW it, it[{}] \in V, FoldedBack(it, n, V, F)
  PROVE  \E h \in [0..n -> V] : h[n] = it[{}] /\ h[0] = it[1..n] /\ IsChainBack(h, n, F)
<1> DEFINE T == {k \in 0..n : it[(n - k + 1)..n] \in V}
           h == [k \in 0..n |-> it[(k + 1)..n]]
<1>1. (n + 1)..n = {} /\ n - 0 + 1 = n + 1 /\ 0 + 1 = 1
  OBVIOUS
<1>2. \A k \in 1..n : it[(k + 1)..n] \in V => it[k..n] = F[<<it[(k + 1)..n], k>>]
  <2> TAKE k \in 1..n
  <2>1. k..n \in SUBSET (1..n) /\ k..n # {}
    OBVIOUS
  <2>2. Min(k..n) = k /\ (k..n) \ {k} = (k + 1)..n
    BY MinOfFrom
  <2> HAVE it[(k + 1)..n] \in V
  <2> QED BY <2>1, <2>2 DEF FoldedBack
<1>3. 0 \in T
  BY <1>1
<1>4. ASSUME NEW k \in 0..(n - 1), k \in T PROVE k + 1 \in T
  <2>1. n - k \in 1..n /\ n - (k + 1) + 1 = n - k /\ k + 1 \in 0..n
    OBVIOUS
  <2>2. it[(n - k)..n] = F[<<it[(n - k + 1)..n], n - k>>]
    BY <1>2, <1>4, <2>1
  <2> QED BY <1>4, <2>1, <2>2
<1>5. \A k \in 0..n : k \in T
  <2> HIDE DEF T
  <2> QED BY <1>3, <1>4, Climb
<1>6. \A k \in 0..n : it[(k + 1)..n] \in V
  <2> TAKE k \in 0..n
  <2>1. n - k \in 0..n /\ n - (n - k) + 1 = k + 1
    OBVIOUS
  <2>2. n - k \in T
    BY <1>5, <2>1
  <2> QED BY <2>1, <2>2
<1>7. h \in [0..n -> V] /\ h[n] = it[{}] /\ h[0] = it[1..n]
  BY <1>1, <1>6
<1>8. \A k \in 1..n : h[k - 1] = F[<<h[k], k>>]
  <2> TAKE k \in 1..n
  <2>1. k - 1 \in 0..n /\ k \in 0..n /\ (k - 1) + 1 = k
    OBVIOUS
  <2> QED BY <1>2, <1>6, <2>1
<1> QED
  <2> HIDE DEF h
  <2> QED BY <1>7, <1>8 DEF IsChainBack

Taking == [remaining : Seq(Text), records : Seq(Record)]

LEMMA TakeRecordTyped ==
  ASSUME NEW acc \in Taking, NEW r \in Record
  PROVE  /\ TakeRecord(r, acc) \in Taking
         /\ Contains(acc.remaining, r.command) =>
              /\ TakeRecord(r, acc).remaining = RemoveFirst(acc.remaining, r.command)
              /\ TakeRecord(r, acc).records = <<r>> \o acc.records
         /\ ~Contains(acc.remaining, r.command) => TakeRecord(r, acc) = acc
<1>1. acc.remaining \in Seq(Text) /\ acc.records \in Seq(Record)
  BY DEF Taking
<1>2. CASE Contains(acc.remaining, r.command)
  <2>1. RemoveFirst(acc.remaining, r.command) \in Seq(Text)
    BY <1>1, <1>2, OccurrencesLeft
  <2>2. <<r>> \in Seq(Record)
    OBVIOUS
  <2>3. <<r>> \o acc.records \in Seq(Record)
    BY <1>1, <2>2, ConcatProperties
  <2> QED BY <1>2, <2>1, <2>3 DEF TakeRecord, Taking
<1>3. CASE ~Contains(acc.remaining, r.command)
  BY <1>3 DEF TakeRecord
<1> QED BY <1>2, <1>3

LEMMA TakeChain ==
  ASSUME NEW rs \in Seq(Record), NEW rules
  PROVE  \E h \in [0..Len(rs) -> Taking] :
           /\ h[Len(rs)] = [remaining |-> ApplyIgnoreRules(CommandsOf(rs), rules),
                            records |-> <<>>]
           /\ \A k \in 1..Len(rs) : h[k - 1] = TakeRecord(rs[k], h[k])
           /\ ApplyIgnoreRulesToRecords(rs, rules) = h[0].records
<1> DEFINE n == Len(rs)
           base == [remaining |-> ApplyIgnoreRules(CommandsOf(rs), rules), records |-> <<>>]
           F == [p \in Taking \X (1..n) |-> TakeRecord(rs[p[2]], p[1])]
           low == [s \in SUBSET (1..n) |-> Min(s)]
           step(it, s) == IF s = {} THEN base ELSE TakeRecord(rs[Min(s)], it[s \ {Min(s)}])
           it == CHOOSE it : it = [s \in SUBSET (1..n) |-> step(it, s)]
<1>1. n \in Nat /\ DOMAIN rs = 1..n
  OBVIOUS
<1>10. base \in Taking
  <2>1. ApplyIgnoreRules(CommandsOf(rs), rules) \in Seq(Text) /\ <<>> \in Seq(Record)
    BY CommandsTyped, RulesLeave
  <2> QED BY <2>1 DEF Taking
<1>2. F \in [Taking \X (1..n) -> Taking]
  BY TakeRecordTyped, ElementOfSeq
<1>3. \A s \in SUBSET (1..n) : s # {} => Min(s) \in s
  BY <1>1, MinIsLeast, 1..n \subseteq Nat
<1> HIDE DEF base
<1>4. \E jt : jt = [s \in SUBSET (1..n) |-> step(jt, s)]
  <2>1. PICK jt \in [SUBSET (1..n) -> Taking] : Whole(jt, n, base, F, low)
    <3> HIDE DEF n, F
    <3> QED BY <1>1, <1>2, <1>3, <1>10, FoldExists
  <2>2. \A s \in SUBSET (1..n) : s # {} => jt[s \ {Min(s)}] \in Taking /\ Min(s) \in 1..n
    BY <1>3
  <2> HIDE DEF n
  <2>3. \A s \in SUBSET (1..n) : jt[s] = step(jt, s)
    BY <2>1, <2>2 DEF Whole
  <2>4. jt = [s \in SUBSET (1..n) |-> step(jt, s)]
    BY <2>3
  <2> QED BY <2>4
<1>5. it = [s \in SUBSET (1..n) |-> step(it, s)]
  <2> HIDE DEF step
  <2> QED BY <1>4
<1>6. ApplyIgnoreRulesToRecords(rs, rules) = it[1..n].records
  BY <1>1 DEF ApplyIgnoreRulesToRecords, FoldRight, MapThenFoldSet, base
<1>7. it[{}] = base /\ FoldedBack(it, n, Taking, F)
  <2> HIDE DEF it
  <2> QED BY <1>3, <1>5 DEF FoldedBack
<1>8. PICK h \in [0..n -> Taking] : h[n] = it[{}] /\ h[0] = it[1..n] /\ IsChainBack(h, n, F)
  <2> HIDE DEF it, F, n
  <2> QED BY <1>1, <1>2, <1>7, <1>10, ChainFrom
<1>9. \A k \in 1..n : h[k - 1] = TakeRecord(rs[k], h[k])
  <2> TAKE k \in 1..n
  <2>1. k \in 0..n
    BY <1>1
  <2> QED BY <1>8, <2>1 DEF IsChainBack
<1> HIDE DEF it
<1> QED BY <1>1, <1>6, <1>7, <1>8, <1>9 DEF base

KeepsTo(g, cs, rules) ==
  /\ g[0] = <<>>
  /\ \A k \in 1..Len(cs) :
       g[k] = IF Kept(cs, rules, k) THEN Append(g[k - 1], cs[k]) ELSE g[k - 1]

(* What the rules have kept is an entry of its own.                        *)
LEMMA KeptFromEarlier ==
  ASSUME NEW cs \in Seq(Text), NEW rules, NEW g \in [0..Len(cs) -> Seq(Text)],
         KeepsTo(g, cs, rules)
  PROVE  \A k \in 0..Len(cs) : \A x : Contains(g[k], x) =>
           \E i \in 1..k : cs[i] = x /\ Kept(cs, rules, i)
<1> DEFINE n == Len(cs)
           T == {k \in 0..n : \A x : Contains(g[k], x) =>
                                \E i \in 1..k : cs[i] = x /\ Kept(cs, rules, i)}
<1>1. n \in Nat
  OBVIOUS
<1>2. 0 \in T
  BY DEF KeepsTo, Contains
<1>3. ASSUME NEW k \in 0..(n - 1), k \in T PROVE k + 1 \in T
  <2> DEFINE m == k + 1
  <2>1. m \in 1..n /\ m - 1 = k /\ k \in 0..n /\ m \in 0..n /\ 1..k \subseteq 1..m /\ m \in 1..m
    BY <1>1
  <2>2. g[k] \in Seq(Text) /\ cs[m] \in Text
    BY <2>1, ElementOfSeq
  <2>3. g[m] = IF Kept(cs, rules, m) THEN Append(g[k], cs[m]) ELSE g[k]
    BY <2>1 DEF KeepsTo
  <2>4. \A x : Contains(g[k], x) => \E i \in 1..m : cs[i] = x /\ Kept(cs, rules, i)
    BY <1>3, <2>1
  <2> HIDE DEF m
  <2>5. ASSUME NEW x, Contains(g[m], x)
        PROVE  \E i \in 1..m : cs[i] = x /\ Kept(cs, rules, i)
    <3>1. CASE Kept(cs, rules, m)
      <4>1. Contains(g[k], x) \/ x = cs[m]
        <5> DEFINE u == g[k]  v == cs[m]  w == Append(u, v)
        <5>1. /\ Len(u) \in Nat /\ Len(w) = Len(u) + 1 /\ w[Len(u) + 1] = v
              /\ \A j \in 1..Len(u) : w[j] = u[j]
          BY <2>2, AppendProperties
        <5>2. Contains(w, x)
          BY <2>3, <2>5, <3>1
        <5> HIDE DEF u, v, w
        <5>3. Contains(u, x) \/ x = v
          BY <5>1, <5>2 DEF Contains
        <5> QED BY <5>3 DEF u, v
      <4> QED BY <2>1, <2>4, <3>1, <4>1
    <3>2. CASE ~Kept(cs, rules, m)
      BY <2>3, <2>4, <2>5, <3>2
    <3> QED BY <3>1, <3>2
  <2> QED BY <2>1, <2>5 DEF m
<1>4. \A k \in 0..n : k \in T
  <2> HIDE DEF T
  <2> QED BY <1>1, <1>2, <1>3, Climb
<1> QED BY <1>4

(* If the rules keep an entry they keep the later ones like it.            *)
LEMMA KeptAlike ==
  ASSUME NEW cs \in Seq(Text), NEW rules, NEW k \in 1..Len(cs), NEW i \in 1..k,
         cs[i] = cs[k], Kept(cs, rules, i)
  PROVE  Kept(cs, rules, k)
<1>1. ~Ignored(cs[k], rules)
  BY DEF Kept
<1>2. CASE i = k
  BY <1>2
<1>3. CASE i # k
  <2>1. k \in (i + 1)..Len(cs)
    BY <1>3
  <2>2. "duplicates" \notin rules
    BY <2>1 DEF Kept
  <2> QED BY <1>1, <2>2 DEF Kept
<1> QED BY <1>2, <1>3

LEMMA CommandsPrepended ==
  ASSUME NEW r \in Record, NEW rs \in Seq(Record)
  PROVE  CommandsOf(<<r>> \o rs) = <<r.command>> \o CommandsOf(rs)
<1> DEFINE n == Len(rs)  x == <<r>> \o rs  cs == CommandsOf(rs)  y == <<r.command>> \o cs
<1>1. n \in Nat /\ cs \in Seq(Text) /\ Len(cs) = n /\ \A i \in 1..n : cs[i] = rs[i].command
  BY CommandsTyped
<1>2. r.command \in Text
  BY DEF Record
<1>3. /\ x \in Seq(Record) /\ Len(x) = 1 + n
      /\ \A k \in 1..(1 + n) : x[k] = IF k <= 1 THEN r ELSE rs[k - 1]
  <2>1. <<r>> \in Seq(Record) /\ Len(<<r>>) = 1 /\ <<r>>[1] = r
    OBVIOUS
  <2> DEFINE z == <<r>>
  <2> HIDE DEF z
  <2>2. /\ z \o rs \in Seq(Record) /\ Len(z \o rs) = Len(z) + Len(rs)
        /\ \A k \in 1..(Len(z) + Len(rs)) :
             (z \o rs)[k] = IF k <= Len(z) THEN z[k] ELSE rs[k - Len(z)]
    BY <2>1, ConcatProperties DEF z
  <2> QED BY <1>1, <2>1, <2>2 DEF z
<1> HIDE DEF x, cs
<1>4. /\ y \in Seq(Text) /\ Len(y) = 1 + n
      /\ \A k \in 1..(1 + n) : y[k] = IF k <= 1 THEN r.command ELSE cs[k - 1]
  <2> DEFINE c == r.command  z == <<c>>
  <2> HIDE DEF c
  <2>1. z \in Seq(Text) /\ Len(z) = 1 /\ z[1] = c
    BY <1>2 DEF c
  <2> HIDE DEF z
  <2>2. /\ z \o cs \in Seq(Text) /\ Len(z \o cs) = Len(z) + Len(cs)
        /\ \A k \in 1..(Len(z) + Len(cs)) :
             (z \o cs)[k] = IF k <= Len(z) THEN z[k] ELSE cs[k - Len(z)]
    BY <1>1, <2>1, ConcatProperties
  <2> QED BY <1>1, <2>1, <2>2 DEF z, c
<1> HIDE DEF y
<1>5. CommandsOf(x) \in Seq(Text) /\ Len(CommandsOf(x)) = 1 + n
      /\ \A k \in 1..(1 + n) : CommandsOf(x)[k] = x[k].command
  BY <1>3, CommandsTyped
<1>6. \A k \in 1..(1 + n) : CommandsOf(x)[k] = y[k]
  <2> TAKE k \in 1..(1 + n)
  <2>1. CASE k = 1
    BY <1>3, <1>4, <1>5, <2>1
  <2>2. CASE k # 1
    <3>1. k - 1 \in 1..n /\ ~(k <= 1)
      BY <1>1, <2>2
    <3> QED BY <1>1, <1>3, <1>4, <1>5, <3>1
  <2> QED BY <2>1, <2>2
<1>7. CommandsOf(x) = y
  BY <1>4, <1>5, <1>6, SeqEqual
<1> QED BY <1>7 DEF x, y, cs

(* Going down the records, what remains is a permutation of what the rules *)
(* keep of the commands up to there, so a record is taken exactly when its *)
(* command is kept.                                                        *)
LEMMA FiltersAgree ==
  ASSUME NEW rs \in Seq(Record), NEW rules
  PROVE  /\ ApplyIgnoreRulesToRecords(rs, rules) \in Seq(Record)
         /\ CommandsOf(ApplyIgnoreRulesToRecords(rs, rules))
              = ApplyIgnoreRules(CommandsOf(rs), rules)
<1> DEFINE n == Len(rs)  cs == CommandsOf(rs)  kept == ApplyIgnoreRules(cs, rules)
<1>1. n \in Nat /\ cs \in Seq(Text) /\ Len(cs) = n /\ \A i \in 1..n : cs[i] = rs[i].command
  BY CommandsTyped
<1>2. kept \in Seq(Text)
  BY <1>1, RulesLeave
<1> HIDE DEF cs
<1>3. PICK g \in [0..n -> Seq(Text)] : KeepsTo(g, cs, rules) /\ g[n] = kept
  <2>1. \E g \in [0..Len(cs) -> Seq(Text)] : KeepsTo(g, cs, rules) /\ g[Len(cs)] = kept
    BY <1>1, KeptChain DEF KeepsTo
  <2> HIDE DEF kept, n
  <2> QED BY <1>1, <2>1
<1>4. PICK h \in [0..n -> Taking] :
           /\ h[n] = [remaining |-> kept, records |-> <<>>]
           /\ \A k \in 1..n : h[k - 1] = TakeRecord(rs[k], h[k])
           /\ ApplyIgnoreRulesToRecords(rs, rules) = h[0].records
  BY TakeChain DEF cs
<1> DEFINE Agree(k) ==
             /\ g[k] \o CommandsOf(h[k].records) = kept
             /\ \A c : Occurrences(h[k].remaining, c) = Occurrences(g[k], c)
           T == {j \in 0..n : Agree(n - j)}
<1> HIDE DEF kept
<1>5. Agree(n)
  <2>1. n \in 0..n /\ h[n].remaining = kept /\ h[n].records = <<>>
    BY <1>1, <1>4
  <2>2. CommandsOf(<<>>) = <<>>
    BY DEF CommandsOf
  <2>3. kept \o <<>> = kept
    BY <1>2, ConcatEmptySeq
  <2> QED BY <1>3, <2>1, <2>2, <2>3
<1>6. ASSUME NEW k \in 1..n, Agree(k) PROVE Agree(k - 1)
  <2>1. /\ k \in 0..n /\ k - 1 \in 0..n /\ rs[k] \in Record /\ rs[k].command = cs[k]
        /\ cs[k] \in Text /\ g[k - 1] \in Seq(Text) /\ h[k] \in Taking
    <3>1. rs[k] \in Record
      BY ElementOfSeq
    <3>2. cs[k] \in Text
      BY <1>1, ElementOfSeq
    <3> HIDE DEF n
    <3>3. k \in 0..n /\ k - 1 \in 0..n
      BY <1>1
    <3> QED BY <1>1, <3>1, <3>2, <3>3
  <2>2. h[k].remaining \in Seq(Text) /\ h[k].records \in Seq(Record)
    BY <2>1 DEF Taking
  <2>3. h[k - 1] = TakeRecord(rs[k], h[k])
    BY <1>4
  <2>4. g[k] = IF Kept(cs, rules, k) THEN Append(g[k - 1], cs[k]) ELSE g[k - 1]
    BY <1>1, <1>3 DEF KeepsTo
  <2>5. Contains(h[k].remaining, cs[k]) <=> Contains(g[k], cs[k])
    <3>1. g[k] \in Seq(Text)
      BY <2>1
    <3> QED BY <1>6, <2>2, <3>1, OccurrencesTyped
  <2>6. CASE Kept(cs, rules, k)
    <3> DEFINE x == cs[k]  u == g[k - 1]  a == h[k]  b == h[k - 1]  r == rs[k]
               cr == CommandsOf(a.records)
    <3>1. g[k] = Append(u, x)
      BY <2>4, <2>6
    <3>2. \A c : Occurrences(g[k], c) = Occurrences(u, c) + (IF x = c THEN 1 ELSE 0)
      BY <2>1, <3>1, OccurrencesAppended
    <3>3. \A c : Occurrences(u, c) \in Nat
      BY <2>1, OccurrencesTyped
    <3>4. Contains(a.remaining, x)
      <4>1. Occurrences(g[k], x) > 0
        BY <3>2, <3>3
      <4>2. g[k] \in Seq(Text)
        BY <2>1
      <4> QED BY <2>5, <4>1, <4>2, OccurrencesTyped
    <3>5. b.remaining = RemoveFirst(a.remaining, x) /\ b.records = <<r>> \o a.records
      BY <2>1, <2>3, <3>4, TakeRecordTyped
    <3>6. \A c : Occurrences(b.remaining, c)
                   = Occurrences(a.remaining, c) - (IF c = x THEN 1 ELSE 0)
      BY <2>2, <3>4, <3>5, OccurrencesLeft
    <3>7. \A c : Occurrences(b.remaining, c) = Occurrences(u, c)
      <4> TAKE c
      <4>1. Occurrences(a.remaining, c) = Occurrences(g[k], c)
        BY <1>6
      <4> QED BY <3>2, <3>3, <3>6, <4>1
    <3>8. CommandsOf(b.records) = <<x>> \o cr
      BY <2>1, <2>2, <3>5, CommandsPrepended
    <3>9. cr \in Seq(Text) /\ u \in Seq(Text) /\ x \in Text
      BY <2>1, <2>2, CommandsTyped
    <3>10. Append(u, x) \o cr = kept
      BY <1>6, <3>1
    <3> HIDE DEF x, u, cr
    <3>11. u \o (<<x>> \o cr) = kept
      <4>1. Append(u, x) = u \o <<x>>
        BY <3>9, AppendIsConcat
      <4>2. <<x>> \in Seq(Text)
        BY <3>9
      <4> DEFINE z == <<x>>
      <4> HIDE DEF z
      <4>3. (u \o z) \o cr = u \o (z \o cr)
        <5>1. u \in Seq(Text) /\ z \in Seq(Text) /\ cr \in Seq(Text)
          BY <3>9, <4>2 DEF z
        <5> QED BY <5>1
      <4> QED BY <3>10, <4>1, <4>3 DEF z
    <3> QED BY <3>7, <3>8, <3>11 DEF u
  <2>7. CASE ~Kept(cs, rules, k)
    <3>1. ~Contains(g[k], cs[k])
      <4> SUFFICES ASSUME Contains(g[k], cs[k]) PROVE FALSE
        OBVIOUS
      <4>1. PICK i \in 1..k : cs[i] = cs[k] /\ Kept(cs, rules, i)
        <5>1. g \in [0..Len(cs) -> Seq(Text)]
          BY <1>1
        <5>2. \A j \in 0..Len(cs) : \A x : Contains(g[j], x) =>
                 \E i \in 1..j : cs[i] = x /\ Kept(cs, rules, i)
          BY <1>1, <1>3, <5>1, KeptFromEarlier
        <5>3. k \in 0..Len(cs)
          BY <1>1
        <5> QED BY <5>2, <5>3
      <4> QED BY <1>1, <2>7, <4>1, KeptAlike
    <3>2. h[k - 1] = h[k]
      BY <2>1, <2>3, <2>5, <3>1, TakeRecordTyped
    <3>3. g[k - 1] = g[k]
      BY <2>4, <2>7
    <3> QED BY <1>6, <3>2, <3>3
  <2> QED BY <2>6, <2>7
<1>7. 0 \in T
  BY <1>1, <1>5
<1>8. ASSUME NEW j \in 0..(n - 1), j \in T PROVE j + 1 \in T
  <2>1. n - j \in 1..n /\ (n - j) - 1 = n - (j + 1) /\ j + 1 \in 0..n
    BY <1>1
  <2>2. Agree(n - j)
    BY <1>8
  <2> HIDE DEF Agree
  <2>3. Agree((n - j) - 1)
    BY <1>6, <2>1, <2>2
  <2> QED BY <2>1, <2>3
<1>9. Agree(0)
  <2>1. \A j \in 0..n : j \in T
    <3> HIDE DEF T
    <3> QED BY <1>1, <1>7, <1>8, Climb
  <2>2. n \in 0..n /\ n - n = 0
    BY <1>1
  <2> HIDE DEF Agree
  <2> QED BY <2>1, <2>2
<1>10. h[0].records \in Seq(Record) /\ 0 \in 0..n
  BY <1>1 DEF Taking
<1>11. CommandsOf(h[0].records) = kept
  <2>1. g[0] = <<>> /\ CommandsOf(h[0].records) \in Seq(Text)
    BY <1>3, <1>10, CommandsTyped DEF KeepsTo
  <2> QED BY <1>9, <2>1, ConcatEmptySeq
<1> QED BY <1>4, <1>10, <1>11 DEF kept, cs

LEMMA CommandsRetained ==
  ASSUME NEW rs \in Seq(Record), NEW limit \in Nat
  PROVE  CommandsOf(RetainLatest(rs, limit)) = RetainLatest(CommandsOf(rs), limit)
<1> DEFINE cs == CommandsOf(rs)  n == Len(rs)  m == Excess(rs, limit)
           x == RetainLatest(rs, limit)  y == RetainLatest(cs, limit)  z == CommandsOf(x)
<1>1. n \in Nat /\ cs \in Seq(Text) /\ Len(cs) = n /\ \A i \in 1..n : cs[i] = rs[i].command
  BY CommandsTyped
<1>2. /\ x \in Seq(Record) /\ m \in 0..n /\ Len(x) = n - m
      /\ \A i \in 1..(n - m) : x[i] = rs[m + i]
  BY RetainedAre
<1>3. Excess(cs, limit) = m
  BY <1>1 DEF Excess
<1> HIDE DEF cs
<1>4. /\ y \in Seq(Text) /\ Len(y) = n - m /\ \A i \in 1..(n - m) : y[i] = cs[m + i]
  <2> DEFINE e == Excess(cs, limit)
  <2>1. /\ y \in Seq(Text) /\ Len(y) = Len(cs) - e
        /\ \A i \in 1..(Len(cs) - e) : y[i] = cs[e + i]
    BY <1>1, RetainedAre
  <2>2. Len(cs) - e = n - m /\ e = m
    BY <1>1, <1>3
  <2> HIDE DEF y, e, m, n
  <2> QED BY <2>1, <2>2
<1> HIDE DEF x, y, m
<1>5. z \in Seq(Text) /\ Len(z) = n - m /\ \A i \in 1..(n - m) : z[i] = x[i].command
  BY <1>2, CommandsTyped
<1> HIDE DEF z
<1>6. \A i \in 1..(n - m) : z[i] = y[i]
  <2> TAKE i \in 1..(n - m)
  <2>1. m + i \in 1..n
    BY <1>1, <1>2
  <2> QED BY <1>1, <1>2, <1>4, <1>5, <2>1
<1>7. z = y
  BY <1>4, <1>5, <1>6, SeqEqual
<1> QED BY <1>7 DEF z, x, y, cs

LEMMA InvImpliesMatches == Inv => ListingMatchesRecall
<1> SUFFICES ASSUME Inv, NEW s \in Shells
             PROVE  CommandsOf(Inspect(shell[s].config)) = Load(shell[s].config)
  BY DEF ListingMatchesRecall
<1> DEFINE c == shell[s].config  rs == ParseRecords(file)
           shown == ApplyIgnoreRulesToRecords(rs, c.ignore)
<1>1. c \in Config /\ c.size \in Nat
  BY ShellParts DEF Config
<1>2. rs \in Seq(Record)
  BY ReadTyped DEF Inv, FileKept
<1> HIDE DEF rs
<1>3. shown \in Seq(Record) /\ CommandsOf(shown) = ApplyIgnoreRules(CommandsOf(rs), c.ignore)
  BY <1>2, FiltersAgree
<1>4. CommandsOf(RetainLatest(shown, c.size)) = RetainLatest(CommandsOf(shown), c.size)
  BY <1>1, <1>3, CommandsRetained
<1> QED BY <1>3, <1>4 DEF Inspect, Load, rs

(* `history` lists exactly what a prompt would recall.                     *)
THEOREM ListingAlwaysMatches == Spec => []ListingMatchesRecall
BY InitHolds, NextKeeps, InvImpliesMatches, PTL DEF Spec

=============================================================================
