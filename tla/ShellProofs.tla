----------------------------- MODULE ShellProofs -----------------------------
(***************************************************************************)
(* Machine-checked: whatever a script does, however its blocks and calls   *)
(* end and wherever Ctrl+C falls, the interpreter keeps one scope for each *)
(* block and call that is running, with the ones a call hides waiting for  *)
(* it; no two scopes alive together define the same name; and a statement  *)
(* that is leaving runs nothing on its way out.                            *)
(*                                                                         *)
(* The invariant is Fits, between the frames and the stack.  It is proved  *)
(* for each of the three ways the two change: an entry without a scope, a  *)
(* block entered or left, a call entered or left (FitsPlain, FitsBlock,    *)
(* FitsCall), and for values assigned in the scopes there are (FitsGrown). *)
(* The operations of the interpreter are then shown to be one of these,    *)
(* and every action to be made of these operations.                        *)
(***************************************************************************)
EXTENDS Shell, TLAPS, FiniteSetTheorems, SequenceTheorems,
         WellFoundedInduction, NaturalsInduction

----------------------------------------------------------------------------
(* Numbers and sequences. *)

\* Every nonempty set of naturals has a least member.
LEMMA LeastNatural ==
    ASSUME NEW T \in SUBSET Nat, T # {}
    PROVE  \E x \in T : \A y \in T : x <= y
<1>1. PICK x \in T : \A y \in T : <<y, x>> \notin OpToRel(<, Nat)
  BY NatLessThanWellFounded, WFMin
<1>2. ASSUME NEW y \in T, y < x
      PROVE  <<y, x>> \in OpToRel(<, Nat)
  <2> DEFINE p == <<y, x>>
  <2>1. p \in Nat \X Nat /\ p[1] < p[2]
    BY <1>2
  <2> QED
    BY <2>1, Zenon DEF OpToRel
<1>3. \A y \in T : ~(y < x)
  BY <1>1, <1>2, Zenon
<1> QED
  BY <1>3

\* A nonempty set of numbers up to n has a greatest member, and Max is it.
LEMMA MaxIsGreatest ==
    ASSUME NEW n \in Nat, NEW S \in SUBSET (1..n), S # {}
    PROVE  Max(S) \in S /\ \A i \in S : i <= Max(S)
<1> DEFINE T == {n - i : i \in S}
<1>1. \A i \in S : i \in 1..n /\ n - i \in Nat /\ n - i \in T
  OBVIOUS
<1>2. T \subseteq Nat /\ T # {}
  BY <1>1
<1>3. PICK t \in T : \A u \in T : t <= u
  BY <1>2, LeastNatural
<1>4. PICK m \in S : t = n - m
  OBVIOUS
<1>5. \A i \in S : i <= m
  <2> TAKE i \in S
  <2>1. t <= n - i
    BY <1>1, <1>3
  <2> QED
    BY <2>1, <1>4, <1>1
<1>6. \E x \in S : \A y \in S : x >= y
  BY <1>5, <1>1
<1> QED
  BY <1>1, <1>6 DEF Max

\* A finite sequence of anything.
IsSeq(s) == s \in Seq(Range(s))

\* A sequence over any set is a sequence over its own elements.
LEMMA SeqOver ==
    ASSUME NEW S, NEW s \in Seq(S)
    PROVE  IsSeq(s)
<1>1. /\ Len(s) \in Nat /\ s \in [1..Len(s) -> S] /\ DOMAIN s = 1..Len(s)
  BY LenProperties
<1>2. s \in [1..Len(s) -> Range(s)]
  BY <1>1 DEF Range
<1> QED
  BY <1>1, <1>2, SeqDef DEF IsSeq

\* The length, the indices and the emptiness of a sequence agree.
LEMMA SeqShape ==
    ASSUME NEW s, IsSeq(s)
    PROVE  /\ Len(s) \in Nat /\ DOMAIN s = 1..Len(s)
           /\ (s = <<>>) <=> (Len(s) = 0)
BY DEF IsSeq

\* What pushing an entry on a stack leaves of it: the entry first, all others
\* one place further down.
LEMMA SeqPush ==
    ASSUME NEW s, IsSeq(s), NEW x
    PROVE  /\ IsSeq(<<x>> \o s)
           /\ <<x>> \o s # <<>>
           /\ Len(<<x>> \o s) = Len(s) + 1
           /\ DOMAIN (<<x>> \o s) = 1..(Len(s) + 1)
           /\ (<<x>> \o s)[1] = x
           /\ \A i \in 1..Len(s) : (<<x>> \o s)[i + 1] = s[i]
           /\ Head(<<x>> \o s) = x
           /\ Tail(<<x>> \o s) = s
<1> DEFINE S == Range(s) \cup {x}
<1>1. s \in Seq(S) /\ <<x>> \in Seq(S)
  BY DEF IsSeq, Range
<1>2. <<x>> \o s \in Seq(S) /\ Len(<<x>> \o s) = Len(s) + 1
  BY <1>1
<1>3. (<<x>> \o s)[1] = x /\ \A i \in 1..Len(s) : (<<x>> \o s)[i + 1] = s[i]
  BY <1>1
<1>4. IsSeq(<<x>> \o s)
  BY <1>2, SeqOver
<1>5. Head(<<x>> \o s) = x /\ Tail(<<x>> \o s) = s
  BY <1>1
<1> QED
  BY <1>2, <1>3, <1>4, <1>5, SeqShape

\* A stack that is not empty is its top pushed on the rest.
LEMMA SeqPop ==
    ASSUME NEW s, IsSeq(s), s # <<>>
    PROVE  /\ s = <<Head(s)>> \o Tail(s)
           /\ IsSeq(Tail(s)) /\ Len(Tail(s)) = Len(s) - 1
           /\ Head(s) = s[1]
           /\ \A i \in 1..(Len(s) - 1) : Tail(s)[i] = s[i + 1]
<1>1. s \in Seq(Range(s))
  BY DEF IsSeq
<1>2. Tail(s) \in Seq(Range(s)) /\ Len(Tail(s)) = Len(s) - 1 /\ Head(s) \in Range(s)
  BY <1>1, HeadTailProperties
<1>3. IsSeq(Tail(s))
  BY <1>2, SeqOver
<1>4. Head(s) = s[1] /\ \A i \in 1..(Len(s) - 1) : Tail(s)[i] = s[i + 1]
  BY <1>1
<1>5. s = <<Head(s)>> \o Tail(s)
  BY <1>1
<1> QED
  BY <1>2, <1>3, <1>4, <1>5

\* A frame appended comes last, and the others stay where they were.
LEMMA SeqAppend ==
    ASSUME NEW s, IsSeq(s), NEW x
    PROVE  /\ IsSeq(Append(s, x)) /\ Len(Append(s, x)) = Len(s) + 1
           /\ Append(s, x)[Len(s) + 1] = x
           /\ \A i \in 1..Len(s) : Append(s, x)[i] = s[i]
<1> DEFINE S == Range(s) \cup {x}
<1>1. s \in Seq(S) /\ x \in S
  BY DEF IsSeq, Range
<1>2. Append(s, x) \in Seq(S)
  BY <1>1
<1>3. IsSeq(Append(s, x))
  BY <1>2, SeqOver
<1> QED
  BY <1>1, <1>3

\* Without its last frame, a sequence of frames keeps the others.
LEMMA SeqFront ==
    ASSUME NEW s, IsSeq(s), s # <<>>
    PROVE  /\ IsSeq(SubSeq(s, 1, Len(s) - 1)) /\ Len(SubSeq(s, 1, Len(s) - 1)) = Len(s) - 1
           /\ \A i \in 1..(Len(s) - 1) : SubSeq(s, 1, Len(s) - 1)[i] = s[i]
<1> DEFINE m == Len(s) - 1
<1>1. s \in Seq(Range(s)) /\ m \in Nat
  BY SeqShape DEF IsSeq
<1>2. \A i \in 1..m : s[i] \in Range(s)
  BY <1>1, ElementOfSeq
<1>3. /\ SubSeq(s, 1, m) \in Seq(Range(s))
      /\ Len(SubSeq(s, 1, m)) = IF 1 <= m THEN m - 1 + 1 ELSE 0
      /\ \A i \in 1..(m - 1 + 1) : SubSeq(s, 1, m)[i] = s[1 + i - 1]
  <2> HIDE DEF m
  <2>1. 1 \in Int /\ m \in Int
    BY <1>1
  <2> QED
    BY <2>1, <1>2, SubSeqProperties
<1>4. IsSeq(SubSeq(s, 1, m))
  BY <1>3, SeqOver
<1>5. Len(SubSeq(s, 1, m)) = m
  <2> HIDE DEF m
  <2> QED
    BY <1>1, <1>3
<1>6. \A i \in 1..m : SubSeq(s, 1, m)[i] = s[i]
  BY <1>1, <1>3
<1> QED
  BY <1>4, <1>5, <1>6

\* A function on 1..n is a sequence.
LEMMA SeqLike ==
    ASSUME NEW n \in Nat, NEW f, f = [i \in 1..n |-> f[i]]
    PROVE  IsSeq(f) /\ Len(f) = n /\ DOMAIN f = 1..n
<1>1. f \in [1..n -> Range(f)]
  BY DEF Range
<1>2. f \in Seq(Range(f))
  BY <1>1, SeqDef
<1> QED
  BY <1>1, <1>2, LenProperties DEF IsSeq

----------------------------------------------------------------------------
(* The scopes that a stack stands for. *)

\* Below a pushed entry everything is as it was, one place further down.
LEMMA CallsPushed ==
    ASSUME NEW s, IsSeq(s), NEW x
    PROVE  /\ 1 \in Calls(<<x>> \o s) <=> x.kind = "call"
           /\ \A i \in Nat : i >= 1 => (i + 1 \in Calls(<<x>> \o s) <=> i \in Calls(s))
           /\ Calls(s) \subseteq 1..Len(s) /\ Calls(<<x>> \o s) \subseteq 1..(Len(s) + 1)
<1> DEFINE t == <<x>> \o s
<1>1. /\ Len(s) \in Nat /\ DOMAIN s = 1..Len(s) /\ DOMAIN t = 1..(Len(s) + 1)
      /\ t[1] = x /\ \A i \in 1..Len(s) : t[i + 1] = s[i]
  BY SeqPush, SeqShape
<1> HIDE DEF t
<1>2. 1 \in Calls(t) <=> x.kind = "call"
  BY <1>1 DEF Calls
<1>3. ASSUME NEW i \in Nat, i >= 1
      PROVE  i + 1 \in Calls(t) <=> i \in Calls(s)
  <2>1. i + 1 \in DOMAIN t <=> i \in DOMAIN s
    BY <1>1, <1>3
  <2>2. i \in DOMAIN s => t[i + 1] = s[i]
    BY <1>1
  <2> QED
    BY <2>1, <2>2 DEF Calls
<1>4. Calls(s) \subseteq 1..Len(s) /\ Calls(t) \subseteq 1..(Len(s) + 1)
  BY <1>1 DEF Calls
<1> QED
  BY <1>2, <1>3, <1>4 DEF t

\* An entry pushed on the stack moves every other one down: one that was
\* inside a call still is.
LEMMA InCallPushed ==
    ASSUME NEW s, IsSeq(s), NEW x, NEW c \in Nat
    PROVE  InCall(<<x>> \o s, c + 1) <=> InCall(s, c)
<1> DEFINE t == <<x>> \o s
<1> HIDE DEF t
<1>1. ASSUME NEW d \in Calls(s), d > c PROVE InCall(t, c + 1)
  <2>1. d \in 1..Len(s) /\ Len(s) \in Nat
    BY CallsPushed, SeqShape
  <2>2. d \in Nat /\ d >= 1 /\ d + 1 > c + 1
    BY <2>1, <1>1
  <2>3. d + 1 \in Calls(t)
    BY <2>2, CallsPushed DEF t
  <2> QED
    BY <2>2, <2>3 DEF InCall
<1>2. ASSUME NEW d \in Calls(t), d > c + 1 PROVE InCall(s, c)
  <2>1. d \in 1..(Len(s) + 1) /\ Len(s) \in Nat
    BY CallsPushed, SeqShape DEF t
  <2>2. d - 1 \in Nat /\ d - 1 >= 1 /\ (d - 1) + 1 = d /\ d - 1 > c
    BY <2>1, <1>2
  <2>3. d - 1 \in Calls(s)
    BY <2>2, CallsPushed DEF t
  <2> QED
    BY <2>2, <2>3 DEF InCall
<1> QED
  BY <1>1, <1>2 DEF InCall, t

\* ... and the blocks between an entry and the call around it are the same
\* ones.
LEMMA BlocksPushed ==
    ASSUME NEW s, IsSeq(s), NEW x, NEW c \in Nat, NEW i \in Nat, i >= 1
    PROVE  i + 1 \in BlocksBelow(<<x>> \o s, c + 1) <=> i \in BlocksBelow(s, c)
<1> DEFINE t == <<x>> \o s
<1> HIDE DEF t
<1>1. /\ Len(s) \in Nat /\ DOMAIN s = 1..Len(s) /\ DOMAIN t = 1..(Len(s) + 1)
      /\ i + 1 \in DOMAIN t <=> i \in DOMAIN s
      /\ i \in DOMAIN s => t[i + 1] = s[i]
  BY SeqPush, SeqShape DEF t
<1>2. ASSUME \A d \in Calls(t) : d > c + 1 => i + 1 < d, NEW d \in Calls(s), d > c
      PROVE  i < d
  <2>1. d \in 1..Len(s)
    BY CallsPushed
  <2>2. d \in Nat /\ d >= 1 /\ d + 1 > c + 1
    BY <2>1, <1>1, <1>2
  <2>3. d + 1 \in Calls(t)
    BY <2>2, CallsPushed DEF t
  <2> QED
    BY <2>2, <2>3, <1>2
<1>3. ASSUME \A d \in Calls(s) : d > c => i < d, NEW d \in Calls(t), d > c + 1
      PROVE  i + 1 < d
  <2>1. d \in 1..(Len(s) + 1)
    BY CallsPushed DEF t
  <2>2. d - 1 \in Nat /\ d - 1 >= 1 /\ (d - 1) + 1 = d /\ d - 1 > c
    BY <2>1, <1>1, <1>3
  <2>3. d - 1 \in Calls(s)
    BY <2>2, CallsPushed DEF t
  <2> QED
    BY <2>2, <2>3, <1>3
<1>4. (\A d \in Calls(t) : d > c + 1 => i + 1 < d) <=> (\A d \in Calls(s) : d > c => i < d)
  BY <1>2, <1>3
<1>5. i + 1 > c + 1 <=> i > c
  OBVIOUS
<1> QED
  BY <1>1, <1>4, <1>5 DEF BlocksBelow, t

\* The blocks of a stack are among its entries, so they can be counted.
LEMMA BlocksFinite ==
    ASSUME NEW s, IsSeq(s), NEW c \in Nat
    PROVE  /\ BlocksBelow(s, c) \subseteq 1..Len(s)
           /\ IsFiniteSet(BlocksBelow(s, c))
           /\ Cardinality(BlocksBelow(s, c)) \in Nat
           /\ Scopes(s, c) \in Nat
<1>1. BlocksBelow(s, c) \subseteq 1..Len(s) /\ Len(s) \in Nat
  BY SeqShape DEF BlocksBelow
<1>2. IsFiniteSet(BlocksBelow(s, c))
  BY <1>1, FS_Interval, FS_Subset, 1 \in Int, Len(s) \in Int
<1>3. Cardinality(BlocksBelow(s, c)) \in Nat
  BY <1>2, FS_CardinalityType
<1> QED
  BY <1>1, <1>2, <1>3 DEF Scopes

\* A set of positive numbers and the set of their successors are of one size.
LEMMA ShiftedSize ==
    ASSUME NEW A \in SUBSET Nat, NEW B \in SUBSET Nat, IsFiniteSet(A),
           0 \notin A, 0 \notin B, 1 \notin B,
           \A i \in Nat : i >= 1 => (i + 1 \in B <=> i \in A)
    PROVE  IsFiniteSet(B) /\ Cardinality(B) = Cardinality(A)
<1> DEFINE f == [i \in A |-> i + 1]
<1>1. \A i \in A : i \in Nat /\ i >= 1 /\ f[i] \in B
  OBVIOUS
<1>2. ASSUME NEW j \in B PROVE \E i \in A : f[i] = j
  <2>1. j \in Nat /\ j - 1 \in Nat /\ j - 1 >= 1 /\ (j - 1) + 1 = j
    OBVIOUS
  <2>2. j - 1 \in A
    BY <2>1
  <2> QED
    BY <2>1, <2>2
<1>3. \A i, j \in A : f[i] = f[j] => i = j
  BY <1>1
<1>4. f \in Bijection(A, B)
  BY <1>1, <1>2, <1>3 DEF Bijection, Injection, Surjection, IsInjective
<1>5. ExistsBijection(A, B)
  BY <1>4 DEF ExistsBijection
<1> QED
  BY <1>5, FS_Bijection

\* An entry pushed on the stack changes no count of scopes below it.
LEMMA ScopesPushed ==
    ASSUME NEW s, IsSeq(s), NEW x, NEW c \in Nat
    PROVE  Scopes(<<x>> \o s, c + 1) = Scopes(s, c)
<1> DEFINE t == <<x>> \o s
           A == BlocksBelow(s, c)
           B == BlocksBelow(t, c + 1)
<1>1. A \in SUBSET Nat /\ IsFiniteSet(A) /\ 0 \notin A
  <2>1. A \subseteq 1..Len(s) /\ Len(s) \in Nat /\ IsFiniteSet(A)
    BY BlocksFinite, SeqShape
  <2> HIDE DEF A
  <2> QED
    BY <2>1
<1>2. IsSeq(t) /\ Len(t) \in Nat
  BY SeqPush, SeqShape
<1>3. B \in SUBSET Nat /\ 0 \notin B /\ 1 \notin B
  <2>1. B \subseteq 1..Len(t)
    <3> HIDE DEF t
    <3> QED
      BY <1>2, BlocksFinite
  <2>2. 1 \notin B
    BY DEF BlocksBelow
  <2> QED
    BY <2>1, <2>2, <1>2
<1>4. \A i \in Nat : i >= 1 => (i + 1 \in B <=> i \in A)
  BY BlocksPushed
<1>5. Cardinality(B) = Cardinality(A)
  <2> HIDE DEF A, B
  <2> QED
    BY <1>1, <1>3, <1>4, ShiftedSize
<1>6. InCall(t, c + 1) <=> InCall(s, c)
  BY InCallPushed
<1> QED
  BY <1>5, <1>6 DEF Scopes

\* What a pushed entry adds at the top.
LEMMA ScopesOnTop ==
    ASSUME NEW s, IsSeq(s), NEW x
    PROVE  /\ x.kind = "call" => Scopes(<<x>> \o s, 0) = 1 /\ InCall(<<x>> \o s, 0)
           /\ x.kind # "call" => (InCall(<<x>> \o s, 0) <=> InCall(s, 0))
           /\ x.kind = "block" => Scopes(<<x>> \o s, 0) = Scopes(s, 0) + 1
           /\ x.kind \notin {"block", "call"} => Scopes(<<x>> \o s, 0) = Scopes(s, 0)
<1> DEFINE t == <<x>> \o s
<1>1. /\ IsSeq(t) /\ Len(s) \in Nat /\ DOMAIN t = 1..(Len(s) + 1) /\ t[1] = x
      /\ Calls(t) \subseteq 1..(Len(s) + 1)
      /\ 1 \in Calls(t) <=> x.kind = "call"
  BY SeqPush, SeqShape, CallsPushed
<1>2. Scopes(t, 1) = Scopes(s, 0) /\ (InCall(t, 1) <=> InCall(s, 0))
  BY ScopesPushed, InCallPushed, 0 + 1 = 1
<1> HIDE DEF t
<1>3. CASE x.kind = "call"
  <2>1. 1 \in Calls(t) /\ 1 > 0
    BY <1>1, <1>3
  <2>2. BlocksBelow(t, 0) = {}
    BY <2>1, <1>1, <1>3 DEF BlocksBelow
  <2>3. InCall(t, 0)
    BY <2>1 DEF InCall
  <2> QED
    BY <2>2, <2>3, <1>3, FS_EmptySet DEF Scopes, t
<1>4. CASE x.kind # "call"
  <2>1. \A d \in Calls(t) : d \in Nat /\ d > 1 /\ d > 0
    <3> TAKE d \in Calls(t)
    <3>1. d \in 1..(Len(s) + 1) /\ d # 1
      BY <1>1, <1>4
    <3> QED
      BY <3>1, <1>1
  <2>2. InCall(t, 0) <=> InCall(t, 1)
    BY <2>1 DEF InCall
  <2>3. BlocksBelow(t, 1) = BlocksBelow(t, 0) \ {1}
    BY <2>1, <1>1 DEF BlocksBelow
  <2>4. 1 \in BlocksBelow(t, 0) <=> x.kind = "block"
    BY <2>1, <1>1 DEF BlocksBelow
  <2>5. CASE x.kind = "block"
    <3>1. IsFiniteSet(BlocksBelow(t, 0)) /\ Cardinality(BlocksBelow(t, 0)) \in Nat
      BY <1>1, BlocksFinite
    <3>2. Cardinality(BlocksBelow(t, 1)) = Cardinality(BlocksBelow(t, 0)) - 1
      BY <3>1, <2>3, <2>4, <2>5, FS_RemoveElement
    <3>3. Scopes(t, 0) = Scopes(t, 1) + 1
      BY <3>1, <3>2, <2>2 DEF Scopes
    <3> QED
      BY <3>3, <2>2, <1>2, <2>5 DEF t
  <2>6. CASE x.kind # "block"
    <3>1. BlocksBelow(t, 1) = BlocksBelow(t, 0)
      BY <2>3, <2>4, <2>6
    <3> QED
      BY <3>1, <2>2, <1>2, <2>6, <1>4 DEF Scopes, t
  <2> QED
    BY <2>5, <2>6
<1> QED
  BY <1>3, <1>4

----------------------------------------------------------------------------
(* What the frames and the stack are, and how they fit together. *)

\* Every variable is of one of the kinds.
KindsIn(frames) ==
    \A i \in DOMAIN frames : \A v \in DOMAIN frames[i] : v[1] \in Kinds

\* There is always a global frame.
FramesOK(frames) == IsSeq(frames) /\ Len(frames) >= 1 /\ KindsIn(frames)

\* An entry has a kind; that of a call has the scopes it hides.
EntryOK(entry) ==
    /\ "kind" \in DOMAIN entry /\ entry.kind \in Kind
    /\ entry.kind = "call" => IsSeq(entry.saved) /\ KindsIn(entry.saved)

\* The entry of the prompt or of initrc is the outermost.
StackOK(entries) ==
    /\ IsSeq(entries)
    /\ \A i \in DOMAIN entries :
          /\ EntryOK(entries[i])
          /\ entries[i].kind \in {"prompt", "initrc"} => i = Len(entries)

\* The prompt function is being evaluated: that is the outermost entry.
Prompting(entries) == entries # <<>> /\ entries[Len(entries)].kind = "prompt"

\* The two properties, of given frames and entries: what they say of the calls
\* that wait, and of the frames alive.
CallsBalanced(entries) ==
    \A c \in Calls(entries) : Len(entries[c].saved) = Scopes(entries, c)

CallsOwned(global, entries) ==
    \A c \in Calls(entries) :
        SingleOwners(<<global>> \o entries[c].saved, InCall(entries, c))

\* The scopes follow the blocks and each name has one owner.
Fits(frames, entries) ==
    /\ FramesOK(frames) /\ StackOK(entries)
    /\ Len(frames) = 1 + Scopes(entries, 0)
    /\ CallsBalanced(entries)
    /\ SingleOwners(frames, InCall(entries, 0))
    /\ CallsOwned(Head(frames), entries)

\* A well formed entry pushed on a well formed stack leaves one.
LEMMA StackPushed ==
    ASSUME NEW s, StackOK(s), NEW x, EntryOK(x),
           x.kind \in {"prompt", "initrc"} => s = <<>>
    PROVE  /\ StackOK(<<x>> \o s)
           /\ s # <<>> => (Prompting(<<x>> \o s) <=> Prompting(s))
           /\ s = <<>> => (Prompting(<<x>> \o s) <=> x.kind = "prompt")
<1> DEFINE t == <<x>> \o s
<1>1. /\ IsSeq(s) /\ Len(s) \in Nat /\ DOMAIN s = 1..Len(s)
      /\ (s = <<>>) <=> (Len(s) = 0)
  BY SeqShape DEF StackOK
<1>2. /\ IsSeq(t) /\ Len(t) = Len(s) + 1 /\ DOMAIN t = 1..(Len(s) + 1) /\ t[1] = x
      /\ t # <<>> /\ \A i \in 1..Len(s) : t[i + 1] = s[i]
  BY <1>1, SeqPush
<1> HIDE DEF t
<1>3. ASSUME NEW i \in DOMAIN t
      PROVE  EntryOK(t[i]) /\ (t[i].kind \in {"prompt", "initrc"} => i = Len(t))
  <2>1. CASE i = 1
    BY <2>1, <1>1, <1>2
  <2>2. CASE i # 1
    <3>1. i - 1 \in 1..Len(s) /\ (i - 1) + 1 = i
      BY <2>2, <1>1, <1>2
    <3>2. t[i] = s[i - 1]
      BY <3>1, <1>2
    <3>3. EntryOK(s[i - 1]) /\ (s[i - 1].kind \in {"prompt", "initrc"} => i - 1 = Len(s))
      BY <3>1, <1>1 DEF StackOK
    <3> QED
      BY <3>1, <3>2, <3>3, <1>1, <1>2
  <2> QED
    BY <2>1, <2>2
<1>4. s # <<>> => t[Len(t)] = s[Len(s)]
  BY <1>1, <1>2
<1>5. s = <<>> => t[Len(t)] = x
  BY <1>1, <1>2
<1>6. StackOK(t)
  BY <1>2, <1>3 DEF StackOK
<1> QED
  BY <1>2, <1>4, <1>5, <1>6 DEF Prompting, t

\* The stack below a popped entry is well formed, and a prompt stays
\* outermost.
LEMMA StackPopped ==
    ASSUME NEW s, StackOK(s), s # <<>>
    PROVE  /\ s = <<Head(s)>> \o Tail(s) /\ StackOK(Tail(s)) /\ EntryOK(Head(s))
           /\ Head(s).kind \in {"prompt", "initrc"} => Tail(s) = <<>>
           /\ Tail(s) # <<>> => (Prompting(Tail(s)) <=> Prompting(s))
           /\ Prompting(s) /\ Tail(s) = <<>> => Head(s).kind = "prompt"
<1> DEFINE t == Tail(s)
<1>1. /\ IsSeq(s) /\ Len(s) \in Nat /\ DOMAIN s = 1..Len(s) /\ Len(s) # 0
  BY SeqShape DEF StackOK
<1>2. /\ s = <<Head(s)>> \o t /\ IsSeq(t) /\ Len(t) = Len(s) - 1 /\ Head(s) = s[1]
      /\ \A i \in 1..(Len(s) - 1) : t[i] = s[i + 1]
  BY <1>1, SeqPop
<1> HIDE DEF t
<1>3. DOMAIN t = 1..(Len(s) - 1) /\ ((t = <<>>) <=> (Len(s) = 1))
  BY <1>1, <1>2, SeqShape
<1>4. ASSUME NEW i \in DOMAIN t
      PROVE  EntryOK(t[i]) /\ (t[i].kind \in {"prompt", "initrc"} => i = Len(t))
  <2>1. i \in 1..(Len(s) - 1) /\ i + 1 \in DOMAIN s
    BY <1>1, <1>3
  <2>2. t[i] = s[i + 1]
    BY <2>1, <1>2
  <2>3. EntryOK(s[i + 1]) /\ (s[i + 1].kind \in {"prompt", "initrc"} => i + 1 = Len(s))
    BY <2>1 DEF StackOK
  <2> QED
    BY <2>1, <2>2, <2>3, <1>1, <1>2
<1>5. EntryOK(s[1]) /\ (s[1].kind \in {"prompt", "initrc"} => 1 = Len(s))
  <2>1. 1 \in DOMAIN s
    BY <1>1
  <2> QED
    BY <2>1 DEF StackOK
<1>6. t # <<>> => t[Len(t)] = s[Len(s)]
  <2> HAVE t # <<>>
  <2>1. Len(s) - 1 \in 1..(Len(s) - 1) /\ (Len(s) - 1) + 1 = Len(s)
    BY <1>1, <1>3
  <2> QED
    BY <2>1, <1>2
<1>7. t = <<>> => s[Len(s)] = s[1]
  BY <1>3
<1>8. StackOK(t)
  BY <1>2, <1>4 DEF StackOK
<1> QED
  BY <1>1, <1>2, <1>3, <1>5, <1>6, <1>7, <1>8 DEF Prompting, t

\* Pushing an entry keeps the waiting calls balanced when, if it is a call,
\* the scopes it hides are those of the stack below it.
LEMMA CallsBalancedPushed ==
    ASSUME NEW s, IsSeq(s), NEW x
    PROVE  CallsBalanced(<<x>> \o s) <=>
              /\ CallsBalanced(s)
              /\ x.kind = "call" => Len(x.saved) = Scopes(s, 0)
<1> DEFINE t == <<x>> \o s
<1>1. /\ Calls(s) \subseteq 1..Len(s) /\ Calls(t) \subseteq 1..(Len(s) + 1)
      /\ 1 \in Calls(t) <=> x.kind = "call"
      /\ \A i \in Nat : i >= 1 => (i + 1 \in Calls(t) <=> i \in Calls(s))
  BY CallsPushed
<1>2. Len(s) \in Nat /\ t[1] = x /\ \A i \in 1..Len(s) : t[i + 1] = s[i]
  BY SeqPush, SeqShape
<1>3. \A c \in Nat : Scopes(t, c + 1) = Scopes(s, c)
  BY ScopesPushed
<1>4. Scopes(t, 1) = Scopes(s, 0)
  BY <1>3, 0 + 1 = 1
<1> HIDE DEF t
<1>5. ASSUME NEW c \in Calls(s)
      PROVE  /\ c + 1 \in Calls(t) /\ t[c + 1] = s[c] /\ Scopes(t, c + 1) = Scopes(s, c)
  <2>1. c \in Nat /\ c >= 1 /\ c \in 1..Len(s)
    BY <1>1, <1>2
  <2> QED
    BY <2>1, <1>1, <1>2, <1>3
<1>6. ASSUME NEW d \in Calls(t), d # 1
      PROVE  \E c \in Calls(s) : d = c + 1
  <2>1. d \in 1..(Len(s) + 1)
    BY <1>1
  <2>2. d - 1 \in Nat /\ d - 1 >= 1 /\ (d - 1) + 1 = d
    BY <2>1, <1>2, <1>6
  <2>3. d - 1 \in Calls(s)
    BY <2>2, <1>1
  <2> QED
    BY <2>2, <2>3
<1>7. ASSUME CallsBalanced(t)
      PROVE  CallsBalanced(s) /\ (x.kind = "call" => Len(x.saved) = Scopes(s, 0))
  <2>1. \A c \in Calls(s) : Len(s[c].saved) = Scopes(s, c)
    BY <1>5, <1>7 DEF CallsBalanced
  <2>2. x.kind = "call" => Len(t[1].saved) = Scopes(t, 1)
    BY <1>1, <1>7 DEF CallsBalanced
  <2> QED
    BY <2>1, <2>2, <1>2, <1>4 DEF CallsBalanced
<1>8. ASSUME CallsBalanced(s), x.kind = "call" => Len(x.saved) = Scopes(s, 0)
      PROVE  CallsBalanced(t)
  <2> SUFFICES ASSUME NEW d \in Calls(t) PROVE Len(t[d].saved) = Scopes(t, d)
    BY DEF CallsBalanced
  <2>1. CASE d = 1
    BY <2>1, <1>1, <1>2, <1>4, <1>8
  <2>2. CASE d # 1
    <3>1. PICK c \in Calls(s) : d = c + 1
      BY <2>2, <1>6
    <3>2. Len(s[c].saved) = Scopes(s, c)
      BY <1>8 DEF CallsBalanced
    <3> QED
      BY <3>1, <3>2, <1>5
  <2> QED
    BY <2>1, <2>2
<1> QED
  BY <1>7, <1>8 DEF t

\* The same of the owners of the names that the waiting calls hide.
LEMMA CallsOwnedPushed ==
    ASSUME NEW s, IsSeq(s), NEW x, NEW g
    PROVE  CallsOwned(g, <<x>> \o s) <=>
              /\ CallsOwned(g, s)
              /\ x.kind = "call" => SingleOwners(<<g>> \o x.saved, InCall(s, 0))
<1> DEFINE t == <<x>> \o s
<1>1. /\ Calls(s) \subseteq 1..Len(s) /\ Calls(t) \subseteq 1..(Len(s) + 1)
      /\ 1 \in Calls(t) <=> x.kind = "call"
      /\ \A i \in Nat : i >= 1 => (i + 1 \in Calls(t) <=> i \in Calls(s))
  BY CallsPushed
<1>2. Len(s) \in Nat /\ t[1] = x /\ \A i \in 1..Len(s) : t[i + 1] = s[i]
  BY SeqPush, SeqShape
<1>3. \A c \in Nat : InCall(t, c + 1) <=> InCall(s, c)
  BY InCallPushed
<1>4. InCall(t, 1) <=> InCall(s, 0)
  BY <1>3, 0 + 1 = 1
<1> DEFINE Owns(e, b) == SingleOwners(<<g>> \o e.saved, b)
<1> HIDE DEF t, Owns
<1>5. \A e : \A a \in BOOLEAN, b \in BOOLEAN : (a <=> b) => (Owns(e, a) <=> Owns(e, b))
  BY Zenon
<1>6. (\A c : InCall(t, c) \in BOOLEAN) /\ (\A c : InCall(s, c) \in BOOLEAN)
  BY DEF InCall
<1>7. ASSUME NEW c \in Calls(s)
      PROVE  c + 1 \in Calls(t) /\ t[c + 1] = s[c] /\ (InCall(t, c + 1) <=> InCall(s, c))
  <2>1. c \in Nat /\ c >= 1 /\ c \in 1..Len(s)
    BY <1>1, <1>2
  <2> QED
    BY <2>1, <1>1, <1>2, <1>3
<1>8. \A c \in Calls(s) : Owns(t[c + 1], InCall(t, c + 1)) <=> Owns(s[c], InCall(s, c))
  BY <1>5, <1>6, <1>7, Zenon
<1>9. Owns(t[1], InCall(t, 1)) <=> Owns(x, InCall(s, 0))
  BY <1>2, <1>4, <1>5, <1>6, Zenon
<1>10. ASSUME NEW d \in Calls(t), d # 1
       PROVE  \E c \in Calls(s) : d = c + 1
  <2>1. d \in 1..(Len(s) + 1)
    BY <1>1
  <2>2. d - 1 \in Nat /\ d - 1 >= 1 /\ (d - 1) + 1 = d
    BY <2>1, <1>2, <1>10
  <2>3. d - 1 \in Calls(s)
    BY <2>2, <1>1
  <2> QED
    BY <2>2, <2>3
<1>11. (\A d \in Calls(t) : Owns(t[d], InCall(t, d))) <=>
          /\ \A c \in Calls(s) : Owns(s[c], InCall(s, c))
          /\ x.kind = "call" => Owns(x, InCall(s, 0))
  <2>1. ASSUME \A d \in Calls(t) : Owns(t[d], InCall(t, d))
        PROVE  /\ \A c \in Calls(s) : Owns(s[c], InCall(s, c))
               /\ x.kind = "call" => Owns(x, InCall(s, 0))
    BY <2>1, <1>1, <1>7, <1>8, <1>9, Zenon
  <2>2. ASSUME \A c \in Calls(s) : Owns(s[c], InCall(s, c)),
               x.kind = "call" => Owns(x, InCall(s, 0)),
               NEW d \in Calls(t)
        PROVE  Owns(t[d], InCall(t, d))
    BY <2>2, <1>1, <1>8, <1>9, <1>10, Zenon
  <2> QED
    BY <2>1, <2>2, Zenon
<1> QED
  BY <1>11, Zenon DEF CallsOwned, Owns, t

\* Entries that are neither blocks nor calls need no scope.
LEMMA FitsPlain ==
    ASSUME NEW f, NEW s, StackOK(s), NEW x, EntryOK(x), x.kind \notin {"block", "call"},
           x.kind \in {"prompt", "initrc"} => s = <<>>
    PROVE  Fits(f, <<x>> \o s) <=> Fits(f, s)
<1>1. IsSeq(s)
  BY DEF StackOK
<1>2. StackOK(<<x>> \o s)
  BY StackPushed
<1>3. Scopes(<<x>> \o s, 0) = Scopes(s, 0) /\ (InCall(<<x>> \o s, 0) <=> InCall(s, 0))
  BY <1>1, ScopesOnTop
<1>4. CallsBalanced(<<x>> \o s) <=> CallsBalanced(s)
  BY <1>1, CallsBalancedPushed
<1>5. CallsOwned(Head(f), <<x>> \o s) <=> CallsOwned(Head(f), s)
  BY <1>1, CallsOwnedPushed
<1>6. SingleOwners(f, InCall(<<x>> \o s, 0)) <=> SingleOwners(f, InCall(s, 0))
  BY <1>3, Zenon DEF SingleOwners
<1> QED
  BY <1>2, <1>3, <1>4, <1>5, <1>6 DEF Fits

\* A block fits on one frame more.
LEMMA FitsBlock ==
    ASSUME NEW f, NEW g, NEW s, StackOK(s), NEW x, EntryOK(x), x.kind = "block",
           FramesOK(f), FramesOK(g), Len(g) = Len(f) + 1, Head(g) = Head(f)
    PROVE  /\ Fits(f, s) /\ SingleOwners(g, InCall(s, 0)) => Fits(g, <<x>> \o s)
           /\ (SingleOwners(g, InCall(s, 0)) => SingleOwners(f, InCall(s, 0))) =>
                (Fits(g, <<x>> \o s) => Fits(f, s))
<1>1. IsSeq(s)
  BY DEF StackOK
<1>2. StackOK(<<x>> \o s)
  BY StackPushed
<1>3. Scopes(<<x>> \o s, 0) = Scopes(s, 0) + 1 /\ (InCall(<<x>> \o s, 0) <=> InCall(s, 0))
  BY <1>1, ScopesOnTop
<1>4. CallsBalanced(<<x>> \o s) <=> CallsBalanced(s)
  BY <1>1, CallsBalancedPushed
<1>5. CallsOwned(Head(g), <<x>> \o s) <=> CallsOwned(Head(f), s)
  BY <1>1, CallsOwnedPushed
<1>6. SingleOwners(g, InCall(<<x>> \o s, 0)) <=> SingleOwners(g, InCall(s, 0))
  BY <1>3, Zenon DEF SingleOwners
<1>7. Len(g) = 1 + Scopes(<<x>> \o s, 0) <=> Len(f) = 1 + Scopes(s, 0)
  <2>1. Len(g) \in Int /\ Len(f) \in Int /\ Scopes(s, 0) \in Int
    BY <1>1, SeqShape, BlocksFinite DEF FramesOK
  <2> QED
    BY <2>1, <1>3
<1> QED
  BY <1>2, <1>4, <1>5, <1>6, <1>7 DEF Fits

\* A call fits with the frames it hides in its entry, on the global frame and
\* that of its parameters.
LEMMA FitsCall ==
    ASSUME NEW f, NEW g, NEW s, StackOK(s), NEW x, EntryOK(x), x.kind = "call",
           FramesOK(f), FramesOK(g), Len(g) = 2, Head(g) = Head(f),
           f = <<Head(f)>> \o x.saved, Len(f) = Len(x.saved) + 1,
           SingleOwners(g, TRUE)
    PROVE  Fits(g, <<x>> \o s) <=> Fits(f, s)
<1>1. IsSeq(s)
  BY DEF StackOK
<1>2. StackOK(<<x>> \o s)
  BY StackPushed
<1>3. Scopes(<<x>> \o s, 0) = 1 /\ (InCall(<<x>> \o s, 0) <=> TRUE)
  BY <1>1, ScopesOnTop
<1>4. CallsBalanced(<<x>> \o s) <=> CallsBalanced(s) /\ Len(x.saved) = Scopes(s, 0)
  BY <1>1, CallsBalancedPushed
<1>5. CallsOwned(Head(g), <<x>> \o s) <=>
         CallsOwned(Head(f), s) /\ SingleOwners(<<Head(f)>> \o x.saved, InCall(s, 0))
  BY <1>1, CallsOwnedPushed
<1>6. SingleOwners(<<Head(f)>> \o x.saved, InCall(s, 0)) <=> SingleOwners(f, InCall(s, 0))
  <2>1. <<Head(f)>> \o x.saved = f
    OBVIOUS
  <2> QED
    BY <2>1, Zenon
<1>7. SingleOwners(g, InCall(<<x>> \o s, 0))
  BY <1>3, Zenon DEF SingleOwners
<1>8. Len(x.saved) = Scopes(s, 0) <=> Len(f) = 1 + Scopes(s, 0)
  <2>1. Len(x.saved) \in Int /\ Scopes(s, 0) \in Int
    BY <1>1, SeqShape, BlocksFinite DEF EntryOK
  <2> QED
    BY <2>1
<1> QED
  BY <1>2, <1>3, <1>4, <1>5, <1>6, <1>7, <1>8 DEF Fits

----------------------------------------------------------------------------
(* Frames. *)

\* Pushing an empty frame, or popping one, keeps every owner.
LEMMA ScopePushed ==
    ASSUME NEW f, FramesOK(f), NEW b
    PROVE  /\ FramesOK(Append(f, <<>>))
           /\ Len(Append(f, <<>>)) = Len(f) + 1
           /\ Head(Append(f, <<>>)) = Head(f)
           /\ SingleOwners(Append(f, <<>>), b) <=> SingleOwners(f, b)
<1> DEFINE g == Append(f, <<>>)
<1>1. IsSeq(f) /\ Len(f) \in Nat /\ Len(f) >= 1 /\ DOMAIN f = 1..Len(f)
  BY SeqShape DEF FramesOK
<1>2. /\ IsSeq(g) /\ Len(g) = Len(f) + 1 /\ g[Len(f) + 1] = <<>>
      /\ \A i \in 1..Len(f) : g[i] = f[i]
  BY <1>1, SeqAppend
<1>3. DOMAIN <<>> = {}
  OBVIOUS
<1> HIDE DEF g
<1>4. DOMAIN g = 1..(Len(f) + 1)
  BY <1>2, SeqShape
<1>5. Head(g) = g[1] /\ Head(f) = f[1] /\ g[1] = f[1]
  <2>1. g # <<>> /\ f # <<>>
    BY <1>1, <1>2, SeqShape
  <2> QED
    BY <2>1, <1>1, <1>2, SeqPop
<1>6. KindsIn(g)
  BY <1>1, <1>2, <1>3, <1>4 DEF KindsIn, FramesOK
<1>7. FramesOK(g)
  BY <1>1, <1>2, <1>6 DEF FramesOK
<1>8. SingleOwners(g, b) <=> SingleOwners(f, b)
  BY <1>1, <1>2, <1>3, <1>4 DEF SingleOwners
<1> QED
  BY <1>2, <1>5, <1>7, <1>8 DEF g

\* pop_scope takes a scope away and no name gets a second owner by it.
LEMMA ScopePopped ==
    ASSUME NEW f, FramesOK(f), Len(f) > 1, NEW b
    PROVE  LET g == SubSeq(f, 1, Len(f) - 1)
           IN  /\ FramesOK(g) /\ Len(f) = Len(g) + 1 /\ Head(g) = Head(f)
               /\ SingleOwners(f, b) => SingleOwners(g, b)
<1> DEFINE g == SubSeq(f, 1, Len(f) - 1)
<1>1. IsSeq(f) /\ Len(f) \in Nat /\ f # <<>> /\ DOMAIN f = 1..Len(f)
  BY SeqShape DEF FramesOK
<1>2. IsSeq(g) /\ Len(g) = Len(f) - 1 /\ \A i \in 1..(Len(f) - 1) : g[i] = f[i]
  BY <1>1, SeqFront
<1> HIDE DEF g
<1>3. DOMAIN g = 1..(Len(f) - 1) /\ g # <<>>
  BY <1>1, <1>2, SeqShape
<1>4. Head(g) = g[1] /\ Head(f) = f[1] /\ g[1] = f[1]
  BY <1>1, <1>2, <1>3, SeqPop
<1>5. KindsIn(g)
  BY <1>1, <1>2, <1>3 DEF KindsIn, FramesOK
<1>6. FramesOK(g)
  BY <1>1, <1>2, <1>5 DEF FramesOK
<1>7. SingleOwners(f, b) => SingleOwners(g, b)
  BY <1>1, <1>2, <1>3 DEF SingleOwners
<1> QED
  BY <1>1, <1>2, <1>4, <1>6, <1>7 DEF g

\* Hiding the frames above the global one, and getting them back.
LEMMA ScopesHidden ==
    ASSUME NEW f, FramesOK(f)
    PROVE  /\ f = <<Head(f)>> \o Tail(f) /\ IsSeq(Tail(f)) /\ KindsIn(Tail(f))
           /\ Len(f) = Len(Tail(f)) + 1
           /\ Head(f) = f[1] /\ \A v \in DOMAIN Head(f) : v[1] \in Kinds
<1>1. IsSeq(f) /\ Len(f) \in Nat /\ f # <<>> /\ DOMAIN f = 1..Len(f) /\ Len(f) >= 1
  BY SeqShape DEF FramesOK
<1>2. /\ f = <<Head(f)>> \o Tail(f) /\ IsSeq(Tail(f)) /\ Len(Tail(f)) = Len(f) - 1
      /\ Head(f) = f[1] /\ \A i \in 1..(Len(f) - 1) : Tail(f)[i] = f[i + 1]
  BY <1>1, SeqPop
<1>3. DOMAIN Tail(f) = 1..(Len(f) - 1)
  BY <1>2, SeqShape
<1>4. KindsIn(Tail(f))
  <2> SUFFICES ASSUME NEW i \in DOMAIN Tail(f), NEW v \in DOMAIN Tail(f)[i]
               PROVE  v[1] \in Kinds
    BY DEF KindsIn
  <2>1. i + 1 \in DOMAIN f /\ Tail(f)[i] = f[i + 1]
    BY <1>1, <1>2, <1>3
  <2> QED
    BY <2>1 DEF KindsIn, FramesOK
<1>5. \A v \in DOMAIN Head(f) : v[1] \in Kinds
  <2>1. 1 \in DOMAIN f
    BY <1>1
  <2> QED
    BY <2>1, <1>2 DEF KindsIn, FramesOK
<1> QED
  BY <1>1, <1>2, <1>4, <1>5

\* restore_scope, after a call: the frames are the global one and the saved
\* ones.
LEMMA ScopesRestored ==
    ASSUME NEW h, \A v \in DOMAIN h : v[1] \in Kinds,
           NEW saved, IsSeq(saved), KindsIn(saved)
    PROVE  /\ FramesOK(<<h>> \o saved) /\ Head(<<h>> \o saved) = h
           /\ Len(<<h>> \o saved) = Len(saved) + 1
           /\ Tail(<<h>> \o saved) = saved
<1> DEFINE f == <<h>> \o saved
<1>1. /\ IsSeq(f) /\ Len(f) = Len(saved) + 1 /\ DOMAIN f = 1..(Len(saved) + 1)
      /\ f[1] = h /\ Head(f) = h /\ Tail(f) = saved
      /\ \A i \in 1..Len(saved) : f[i + 1] = saved[i]
  BY SeqPush
<1>2. Len(saved) \in Nat /\ DOMAIN saved = 1..Len(saved)
  BY SeqShape
<1> HIDE DEF f
<1>3. KindsIn(f)
  <2> SUFFICES ASSUME NEW i \in DOMAIN f, NEW v \in DOMAIN f[i]
               PROVE  v[1] \in Kinds
    BY DEF KindsIn
  <2>1. CASE i = 1
    BY <2>1, <1>1
  <2>2. CASE i # 1
    <3>1. i - 1 \in DOMAIN saved /\ (i - 1) + 1 = i
      BY <2>2, <1>1, <1>2
    <3>2. f[i] = saved[i - 1]
      BY <3>1, <1>1, <1>2
    <3> QED
      BY <3>1, <3>2 DEF KindsIn
  <2> QED
    BY <2>1, <2>2
<1>4. FramesOK(f)
  BY <1>1, <1>2, <1>3 DEF FramesOK
<1> QED
  BY <1>1, <1>4 DEF f

\* What assignments and drop may make of the frames: the innermost one gains
\* only names nobody holds, the others none.
Grown(f, g) ==
    /\ IsSeq(g) /\ Len(g) = Len(f)
    /\ \A i \in 1..Len(f) : i < Len(f) => DOMAIN g[i] \subseteq DOMAIN f[i]
    /\ \A v \in DOMAIN g[Len(f)] :
          \/ v \in DOMAIN f[Len(f)]
          \/ v[1] \in Kinds /\ \A i \in 1..Len(f) : v \notin DOMAIN f[i]

\* Assigning to names where they are, or new ones in the innermost scope,
\* keeps the frames in step with the stack: this is where one owner for each
\* name comes from.
LEMMA FitsGrown ==
    ASSUME NEW f, NEW g, NEW s, Fits(f, s), Grown(f, g)
    PROVE  Fits(g, s)
<1>1. /\ IsSeq(f) /\ Len(f) \in Nat /\ Len(f) >= 1 /\ DOMAIN f = 1..Len(f) /\ f # <<>>
      /\ IsSeq(g) /\ DOMAIN g = 1..Len(f) /\ Len(g) = Len(f) /\ g # <<>>
  BY SeqShape DEF Fits, FramesOK, Grown
<1>2. Head(f) = f[1] /\ Head(g) = g[1]
  BY <1>1, SeqPop
<1>3. \A i \in 1..Len(f) : i < Len(f) => DOMAIN g[i] \subseteq DOMAIN f[i]
  BY DEF Grown
<1>4. \A v \in DOMAIN g[Len(f)] :
         \/ v \in DOMAIN f[Len(f)]
         \/ v[1] \in Kinds /\ \A i \in 1..Len(f) : v \notin DOMAIN f[i]
  BY DEF Grown
<1>5. \A i \in 1..Len(f) : \A v \in DOMAIN f[i] : v[1] \in Kinds
  BY <1>1 DEF Fits, FramesOK, KindsIn
<1>6. \A i \in 1..Len(f) : i < Len(f) \/ i = Len(f)
  <2>1. Len(f) \in Nat
    BY <1>1
  <2> QED
    BY <2>1
<1>7. KindsIn(g)
  <2> SUFFICES ASSUME NEW i \in 1..Len(f), NEW v \in DOMAIN g[i]
               PROVE  v[1] \in Kinds
    BY <1>1 DEF KindsIn
  <2>1. CASE i < Len(f)
    BY <2>1, <1>3, <1>5
  <2>2. CASE i = Len(f)
    BY <2>2, <1>4, <1>5
  <2> QED
    BY <2>1, <2>2, <1>6
<1>8. SingleOwners(g, InCall(s, 0))
  <2> SUFFICES ASSUME NEW i \in 1..Len(f), NEW j \in 1..Len(f), i < j,
                      NEW v, v \in DOMAIN g[i], v \in DOMAIN g[j]
               PROVE  i = 1 /\ j = 2 /\ InCall(s, 0)
    BY <1>1 DEF SingleOwners
  <2>1. v \in DOMAIN f[i]
    BY <1>1, <1>3
  <2>2. v \in DOMAIN f[j]
    <3>1. CASE j < Len(f)
      BY <3>1, <1>3
    <3>2. CASE j = Len(f)
      BY <3>2, <2>1, <1>4
    <3> QED
      BY <3>1, <3>2, <1>6
  <2>3. SingleOwners(f, InCall(s, 0))
    BY DEF Fits
  <2> QED
    BY <2>1, <2>2, <2>3, <1>1 DEF SingleOwners
<1>9. CallsOwned(Head(g), s)
  <2>1. CASE Len(f) = 1
    <3>1. IsSeq(s) /\ Scopes(s, 0) \in Nat /\ 1 = 1 + Scopes(s, 0)
      BY <2>1, BlocksFinite DEF Fits, StackOK
    <3>2. Cardinality(BlocksBelow(s, 0)) \in Nat
      BY <3>1, BlocksFinite
    <3>3. ~InCall(s, 0)
      BY <3>1, <3>2 DEF Scopes
    <3>4. \A c \in Calls(s) : c > 0
      BY <3>1, SeqShape DEF Calls
    <3>5. Calls(s) = {}
      BY <3>3, <3>4 DEF InCall
    <3> QED
      BY <3>5 DEF CallsOwned
  <2>2. CASE Len(f) > 1
    <3> SUFFICES ASSUME NEW c \in Calls(s)
                 PROVE  SingleOwners(<<Head(g)>> \o s[c].saved, InCall(s, c))
      BY DEF CallsOwned
    <3> DEFINE saved == s[c].saved
    <3>1. DOMAIN Head(g) \subseteq DOMAIN Head(f)
      BY <2>2, <1>1, <1>2, <1>3
    <3>2. SingleOwners(<<Head(f)>> \o saved, InCall(s, c))
      BY DEF Fits, CallsOwned
    <3>3. IsSeq(saved)
      BY DEF Fits, StackOK, EntryOK, Calls
    <3> HIDE DEF saved
    <3> DEFINE p == <<Head(f)>> \o saved
               q == <<Head(g)>> \o saved
    <3>4. /\ Len(saved) \in Nat /\ DOMAIN p = 1..(Len(saved) + 1) /\ p[1] = Head(f)
          /\ DOMAIN q = 1..(Len(saved) + 1) /\ q[1] = Head(g)
          /\ \A i \in 1..Len(saved) : p[i + 1] = saved[i] /\ q[i + 1] = saved[i]
      BY <3>3, SeqPush, SeqShape
    <3> HIDE DEF p, q
    <3>5. ASSUME NEW i \in 1..(Len(saved) + 1) PROVE DOMAIN q[i] \subseteq DOMAIN p[i]
      <4>1. CASE i = 1
        BY <4>1, <3>1, <3>4
      <4>2. CASE i # 1
        <5>1. i - 1 \in 1..Len(saved) /\ (i - 1) + 1 = i
          BY <4>2, <3>4
        <5> QED
          BY <5>1, <3>4
      <4> QED
        BY <4>1, <4>2
    <3>6. SingleOwners(q, InCall(s, c))
      <4>1. SingleOwners(p, InCall(s, c))
        BY <3>2 DEF p
      <4>2. SUFFICES ASSUME NEW i \in DOMAIN q, NEW j \in DOMAIN q, i < j,
                            DOMAIN q[i] \cap DOMAIN q[j] # {}
                     PROVE  i = 1 /\ j = 2 /\ InCall(s, c)
        BY DEF SingleOwners
      <4>3. DOMAIN p[i] \cap DOMAIN p[j] # {} /\ i \in DOMAIN p /\ j \in DOMAIN p
        BY <4>2, <3>4, <3>5
      <4> QED
        BY <4>1, <4>2, <4>3 DEF SingleOwners
    <3> QED
      BY <3>6 DEF q, saved
  <2> QED
    BY <2>1, <2>2, <1>1
<1> QED
  BY <1>1, <1>7, <1>8, <1>9 DEF Fits, FramesOK

----------------------------------------------------------------------------
(* The interpreter. *)

IsInterpreter(I) ==
    I = [frames |-> I.frames, functions |-> I.functions, status |-> I.status,
         capturing |-> I.capturing, captured |-> I.captured]

\* Replacing the frames of an interpreter leaves the rest of it.
LEMMA FramesReplaced ==
    ASSUME NEW I, IsInterpreter(I), NEW f
    PROVE  LET J == [I EXCEPT !.frames = f]
           IN  /\ IsInterpreter(J) /\ J.frames = f
               /\ J.functions = I.functions /\ J.status = I.status
               /\ J.capturing = I.capturing
BY DEF IsInterpreter

\* set_previous_status changes only the status.
LEMMA StatusSet ==
    ASSUME NEW I, IsInterpreter(I), NEW ok
    PROVE  /\ IsInterpreter(SetStatus(I, ok)) /\ SetStatus(I, ok).status = ok
           /\ SetStatus(I, ok).frames = I.frames /\ SetStatus(I, ok).functions = I.functions
           /\ SetStatus(I, ok).capturing = I.capturing
BY DEF IsInterpreter, SetStatus

\* A variable's home is the frame that holds it, or the innermost one when
\* none does.
LEMMA HomeHolds ==
    ASSUME NEW f, FramesOK(f), NEW v
    PROVE  /\ Home(f, v) \in 1..Len(f)
           /\ \/ v \in DOMAIN f[Home(f, v)]
              \/ Home(f, v) = Len(f) /\ \A i \in 1..Len(f) : v \notin DOMAIN f[i]
<1> DEFINE holders == {i \in DOMAIN f : v \in DOMAIN f[i]}
<1>1. Len(f) \in Nat /\ Len(f) >= 1 /\ DOMAIN f = 1..Len(f)
  BY SeqShape DEF FramesOK
<1>2. holders \in SUBSET (1..Len(f))
  BY <1>1
<1>3. CASE holders = {}
  BY <1>1, <1>3 DEF Home, Owner
<1>4. CASE holders # {}
  <2>1. Max(holders) \in holders
    <3> HIDE DEF holders
    <3> QED
      BY <1>1, <1>2, <1>4, MaxIsGreatest
  <2>2. Owner(f, v) = Max(holders)
    BY <1>4 DEF Owner
  <2>3. Max(holders) \in 1..Len(f) /\ Max(holders) # 0 /\ v \in DOMAIN f[Max(holders)]
    BY <2>1, <1>1
  <2> QED
    BY <2>2, <2>3, <1>1, Zenon DEF Home
<1> QED
  BY <1>3, <1>4

\* What an assignment, or a statement that runs no other, leaves.
Stepped(I, J) ==
    /\ IsInterpreter(J) /\ J.functions = I.functions /\ J.capturing = I.capturing
    /\ Grown(I.frames, J.frames)

\* Frames that nothing is assigned to are as they were.
LEMMA GrownSame ==
    ASSUME NEW f, IsSeq(f) PROVE Grown(f, f)
<1>1. Len(f) \in Nat
  BY SeqShape
<1> QED
  BY <1>1 DEF Grown

\* An overlaid frame has the variables of both.
LEMMA OverlayDomain ==
    ASSUME NEW a, NEW b PROVE DOMAIN Overlay(a, b) = (DOMAIN a) \cup (DOMAIN b)
BY DEF Overlay

\* set_scalar and its kin, over several variables: each goes to the scope that
\* owns it or, new, to the innermost one.
LEMMA SetVariablesSteps ==
    ASSUME NEW I, IsInterpreter(I), FramesOK(I.frames), NEW values,
           \A v \in DOMAIN values : v[1] \in Kinds
    PROVE  Stepped(I, SetVariables(I, values)) /\ SetVariables(I, values).status = I.status
<1> DEFINE f == I.frames
           mine(i) == {v \in DOMAIN values : Home(f, v) = i}
           g == [i \in DOMAIN f |-> Overlay(Restrict(values, mine(i)), f[i])]
<1>1. SetVariables(I, values) = [I EXCEPT !.frames = g]
  BY DEF SetVariables, IsInterpreter
<1>2. Len(f) \in Nat /\ Len(f) >= 1 /\ DOMAIN f = 1..Len(f)
  BY SeqShape DEF FramesOK
<1>3. IsSeq(g) /\ Len(g) = Len(f)
  <2>1. g = [i \in 1..Len(f) |-> g[i]]
    BY <1>2
  <2> HIDE DEF g
  <2> QED
    BY <2>1, <1>2, SeqLike
<1>4. \A i \in 1..Len(f) : DOMAIN g[i] = mine(i) \cup DOMAIN f[i]
  <2> TAKE i \in 1..Len(f)
  <2>1. DOMAIN Restrict(values, mine(i)) = mine(i)
    BY DEF Restrict
  <2>2. g[i] = Overlay(Restrict(values, mine(i)), f[i])
    BY <1>2
  <2> QED
    BY <2>1, <2>2, OverlayDomain
<1>5. \A v : /\ Home(f, v) \in 1..Len(f)
             /\ \/ v \in DOMAIN f[Home(f, v)]
                \/ Home(f, v) = Len(f) /\ \A i \in 1..Len(f) : v \notin DOMAIN f[i]
  BY HomeHolds
<1> HIDE DEF g, f
<1>6. ASSUME NEW i \in 1..Len(f), i < Len(f)
      PROVE  DOMAIN g[i] \subseteq DOMAIN f[i]
  BY <1>2, <1>4, <1>5, <1>6
<1>7. ASSUME NEW v \in DOMAIN g[Len(f)]
      PROVE  \/ v \in DOMAIN f[Len(f)]
             \/ v[1] \in Kinds /\ \A i \in 1..Len(f) : v \notin DOMAIN f[i]
  <2>1. v \in mine(Len(f)) \/ v \in DOMAIN f[Len(f)]
    BY <1>2, <1>4, <1>7
  <2> QED
    BY <2>1, <1>5
<1>8. Grown(f, g)
  BY <1>3, <1>6, <1>7 DEF Grown
<1> QED
  BY <1>1, <1>8, FramesReplaced DEF Stepped, f

\* The same for one variable.
LEMMA SetVariableSteps ==
    ASSUME NEW I, IsInterpreter(I), FramesOK(I.frames), NEW v, v[1] \in Kinds, NEW value
    PROVE  /\ Stepped(I, SetVariable(I, v, value))
           /\ SetVariable(I, v, value).status = I.status
<1> DEFINE values == [x \in {v} |-> value]
<1>1. \A x \in DOMAIN values : x[1] \in Kinds
  OBVIOUS
<1>2. SetVariable(I, v, value) = SetVariables(I, values)
  BY DEF SetVariable
<1> HIDE DEF values
<1> QED
  BY <1>1, <1>2, SetVariablesSteps

\* drop only takes names away.
LEMMA DropSteps ==
    ASSUME NEW I, IsInterpreter(I), FramesOK(I.frames), NEW name
    PROVE  Stepped(I, Drop(I, name)) /\ Drop(I, name).status = I.status
<1> DEFINE f == I.frames
           left(i) == {v \in DOMAIN f[i] : v[2] # name \/ Owner(f, v) # i}
           g == [i \in DOMAIN f |-> Restrict(f[i], left(i))]
<1>1. Drop(I, name) = [I EXCEPT !.frames = g]
  BY DEF Drop, IsInterpreter
<1>2. Len(f) \in Nat /\ Len(f) >= 1 /\ DOMAIN f = 1..Len(f)
  BY SeqShape DEF FramesOK
<1>3. IsSeq(g) /\ Len(g) = Len(f)
  <2>1. g = [i \in 1..Len(f) |-> g[i]]
    BY <1>2
  <2> HIDE DEF g
  <2> QED
    BY <2>1, <1>2, SeqLike
<1>4. \A i \in 1..Len(f) : DOMAIN g[i] \subseteq DOMAIN f[i]
  BY <1>2 DEF Restrict
<1> HIDE DEF g, f
<1>5. Grown(f, g)
  BY <1>2, <1>3, <1>4 DEF Grown
<1> DEFINE J == [I EXCEPT !.frames = g]
<1>6. /\ IsInterpreter(J) /\ J.frames = g /\ J.functions = I.functions
      /\ J.status = I.status /\ J.capturing = I.capturing
  BY FramesReplaced
<1> HIDE DEF J
<1>7. Stepped(I, J)
  BY <1>5, <1>6 DEF Stepped, f
<1> QED
  BY <1>1, <1>6, <1>7 DEF J

\* let assigns to one variable, or to none when its value fails.
LEMMA LetSteps ==
    ASSUME NEW I, IsInterpreter(I), FramesOK(I.frames), NEW s
    PROVE  Stepped(I, Let(I, s)) /\ Let(I, s).status = I.status
<1>1. <<"array", s.name>>[1] \in Kinds /\ <<"scalar", s.name>>[1] \in Kinds
  BY DEF Kinds
<1>2. Stepped(I, I)
  BY GrownSame DEF Stepped, FramesOK
<1>3. \A value : /\ Stepped(I, SetVariable(I, <<"array", s.name>>, value))
                 /\ SetVariable(I, <<"array", s.name>>, value).status = I.status
                 /\ Stepped(I, SetVariable(I, <<"scalar", s.name>>, value))
                 /\ SetVariable(I, <<"scalar", s.name>>, value).status = I.status
  BY <1>1, SetVariableSteps
<1>4. \/ \E value : Let(I, s) = SetVariable(I, <<"array", s.name>>, value)
      \/ \E value : Let(I, s) = SetVariable(I, <<"scalar", s.name>>, value)
      \/ Let(I, s) = I
  BY Zenon DEF Let
<1> QED
  BY <1>2, <1>3, <1>4, Zenon

\* A command succeeds or fails.
LEMMA ResultsAreBoolean ==
    ASSUME NEW I, NEW line
    PROVE  Results(I, line) \subseteq BOOLEAN
<1>1. EvalTest(ExpandAll(I, line.args)) \in BOOLEAN
  BY DEF EvalTest
<1>2. EvalBool(ExpandAll(I, line.args)) \in BOOLEAN
  BY DEF EvalBool
<1>3. EvalEq(ExpandAll(I, line.args)) \in BOOLEAN
  BY DEF EvalEq
<1>4. line.cmd \in {"test", "bool", "eq"} =>
        EvalWords(line.cmd, ExpandAll(I, line.args)) \in BOOLEAN
  BY <1>1, <1>2, <1>3 DEF EvalWords
<1>5. line.flag \in {"-a", "-s", "--fn"} => EvalExists(I, line) \in BOOLEAN
  <2>1. line.flag = "-a" => EvalExists(I, line) \in BOOLEAN
    BY DEF EvalExists
  <2>2. line.flag = "-s" => EvalExists(I, line) \in BOOLEAN
    BY DEF EvalExists
  <2>3. line.flag = "--fn" => EvalExists(I, line) \in BOOLEAN
    BY DEF EvalExists
  <2> QED
    BY <2>1, <2>2, <2>3
<1>6. EvalIntersects(I, line) \in BOOLEAN
  BY DEF EvalIntersects
<1>7. CASE line.cmd \in {"test", "bool", "eq"}
  <2>1. Results(I, line) = {EvalWords(line.cmd, ExpandAll(I, line.args))}
    BY <1>7 DEF Results
  <2> QED
    BY <2>1, <1>4, <1>7
<1>8. CASE line.cmd = "exists" /\ line.flag \in {"-a", "-s", "--fn"}
  <2>1. Results(I, line) = {EvalExists(I, line)}
    BY <1>8 DEF Results
  <2> QED
    BY <2>1, <1>5, <1>8
<1>9. CASE line.cmd = "intersects"
  <2>1. Results(I, line) = {EvalIntersects(I, line)}
    BY <1>9 DEF Results
  <2> QED
    BY <2>1, <1>6
<1>10. CASE /\ line.cmd \notin {"test", "bool", "eq", "intersects"}
            /\ ~(line.cmd = "exists" /\ line.flag \in {"-a", "-s", "--fn"})
  <2>1. Results(I, line) \in {{TRUE}, {FALSE}, BOOLEAN}
    BY <1>10 DEF Results
  <2> QED
    BY <2>1
<1> QED
  BY <1>7, <1>8, <1>9, <1>10

\* A statement without control flow keeps the functions and the capture, and
\* its assignments find their owners.
LEMMA OutcomesStep ==
    ASSUME NEW I, IsInterpreter(I), FramesOK(I.frames),
           NEW line, NEW J \in Outcomes(I, line)
    PROVE  Stepped(I, J) /\ J.status \in BOOLEAN
<1> DEFINE K == SetStatus(I, TRUE)
<1>1. IsInterpreter(K) /\ K.status = TRUE /\ FramesOK(K.frames)
  BY StatusSet
<1>2. ASSUME NEW L, Stepped(K, L) PROVE Stepped(I, L)
  BY <1>2, StatusSet DEF Stepped
<1>3. ASSUME NEW L, Stepped(I, L), NEW ok \in BOOLEAN
      PROVE  Stepped(I, SetStatus(L, ok)) /\ SetStatus(L, ok).status \in BOOLEAN
  BY <1>3, StatusSet DEF Stepped
<1>4. Stepped(I, I)
  BY GrownSame DEF Stepped, FramesOK
<1>5. Stepped(I, K)
  BY <1>3, <1>4
<1> HIDE DEF K
<1>6. CASE line.cmd = "let"
  <2>1. Outcomes(I, line) = {Let(K, line)}
    BY <1>6 DEF Outcomes, K
  <2> QED
    BY <2>1, <1>1, <1>2, LetSteps
<1>7. CASE line.cmd = "export"
  <2>1. Outcomes(I, line) = {IF ExportRefused(line) THEN K ELSE Let(K, line)}
    BY <1>7 DEF Outcomes, K
  <2> QED
    BY <2>1, <1>1, <1>2, <1>5, LetSteps
<1>8. CASE line.cmd = "drop"
  <2>1. Outcomes(I, line) = {Drop(K, line.name)}
    BY <1>8 DEF Outcomes, K
  <2> QED
    BY <2>1, <1>1, <1>2, DropSteps
<1>9. CASE line.cmd = "echo"
  <2> DEFINE text == Join(ExpandAll(K, line.args))
  <2>1. Outcomes(I, line) = {Echo(K, text)}
    BY <1>9 DEF Outcomes, K
  <2> HIDE DEF text
  <2>2. Stepped(I, Echo(K, text)) /\ Echo(K, text).status = K.status
    BY <1>1, <1>5 DEF Echo, Stepped, IsInterpreter
  <2> QED
    BY <2>1, <2>2, <1>1
<1>10. CASE line.cmd \in {"end", "copy", "compress", "stat"}
  <2>1. Outcomes(I, line) = {K}
    BY <1>10 DEF Outcomes, K
  <2> QED
    BY <2>1, <1>1, <1>5
<1>11. CASE line.cmd = "read"
  <2>1. Outcomes(I, line) = ReadOutcomes(I, line)
    BY <1>11 DEF Outcomes
  <2>2. CASE J = SetStatus(I, FALSE)
    BY <2>2, <1>3, <1>4
  <2>3. CASE \E fields \in Typed : J = ReadInto(I, line.names, fields)
    <3>1. PICK fields \in Typed : J = ReadInto(I, line.names, fields)
      BY <2>3
    <3> DEFINE parts == SplitFields(fields, Len(line.names))
               bound == [i \in DOMAIN line.names |->
                            [v |-> <<"scalar", line.names[i]>>, value |-> parts[i]]]
               values == Bindings(bound)
    <3>2. J = SetStatus(SetVariables(I, values), TRUE)
      BY <3>1 DEF ReadInto
    <3>3. \A v \in DOMAIN values : v[1] \in Kinds
      <4>1. DOMAIN values = {bound[i].v : i \in DOMAIN bound}
        BY DEF Bindings
      <4>2. \A i \in DOMAIN bound : bound[i].v[1] = "scalar"
        OBVIOUS
      <4> HIDE DEF values, bound
      <4> QED
        BY <4>1, <4>2 DEF Kinds
    <3> HIDE DEF values
    <3>4. Stepped(I, SetVariables(I, values))
      BY <3>3, SetVariablesSteps
    <3> QED
      BY <3>2, <3>4, <1>3
  <2> QED
    BY <2>1, <2>2, <2>3 DEF ReadOutcomes
<1>12. CASE line.cmd = "table"
  <2>1. Outcomes(I, line) = TableOutcomes(I, line)
    BY <1>12 DEF Outcomes
  <2>2. CASE J = SetStatus(I, FALSE)
    BY <2>2, <1>3, <1>4
  <2>3. CASE \E o \in Tables \X BOOLEAN :
                J = SetStatus(SetVariable(I, <<"table", line.name>>, o[1]), o[2])
    <3>1. PICK o \in Tables \X BOOLEAN :
                J = SetStatus(SetVariable(I, <<"table", line.name>>, o[1]), o[2])
      BY <2>3
    <3>2. <<"table", line.name>>[1] \in Kinds /\ o[2] \in BOOLEAN
      BY DEF Kinds
    <3>3. Stepped(I, SetVariable(I, <<"table", line.name>>, o[1]))
      BY <3>2, SetVariableSteps
    <3> QED
      BY <3>1, <3>2, <3>3, <1>3
  <2> QED
    BY <2>1, <2>2, <2>3 DEF TableOutcomes
<1>13. CASE line.cmd \notin {"let", "export", "drop", "echo", "end", "copy", "compress",
                            "stat", "read", "table"}
  <2>1. Outcomes(I, line) = ResultOutcomes(I, line)
    BY <1>13 DEF Outcomes
  <2>2. PICK ok \in Results(I, line) : J = SetStatus(I, ok)
    BY <2>1 DEF ResultOutcomes
  <2> QED
    BY <2>2, <1>3, <1>4, ResultsAreBoolean
<1> QED
  BY <1>6, <1>7, <1>8, <1>9, <1>10, <1>11, <1>12, <1>13

----------------------------------------------------------------------------
(* The interpreter and the stack together, through every operation that
   touches either. *)

\* An interpreter that fits the stack, capturing only while a prompt is
\* evaluated.
Sound(I, entries) ==
    /\ IsInterpreter(I) /\ I.status \in BOOLEAN /\ I.capturing \in BOOLEAN
    /\ Fits(I.frames, entries)
    /\ I.capturing => Prompting(entries)

\* What a sound pair is made of.
LEMMA SoundParts ==
    ASSUME NEW I, NEW s, Sound(I, s)
    PROVE  /\ IsInterpreter(I) /\ I.status \in BOOLEAN /\ I.capturing \in BOOLEAN
           /\ FramesOK(I.frames) /\ StackOK(s) /\ IsSeq(s)
BY DEF Sound, Fits, StackOK

\* A pending statement on the stack changes no scope.
LEMMA SoundPushed ==
    ASSUME NEW I, NEW s, Sound(I, s), NEW x, EntryOK(x),
           x.kind \notin {"block", "call", "prompt", "initrc"}
    PROVE  Sound(I, <<x>> \o s)
<1>1. StackOK(s) /\ (s = <<>> => ~Prompting(s))
  BY SoundParts DEF Prompting
<1>2. Fits(I.frames, <<x>> \o s)
  BY <1>1, FitsPlain DEF Sound
<1>3. Prompting(s) => Prompting(<<x>> \o s)
  BY <1>1, StackPushed
<1> QED
  BY <1>2, <1>3 DEF Sound

\* ... nor does its end.
LEMMA SoundPopped ==
    ASSUME NEW I, NEW s, Sound(I, s), s # <<>>,
           Head(s).kind \notin {"block", "call", "prompt"}
    PROVE  Sound(I, Tail(s))
<1>1. StackOK(s)
  BY SoundParts
<1>2. /\ s = <<Head(s)>> \o Tail(s) /\ StackOK(Tail(s)) /\ EntryOK(Head(s))
      /\ Head(s).kind \in {"prompt", "initrc"} => Tail(s) = <<>>
      /\ Tail(s) # <<>> => (Prompting(Tail(s)) <=> Prompting(s))
      /\ Prompting(s) /\ Tail(s) = <<>> => Head(s).kind = "prompt"
  BY <1>1, StackPopped
<1> DEFINE x == Head(s)
           t == Tail(s)
<1>3. Fits(I.frames, <<x>> \o t)
  BY <1>2 DEF Sound
<1> HIDE DEF x, t
<1>4. Fits(I.frames, t)
  BY <1>2, <1>3, FitsPlain DEF x, t
<1> QED
  BY <1>2, <1>4 DEF Sound, t

\* A statement that only assigns keeps the pair sound.
LEMMA SoundStepped ==
    ASSUME NEW I, NEW J, NEW s, Sound(I, s), Stepped(I, J), J.status \in BOOLEAN
    PROVE  Sound(J, s)
BY FitsGrown DEF Sound, Stepped

\* ... and so does a new status.
LEMMA SoundStatus ==
    ASSUME NEW I, NEW s, Sound(I, s), NEW ok \in BOOLEAN
    PROVE  Sound(SetStatus(I, ok), s)
BY StatusSet DEF Sound

\* A block that is entered is a well formed entry.
LEMMA BlockEntryOK ==
    ASSUME NEW lines
    PROVE  EntryOK(Block(lines)) /\ Block(lines).kind = "block"
BY DEF EntryOK, Block, Kind

\* So is a statement that waits to be dispatched, and it has no scope.
LEMMA LineEntryOK ==
    ASSUME NEW line
    PROVE  /\ EntryOK(Pending(line))
           /\ Pending(line).kind \notin {"block", "call", "prompt", "initrc"}
BY DEF EntryOK, Pending, Kind

\* exec_block.
LEMMA SoundEntered ==
    ASSUME NEW I, NEW s, Sound(I, s), NEW lines
    PROVE  Sound(PushScope(I), <<Block(lines)>> \o s)
<1> DEFINE f == I.frames
           g == Append(f, <<>>)
           J == PushScope(I)
<1>1. FramesOK(f) /\ StackOK(s) /\ IsInterpreter(I) /\ (s = <<>> => ~Prompting(s))
  BY SoundParts DEF Prompting
<1>2. IsInterpreter(J) /\ J.frames = g /\ J.status = I.status /\ J.capturing = I.capturing
  BY <1>1 DEF PushScope, IsInterpreter
<1>3. /\ FramesOK(g) /\ Len(g) = Len(f) + 1 /\ Head(g) = Head(f)
      /\ \A b : SingleOwners(g, b) <=> SingleOwners(f, b)
  BY <1>1, ScopePushed
<1>4. EntryOK(Block(lines)) /\ Block(lines).kind = "block"
  BY BlockEntryOK
<1>5. Fits(f, s)
  BY DEF Sound
<1>6. SingleOwners(g, InCall(s, 0))
  BY <1>3, <1>5 DEF Fits
<1>7. Prompting(s) => Prompting(<<Block(lines)>> \o s)
  BY <1>1, <1>4, StackPushed
<1> HIDE DEF f, g, J
<1>8. Fits(g, <<Block(lines)>> \o s)
  BY <1>1, <1>3, <1>4, <1>5, <1>6, FitsBlock
<1> QED
  BY <1>2, <1>7, <1>8 DEF Sound, J

\* Leaving a block, with its scope.
LEMMA SoundLeft ==
    ASSUME NEW I, NEW s, Sound(I, s), s # <<>>, Head(s).kind = "block"
    PROVE  Sound(PopScope(I), Tail(s))
<1> DEFINE f == I.frames
           g == SubSeq(f, 1, Len(f) - 1)
           x == Head(s)
           t == Tail(s)
           J == PopScope(I)
<1>1. FramesOK(f) /\ StackOK(s) /\ IsInterpreter(I)
  BY SoundParts
<1>2. /\ s = <<x>> \o t /\ StackOK(t) /\ EntryOK(x) /\ x.kind = "block"
      /\ t # <<>> => (Prompting(t) <=> Prompting(s))
      /\ Prompting(s) /\ t = <<>> => x.kind = "prompt"
  BY <1>1, StackPopped
<1>3. Fits(f, <<x>> \o t)
  BY <1>2 DEF Sound
<1>4. Len(f) > 1
  <2>1. Len(f) = 1 + Scopes(s, 0)
    BY DEF Sound, Fits
  <2>2. IsSeq(t) /\ Scopes(t, 0) \in Nat
    BY <1>2, BlocksFinite DEF StackOK
  <2> HIDE DEF t, x
  <2>3. Scopes(<<x>> \o t, 0) = Scopes(t, 0) + 1
    BY <1>2, <2>2, ScopesOnTop
  <2> QED
    BY <2>1, <2>2, <2>3, <1>2
<1>5. IsInterpreter(J) /\ J.frames = g /\ J.status = I.status /\ J.capturing = I.capturing
  <2>1. J = [I EXCEPT !.frames = g]
    BY <1>4 DEF PopScope
  <2> HIDE DEF J, g
  <2> QED
    BY <2>1, <1>1, FramesReplaced
<1>6. /\ FramesOK(g) /\ Len(f) = Len(g) + 1 /\ Head(f) = Head(g)
      /\ \A b : SingleOwners(f, b) => SingleOwners(g, b)
  BY <1>1, <1>4, ScopePopped
<1> HIDE DEF f, g, x, t, J
<1>7. Fits(g, t)
  BY <1>1, <1>2, <1>3, <1>6, FitsBlock
<1> QED
  BY <1>2, <1>5, <1>7 DEF Sound, J, t

\* A block that goes on is a block still.
LEMMA SoundReplaced ==
    ASSUME NEW I, NEW s, Sound(I, s), s # <<>>, Head(s).kind = "block", NEW lines
    PROVE  Sound(I, <<Block(lines)>> \o Tail(s))
<1> DEFINE f == I.frames
           x == Head(s)
           t == Tail(s)
           y == Block(lines)
<1>1. StackOK(s)
  BY SoundParts
<1>2. /\ s = <<x>> \o t /\ StackOK(t) /\ x.kind = "block"
      /\ t # <<>> => (Prompting(t) <=> Prompting(s))
      /\ Prompting(s) /\ t = <<>> => x.kind = "prompt"
  BY <1>1, StackPopped
<1>3. Fits(f, <<x>> \o t) /\ IsSeq(t)
  BY <1>2 DEF Sound, StackOK
<1>4. EntryOK(y) /\ y.kind = "block"
  BY BlockEntryOK
<1> HIDE DEF f, x, t, y
<1>5. StackOK(<<y>> \o t) /\ (t # <<>> => (Prompting(<<y>> \o t) <=> Prompting(t)))
  BY <1>2, <1>4, StackPushed
<1>6. /\ Scopes(<<x>> \o t, 0) = Scopes(<<y>> \o t, 0)
      /\ InCall(<<x>> \o t, 0) <=> InCall(<<y>> \o t, 0)
  BY <1>2, <1>3, <1>4, ScopesOnTop
<1>7. CallsBalanced(<<x>> \o t) <=> CallsBalanced(<<y>> \o t)
  BY <1>2, <1>3, <1>4, CallsBalancedPushed
<1>8. CallsOwned(Head(f), <<x>> \o t) <=> CallsOwned(Head(f), <<y>> \o t)
  BY <1>2, <1>3, <1>4, CallsOwnedPushed
<1>9. SingleOwners(f, InCall(<<x>> \o t, 0)) <=> SingleOwners(f, InCall(<<y>> \o t, 0))
  BY <1>6, Zenon DEF SingleOwners
<1>10. Fits(f, <<y>> \o t)
  BY <1>3, <1>5, <1>6, <1>7, <1>8, <1>9 DEF Fits
<1> QED
  BY <1>2, <1>5, <1>10 DEF Sound, f, t, y

\* The entry of a call, with the scopes it hides.
CallEntry(saved) == [kind |-> "call", saved |-> saved]

\* Entering a function: the scopes of the caller are hidden, one for the
\* parameters and one for the body are pushed.
LEMMA SoundCalled ==
    ASSUME NEW I, NEW s, Sound(I, s), NEW values, \A v \in DOMAIN values : v[1] \in Kinds,
           NEW lines
    PROVE  Sound(PushScope(DefineLocals(PushScope(IsolateGlobalScope(I)), values)),
                 <<Block(lines)>> \o (<<CallEntry(HiddenScopes(I))>> \o s))
<1> DEFINE f == I.frames
           h == Head(f)
           g == <<h, Overlay(values, <<>>)>>
           J == DefineLocals(PushScope(IsolateGlobalScope(I)), values)
           x == CallEntry(Tail(f))
<1>1. FramesOK(f) /\ StackOK(s) /\ IsInterpreter(I)
  BY SoundParts
<1>2. /\ f = <<h>> \o Tail(f) /\ IsSeq(Tail(f)) /\ KindsIn(Tail(f))
      /\ Len(f) = Len(Tail(f)) + 1 /\ \A v \in DOMAIN h : v[1] \in Kinds
  BY <1>1, ScopesHidden
<1>3. EntryOK(x) /\ x.kind = "call" /\ x.saved = Tail(f) /\ x = CallEntry(HiddenScopes(I))
  BY <1>2 DEF EntryOK, CallEntry, Kind, HiddenScopes
<1>4. Append(<<h>>, <<>>) = <<h, <<>> >> /\ Len(<<h, <<>> >>) = 2
  <2> HIDE DEF h
  <2>1. \A e : Append(<<h>>, e) = <<h, e>> /\ Len(<<h, e>>) = 2
    <3> TAKE e
    <3> DEFINE u == Append(<<h>>, e)
    <3>1. <<h>> \in Seq({h, e}) /\ e \in {h, e} /\ Len(<<h>>) = 1 /\ <<h>>[1] = h
      OBVIOUS
    <3>2. u \in Seq({h, e}) /\ Len(u) = 2 /\ u[1] = h /\ u[2] = e
      BY <3>1
    <3> HIDE DEF u
    <3>3. u = <<u[1], u[2]>>
      BY <3>2
    <3> QED
      BY <3>2, <3>3 DEF u
  <2> QED
    BY <2>1
<1>5. [<<h, <<>> >> EXCEPT ![2] = Overlay(values, @)] = g
  OBVIOUS
<1>6. IsolateGlobalScope(I) = [I EXCEPT !.frames = <<h>>]
  BY <1>1 DEF IsolateGlobalScope, IsInterpreter
<1>7. PushScope(IsolateGlobalScope(I)) = [I EXCEPT !.frames = <<h, <<>> >>]
  BY <1>1, <1>4, <1>6 DEF PushScope, IsInterpreter
<1> DEFINE K == [I EXCEPT !.frames = g]
<1>8. J = K
  BY <1>1, <1>4, <1>5, <1>7 DEF DefineLocals, Define, IsInterpreter
<1>9. IsInterpreter(K) /\ K.frames = g /\ K.status = I.status /\ K.capturing = I.capturing
  BY <1>1, FramesReplaced
<1>10. IsInterpreter(J) /\ J.frames = g /\ J.status = I.status /\ J.capturing = I.capturing
  <2> HIDE DEF J, K, g
  <2> QED
    BY <1>8, <1>9
<1>11. FramesOK(g) /\ Len(g) = 2 /\ Head(g) = h
  <2>1. DOMAIN Overlay(values, <<>>) = DOMAIN values
    <3>1. DOMAIN <<>> = {}
      OBVIOUS
    <3>2. \A e : DOMAIN e = {} => DOMAIN Overlay(values, e) = DOMAIN values
      <4>1. \A e : DOMAIN Overlay(values, e) = (DOMAIN values) \cup (DOMAIN e)
        BY OverlayDomain, Zenon
      <4>2. \A a : \A b : b = {} => a \cup b = a
        OBVIOUS
      <4> QED
        BY <4>1, <4>2, Zenon
    <3> QED
      BY <3>1, <3>2, Zenon
  <2> DEFINE p == Overlay(values, <<>>)
  <2> HIDE DEF p
  <2>2. <<h, p>> \in Seq({h, p}) /\ Len(<<h, p>>) = 2 /\ DOMAIN <<h, p>> = 1..2
    OBVIOUS
  <2>3. IsSeq(<<h, p>>)
    BY <2>2, SeqOver
  <2>4. KindsIn(<<h, p>>)
    BY <2>1, <2>2, <1>2 DEF KindsIn, p
  <2> QED
    BY <2>2, <2>3, <2>4 DEF FramesOK, p
<1>12. SingleOwners(g, TRUE)
  <2>1. DOMAIN g = {1, 2}
    OBVIOUS
  <2> HIDE DEF g
  <2> QED
    BY <2>1 DEF SingleOwners
<1>13. Fits(f, s) /\ (I.capturing => Prompting(s))
  BY DEF Sound
<1>14. Prompting(s) => Prompting(<<x>> \o s)
  BY <1>1, <1>3, StackPushed DEF Prompting
<1>15. I.status \in BOOLEAN /\ I.capturing \in BOOLEAN
  BY SoundParts
<1> HIDE DEF f, h, g, J, x
<1>16. Fits(g, <<x>> \o s)
  BY <1>1, <1>2, <1>3, <1>11, <1>12, <1>13, FitsCall DEF h
<1>17. Sound(J, <<x>> \o s)
  BY <1>10, <1>13, <1>14, <1>15, <1>16 DEF Sound
<1>18. Sound(PushScope(J), <<Block(lines)>> \o (<<x>> \o s))
  BY <1>17, SoundEntered
<1> QED
  BY <1>3, <1>18 DEF J

\* Returning from it: the scope of the parameters is popped and the hidden
\* ones come back.
LEMMA SoundReturned ==
    ASSUME NEW I, NEW s, Sound(I, s), s # <<>>, Head(s).kind = "call"
    PROVE  Sound(RestoreScope(PopScope(I), Head(s).saved), Tail(s))
<1> DEFINE f == I.frames
           h == Head(f)
           x == Head(s)
           t == Tail(s)
           g == <<h>> \o x.saved
           J == RestoreScope(PopScope(I), x.saved)
<1>1. FramesOK(f) /\ StackOK(s) /\ IsInterpreter(I)
  BY SoundParts
<1>2. /\ s = <<x>> \o t /\ StackOK(t) /\ EntryOK(x) /\ x.kind = "call"
      /\ t # <<>> => (Prompting(t) <=> Prompting(s))
      /\ Prompting(s) /\ t = <<>> => x.kind = "prompt"
  BY <1>1, StackPopped
<1>3. Fits(f, <<x>> \o t) /\ IsSeq(t)
  BY <1>2 DEF Sound, StackOK
<1>4. IsSeq(x.saved) /\ KindsIn(x.saved)
  BY <1>2 DEF EntryOK
<1>5. /\ \A v \in DOMAIN h : v[1] \in Kinds
      /\ IsSeq(f) /\ Head(f) = f[1]
  BY <1>1, ScopesHidden DEF FramesOK
<1>6. Len(f) = 2
  <2>1. Len(f) = 1 + Scopes(<<x>> \o t, 0)
    BY <1>3 DEF Fits
  <2> HIDE DEF x, t
  <2>2. Scopes(<<x>> \o t, 0) = 1
    BY <1>2, <1>3, ScopesOnTop
  <2> QED
    BY <2>1, <2>2
<1>7. SubSeq(f, 1, 1) = <<h>>
  <2>1. f \in Seq(Range(f))
    BY <1>5 DEF IsSeq
  <2> DEFINE u == SubSeq(f, 1, 1)
  <2>2. \A i \in 1..1 : f[i] \in Range(f)
    BY <2>1, <1>6, ElementOfSeq
  <2>3. u \in Seq(Range(f)) /\ Len(u) = (IF 1 <= 1 THEN 1 - 1 + 1 ELSE 0)
        /\ \A i \in 1..(1 - 1 + 1) : u[i] = f[1 + i - 1]
    BY <2>2, SubSeqProperties, 1 \in Int
  <2> HIDE DEF u
  <2>4. Len(u) = 1 /\ u[1] = f[1]
    BY <2>3
  <2>5. u = <<u[1]>>
    BY <2>3, <2>4
  <2> QED
    BY <2>4, <2>5, <1>5 DEF u
<1> DEFINE K == [I EXCEPT !.frames = g]
<1>8. J = K
  <2>1. PopScope(I) = [I EXCEPT !.frames = <<h>>]
    BY <1>1, <1>6, <1>7 DEF PopScope, IsInterpreter
  <2> QED
    BY <2>1, <1>1 DEF RestoreScope, IsInterpreter
<1>9. IsInterpreter(K) /\ K.frames = g /\ K.status = I.status /\ K.capturing = I.capturing
  BY <1>1, FramesReplaced
<1>10. IsInterpreter(J) /\ J.frames = g /\ J.status = I.status /\ J.capturing = I.capturing
  <2> HIDE DEF J, K, g
  <2> QED
    BY <1>8, <1>9
<1>11. /\ FramesOK(g) /\ Head(g) = h /\ Len(g) = Len(x.saved) + 1
  BY <1>4, <1>5, ScopesRestored
<1>12. SingleOwners(f, TRUE)
  <2>1. SingleOwners(f, InCall(<<x>> \o t, 0))
    BY <1>3 DEF Fits
  <2> QED
    BY <2>1 DEF SingleOwners
<1>13. I.status \in BOOLEAN /\ I.capturing \in BOOLEAN /\ (I.capturing => Prompting(s))
  BY DEF Sound
<1> HIDE DEF f, x, t, J
<1>14. Fits(g, t)
  <2>1. g = <<Head(g)>> \o x.saved
    BY <1>11
  <2> HIDE DEF g, h
  <2> QED
    BY <2>1, <1>1, <1>2, <1>3, <1>6, <1>11, <1>12, FitsCall DEF h
<1> QED
  BY <1>2, <1>10, <1>13, <1>14 DEF Sound, J, x, t

----------------------------------------------------------------------------
(* The invariant, and one lemma for each action. *)

IInv ==
    /\ flow \in Flow /\ at \in {"prompt", "reading", "run", "stopped"}
    /\ script \in BOOLEAN /\ interrupt \in BOOLEAN
    /\ typed \in 0..MaxInputs /\ presses \in 0..Presses
    /\ Sound(interp, stack)
    /\ at # "run" => stack = <<>> /\ flow = "Normal" /\ ~interp.capturing

\* All but the interpreter and the stack.
Controls ==
    /\ flow \in Flow /\ at \in {"prompt", "reading", "run", "stopped"}
    /\ script \in BOOLEAN /\ interrupt \in BOOLEAN
    /\ typed \in 0..MaxInputs /\ presses \in 0..Presses

\* An entry that has no scope and waits for no prompt.
Plain(entry) == entry.kind \notin {"block", "call", "prompt", "initrc"}

\* An entry pushed on the empty stack is all of it.
LEMMA OnNothing == \A x : <<x>> \o <<>> = <<x>>
<1> TAKE x
<1>1. <<x>> \in Seq({x}) /\ <<>> \in Seq({x})
  OBVIOUS
<1> QED
  BY <1>1, ConcatEmptySeq

\* With nothing on the stack nothing is captured.
LEMMA NothingToPrompt ==
    ASSUME NEW I, Sound(I, <<>>)
    PROVE  ~I.capturing
BY DEF Sound, Prompting

\* A step of the shell while it runs keeps the invariant when the interpreter
\* and the stack that it leaves are sound.
LEMMA Keeps ==
    ASSUME IInv, at = "run", at' = "run", Sound(interp', stack'), flow' \in Flow,
           interrupt' \in {interrupt, FALSE}, UNCHANGED <<script, typed>>,
           presses' \in 0..Presses
    PROVE  IInv'
BY DEF IInv

\* Ctrl+C taken at a poll: of a loop the entry goes, of a block it stays to be
\* left.
LEMMA TakeInterruptKeeps == ASSUME IInv, TakeInterrupt PROVE IInv'
<1>1. /\ at = "run" /\ stack # <<>> /\ Top.kind \in {"block", "while", "for"}
      /\ interrupt' = FALSE /\ flow' = "Interrupted"
      /\ stack' = IF Top.kind = "block" THEN stack ELSE Tail(stack)
      /\ interp' = interp /\ at' = at /\ script' = script
      /\ typed' = typed /\ presses' = presses
  BY DEF TakeInterrupt, MustPoll, Running, Below
<1>2. Sound(interp, stack)
  BY DEF IInv
<1>3. Sound(interp, stack')
  BY <1>1, <1>2, SoundPopped DEF Top
<1> QED
  BY <1>1, <1>3 DEF IInv, Flow

\* The end of a block, in whatever flow.
LEMMA LeaveBlockKeeps == ASSUME IInv, LeaveBlock PROVE IInv'
<1>1. /\ at = "run" /\ stack # <<>> /\ Head(stack).kind = "block"
      /\ interp' = PopScope(interp) /\ stack' = Tail(stack)
  BY DEF LeaveBlock, Running, Top, Below, LeaveScope
<1>2. Sound(interp', stack')
  BY <1>1, SoundLeft DEF IInv
<1> QED
  BY <1>1, <1>2, Keeps DEF LeaveBlock, IInv

\* What the block's next line may put on the stack.
LEMMA NextPushed ==
    ASSUME IInv, MayRun("block"), NEW lines, NEW x, EntryOK(x), Plain(x)
    PROVE  /\ Sound(interp, Rest(lines)) /\ Sound(interp, <<x>> \o Rest(lines))
<1>1. stack # <<>> /\ Head(stack).kind = "block" /\ Sound(interp, stack)
  BY DEF MayRun, Running, Top, IInv
<1>2. Sound(interp, Rest(lines))
  BY <1>1, SoundReplaced DEF Rest, Below
<1> QED
  BY <1>2, SoundPushed DEF Plain

\* The next statement of a block.
LEMMA NextLineKeeps == ASSUME IInv, NextLine PROVE IInv'
<1>1. MayRun("block") /\ at = "run"
  BY DEF NextLine, MayRun, Running
<1>2. Sound(interp, stack')
  BY <1>1, LineEntryOK, NextPushed DEF NextLine, Plain
<1> QED
  BY <1>1, <1>2, Keeps DEF NextLine, IInv

\* if: its branches wait.
LEMMA ExecIfKeeps == ASSUME IInv, ExecIf PROVE IInv'
<1> DEFINE x == [kind |-> "branches", subject |-> {},
                 branches |-> IfBranches(Top.todo[1], Body(Top.todo))]
<1>1. MayRun("block") /\ at = "run" /\ stack' = <<x>> \o Rest(After(Top.todo))
  BY DEF ExecIf, NextIs, MayRun, Running
<1>2. EntryOK(x) /\ Plain(x)
  BY DEF EntryOK, Plain, Kind
<1> HIDE DEF x
<1>3. Sound(interp, stack')
  BY <1>1, <1>2, NextPushed
<1> QED
  BY <1>1, <1>3, Keeps DEF ExecIf, IInv

\* match: its arms wait.
LEMMA ExecMatchKeeps == ASSUME IInv, ExecMatch PROVE IInv'
<1> DEFINE x == [kind |-> "branches",
                 subject |-> MatchOperand(interp, Top.todo[1].subject),
                 branches |-> MatchBranches(Body(Top.todo))]
<1>1. MayRun("block") /\ at = "run" /\ stack' = <<x>> \o Rest(After(Top.todo))
  BY DEF ExecMatch, NextIs, MayRun, Running
<1>2. EntryOK(x) /\ Plain(x)
  BY DEF EntryOK, Plain, Kind
<1> HIDE DEF x
<1>3. Sound(interp, stack')
  BY <1>1, <1>2, NextPushed
<1> QED
  BY <1>1, <1>3, Keeps DEF ExecMatch, IInv

\* while: the loop waits.
LEMMA ExecWhileKeeps == ASSUME IInv, ExecWhile PROVE IInv'
<1> DEFINE x == [kind |-> "while", cond |-> Top.todo[1].cond, body |-> Body(Top.todo)]
<1>1. MayRun("block") /\ at = "run" /\ stack' = <<x>> \o Rest(After(Top.todo))
  BY DEF ExecWhile, NextIs, MayRun, Running
<1>2. EntryOK(x) /\ Plain(x)
  BY DEF EntryOK, Plain, Kind
<1> HIDE DEF x
<1>3. Sound(interp, stack')
  BY <1>1, <1>2, NextPushed
<1> QED
  BY <1>1, <1>3, Keeps DEF ExecWhile, IInv

\* for: the loop waits with its elements.
LEMMA ExecForKeeps == ASSUME IInv, ExecFor PROVE IInv'
<1> DEFINE line == Top.todo[1]
           found == ForItems(interp, line)
           x == [kind |-> "for", var |-> line.var, table |-> found.table,
                 items |-> found.items, body |-> Body(Top.todo)]
<1>1. MayRun("block") /\ at = "run" /\ stack' = <<x>> \o Rest(After(Top.todo))
  BY DEF ExecFor, NextIs, MayRun, Running
<1>2. EntryOK(x) /\ Plain(x)
  BY DEF EntryOK, Plain, Kind
<1> HIDE DEF x
<1>3. Sound(interp, stack')
  BY <1>1, <1>2, NextPushed
<1> QED
  BY <1>1, <1>3, Keeps DEF ExecFor, IInv

\* A construct on top, that is no block and no call: it may go, or give way to
\* another of its sort, and to a block on top of it.
LEMMA TopPlain ==
    ASSUME IInv, stack # <<>>, Plain(Top)
    PROVE  /\ Sound(interp, Below) /\ EntryOK(Top)
           /\ \A x : EntryOK(x) /\ Plain(x) => Sound(interp, <<x>> \o Below)
<1>1. Sound(interp, stack) /\ StackOK(stack)
  BY SoundParts DEF IInv
<1>2. Sound(interp, Below)
  BY <1>1, SoundPopped DEF Below, Plain, Top
<1>3. EntryOK(Top)
  BY <1>1, StackPopped DEF Top
<1> QED
  BY <1>2, <1>3, SoundPushed DEF Plain

\* A branch is entered, or the next one is tried.
LEMMA TryBranchKeeps == ASSUME IInv, TryBranch PROVE IInv'
<1>1. stack # <<>> /\ at = "run" /\ Top.kind = "branches" /\ Plain(Top)
  BY DEF TryBranch, Running, Plain
<1> DEFINE x == [Top EXCEPT !.branches = Tail(@)]
<1>2. /\ Sound(interp, Below) /\ EntryOK(Top)
      /\ \A y : EntryOK(y) /\ Plain(y) => Sound(interp, <<y>> \o Below)
  BY <1>1, TopPlain
<1>3. EntryOK(x) /\ Plain(x)
  BY <1>1, <1>2 DEF EntryOK, Plain
<1>4. Sound(interp, <<x>> \o Below)
  BY <1>2, <1>3
<1>5. \/ stack' = Below /\ interp' = interp
      \/ \E lines : EnterBlock(interp, lines, Below)
      \/ stack' = <<x>> \o Below /\ interp' = interp
  BY DEF TryBranch
<1> HIDE DEF x
<1>6. ASSUME NEW lines, EnterBlock(interp, lines, Below)
      PROVE  Sound(interp', stack')
  BY <1>2, <1>6, SoundEntered DEF EnterBlock
<1>7. Sound(interp', stack')
  BY <1>2, <1>4, <1>5, <1>6
<1> QED
  BY <1>1, <1>7, Keeps DEF TryBranch, InterruptAfter, IInv

\* An iteration of while, or its end.
LEMMA IterateKeeps == ASSUME IInv, Iterate PROVE IInv'
<1>1. stack # <<>> /\ at = "run" /\ Plain(Top)
  BY DEF Iterate, MayRun, Running, Plain
<1>2. Sound(interp, Below) /\ Sound(interp, stack)
  BY <1>1, TopPlain DEF IInv
<1>3. \/ stack' = Below /\ interp' = interp
      \/ EnterBlock(interp, Top.body, stack)
  BY DEF Iterate
<1>4. Sound(interp', stack')
  BY <1>2, <1>3, SoundEntered DEF EnterBlock
<1> QED
  BY <1>1, <1>4, Keeps DEF Iterate, IInv

\* The variables of for are assigned like any others.
LEMMA BindElementSteps ==
    ASSUME NEW I, IsInterpreter(I), FramesOK(I.frames), NEW loop
    PROVE  Stepped(I, BindElement(I, loop)) /\ BindElement(I, loop).status = I.status
<1>1. <<"table", loop.var>>[1] \in Kinds
  BY DEF Kinds
<1> DEFINE v == <<"table", loop.var>>
           value == <<loop.items[1]>>
           s == [name |-> loop.var, op |-> "=", type |-> "any",
                 rhs |-> <<Token("None", loop.items[1])>>]
<1>2. BindElement(I, loop) = IF loop.table THEN SetVariable(I, v, value) ELSE Let(I, s)
  BY DEF BindElement
<1> HIDE DEF v, value, s
<1>3. Stepped(I, SetVariable(I, v, value)) /\ SetVariable(I, v, value).status = I.status
  BY <1>1, SetVariableSteps DEF v
<1>4. Stepped(I, Let(I, s)) /\ Let(I, s).status = I.status
  BY LetSteps
<1> QED
  BY <1>2, <1>3, <1>4

\* An iteration of for, or its end.
LEMMA NextElementKeeps == ASSUME IInv, NextElement PROVE IInv'
<1>1. stack # <<>> /\ at = "run" /\ Top.kind = "for" /\ Plain(Top)
  BY DEF NextElement, Running, Plain
<1> DEFINE x == [Top EXCEPT !.items = Tail(@)]
           J == BindElement(interp, Top)
<1>2. /\ Sound(interp, Below) /\ EntryOK(Top)
      /\ \A y : EntryOK(y) /\ Plain(y) => Sound(interp, <<y>> \o Below)
  BY <1>1, TopPlain
<1>3. EntryOK(x) /\ Plain(x)
  BY <1>1, <1>2 DEF EntryOK, Plain
<1>4. Sound(interp, <<x>> \o Below)
  BY <1>2, <1>3
<1>5. Stepped(interp, J) /\ J.status \in BOOLEAN
  BY SoundParts, BindElementSteps DEF IInv
<1>6. \/ stack' = Below /\ interp' = interp
      \/ EnterBlock(J, Top.body, <<x>> \o Below)
  BY DEF NextElement
<1> HIDE DEF x, J
<1>7. Sound(J, <<x>> \o Below)
  BY <1>4, <1>5, SoundStepped
<1>8. Sound(interp', stack')
  BY <1>2, <1>6, <1>7, SoundEntered DEF EnterBlock
<1> QED
  BY <1>1, <1>8, Keeps DEF NextElement, IInv

\* break and continue reach the loop.
LEMMA LoopFlowKeeps == ASSUME IInv, LoopFlow PROVE IInv'
<1>1. stack # <<>> /\ at = "run" /\ Plain(Top) /\ (stack' = stack \/ stack' = Below)
  BY DEF LoopFlow, Running, Plain
<1>2. Sound(interp, Below) /\ Sound(interp, stack)
  BY <1>1, TopPlain DEF IInv
<1>3. flow' \in Flow
  BY DEF LoopFlow, IInv, Flow
<1> QED
  BY <1>1, <1>2, <1>3, Keeps DEF LoopFlow, IInv

\* fn defines a function and leaves the scopes alone.
LEMMA DefineFnKeeps == ASSUME IInv, DefineFn PROVE IInv'
<1>1. MayRun("block") /\ at = "run" /\ stack' = Rest(After(Top.todo))
  BY DEF DefineFn, NextIs, MayRun, Running
<1>2. Sound(interp, stack')
  BY <1>1, NextPushed, LineEntryOK DEF Plain
<1> DEFINE line == Top.todo[1]
           def == [params |-> line.params, body |-> Body(Top.todo)]
<1>3. interp' = DefineFunction(interp, line.name, def)
  BY DEF DefineFn
<1> HIDE DEF line, def
<1>4. IsInterpreter(interp)
  BY SoundParts DEF IInv
<1>5. /\ IsInterpreter(interp') /\ interp'.frames = interp.frames
      /\ interp'.status = interp.status /\ interp'.capturing = interp.capturing
  BY <1>3, <1>4 DEF DefineFunction, IsInterpreter
<1>6. Sound(interp', stack')
  BY <1>2, <1>5 DEF Sound
<1> QED
  BY <1>1, <1>6, Keeps DEF DefineFn, IInv

\* parallel brings back a status only, and perhaps the interrupt taken
\* meanwhile.
LEMMA ExecParallelKeeps == ASSUME IInv, ExecParallel PROVE IInv'
<1>1. MayRun("block") /\ at = "run" /\ stack' = Rest(After(Top.todo))
  BY DEF ExecParallel, NextIs, MayRun, Running
<1>2. Sound(interp, stack')
  BY <1>1, NextPushed, LineEntryOK DEF Plain
<1>3. \E ok \in BOOLEAN : interp' = SetStatus(interp, ok)
  BY DEF ExecParallel
<1>4. Sound(interp', stack')
  BY <1>2, <1>3, SoundStatus
<1>5. presses' \in 0..Presses /\ flow' \in Flow
  BY ShellAssumption DEF ExecParallel, IInv, Flow
<1> QED
  BY <1>1, <1>4, <1>5, Keeps DEF ExecParallel, IInv

\* A chain of statements waits.
LEMMA DispatchChainKeeps == ASSUME IInv, DispatchChain PROVE IInv'
<1> DEFINE x == [kind |-> "chain", op |-> Top.line.op, after |-> Top.line.after]
           y == Pending(Top.line.before)
<1>1. stack # <<>> /\ at = "run" /\ Plain(Top) /\ stack' = <<y, x>> \o Below
  BY DEF DispatchChain, Dispatching, Running, Plain
<1>2. EntryOK(x) /\ Plain(x) /\ EntryOK(y) /\ Plain(y)
  BY LineEntryOK DEF EntryOK, Plain, Kind
<1> HIDE DEF x, y
<1>3. Sound(interp, <<x>> \o Below)
  BY <1>1, <1>2, TopPlain
<1>4. Sound(interp, <<y>> \o (<<x>> \o Below))
  BY <1>2, <1>3, SoundPushed DEF Plain
<1>5. <<y, x>> \o Below = <<y>> \o (<<x>> \o Below)
  <2>1. IsSeq(Below)
    BY <1>1, TopPlain, SoundParts
  <2> DEFINE S == Range(Below) \cup {x, y}
  <2>2. Below \in Seq(S) /\ <<x>> \in Seq(S) /\ <<y>> \in Seq(S)
    BY <2>1 DEF IsSeq, Range
  <2>3. <<y>> \o <<x>> = <<y, x>>
    <3> DEFINE u == <<y>> \o <<x>>
    <3>1. u \in Seq(S) /\ Len(u) = 2 /\ u[1] = y /\ u[2] = x
      BY <2>2
    <3> HIDE DEF u
    <3>2. u = <<u[1], u[2]>>
      BY <3>1
    <3> QED
      BY <3>1, <3>2 DEF u
  <2> HIDE DEF S
  <2> QED
    BY <2>2, <2>3, ConcatAssociative
<1> QED
  BY <1>1, <1>4, <1>5, Keeps DEF DispatchChain, IInv

\* The next statement of a chain, or its end.
LEMMA ChainKeeps == ASSUME IInv, Chain PROVE IInv'
<1>1. /\ stack # <<>> /\ at = "run" /\ Plain(Top)
      /\ stack' = Below \/ stack' = <<Pending(Top.after)>> \o Below
  BY DEF Chain, Running, Plain
<1>2. Sound(interp, stack')
  BY <1>1, TopPlain, LineEntryOK DEF Plain
<1>3. flow' \in Flow
  BY DEF Chain, IInv, Flow
<1> QED
  BY <1>1, <1>2, <1>3, Keeps DEF Chain, IInv

\* && and ||: the second statement waits for the first.
LEMMA DispatchAndOrKeeps == ASSUME IInv, DispatchAndOr PROVE IInv'
<1>1. /\ stack # <<>> /\ at = "run" /\ Plain(Top)
      /\ stack' = Below \/ stack' = <<Pending(Top.line.rest)>> \o Below
  BY DEF DispatchAndOr, Dispatching, Running, Plain
<1>2. Sound(interp, stack')
  BY <1>1, TopPlain, LineEntryOK DEF Plain
<1> QED
  BY <1>1, <1>2, Keeps DEF DispatchAndOr, IInv

\* eval: the statement it makes is dispatched in its place.
LEMMA DispatchEvalKeeps == ASSUME IInv, DispatchEval PROVE IInv'
<1>1. /\ stack # <<>> /\ at = "run" /\ Plain(Top)
      /\ stack' = <<Pending(Top.line.rest)>> \o Below
      /\ interp' = SetStatus(interp, TRUE)
  BY DEF DispatchEval, Dispatching, Running, Plain
<1>2. Sound(interp', stack')
  BY <1>1, TopPlain, LineEntryOK, SoundStatus DEF Plain
<1> QED
  BY <1>1, <1>2, Keeps DEF DispatchEval, IInv

\* exit, break and continue begin to leave.
LEMMA DispatchFlowKeeps == ASSUME IInv, DispatchFlow PROVE IInv'
<1>1. /\ stack # <<>> /\ at = "run" /\ Plain(Top) /\ stack' = Below
      /\ interp' = SetStatus(interp, TRUE)
  BY DEF DispatchFlow, Dispatching, Running, Plain
<1>2. Sound(interp', stack')
  BY <1>1, TopPlain, SoundStatus
<1>3. flow' \in Flow
  BY DEF DispatchFlow, Flow
<1> QED
  BY <1>1, <1>2, <1>3, Keeps DEF DispatchFlow, IInv

\* A statement that assigns or only sets the status.
LEMMA DispatchSimpleKeeps == ASSUME IInv, DispatchSimple PROVE IInv'
<1>1. /\ stack # <<>> /\ at = "run" /\ Plain(Top) /\ stack' = Below
      /\ interp' \in Outcomes(interp, Top.line)
  BY DEF DispatchSimple, Running, Plain
<1>2. Sound(interp, Below)
  BY <1>1, TopPlain
<1>3. Stepped(interp, interp') /\ interp'.status \in BOOLEAN
  BY <1>1, SoundParts, OutcomesStep DEF IInv
<1>4. Sound(interp', Below)
  BY <1>2, <1>3, SoundStepped
<1> QED
  BY <1>1, <1>4, Keeps DEF DispatchSimple, InterruptAfter, IInv

\* source: the lines of the file, if there is one, run in a block.
LEMMA DispatchSourceKeeps == ASSUME IInv, DispatchSource PROVE IInv'
<1> DEFINE I == SetStatus(interp, TRUE)
           x == [kind |-> "source"]
<1>1. /\ stack # <<>> /\ at = "run" /\ Plain(Top)
      /\ \/ \E lines : EnterBlock(I, lines, <<x>> \o Below)
         \/ interp' = I /\ stack' = Below
  BY DEF DispatchSource, Dispatching, Running, Plain
<1>2. EntryOK(x) /\ Plain(x)
  BY DEF EntryOK, Plain, Kind
<1> HIDE DEF x, I
<1>3. Sound(I, Below) /\ Sound(I, <<x>> \o Below)
  BY <1>1, <1>2, TopPlain, SoundStatus DEF I
<1>4. Sound(interp', stack')
  BY <1>1, <1>3, SoundEntered DEF EnterBlock
<1> QED
  BY <1>1, <1>4, Keeps DEF DispatchSource, IInv

\* The end of a sourced file.
LEMMA ReturnFromSourceKeeps == ASSUME IInv, ReturnFromSource PROVE IInv'
<1>1. stack # <<>> /\ at = "run" /\ Plain(Top) /\ stack' = Below /\ interp' = interp
  BY DEF ReturnFromSource, Running, Plain
<1>2. Sound(interp', stack')
  BY <1>1, TopPlain
<1> QED
  BY <1>1, <1>2, Keeps DEF ReturnFromSource, IInv

\* A call either fails to bind its arguments or hides the caller's frames.
LEMMA CallKeeps ==
    ASSUME NEW I, NEW name, NEW args, NEW rest, Sound(I, rest),
           CallFunction(I, name, args, rest)
    PROVE  Sound(interp', stack')
<1> DEFINE def == I.functions[name]
           bound == BindAll(I, def.params, args)
           values == Bindings(bound)
           J == DefineLocals(PushScope(IsolateGlobalScope(I)), values)
           x == CallEntry(HiddenScopes(I))
<1>1. \/ interp' = I /\ stack' = rest
      \/ EnterBlock(J, def.body, <<x>> \o rest)
  BY DEF CallFunction, DefineParameters, CallEntry
<1>2. \A v \in DOMAIN values : v[1] \in Kinds
  <2>1. DOMAIN values = {bound[i].v : i \in DOMAIN bound}
    BY DEF Bindings
  <2>2. \A i \in DOMAIN bound : bound[i].v[1] \in Kinds
    <3>1. \A param, token : BindArgument(I, param, token).v[1] \in Kinds
      BY DEF BindArgument, Kinds
    <3> QED
      BY <3>1 DEF BindAll
  <2> HIDE DEF values, bound
  <2> QED
    BY <2>1, <2>2
<1> HIDE DEF def, bound, values
<1>3. Sound(PushScope(J), <<Block(def.body)>> \o (<<x>> \o rest))
  BY <1>2, SoundCalled
<1> QED
  BY <1>1, <1>3 DEF EnterBlock

\* A call of a user's function.
LEMMA DispatchCallKeeps == ASSUME IInv, DispatchCall PROVE IInv'
<1>1. stack # <<>> /\ at = "run" /\ Plain(Top)
  BY DEF DispatchCall, Running, Plain
<1>2. Sound(SetStatus(interp, TRUE), Below)
  BY <1>1, TopPlain, SoundStatus
<1>3. Sound(interp', stack')
  BY <1>2, CallKeeps DEF DispatchCall
<1> QED
  BY <1>1, <1>3, Keeps DEF DispatchCall, IInv

\* The end of a call, in whatever flow.
LEMMA ReturnFromCallKeeps == ASSUME IInv, ReturnFromCall PROVE IInv'
<1>1. /\ stack # <<>> /\ at = "run" /\ Head(stack).kind = "call"
      /\ interp' = RestoreScope(PopScope(interp), Head(stack).saved)
      /\ stack' = Tail(stack)
  BY DEF ReturnFromCall, Running, Top, Below
<1>2. Sound(interp', stack')
  BY <1>1, SoundReturned DEF IInv
<1>3. flow' \in Flow
  BY DEF ReturnFromCall, IInv, Flow
<1> QED
  BY <1>1, <1>2, <1>3, Keeps DEF ReturnFromCall, IInv

\* begin_echo_capture opens the buffer and nothing else.
LEMMA CaptureBegun ==
    ASSUME NEW I, IsInterpreter(I)
    PROVE  LET C == BeginCapture(I)
           IN  /\ IsInterpreter(C) /\ C.frames = I.frames /\ C.status = I.status
               /\ C.capturing = TRUE
<1> DEFINE Fields == {"frames", "functions", "status", "capturing", "captured"}
<1>1. ASSUME NEW t, NEW u
      PROVE  LET C == [I EXCEPT !.capturing = t, !.captured = u]
             IN  /\ IsInterpreter(C) /\ C.frames = I.frames /\ C.status = I.status
                 /\ C.capturing = t
  <2> DEFINE C == [I EXCEPT !.capturing = t, !.captured = u]
  <2>1. DOMAIN I = Fields
    BY DEF IsInterpreter
  <2>2. C.frames = I.frames /\ C.status = I.status /\ C.capturing = t
    BY DEF IsInterpreter
  <2>3. C = [x \in DOMAIN I |-> C[x]]
    OBVIOUS
  <2>4. C = [x \in Fields |-> C[x]]
    BY <2>1, <2>3
  <2> HIDE DEF C
  <2>5. IsInterpreter(C)
    BY <2>4 DEF IsInterpreter
  <2> QED
    BY <2>2, <2>5 DEF C
<1> QED
  BY <1>1, Zenon DEF BeginCapture

\* The prompt: the prompt function, when there is one, is called with a
\* capture open.
LEMMA RenderPromptKeeps == ASSUME IInv, RenderPrompt PROVE IInv'
<1> DEFINE I == SetVariable(interp, Pwd, <<Word("dir")>>)
           C == BeginCapture(I)
           x == [kind |-> "prompt"]
<1>1. /\ at = "prompt" /\ stack = <<>> /\ flow = "Normal" /\ Sound(interp, stack)
      /\ ~interp.capturing
  BY DEF RenderPrompt, IInv
<1>2. Pwd[1] \in Kinds
  BY DEF Pwd, Kinds
<1>3. Stepped(interp, I) /\ I.status = interp.status
  BY <1>1, <1>2, SoundParts, SetVariableSteps
<1>4. Sound(I, <<>>)
  BY <1>1, <1>3, SoundParts, SoundStepped
<1>5. EntryOK(x) /\ x.kind = "prompt"
  BY DEF EntryOK, Kind
<1> HIDE DEF I, x
<1>6. Sound(C, <<x>>)
  <2>1. /\ IsInterpreter(C) /\ C.frames = I.frames /\ C.status = I.status
        /\ C.capturing = TRUE
    BY <1>4, SoundParts, CaptureBegun
  <2>2. StackOK(<<>>) /\ Fits(I.frames, <<>>)
    BY <1>4 DEF Sound, Fits
  <2>3. Fits(I.frames, <<x>> \o <<>>) /\ Prompting(<<x>> \o <<>>)
    BY <2>2, <1>5, FitsPlain, StackPushed
  <2> QED
    BY <2>1, <2>3, <1>4, SoundParts, OnNothing DEF Sound
<1>7. \/ CallFunction(C, "PROMPT", <<>>, <<x>>) /\ at' = "run"
      \/ interp' = I /\ at' = "reading" /\ stack' = stack
  BY DEF RenderPrompt, I, x
<1>8. CASE CallFunction(C, "PROMPT", <<>>, <<x>>) /\ at' = "run"
  <2>1. Sound(interp', stack')
    BY <1>6, <1>8, CallKeeps
  <2> QED
    BY <2>1, <1>8 DEF IInv, RenderPrompt
<1>9. CASE interp' = I /\ at' = "reading" /\ stack' = stack
  <2>1. ~I.capturing
    BY <1>4, NothingToPrompt
  <2> QED
    BY <2>1, <1>1, <1>4, <1>9 DEF IInv, RenderPrompt
<1> QED
  BY <1>7, <1>8, <1>9

\* The prompt function has ended: the capture is closed.
LEMMA PromptRenderedKeeps == ASSUME IInv, PromptRendered PROVE IInv'
<1>1. /\ stack # <<>> /\ Head(stack).kind = "prompt" /\ Sound(interp, stack)
      /\ interp' = EndCapture(interp) /\ stack' = Tail(stack)
  BY DEF PromptRendered, Running, Top, Below, IInv
<1>2. StackOK(stack) /\ IsInterpreter(interp)
  BY <1>1, SoundParts
<1> DEFINE x == Head(stack)
           t == Tail(stack)
<1>3. stack = <<x>> \o t /\ StackOK(t) /\ EntryOK(x) /\ t = <<>>
  BY <1>1, <1>2, StackPopped
<1>4. /\ IsInterpreter(interp') /\ interp'.frames = interp.frames
      /\ interp'.status = interp.status /\ interp'.capturing = FALSE
  BY <1>1, <1>2 DEF EndCapture, IsInterpreter
<1> HIDE DEF x, t
<1>5. Fits(interp.frames, t)
  <2>1. Fits(interp.frames, <<x>> \o t) /\ x.kind = "prompt"
    BY <1>1, <1>3 DEF Sound, x
  <2> QED
    BY <2>1, <1>3, FitsPlain
<1>6. Sound(interp', stack') /\ stack' = <<>>
  BY <1>1, <1>3, <1>4, <1>5 DEF Sound, t
<1> QED
  BY <1>4, <1>6 DEF IInv, PromptRendered, Flow

\* initrc has ended: on to the prompt, whatever it returned.
LEMMA StartedKeeps == ASSUME IInv, Started PROVE IInv'
<1>1. /\ stack # <<>> /\ Head(stack).kind = "initrc" /\ Sound(interp, stack)
      /\ interp' = interp /\ stack' = Tail(stack)
  BY DEF Started, Running, Top, Below, IInv
<1>2. Sound(interp, Tail(stack))
  BY <1>1, SoundPopped
<1>3. Tail(stack) = <<>>
  BY <1>1, SoundParts, StackPopped
<1>4. ~interp.capturing
  BY <1>2, <1>3, NothingToPrompt
<1> QED
  BY <1>1, <1>2, <1>3, <1>4 DEF IInv, Started, Flow

\* An input, or the script, has ended: back at the prompt, or stopped.
LEMMA InputDoneKeeps == ASSUME IInv, InputDone PROVE IInv'
<1>1. stack = <<>> /\ Sound(interp, <<>>)
  BY DEF InputDone, IInv
<1>2. ~interp.capturing
  BY <1>1, NothingToPrompt
<1> QED
  BY <1>1, <1>2 DEF InputDone, IInv, Flow

\* An input is read: a statement, or a block, which the user may abandon.
LEMMA ReadLineKeeps == ASSUME IInv, ReadLine PROVE IInv'
<1>1. /\ stack = <<>> /\ Sound(interp, <<>>) /\ at = "reading" /\ flow = "Normal"
      /\ ~interp.capturing
  BY DEF ReadLine, IInv
<1>2. typed' \in 0..MaxInputs
  BY ShellAssumption DEF ReadLine, IInv
<1>3. /\ flow' = flow /\ script' = script /\ interrupt' = interrupt /\ presses' = presses
      /\ \/ \E lines : EnterBlock(interp, lines, <<>>) /\ at' = "run"
         \/ at' = "prompt" /\ interp' = interp /\ stack' = stack
         \/ \E line : stack' = <<Pending(line)>> /\ at' = "run" /\ interp' = interp
  BY DEF ReadLine
<1>4. ASSUME NEW lines, EnterBlock(interp, lines, <<>>), at' = "run"
      PROVE  IInv'
  <2>1. Sound(interp', stack')
    BY <1>1, <1>4, SoundEntered DEF EnterBlock
  <2> QED
    BY <2>1, <1>2, <1>3, <1>4 DEF IInv
<1>5. ASSUME at' = "prompt", interp' = interp, stack' = stack
      PROVE  IInv'
  BY <1>1, <1>2, <1>3, <1>5 DEF IInv
<1>6. ASSUME NEW line, stack' = <<Pending(line)>>, at' = "run", interp' = interp
      PROVE  IInv'
  <2>1. Sound(interp, <<Pending(line)>> \o <<>>)
    BY <1>1, LineEntryOK, SoundPushed
  <2>2. Sound(interp', stack')
    BY <2>1, <1>6, OnNothing
  <2> QED
    BY <2>2, <1>2, <1>3, <1>6 DEF IInv
<1> QED
  BY <1>3, <1>4, <1>5, <1>6

\* End of input stops the shell.
LEMMA EndOfInputKeeps == ASSUME IInv, EndOfInput PROVE IInv'
BY DEF IInv, EndOfInput

\* A press of Ctrl+C only raises the flag.
LEMMA CtrlCKeeps == ASSUME IInv, CtrlC PROVE IInv'
<1>1. presses' \in 0..Presses
  BY ShellAssumption DEF CtrlC, IInv
<1> QED
  BY <1>1 DEF IInv, CtrlC

\* Every step keeps the invariant.
LEMMA StepKeeps == ASSUME IInv, [Next]_vars PROVE IInv'
<1>1. CASE UNCHANGED vars
  BY <1>1 DEF IInv, vars
<1>2. CASE Run
  BY <1>2, TakeInterruptKeeps, LeaveBlockKeeps, NextLineKeeps, ExecIfKeeps, ExecMatchKeeps,
     TryBranchKeeps, ExecWhileKeeps, IterateKeeps, ExecForKeeps, NextElementKeeps,
     LoopFlowKeeps, DefineFnKeeps, ExecParallelKeeps, DispatchChainKeeps, ChainKeeps,
     DispatchAndOrKeeps, DispatchEvalKeeps, DispatchFlowKeeps, DispatchSimpleKeeps,
     DispatchSourceKeeps, ReturnFromSourceKeeps, DispatchCallKeeps, ReturnFromCallKeeps,
     RenderPromptKeeps, PromptRenderedKeeps, InputDoneKeeps, StartedKeeps DEF Run
<1>3. CASE ReadLine \/ EndOfInput \/ CtrlC
  BY <1>3, ReadLineKeeps, EndOfInputKeeps, CtrlCKeeps
<1> QED
  BY <1>1, <1>2, <1>3 DEF Next

\* It holds at the start of a script, and of initrc.
LEMMA InitSound == ASSUME Init PROVE IInv
<1> DEFINE N == NewInterpreter
           v == <<<<Word("a")>>>>
           S == SetVariable(N, ScriptArgs, v)
           r == [kind |-> "initrc"]
           q == [kind |-> "source"]
<1>1. Sound(N, <<>>)
  <2>1. /\ IsInterpreter(N) /\ N.status = TRUE /\ N.capturing = FALSE
        /\ N.frames = << <<>> >>
    BY DEF NewInterpreter, IsInterpreter
  <2> DEFINE f == << <<>> >>
  <2>2. /\ IsSeq(f) /\ Len(f) = 1 /\ DOMAIN f = {1} /\ DOMAIN f[1] = {}
        /\ IsSeq(<<>>) /\ DOMAIN <<>> = {} /\ Len(<<>>) = 0
    <3>1. \A e : <<e>> \in Seq({e}) /\ Len(<<e>>) = 1 /\ DOMAIN <<e>> = {1} /\ <<e>>[1] = e
      OBVIOUS
    <3>2. DOMAIN <<>> = {} /\ <<>> \in Seq({}) /\ Len(<<>>) = 0
      OBVIOUS
    <3>3. f \in Seq({<<>>}) /\ Len(f) = 1 /\ DOMAIN f = {1} /\ f[1] = <<>>
      BY <3>1, Zenon
    <3> QED
      BY <3>2, <3>3, SeqOver
  <2> DEFINE e == <<>>
  <2> HIDE DEF f, e
  <2>3. FramesOK(f) /\ \A b : SingleOwners(f, b)
    BY <2>2 DEF FramesOK, KindsIn, SingleOwners
  <2>4. StackOK(e) /\ Calls(e) = {} /\ BlocksBelow(e, 0) = {}
    BY <2>2 DEF StackOK, Calls, BlocksBelow, e
  <2>5. Scopes(e, 0) = 0
    BY <2>4, FS_EmptySet DEF Scopes, InCall
  <2>6. Fits(f, e)
    BY <2>2, <2>3, <2>4, <2>5 DEF Fits, CallsBalanced, CallsOwned
  <2> QED
    BY <2>1, <2>6 DEF Sound, f, e
<1>2. N.capturing = FALSE /\ N.status = TRUE
  BY DEF NewInterpreter
<1>3. ASSUME NEW lines, script = TRUE, interp = PushScope(S), stack = <<Block(lines)>>
      PROVE  Sound(interp, stack)
  <2>1. ScriptArgs[1] \in Kinds
    BY DEF ScriptArgs, Kinds
  <2> HIDE DEF N, v
  <2>2. Stepped(N, S) /\ S.status = N.status
    BY <1>1, <2>1, SoundParts, SetVariableSteps
  <2>3. Sound(S, <<>>)
    BY <1>1, <1>2, <2>2, SoundStepped
  <2> HIDE DEF S
  <2>4. Sound(PushScope(S), <<Block(lines)>> \o <<>>)
    BY <2>3, SoundEntered
  <2> QED
    BY <2>4, <1>3, OnNothing
<1>4. ASSUME NEW lines, script = FALSE, interp = PushScope(N),
             stack = <<Block(lines), q, r>>
      PROVE  Sound(interp, stack)
  <2> DEFINE b == Block(lines)
  <2>1. EntryOK(r) /\ r.kind = "initrc" /\ EntryOK(q) /\ q.kind = "source"
    BY DEF EntryOK, Kind
  <2>2. StackOK(<<>>) /\ Fits(N.frames, <<>>) /\ IsInterpreter(N)
    BY <1>1 DEF Sound, Fits
  <2> HIDE DEF N, r, q, b
  <2>3. Fits(N.frames, <<r>> \o <<>>)
    BY <2>1, <2>2, FitsPlain
  <2>4. Sound(N, <<r>>)
    BY <1>2, <2>2, <2>3, OnNothing DEF Sound
  <2>5. Sound(N, <<q>> \o <<r>>)
    BY <2>1, <2>4, SoundPushed
  <2>6. Sound(PushScope(N), <<b>> \o (<<q>> \o <<r>>))
    BY <2>5, SoundEntered DEF b
  <2>7. <<b>> \o (<<q>> \o <<r>>) = <<b, q, r>>
    <3> DEFINE T == {b, q, r}
               u == <<b>> \o (<<q>> \o <<r>>)
    <3>1. <<b>> \in Seq(T) /\ <<q>> \in Seq(T) /\ <<r>> \in Seq(T)
      OBVIOUS
    <3>2. u \in Seq(T) /\ Len(u) = 3 /\ u[1] = b /\ u[2] = q /\ u[3] = r
      BY <3>1
    <3> HIDE DEF u
    <3>3. u = <<u[1], u[2], u[3]>>
      BY <3>2
    <3> QED
      BY <3>2, <3>3 DEF u
  <2> QED
    BY <2>6, <2>7, <1>4 DEF b
<1> HIDE DEF N, S, q, r
<1>5. Sound(interp, stack)
  BY <1>3, <1>4 DEF Init, N, S, q, r
<1>6. /\ flow = "Normal" /\ at = "run" /\ interrupt = FALSE /\ typed = 0 /\ presses = 0
      /\ script \in BOOLEAN
  BY DEF Init
<1>7. typed \in 0..MaxInputs /\ presses \in 0..Presses
  BY <1>6, ShellAssumption
<1> QED
  BY <1>5, <1>6, <1>7, Zenon DEF IInv, Flow

----------------------------------------------------------------------------
(* Theorems. *)

THEOREM InvariantHolds == Spec => []IInv
<1>1. Init => IInv
  BY InitSound
<1>2. IInv /\ [Next]_vars => IInv'
  BY StepKeeps
<1> QED
  BY <1>1, <1>2, PTL DEF Spec

\* The values have the types of the code, and nothing of a statement is left
\* when the shell asks for another line.
THEOREM TypeCorrect == Spec => []TypeOK
<1>1. IInv => TypeOK
  <2> SUFFICES ASSUME IInv PROVE TypeOK
    OBVIOUS
  <2>1. /\ FramesOK(interp.frames) /\ StackOK(stack)
        /\ interp.status \in BOOLEAN /\ interp.capturing \in BOOLEAN
    BY SoundParts DEF IInv
  <2> QED
    BY <2>1 DEF TypeOK, IInv, FramesOK, KindsIn, StackOK, EntryOK
<1> QED
  BY <1>1, InvariantHolds, PTL

\* The scopes alive are those of the blocks being executed, in the running call
\* and in every call that waits, however the blocks are left.
THEOREM ScopesAlwaysFollowBlocks == Spec => []ScopesFollowBlocks
<1>1. IInv => ScopesFollowBlocks
  BY DEF IInv, Sound, Fits, CallsBalanced, ScopesFollowBlocks
<1> QED
  BY <1>1, InvariantHolds, PTL

\* No two frames of a call hold one name, unless a parameter shadows a global:
\* an assignment always finds the owner.
THEOREM EachNameAlwaysHasOneOwner == Spec => []EachNameHasOneOwner
<1>1. IInv => EachNameHasOneOwner
  BY DEF IInv, Sound, Fits, CallsOwned, EachNameHasOneOwner
<1> QED
  BY <1>1, InvariantHolds, PTL

\* The frame of the globals stays when scopes are pushed, popped or restored.
LEMMA GlobalFrameStays ==
    ASSUME NEW I, IsInterpreter(I), FramesOK(I.frames)
    PROVE  /\ PopScope(I).frames[1] = I.frames[1] /\ PopScope(I).status = I.status
           /\ PopScope(I).functions = I.functions
           /\ \A saved : IsSeq(saved) =>
                LET J == RestoreScope(PopScope(I), saved)
                IN  /\ J.frames[1] = I.frames[1] /\ J.status = I.status
                    /\ J.functions = I.functions
<1> DEFINE f == I.frames
           g == SubSeq(f, 1, Len(f) - 1)
           P == PopScope(I)
<1>1. IsSeq(f) /\ Len(f) \in Nat /\ Len(f) >= 1 /\ f # <<>>
  BY SeqShape DEF FramesOK
<1>2. IsSeq(g) /\ Len(g) = Len(f) - 1 /\ \A i \in 1..(Len(f) - 1) : g[i] = f[i]
  BY <1>1, SeqFront
<1>3. /\ IsInterpreter(P) /\ P.frames = IF Len(f) > 1 THEN g ELSE f
      /\ P.status = I.status /\ P.functions = I.functions
  BY DEF PopScope, IsInterpreter
<1> HIDE DEF f, g, P
<1>4. IsSeq(P.frames) /\ P.frames[1] = f[1] /\ Len(P.frames) >= 1
  BY <1>1, <1>2, <1>3
<1>5. ASSUME NEW saved, IsSeq(saved)
      PROVE  LET J == RestoreScope(P, saved)
             IN  J.frames[1] = f[1] /\ J.status = I.status /\ J.functions = I.functions
  <2> DEFINE J == RestoreScope(P, saved)
  <2>1. J.frames = P.frames \o saved /\ J.status = P.status /\ J.functions = P.functions
    BY <1>3 DEF RestoreScope, IsInterpreter
  <2>2. (P.frames \o saved)[1] = P.frames[1]
    <3> DEFINE T == Range(P.frames) \cup Range(saved)
               p == P.frames
    <3>1. p \in Seq(T) /\ saved \in Seq(T) /\ Len(p) >= 1
      BY <1>4, <1>5 DEF IsSeq, Range
    <3> HIDE DEF T, p
    <3>2. (p \o saved)[1] = p[1]
      BY <3>1
    <3> QED
      BY <3>2 DEF p
  <2> QED
    BY <2>1, <2>2, <1>3, <1>4
<1> QED
  BY <1>3, <1>4, <1>5 DEF f, P

\* While the constructs that an exit, a break, a continue or an interrupt leaves
\* are being left, no statement runs: status, functions, globals and environment
\* stay, and every step leaves a construct or stays.
LEMMA LeavingStep ==
    ASSUME IInv, [Next]_vars, at = "run", flow # "Normal"
    PROVE  /\ interp'.status = interp.status
           /\ interp'.functions = interp.functions
           /\ interp'.frames[1] = interp.frames[1]
           /\ env' = env
           /\ stack' = stack \/ Len(stack') < Len(stack)
<1>1. IsInterpreter(interp) /\ FramesOK(interp.frames) /\ StackOK(stack)
  BY SoundParts DEF IInv
<1>2. stack # <<>> => Len(Below) < Len(stack)
  <2> HAVE stack # <<>>
  <2>1. Len(Below) = Len(stack) - 1 /\ Len(stack) \in Nat
    BY <1>1, SeqPop, SeqShape DEF StackOK, Below
  <2> QED
    BY <2>1
<1>3. CASE UNCHANGED vars
  BY <1>3 DEF vars
<1>4. CASE LoopFlow \/ Chain \/ ReturnFromSource \/ Started \/ InputDone \/ CtrlC
  <2>1. interp' = interp /\ env' = env
    BY <1>4 DEF LoopFlow, Chain, ReturnFromSource, Started, InputDone, CtrlC
  <2>2. stack' = stack \/ (stack # <<>> /\ stack' = Below)
    BY <1>4 DEF LoopFlow, Chain, ReturnFromSource, Started, InputDone, CtrlC, Running,
      ChainGoesOn
  <2> QED
    BY <2>1, <2>2, <1>2
<1>5. CASE PromptRendered
  <2>1. /\ interp' = EndCapture(interp) /\ env' = env /\ stack # <<>> /\ stack' = Below
    BY <1>5 DEF PromptRendered, Running
  <2>2. /\ interp'.status = interp.status /\ interp'.functions = interp.functions
        /\ interp'.frames = interp.frames
    BY <2>1, <1>1 DEF EndCapture, IsInterpreter
  <2> QED
    BY <2>1, <2>2, <1>2
<1>6. CASE LeaveBlock
  <2>1. interp' = PopScope(interp) /\ env' = env /\ stack # <<>> /\ stack' = Below
    BY <1>6 DEF LeaveBlock, LeaveScope, Running
  <2> QED
    BY <2>1, <1>1, <1>2, GlobalFrameStays
<1>7. CASE ReturnFromCall
  <2>1. /\ interp' = RestoreScope(PopScope(interp), Top.saved) /\ env' = env
        /\ stack # <<>> /\ stack' = Below /\ Top.kind = "call"
    BY <1>7 DEF ReturnFromCall, Running
  <2>2. IsSeq(Top.saved)
    BY <2>1, <1>1, StackPopped DEF Top, EntryOK
  <2> QED
    BY <2>1, <2>2, <1>1, <1>2, GlobalFrameStays
<1>8. ~(\/ TakeInterrupt \/ NextLine \/ ExecIf \/ ExecMatch \/ TryBranch \/ ExecWhile
        \/ Iterate \/ ExecFor \/ NextElement \/ DefineFn \/ ExecParallel \/ DispatchChain
        \/ DispatchAndOr \/ DispatchEval \/ DispatchFlow \/ DispatchSimple
        \/ DispatchSource \/ DispatchCall \/ RenderPrompt \/ ReadLine \/ EndOfInput)
  BY DEF TakeInterrupt, NextLine, ExecIf, ExecMatch, TryBranch, ExecWhile, Iterate, ExecFor,
     NextElement, DefineFn, ExecParallel, DispatchChain, DispatchAndOr, DispatchEval,
     DispatchFlow, DispatchSimple, DispatchSource, DispatchCall, RenderPrompt, ReadLine,
     EndOfInput, MayRun, NextIs, Dispatching
<1> QED
  BY <1>3, <1>4, <1>5, <1>6, <1>7, <1>8 DEF Next, Run

\* While an exit, a break, a continue or an interrupt leaves the constructs it
\* was raised in, no statement runs.
THEOREM LeavingAlwaysRunsNothing == Spec => LeavingRunsNothing
<1>1. IInv /\ [Next]_vars =>
        (at = "run" /\ flow # "Normal" =>
           /\ interp'.status = interp.status
           /\ interp'.functions = interp.functions
           /\ interp'.frames[1] = interp.frames[1]
           /\ env' = env
           /\ stack' = stack \/ Len(stack') < Len(stack))
  BY LeavingStep
<1> QED
  BY <1>1, InvariantHolds, PTL DEF Spec, LeavingRunsNothing

=============================================================================
