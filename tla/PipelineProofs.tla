--------------------------- MODULE PipelineProofs ---------------------------
(* Machine-checked, for lines of any length, any programs, files, variables
   and journals, and pipes of any capacity: every value keeps its kind, no pipe
   holds more than it can or is read by two, a process that has ended holds no
   pipe, and the shell does not carry on what a stage was given.

   Two things are behind it.  A stage of the shell leaves a world whose journals
   are journals, and gives a value of the four structured kinds or none
   (StagesSound), so that a stage can never be taken for a pipe.  And a pipe that
   is carried is an output of the stage before, which the shell alone reads until
   it hands it over (Carrying, Feeding); a process gets hold of pipes only when
   it is started, so one that has let go of them holds none for good
   (NoNewHolder). *)
EXTENDS Pipeline, FiniteSetTheorems, TLAPS

-----------------------------------------------------------------------------
(* Sequences of anything.                                                  *)

IsSequence(s) == s \in Seq(ToSet(s))

LEMMA SequenceOf ==
  ASSUME NEW V, NEW s \in Seq(V)
  PROVE  IsSequence(s)
<1>1. \A i \in 1..Len(s) : s[i] \in ToSet(s)
  BY DEF ToSet
<1> QED BY <1>1 DEF IsSequence, ToSet

LEMMA Appended ==
  ASSUME NEW s, NEW x, IsSequence(s)
  PROVE  /\ IsSequence(Append(s, x))
         /\ Len(s) \in Nat /\ Len(Append(s, x)) = Len(s) + 1
         /\ \A i \in DOMAIN Append(s, x) :
              Append(s, x)[i] = x \/ (i \in DOMAIN s /\ Append(s, x)[i] = s[i])
<1> DEFINE V == ToSet(s) \cup {x}
<1>1. s \in Seq(ToSet(s)) /\ ToSet(s) \subseteq V /\ x \in V
  BY DEF IsSequence
<1>2. s \in Seq(V)
  BY <1>1
<1>3. Append(s, x) \in Seq(V) /\ Len(Append(s, x)) = Len(s) + 1 /\ Len(s) \in Nat
  BY <1>1, <1>2
<1>4. IsSequence(Append(s, x))
  BY <1>3, SequenceOf
<1>5. ASSUME NEW i \in DOMAIN Append(s, x)
      PROVE  Append(s, x)[i] = x \/ (i \in DOMAIN s /\ Append(s, x)[i] = s[i])
  BY <1>1, <1>2, <1>3
<1> QED BY <1>3, <1>4, <1>5

LEMMA Shortened ==
  ASSUME NEW s, IsSequence(s), s # <<>>
  PROVE  IsSequence(Tail(s)) /\ Len(s) \in Nat /\ Len(Tail(s)) = Len(s) - 1
<1>1. s \in Seq(ToSet(s))
  BY DEF IsSequence
<1>2. Tail(s) \in Seq(ToSet(s)) /\ Len(s) \in Nat /\ Len(Tail(s)) = Len(s) - 1
  BY <1>1
<1> QED BY <1>2, SequenceOf

-----------------------------------------------------------------------------
(* What the stages of the shell make.                                      *)

\* The world has its three parts, and what is saved are journals.
IsWorld(w) ==
  /\ w = [files |-> w.files, saved |-> w.saved, did |-> w.did]
  /\ IsSequence(w.saved)
  /\ \A i \in DOMAIN w.saved : IsJournal(w.saved[i])

\* What an outcome is: its form says whether it has a value, and of what kind.
IsOutcome(o) ==
  /\ IsWorld(o.world)
  /\ o.form \in {"text", "value", "report"}
  /\ o.form = "value" => IsValue(o.value)
  /\ o.form = "report" => o.value = Nothing \/ IsValue(o.value)

Sound(outcomes) == \A o \in outcomes : IsOutcome(o)

LEMMA FailsSound ==
  ASSUME NEW w, IsWorld(w)
  PROVE  Sound(Fails(w))
BY DEF Sound, IsOutcome, Fails, Failed

LEMMA SaysSound ==
  ASSUME NEW w, IsWorld(w), NEW text
  PROVE  Sound(Says(text, w))
BY DEF Sound, IsOutcome, Says, Failed

LEMMA GivesSound ==
  ASSUME NEW w, IsWorld(w), NEW v, IsValue(v)
  PROVE  Sound(Gives(v, w))
BY DEF Sound, IsOutcome, Gives, Failed

LEMMA DidSound ==
  ASSUME NEW w, IsWorld(w), NEW x
  PROVE  IsWorld([w EXCEPT !.did = Append(@, x)])
<1> DEFINE v == [w EXCEPT !.did = Append(@, x)]
<1>1. w = [files |-> w.files, saved |-> w.saved, did |-> w.did]
  BY DEF IsWorld
<1>2. v = [files |-> w.files, saved |-> w.saved, did |-> Append(w.did, x)]
  BY <1>1
<1>3. v.files = w.files /\ v.saved = w.saved /\ v.did = Append(w.did, x)
  BY <1>2
<1> HIDE DEF v
<1> QED BY <1>2, <1>3 DEF IsWorld

LEMMA ReportsSound ==
  ASSUME NEW w, IsWorld(w), NEW op, NEW paths, NEW v, v = Nothing \/ IsValue(v)
  PROVE  Sound(Reports(op, paths, v, w))
<1> DEFINE did == [w EXCEPT !.did = Append(@, <<op, paths>>)]
           o == [ok |-> TRUE, form |-> "report", text |-> Lines(<<op>>), value |-> v,
                 world |-> did]
<1>1. IsWorld(did)
  BY DidSound
<1>2. Reports(op, paths, v, w) = {o}
  BY DEF Reports
<1> HIDE DEF did
<1>3. o.world = did /\ o.form = "report" /\ o.value = v
  OBVIOUS
<1> HIDE DEF o
<1> QED BY <1>1, <1>2, <1>3 DEF Sound, IsOutcome

LEMMA MayFailSound ==
  ASSUME NEW w, IsWorld(w), NEW S, Sound(S)
  PROVE  Sound(MayFail(S, w))
BY FailsSound DEF Sound, MayFail

\* Saving a journal adds it or replaces one.
LEMMA SaveSound ==
  ASSUME NEW w, IsWorld(w), NEW j, IsJournal(j)
  PROVE  IsWorld(Save(j, w))
<1> DEFINE i == SelectInSeq(w.saved, LAMBDA k : k.id = j.id)
           s == IF i = 0 THEN Append(w.saved, j) ELSE ReplaceAt(w.saved, i, j)
<1>1. w = [files |-> w.files, saved |-> w.saved, did |-> w.did]
  BY DEF IsWorld
<1>2. Save(j, w) = [w EXCEPT !.saved = s]
  BY DEF Save
<1>3. IsSequence(s) /\ \A k \in DOMAIN s : IsJournal(s[k])
  <2> HIDE DEF i
  <2>1. CASE i = 0
    BY <2>1, Appended DEF IsWorld
  <2>2. CASE i # 0
    <3>1. s = [w.saved EXCEPT ![i] = j]
      BY <2>2 DEF ReplaceAt
    <3>2. w.saved \in Seq(ToSet(w.saved) \cup {j})
      BY DEF IsWorld, IsSequence
    <3>3. s \in Seq(ToSet(w.saved) \cup {j})
      BY <3>1, <3>2
    <3>4. \A k \in DOMAIN s : k \in DOMAIN w.saved /\ (s[k] = j \/ s[k] = w.saved[k])
      BY <3>1
    <3> QED BY <3>3, <3>4, SequenceOf DEF IsWorld
  <2> QED BY <2>1, <2>2
<1> HIDE DEF s
<1> DEFINE v == [files |-> w.files, saved |-> s, did |-> w.did]
<1>4. Save(j, w) = v
  BY <1>1, <1>2
<1>5. v.files = w.files /\ v.saved = s /\ v.did = w.did
  OBVIOUS
<1> HIDE DEF v
<1> QED BY <1>3, <1>4, <1>5 DEF IsWorld, v

\* What is carried to a stage.
IsCarried(c) == c.kind \in {"none", "bytes", "stdio", "merge"} \/ IsValue(c)

LEMMA CarriedKinds ==
  ASSUME NEW c, IsCarried(c)
  PROVE  /\ c.kind \in {"none", "bytes", "stdio", "merge", "table", "fileset", "plan", "journal"}
         /\ c.kind = "fileset" => IsFileSet(c)
         /\ c.kind = "journal" => IsJournal(c)
         /\ IsStructured(c) => IsValue(c)
BY DEF IsCarried, IsValue, IsFileSet, IsJournal, IsStructured

LEMMA TableIsValue == ASSUME NEW rows PROVE IsValue(Table(rows))
BY DEF IsValue, Table

LEMMA PlanIsValue ==
  ASSUME NEW op, NEW paths, NEW force PROVE IsValue(Plan(op, paths, force))
BY DEF IsValue, Plan

LEMMA FileSetIsValue ==
  ASSUME NEW files, NEW roots PROVE IsValue(NewFileSet(files, roots))
<1> DEFINE columns == {"path", "size", "modified", "is_dir"}
                        \cup {c \in {"sha256"} : \E i \in DOMAIN files : files[i].hash # NoHash}
           v == [kind |-> "fileset", files |-> files, roots |-> roots, columns |-> columns]
<1>1. NewFileSet(files, roots) = v
  BY DEF NewFileSet
<1> HIDE DEF columns
<1>2. v.kind = "fileset" /\ v.files = files /\ v.roots = roots /\ v.columns = columns
  OBVIOUS
<1> QED BY <1>1, <1>2 DEF IsValue, IsFileSet

LEMMA JournalIsJournal ==
  ASSUME NEW id, NEW op, NEW status, NEW safe, NEW paths
  PROVE  IsJournal(Journal(id, op, status, safe, paths))
BY DEF IsJournal, Journal

LEMMA EndedIsJournal ==
  ASSUME NEW j, IsJournal(j), NEW status
  PROVE  IsJournal(Ended(j, status))
<1>1. j = Journal(j.id, j.op, j.status, j.safe, j.paths)
  BY DEF IsJournal
<1>2. Ended(j, status) = Journal(j.id, j.op, status, j.safe, j.paths)
  BY <1>1 DEF Ended, Journal
<1> QED BY <1>2, JournalIsJournal

LEMMA JournalIsValue == ASSUME NEW j, IsJournal(j) PROVE IsValue(j)
BY DEF IsValue

LEMMA SelectedIsValue ==
  ASSUME NEW f, IsFileSet(f), NEW columns PROVE IsValue(SelectFiles(f, columns))
<1> DEFINE v == [kind |-> "fileset", files |-> f.files, roots |-> f.roots,
                 columns |-> ToSet(columns)]
<1>1. f = [kind |-> "fileset", files |-> f.files, roots |-> f.roots, columns |-> f.columns]
  BY DEF IsFileSet
<1>2. SelectFiles(f, columns) = v
  BY <1>1 DEF SelectFiles
<1>3. v.kind = "fileset" /\ v.files = f.files /\ v.roots = f.roots /\ v.columns = ToSet(columns)
  OBVIOUS
<1> HIDE DEF v
<1> QED BY <1>2, <1>3 DEF IsValue, IsFileSet, v

LEMMA FilteredIsValue ==
  ASSUME NEW f, IsFileSet(f), NEW column, NEW op, NEW value
  PROVE  IsValue(FilterFiles(f, column, op, value))
<1> DEFINE files == SelectSeq(f.files, LAMBDA g : Satisfies(FileRow(g), column, op, value))
           v == [kind |-> "fileset", files |-> files, roots |-> f.roots, columns |-> f.columns]
<1>1. f = [kind |-> "fileset", files |-> f.files, roots |-> f.roots, columns |-> f.columns]
  BY DEF IsFileSet
<1>2. FilterFiles(f, column, op, value) = [f EXCEPT !.files = files]
  BY DEF FilterFiles
<1> HIDE DEF files
<1>3. FilterFiles(f, column, op, value) = v
  BY <1>1, <1>2
<1>4. v.kind = "fileset" /\ v.files = files /\ v.roots = f.roots /\ v.columns = f.columns
  OBVIOUS
<1> HIDE DEF v
<1> QED BY <1>3, <1>4 DEF IsValue, IsFileSet, v

\* The text stages and the listings.
LEMMA TextSound ==
  ASSUME NEW args, NEW in, NEW w, IsWorld(w), IsCarried(in)
  PROVE  /\ Sound(Echo(args, w)) /\ Sound(Cat(args, w)) /\ Sound(Find(args, in, w))
         /\ \A kind : Sound(ListEntries(kind, args, w))
<1>1. Sound(Fails(w)) /\ (\A t : Sound(Says(t, w)))
      /\ (\A f, r : Sound(Gives(NewFileSet(f, r), w)))
  BY FailsSound, SaysSound, GivesSound, FileSetIsValue
<1>2. Sound(Echo(args, w))
  BY <1>1 DEF Echo
<1>3. Sound(Cat(args, w))
  BY <1>1, Zenon DEF Cat
<1>4. Sound(FindInFileSet(args, in, w))
  BY <1>1, Zenon DEF FindInFileSet
<1>5. Sound(FindText(args, w))
  BY <1>1, Zenon DEF FindText
<1>6. Sound(Find(args, in, w))
  BY <1>4, <1>5, Zenon DEF Find
<1>7. ASSUME NEW kind PROVE Sound(ListEntries(kind, args, w))
  BY <1>1, Zenon DEF ListEntries
<1> QED BY <1>2, <1>3, <1>6, <1>7

\* The stages on tables and file sets.
LEMMA StructuredSound ==
  ASSUME NEW args, NEW in, NEW w, IsWorld(w), IsCarried(in)
  PROVE  /\ Sound(FromJsonStage(in, w)) /\ Sound(FromCsvStage(in, w))
         /\ Sound(ToJsonStage(in, w)) /\ Sound(ToCsvStage(in, w))
         /\ Sound(SelectStage(args, in, w)) /\ Sound(MergeStage(args, in, w))
         /\ Sound(WhereStage(args, in, w)) /\ Sound(DateColumnStage(args, in, w))
         /\ Sound(StatStage(args, in, w))
<1>1. Sound(Fails(w)) /\ (\A t : Sound(Says(t, w)))
      /\ (\A rows : Sound(Gives(Table(rows), w)))
      /\ (\A f, r : Sound(Gives(NewFileSet(f, r), w)))
  BY FailsSound, SaysSound, GivesSound, FileSetIsValue, TableIsValue
<1>2. ASSUME in.kind = "fileset"
      PROVE  /\ Sound(Gives(in, w))
             /\ \A columns : Sound(Gives(SelectFiles(in, columns), w))
             /\ \A c, o, v : Sound(Gives(FilterFiles(in, c, o, v), w))
  <2>1. IsFileSet(in) /\ IsValue(in)
    BY <1>2, CarriedKinds DEF IsValue
  <2> QED BY <2>1, GivesSound, SelectedIsValue, FilteredIsValue
<1>3. Sound(FromJsonStage(in, w)) /\ Sound(FromCsvStage(in, w))
  BY <1>1, Zenon DEF FromJsonStage, FromCsvStage
<1>4. Sound(ToJsonStage(in, w)) /\ Sound(ToCsvStage(in, w))
  BY <1>1, Zenon DEF ToJsonStage, ToCsvStage
<1>5. Sound(SelectStage(args, in, w))
  BY <1>1, <1>2 DEF SelectStage
<1>6. Sound(MergeStage(args, in, w))
  BY <1>1, Zenon DEF MergeStage
<1>7. Sound(WhereStage(args, in, w))
  BY <1>1, <1>2 DEF WhereStage
<1>8. Sound(DateColumnStage(args, in, w))
  BY <1>1, Zenon DEF DateColumnStage
<1>9. Sound(StatStage(args, in, w))
  <2> DEFINE hash == Given(args, {"--hash"})
             named == SelectSeq(args, LAMBDA a : a \notin LongOptions \cup {"sha256"})
             paths == CASE named # << >> -> named
                        [] in.kind = "bytes" -> PathLines(in.text)
                        [] OTHER -> << >>
             bad == \/ ~OnlyOptions(args, LongOptions, {"--hash"})
                    \/ \E i \in DOMAIN args :
                         /\ args[i] = "--hash"
                         /\ i < Len(args) => args[i + 1] # "sha256"
  <2>1. StatStage(args, in, w) =
          CASE bad -> Fails(w)
            [] named = << >> /\ in.kind = "fileset" /\ ~hash -> Gives(in, w)
            [] named = << >> /\ in.kind = "fileset" /\ hash ->
                 Gives(NewFileSet(StatRecords(FilePaths(in), TRUE, w), << >>), w)
            [] OTHER -> Gives(NewFileSet(StatRecords(paths, hash, w), << >>), w)
    BY DEF StatStage
  <2> HIDE DEF hash, named, paths, bad
  <2> QED BY <2>1, <1>1, <1>2
<1> QED BY <1>3, <1>4, <1>5, <1>6, <1>7, <1>8, <1>9

\* The file operations.
LEMMA OperationsSound ==
  ASSUME NEW args, NEW in, NEW w, IsWorld(w), IsCarried(in)
  PROVE  /\ Sound(CopyStage(args, in, w)) /\ Sound(MoveStage(args, in, w))
         /\ Sound(DeleteStage(args, in, w)) /\ Sound(CompressStage(args, in, w))
<1>1. Sound(Fails(w)) /\ (\A op, paths : Sound(Reports(op, paths, Nothing, w)))
      /\ (\A op, paths, force : Sound(MayFail(Gives(Plan(op, paths, force), w), w)))
  BY FailsSound, ReportsSound, GivesSound, MayFailSound, PlanIsValue
<1>2. ASSUME IsManifest(in), NEW op, NEW paths
      PROVE  Sound(Reports(op, paths, in, w)) /\ Sound(Reports(op, paths, Forwarded(op, in), w))
  <2>1. IsValue(in)
    BY <1>2, CarriedKinds DEF IsManifest, IsStructured
  <2>2. Forwarded(op, in) = in \/ Forwarded(op, in) = Nothing
    BY DEF Forwarded
  <2> QED BY <2>1, <2>2, ReportsSound
<1>3. ASSUME NEW op PROVE Sound(PlannedOperation(op, args, in, w))
  BY <1>1, Zenon DEF PlannedOperation
<1>4. ASSUME NEW op, NEW positional PROVE Sound(FileOperation(op, args, positional, in, w))
  <2> DEFINE paths == ManifestPaths(op, in)   names == NamedFiles(op, positional)
  <2>1. FileOperation(op, args, positional, in, w) =
          CASE NamesFiles(op, positional) -> Reports(op, names, Nothing, w)
            [] TakesManifest(op, positional) /\ IsManifest(in) ->
                 Reports(op, paths, Forwarded(op, in), w)
            [] OTHER -> Fails(w)
    BY DEF FileOperation
  <2> HIDE DEF paths, names
  <2> QED BY <2>1, <1>1, <1>2
<1>5. ASSUME NEW op PROVE Sound(PlanOrDo(op, args, in, w))
  <2> DEFINE do == FileOperation(op, args, Positional(args), in, w)
             plan == PlannedOperation(op, args, in, w)
  <2>1. Sound(do) /\ Sound(plan)
    BY <1>3, <1>4
  <2>2. PlanOrDo(op, args, in, w) \in {do, plan, Fails(w)}
    BY DEF PlanOrDo
  <2> QED BY <1>1, <2>1, <2>2
<1>6. Sound(CopyStage(args, in, w)) /\ Sound(MoveStage(args, in, w))
  BY <1>1, <1>5, Zenon DEF CopyStage, MoveStage
<1>7. Sound(DeleteStage(args, in, w))
  BY <1>1, <1>5, Zenon DEF DeleteStage
<1>8. Sound(CompressPerRoot(args, in, w))
  <2>1. in.kind = "fileset" => IsManifest(in)
    BY DEF IsManifest
  <2>2. in.kind = "fileset" => Sound(MayFail(Reports("compress", FilePaths(in), in, w), w))
    BY <2>1, <1>2, MayFailSound
  <2> QED BY <1>1, <1>3, <2>2, Zenon DEF CompressPerRoot
<1>9. Sound(CompressStage(args, in, w))
  <2>1. CompressStage(args, in, w) \in
          {Fails(w), CompressPerRoot(args, in, w),
           FileOperation("compress", args, Positional(args), in, w)}
    BY DEF CompressStage
  <2> QED BY <2>1, <1>1, <1>4, <1>8
<1> QED BY <1>6, <1>7, <1>9

\* The journals.
LEMMA ReversedSound ==
  ASSUME NEW j, IsJournal(j), NEW status, NEW w, IsWorld(w)
  PROVE  Sound(Reversed(j, status, w))
<1> DEFINE undone == [w EXCEPT !.did = Append(@, <<status, j.paths>>)]
<1>1. IsWorld(undone)
  BY DidSound
<1>2. Reversed(j, status, w) = Gives(Ended(j, status), undone)
        \cup Gives(Ended(j, status), Save(Ended(j, status), undone)) \cup Fails(w)
  BY DEF Reversed
<1> HIDE DEF undone
<1>3. IsJournal(Ended(j, status)) /\ IsValue(Ended(j, status))
  BY EndedIsJournal, JournalIsValue
<1>4. IsWorld(Save(Ended(j, status), undone))
  BY <1>1, <1>3, SaveSound
<1>5. /\ Sound(Gives(Ended(j, status), undone))
      /\ Sound(Gives(Ended(j, status), Save(Ended(j, status), undone)))
      /\ Sound(Fails(w))
  BY <1>1, <1>3, <1>4, GivesSound, FailsSound
<1> QED BY <1>2, <1>5 DEF Sound

LEMMA SavedAreJournals ==
  ASSUME NEW w, IsWorld(w), NEW id, NEW j \in Saved(id, w)
  PROVE  IsJournal(j)
BY DEF Saved, ToSet, IsWorld

LEMMA UnionSound ==
  ASSUME NEW S, \A T \in S : Sound(T)
  PROVE  Sound(UNION S)
BY DEF Sound

LEMMA ApplySound ==
  ASSUME NEW args, NEW in, NEW w, IsWorld(w)
  PROVE  Sound(ApplyStage(args, in, w))
<1> DEFINE id == ToString(Len(w.saved) + 1)
           Of(status, safe) == Journal(id, in.op, status, safe, in.paths)
           done == [w EXCEPT !.did = Append(@, <<in.op, in.paths>>)]
           Four(safe) == Gives(Of("applied", safe), Save(Of("applied", safe), done))
                         \cup Fails(Save(Of("failed", safe), w))
                         \cup Fails(Save(Of("partially_applied", safe), w))
                         \cup Fails(Save(Of("rolled_back", safe), w))
<1>1. ApplyStage(args, in, w) = IF args = <<>> /\ in.kind = "plan"
                                THEN UNION {Four(safe) : safe \in {TRUE, ~in.force}}
                                ELSE Fails(w)
  BY DEF ApplyStage
<1>2. IsWorld(done)
  BY DidSound
<1> HIDE DEF id, done
<1>3. ASSUME NEW safe PROVE Sound(Four(safe))
  <2>1. \A status : IsJournal(Of(status, safe)) /\ IsValue(Of(status, safe))
    BY JournalIsJournal, JournalIsValue
  <2> HIDE DEF Of
  <2>2. /\ \A status : IsWorld(Save(Of(status, safe), w))
        /\ IsWorld(Save(Of("applied", safe), done))
    BY <1>2, <2>1, SaveSound
  <2>3. /\ Sound(Gives(Of("applied", safe), Save(Of("applied", safe), done)))
        /\ \A status : Sound(Fails(Save(Of(status, safe), w)))
    BY <2>1, <2>2, GivesSound, FailsSound
  <2> QED BY <2>3 DEF Sound
<1> HIDE DEF Four
<1>4. Sound(UNION {Four(safe) : safe \in {TRUE, ~in.force}})
  BY <1>3, UnionSound
<1>5. Sound(Fails(w))
  BY FailsSound
<1> QED BY <1>1, <1>4, <1>5, Zenon

LEMMA JournalsSound ==
  ASSUME NEW args, NEW in, NEW w, IsWorld(w), IsCarried(in)
  PROVE  /\ Sound(UndoStage(args, in, w)) /\ Sound(RollbackStage(args, in, w))
         /\ Sound(RecoverStage(args, w)) /\ Sound(JournalStage(args, w))
<1>1. Sound(Fails(w)) /\ (\A rows : Sound(Gives(Table(rows), w)))
  BY FailsSound, GivesSound, TableIsValue
<1>2. ASSUME NEW j, IsJournal(j)
      PROVE  /\ \A status : Sound(Reversed(j, status, w))
             /\ Sound(Gives(j, w))
             /\ Sound(MayFail(Gives(Ended(j, "applied"), Save(Ended(j, "applied"), w)), w))
  <2>1. IsJournal(Ended(j, "applied")) /\ IsValue(Ended(j, "applied")) /\ IsValue(j)
    BY <1>2, EndedIsJournal, JournalIsValue
  <2>2. IsWorld(Save(Ended(j, "applied"), w))
    BY <2>1, SaveSound
  <2>3. Sound(Gives(Ended(j, "applied"), Save(Ended(j, "applied"), w)))
    BY <2>1, <2>2, GivesSound
  <2>4. \A o \in MayFail(Gives(Ended(j, "applied"), Save(Ended(j, "applied"), w)), w) : IsOutcome(o)
    BY <2>3, <1>1 DEF Sound, MayFail
  <2>5. \A status : Sound(Reversed(j, status, w))
    BY <1>2, ReversedSound
  <2> QED BY <1>2, <2>1, <2>4, <2>5, GivesSound DEF Sound
<1>3. in.kind = "journal" => IsJournal(in)
  BY CarriedKinds
<1>4. Sound(UndoStage(args, in, w)) /\ Sound(RollbackStage(args, in, w))
  BY <1>1, <1>2, <1>3, Zenon DEF UndoStage, RollbackStage
<1>5. Sound(RecoverStage(args, w))
  <2> DEFINE ids == Positional(args)
             found == {j \in Saved(ids[1], w) : NeedsRecovery(j)}
             listed == SelectSeq(w.saved, NeedsRecovery)
             rows == [i \in DOMAIN listed |-> JournalRow(listed[i])]
             rollback == Given(args, {"--rollback"})
             resume == Given(args, {"--resume"})
             Back(j) == IF j.safe THEN Reversed(j, "rolled_back", w) ELSE Fails(w)
             On(j) == IF j.safe /\ j.op # "delete"
                      THEN MayFail(Gives(Ended(j, "applied"), Save(Ended(j, "applied"), w)), w)
                      ELSE Fails(w)
             bad == \/ ~OnlyOptions(args, LongOptions, {"--rollback", "--resume"})
                    \/ rollback /\ resume
                    \/ Len(ids) > 1
                    \/ ids = <<>> /\ (rollback \/ resume)
  <2>1. RecoverStage(args, w) =
          CASE bad -> Fails(w)
            [] ids = <<>> -> Gives(Table(rows), w)
            [] found = {} -> Fails(w)
            [] rollback -> UNION {Back(j) : j \in found}
            [] resume -> UNION {On(j) : j \in found}
            [] OTHER -> UNION {Gives(j, w) : j \in found}
    BY DEF RecoverStage
  <2>2. \A j \in found : IsJournal(j)
    BY SavedAreJournals
  <2>3. \A j \in found : Sound(Back(j)) /\ Sound(On(j)) /\ Sound(Gives(j, w))
    <3> HIDE DEF found
    <3> QED BY <2>2, <1>1, <1>2, Zenon
  <2> HIDE DEF ids, found, rows, rollback, resume, Back, On, bad
  <2>4. /\ Sound(UNION {Back(j) : j \in found}) /\ Sound(UNION {On(j) : j \in found})
        /\ Sound(UNION {Gives(j, w) : j \in found})
    BY <2>3 DEF Sound
  <2> QED BY <2>1, <2>4, <1>1
<1>6. Sound(JournalStage(args, w))
  <2> DEFINE found == Saved(args[1], w)
             rows == [i \in DOMAIN w.saved |-> JournalRow(w.saved[i])]
  <2>1. JournalStage(args, w) =
          CASE Len(args) > 1 -> Fails(w)
            [] args = <<>> -> Gives(Table(rows), w)
            [] OTHER -> IF found = {} THEN Fails(w) ELSE UNION {Gives(j, w) : j \in found}
    BY DEF JournalStage
  <2>2. \A j \in found : Sound(Gives(j, w))
    BY SavedAreJournals, <1>2
  <2>3. Sound(UNION {Gives(j, w) : j \in found})
    BY <2>2 DEF Sound
  <2> HIDE DEF found, rows
  <2> QED BY <2>1, <2>3, <1>1
<1> QED BY <1>4, <1>5, <1>6

\* A stage of the shell leaves a world and, if it succeeds with one, a value.
LEMMA StagesSound ==
  ASSUME NEW words, NEW c, NEW w, IsWorld(w), IsCarried(c),
         Classify(words) \notin {"external", "unsupported"}
  PROVE  Sound(InProcess(words, c, w))
<1> DEFINE args == Tail(words)   kind == Classify(words)
<1>1. Sound(Fails(w)) 
  BY FailsSound
<1>2. \/ kind \in Providers \cup FileOperations \cup JournalCommands \cup Transforms
      \/ kind = "variable" /\ words[1] \in DOMAIN Variables
  <2> DEFINE ours == Providers \cup FileOperations \cup JournalCommands \cup Transforms
  <2>1. kind = CASE words = <<>> -> "unsupported"
                 [] words[1] \in ours -> words[1]
                 [] words[1] \in DOMAIN Variables -> "variable"
                 [] words[1] \in Functions \cup ElsewhereOnly -> "unsupported"
                 [] OTHER -> "external"
    BY DEF Classify
  <2> HIDE DEF ours, kind
  <2>2. kind \notin {"external", "unsupported"}
    BY DEF kind
  <2>3. \/ kind \in ours
        \/ kind = "variable" /\ words[1] \in DOMAIN Variables
    BY <2>1, <2>2
  <2> QED BY <2>3 DEF ours
<1>3. kind = "variable" => Sound(Gives(Variables[words[1]], w))
  <2>1. "variable" \notin Providers \cup FileOperations \cup JournalCommands \cup Transforms
    BY DEF Providers, FileOperations, JournalCommands, Transforms
  <2> QED BY <1>2, <2>1, GivesSound, StagesAssumption
<1>4. /\ Sound(Echo(args, w)) /\ Sound(Cat(args, w)) /\ Sound(Find(args, c, w))
      /\ Sound(ListEntries("file", args, w)) /\ Sound(ListEntries("dir", args, w))
  BY TextSound
<1>5. /\ Sound(CopyStage(args, c, w)) /\ Sound(MoveStage(args, c, w))
      /\ Sound(DeleteStage(args, c, w)) /\ Sound(CompressStage(args, c, w))
  BY OperationsSound
<1>6. /\ Sound(ApplyStage(args, c, w))
      /\ Sound(UndoStage(args, c, w)) /\ Sound(RollbackStage(args, c, w))
      /\ Sound(RecoverStage(args, w)) /\ Sound(JournalStage(args, w))
  BY ApplySound, JournalsSound
<1>7. /\ Sound(FromJsonStage(c, w)) /\ Sound(FromCsvStage(c, w))
      /\ Sound(ToJsonStage(c, w)) /\ Sound(ToCsvStage(c, w))
      /\ Sound(SelectStage(args, c, w)) /\ Sound(MergeStage(args, c, w))
      /\ Sound(WhereStage(args, c, w)) /\ Sound(DateColumnStage(args, c, w))
      /\ Sound(StatStage(args, c, w))
  BY StructuredSound
<1>8. kind \in {"echo", "cat", "find", "files", "folders", "dirs", "copy", "cp", "move", "mv",
                "compress", "delete", "apply", "undo", "rollback", "recover", "journal",
                "from-json", "from-csv", "to-json", "to-csv", "select", "merge", "where",
                "filter", "date-column", "stat", "variable"}
  BY <1>2 DEF Providers, FileOperations, JournalCommands, Transforms
<1>9. kind = Classify(words) /\ args = Tail(words)
  OBVIOUS
<1> HIDE DEF kind, args
<1>10. \/ InProcess(words, c, w) \in
         {Echo(args, w), Cat(args, w), Find(args, c, w), ListEntries("file", args, w),
          ListEntries("dir", args, w), CopyStage(args, c, w), MoveStage(args, c, w),
          DeleteStage(args, c, w), CompressStage(args, c, w), ApplyStage(args, c, w),
          UndoStage(args, c, w), RollbackStage(args, c, w), RecoverStage(args, w),
          JournalStage(args, w), FromJsonStage(c, w), FromCsvStage(c, w),
          ToJsonStage(c, w), ToCsvStage(c, w), SelectStage(args, c, w),
          MergeStage(args, c, w), WhereStage(args, c, w), DateColumnStage(args, c, w),
          StatStage(args, c, w)}
       \/ kind = "variable" /\ InProcess(words, c, w) = Gives(Variables[words[1]], w)
  BY <1>8, <1>9 DEF InProcess
<1> QED BY <1>3, <1>4, <1>5, <1>6, <1>7, <1>10

-----------------------------------------------------------------------------
(* Pipes.                                                                  *)

\* A pipe holds what it can at most, and has one reader at most.
IsAPipe(p) ==
  /\ p = [data |-> p.data, writers |-> p.writers, readers |-> p.readers]
  /\ IsSequence(p.data) /\ Len(p.data) <= PipeCapacity
  /\ \E x : p.readers \subseteq {x}

ArePipes(ps) ==
  /\ ps = [h \in Handles |-> ps[h]]
  /\ \A h \in Handles : IsAPipe(ps[h])

\* x has no end of a pipe.
HoldsNothing(ps, x) == \A h \in Handles : x \notin ps[h].readers \cup ps[h].writers

\* From ps to qs nobody gets hold of a pipe, and the shell lets go of none that
\* it alone reads.
NoNewHolder(ps, qs) ==
  \A h \in Handles :
    /\ qs[h].readers \subseteq ps[h].readers
    /\ qs[h].writers \subseteq ps[h].writers

ShellReadsOn(ps, qs) ==
  \A h \in Handles : ps[h].readers = {Shell} => qs[h].readers = {Shell}

\* Closing ends takes no pipe and gives none; dropping leaves the holder with none.
LEMMA CloseKeeps ==
  ASSUME NEW ps, ArePipes(ps), NEW x, NEW hs
  PROVE  /\ ArePipes(Close(ps, x, hs)) /\ NoNewHolder(ps, Close(ps, x, hs))
         /\ x # Shell => ShellReadsOn(ps, Close(ps, x, hs))
         /\ \A h \in Handles \ hs : Close(ps, x, hs)[h] = ps[h]
         /\ Handles \subseteq hs => HoldsNothing(Close(ps, x, hs), x)
<1> DEFINE qs == Close(ps, x, hs)
<1>1. /\ qs = [h \in Handles |-> qs[h]]
      /\ \A h \in Handles : qs[h] = IF h \in hs THEN [ps[h] EXCEPT !.writers = @ \ {x},
                                                                  !.readers = @ \ {x}]
                                 ELSE ps[h]
  BY DEF Close
<1>2. ASSUME NEW h \in Handles, h \in hs
      PROVE  /\ qs[h] = [data |-> ps[h].data, writers |-> ps[h].writers \ {x},
                         readers |-> ps[h].readers \ {x}]
             /\ qs[h].data = ps[h].data /\ qs[h].writers = ps[h].writers \ {x}
             /\ qs[h].readers = ps[h].readers \ {x}
  <2>1. ps[h] = [data |-> ps[h].data, writers |-> ps[h].writers, readers |-> ps[h].readers]
    BY DEF ArePipes, IsAPipe
  <2>2. qs[h] = [ps[h] EXCEPT !.writers = @ \ {x}, !.readers = @ \ {x}]
    BY <1>1, <1>2
  <2>3. qs[h] = [data |-> ps[h].data, writers |-> ps[h].writers \ {x},
                 readers |-> ps[h].readers \ {x}]
    BY <2>1, <2>2
  <2> QED BY <2>3
<1> HIDE DEF qs
<1>3. ASSUME NEW h \in Handles PROVE IsAPipe(qs[h])
  <2>1. CASE h \in hs
    <3>1. IsAPipe(ps[h])
      BY DEF ArePipes
    <3> QED BY <1>2, <2>1, <3>1 DEF IsAPipe
  <2>2. CASE h \notin hs
    BY <1>1, <2>2 DEF ArePipes
  <2> QED BY <2>1, <2>2
<1>4. ArePipes(qs)
  BY <1>1, <1>3 DEF ArePipes
<1>5. \A h \in Handles \ hs : qs[h] = ps[h]
  BY <1>1
<1>6. NoNewHolder(ps, qs)
  BY <1>2, <1>5 DEF NoNewHolder
<1>7. x # Shell => ShellReadsOn(ps, qs)
  BY <1>2, <1>5 DEF ShellReadsOn
<1>8. Handles \subseteq hs => HoldsNothing(qs, x)
  BY <1>2 DEF HoldsNothing
<1> QED BY <1>4, <1>5, <1>6, <1>7, <1>8 DEF qs

\* The same when a holder lets go of all its pipes.
LEMMA DropKeeps ==
  ASSUME NEW ps, ArePipes(ps), NEW x
  PROVE  /\ ArePipes(Drop(ps, x)) /\ NoNewHolder(ps, Drop(ps, x))
         /\ x # Shell => ShellReadsOn(ps, Drop(ps, x))
         /\ HoldsNothing(Drop(ps, x), x)
BY CloseKeeps DEF Drop

\* A unit is put where there is room.
LEMMA PutKeeps ==
  ASSUME NEW ps, ArePipes(ps), NEW h, HasRoom(ps, h), NEW unit
  PROVE  ArePipes(Put(ps, h, unit)) /\ NoNewHolder(ps, Put(ps, h, unit))
         /\ ShellReadsOn(ps, Put(ps, h, unit))
<1> DEFINE qs == Put(ps, h, unit)   d == Append(ps[h].data, unit)
<1>1. ps = [g \in Handles |-> ps[g]]
  BY DEF ArePipes
<1>2. qs = [ps EXCEPT ![h].data = d]
  BY DEF Put
<1>3. \A g \in Handles \ {h} : qs[g] = ps[g]
  BY <1>1, <1>2
<1>4. ASSUME h \in Handles
      PROVE  /\ qs[h] = [data |-> d, writers |-> ps[h].writers, readers |-> ps[h].readers]
             /\ qs[h].data = d /\ qs[h].writers = ps[h].writers
             /\ qs[h].readers = ps[h].readers
             /\ IsAPipe(qs[h])
  <2>1. ps[h] = [data |-> ps[h].data, writers |-> ps[h].writers, readers |-> ps[h].readers]
    BY <1>4 DEF ArePipes, IsAPipe
  <2>2. qs[h] = [ps[h] EXCEPT !.data = d]
    BY <1>1, <1>2, <1>4
  <2>3. qs[h] = [data |-> d, writers |-> ps[h].writers, readers |-> ps[h].readers]
    BY <2>1, <2>2
  <2>4. IsSequence(ps[h].data) /\ Len(ps[h].data) < PipeCapacity /\ \E x : ps[h].readers \subseteq {x}
    BY <1>4 DEF ArePipes, IsAPipe, HasRoom
  <2>5. IsSequence(d) /\ Len(ps[h].data) \in Nat /\ Len(d) = Len(ps[h].data) + 1
    BY <2>4, Appended
  <2>6. Len(d) <= PipeCapacity
    BY <2>4, <2>5, PipelineAssumption
  <2> HIDE DEF d
  <2>7. qs[h].data = d /\ qs[h].writers = ps[h].writers /\ qs[h].readers = ps[h].readers
    BY <2>3
  <2> HIDE DEF qs
  <2> QED BY <2>3, <2>4, <2>5, <2>6, <2>7 DEF IsAPipe
<1>5. qs = [g \in Handles |-> qs[g]]
  BY <1>1, <1>2
<1> HIDE DEF qs, d
<1>6. ArePipes(qs)
  BY <1>3, <1>4, <1>5 DEF ArePipes
<1>7. NoNewHolder(ps, qs) /\ ShellReadsOn(ps, qs)
  BY <1>3, <1>4 DEF NoNewHolder, ShellReadsOn
<1> QED BY <1>6, <1>7 DEF qs

\* A unit is taken where there is one.
LEMMA TakeKeeps ==
  ASSUME NEW ps, ArePipes(ps), NEW h, ps[h].data # <<>>
  PROVE  ArePipes(Take(ps, h)) /\ NoNewHolder(ps, Take(ps, h))
         /\ ShellReadsOn(ps, Take(ps, h))
<1> DEFINE qs == Take(ps, h)   d == Tail(ps[h].data)
<1>1. ps = [g \in Handles |-> ps[g]]
  BY DEF ArePipes
<1>2. qs = [ps EXCEPT ![h].data = d]
  BY DEF Take
<1>3. \A g \in Handles \ {h} : qs[g] = ps[g]
  BY <1>1, <1>2
<1>4. ASSUME h \in Handles
      PROVE  /\ qs[h].writers = ps[h].writers /\ qs[h].readers = ps[h].readers
             /\ IsAPipe(qs[h])
  <2>1. ps[h] = [data |-> ps[h].data, writers |-> ps[h].writers, readers |-> ps[h].readers]
    BY <1>4 DEF ArePipes, IsAPipe
  <2>2. qs[h] = [ps[h] EXCEPT !.data = d]
    BY <1>1, <1>2, <1>4
  <2>3. qs[h] = [data |-> d, writers |-> ps[h].writers, readers |-> ps[h].readers]
    BY <2>1, <2>2
  <2>4. IsSequence(ps[h].data) /\ Len(ps[h].data) <= PipeCapacity /\ \E x : ps[h].readers \subseteq {x}
    BY <1>4 DEF ArePipes, IsAPipe
  <2>5. IsSequence(d) /\ Len(ps[h].data) \in Nat /\ Len(d) = Len(ps[h].data) - 1
    BY <2>4, Shortened
  <2>6. Len(d) <= PipeCapacity
    BY <2>4, <2>5, PipelineAssumption
  <2> HIDE DEF d
  <2>7. qs[h].data = d /\ qs[h].writers = ps[h].writers /\ qs[h].readers = ps[h].readers
    BY <2>3
  <2> HIDE DEF qs
  <2> QED BY <2>3, <2>4, <2>5, <2>6, <2>7 DEF IsAPipe
<1>5. qs = [g \in Handles |-> qs[g]]
  BY <1>1, <1>2
<1> HIDE DEF qs, d
<1>6. ArePipes(qs)
  BY <1>3, <1>4, <1>5 DEF ArePipes
<1>7. NoNewHolder(ps, qs) /\ ShellReadsOn(ps, qs)
  BY <1>3, <1>4 DEF NoNewHolder, ShellReadsOn
<1> QED BY <1>6, <1>7 DEF qs

\* A pipe that one reads is read by the other afterwards.
LEMMA HandOverKeeps ==
  ASSUME NEW ps, ArePipes(ps), NEW h \in Handles, NEW x, NEW y, ps[h].readers \subseteq {x}
  PROVE  /\ ArePipes(HandOver(ps, h, x, y))
         /\ HandOver(ps, h, x, y)[h].readers = {y}
         /\ HandOver(ps, h, x, y)[h].writers = ps[h].writers
         /\ \A g \in Handles \ {h} : HandOver(ps, h, x, y)[g] = ps[g]
<1> DEFINE qs == HandOver(ps, h, x, y)
<1>1. ps = [g \in Handles |-> ps[g]]
  BY DEF ArePipes
<1>2. qs = [ps EXCEPT ![h].readers = (@ \ {x}) \cup {y}]
  BY DEF HandOver
<1>3. \A g \in Handles \ {h} : qs[g] = ps[g]
  BY <1>1, <1>2
<1>4. ps[h] = [data |-> ps[h].data, writers |-> ps[h].writers, readers |-> ps[h].readers]
      /\ IsSequence(ps[h].data) /\ Len(ps[h].data) <= PipeCapacity
  BY DEF ArePipes, IsAPipe
<1>5. qs[h] = [ps[h] EXCEPT !.readers = (@ \ {x}) \cup {y}]
  BY <1>1, <1>2
<1>6. (ps[h].readers \ {x}) \cup {y} = {y}
  OBVIOUS
<1>7. qs[h] = [data |-> ps[h].data, writers |-> ps[h].writers, readers |-> {y}]
  BY <1>4, <1>5, <1>6
<1>8. qs = [g \in Handles |-> qs[g]]
  BY <1>1, <1>2
<1> HIDE DEF qs
<1>9. qs[h].data = ps[h].data /\ qs[h].writers = ps[h].writers /\ qs[h].readers = {y}
  BY <1>7
<1>10. IsAPipe(qs[h])
  BY <1>4, <1>7, <1>9 DEF IsAPipe
<1>11. ArePipes(qs)
  BY <1>3, <1>8, <1>10 DEF ArePipes
<1> QED BY <1>3, <1>9, <1>11 DEF qs

LEMMA NewPipeIsPipe ==
  ASSUME NEW writers, NEW x
  PROVE  IsAPipe(NewPipe(writers, {x})) /\ IsAPipe(NoPipe)
<1>1. <<>> \in Seq({}) /\ Len(<<>>) = 0
  OBVIOUS
<1>2. IsSequence(<<>>)
  BY <1>1, SequenceOf
<1>3. 0 <= PipeCapacity
  BY PipelineAssumption
<1> QED BY <1>1, <1>2, <1>3 DEF IsAPipe, NewPipe, NoPipe

-----------------------------------------------------------------------------
(* The invariant.                                                          *)

StageCount == Len(job.line.stages)

LineFits ==
  /\ job.line.stages \in Seq(ToSet(job.line.stages))
  /\ StageCount \in 1..MaxStages

\* Where the shell is, and that no stage that it comes to is one it cannot run.
Placed ==
  /\ phase \in {"start", "stage", "feed", "read", "launched", "wait", "done", "failed"}
  /\ at \in 0..(StageCount + 1)
  /\ phase = "start" => at = 0
  /\ phase \in {"stage", "feed", "read"} =>
       /\ at \in 1..StageCount
       /\ \A k \in 1..StageCount : Classify(Words(k)) # "unsupported"
  /\ phase = "wait" => at >= 1

\* A pipe that is carried is an output of the stage before, and only the shell
\* reads from it.
Carrying ==
  /\ IsCarried(carry)
  /\ phase \in {"feed", "read"} => carry = Nothing
  /\ carry.kind = "stdio" =>
       /\ phase = "stage" /\ at >= 2
       /\ \E s \in Streams : carry = Stdio(<<at - 1, s>>) /\ pipes[<<at - 1, s>>].readers = {Shell}
  /\ carry.kind = "merge" =>
       /\ phase = "stage" /\ at >= 2
       /\ carry = Both(<<at - 1, "out">>, <<at - 1, "err">>)
       /\ \A s \in Streams : pipes[<<at - 1, s>>].readers = {Shell}

\* The outputs of the process that is being fed are still the shell's to read.
Feeding ==
  phase = "feed" =>
    \A s \in Streams : IsPiped(at, s) => pipes[<<at, s>>].readers = {Shell}

\* A process has all its parts.
IsProc(r) ==
  /\ r = [state |-> r.state, writes |-> r.writes, copies |-> r.copies, ok |-> r.ok,
          in |-> r.in, out |-> r.out, err |-> r.err]
  /\ r.ok \in BOOLEAN

\* Processes that have ended hold no pipe.
Processes ==
  /\ procs = [k \in StageNumbers |-> procs[k]]
  /\ \A k \in StageNumbers : /\ IsProc(procs[k])
                             /\ procs[k].state = "ended" => HoldsNothing(pipes, Proc(k))

Inv ==
  /\ LineFits /\ Placed /\ Carrying /\ Feeding
  /\ ArePipes(pipes) /\ Processes
  /\ IsWorld(world)
  /\ captured = Nothing \/ IsValue(captured)
  /\ result \in BOOLEAN

LEMMA InvImpliesTypeOK == Inv => TypeOK
<1> SUFFICES ASSUME Inv PROVE TypeOK
  OBVIOUS
<1>0. MaxStages \in Nat \ {0} /\ StageCount \in 1..MaxStages
  BY PipelineAssumption DEF Inv, LineFits
<1>1. at \in 0..(MaxStages + 1)
  BY <1>0 DEF Inv, Placed
<1>2. carry.kind \in {"none", "bytes", "stdio", "merge", "table", "fileset", "plan", "journal"}
  BY CarriedKinds DEF Inv, Carrying
<1>3. captured = Nothing \/ IsStructured(captured)
  BY DEF Inv, IsValue, IsStructured, IsFileSet, IsJournal
<1>4. ASSUME NEW h \in Handles
      PROVE  Len(pipes[h].data) <= PipeCapacity /\ Cardinality(pipes[h].readers) <= 1
  <2>1. PICK x : pipes[h].readers \subseteq {x}
    BY DEF Inv, ArePipes, IsAPipe
  <2>2. IsFiniteSet({x}) /\ Cardinality({x}) = 1
    BY FS_Singleton
  <2>3. Cardinality(pipes[h].readers) <= 1
    BY <2>1, <2>2, FS_Subset
  <2> QED BY <2>3 DEF Inv, ArePipes, IsAPipe
<1>5. ASSUME NEW k \in StageNumbers, procs[k].state = "ended", NEW h \in Handles
      PROVE  Proc(k) \notin pipes[h].readers \cup pipes[h].writers
  BY <1>5 DEF Inv, Processes, HoldsNothing
<1>6. ASSUME carry.kind = "stdio" PROVE pipes[carry.handle].readers = {Shell}
  <2>1. PICK s \in Streams : carry = Stdio(<<at - 1, s>>) /\ pipes[<<at - 1, s>>].readers = {Shell}
    BY <1>6 DEF Inv, Carrying
  <2>2. carry.handle = <<at - 1, s>>
    BY <2>1 DEF Stdio
  <2> QED BY <2>1, <2>2
<1>7. phase \in {"feed", "read"} => carry = Nothing
  BY DEF Inv, Carrying
<1> QED BY <1>1, <1>2, <1>3, <1>4, <1>5, <1>6, <1>7 DEF TypeOK, Inv, Placed

LEMMA InitHolds == Init => Inv
<1> SUFFICES ASSUME Init PROVE Inv
  OBVIOUS
<1>1. LineFits
  <2>1. PICK j \in Jobs : job = [line |-> Parse(j.tokens), capture |-> j.capture]
    BY DEF Init
  <2>2. job.line.stages = Parse(j.tokens).stages
    BY <2>1
  <2> QED BY <2>2, LineAssumption DEF LineFits, StageCount
<1>2. StageCount \in Nat
  BY <1>1, PipelineAssumption DEF LineFits
<1>3. Placed /\ Feeding
  BY <1>2 DEF Init, Placed, Feeding
<1>4. Carrying
  BY DEF Init, Carrying, IsCarried, Nothing
<1>5. ArePipes(pipes)
  BY NewPipeIsPipe DEF Init, ArePipes
<1>6. Processes
  <2>1. \A k \in StageNumbers : procs[k] = NoProc
    BY DEF Init
  <2>2. procs = [k \in StageNumbers |-> procs[k]]
    BY DEF Init
  <2>3. IsProc(NoProc) /\ NoProc.state = "none"
    BY DEF IsProc, NoProc
  <2> QED BY <2>1, <2>2, <2>3 DEF Processes
<1>7. IsWorld(world)
  BY PipelineAssumption DEF Init, IsWorld, IsSequence
<1> QED BY <1>1, <1>3, <1>4, <1>5, <1>6, <1>7 DEF Inv, Init

\* A step of a thread or a program, or of the shell writing to one.
LEMMA RunningKeeps ==
  ASSUME Inv, UNCHANGED <<job, at, phase, carry, captured, result>>,
         ArePipes(pipes'), NoNewHolder(pipes, pipes'), ShellReadsOn(pipes, pipes'),
         IsWorld(world'), Processes',
         \A k \in StageNumbers : procs'[k].out = procs[k].out /\ procs'[k].err = procs[k].err
  PROVE  Inv'
<1>0. StageCount' = StageCount /\ (\A k : Words(k)' = Words(k)) /\ StageCount \in 1..MaxStages /\ MaxStages \in Nat
  BY PipelineAssumption DEF StageCount, Words, Inv, LineFits
<1>1. LineFits' /\ Placed'
  BY <1>0 DEF Inv, LineFits, Placed
<1>2. at \in 0..(MaxStages + 1)
  BY <1>0 DEF Inv, Placed
<1>3. ASSUME phase = "stage", at >= 2, NEW s \in Streams PROVE <<at - 1, s>> \in Handles
  BY <1>0, <1>3 DEF Inv, Placed, Handles, StageNumbers, Streams
<1>4. Carrying'
  BY <1>3 DEF Inv, Carrying, ShellReadsOn
<1>5. ASSUME phase = "feed", NEW s \in Streams
      PROVE  <<at, s>> \in Handles /\ at \in StageNumbers
  BY <1>0, <1>5 DEF Inv, Placed, Handles, StageNumbers, Streams
<1>6. Feeding'
  BY <1>5 DEF Inv, Feeding, ShellReadsOn, IsPiped
<1> QED BY <1>1, <1>4, <1>6 DEF Inv

\* The processes, when none of them changes and nobody gets hold of a pipe.
LEMMA ProcessesStay ==
  ASSUME Inv, procs' = procs, NoNewHolder(pipes, pipes')
  PROVE  Processes'
BY DEF Inv, Processes, NoNewHolder, HoldsNothing

-----------------------------------------------------------------------------
(* The threads and the programs.                                           *)

\* A thread moves one unit, or lets go of its two pipes.
LEMMA ForwardingKeeps ==
  ASSUME Inv, NEW t \in ThreadIds, RunThread(t)
  PROVE  Inv'
<1>1. /\ UNCHANGED <<job, at, phase, carry, procs, world, captured, result>>
      /\ ArePipes(pipes') /\ NoNewHolder(pipes, pipes') /\ ShellReadsOn(pipes, pipes')
  <2>0. ArePipes(pipes)
    BY DEF Inv
  <2>1. CASE ForwardRead(t)
    BY <2>0, <2>1, TakeKeeps DEF ForwardRead
  <2>2. CASE ForwardWrite(t)
    BY <2>0, <2>2, PutKeeps DEF ForwardWrite
  <2>3. CASE ForwardEnd(t)
    <3>1. t # Shell
      BY DEF ThreadIds, StageNumbers, Streams, Shell
    <3> QED BY <2>0, <2>3, <3>1, DropKeeps DEF ForwardEnd, ThreadLetsGo
  <2> QED BY <2>1, <2>2, <2>3 DEF RunThread
<1>2. Processes'
  BY <1>1, ProcessesStay
<1>3. IsWorld(world')
  BY <1>1 DEF Inv
<1> QED BY <1>1, <1>2, <1>3, RunningKeeps

LEMMA AppendFileSound ==
  ASSUME NEW w, IsWorld(w), NEW path, NEW text
  PROVE  IsWorld(AppendFile(w, path, text))
<1> DEFINE files == [w.files EXCEPT ![path].text = @ \o text]
           v == [files |-> files, saved |-> w.saved, did |-> w.did]
<1>1. w = [files |-> w.files, saved |-> w.saved, did |-> w.did]
  BY DEF IsWorld
<1>2. AppendFile(w, path, text) = [w EXCEPT !.files = files]
  BY <1>1 DEF AppendFile
<1> HIDE DEF files
<1>3. AppendFile(w, path, text) = v
  BY <1>1, <1>2
<1>4. v.files = files /\ v.saved = w.saved /\ v.did = w.did
  OBVIOUS
<1> HIDE DEF v
<1> QED BY <1>3, <1>4 DEF IsWorld, v

\* A process that changes its text or what it copies stays one.
LEMMA ProcessGoesOn ==
  ASSUME Inv, NEW k \in StageNumbers, procs[k].state = "running", NEW writes, NEW copies,
         procs' = [procs EXCEPT ![k].writes = writes, ![k].copies = copies],
         NoNewHolder(pipes, pipes')
  PROVE  /\ Processes'
         /\ \A j \in StageNumbers : procs'[j].out = procs[j].out /\ procs'[j].err = procs[j].err
<1> DEFINE r == [state |-> "running", writes |-> writes, copies |-> copies, ok |-> procs[k].ok,
                 in |-> procs[k].in, out |-> procs[k].out, err |-> procs[k].err]
<1>1. /\ procs = [j \in StageNumbers |-> procs[j]]
      /\ \A j \in StageNumbers : IsProc(procs[j])
  BY DEF Inv, Processes
<1>2. procs[k] = [state |-> "running", writes |-> procs[k].writes, copies |-> procs[k].copies,
                  ok |-> procs[k].ok, in |-> procs[k].in, out |-> procs[k].out,
                  err |-> procs[k].err]
  BY <1>1 DEF IsProc
<1>3. procs'[k] = [procs[k] EXCEPT !.writes = writes, !.copies = copies]
  BY <1>1
<1>4. procs'[k] = r
  <2> DEFINE q == procs[k]
             v == [state |-> "running", writes |-> writes, copies |-> copies, ok |-> q.ok, in |-> q.in,
                   out |-> q.out, err |-> q.err]
  <2>1. q = [state |-> "running", writes |-> q.writes, copies |-> q.copies, ok |-> q.ok, in |-> q.in,
             out |-> q.out, err |-> q.err]
    BY <1>2
  <2>2. procs'[k] = [q EXCEPT !.writes = writes, !.copies = copies]
    BY <1>3
  <2>3. v = r
    OBVIOUS
  <2> HIDE DEF q, r
  <2> DEFINE p == [q EXCEPT !.writes = writes]
  <2>4. [q EXCEPT !.writes = writes, !.copies = copies] = [p EXCEPT !.copies = copies]
    OBVIOUS
  <2>5. p = [state |-> "running", writes |-> writes, copies |-> q.copies, ok |-> q.ok, in |-> q.in,
             out |-> q.out, err |-> q.err]
    BY <2>1
  <2> HIDE DEF p
  <2>6. [p EXCEPT !.copies = copies] = v
    BY <2>5
  <2> HIDE DEF v
  <2> QED BY <2>2, <2>3, <2>4, <2>6, Zenon
<1>5. procs' = [j \in StageNumbers |-> procs'[j]] /\ \A j \in StageNumbers \ {k} : procs'[j] = procs[j]
  BY <1>1
<1>6. /\ r.state = "running" /\ r.writes = writes /\ r.copies = copies /\ r.ok = procs[k].ok
      /\ r.in = procs[k].in /\ r.out = procs[k].out /\ r.err = procs[k].err
  OBVIOUS
<1> HIDE DEF r
<1>7. IsProc(r)
  BY <1>1, <1>6 DEF IsProc, r
<1>8. \A j \in StageNumbers : IsProc(procs'[j])
  BY <1>1, <1>4, <1>5, <1>7
<1>9. ASSUME NEW j \in StageNumbers, procs'[j].state = "ended" PROVE HoldsNothing(pipes', Proc(j))
  <2>1. j # k
    BY <1>4, <1>6, <1>9
  <2>2. HoldsNothing(pipes, Proc(j))
    BY <1>5, <1>9, <2>1 DEF Inv, Processes
  <2> QED BY <2>2 DEF HoldsNothing, NoNewHolder
<1>10. \A j \in StageNumbers : procs'[j].out = procs[j].out /\ procs'[j].err = procs[j].err
  BY <1>4, <1>5, <1>6
<1> QED BY <1>5, <1>8, <1>9, <1>10 DEF Processes

\* A program that ends lets go of its pipes.
LEMMA EndKeeps ==
  ASSUME Inv, NEW k \in StageNumbers, NEW ok \in BOOLEAN, End(k, ok),
         UNCHANGED <<job, at, phase, carry, captured, result>>
  PROVE  Inv'
<1> DEFINE r == [state |-> "ended", writes |-> <<>>, copies |-> "none", ok |-> ok,
                 in |-> procs[k].in, out |-> procs[k].out, err |-> procs[k].err]
<1>1. /\ procs = [j \in StageNumbers |-> procs[j]]
      /\ \A j \in StageNumbers : IsProc(procs[j])
      /\ ArePipes(pipes)
  BY DEF Inv, Processes
<1>2. procs[k] = [state |-> procs[k].state, writes |-> procs[k].writes,
                  copies |-> procs[k].copies, ok |-> procs[k].ok, in |-> procs[k].in,
                  out |-> procs[k].out, err |-> procs[k].err]
  BY <1>1 DEF IsProc
<1>3. procs'[k] = [procs[k] EXCEPT !.state = "ended", !.ok = ok, !.writes = <<>>, !.copies = "none"]
  BY <1>1 DEF End
<1>4. procs'[k] = r
  BY <1>2, <1>3
<1>5. procs' = [j \in StageNumbers |-> procs'[j]] /\ \A j \in StageNumbers \ {k} : procs'[j] = procs[j]
  BY <1>1 DEF End
<1>6. /\ r.state = "ended" /\ r.writes = <<>> /\ r.copies = "none" /\ r.ok = ok
      /\ r.in = procs[k].in /\ r.out = procs[k].out /\ r.err = procs[k].err
  OBVIOUS
<1> HIDE DEF r
<1>7. IsProc(r)
  BY <1>6 DEF IsProc, r
<1>8. /\ ArePipes(pipes') /\ NoNewHolder(pipes, pipes') /\ ShellReadsOn(pipes, pipes')
      /\ HoldsNothing(pipes', Proc(k))
  <2>1. Proc(k) # Shell
    BY DEF Proc, Shell
  <2> QED BY <1>1, <2>1, DropKeeps DEF End
<1>9. ASSUME NEW j \in StageNumbers, procs'[j].state = "ended" PROVE HoldsNothing(pipes', Proc(j))
  <2>1. CASE j = k
    BY <2>1, <1>8
  <2>2. CASE j # k
    <3>1. HoldsNothing(pipes, Proc(j))
      BY <1>5, <1>9, <2>2 DEF Inv, Processes
    <3> QED BY <3>1, <1>8 DEF HoldsNothing, NoNewHolder
  <2> QED BY <2>1, <2>2
<1>10. Processes'
  BY <1>1, <1>4, <1>5, <1>7, <1>9 DEF Processes
<1>11. \A j \in StageNumbers : procs'[j].out = procs[j].out /\ procs'[j].err = procs[j].err
  BY <1>4, <1>5, <1>6
<1>12. IsWorld(world')
  BY DEF Inv, End
<1> QED BY <1>8, <1>10, <1>11, <1>12, RunningKeeps

\* A program writes, copies a unit or ends.
LEMMA ProgramsKeep ==
  ASSUME Inv, NEW k \in StageNumbers, RunProcess(k)
  PROVE  Inv'
<1>0. ArePipes(pipes) /\ IsWorld(world)
  BY DEF Inv
<1>1. CASE Write(k)
  <2> DEFINE write == Head(procs[k].writes)   to == WritesTo(k)
  <2>0. /\ procs[k].state = "running"
        /\ UNCHANGED <<job, at, phase, carry, left, threads, captured, result>>
    BY <1>1 DEF Write
  <2>1. CASE End(k, FALSE)
    BY <2>0, <2>1, EndKeeps
  <2>2. CASE /\ procs' = [procs EXCEPT ![k].writes = Tail(@)]
             /\ \/ UNCHANGED <<pipes, world>>
                \/ world' = AppendFile(world, to[2], <<write[2]>>) /\ UNCHANGED pipes
                \/ HasRoom(pipes, to) /\ pipes' = Put(pipes, to, write[2]) /\ UNCHANGED world
    <3>1. IsWorld(world')
      BY <1>0, <2>2, AppendFileSound
    <3>2. ArePipes(pipes') /\ NoNewHolder(pipes, pipes') /\ ShellReadsOn(pipes, pipes')
      <4>1. CASE pipes' = pipes
        BY <1>0, <4>1 DEF NoNewHolder, ShellReadsOn
      <4>2. CASE HasRoom(pipes, to) /\ pipes' = Put(pipes, to, write[2])
        BY <1>0, <4>2, PutKeeps
      <4> QED BY <2>2, <4>1, <4>2
    <3>3. procs' = [procs EXCEPT ![k].writes = Tail(procs[k].writes), ![k].copies = procs[k].copies]
      <4>1. procs = [j \in StageNumbers |-> procs[j]]
        BY DEF Inv, Processes
      <4>2. procs[k] = [state |-> procs[k].state, writes |-> procs[k].writes,
                        copies |-> procs[k].copies, ok |-> procs[k].ok, in |-> procs[k].in,
                        out |-> procs[k].out, err |-> procs[k].err]
        BY DEF Inv, Processes, IsProc
      <4>3. [procs[k] EXCEPT !.writes = Tail(procs[k].writes)]
              = [procs[k] EXCEPT !.writes = Tail(procs[k].writes), !.copies = procs[k].copies]
        BY <4>2
      <4> QED BY <2>2, <4>1, <4>3
    <3>4. /\ Processes'
          /\ \A j \in StageNumbers : procs'[j].out = procs[j].out /\ procs'[j].err = procs[j].err
      BY <2>0, <3>2, <3>3, ProcessGoesOn
    <3> QED BY <2>0, <3>1, <3>2, <3>4, RunningKeeps
  <2> QED BY <1>1, <2>1, <2>2, Zenon DEF Write
<1>2. CASE Copy(k)
  <2>0. /\ procs[k].state = "running" /\ UNCHANGED <<job, at, phase, carry, captured, result, world>>
    BY <1>2 DEF Copy, Reads
  <2>1. ArePipes(pipes') /\ NoNewHolder(pipes, pipes') /\ ShellReadsOn(pipes, pipes')
    BY <1>0, <1>2, TakeKeeps DEF Copy
  <2> DEFINE text == << <<"out", Head(pipes[procs[k].in].data)>> >>
             copies == IF procs[k].copies = "one" THEN "none" ELSE procs[k].copies
  <2>2. procs' = [procs EXCEPT ![k].writes = text, ![k].copies = IF @ = "one" THEN "none" ELSE @]
    BY <1>2 DEF Copy
  <2>3. procs' = [procs EXCEPT ![k].writes = text, ![k].copies = copies]
    <3>1. procs = [j \in StageNumbers |-> procs[j]]
      BY DEF Inv, Processes
    <3>2. procs[k] = [state |-> procs[k].state, writes |-> procs[k].writes,
                      copies |-> procs[k].copies, ok |-> procs[k].ok, in |-> procs[k].in,
                      out |-> procs[k].out, err |-> procs[k].err]
      BY DEF Inv, Processes, IsProc
    <3> HIDE DEF text
    <3>3. [procs[k] EXCEPT !.writes = text].copies = procs[k].copies
      BY <3>2
    <3> QED BY <2>2, <3>1, <3>3
  <2> HIDE DEF text, copies
  <2>4. /\ Processes'
        /\ \A j \in StageNumbers : procs'[j].out = procs[j].out /\ procs'[j].err = procs[j].err
    BY <2>0, <2>1, <2>3, ProcessGoesOn
  <2>5. IsWorld(world')
    BY <1>0, <2>0
  <2> QED BY <2>0, <2>1, <2>4, <2>5, RunningKeeps
<1>3. CASE Exit(k)
  <2>1. procs[k].ok \in BOOLEAN
    BY DEF Inv, Processes, IsProc
  <2>2. End(k, procs[k].ok) /\ UNCHANGED <<job, at, phase, carry, captured, result>>
    BY <1>3 DEF Exit
  <2> QED BY <2>1, <2>2, EndKeeps
<1> QED BY <1>1, <1>2, <1>3 DEF RunProcess

-----------------------------------------------------------------------------
(* The shell.                                                              *)

LEMMA OpenFileSound ==
  ASSUME NEW w, IsWorld(w), NEW target
  PROVE  IsWorld(OpenFile(w, target))
<1>1. CASE target = <<>>
  BY <1>1 DEF OpenFile
<1>2. CASE target # <<>>
  <2> DEFINE files == [w.files EXCEPT ![target[2]] =
                         [kind |-> "file", text |-> IF target[1] = ">>" THEN @.text ELSE <<>>]]
             v == [files |-> files, saved |-> w.saved, did |-> w.did]
  <2>1. w = [files |-> w.files, saved |-> w.saved, did |-> w.did]
    BY DEF IsWorld
  <2>2. OpenFile(w, target) = [w EXCEPT !.files = files]
    BY <1>2, <2>1 DEF OpenFile
  <2> HIDE DEF files
  <2>3. OpenFile(w, target) = v
    BY <2>1, <2>2
  <2>4. v.files = files /\ v.saved = w.saved /\ v.did = w.did
    OBVIOUS
  <2> HIDE DEF v
  <2> QED BY <2>3, <2>4 DEF IsWorld, v
<1> QED BY <1>1, <1>2

LEMMA OpenTargetsSound ==
  ASSUME NEW w, IsWorld(w), NEW redirects
  PROVE  IsWorld(OpenTargets(w, redirects))
BY OpenFileSound DEF OpenTargets

LEMMA LineStays ==
  ASSUME Inv, job' = job
  PROVE  /\ LineFits' /\ StageCount' = StageCount /\ (\A k : Words(k)' = Words(k))
         /\ StageCount \in 1..MaxStages /\ MaxStages \in Nat
BY PipelineAssumption DEF Inv, LineFits, StageCount, Words

LEMMA AbortKeeps ==
  ASSUME Inv, Abort, IsWorld(world')
  PROVE  Inv'
<1>1. LineFits' /\ Placed'
  BY LineStays DEF Abort, Inv, Placed
<1>2. Carrying' /\ Feeding'
  BY DEF Abort, Carrying, Feeding, IsCarried, Nothing
<1>3. ArePipes(pipes') /\ NoNewHolder(pipes, pipes')
  BY DropKeeps DEF Abort, Inv
<1>4. Processes'
  BY <1>3, ProcessesStay DEF Abort
<1> QED BY <1>1, <1>2, <1>3, <1>4 DEF Inv, Abort

\* The shell goes on to the next stage or beyond the last.
LEMMA GoOnPlaced ==
  ASSUME Inv, phase \in {"stage", "feed", "read"}, GoOn, job' = job
  PROVE  /\ LineFits' /\ Placed' /\ Feeding' /\ phase' \in {"launched", "stage"}
         /\ at \in 1..StageCount /\ at' = at + 1
         /\ ~IsLast(at) => phase' = "stage"
<1>1. /\ LineFits' /\ StageCount' = StageCount /\ (\A k : Words(k)' = Words(k))
      /\ StageCount \in 1..MaxStages /\ MaxStages \in Nat
  BY LineStays
<1>2. /\ at \in 1..StageCount /\ at' = at + 1
      /\ \A k \in 1..StageCount : Classify(Words(k)) # "unsupported"
  BY DEF Inv, Placed, GoOn
<1>3. phase' = IF at = StageCount THEN "launched" ELSE "stage"
  BY DEF GoOn, IsLast, StageCount
<1>4. Placed'
  BY <1>1, <1>2, <1>3 DEF Placed
<1>5. Feeding'
  BY <1>3 DEF Feeding
<1> QED BY <1>1, <1>2, <1>3, <1>4, <1>5 DEF IsLast, StageCount

LEMMA StartKeeps == ASSUME Inv, Start PROVE Inv'
<1> DEFINE stages == job.line.stages
           kinds == {Classify(s.words) : s \in ToSet(stages)}
           empty == \A s \in ToSet(stages) : s.words = <<>>
<1>1. /\ phase' = CASE empty -> "done"
                    [] ~empty /\ "unsupported" \in kinds -> "failed"
                    [] OTHER -> "stage"
      /\ result' = (empty \/ "unsupported" \notin kinds)
      /\ at' = 1 /\ UNCHANGED <<job, carry, procs, pipes, world, captured>> /\ phase = "start"
  BY DEF Start
<1>2. /\ LineFits' /\ StageCount' = StageCount /\ (\A k : Words(k)' = Words(k))
      /\ StageCount \in 1..MaxStages /\ MaxStages \in Nat
  BY <1>1, LineStays
<1>3. "unsupported" \notin kinds => \A k \in 1..StageCount : Classify(Words(k)) # "unsupported"
  <2>1. \A k \in 1..StageCount : stages[k] \in ToSet(stages)
    BY DEF Inv, LineFits, StageCount, ToSet
  <2> QED BY <2>1 DEF Words
<1> HIDE DEF kinds, empty
<1>4. /\ phase' \in {"done", "failed", "stage"} 
      /\ phase' = "stage" => "unsupported" \notin kinds
      /\ result' \in BOOLEAN
  BY <1>1
<1>5. Placed'
  BY <1>1, <1>2, <1>3, <1>4 DEF Placed
<1>6. Carrying' /\ Feeding'
  BY <1>1, <1>4 DEF Inv, Carrying, Feeding
<1>7. Processes'
  BY <1>1, ProcessesStay DEF NoNewHolder
<1> QED BY <1>1, <1>2, <1>4, <1>5, <1>6, <1>7 DEF Inv

\* What goes on from a stage of the shell is no pipe.
LEMMA DeliveredSound ==
  ASSUME NEW o, IsOutcome(o), NEW target, NEW last, NEW capture
  PROVE  LET d == Delivered(o, target, last, capture)
         IN  /\ d.carry = Nothing \/ d.carry.kind = "bytes" \/ IsValue(d.carry)
             /\ IsWorld(d.world)
             /\ d.captured = Nothing \/ IsValue(d.captured)
<1> DEFINE text == IF o.form = "value" THEN ToJson(Rows(o.value)) ELSE o.text
           stops == target # <<>> \/ last
           stored == o.form = "value" /\ target = <<>> /\ last /\ capture
           visible == target = <<>> /\ ~stored /\ (last \/ o.form = "report")
           c == CASE o.form = "report" -> o.value
                  [] o.form # "report" /\ stops -> Nothing
                  [] o.form = "value" /\ ~stops -> o.value
                  [] o.form = "text" /\ ~stops -> Bytes(text)
           w == IF target = <<>> THEN o.world ELSE AppendFile(o.world, target[2], text)
           s == IF visible THEN text ELSE <<>>
           v == IF stored THEN o.value ELSE Nothing
           d == Delivered(o, target, last, capture)
<1>1. d = [carry |-> c, world |-> w, shown |-> s, captured |-> v]
  BY DEF Delivered
<1> HIDE DEF text, stops
<1>2. c = Nothing \/ c.kind = "bytes" \/ IsValue(c)
  BY DEF IsOutcome, Bytes
<1>3. IsWorld(w)
  BY AppendFileSound DEF IsOutcome
<1>4. v = Nothing \/ IsValue(v)
  BY DEF IsOutcome
<1> HIDE DEF c, w, s, v
<1>5. d.carry = c /\ d.world = w /\ d.captured = v
  BY <1>1
<1> HIDE DEF d
<1> QED BY <1>2, <1>3, <1>4, <1>5 DEF d

\* The stage that the shell runs is one that it can run.
LEMMA OutcomesSound ==
  ASSUME Inv, phase = "stage", ~IsProcess(at)
  PROVE  Sound(Outcomes(at))
<1>1. IsCarried(carry) /\ IsWorld(OpenTargets(world, Redirects(at)))
  BY OpenTargetsSound DEF Inv, Carrying
<1>2. Classify(Words(at)) \notin {"external", "unsupported"}
  BY DEF Inv, Placed, IsProcess
<1> QED BY <1>1, <1>2, StagesSound DEF Outcomes

LEMMA FailuresKeep ==
  ASSUME Inv, RedirectionFails \/ StageFails \/ SpawnFails
  PROVE  Inv'
<1>0. IsWorld(world)
  BY DEF Inv
<1>1. CASE RedirectionFails
  BY <1>0, <1>1, OpenFileSound, AbortKeeps DEF RedirectionFails
<1>2. CASE StageFails
  BY <1>2, OutcomesSound, AbortKeeps DEF StageFails, Sound, IsOutcome
<1>3. CASE SpawnFails
  BY <1>0, <1>3, OpenTargetsSound, AbortKeeps DEF SpawnFails
<1> QED BY <1>1, <1>2, <1>3

\* A stage of the shell closes what fed it.
LEMMA RunStageKeeps == ASSUME Inv, RunStage PROVE Inv'
<1>0. /\ phase = "stage" /\ ~IsProcess(at) /\ GoOn
      /\ UNCHANGED <<job, procs, result>>
  BY DEF RunStage
<1>1. PICK d \in Deliveries(at) :
        carry' = d.carry /\ world' = d.world /\ captured' = d.captured
  BY DEF RunStage
<1>2. PICK o \in Outcomes(at) : d = Delivered(o, OutTarget(Redirects(at)), IsLast(at), job.capture)
  BY DEF Deliveries
<1>3. IsOutcome(o)
  BY <1>0, OutcomesSound DEF Sound
<1>4. /\ d.carry = Nothing \/ d.carry.kind = "bytes" \/ IsValue(d.carry)
      /\ IsWorld(d.world) /\ (d.captured = Nothing \/ IsValue(d.captured))
  BY <1>2, <1>3, DeliveredSound
<1>5. LineFits' /\ Placed' /\ Feeding' /\ phase' \in {"launched", "stage"}
  BY <1>0, GoOnPlaced
<1>6. Carrying'
  <2>1. IsCarried(carry') /\ carry'.kind \notin {"stdio", "merge"}
    BY <1>1, <1>4 DEF IsCarried, Nothing, IsValue, IsFileSet, IsJournal
  <2> QED BY <1>5, <2>1 DEF Carrying
<1>7. ArePipes(pipes') /\ NoNewHolder(pipes, pipes')
  <2>1. \/ \E hs : pipes' = Close(pipes, Shell, hs)
        \/ pipes' = pipes
    <3>1. pipes' = CASE carry.kind = "stdio" -> Close(pipes, Shell, {carry.handle})
                     [] carry.kind = "merge" -> Close(pipes, Shell, {carry.out, carry.err})
                     [] OTHER -> pipes
      BY DEF RunStage
    <3> QED BY <3>1
  <2> QED BY <2>1, CloseKeeps DEF Inv, NoNewHolder
<1>8. Processes'
  BY <1>0, <1>7, ProcessesStay
<1> QED BY <1>0, <1>1, <1>4, <1>5, <1>6, <1>7, <1>8 DEF Inv

LEMMA FeedKeeps == ASSUME Inv, Feed PROVE Inv'
<1>1. ArePipes(pipes') /\ NoNewHolder(pipes, pipes') /\ ShellReadsOn(pipes, pipes')
  <2>1. CASE pipes' = pipes
    BY <2>1 DEF Inv, NoNewHolder, ShellReadsOn
  <2>2. CASE HasRoom(pipes, <<at, "in">>) /\ pipes' = Put(pipes, <<at, "in">>, Head(left))
    BY <2>2, PutKeeps DEF Inv
  <2> QED BY <2>1, <2>2 DEF Feed
<1>2. UNCHANGED <<job, at, phase, carry, procs, world, captured, result>>
  BY DEF Feed
<1>3. Processes'
  BY <1>1, <1>2, ProcessesStay
<1> QED BY <1>1, <1>2, <1>3, RunningKeeps DEF Inv

\* What is claimed from a process is an output that the shell reads.
LEMMA ClaimedOutput ==
  ASSUME Inv, phase = "feed"
  PROVE  \/ Claimed(at) = Nothing
         \/ /\ ~IsLast(at)
            /\ \E s \in Streams : /\ Claimed(at) = Stdio(<<at, s>>)
                                  /\ pipes[<<at, s>>].readers = {Shell}
         \/ /\ ~IsLast(at)
            /\ Claimed(at) = Both(<<at, "out">>, <<at, "err">>)
            /\ \A s \in Streams : pipes[<<at, s>>].readers = {Shell}
<1>1. \A s \in Streams : IsPiped(at, s) => pipes[<<at, s>>].readers = {Shell}
  BY DEF Inv, Feeding
<1>2. "out" \in Streams /\ "err" \in Streams /\ \A s \in Streams : s = "out" \/ s = "err"
  BY DEF Streams
<1>3. PipeAfter(at) \in PipeOperators => ~IsLast(at)
  BY DEF PipeAfter, PipeOperators
<1>4. \/ Claimed(at) = Nothing
      \/ PipeAfter(at) = "|" /\ IsPiped(at, "out") /\ Claimed(at) = Stdio(<<at, "out">>)
      \/ PipeAfter(at) = "^|" /\ IsPiped(at, "err") /\ Claimed(at) = Stdio(<<at, "err">>)
      \/ /\ PipeAfter(at) = "&|" /\ IsPiped(at, "out") /\ IsPiped(at, "err")
         /\ Claimed(at) = Both(<<at, "out">>, <<at, "err">>)
  BY DEF Claimed
<1> QED BY <1>1, <1>2, <1>3, <1>4 DEF PipeOperators

\* What is claimed is carried while the shell alone reads it.
LEMMA ClaimKeeps == ASSUME Inv, Claim PROVE Inv'
<1> DEFINE fed == CloseInput(pipes, at)
<1>0. phase = "feed" /\ UNCHANGED <<job, procs, world, captured, result>>
  BY DEF Claim
<1>1. /\ ArePipes(fed) /\ NoNewHolder(pipes, fed)
      /\ \A h \in Handles \ {<<at, "in">>} : fed[h] = pipes[h]
  BY CloseKeeps DEF Inv, CloseInput
<1>2. /\ pipes' = fed \/ pipes' = Close(fed, Shell, {<<at, "out">>, <<at, "err">>})
      /\ Claimed(at) # Nothing => pipes' = fed
  BY DEF Claim
<1> HIDE DEF fed
<1>3. ArePipes(pipes') /\ NoNewHolder(pipes, pipes')
  BY <1>1, <1>2, CloseKeeps DEF NoNewHolder
<1>4. Processes'
  BY <1>0, <1>3, ProcessesStay
<1>5. CASE phase' = "read" /\ UNCHANGED <<at, carry>>
  <2>1. LineFits' /\ StageCount' = StageCount /\ (\A k : Words(k)' = Words(k))
    BY <1>0, LineStays
  <2>2. Placed'
    BY <1>0, <1>5, <2>1 DEF Inv, Placed
  <2>3. Carrying' /\ Feeding'
    BY <1>0, <1>5 DEF Inv, Carrying, Feeding, Nothing
  <2> QED BY <1>0, <1>3, <1>4, <2>1, <2>2, <2>3 DEF Inv
<1>6. CASE GoOn /\ carry' = Claimed(at)
  <2>1. /\ LineFits' /\ Placed' /\ Feeding' /\ phase' \in {"launched", "stage"}
        /\ at \in 1..StageCount /\ at' = at + 1 /\ (~IsLast(at) => phase' = "stage")
    BY <1>0, <1>6, GoOnPlaced
  <2>2. StageCount \in 1..MaxStages /\ MaxStages \in Nat
    BY <1>0, LineStays
  <2>3. at' - 1 = at /\ at' >= 2 /\ at \in StageNumbers
    BY <2>1, <2>2 DEF StageNumbers
  <2>4. \A s \in Streams : <<at, s>> \in Handles \ {<<at, "in">>}
    BY <2>3 DEF Handles, Streams
  <2>5. Claimed(at) # Nothing => \A s \in Streams : pipes'[<<at, s>>] = pipes[<<at, s>>]
    BY <1>1, <1>2, <2>4
  <2>6. Carrying'
    <3>1. CASE Claimed(at) = Nothing
      BY <1>6, <2>1, <3>1 DEF Carrying, IsCarried, Nothing
    <3>2. CASE /\ ~IsLast(at)
               /\ \E s \in Streams : /\ Claimed(at) = Stdio(<<at, s>>)
                                     /\ pipes[<<at, s>>].readers = {Shell}
      <4>1. PICK s \in Streams : Claimed(at) = Stdio(<<at, s>>) /\ pipes[<<at, s>>].readers = {Shell}
        BY <3>2
      <4>2. Stdio(<<at, s>>).kind = "stdio" /\ Nothing.kind = "none"
        BY DEF Stdio, Nothing
      <4>3. Claimed(at) # Nothing
        BY <4>1, <4>2
      <4>4. carry' = Stdio(<<at' - 1, s>>) /\ pipes'[<<at' - 1, s>>].readers = {Shell}
        BY <1>6, <2>3, <2>5, <4>1, <4>3
      <4>5. carry'.kind = "stdio" /\ phase' = "stage"
        BY <1>6, <2>1, <3>2, <4>1, <4>2
      <4> QED BY <2>3, <4>4, <4>5 DEF Carrying, IsCarried
    <3>3. CASE /\ ~IsLast(at)
               /\ Claimed(at) = Both(<<at, "out">>, <<at, "err">>)
               /\ \A s \in Streams : pipes[<<at, s>>].readers = {Shell}
      <4>1. Both(<<at, "out">>, <<at, "err">>).kind = "merge" /\ Nothing.kind = "none"
        BY DEF Both, Nothing
      <4>2. Claimed(at) # Nothing
        BY <3>3, <4>1
      <4>3. /\ carry' = Both(<<at' - 1, "out">>, <<at' - 1, "err">>)
            /\ \A s \in Streams : pipes'[<<at' - 1, s>>].readers = {Shell}
        BY <1>6, <2>3, <2>5, <3>3, <4>2
      <4>4. carry'.kind = "merge" /\ phase' = "stage"
        BY <1>6, <2>1, <3>3, <4>1
      <4> QED BY <2>3, <4>3, <4>4 DEF Carrying, IsCarried
    <3> QED BY <1>0, <3>1, <3>2, <3>3, ClaimedOutput
  <2> QED BY <1>0, <1>3, <1>4, <2>1, <2>6 DEF Inv
<1> QED BY <1>5, <1>6 DEF Claim

LEMMA ReadOutputKeeps == ASSUME Inv, ReadOutput PROVE Inv'
<1>0. phase = "read" /\ UNCHANGED <<job, procs, world, captured, result>>
  BY DEF ReadOutput
<1>1. CASE /\ pipes[<<at, "out">>].data # <<>> /\ pipes' = Take(pipes, <<at, "out">>)
           /\ UNCHANGED <<at, phase, carry>>
  <2>1. ArePipes(pipes') /\ NoNewHolder(pipes, pipes') /\ ShellReadsOn(pipes, pipes')
    BY <1>1, TakeKeeps DEF Inv
  <2>2. Processes'
    BY <1>0, <2>1, ProcessesStay
  <2> QED BY <1>0, <1>1, <2>1, <2>2, RunningKeeps DEF Inv
<1>2. CASE carry' = Bytes(left) /\ pipes' = Close(pipes, Shell, {<<at, "out">>}) /\ GoOn
  <2>1. LineFits' /\ Placed' /\ Feeding' /\ phase' \in {"launched", "stage"}
    BY <1>0, <1>2, GoOnPlaced
  <2>2. ArePipes(pipes') /\ NoNewHolder(pipes, pipes')
    BY <1>2, CloseKeeps DEF Inv
  <2>3. Processes'
    BY <1>0, <2>2, ProcessesStay
  <2>4. Carrying'
    BY <1>2, <2>1 DEF Carrying, IsCarried, Bytes
  <2> QED BY <1>0, <2>1, <2>2, <2>3, <2>4 DEF Inv
<1> QED BY <1>1, <1>2 DEF ReadOutput

\* After the last stage nothing is carried but text and values.
LEMMA EndingKeeps ==
  ASSUME Inv, Leave \/ BeginWait \/ WaitChild \/ JoinThreads
  PROVE  Inv'
<1>1. UNCHANGED <<job, carry, procs, world, captured>> /\ phase \in {"launched", "wait"}
  BY DEF Leave, BeginWait, WaitChild, JoinThreads
<1>2. /\ LineFits' /\ StageCount' = StageCount /\ (\A k : Words(k)' = Words(k))
      /\ StageCount \in 1..MaxStages /\ MaxStages \in Nat
  BY <1>1, LineStays
<1>3. phase' \in {"done", "wait"}
  BY DEF Leave, BeginWait, WaitChild, JoinThreads
<1>4. at' \in 0..(StageCount + 1) /\ (phase' = "wait" => at' >= 1)
  <2>1. CASE Leave \/ JoinThreads
    BY <2>1 DEF Leave, JoinThreads, Inv, Placed
  <2>2. CASE BeginWait
    BY <1>2, <2>2 DEF BeginWait
  <2>3. CASE WaitChild
    BY <1>2, <2>3 DEF WaitChild, Inv, Placed, StageCount
  <2> QED BY <2>1, <2>2, <2>3
<1>5. Placed'
  BY <1>2, <1>3, <1>4 DEF Placed
<1>6. Carrying' /\ Feeding'
  BY <1>1, <1>3 DEF Inv, Carrying, Feeding
<1>7. ArePipes(pipes') /\ NoNewHolder(pipes, pipes')
  <2>1. pipes' \in {pipes, Drop(pipes, Shell), Close(pipes, Shell, {<<at, "out">>, <<at, "err">>})}
    BY DEF Leave, BeginWait, WaitChild, JoinThreads
  <2> QED BY <2>1, CloseKeeps, DropKeeps DEF Inv, NoNewHolder
<1>8. Processes'
  BY <1>1, <1>7, ProcessesStay
<1>9. result' \in BOOLEAN
  <2>1. CASE Leave \/ BeginWait \/ JoinThreads
    BY <2>1 DEF Leave, BeginWait, JoinThreads, Inv
  <2>2. CASE WaitChild
    <3>1. at \in StageNumbers
      BY <1>2, <2>2 DEF WaitChild, Inv, Placed, StageNumbers, StageCount
    <3>2. procs[at].ok \in BOOLEAN
      BY <3>1 DEF Inv, Processes, IsProc
    <3> QED BY <2>2, <3>2 DEF WaitChild, Inv
  <2> QED BY <2>1, <2>2
<1> QED BY <1>1, <1>2, <1>5, <1>6, <1>7, <1>8, <1>9 DEF Inv

\* The pipes of the input of a process that is started: nobody reads a pipe with
\* another, and only it and its two forwarding threads get hold of any.
LEMMA InputPipesSound ==
  ASSUME Inv, phase = "stage", CanFeed(carry)
  PROVE  LET ps == InputPipes(at, carry)
             new == {Shell, Proc(at), <<at, "out">>, <<at, "err">>}
         IN  /\ ArePipes(ps)
             /\ \A h \in Handles : /\ ps[h].readers \subseteq pipes[h].readers \cup new
                                   /\ ps[h].writers \subseteq pipes[h].writers \cup new
<1> DEFINE ps == InputPipes(at, carry)
           new == {Shell, Proc(at), <<at, "out">>, <<at, "err">>}
           into == <<at, "in">>
           Fits(qs) == /\ ArePipes(qs)
                       /\ \A h \in Handles : /\ qs[h].readers \subseteq pipes[h].readers \cup new
                                             /\ qs[h].writers \subseteq pipes[h].writers \cup new
<1>0. ArePipes(pipes) /\ at \in 1..StageCount /\ StageCount \in 1..MaxStages /\ MaxStages \in Nat
  BY PipelineAssumption DEF Inv, Placed, LineFits
<1>1. at \in StageNumbers /\ into \in Handles
  BY <1>0 DEF StageNumbers, Handles
<1>2. at >= 2 => \A s \in Streams : <<at - 1, s>> \in Handles /\ <<at - 1, s>> # into
  BY <1>0 DEF StageNumbers, Handles, Streams
<1>3. Fits(pipes)
  BY <1>0
<1>4. ASSUME NEW writers \in SUBSET new
      PROVE  LET qs == [pipes EXCEPT ![into] = NewPipe(writers, {Proc(at)})]
             IN  Fits(qs) /\ \A h \in Handles \ {into} : qs[h] = pipes[h]
  <2> DEFINE qs == [pipes EXCEPT ![into] = NewPipe(writers, {Proc(at)})]
             p == NewPipe(writers, {Proc(at)})
  <2>1. pipes = [h \in Handles |-> pipes[h]]
    BY <1>0 DEF ArePipes
  <2>2. IsAPipe(p) /\ p.readers = {Proc(at)} /\ p.writers = writers
    BY NewPipeIsPipe DEF NewPipe
  <2> HIDE DEF p
  <2>3. qs[into] = p /\ qs = [h \in Handles |-> qs[h]] /\ \A h \in Handles \ {into} : qs[h] = pipes[h]
    BY <1>1, <2>1 DEF p
  <2> HIDE DEF qs
  <2>4. ArePipes(qs)
    BY <1>0, <2>2, <2>3 DEF ArePipes
  <2>5. \A h \in Handles : /\ qs[h].readers \subseteq pipes[h].readers \cup new
                           /\ qs[h].writers \subseteq pipes[h].writers \cup new
    BY <2>2, <2>3
  <2> QED BY <2>3, <2>4, <2>5 DEF qs
<1>5. ASSUME NEW qs, Fits(qs), NEW h \in Handles, qs[h].readers \subseteq {Shell}, NEW y \in new
      PROVE  Fits(HandOver(qs, h, Shell, y))
  <2>1. /\ ArePipes(HandOver(qs, h, Shell, y))
        /\ HandOver(qs, h, Shell, y)[h].readers = {y}
        /\ HandOver(qs, h, Shell, y)[h].writers = qs[h].writers
        /\ \A g \in Handles \ {h} : HandOver(qs, h, Shell, y)[g] = qs[g]
    BY <1>5, HandOverKeeps
  <2> HIDE DEF new
  <2> QED BY <1>5, <2>1
<1>6. CASE carry.kind = "stdio"
  <2>1. PICK s \in Streams : carry = Stdio(<<at - 1, s>>) /\ pipes[<<at - 1, s>>].readers = {Shell}
    BY <1>6 DEF Inv, Carrying
  <2>2. at >= 2 /\ carry.handle = <<at - 1, s>>
    BY <1>6, <2>1 DEF Inv, Carrying, Stdio
  <2>3. ps = HandOver(pipes, <<at - 1, s>>, Shell, Proc(at))
    BY <1>6, <2>2 DEF InputPipes
  <2> HIDE DEF Fits, ps
  <2>4. Proc(at) \in new
    OBVIOUS
  <2>5. Fits(ps)
    BY <1>2, <1>3, <1>5, <2>1, <2>2, <2>3, <2>4
  <2> QED BY <2>5 DEF Fits, ps
<1>7. CASE carry.kind \in {"bytes", "table"}
  <2>1. ps = [pipes EXCEPT ![into] = NewPipe({Shell}, {Proc(at)})]
    BY <1>7 DEF InputPipes
  <2>2. {Shell} \in SUBSET new
    OBVIOUS
  <2> HIDE DEF Fits, ps, new, into
  <2>3. Fits([pipes EXCEPT ![into] = NewPipe({Shell}, {Proc(at)})])
    BY <1>4, <2>2
  <2>4. Fits(ps)
    BY <2>1, <2>3
  <2> QED BY <2>4 DEF Fits, ps, new
<1>8. CASE carry.kind = "merge"
  <2> DEFINE qs == [pipes EXCEPT ![into] = NewPipe({<<at, "out">>, <<at, "err">>}, {Proc(at)})]
             o == <<at - 1, "out">>   e == <<at - 1, "err">>
             rs == HandOver(qs, o, Shell, <<at, "out">>)
  <2>1. carry = Both(o, e) /\ at >= 2 /\ \A s \in Streams : pipes[<<at - 1, s>>].readers = {Shell}
    BY <1>8 DEF Inv, Carrying
  <2>2. carry.out = o /\ carry.err = e
    BY <2>1 DEF Both
  <2>3. ps = HandOver(rs, e, Shell, <<at, "err">>)
    BY <1>8, <2>2 DEF InputPipes
  <2>4. /\ o \in Handles \ {into} /\ e \in Handles \ {into} /\ o # e
        /\ pipes[o].readers = {Shell} /\ pipes[e].readers = {Shell}
    BY <1>2, <2>1 DEF Streams
  <2>5. {<<at, "out">>, <<at, "err">>} \in SUBSET new /\ <<at, "out">> \in new /\ <<at, "err">> \in new
    OBVIOUS
  <2>6. Fits(qs) /\ \A h \in Handles \ {into} : qs[h] = pipes[h]
    BY <1>4, <2>5
  <2>7. qs[o].readers = {Shell} /\ qs[e].readers = {Shell}
    BY <2>4, <2>6
  <2>8. rs[e] = qs[e]
    <3>1. ArePipes(qs)
      BY <2>6
    <3> HIDE DEF qs, o, e
    <3>2. qs[o].readers \subseteq {Shell} /\ o \in Handles /\ e \in Handles \ {o}
      BY <2>4, <2>7
    <3> QED BY <3>1, <3>2, HandOverKeeps
  <2> HIDE DEF Fits, qs, o, e, new, into
  <2>9. qs[o].readers \subseteq {Shell} /\ o \in Handles /\ e \in Handles
    BY <2>4, <2>7
  <2>10. Fits(rs)
    BY <1>5, <2>5, <2>6, <2>9
  <2> HIDE DEF rs
  <2>11. rs[e].readers \subseteq {Shell}
    BY <2>7, <2>8
  <2>12. Fits(HandOver(rs, e, Shell, <<at, "err">>))
    BY <1>5, <2>5, <2>9, <2>10, <2>11
  <2>13. Fits(ps)
    BY <2>3, <2>12
  <2> QED BY <2>13 DEF Fits, new
<1>9. CASE carry.kind = "none"
  <2>1. ps = pipes
    BY <1>9 DEF InputPipes
  <2> QED BY <1>3, <2>1
<1>10. carry.kind \in {"stdio", "bytes", "table", "merge", "none"}
  BY CarriedKinds DEF Inv, Carrying, CanFeed
<1> QED BY <1>6, <1>7, <1>8, <1>9, <1>10

\* A process is started with ends of its own, and its outputs are the shell's to read.
LEMMA SpawnKeeps == ASSUME Inv, Spawn PROVE Inv'
<1> DEFINE ps == InputPipes(at, carry)
           new == {Shell, Proc(at), <<at, "out">>, <<at, "err">>}
           program == Programs[Words(at)[1]]
           r == Started(at, program, carry)
<1>0. /\ phase = "stage" /\ CanFeed(carry) /\ phase' = "feed" /\ carry' = Nothing
      /\ Words(at)[1] \in DOMAIN Programs
      /\ procs' = [procs EXCEPT ![at] = r]
      /\ UNCHANGED <<job, at, captured, result>>
  BY DEF Spawn, SpawnedCarry
<1>1. /\ LineFits' /\ StageCount' = StageCount /\ (\A k : Words(k)' = Words(k))
      /\ StageCount \in 1..MaxStages /\ MaxStages \in Nat
  BY <1>0, LineStays
<1>2. at \in 1..StageCount /\ at \in StageNumbers
  BY <1>0, <1>1 DEF Inv, Placed, StageNumbers
<1>3. /\ ArePipes(ps)
      /\ \A h \in Handles : /\ ps[h].readers \subseteq pipes[h].readers \cup new
                            /\ ps[h].writers \subseteq pipes[h].writers \cup new
  BY <1>0, InputPipesSound
<1>4. pipes' = [h \in Handles |-> IF h \in NewOutputs(at) THEN NewPipe({Proc(at)}, {Shell}) ELSE ps[h]]
  BY DEF Spawn
<1>5. /\ IsAPipe(NewPipe({Proc(at)}, {Shell}))
      /\ NewPipe({Proc(at)}, {Shell}).readers = {Shell}
      /\ NewPipe({Proc(at)}, {Shell}).writers = {Proc(at)}
  BY NewPipeIsPipe DEF NewPipe
<1> HIDE DEF ps
<1>6. ArePipes(pipes')
  BY <1>3, <1>4, <1>5 DEF ArePipes
<1>7. \A h \in Handles : /\ pipes'[h].readers \subseteq pipes[h].readers \cup new
                         /\ pipes'[h].writers \subseteq pipes[h].writers \cup new
  <2> TAKE h \in Handles
  <2>1. CASE h \in NewOutputs(at)
    BY <1>4, <1>5, <2>1
  <2>2. CASE h \notin NewOutputs(at)
    BY <1>3, <1>4, <2>2
  <2> QED BY <2>1, <2>2
<1>8. /\ r = [state |-> "running", writes |-> program.writes, copies |-> program.copies,
              ok |-> program.ok, in |-> Input(at, carry), out |-> Output(at),
              err |-> ErrOutput(at)]
      /\ r.state = "running" /\ r.ok = program.ok /\ r.out = Output(at) /\ r.err = ErrOutput(at)
      /\ IsProc(r)
  <2>1. program.ok \in BOOLEAN
    BY <1>0, PipelineAssumption
  <2> HIDE DEF program
  <2> QED BY <2>1 DEF Started, IsProc
<1> HIDE DEF r
<1>9. /\ procs' = [k \in StageNumbers |-> procs'[k]] /\ procs'[at] = r
      /\ \A k \in StageNumbers \ {at} : procs'[k] = procs[k]
  BY <1>0, <1>2 DEF Inv, Processes
<1>10. Processes'
  <2>1. \A k \in StageNumbers : IsProc(procs'[k])
    BY <1>8, <1>9 DEF Inv, Processes
  <2>2. ASSUME NEW k \in StageNumbers, procs'[k].state = "ended" PROVE HoldsNothing(pipes', Proc(k))
    <3>1. k # at
      BY <1>8, <1>9, <2>2
    <3>2. HoldsNothing(pipes, Proc(k))
      BY <1>9, <2>2, <3>1 DEF Inv, Processes
    <3>3. Proc(k) \notin new
      BY <3>1 DEF Proc, Shell
    <3> HIDE DEF new
    <3> QED BY <1>7, <3>2, <3>3 DEF HoldsNothing
  <2> QED BY <1>9, <2>1, <2>2 DEF Processes
<1>11. Placed'
  BY <1>0, <1>1, <1>2 DEF Inv, Placed
<1>12. Carrying'
  BY <1>0 DEF Carrying, IsCarried, Nothing
<1>13. Feeding'
  <2>1. ASSUME NEW s \in Streams, IsPiped(at, s)' PROVE pipes'[<<at, s>>].readers = {Shell}
    <3>1. <<at, s>> \in Handles
      BY <1>2 DEF Handles, Streams
    <3>2. <<at, s>> \in {Output(at), ErrOutput(at)}
      BY <1>0, <1>8, <1>9, <2>1 DEF IsPiped
    <3>3. <<at, s>> \in NewOutputs(at)
      BY <3>2 DEF NewOutputs, Streams
    <3> QED BY <1>4, <1>5, <3>1, <3>3
  <2> QED BY <1>0, <2>1 DEF Feeding
<1>14. IsWorld(world')
  BY OpenTargetsSound DEF Spawn, Inv
<1> QED BY <1>0, <1>1, <1>6, <1>10, <1>11, <1>12, <1>13, <1>14 DEF Inv

LEMMA NextKeeps == Inv /\ [Next]_vars => Inv'
<1> SUFFICES ASSUME Inv, [Next]_vars PROVE Inv'
  OBVIOUS
<1>1. CASE RunShell
  BY <1>1, StartKeeps, FailuresKeep, RunStageKeeps, SpawnKeeps, FeedKeeps, ClaimKeeps,
     ReadOutputKeeps, EndingKeeps DEF RunShell
<1>2. ASSUME NEW t \in ThreadIds, RunThread(t) PROVE Inv'
  BY <1>2, ForwardingKeeps
<1>3. ASSUME NEW k \in StageNumbers, RunProcess(k) PROVE Inv'
  BY <1>3, ProgramsKeep
<1>4. CASE UNCHANGED vars
  <2>1. UNCHANGED <<job, at, phase, carry, procs, pipes, world, captured, result>>
    BY <1>4 DEF vars
  <2>2. ArePipes(pipes') /\ NoNewHolder(pipes, pipes') /\ ShellReadsOn(pipes, pipes')
    BY <2>1 DEF Inv, NoNewHolder, ShellReadsOn
  <2>3. Processes'
    BY <2>1, <2>2, ProcessesStay
  <2> QED BY <2>1, <2>2, <2>3, RunningKeeps DEF Inv
<1> QED BY <1>1, <1>2, <1>3, <1>4 DEF Next, Rest

\* Every value keeps its kind, no pipe holds more than it can or has two readers,
\* a process that has ended holds no pipe, and what a stage was given is not
\* carried on, for lines of any length, any programs and pipes of any capacity
\* (run_impl's carry and post_spawn_*, pipeline_exec.rs).
THEOREM PipelineTyped == Spec => []TypeOK
BY InitHolds, NextKeeps, InvImpliesTypeOK, PTL DEF Spec

=============================================================================
