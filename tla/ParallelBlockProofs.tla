------------------------ MODULE ParallelBlockProofs ------------------------
(***************************************************************************)
(* Machine-checked, for every number of inputs, workers, statements and    *)
(* presses of Ctrl+C: the schedule counts its threads, a block that        *)
(* succeeds ran every input, and an interrupt is neither lost nor left.    *)
(***************************************************************************)
EXTENDS ParallelBlock, FiniteSetTheorems, TLAPS

(* Types.                                                                  *)

(* A statement that is being executed is one of the body's.                *)
Executing == \A i \in Item : phase[i] = "executing" => at[i] < Statements

LEMMA InitTyped == Init => TypeOK /\ Executing
<1> SUFFICES ASSUME Init
             PROVE  TypeOK /\ Executing
  OBVIOUS
<1>1. channel \in Seq(WorkerResult) /\ results \in [Item -> SUBSET WorkerResult]
  BY DEF Init
<1>2. /\ phase \in [Item -> {"queued", "polling", "executing", "ending", "sending", "sent"}]
      /\ at \in [Item -> 0..Statements] /\ flow \in [Item -> Flow]
      /\ status \in [Item -> BOOLEAN] /\ noticed \in [Item -> BOOLEAN]
      /\ Executing
  BY ParallelAssumption DEF Init, Flow, Executing
<1>3. next \in 1..(Items + 1) /\ active \in 0..Workers /\ presses \in 0..Presses
  BY ParallelAssumption DEF Init
<1>4. outcome \in [flow : Flow, success : BOOLEAN]
  BY DEF Init, Flow
<1> QED
  BY <1>1, <1>2, <1>3, <1>4 DEF Init, TypeOK

LEMMA LaunchTyped ==
  ASSUME TypeOK, Launch
  PROVE  /\ next' \in 1..(Items + 1) /\ active' \in 0..Workers /\ cancelled' \in BOOLEAN
         /\ phase' \in [Item -> {"queued", "polling", "executing", "ending",
                                 "sending", "sent"}]
BY ParallelAssumption DEF TypeOK, Launch, CanLaunch, Item

LEMMA CoordinatorTyped ==
  ASSUME TypeOK, CoordinatorStep
  PROVE  TypeOK'
<1>1. CASE LaunchFirst
  BY <1>1, LaunchTyped DEF TypeOK, LaunchFirst, Launch, coordinator
<1>2. CASE StartReceiving
  BY <1>2 DEF TypeOK, StartReceiving, schedule, worker
<1>3. CASE Receive
  <2> DEFINE result == Head(channel)
  <2>1. result \in WorkerResult /\ Tail(channel) \in Seq(WorkerResult)
    BY <1>3 DEF TypeOK, Receive
  <2>2. result.index \in Item /\ result.interrupted \in BOOLEAN
    BY <2>1 DEF WorkerResult
  <2>3. active' \in 0..Workers /\ cancelled' \in BOOLEAN /\ channel' \in Seq(WorkerResult)
    BY <1>3, <2>1, <2>2, ParallelAssumption DEF TypeOK, Receive
  <2>4. results' \in [Item -> SUBSET WorkerResult]
    BY <1>3, <2>1, <2>2 DEF TypeOK, Receive
  <2> QED
    BY <1>3, <2>3, <2>4 DEF TypeOK, Receive, worker
<1>4. CASE Refill
  <2>1. CASE CanLaunch
    BY <1>4, <2>1, LaunchTyped DEF TypeOK, Refill, Launch
  <2>2. CASE ~CanLaunch
    BY <1>4, <2>2 DEF TypeOK, Refill, schedule, worker
  <2> QED
    BY <2>1, <2>2
<1>5. CASE Finish
  <2>1. outcome' \in [flow : Flow, success : BOOLEAN]
    BY <1>5 DEF Finish, Flow, AllSucceeded
  <2> QED
    BY <1>5, <2>1 DEF TypeOK, Finish, schedule, worker
<1> QED
  BY <1>1, <1>2, <1>3, <1>4, <1>5 DEF CoordinatorStep

LEMMA WorkerTyped ==
  ASSUME TypeOK, Executing, NEW i \in Item, WorkerStep(i)
  PROVE  TypeOK'
<1>1. CASE RuntimeFails(i)
  BY <1>1 DEF TypeOK, RuntimeFails, End, Flow, schedule, coordinator
<1>2. CASE Poll(i)
  BY <1>2 DEF TypeOK, Poll, End, Flow, schedule, coordinator
<1>3. CASE Statement(i) \/ BuiltinTakesInterrupt(i)
  <2> DEFINE later == [at EXCEPT ![i] = @ + 1]
  <2>1. at[i] + 1 \in 0..Statements
    <3>1. phase[i] = "executing"
      BY <1>3 DEF Statement, BuiltinTakesInterrupt
    <3>2. at[i] \in 0..Statements /\ at[i] < Statements
      BY <3>1 DEF TypeOK, Executing
    <3> QED
      BY <3>2, ParallelAssumption
  <2>2. at' = later /\ later \in [Item -> 0..Statements]
    BY <1>3, <2>1 DEF TypeOK, Statement, BuiltinTakesInterrupt
  <2>3. \E ok \in BOOLEAN : status' = [status EXCEPT ![i] = ok]
    BY <1>3 DEF Statement, BuiltinTakesInterrupt
  <2>4. status' \in [Item -> BOOLEAN]
    BY <2>3 DEF TypeOK
  <2> HIDE DEF later
  <2> QED
    BY <1>3, <2>2, <2>4
    DEF TypeOK, Statement, BuiltinTakesInterrupt, schedule, coordinator
<1>4. CASE LoopPoll(i) \/ ExitStatement(i) \/ BodyEnds(i)
  BY <1>4 DEF TypeOK, LoopPoll, ExitStatement, BodyEnds, End, Flow, schedule, coordinator
<1>5. CASE Conclude(i)
  BY <1>5 DEF TypeOK, Conclude, Notice, schedule, coordinator
<1>6. CASE Send(i)
  <2> DEFINE r == [index |-> i, success |-> WorkerSuccess(i), interrupted |-> noticed[i]]
  <2>1. r \in WorkerResult
    BY DEF TypeOK, WorkerResult, WorkerSuccess
  <2>2. channel' \in Seq(WorkerResult)
    BY <1>6, <2>1 DEF TypeOK, Send
  <2> QED
    BY <1>6, <2>2 DEF TypeOK, Send, schedule, coordinator
<1> QED
  BY <1>1, <1>2, <1>3, <1>4, <1>5, <1>6 DEF WorkerStep

LEMMA ExecutingStep ==
  ASSUME TypeOK, Executing, [Next]_vars
  PROVE  Executing'
<1>1. CASE UNCHANGED vars
  BY <1>1 DEF Executing, vars, worker
<1>2. CASE CtrlC
  BY <1>2 DEF Executing, CtrlC, worker
<1>3. CASE CoordinatorStep
  <2>1. CASE Launch
    BY <2>1 DEF TypeOK, Executing, Launch
  <2>2. CASE UNCHANGED worker
    BY <2>2 DEF Executing, worker
  <2> QED
    BY <1>3, <2>1, <2>2
    DEF CoordinatorStep, LaunchFirst, StartReceiving, Receive, Refill, Finish
<1>4. ASSUME NEW i \in Item, WorkerStep(i)
      PROVE  Executing'
  <2>1. CASE Poll(i)
    BY <2>1, ParallelAssumption DEF TypeOK, Executing, Poll, End
  <2>2. CASE ~Poll(i)
    <3>1. \A j \in Item : phase'[j] = "executing" => phase[j] = "executing" /\ at'[j] = at[j]
      BY <1>4, <2>2
      DEF TypeOK, WorkerStep, End, RuntimeFails, Statement, LoopPoll,
          BuiltinTakesInterrupt, ExitStatement, BodyEnds, Conclude, Send
    <3> QED
      BY <3>1 DEF Executing
  <2> QED
    BY <2>1, <2>2
<1> QED
  BY <1>1, <1>2, <1>3, <1>4 DEF Next

LEMMA TypedStep ==
  ASSUME TypeOK, Executing, [Next]_vars
  PROVE  TypeOK'
<1>1. CASE UNCHANGED vars
  BY <1>1 DEF TypeOK, vars, schedule, worker, coordinator
<1>2. CASE CtrlC
  BY <1>2, ParallelAssumption DEF TypeOK, CtrlC, schedule, worker, coordinator
<1> QED
  BY <1>1, <1>2, CoordinatorTyped, WorkerTyped DEF Next

(* The parts of a block have their types.                                  *)
THEOREM BlockTyped == Spec => []TypeOK
<1>1. Init => TypeOK /\ Executing
  BY InitTyped
<1>2. TypeOK /\ Executing /\ [Next]_vars => (TypeOK /\ Executing)'
  BY TypedStep, ExecutingStep
<1> QED
  BY <1>1, <1>2, PTL DEF Spec

-----------------------------------------------------------------------------
(* The ledger of the schedule: inputs are launched in order, a thread that *)
(* has sent is in the channel once or has been received, and active counts *)
(* those launched and not received.                                        *)

InChannel(i) == \E k \in 1..Len(channel) : channel[k].index = i
Unjoined == {i \in Item : phase[i] # "queued" /\ results[i] = {}}

LaunchedInOrder == \A i \in Item : phase[i] # "queued" <=> i < next
SentIsReported  == \A i \in Item : phase[i] = "sent" <=> results[i] # {} \/ InChannel(i)
InChannelOnce ==
  \A k \in 1..Len(channel) :
    /\ results[channel[k].index] = {}
    /\ \A j \in 1..Len(channel) : channel[j].index = channel[k].index => j = k
Counted == active = Cardinality(Unjoined)
DoneWhenJoined == main = "done" => active = 0

Ledger == LaunchedInOrder /\ SentIsReported /\ InChannelOnce /\ Counted /\ DoneWhenJoined

LEMMA UnjoinedFinite == IsFiniteSet(Unjoined)
<1>1. IsFiniteSet(Item)
  BY FS_Interval, ParallelAssumption DEF Item
<1> QED
  BY <1>1, FS_Subset DEF Unjoined

LEMMA InitLedger == Init => Ledger
<1> SUFFICES ASSUME Init
             PROVE  Ledger
  OBVIOUS
<1>1. Len(channel) = 0 /\ \A i \in Item : phase[i] = "queued" /\ results[i] = {}
  BY DEF Init
<1>2. Unjoined = {}
  BY <1>1 DEF Unjoined
<1>3. Counted
  BY <1>2, FS_EmptySet DEF Init, Counted
<1>4. LaunchedInOrder
  BY <1>1, ParallelAssumption DEF Init, LaunchedInOrder, Item
<1>5. SentIsReported /\ InChannelOnce
  BY <1>1 DEF SentIsReported, InChannelOnce, InChannel
<1> QED
  BY <1>3, <1>4, <1>5 DEF Init, Ledger, DoneWhenJoined

(* One thread goes on working, and nothing is sent or received.            *)
KeepsWorking(i) ==
  /\ phase[i] \notin {"queued", "sent"} /\ phase'[i] \notin {"queued", "sent"}
  /\ \A j \in Item \ {i} : phase'[j] = phase[j]
  /\ UNCHANGED <<next, active, channel, results, main>>

LEMMA WorkingKeepsLedger ==
  ASSUME TypeOK, Ledger, NEW i \in Item, KeepsWorking(i)
  PROVE  Ledger'
<1>1. \A j \in Item : /\ phase'[j] = "queued" <=> phase[j] = "queued"
                      /\ phase'[j] = "sent" <=> phase[j] = "sent"
  BY DEF KeepsWorking
<1>2. Unjoined' = Unjoined
  BY <1>1 DEF Unjoined, KeepsWorking
<1>3. \A j \in Item : InChannel(j)' <=> InChannel(j)
  BY DEF InChannel, KeepsWorking
<1>4. LaunchedInOrder' /\ SentIsReported'
  BY <1>1, <1>3 DEF Ledger, LaunchedInOrder, SentIsReported, KeepsWorking
<1>5. InChannelOnce'
  BY DEF Ledger, InChannelOnce, KeepsWorking
<1>6. Counted' /\ DoneWhenJoined'
  BY <1>2 DEF Ledger, Counted, DoneWhenJoined, KeepsWorking
<1> QED
  BY <1>4, <1>5, <1>6 DEF Ledger

LEMMA SendKeepsLedger ==
  ASSUME TypeOK, Ledger, NEW i \in Item, Send(i)
  PROVE  Ledger'
<1> DEFINE r == [index |-> i, success |-> WorkerSuccess(i), interrupted |-> noticed[i]]
           n == Len(channel)
<1>0. /\ phase[i] = "sending" /\ phase' = [phase EXCEPT ![i] = "sent"]
      /\ channel' = Append(channel, r) /\ r.index = i
      /\ UNCHANGED <<next, active, results, main>>
  BY DEF Send, schedule, coordinator
<1>T. /\ channel \in Seq(WorkerResult) /\ n \in Nat
      /\ phase \in [Item -> {"queued", "polling", "executing", "ending", "sending", "sent"}]
  BY DEF TypeOK
<1> HIDE DEF r
<1>1. /\ Len(channel') = n + 1 /\ channel'[n + 1] = r
      /\ \A k \in 1..n : channel'[k] = channel[k]
  BY <1>0, <1>T
<1>2. results[i] = {} /\ \A k \in 1..n : channel[k].index # i
  BY <1>0 DEF Ledger, SentIsReported, InChannel
<1>3. phase'[i] = "sent" /\ \A j \in Item : j # i => phase'[j] = phase[j]
  BY <1>0, <1>T
<1>4. \A j \in Item : InChannel(j)' <=> (InChannel(j) \/ j = i)
  <2> SUFFICES ASSUME NEW j \in Item
               PROVE  InChannel(j)' <=> (InChannel(j) \/ j = i)
    OBVIOUS
  <2>1. InChannel(j)' <=> \E k \in 1..(n + 1) : channel'[k].index = j
    BY <1>1 DEF InChannel
  <2>2. (\E k \in 1..(n + 1) : channel'[k].index = j)
          <=> (\E k \in 1..n : channel[k].index = j) \/ r.index = j
    BY <1>1, <1>T
  <2> QED
    BY <2>1, <2>2, <1>0 DEF InChannel
<1>5. LaunchedInOrder'
  BY <1>0, <1>3 DEF Ledger, LaunchedInOrder
<1>6. SentIsReported'
  BY <1>0, <1>3, <1>4 DEF Ledger, SentIsReported
<1>7. InChannelOnce'
  <2> SUFFICES ASSUME NEW k \in 1..(n + 1)
               PROVE  /\ results[channel'[k].index] = {}
                      /\ \A j \in 1..(n + 1) : channel'[j].index = channel'[k].index => j = k
    BY <1>0, <1>1 DEF InChannelOnce
  <2>1. CASE k = n + 1
    BY <2>1, <1>0, <1>1, <1>2, <1>T
  <2>2. CASE k \in 1..n
    <3>1. \A j \in 1..n : channel'[j].index = channel'[k].index => j = k
      BY <2>2, <1>1 DEF Ledger, InChannelOnce
    <3>2. channel'[n + 1].index # channel'[k].index
      BY <2>2, <1>0, <1>1, <1>2
    <3>3. results[channel'[k].index] = {}
      BY <2>2, <1>1 DEF Ledger, InChannelOnce
    <3> QED
      BY <3>1, <3>2, <3>3, <1>T
  <2> QED
    BY <2>1, <2>2, <1>T
<1>8. Unjoined' = Unjoined
  BY <1>0, <1>3 DEF Unjoined
<1>9. Counted' /\ DoneWhenJoined'
  BY <1>0, <1>8 DEF Ledger, Counted, DoneWhenJoined
<1> QED
  BY <1>5, <1>6, <1>7, <1>9 DEF Ledger

LEMMA WorkerKeepsLedger ==
  ASSUME TypeOK, Ledger, NEW i \in Item, WorkerStep(i)
  PROVE  Ledger'
<1>1. CASE Send(i)
  BY <1>1, SendKeepsLedger
<1>2. CASE ~Send(i)
  <2>1. \E p \in {"polling", "executing", "ending", "sending"} :
           phase' = [phase EXCEPT ![i] = p]
    BY <1>2 DEF WorkerStep, End, RuntimeFails, Poll, Statement, LoopPoll,
                BuiltinTakesInterrupt, ExitStatement, BodyEnds, Conclude
  <2>2. phase[i] \in {"polling", "executing", "ending"}
    BY <1>2 DEF WorkerStep, RuntimeFails, Poll, Statement, LoopPoll,
                BuiltinTakesInterrupt, ExitStatement, BodyEnds, Conclude
  <2>3. UNCHANGED <<next, active, channel, results, main>>
    BY <1>2 DEF WorkerStep, RuntimeFails, Poll, Statement, LoopPoll, schedule, coordinator,
                BuiltinTakesInterrupt, ExitStatement, BodyEnds, Conclude
  <2>4. KeepsWorking(i)
    BY <2>1, <2>2, <2>3 DEF KeepsWorking, TypeOK
  <2> QED
    BY <2>4, WorkingKeepsLedger
<1> QED
  BY <1>1, <1>2

LEMMA LaunchKeepsLedger ==
  ASSUME TypeOK, Ledger, Launch, main # "done", main' # "done",
         UNCHANGED <<channel, results>>
  PROVE  Ledger'
<1>T. /\ next \in Item /\ next' = next + 1 /\ active' = active + 1
      /\ phase \in [Item -> {"queued", "polling", "executing", "ending", "sending", "sent"}]
      /\ phase' = [phase EXCEPT ![next] = "polling"]
  BY ParallelAssumption DEF TypeOK, Launch, CanLaunch, Item
<1>1. phase[next] = "queued" /\ phase'[next] = "polling"
  BY <1>T DEF Ledger, LaunchedInOrder, Item
<1>2. \A j \in Item : j # next => phase'[j] = phase[j]
  BY <1>T
<1>3. results[next] = {}
  BY <1>1, <1>T DEF Ledger, SentIsReported
<1>4. Unjoined' = Unjoined \cup {next}
  BY <1>T, <1>1, <1>2, <1>3 DEF Unjoined
<1>5. next \notin Unjoined
  BY <1>1 DEF Unjoined
<1>6. Counted'
  BY <1>T, <1>4, <1>5, UnjoinedFinite, FS_AddElement DEF Ledger, Counted
<1>7. LaunchedInOrder'
  BY <1>T, <1>1, <1>2 DEF Ledger, LaunchedInOrder, Item
<1>8. \A j \in Item : InChannel(j)' <=> InChannel(j)
  BY DEF InChannel
<1>9. SentIsReported'
  BY <1>T, <1>1, <1>2, <1>8 DEF Ledger, SentIsReported
<1>10. InChannelOnce'
  BY DEF Ledger, InChannelOnce
<1> QED
  BY <1>6, <1>7, <1>9, <1>10 DEF Ledger, DoneWhenJoined

LEMMA ReceiveKeepsLedger ==
  ASSUME TypeOK, Ledger, Receive
  PROVE  Ledger'
<1> DEFINE r == Head(channel)
           n == Len(channel)
<1>T. /\ channel \in Seq(WorkerResult) /\ channel # << >> /\ n \in Nat \ {0}
      /\ results \in [Item -> SUBSET WorkerResult]
  BY DEF TypeOK, Receive
<1>0. /\ main' = "refilling" /\ channel' = Tail(channel) /\ active' = active - 1
      /\ results' = [results EXCEPT ![r.index] = @ \cup {r}]
      /\ UNCHANGED <<next, phase>>
  BY DEF Receive, worker
<1>1. r = channel[1] /\ r \in WorkerResult /\ r.index \in Item
  <2>1. r = channel[1]
    BY <1>T
  <2>2. r \in WorkerResult
    BY <1>T, <2>1
  <2> QED
    BY <2>1, <2>2 DEF WorkerResult
<1> HIDE DEF r
<1>2. Len(channel') = n - 1 /\ \A k \in 1..(n - 1) : channel'[k] = channel[k + 1]
  BY <1>0, <1>T
<1>3. r \in results'[r.index] /\ \A j \in Item : j # r.index => results'[j] = results[j]
  BY <1>0, <1>1, <1>T
<1>4. results[r.index] = {} /\ \A k \in 2..n : channel[k].index # r.index
  BY <1>1, <1>T DEF Ledger, InChannelOnce
<1>5. phase[r.index] = "sent"
  BY <1>1, <1>T DEF Ledger, SentIsReported, InChannel
<1>6. \A j \in Item : InChannel(j)' <=> (InChannel(j) /\ j # r.index)
  <2> SUFFICES ASSUME NEW j \in Item
               PROVE  InChannel(j)' <=> (InChannel(j) /\ j # r.index)
    OBVIOUS
  <2>1. InChannel(j)' <=> \E k \in 1..(n - 1) : channel[k + 1].index = j
    BY <1>2 DEF InChannel
  <2>2. (\E k \in 1..(n - 1) : channel[k + 1].index = j) <=> \E k \in 2..n : channel[k].index = j
    <3>1. ASSUME NEW k \in 2..n, channel[k].index = j
          PROVE  \E l \in 1..(n - 1) : channel[l + 1].index = j
      <4>1. k - 1 \in 1..(n - 1) /\ (k - 1) + 1 = k
        BY <1>T
      <4> QED
        BY <3>1, <4>1
    <3> QED
      BY <3>1, <1>T
  <2>3. (\E k \in 2..n : channel[k].index = j)
          <=> (\E k \in 1..n : channel[k].index = j) /\ j # r.index
    BY <1>1, <1>4, <1>T
  <2> QED
    BY <2>1, <2>2, <2>3 DEF InChannel
<1>7. SentIsReported'
  BY <1>0, <1>3, <1>5, <1>6 DEF Ledger, SentIsReported
<1>8. InChannelOnce'
  <2> SUFFICES ASSUME NEW k \in 1..(n - 1)
               PROVE  /\ results'[channel'[k].index] = {}
                      /\ \A j \in 1..(n - 1) : channel'[j].index = channel'[k].index => j = k
    BY <1>2 DEF InChannelOnce
  <2>1. k + 1 \in 2..n /\ channel[k + 1] \in WorkerResult
    BY <1>T
  <2>2. channel'[k].index = channel[k + 1].index /\ channel[k + 1].index \in Item
    BY <1>2, <2>1 DEF WorkerResult
  <2>3. results'[channel'[k].index] = {}
    BY <2>1, <2>2, <1>3, <1>4, <1>T DEF Ledger, InChannelOnce
  <2>4. ASSUME NEW j \in 1..(n - 1), channel'[j].index = channel'[k].index
        PROVE  j = k
    <3>1. j + 1 \in 1..n /\ k + 1 \in 1..n /\ channel[j + 1].index = channel[k + 1].index
      BY <1>2, <2>4, <1>T
    <3>2. j + 1 = k + 1
      BY <3>1 DEF Ledger, InChannelOnce
    <3> QED
      BY <3>2, <1>T
  <2> QED
    BY <2>3, <2>4
<1>9. Unjoined' = Unjoined \ {r.index} /\ r.index \in Unjoined
  BY <1>0, <1>1, <1>3, <1>4, <1>5 DEF Unjoined
<1>10. Counted'
  BY <1>0, <1>9, UnjoinedFinite, FS_RemoveElement DEF Ledger, Counted
<1>11. LaunchedInOrder'
  BY <1>0 DEF Ledger, LaunchedInOrder
<1> QED
  BY <1>0, <1>7, <1>8, <1>10, <1>11 DEF Ledger, DoneWhenJoined

(* Steps that touch neither threads, channel nor counts.                   *)
LEMMA FrameKeepsLedger ==
  ASSUME Ledger, UNCHANGED <<next, active, phase, channel, results>>,
         main' = "done" => main = "done" \/ active = 0
  PROVE  Ledger'
<1>1. Unjoined' = Unjoined /\ \A j \in Item : InChannel(j)' <=> InChannel(j)
  BY DEF Unjoined, InChannel
<1>2. LaunchedInOrder' /\ InChannelOnce'
  BY DEF Ledger, LaunchedInOrder, InChannelOnce
<1>3. SentIsReported'
  BY <1>1 DEF Ledger, SentIsReported
<1> QED
  BY <1>1, <1>2, <1>3 DEF Ledger, Counted, DoneWhenJoined

LEMMA LedgerStep ==
  ASSUME TypeOK, Ledger, [Next]_vars
  PROVE  Ledger'
<1>1. CASE UNCHANGED vars
  BY <1>1, FrameKeepsLedger DEF vars, schedule, worker, coordinator
<1>2. CASE CtrlC
  BY <1>2, FrameKeepsLedger DEF CtrlC, schedule, worker, coordinator
<1>3. CASE StartReceiving \/ Finish
  BY <1>3, FrameKeepsLedger DEF StartReceiving, Finish, schedule, worker
<1>4. CASE LaunchFirst
  BY <1>4, LaunchKeepsLedger DEF LaunchFirst, coordinator
<1>5. CASE Refill
  <2>1. CASE Launch
    BY <1>5, <2>1, LaunchKeepsLedger DEF Refill
  <2>2. CASE UNCHANGED <<schedule, worker>>
    BY <1>5, <2>2, FrameKeepsLedger DEF Refill, schedule, worker
  <2> QED
    BY <1>5, <2>1, <2>2 DEF Refill
<1> QED
  BY <1>1, <1>2, <1>3, <1>4, <1>5, ReceiveKeepsLedger, WorkerKeepsLedger
  DEF Next, CoordinatorStep

LEMMA AllJoined ==
  ASSUME TypeOK, Ledger, active = 0
  PROVE  \A i \in Item : phase[i] \in {"queued", "sent"} /\ (phase[i] = "sent" => results[i] # {})
<1>1. Unjoined = {}
  BY UnjoinedFinite, FS_EmptySet DEF Ledger, Counted
<1> QED
  BY <1>1 DEF Unjoined, Ledger, SentIsReported

LEMMA LedgerMeansSlots == TypeOK /\ Ledger => SlotsMatchThreads
<1> SUFFICES ASSUME TypeOK, Ledger
             PROVE  SlotsMatchThreads
  OBVIOUS
<1>1. main = "done" => \A i \in Item : phase[i] \in {"queued", "sent"}
  BY AllJoined DEF Ledger, DoneWhenJoined
<1>2. active <= Workers
  BY ParallelAssumption DEF TypeOK
<1> QED
  BY <1>1, <1>2 DEF SlotsMatchThreads, Ledger, Counted, Unjoined

(* The schedule's count is the number of threads launched and not joined,  *)
(* never above --workers, and the block leaves no thread behind.           *)
THEOREM SlotsAlwaysMatch == Spec => []SlotsMatchThreads
<1>1. Init => TypeOK /\ Executing /\ Ledger
  BY InitTyped, InitLedger
<1>2. TypeOK /\ Executing /\ Ledger /\ [Next]_vars => (TypeOK /\ Executing /\ Ledger)'
  BY TypedStep, ExecutingStep, LedgerStep
<1> QED
  BY <1>1, <1>2, LedgerMeansSlots, PTL DEF Spec

-----------------------------------------------------------------------------
(* What a worker reports is what became of its block, and stays so.        *)

BlockSound(i) ==
  /\ phase[i] \in {"queued", "polling", "executing"} => flow[i] = "Normal"
  /\ phase[i] \in {"ending", "sending", "sent"} /\ WorkerSuccess(i) => at[i] = Statements

Agrees(r, ph, fl, st) ==
  ph[r.index] = "sent" /\ r.success = (fl[r.index] = "Normal" /\ st[r.index])
Truthful(r) == Agrees(r, phase, flow, status)
StaysTruthful(r) == Agrees(r, phase', flow', status')

ChannelTruthful == \A k \in 1..Len(channel) : Truthful(channel[k])
ResultsTruthful == \A i \in Item : \A r \in results[i] : r.index = i /\ Truthful(r)

ReportsTruthful ==
  /\ \A i \in Item : BlockSound(i)
  /\ ChannelTruthful
  /\ ResultsTruthful
  /\ SuccessMeansAllSucceeded

LEMMA InitTruthful == Init => ReportsTruthful
BY DEF Init, ReportsTruthful, BlockSound, ChannelTruthful, ResultsTruthful,
       SuccessMeansAllSucceeded

(* A worker's step does not change what any thread has reported.           *)
LEMMA WorkerKeepsTruth ==
  ASSUME TypeOK, Executing, Ledger, ReportsTruthful, NEW i \in Item, WorkerStep(i)
  PROVE  ReportsTruthful'
<1>T. /\ phase \in [Item -> {"queued", "polling", "executing", "ending", "sending", "sent"}]
      /\ at \in [Item -> 0..Statements] /\ flow \in [Item -> Flow]
      /\ status \in [Item -> BOOLEAN]
      /\ channel \in Seq(WorkerResult) /\ results \in [Item -> SUBSET WorkerResult]
  BY DEF TypeOK
<1>1. phase[i] # "sent"
  BY DEF WorkerStep, RuntimeFails, Poll, Statement, LoopPoll, BuiltinTakesInterrupt,
         ExitStatement, BodyEnds, Conclude, Send
<1>2. \A j \in Item : j # i => /\ phase'[j] = phase[j] /\ at'[j] = at[j]
                               /\ flow'[j] = flow[j] /\ status'[j] = status[j]
  BY <1>T DEF WorkerStep, RuntimeFails, Poll, Statement, LoopPoll, BuiltinTakesInterrupt,
         ExitStatement, BodyEnds, Conclude, Send, End
<1>3. BlockSound(i)'
  <2>0. BlockSound(i)
    BY DEF ReportsTruthful
  <2>1. CASE RuntimeFails(i)
    BY <2>1, <2>0, <1>T DEF RuntimeFails, End, BlockSound, WorkerSuccess
  <2>2. CASE Poll(i)
    BY <2>2, <2>0, <1>T DEF Poll, End, BlockSound, WorkerSuccess
  <2>3. CASE Statement(i) \/ BuiltinTakesInterrupt(i)
    BY <2>3, <2>0, <1>T DEF Statement, BuiltinTakesInterrupt, BlockSound
  <2>4. CASE LoopPoll(i) \/ ExitStatement(i)
    BY <2>4, <2>0, <1>T DEF LoopPoll, ExitStatement, End, BlockSound, WorkerSuccess
  <2>5. CASE BodyEnds(i)
    BY <2>5, <2>0, <1>T DEF BodyEnds, End, BlockSound
  <2>6. CASE Conclude(i) \/ Send(i)
    BY <2>6, <2>0, <1>T DEF Conclude, Send, BlockSound, WorkerSuccess
  <2> QED
    BY <2>1, <2>2, <2>3, <2>4, <2>5, <2>6 DEF WorkerStep
<1>4. \A j \in Item : BlockSound(j)'
  BY <1>2, <1>3 DEF ReportsTruthful, BlockSound, WorkerSuccess
<1>5. ASSUME NEW r \in WorkerResult, Truthful(r)
      PROVE  StaysTruthful(r)
  <2>1. r.index \in Item /\ r.index # i
    BY <1>1, <1>5 DEF Truthful, Agrees, WorkerResult
  <2> QED
    BY <2>1, <1>2, <1>5 DEF Truthful, StaysTruthful, Agrees, WorkerSuccess
<1>6. \A k \in 1..Len(channel') : StaysTruthful(channel'[k])
  <2>1. CASE UNCHANGED channel
    <3>1. \A k \in 1..Len(channel) : channel[k] \in WorkerResult
      BY <1>T
    <3> QED
      BY <2>1, <3>1, <1>5 DEF ReportsTruthful, ChannelTruthful
  <2>2. CASE Send(i)
    <3> DEFINE r == [index |-> i, success |-> WorkerSuccess(i), interrupted |-> noticed[i]]
    <3>1. channel' = Append(channel, r) /\ UNCHANGED <<flow, status>> /\ phase'[i] = "sent"
      BY <2>2, <1>T DEF Send
    <3>2. StaysTruthful(r)
      BY <3>1 DEF Truthful, StaysTruthful, Agrees, WorkerSuccess
    <3> HIDE DEF r
    <3>3. \A k \in 1..Len(channel) : StaysTruthful(channel[k])
      <4>1. \A k \in 1..Len(channel) : channel[k] \in WorkerResult
        BY <1>T
      <4> QED
        BY <4>1, <1>5 DEF ReportsTruthful, ChannelTruthful
    <3>4. \A k \in 1..Len(channel') : channel'[k] = r \/ (k \in 1..Len(channel) /\ channel'[k] = channel[k])
      BY <3>1, <1>T
    <3> QED
      BY <3>2, <3>3, <3>4
  <2> QED
    BY <2>1, <2>2 DEF WorkerStep, RuntimeFails, Poll, Statement, LoopPoll,
                      BuiltinTakesInterrupt, ExitStatement, BodyEnds, Conclude
<1>7. UNCHANGED <<results, main, outcome, active>>
  BY DEF WorkerStep, RuntimeFails, Poll, Statement, LoopPoll, BuiltinTakesInterrupt,
         ExitStatement, BodyEnds, Conclude, Send, coordinator, schedule
<1>8. \A j \in Item : \A r \in results'[j] : r.index = j /\ StaysTruthful(r)
  BY <1>5, <1>7, <1>T DEF ReportsTruthful, ResultsTruthful
<1>9. SuccessMeansAllSucceeded'
  <2>1. main # "done" \/ phase[i] = "queued"
    BY <1>1, AllJoined DEF Ledger, DoneWhenJoined
  <2>2. phase[i] # "queued"
    BY DEF WorkerStep, RuntimeFails, Poll, Statement, LoopPoll, BuiltinTakesInterrupt,
           ExitStatement, BodyEnds, Conclude, Send
  <2> QED
    BY <2>1, <2>2, <1>7 DEF SuccessMeansAllSucceeded
<1> QED
  <2>1. ChannelTruthful' /\ ResultsTruthful'
    BY <1>6, <1>8 DEF ChannelTruthful, ResultsTruthful, Truthful, StaysTruthful
  <2> QED
    BY <2>1, <1>4, <1>9 DEF ReportsTruthful

LEMMA FinishIsTruthful ==
  ASSUME TypeOK, Ledger, ReportsTruthful, Finish
  PROVE  SuccessMeansAllSucceeded'
<1> SUFFICES ASSUME AllSucceeded, NEW i \in Item
             PROVE  at[i] = Statements /\ flow[i] = "Normal" /\ status[i]
  BY DEF Finish, SuccessMeansAllSucceeded, worker
<1>1. phase[i] # "queued"
  BY ParallelAssumption DEF AllSucceeded, Ledger, LaunchedInOrder, Item, TypeOK
<1>2. phase[i] = "sent" /\ results[i] # {}
  BY <1>1, AllJoined DEF Finish
<1>3. PICK r \in results[i] : TRUE
  BY <1>2
<1>4. r.success /\ r.index = i /\ Truthful(r)
  BY <1>3 DEF AllSucceeded, AllResults, ReportsTruthful, ResultsTruthful
<1> QED
  BY <1>2, <1>4 DEF Truthful, Agrees, WorkerSuccess, ReportsTruthful, BlockSound

LEMMA TruthStep ==
  ASSUME TypeOK, Executing, Ledger, ReportsTruthful, [Next]_vars
  PROVE  ReportsTruthful'
<1>T. /\ channel \in Seq(WorkerResult) /\ results \in [Item -> SUBSET WorkerResult]
      /\ phase \in [Item -> {"queued", "polling", "executing", "ending", "sending", "sent"}]
  BY DEF TypeOK
<1>1. CASE UNCHANGED <<worker, channel, results>> /\ ~Finish
  <2>1. SuccessMeansAllSucceeded'
    <3>1. main' = "done" => main = "done" /\ outcome' = outcome
      BY <1>1
      DEF Next, CoordinatorStep, LaunchFirst, StartReceiving, Receive, Refill, CtrlC,
          vars, coordinator, WorkerStep, RuntimeFails, Poll, Statement, LoopPoll,
          BuiltinTakesInterrupt, ExitStatement, BodyEnds, Conclude, Send
    <3> QED
      BY <3>1, <1>1 DEF ReportsTruthful, SuccessMeansAllSucceeded, worker
  <2> QED
    BY <2>1, <1>1 DEF ReportsTruthful, ChannelTruthful, ResultsTruthful, BlockSound,
                        Truthful, Agrees, WorkerSuccess, worker
<1>2. CASE Finish
  <2>1. SuccessMeansAllSucceeded'
    BY <1>2, FinishIsTruthful
  <2> QED
    BY <2>1, <1>2 DEF Finish, ReportsTruthful, ChannelTruthful, ResultsTruthful, BlockSound,
                        Truthful, Agrees, WorkerSuccess, worker
<1>3. CASE Launch /\ UNCHANGED <<channel, results, outcome>> /\ main' # "done"
  <2>1. next \in Item /\ UNCHANGED <<at, flow, status>> /\ phase' = [phase EXCEPT ![next] = "polling"]
    BY <1>3, ParallelAssumption DEF Launch, CanLaunch, TypeOK, Item
  <2>2. phase[next] = "queued"
    BY <2>1 DEF Ledger, LaunchedInOrder, Item
  <2>3. \A j \in Item : BlockSound(j)'
    BY <1>T, <2>1, <2>2 DEF ReportsTruthful, BlockSound, WorkerSuccess
  <2>4. \A r \in WorkerResult : Truthful(r) => StaysTruthful(r)
    BY <1>T, <2>1, <2>2 DEF Truthful, StaysTruthful, Agrees, WorkerSuccess, WorkerResult
  <2>5. \A k \in 1..Len(channel') : StaysTruthful(channel'[k])
    <3>1. \A k \in 1..Len(channel) : channel[k] \in WorkerResult
      BY <1>T
    <3> QED
      BY <1>3, <2>4, <3>1 DEF ReportsTruthful, ChannelTruthful
  <2>6. \A j \in Item : \A r \in results'[j] : r.index = j /\ StaysTruthful(r)
    BY <1>3, <1>T, <2>4 DEF ReportsTruthful, ResultsTruthful
  <2>7. ChannelTruthful' /\ ResultsTruthful'
    BY <2>5, <2>6 DEF ChannelTruthful, ResultsTruthful, Truthful, StaysTruthful
  <2> QED
    BY <1>3, <2>3, <2>7 DEF ReportsTruthful, SuccessMeansAllSucceeded
<1>4. CASE Receive
  <2> DEFINE r == Head(channel)
  <2>0. /\ channel # << >> /\ channel' = Tail(channel) /\ main' = "refilling"
        /\ results' = [results EXCEPT ![r.index] = @ \cup {r}]
        /\ UNCHANGED worker
    BY <1>4 DEF Receive
  <2>1. r = channel[1] /\ 1 \in 1..Len(channel)
    BY <1>T, <2>0
  <2> HIDE DEF r
  <2>2. Truthful(r)
    BY <2>1 DEF ReportsTruthful, ChannelTruthful
  <2>3. \A q : Truthful(q) => StaysTruthful(q)
    BY <2>0 DEF Truthful, StaysTruthful, Agrees, worker
  <2>4. \A k \in 1..Len(channel') : k + 1 \in 1..Len(channel) /\ channel'[k] = channel[k + 1]
    BY <1>T, <2>0
  <2>5. \A k \in 1..Len(channel') : StaysTruthful(channel'[k])
    BY <2>3, <2>4 DEF ReportsTruthful, ChannelTruthful
  <2>6. \A j \in Item : \A q \in results'[j] : q.index = j /\ StaysTruthful(q)
    BY <1>T, <2>0, <2>2, <2>3 DEF ReportsTruthful, ResultsTruthful
  <2>7. ChannelTruthful' /\ ResultsTruthful'
    BY <2>5, <2>6 DEF ChannelTruthful, ResultsTruthful, Truthful, StaysTruthful
  <2> QED
    BY <2>0, <2>7
    DEF ReportsTruthful, SuccessMeansAllSucceeded, BlockSound, WorkerSuccess, worker
<1> QED
  <2>1. CASE UNCHANGED vars
    BY <2>1, <1>1, <1>2 DEF vars, coordinator
  <2>2. CASE CtrlC \/ StartReceiving
    BY <2>2, <1>1, <1>2 DEF CtrlC, StartReceiving, coordinator
  <2>3. CASE LaunchFirst
    BY <2>3, <1>3 DEF LaunchFirst, coordinator
  <2>4. CASE Refill
    BY <2>4, <1>1, <1>2, <1>3 DEF Refill
  <2> QED
    BY <1>2, <1>4, <2>1, <2>2, <2>3, <2>4, WorkerKeepsTruth DEF Next, CoordinatorStep

(* The block succeeds only if every input was launched and ran its body to *)
(* the end with success.                                                   *)
THEOREM SuccessIsEveryones == Spec => []SuccessMeansAllSucceeded
<1> DEFINE Inv == TypeOK /\ Executing /\ Ledger /\ ReportsTruthful
<1>1. Init => Inv
  BY InitTyped, InitLedger, InitTruthful
<1>2. Inv /\ [Next]_vars => Inv'
  BY TypedStep, ExecutingStep, LedgerStep, TruthStep
<1>3. Inv => SuccessMeansAllSucceeded
  BY DEF ReportsTruthful
<1> QED
  BY <1>1, <1>2, <1>3, PTL DEF Spec

-----------------------------------------------------------------------------
(* Where a Ctrl+C is that no builtin took: in the flag, in the schedule,   *)
(* with a worker, in the channel, or in what the block returned.           *)

Carries(i) ==
  \/ phase[i] = "ending" /\ flow[i] = "Interrupted"
  \/ phase[i] = "sending" /\ noticed[i]

Traced ==
  \/ interrupt \/ cancelled
  \/ \E i \in Item : Carries(i)
  \/ \E k \in 1..Len(channel) : channel[k].interrupted

InterruptTraced ==
  /\ presses > 0 /\ ~swallowed /\ main # "done" => Traced
  /\ InterruptAccountedFor

LEMMA InitTraced == Init => InterruptTraced
BY DEF Init, InterruptTraced, InterruptAccountedFor

LEMMA WorkerKeepsTrace ==
  ASSUME TypeOK, Ledger, InterruptTraced, NEW i \in Item, WorkerStep(i)
  PROVE  InterruptTraced'
<1>T. /\ phase \in [Item -> {"queued", "polling", "executing", "ending", "sending", "sent"}]
      /\ flow \in [Item -> Flow] /\ noticed \in [Item -> BOOLEAN]
      /\ channel \in Seq(WorkerResult)
  BY DEF TypeOK
<1>1. phase[i] \notin {"queued", "sent"}
  BY DEF WorkerStep, RuntimeFails, Poll, Statement, LoopPoll, BuiltinTakesInterrupt,
         ExitStatement, BodyEnds, Conclude, Send
<1>2. UNCHANGED <<main, cancelled, presses>>
  BY DEF WorkerStep, RuntimeFails, Poll, Statement, LoopPoll, BuiltinTakesInterrupt,
         ExitStatement, BodyEnds, Conclude, Send, schedule, coordinator
<1>3. main # "done"
  BY <1>1, AllJoined DEF Ledger, DoneWhenJoined
<1>4. InterruptAccountedFor'
  BY <1>2, <1>3 DEF InterruptAccountedFor
<1>5. ASSUME Traced, ~swallowed'
      PROVE  Traced'
  <2>1. \A j \in Item : j # i /\ Carries(j) => Carries(j)'
    BY <1>T DEF Carries, WorkerStep, RuntimeFails, Poll, Statement, LoopPoll, End,
                BuiltinTakesInterrupt, ExitStatement, BodyEnds, Conclude, Send
  <2>2. CASE cancelled
    BY <2>2, <1>2 DEF Traced
  <2>3. CASE \E j \in Item : j # i /\ Carries(j)
    BY <2>1, <2>3 DEF Traced
  <2>4. CASE \E k \in 1..Len(channel) : channel[k].interrupted
    <3>1. CASE UNCHANGED channel
      BY <2>4, <3>1 DEF Traced
    <3>2. CASE Send(i)
      <4> DEFINE r == [index |-> i, success |-> WorkerSuccess(i), interrupted |-> noticed[i]]
      <4>1. channel' = Append(channel, r)
        BY <3>2 DEF Send
      <4> HIDE DEF r
      <4>2. \A k \in 1..Len(channel) : k \in 1..Len(channel') /\ channel'[k] = channel[k]
        BY <4>1, <1>T
      <4> QED
        BY <2>4, <4>2 DEF Traced
    <3> QED
      BY <3>1, <3>2 DEF WorkerStep, RuntimeFails, Poll, Statement, LoopPoll,
                        BuiltinTakesInterrupt, ExitStatement, BodyEnds, Conclude
  <2>5. CASE interrupt
    <3>1. CASE Poll(i) \/ LoopPoll(i)
      <4>1. End(i, "Interrupted")
        BY <3>1, <2>5 DEF Poll, LoopPoll
      <4>2. phase'[i] = "ending" /\ flow'[i] = "Interrupted"
        BY <4>1, <1>T DEF End
      <4>3. Carries(i)'
        BY <4>2 DEF Carries
      <4> QED
        BY <4>3 DEF Traced
    <3>3. CASE BuiltinTakesInterrupt(i)
      BY <3>3, <1>5 DEF BuiltinTakesInterrupt
    <3> QED
      BY <2>5, <3>1, <3>3
      DEF WorkerStep, RuntimeFails, Statement, ExitStatement, BodyEnds, Conclude, Send, Traced
  <2>6. CASE Carries(i)
    <3>1. CASE Conclude(i)
      BY <2>6, <3>1, <1>T DEF Conclude, Notice, Carries, Traced
    <3>2. CASE Send(i)
      <4> DEFINE r == [index |-> i, success |-> WorkerSuccess(i), interrupted |-> noticed[i]]
      <4>1. channel' = Append(channel, r) /\ noticed[i]
        BY <3>2, <2>6 DEF Send, Carries
      <4>2. r.interrupted
        BY <4>1
      <4> HIDE DEF r
      <4>3. Len(channel') \in 1..Len(channel') /\ channel'[Len(channel')] = r
        BY <4>1, <1>T
      <4> QED
        BY <4>2, <4>3 DEF Traced
    <3> QED
      BY <2>6, <3>1, <3>2 DEF Carries, WorkerStep, RuntimeFails, Poll, Statement, LoopPoll,
                              BuiltinTakesInterrupt, ExitStatement, BodyEnds
  <2> QED
    BY <1>5, <2>2, <2>3, <2>4, <2>5, <2>6 DEF Traced
<1>6. swallowed => swallowed'
  BY DEF WorkerStep, RuntimeFails, Poll, Statement, LoopPoll, BuiltinTakesInterrupt,
         ExitStatement, BodyEnds, Conclude, Send
<1> QED
  BY <1>2, <1>3, <1>4, <1>5, <1>6 DEF InterruptTraced

LEMMA ReceiveKeepsTrace ==
  ASSUME TypeOK, Ledger, InterruptTraced, Receive
  PROVE  InterruptTraced'
<1> DEFINE r == Head(channel)
<1>0. /\ channel # << >> /\ channel' = Tail(channel) /\ main' = "refilling"
      /\ cancelled' = (cancelled \/ r.interrupted \/ interrupt)
      /\ UNCHANGED <<interrupt, worker, presses, swallowed>> /\ main = "receiving"
  BY DEF Receive
<1>T. channel \in Seq(WorkerResult)
  BY DEF TypeOK
<1>1. r = channel[1]
  BY <1>0, <1>T
<1> HIDE DEF r
<1>2. ASSUME Traced
      PROVE  Traced'
  <2>1. CASE \E i \in Item : Carries(i)
    BY <2>1, <1>0 DEF Traced, Carries, worker
  <2>2. CASE \E k \in 1..Len(channel) : channel[k].interrupted
    <3>1. PICK k \in 1..Len(channel) : channel[k].interrupted
      BY <2>2
    <3>2. CASE k = 1
      BY <3>1, <3>2, <1>0, <1>1 DEF Traced
    <3>3. CASE k # 1
      <4>1. k - 1 \in 1..Len(channel') /\ channel'[k - 1] = channel[k]
        BY <3>3, <1>0, <1>T
      <4> QED
        BY <3>1, <4>1 DEF Traced
    <3> QED
      BY <3>2, <3>3
  <2> QED
    BY <1>0, <1>2, <2>1, <2>2 DEF Traced
<1> QED
  BY <1>0, <1>2 DEF InterruptTraced, InterruptAccountedFor

LEMMA FinishKeepsTrace ==
  ASSUME TypeOK, Ledger, InterruptTraced, Finish
  PROVE  InterruptTraced'
<1>1. \A i \in Item : ~Carries(i)
  BY AllJoined DEF Finish, Carries
<1>2. Len(channel) = 0
  <2> SUFFICES ASSUME Len(channel) # 0
               PROVE  FALSE
    OBVIOUS
  <2>1. channel \in Seq(WorkerResult) /\ 1 \in 1..Len(channel)
    BY DEF TypeOK
  <2>2. channel[1].index \in Item
    <3>1. channel[1] \in WorkerResult
      BY <2>1
    <3> QED
      BY <3>1 DEF WorkerResult
  <2>3. results[channel[1].index] = {}
    BY <2>1 DEF Ledger, InChannelOnce
  <2>4. phase[channel[1].index] = "sent"
    BY <2>1, <2>2 DEF Ledger, SentIsReported, InChannel
  <2> QED
    BY <2>2, <2>3, <2>4, AllJoined DEF Finish
<1>3. presses > 0 /\ ~swallowed => BlockInterrupted
  BY <1>1, <1>2 DEF Finish, InterruptTraced, Traced, BlockInterrupted
<1>4. ~interrupt'
  BY DEF Finish, BlockInterrupted, TypeOK
<1> QED
  BY <1>3, <1>4 DEF Finish, InterruptTraced, InterruptAccountedFor

LEMMA TraceStep ==
  ASSUME TypeOK, Ledger, InterruptTraced, [Next]_vars
  PROVE  InterruptTraced'
<1>1. CASE UNCHANGED vars
  BY <1>1 DEF vars, schedule, worker, coordinator, InterruptTraced, Traced, Carries,
              InterruptAccountedFor
<1>2. CASE CtrlC
  BY <1>2 DEF CtrlC, coordinator, InterruptTraced, Traced, InterruptAccountedFor
<1>3. CASE StartReceiving
  BY <1>3 DEF StartReceiving, schedule, worker, InterruptTraced, Traced, Carries,
              InterruptAccountedFor
<1>4. CASE LaunchFirst \/ Refill
  <2>1. \A i \in Item : Carries(i) => Carries(i)'
    <3>1. CASE Launch
      <4>1. next \in Item /\ phase[next] = "queued"
        BY <3>1, ParallelAssumption
        DEF Launch, CanLaunch, TypeOK, Item, Ledger, LaunchedInOrder
      <4> QED
        BY <3>1, <4>1 DEF Launch, Carries, TypeOK
    <3>2. CASE UNCHANGED worker
      BY <3>2 DEF Carries, worker
    <3> QED
      BY <1>4, <3>1, <3>2 DEF LaunchFirst, Refill
  <2>2. UNCHANGED <<interrupt, cancelled, channel, presses, swallowed>>
    BY <1>4 DEF LaunchFirst, Refill, Launch, schedule
  <2>3. main # "done" /\ main' # "done"
    BY <1>4 DEF LaunchFirst, Refill, coordinator
  <2> QED
    BY <2>1, <2>2, <2>3 DEF InterruptTraced, Traced, InterruptAccountedFor
<1> QED
  BY <1>1, <1>2, <1>3, <1>4, WorkerKeepsTrace, ReceiveKeepsTrace, FinishKeepsTrace
  DEF Next, CoordinatorStep

(* A Ctrl+C that no builtin took ends the block as interrupted, and the    *)
(* block leaves no Ctrl+C behind for the next statement.                   *)
THEOREM NoInterruptIsLost == Spec => []InterruptAccountedFor
<1> DEFINE Inv == TypeOK /\ Executing /\ Ledger /\ InterruptTraced
<1>1. Init => Inv
  BY InitTyped, InitLedger, InitTraced
<1>2. Inv /\ [Next]_vars => Inv'
  BY TypedStep, ExecutingStep, LedgerStep, TraceStep
<1>3. Inv => InterruptAccountedFor
  BY DEF InterruptTraced
<1> QED
  BY <1>1, <1>2, <1>3, PTL DEF Spec
=============================================================================
