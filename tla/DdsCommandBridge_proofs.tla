---------------------- MODULE DdsCommandBridge_proofs -----------------------
(***************************************************************************)
(* Safety of the command bridge for any number of commands, agents and     *)
(* incidents: the inductive invariant, what it says of answers, and that   *)
(* every step is a step of CommandService or a stutter.                    *)
(***************************************************************************)
EXTENDS DdsCommandBridge, TLAPS

USE DEF serverVars, topicVars, agentVars, ghostVars, boundVars, vars

(***************************************************************************)
(* Types.                                                                  *)
(***************************************************************************)
\* Every action of the bridge, the topics and the agent keeps the types.
LEMMA TypeStep == TypeOK /\ CommandInv /\ [Next]_vars => TypeOK'
<1> SUFFICES ASSUME TypeOK, CommandInv, [Next]_vars
             PROVE  TypeOK'
  OBVIOUS
<1> USE DEF TypeOK, Goes, At, Actors, Steps, Result, Snapshot
<1>1. CASE Call \/ TimeOut
  BY <1>1 DEF Call, TimeOut
<1>2. ASSUME NEW a \in Actions, Publish(a) \/ PublishFails(a)
      PROVE  TypeOK'
  <2>1. /\ sent' \in Seq(Actions) /\ nextSequence' \in Nat
        /\ carriedOut' \in SUBSET (1 .. Len(sent'))
    <3>1. /\ sent' = Append(sent, a) /\ nextSequence' = nextSequence + 1
          /\ carriedOut' = carriedOut
      BY <1>2, Zenon DEF Publish, PublishFails
    <3>2. sent' \in Seq(Actions) /\ Len(sent') = Len(sent) + 1 /\ Len(sent) \in Nat
      BY <3>1
    <3>3. 1 .. Len(sent) \subseteq 1 .. Len(sent')
      BY <3>2
    <3>4. QED
      BY <3>1, <3>2, <3>3
  <2>2. control' \in SUBSET Command /\ controlUnread' \in SUBSET Command
    <3>1. /\ nextSequence + 1 \in Nat \ {0} /\ Len(sent) + 1 \in Nat \ {0}
      OBVIOUS
    <3>2. [sequence |-> nextSequence + 1, id |-> Len(sent) + 1] \in Command
      BY <3>1 DEF Command
    <3>3. CASE Publish(a)
      BY <3>2, <3>3, Zenon DEF Publish
    <3>4. CASE PublishFails(a)
      BY <3>4, Zenon DEF PublishFails
    <3>5. QED
      BY <1>2, <3>3, <3>4
  <2>3. pc' \in [Actors -> Steps] /\ result' \in Result
    BY <1>2 DEF Publish, PublishFails, NoResult, GivenUp
  <2>4. forgotten' \in BOOLEAN
    BY <1>2, Zenon DEF Publish, PublishFails
  <2>5. QED
    BY <1>2, <2>1, <2>2, <2>3, <2>4 DEF Publish, PublishFails
<1>3. CASE Poll
  BY <1>3 DEF Poll
<1>4. CASE Reset
  BY <1>4 DEF Reset, Incident
<1>5. CASE OnSnapshot
  BY <1>5 DEF OnSnapshot
<1>6. ASSUME NEW a \in Actors, Manager(a)
      PROVE  TypeOK'
  <2>1. CASE LockManager(a) \/ Kill(a) \/ Wait(a)
    BY <2>1 DEF LockManager, Kill, Wait
  <2>2. CASE EnsureRunning(a)
    <3>1. controlUnread' \in SUBSET Command /\ snapshot' \in SUBSET Nat
          /\ executing' \in SUBSET Command /\ held' \in [Publishers -> SUBSET Nat]
      BY <2>2, Zenon DEF EnsureRunning, LaunchAgent
    <3>2. forgotten' \in BOOLEAN
      BY <2>2, Zenon DEF EnsureRunning
    <3>3. QED
      BY <2>2, <3>1, <3>2 DEF EnsureRunning, AfterEnsure, LaunchAgent, GivenUp, ListenerSteps
  <2>3. CASE EnsureThrows(a)
    <3>1. controlUnread' \in SUBSET Command /\ snapshot' \in SUBSET Nat
          /\ executing' \in SUBSET Command /\ held' \in [Publishers -> SUBSET Nat]
      BY <2>3, Zenon DEF EnsureThrows, LaunchAgent
    <3>2. forgotten' \in BOOLEAN
      BY <2>3, Zenon DEF EnsureThrows
    <3>3. QED
      BY <2>3, <3>1, <3>2 DEF EnsureThrows, LaunchAgent, GivenUp, ListenerSteps
  <2>4. QED
    BY <1>6, <2>1, <2>2, <2>3 DEF Manager
<1>7. CASE Listener \/ ComposeFrames
  <2> USE DEF ListenerSteps
  <2>1. CASE Take
    BY <2>1 DEF Take
  <2>2. CASE Record \/ RecordEarly
    BY <2>2 DEF Record, RecordEarly, Command
  <2>3. CASE ComposeAnswer \/ ComposeFrames
    <3>1. executing' \in SUBSET Command
      BY <2>3, Zenon DEF ComposeAnswer, ComposeFrames
    <3>2. forgotten' \in BOOLEAN
      BY <2>3, Zenon DEF ComposeAnswer, ComposeFrames
    <3>3. PICK t \in Publishers: held' = [held EXCEPT ![t] = {recorded}]
      BY <2>3, Zenon DEF ComposeAnswer, ComposeFrames, Publishers
    <3>4. held' \in [Publishers -> SUBSET Nat]
      BY <3>3
    <3>5. QED
      BY <2>3, <3>1, <3>2, <3>4 DEF ComposeAnswer, ComposeFrames
  <2>4. CASE CarryOut \/ CarryOutRest
    <3>1. PICK c \in executing: carriedOut' = carriedOut \cup {c.id}
      BY <2>4 DEF CarryOut, CarryOutRest
    <3>2. c.id \in 1 .. Len(sent)
      BY <3>1 DEF CommandInv, Commands
    <3>3. QED
      BY <2>4, <3>1, <3>2 DEF CarryOut, CarryOutRest
  <2>5. QED
    BY <1>7, <2>1, <2>2, <2>3, <2>4 DEF Listener
<1>9. ASSUME NEW t \in Publishers, Write(t)
      PROVE  TypeOK'
  BY <1>9 DEF Write, ListenerSteps
<1>10. CASE AgentExit \/ AgentCrash
  <2>1. controlUnread' \in SUBSET Command /\ snapshot' \in SUBSET Nat
        /\ snapshotUnread' \in SUBSET Nat /\ executing' \in SUBSET Command
        /\ held' \in [Publishers -> SUBSET Nat] /\ forgotten' \in BOOLEAN
    BY <1>10, Zenon DEF AgentExit, AgentCrash, AgentEnds
  <2>2. incidents' \in Nat /\ launches' \in Nat
    BY <1>10 DEF AgentExit, AgentCrash, AgentEnds, Incident
  <2>3. recorded' \in Nat /\ listenerPc' \in ListenerSteps
    BY <1>10 DEF AgentExit, AgentCrash, AgentEnds, ListenerSteps
  <2>4. agent' \in {"none", "up", "stopping"} /\ UNCHANGED <<serverVars, control, ghostVars>>
    BY <1>10, Zenon DEF AgentExit, AgentCrash, AgentEnds
  <2>5. QED
    BY <2>1, <2>2, <2>3, <2>4, Zenon
<1>11. CASE ServerRestart
  BY <1>11 DEF ServerRestart, Incident, NoResult
<1>12. CASE UNCHANGED vars
  BY <1>12
<1>13. QED
  BY <1>1, <1>2, <1>3, <1>4, <1>5, <1>6, <1>7, <1>9, <1>10, <1>11, <1>12
  DEF Next, Caller, Listener

\* The initial state satisfies the whole invariant.
LEMMA InvInit == Init => IInv
<1> SUFFICES ASSUME Init PROVE IInv
  OBVIOUS
<1>1. TypeOK
  <2>1. held \in [Publishers -> SUBSET Snapshot] /\ sent \in Seq(Actions)
        /\ carriedOut \in SUBSET (1 .. Len(sent))
    BY DEF Init
  <2>2. forgotten \in BOOLEAN
    BY Zenon DEF Init
  <2>3. QED
    BY <2>1, <2>2 DEF Init, TypeOK, Steps, ListenerSteps, NoResult, Result, Snapshot
<1>2. ManagerIsExclusive
  BY DEF Init, ManagerIsExclusive, Actors
<1>3. SlotInv /\ CommandInv /\ ListenerInv /\ NewestInv
  BY DEF Init, SlotInv, CommandInv, ListenerInv, NewestInv, Commands
<1>4. AgentInv /\ ServerInv /\ AnswerInv
  <2>1. Handled(0)
    BY DEF Handled
  <2>2. AgentInv
    BY <2>1, Zenon DEF Init, AgentInv
  <2>3. ServerInv /\ AnswerInv
    BY <2>1 DEF Init, ServerInv, AnswerInv, NoResult, Actors
  <2>4. QED
    BY <2>2, <2>3
<1>5. QED
  BY <1>1, <1>2, <1>3, <1>4 DEF IInv

(***************************************************************************)
(* The manager's mutex: both users of it follow the same steps.            *)
(***************************************************************************)
\* Nobody holds agentManagerMutex outside the manager, whoever throws.
LEMMA ManagerStep == TypeOK /\ ManagerIsExclusive /\ [Next]_vars => ManagerIsExclusive'
<1> SUFFICES ASSUME TypeOK, ManagerIsExclusive, [Next]_vars
             PROVE  ManagerIsExclusive'
  OBVIOUS
<1> USE DEF ManagerIsExclusive, TypeOK, Goes, At, Actors
<1>1. CASE Call \/ TimeOut \/ Poll
  BY <1>1 DEF Call, TimeOut, Poll
<1>2. ASSUME NEW a \in Actions, Publish(a) \/ PublishFails(a)
      PROVE  ManagerIsExclusive'
  BY <1>2 DEF Publish, PublishFails
<1>3. CASE Reset
  BY <1>3 DEF Reset
<1>4. ASSUME NEW a \in Actors, Manager(a)
      PROVE  ManagerIsExclusive'
  <2>1. CASE LockManager(a) \/ Kill(a) \/ Wait(a)
    BY <2>1 DEF LockManager, Kill, Wait
  <2>2. CASE EnsureRunning(a) \/ EnsureThrows(a)
    BY <2>2 DEF EnsureRunning, AfterEnsure, EnsureThrows
  <2>3. QED
    BY <1>4, <2>1, <2>2 DEF Manager
<1>5. CASE ServerRestart
  BY <1>5 DEF ServerRestart
<1>6. CASE UNCHANGED <<pc, managerLock>>
  BY <1>6
<1>7. ASSUME OnSnapshot \/ Listener \/ ComposeFrames \/ AgentExit \/ AgentCrash
             \/ UNCHANGED vars \/ \E t \in Publishers: Write(t)
      PROVE  UNCHANGED <<pc, managerLock>>
  BY <1>7, Zenon DEF OnSnapshot, Listener, Take, CarryOut, Record, RecordEarly, CarryOutRest,
     ComposeAnswer, ComposeFrames, AgentExit, AgentCrash, AgentEnds, Write
<1>8. QED
  BY <1>1, <1>2, <1>3, <1>4, <1>5, <1>6, <1>7 DEF Next, Caller

(***************************************************************************)
(* What has been sent and carried out stays so.                            *)
(***************************************************************************)
LEMMA AppendKeeps ==
  ASSUME NEW S, NEW s \in Seq(S), NEW a \in S
  PROVE  /\ Append(s, a) \in Seq(S) /\ Len(Append(s, a)) = Len(s) + 1 /\ Len(s) \in Nat
         /\ \A n \in DOMAIN s: n \in DOMAIN Append(s, a) /\ Append(s, a)[n] = s[n]
OBVIOUS

\* Only a publication changes what was sent; no step forgets what was done.
LEMMA HistoryStep ==
  ASSUME [Next]_vars
  PROVE  /\ carriedOut \subseteq carriedOut'
         /\ UNCHANGED sent \/ \E a \in Actions: Publish(a) \/ PublishFails(a)
         /\ forgotten => forgotten'
<1>1. ASSUME Call \/ TimeOut \/ Poll \/ Reset \/ OnSnapshot
      PROVE  UNCHANGED <<carriedOut, sent, forgotten>>
  BY <1>1, Zenon DEF Call, TimeOut, Poll, Reset, OnSnapshot
<1>2. ASSUME NEW a \in Actions, Publish(a) \/ PublishFails(a)
      PROVE  carriedOut' = carriedOut /\ forgotten' = forgotten
  BY <1>2, Zenon DEF Publish, PublishFails
<1>3. ASSUME NEW a \in Actors, Manager(a)
      PROVE  UNCHANGED <<carriedOut, sent, forgotten>>
  BY <1>3, Zenon DEF Manager, LockManager, Kill, Wait, EnsureRunning, EnsureThrows
<1>4. ASSUME Take \/ Record \/ RecordEarly \/ ComposeAnswer \/ ComposeFrames
      PROVE  UNCHANGED <<carriedOut, sent, forgotten>>
  BY <1>4, Zenon DEF Take, Record, RecordEarly, ComposeAnswer, ComposeFrames
<1>5. ASSUME CarryOut \/ CarryOutRest
      PROVE  UNCHANGED <<sent, forgotten>> /\ carriedOut \subseteq carriedOut'
  BY <1>5, Zenon DEF CarryOut, CarryOutRest
<1>6. ASSUME AgentExit \/ AgentCrash \/ UNCHANGED vars \/ \E t \in Publishers: Write(t)
      PROVE  UNCHANGED <<carriedOut, sent, forgotten>>
  BY <1>6, Zenon DEF AgentExit, AgentCrash, AgentEnds, Write
<1>7. ASSUME ServerRestart
      PROVE  UNCHANGED <<carriedOut, sent>> /\ forgotten'
  BY <1>7, Zenon DEF ServerRestart
<1>8. QED
  BY <1>1, <1>2, <1>3, <1>4, <1>5, <1>6, <1>7 DEF Next, Caller, Listener

\* A command that has been handled stays handled.
LEMMA HandledStep ==
  ASSUME TypeOK, [Next]_vars, NEW n, Handled(n)
  PROVE  Handled(n)'
<1>1. CASE n = 0 \/ n \in carriedOut
  BY <1>1, HistoryStep DEF Handled
<1>2. CASE n \in DOMAIN sent /\ sent[n] \in EarlyActions
  <2>1. CASE UNCHANGED sent
    BY <1>2, <2>1 DEF Handled
  <2>2. CASE \E a \in Actions: Publish(a) \/ PublishFails(a)
    <3>1. PICK a \in Actions: sent' = Append(sent, a)
      BY <2>2, Zenon DEF Publish, PublishFails
    <3>2. n \in DOMAIN sent' /\ sent'[n] = sent[n]
      BY <1>2, <3>1, AppendKeeps DEF TypeOK
    <3>3. QED
      BY <1>2, <3>2 DEF Handled, EarlyActions
  <2>3. QED
    BY <2>1, <2>2, HistoryStep
<1>3. QED
  BY <1>1, <1>2 DEF Handled

(***************************************************************************)
(* Commands keep the number they were sent with.                           *)
(***************************************************************************)
\* Commands are copied from slot to slot; only Publish makes one.
LEMMA CommandsStep ==
  ASSUME [Next]_vars
  PROVE  Commands' \subseteq Commands \/ \E a \in Actions: Publish(a)
<1> USE DEF Commands
<1>1. CASE Call \/ TimeOut \/ Poll \/ Reset \/ OnSnapshot
  BY <1>1, Zenon DEF Call, TimeOut, Poll, Reset, OnSnapshot
<1>2. ASSUME NEW a \in Actions, PublishFails(a)
      PROVE  Commands' \subseteq Commands
  BY <1>2, Zenon DEF PublishFails
<1>3. ASSUME NEW a \in Actors, Manager(a)
      PROVE  Commands' \subseteq Commands
  BY <1>3 DEF Manager, LockManager, Kill, Wait, EnsureRunning, EnsureThrows, LaunchAgent
<1>4. CASE Listener \/ ComposeFrames
  BY <1>4 DEF Listener, Take, CarryOut, CarryOutRest, Record, RecordEarly, ComposeAnswer,
     ComposeFrames
<1>5. CASE AgentExit \/ AgentCrash \/ ServerRestart \/ UNCHANGED vars
  BY <1>5 DEF AgentExit, AgentCrash, AgentEnds, ServerRestart
<1>6. CASE \E t \in Publishers: Write(t)
  BY <1>6, Zenon DEF Write
<1>7. QED
  BY <1>1, <1>2, <1>3, <1>4, <1>5, <1>6 DEF Next, Caller

\* Every slot is overwritten as a whole.
LEMMA SlotStep == SlotInv /\ [Next]_vars => SlotInv'
<1> SUFFICES ASSUME SlotInv, [Next]_vars
             PROVE  SlotInv'
  OBVIOUS
<1> USE DEF SlotInv
<1>1. CASE UNCHANGED <<control, controlUnread, executing>>
  BY <1>1
<1>2. ASSUME Call \/ TimeOut \/ Poll \/ Reset \/ OnSnapshot \/ ComposeFrames
             \/ CarryOut \/ CarryOutRest \/ Record \/ RecordEarly \/ UNCHANGED vars
      PROVE  UNCHANGED <<control, controlUnread, executing>>
  BY <1>2, Zenon DEF Call, TimeOut, Poll, Reset, OnSnapshot, ComposeFrames, CarryOut,
     CarryOutRest, Record, RecordEarly
<1>3. ASSUME NEW a \in Actions, Publish(a) \/ PublishFails(a)
      PROVE  SlotInv'
  BY <1>3 DEF Publish, PublishFails
<1>4. ASSUME NEW a \in Actors, Manager(a)
      PROVE  SlotInv'
  BY <1>4 DEF Manager, LockManager, Kill, Wait, EnsureRunning, EnsureThrows, LaunchAgent
<1>5. CASE Take \/ ComposeAnswer
  BY <1>5 DEF Take, ComposeAnswer
<1>6. CASE AgentExit \/ AgentCrash \/ ServerRestart
  BY <1>6 DEF AgentExit, AgentCrash, AgentEnds, ServerRestart
<1>7. ASSUME NEW t \in Publishers, Write(t)
      PROVE  UNCHANGED <<control, controlUnread, executing>>
  BY <1>7, Zenon DEF Write
<1>8. QED
  BY <1>1, <1>2, <1>3, <1>4, <1>5, <1>6, <1>7 DEF Next, Caller, Listener

\* Every command under way was sent, with its place as its number.
LEMMA CommandStep == IInv /\ [Next]_vars => CommandInv'
<1> SUFFICES ASSUME IInv, [Next]_vars, NEW c \in Commands'
             PROVE  c.id \in DOMAIN sent' /\ (~forgotten' => c.sequence = c.id)
  BY DEF CommandInv
<1> USE DEF IInv, CommandInv
<1>1. ASSUME c \in Commands
      PROVE  c.id \in DOMAIN sent'
  <2>1. CASE UNCHANGED sent
    BY <1>1, <2>1
  <2>2. CASE \E a \in Actions: sent' = Append(sent, a)
    BY <1>1, <2>2, AppendKeeps DEF TypeOK
  <2>3. QED
    BY <2>1, <2>2, HistoryStep DEF Publish, PublishFails
<1>2. CASE c \in Commands
  BY <1>1, <1>2, HistoryStep
<1>3. ASSUME NEW a \in Actions, Publish(a), c \notin Commands
      PROVE  c.id \in DOMAIN sent' /\ (~forgotten' => c.sequence = c.id)
  <2>1. c = [sequence |-> nextSequence + 1, id |-> Len(sent) + 1]
    BY <1>3 DEF Publish, Commands
  <2>2. Len(sent) + 1 \in DOMAIN sent'
    BY <1>3, AppendKeeps DEF Publish, TypeOK
  <2>3. ~forgotten' => nextSequence = Len(sent)
    BY <1>3, HistoryStep DEF ServerInv
  <2>4. QED
    BY <2>1, <2>2, <2>3
<1>4. QED
  BY <1>2, <1>3, CommandsStep

\* The listener records a number after it has carried the command out.
LEMMA ListenerStep == IInv /\ [Next]_vars => ListenerInv'
<1> SUFFICES ASSUME IInv, [Next]_vars, listenerPc' = "record"
             PROVE  \A c \in executing': c.id \in carriedOut'
  BY DEF ListenerInv
<1> USE DEF IInv, ListenerInv
<1>1. CASE CarryOut
  <2>1. PICK c \in executing: carriedOut' = carriedOut \cup {c.id}
    BY <1>1 DEF CarryOut
  <2>2. executing' = executing /\ executing = {c}
    BY <1>1, <2>1 DEF CarryOut, SlotInv
  <2>3. QED
    BY <2>1, <2>2
<1>2. CASE UNCHANGED <<listenerPc, executing>>
  BY <1>2, HistoryStep
<1>3. ASSUME NEW a \in Actions, Publish(a) \/ PublishFails(a)
      PROVE  UNCHANGED <<listenerPc, executing>>
  BY <1>3, Zenon DEF Publish, PublishFails
<1>4. ASSUME NEW a \in Actors, Manager(a)
      PROVE  UNCHANGED <<listenerPc, executing>>
  BY <1>4 DEF Manager, LockManager, Kill, Wait, EnsureRunning, EnsureThrows, LaunchAgent
<1>5. ASSUME Call \/ TimeOut \/ Poll \/ Reset \/ OnSnapshot \/ ComposeFrames
             \/ ServerRestart \/ UNCHANGED vars
      PROVE  UNCHANGED <<listenerPc, executing>>
  BY <1>5, Zenon DEF Call, TimeOut, Poll, Reset, OnSnapshot, ComposeFrames, ServerRestart
<1>6. ~(Take \/ RecordEarly \/ CarryOutRest \/ Record \/ ComposeAnswer \/ AgentExit
        \/ AgentCrash)
  BY DEF Take, RecordEarly, CarryOutRest, Record, ComposeAnswer, AgentExit, AgentCrash, AgentEnds
<1>7. ASSUME NEW t \in Publishers, Write(t)
      PROVE  UNCHANGED <<listenerPc, executing>>
  BY <1>7 DEF Write
<1>8. QED
  BY <1>1, <1>2, <1>3, <1>4, <1>5, <1>6, <1>7 DEF Next, Caller, Listener

(***************************************************************************)
(* Every number an agent or a snapshot carries is that of a handled        *)
(* command, and so is the highest number the bridge has seen.              *)
(***************************************************************************)
\* The command the listener carries out is handled when its number is stored.
LEMMA RecordedStep ==
  ASSUME IInv, [Next]_vars, ~forgotten'
  PROVE  Handled(recorded)'
<1> USE DEF IInv
<1>1. Handled(recorded) /\ ~forgotten
  BY HistoryStep DEF AgentInv
<1>2. CASE recorded' = recorded
  BY <1>1, <1>2, HandledStep
<1>3. CASE Record
  <2>1. PICK c \in executing: recorded' = c.sequence
    BY <1>3 DEF Record
  <2>2. c.sequence = c.id /\ c.id \in carriedOut
    BY <1>1, <1>3, <2>1 DEF Record, CommandInv, Commands, ListenerInv
  <2>3. QED
    BY <2>1, <2>2, HandledStep DEF Handled
<1>4. CASE RecordEarly
  <2>1. PICK c \in executing: recorded' = c.sequence /\ sent[c.id] \in EarlyActions
    BY <1>4 DEF RecordEarly
  <2>2. c.sequence = c.id /\ c.id \in DOMAIN sent
    BY <1>1, <2>1 DEF CommandInv, Commands
  <2>3. QED
    BY <2>1, <2>2, HandledStep DEF Handled
<1>5. CASE recorded' = 0
  BY <1>5 DEF Handled
<1>6. ASSUME NEW a \in Actions, Publish(a) \/ PublishFails(a)
      PROVE  recorded' = recorded
  BY <1>6, Zenon DEF Publish, PublishFails
<1>7. ASSUME NEW a \in Actors, Manager(a)
      PROVE  recorded' = recorded \/ recorded' = 0
  BY <1>7, Zenon DEF Manager, LockManager, Kill, Wait, EnsureRunning, EnsureThrows, LaunchAgent
<1>8. ASSUME Call \/ TimeOut \/ Poll \/ Reset \/ OnSnapshot \/ Take \/ CarryOut \/ CarryOutRest
             \/ ComposeAnswer \/ ComposeFrames \/ ServerRestart \/ UNCHANGED vars
             \/ \E t \in Publishers: Write(t)
      PROVE  recorded' = recorded
  BY <1>8, Zenon DEF Call, TimeOut, Poll, Reset, OnSnapshot, Take, CarryOut, CarryOutRest,
     ComposeAnswer, ComposeFrames, ServerRestart, Write
<1>9. ASSUME AgentExit \/ AgentCrash
      PROVE  recorded' = 0
  BY <1>9, Zenon DEF AgentExit, AgentCrash, AgentEnds
<1>10. QED
  BY <1>2, <1>3, <1>4, <1>5, <1>6, <1>7, <1>8, <1>9 DEF Next, Caller, Listener

\* The snapshots under way: composed, kept by the writer, not yet read.
Snapshots == held["listener"] \cup held["publisher"] \cup snapshot \cup snapshotUnread

\* Snapshots on their way carry numbers the agent has recorded.
LEMMA SnapshotsStep ==
  ASSUME TypeOK, [Next]_vars
  PROVE  Snapshots' \subseteq Snapshots \cup {recorded}
<1> USE DEF Snapshots
<1>1. CASE UNCHANGED <<held, snapshot, snapshotUnread>>
  BY <1>1
<1>2. ASSUME Call \/ TimeOut \/ Poll \/ Reset \/ Take \/ CarryOut \/ CarryOutRest \/ Record
             \/ RecordEarly \/ UNCHANGED vars
      PROVE  UNCHANGED <<held, snapshot, snapshotUnread>>
  BY <1>2, Zenon DEF Call, TimeOut, Poll, Reset, Take, CarryOut, CarryOutRest, Record, RecordEarly
<1>3. ASSUME NEW a \in Actions, Publish(a) \/ PublishFails(a)
      PROVE  UNCHANGED <<held, snapshot, snapshotUnread>>
  BY <1>3, Zenon DEF Publish, PublishFails
<1>4. ASSUME NEW a \in Actors, Manager(a)
      PROVE  Snapshots' \subseteq Snapshots
  BY <1>4 DEF Manager, LockManager, Kill, Wait, EnsureRunning, EnsureThrows, LaunchAgent,
     Publishers
<1>5. CASE OnSnapshot
  BY <1>5 DEF OnSnapshot
<1>6. CASE ComposeAnswer \/ ComposeFrames
  BY <1>6 DEF ComposeAnswer, ComposeFrames, TypeOK, Publishers
<1>7. ASSUME NEW t \in Publishers, Write(t)
      PROVE  Snapshots' \subseteq Snapshots
  BY <1>7 DEF Write, TypeOK, Publishers
<1>8. CASE AgentExit \/ AgentCrash
  BY <1>8 DEF AgentExit, AgentCrash, AgentEnds, Publishers
<1>9. CASE ServerRestart
  BY <1>9 DEF ServerRestart
<1>10. QED
  BY <1>1, <1>2, <1>3, <1>4, <1>5, <1>6, <1>7, <1>8, <1>9 DEF Next, Caller, Listener

\* What the agent records and publishes is the number of a handled command.
LEMMA AgentStep == IInv /\ [Next]_vars => AgentInv'
<1> SUFFICES ASSUME IInv, [Next]_vars, ~forgotten'
             PROVE  Handled(recorded)' /\ \A s \in Snapshots': Handled(s)'
  BY DEF AgentInv, Snapshots, Publishers
<1>1. ~forgotten
  BY HistoryStep
<1>2. \A s \in Snapshots \cup {recorded}: Handled(s)
  BY <1>1 DEF IInv, AgentInv, Snapshots, Publishers
<1>3. QED
  BY <1>2, RecordedStep, SnapshotsStep, HandledStep DEF IInv

(***************************************************************************)
(* The server: its counter, the highest number it has seen, its answers.   *)
(***************************************************************************)
\* The steps of the server that touch neither counter nor cache.
LEMMA ServerFrame ==
  ASSUME [Next]_vars
  PROVE  \/ UNCHANGED <<nextSequence, seen, sent>>
         \/ \E a \in Actions: Publish(a) \/ PublishFails(a)
         \/ Reset \/ OnSnapshot \/ ServerRestart
<1>1. ASSUME NEW a \in Actors, Manager(a)
      PROVE  UNCHANGED <<nextSequence, seen, sent>>
  BY <1>1, Zenon DEF Manager, LockManager, Kill, Wait, EnsureRunning, EnsureThrows
<1>2. CASE Call \/ TimeOut \/ Poll
  BY <1>2, Zenon DEF Call, TimeOut, Poll
<1>3. CASE Listener \/ ComposeFrames
  BY <1>3, Zenon DEF Listener, Take, CarryOut, CarryOutRest, Record, RecordEarly, ComposeAnswer,
     ComposeFrames
<1>4. CASE AgentExit \/ AgentCrash \/ UNCHANGED vars \/ \E t \in Publishers: Write(t)
  BY <1>4, Zenon DEF AgentExit, AgentCrash, AgentEnds, Write
<1>5. QED
  BY <1>1, <1>2, <1>3, <1>4, Zenon DEF Next, Caller

\* The bridge has only seen numbers of handled commands.
LEMMA ServerStep == IInv /\ [Next]_vars => ServerInv'
<1> SUFFICES ASSUME IInv, [Next]_vars, ~forgotten'
             PROVE  nextSequence' = Len(sent') /\ Handled(seen)'
  BY DEF ServerInv
<1>1. ~forgotten /\ nextSequence = Len(sent) /\ Handled(seen)
  BY HistoryStep DEF IInv, ServerInv
<1>2. CASE UNCHANGED <<nextSequence, seen, sent>>
  BY <1>1, <1>2, HandledStep DEF IInv
<1>3. ASSUME NEW a \in Actions, Publish(a) \/ PublishFails(a)
      PROVE  nextSequence' = Len(sent') /\ Handled(seen)'
  <2>1. sent' = Append(sent, a) /\ nextSequence' = nextSequence + 1 /\ seen' = seen
    BY <1>3, Zenon DEF Publish, PublishFails
  <2>2. Len(sent') = Len(sent) + 1
    BY <2>1, AppendKeeps DEF IInv, TypeOK
  <2>3. QED
    BY <1>1, <2>1, <2>2, HandledStep DEF IInv
<1>4. CASE Reset
  BY <1>1, <1>4 DEF Reset, Handled
<1>5. CASE OnSnapshot
  <2>1. seen' = seen \/ seen' \in snapshotUnread
    BY <1>5 DEF OnSnapshot
  <2>2. Handled(seen)'
    BY <1>1, <2>1, HandledStep DEF IInv, AgentInv
  <2>3. QED
    BY <1>1, <1>5, <2>2 DEF OnSnapshot
<1>6. CASE ServerRestart
  BY <1>6 DEF ServerRestart
<1>7. QED
  BY <1>2, <1>3, <1>4, <1>5, <1>6, ServerFrame

\* An answer is only given by Poll, and it finds a number that is not below
\* the one of the command: the command's own, for it is the highest sent.
LEMMA AnswerStep == IInv /\ [Next]_vars => AnswerInv'
<1> SUFFICES ASSUME IInv, [Next]_vars
             PROVE  AnswerInv'
  OBVIOUS
<1> USE DEF IInv, AnswerInv, Goes, At
<1>1. Len(sent) \in Nat
  BY DEF TypeOK
<1>2. CASE Poll
  <2>1. result.kind' = "answered" => Len(sent') > 0
    BY <1>2 DEF Poll
  <2>2. pc'["caller"] = "idle"
    BY <1>2 DEF Poll, TypeOK, Actors
  <2>3. ASSUME ~forgotten'
        PROVE  Handled(Len(sent))'
    <3>1. ~forgotten /\ seen >= Len(sent) /\ UNCHANGED sent /\ Len(sent) > 0
      BY <1>2, <2>3, HistoryStep DEF Poll, ServerInv
    <3>2. Handled(seen) /\ seen \in Nat
      BY <3>1 DEF ServerInv, TypeOK
    <3>3. seen = Len(sent)
      BY <1>1, <3>1, <3>2 DEF Handled, TypeOK
    <3>4. QED
      BY <3>1, <3>2, <3>3, HandledStep
  <2>4. QED
    BY <2>1, <2>2, <2>3
<1>3. ASSUME UNCHANGED sent, result' = result \/ result'.kind # "answered",
             pc'["caller"] = "poll" => pc["caller"] = "poll"
      PROVE  AnswerInv'
  BY <1>3, HistoryStep, HandledStep
<1>4. ASSUME NEW a \in Actions, Publish(a) \/ PublishFails(a)
      PROVE  AnswerInv'
  <2>1. Len(sent') > 0
    BY <1>1, <1>4, AppendKeeps DEF Publish, PublishFails, TypeOK
  <2>2. result'.kind # "answered"
    BY <1>4 DEF Publish, PublishFails, NoResult, GivenUp
  <2>3. QED
    BY <2>1, <2>2
<1>5. CASE Call \/ TimeOut \/ Reset \/ OnSnapshot \/ UNCHANGED vars
  <2>1. UNCHANGED <<sent, result>>
    BY <1>5, Zenon DEF Call, TimeOut, Reset, OnSnapshot
  <2>2. pc'["caller"] = "poll" => pc["caller"] = "poll"
    BY <1>5 DEF Call, TimeOut, Reset, OnSnapshot, TypeOK, Actors
  <2>3. QED
    BY <1>3, <2>1, <2>2
<1>6. ASSUME NEW a \in Actors, Manager(a)
      PROVE  AnswerInv'
  <2>1. UNCHANGED sent /\ result' \in {result, GivenUp}
    BY <1>6, Zenon DEF Manager, LockManager, Kill, Wait, EnsureRunning, AfterEnsure, EnsureThrows
  <2>2. pc'["caller"] = "poll" => pc["caller"] = "poll"
    <3>1. CASE LockManager(a) \/ Kill(a) \/ Wait(a)
      BY <3>1 DEF LockManager, Kill, Wait, TypeOK, Actors
    <3>2. CASE EnsureRunning(a) \/ EnsureThrows(a)
      BY <3>2 DEF EnsureRunning, AfterEnsure, EnsureThrows, TypeOK, Actors
    <3>3. QED
      BY <1>6, <3>1, <3>2 DEF Manager
  <2>3. QED
    BY <1>3, <2>1, <2>2 DEF GivenUp
<1>7. CASE Listener \/ ComposeFrames \/ AgentExit \/ AgentCrash \/ \E t \in Publishers: Write(t)
  <2>1. UNCHANGED <<sent, result, pc>>
    BY <1>7, Zenon DEF Listener, Take, CarryOut, CarryOutRest, Record, RecordEarly,
       ComposeAnswer, ComposeFrames, AgentExit, AgentCrash, AgentEnds, Write
  <2>2. QED
    BY <1>3, <2>1
<1>8. CASE ServerRestart
  <2>1. UNCHANGED sent /\ result'.kind # "answered" /\ pc'["caller"] # "poll"
    BY <1>8 DEF ServerRestart, NoResult, Actors
  <2>2. QED
    BY <1>3, <2>1
<1>9. QED
  BY <1>2, <1>4, <1>5, <1>6, <1>7, <1>8 DEF Next, Caller

\* The slots are filled with the command sent last, and emptied into the one
\* that is carried out.
LEMMA NewestStep == IInv /\ [Next]_vars => NewestInv'
<1> SUFFICES ASSUME IInv, [Next]_vars
             PROVE  NewestInv'
  OBVIOUS
<1> USE DEF IInv, NewestInv, Commands
<1>0. /\ Len(sent) \in Nat /\ carriedOut \subseteq 1 .. Len(sent)
      /\ \A c \in Commands: c.id \in 1 .. Len(sent)
  BY DEF TypeOK, CommandInv
<1>1. ASSUME UNCHANGED carriedOut, control' \subseteq control,
             controlUnread' \subseteq controlUnread \cup control',
             executing' \subseteq executing
      PROVE  NewestInv'
  BY <1>0, <1>1 DEF SlotInv
<1>2. CASE Call \/ TimeOut \/ Poll \/ Reset \/ OnSnapshot \/ ComposeFrames
           \/ Record \/ RecordEarly \/ UNCHANGED vars
  <2>1. UNCHANGED <<carriedOut, control, controlUnread, executing>>
    BY <1>2, Zenon DEF Call, TimeOut, Poll, Reset, OnSnapshot, ComposeFrames, Record,
       RecordEarly
  <2>2. QED
    BY <1>1, <2>1
<1>3. ASSUME NEW a \in Actions, Publish(a) \/ PublishFails(a)
      PROVE  NewestInv'
  <2>1. CASE Publish(a)
    <3> DEFINE new == [sequence |-> nextSequence + 1, id |-> Len(sent) + 1]
    <3>1. /\ UNCHANGED <<carriedOut, executing>> /\ control' = {new}
          /\ controlUnread' = controlUnread \/ controlUnread' = {new}
      BY <2>1, Zenon DEF Publish, agentVars
    <3>2. new.id = Len(sent) + 1
      OBVIOUS
    <3>3. QED
      BY <1>0, <3>1, <3>2
  <2>2. CASE PublishFails(a)
    BY <1>1, <2>2 DEF PublishFails
  <2>3. QED
    BY <1>3, <2>1, <2>2
<1>4. ASSUME NEW a \in Actors, Manager(a)
      PROVE  NewestInv'
  BY <1>1, <1>4 DEF Manager, LockManager, Kill, Wait, EnsureRunning, EnsureThrows, LaunchAgent
<1>5. CASE Take
  <2>1. /\ UNCHANGED <<carriedOut, control>>
        /\ executing' = controlUnread /\ controlUnread' = {}
    BY <1>5, Zenon DEF Take
  <2>2. QED
    BY <2>1
<1>6. CASE ComposeAnswer \/ AgentExit \/ AgentCrash \/ ServerRestart
  BY <1>1, <1>6 DEF ComposeAnswer, AgentExit, AgentCrash, AgentEnds, ServerRestart
<1>7. CASE CarryOut \/ CarryOutRest
  <2>1. UNCHANGED <<control, controlUnread, executing>>
    BY <1>7, Zenon DEF CarryOut, CarryOutRest
  <2>2. PICK c \in executing: carriedOut' = carriedOut \cup {c.id}
    BY <1>7 DEF CarryOut, CarryOutRest
  <2>3. \A d \in Commands: c.id <= d.id
    BY <1>0 DEF SlotInv
  <2>4. QED
    BY <2>1, <2>2, <2>3
<1>8. ASSUME NEW t \in Publishers, Write(t)
      PROVE  NewestInv'
  <2>1. UNCHANGED <<carriedOut, control, controlUnread, executing>>
    BY <1>8, Zenon DEF Write
  <2>2. QED
    BY <1>1, <2>1
<1>9. QED
  BY <1>2, <1>3, <1>4, <1>5, <1>6, <1>7, <1>8 DEF Next, Caller, Listener

\* Every step of server, agent and topics keeps the inductive invariant.
LEMMA InvStep == IInv /\ [Next]_vars => IInv'
<1> SUFFICES ASSUME IInv, [Next]_vars
             PROVE  IInv'
  OBVIOUS
<1>1. TypeOK' /\ ManagerIsExclusive' /\ SlotInv'
  BY TypeStep, ManagerStep, SlotStep DEF IInv
<1>2. CommandInv' /\ ListenerInv' /\ AgentInv' /\ ServerInv' /\ AnswerInv' /\ NewestInv'
  BY NewestStep, CommandStep, ListenerStep, AgentStep, ServerStep, AnswerStep
<1>3. QED
  BY <1>1, <1>2 DEF IInv

(***************************************************************************)
(* The theorems.                                                           *)
(***************************************************************************)
\* The inductive invariant holds however many commands, agents and incidents
\* there are: numbers, slots, cache and answers of the bridge fit together.
THEOREM BridgeInvariance == Spec => []IInv
<1>1. Spec => Init /\ [][Next]_vars
  BY PTL DEF Spec, SafetySpec
<1>2. QED
  BY <1>1, InvInit, InvStep, PTL

\* Every variable of the bridge, the agent and the topics keeps its type,
\* whatever answers, crashes and restarts come in whatever order.
THEOREM BridgeTypes == Spec => []TypeOK
<1>1. IInv => TypeOK
  BY DEF IInv
<1>2. QED
  BY <1>1, BridgeInvariance, PTL

\* An answer of sendCommandAndAwait means that an agent has carried the command
\* out, for every command but divider-apply, until the server restarts.
THEOREM AnswersAreEarned == Spec => []AnsweredWasCarriedOut
<1>1. IInv => AnsweredWasCarriedOut
  BY DEF IInv, AnswerInv, AnsweredWasCarriedOut, Handled, TypeOK
<1>2. QED
  BY <1>1, BridgeInvariance, PTL

\* No agent goes back to a command before one that has been carried out, however
\* many agents take the kept sample again.
THEOREM NeverBack == Spec => []NeverGoesBack
<1>1. IInv => NeverGoesBack
  BY DEF IInv, NewestInv, NeverGoesBack, Commands
<1>2. QED
  BY <1>1, BridgeInvariance, PTL

\* Caller and restart handler are never inside the process manager together.
THEOREM ManagerExclusion == Spec => []ManagerIsExclusive
<1>1. IInv => ManagerIsExclusive
  BY DEF IInv
<1>2. QED
  BY <1>1, BridgeInvariance, PTL

(***************************************************************************)
(* Refinement: what each step is to the client.                            *)
(***************************************************************************)
LEMMA ServiceInit == Init => Service!Init
BY DEF Init, Service!Init, Waiting, NoResult, Actors

\* Every step of the bridge is a step of the service or invisible to it; only
\* Poll answers, and by the invariant it answers what was carried out.
LEMMA ServiceStep == IInv /\ [Next]_vars => [Service!Next]_(Service!serviceVars)
<1> SUFFICES ASSUME IInv, [Next]_vars
             PROVE  Service!Next \/ UNCHANGED Service!serviceVars
  OBVIOUS
<1> USE DEF IInv, Goes, At, Waiting, Service!serviceVars
<1>0. pc \in [Actors -> Steps] /\ "caller" \in Actors
  BY DEF TypeOK, Actors
<1>1. ASSUME NEW a \in Actions, Publish(a)
      PROVE  Service!Next
  <2>1. ~Waiting /\ Waiting'
    BY <1>0, <1>1 DEF Publish
  <2>2. Service!Ask(a)
    BY <1>1, <2>1 DEF Publish, Service!Ask, NoResult
  <2>3. QED
    BY <2>2 DEF Service!Next
<1>2. ASSUME NEW a \in Actions, PublishFails(a)
      PROVE  Service!Next
  <2>1. ~Waiting /\ ~Waiting'
    BY <1>0, <1>2 DEF PublishFails
  <2>2. Service!Refuse(a)
    BY <1>2, <2>1 DEF PublishFails, Service!Refuse, GivenUp
  <2>3. QED
    BY <2>2 DEF Service!Next
<1>3. CASE Poll
  <2>1. Waiting /\ ~Waiting' /\ result'.kind = "answered"
    BY <1>0, <1>3 DEF Poll
  <2>2. UNCHANGED <<sent, carriedOut, forgotten>>
    BY <1>3, Zenon DEF Poll
  <2>3. AnswerInv'
    BY InvStep
  <2>4. Service!Trustworthy(Len(sent)) => Len(sent) \in carriedOut
    BY <2>1, <2>2, <2>3 DEF AnswerInv, Handled, Service!Trustworthy
  <2>5. Service!Answer
    BY <2>1, <2>2, <2>4 DEF Service!Answer
  <2>6. QED
    BY <2>5 DEF Service!Next
<1>4. CASE Call \/ TimeOut \/ Reset \/ OnSnapshot \/ UNCHANGED vars
  <2>1. UNCHANGED <<sent, result, carriedOut, forgotten>>
    BY <1>4, Zenon DEF Call, TimeOut, Reset, OnSnapshot
  <2>2. Waiting' = Waiting
    BY <1>0, <1>4 DEF Call, TimeOut, Reset, OnSnapshot
  <2>3. QED
    BY <2>1, <2>2
<1>5. ASSUME NEW a \in Actors, Manager(a)
      PROVE  Service!Next \/ UNCHANGED Service!serviceVars
  <2>1. UNCHANGED <<sent, carriedOut, forgotten>>
    BY <1>5, Zenon DEF Manager, LockManager, Kill, Wait, EnsureRunning, EnsureThrows
  <2>2. CASE LockManager(a) \/ Kill(a) \/ Wait(a)
    <3>1. result' = result /\ Waiting' = Waiting
      BY <1>0, <2>2 DEF LockManager, Kill, Wait
    <3>2. QED
      BY <2>1, <3>1
  <2>3. CASE (EnsureRunning(a) \/ EnsureThrows(a)) /\ ~(a = "caller" /\ pc[a] = "restartEnsure")
    <3>1. result' = result /\ Waiting' = Waiting
      BY <1>0, <2>3 DEF EnsureRunning, AfterEnsure, EnsureThrows
    <3>2. QED
      BY <2>1, <3>1
  <2>4. CASE (EnsureRunning(a) \/ EnsureThrows(a)) /\ a = "caller" /\ pc[a] = "restartEnsure"
    <3>1. result'.kind = "givenUp" /\ Waiting /\ ~Waiting'
      BY <1>0, <2>4 DEF EnsureRunning, AfterEnsure, EnsureThrows, GivenUp
    <3>2. Service!GiveUp
      BY <2>1, <3>1 DEF Service!GiveUp
    <3>3. QED
      BY <3>2 DEF Service!Next
  <2>5. QED
    BY <1>5, <2>2, <2>3, <2>4 DEF Manager
<1>6. ASSUME CarryOut \/ CarryOutRest
      PROVE  Service!Next
  <2>1. PICK c \in executing: carriedOut' = carriedOut \cup {c.id}
    BY <1>6 DEF CarryOut, CarryOutRest
  <2>2. c.id \in DOMAIN sent
    BY DEF CommandInv, Commands
  <2>3. UNCHANGED <<sent, pc, result, forgotten>>
    BY <1>6, Zenon DEF CarryOut, CarryOutRest
  <2>4. Service!CarryOut(c.id)
    BY <2>1, <2>3 DEF Service!CarryOut
  <2>5. QED
    BY <2>2, <2>4 DEF Service!Next
<1>7. ASSUME Take \/ Record \/ RecordEarly \/ ComposeAnswer \/ ComposeFrames \/ AgentExit
             \/ AgentCrash \/ \E t \in Publishers: Write(t)
      PROVE  UNCHANGED Service!serviceVars
  <2>1. UNCHANGED <<sent, pc, result, carriedOut, forgotten>>
    BY <1>7, Zenon DEF Take, Record, RecordEarly, ComposeAnswer, ComposeFrames, AgentExit,
       AgentCrash, AgentEnds, Write
  <2>2. QED
    BY <2>1
<1>8. CASE ServerRestart
  <2>1. ~Waiting' /\ result'.kind = "none"
    BY <1>8 DEF ServerRestart, NoResult, Actors
  <2>2. Service!Forget
    BY <1>8, <2>1 DEF ServerRestart, Service!Forget
  <2>3. QED
    BY <2>2 DEF Service!Next
<1>9. QED
  BY <1>1, <1>2, <1>3, <1>4, <1>5, <1>6, <1>7, <1>8 DEF Next, Caller, Listener

\* The bridge, its topics, the manager and the agent together implement the
\* safety of CommandService: what the client observes is a run of it.
THEOREM BridgeImplementsService == Spec => Service!SafetySpec
<1>1. Spec => Init /\ [][Next]_vars
  BY PTL DEF Spec, SafetySpec
<1>2. QED
  BY <1>1, ServiceInit, ServiceStep, BridgeInvariance, PTL DEF Service!SafetySpec
=============================================================================
