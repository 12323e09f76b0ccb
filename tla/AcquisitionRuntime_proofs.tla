---------------------- MODULE AcquisitionRuntime_proofs ---------------------
(***************************************************************************)
(* Safety of the acquisition agent for every set of commands, with and     *)
(* without faults, for every limit of the queue, every width of the        *)
(* counter and every number of frames, commands and crashes.               *)
(***************************************************************************)
EXTENDS AcquisitionRuntimeInv, Integers, TLAPS

USE DEF mainVars, listenerVars, controlVars, flagVars, hardwareVars, readerVars,
        queueVars, counterVars, publisherVars, ghostVars, threadVars, agentVars,
        pipelineVars, vars

(***************************************************************************)
(* Types.                                                                  *)
(***************************************************************************)
LEMMA TypeInit == Init => TypeOK
<1>1. Init => FlagTypes
  BY Zenon DEF Init, FlagTypes
<1>2. Init => PlaceTypes
  BY DEF Init, PlaceTypes, MainSteps, ListenerSteps, ControlSteps, ReaderSteps,
     PublisherSteps, LockedCommands, UnlockedCommands
<1>3. Init => DataTypes
  BY BoundsAssumption DEF Init, DataTypes, NoBatch, Batch
<1>4. QED
  BY <1>1, <1>2, <1>3 DEF TypeOK

\* The flags stay Boolean in every step.
LEMMA FlagTypesStep == FlagTypes /\ [Next]_vars => FlagTypes'
<1> SUFFICES ASSUME FlagTypes, [Next]_vars
             PROVE  FlagTypes'
  OBVIOUS
<1> USE DEF FlagTypes, Goto
<1>1. ASSUME MainStep PROVE FlagTypes'
  BY <1>1, Zenon DEF MainStep, LockRestore, LockShutdown, JoinPublisher, StopSubscriber,
     ReleaseHardware
<1>2. ASSUME ListenerStep PROVE FlagTypes'
  BY <1>2, Zenon DEF ListenerStep, LockCommand, UnlockedCommand, Answer
<1>3. ASSUME Terminate PROVE FlagTypes'
  BY <1>3, Zenon DEF Terminate
<1>4. ASSUME NEW c \in Commands, Receive(c) PROVE FlagTypes'
  BY <1>4, Zenon DEF Receive
<1>5. ASSUME StopFlag \/ StopJoin \/ DrainOne \/ DrainEnd \/ StopAdc \/ StopEnd
      PROVE  FlagTypes'
  BY <1>5, Zenon DEF StopFlag, StopJoin, DrainOne, DrainEnd, StopAdc, StopEnd, Switched
<1>6. ASSUME StartCheck \/ StartMap \/ StartClear \/ StartAdc \/ StartThread \/ StartEnd
      PROVE  FlagTypes'
  BY <1>6, Zenon DEF Switched, StartCheck, StartMap, StartClear, StartAdc, StartThread, StartEnd,
     StartThrows
<1>7. ASSUME Pause \/ Apply \/ Restore \/ Unlock PROVE FlagTypes'
  BY <1>7, Zenon DEF Pause, Apply, Restore, Unlock
<1>8. ASSUME ReaderStep PROVE FlagTypes'
  BY <1>8, Zenon DEF ReaderStep, ReaderBegin, ReaderCheck, ReaderRead, ReaderFlush,
     ReaderEnqueue, ReaderAdd
<1>9. ASSUME PublisherStep PROVE FlagTypes'
  BY <1>9, Zenon DEF PublisherStep, PublisherCheck, PublisherWait, PublisherLoad,
     PublisherAdjust, PublisherApply
<1>10. ASSUME Crash PROVE FlagTypes'
  BY <1>10, Zenon DEF Crash
<1>11. CASE UNCHANGED vars
  BY <1>11, Zenon
<1>12. QED
  BY <1>1, <1>2, <1>3, <1>4, <1>5, <1>6, <1>7, <1>8, <1>9, <1>10, <1>11
  DEF Next, ControlStep, Ended

\* Every thread stays at one of the places of its code.
LEMMA PlaceTypesStep == PlaceTypes /\ [Next]_vars => PlaceTypes'
<1> SUFFICES ASSUME PlaceTypes, [Next]_vars
             PROVE  PlaceTypes'
  OBVIOUS
<1> USE DEF PlaceTypes, Goto, MainSteps, ListenerSteps, ControlSteps, ReaderSteps,
            PublisherSteps
<1>1. ASSUME MainStep PROVE PlaceTypes'
  BY <1>1 DEF MainStep, LockRestore, LockShutdown, JoinPublisher, StopSubscriber,
     ReleaseHardware
<1>2. ASSUME ListenerStep PROVE PlaceTypes'
  BY <1>2 DEF ListenerStep, LockCommand, UnlockedCommand, Answer, FirstStep
<1>3. ASSUME Terminate PROVE PlaceTypes'
  BY <1>3 DEF Terminate
<1>4. ASSUME NEW c \in Commands, Receive(c) PROVE PlaceTypes'
  BY <1>4, CommandsAssumption DEF Receive
<1>5. ASSUME StopFlag \/ StopJoin \/ DrainOne \/ DrainEnd \/ StopAdc \/ StopEnd
      PROVE  PlaceTypes'
  BY <1>5 DEF StopFlag, StopJoin, DrainOne, DrainEnd, StopAdc, StopEnd, AfterDrain
<1>6. ASSUME StartCheck \/ StartMap \/ StartClear \/ StartAdc \/ StartThread \/ StartEnd
      PROVE  PlaceTypes'
  BY <1>6 DEF StartCheck, StartMap, StartClear, StartAdc, StartThread, StartEnd, StartThrows
<1>7. ASSUME Pause \/ Apply \/ Restore \/ Unlock PROVE PlaceTypes'
  BY <1>7 DEF Pause, Apply, Restore, Unlock
<1>8. ASSUME ReaderStep PROVE PlaceTypes'
  BY <1>8 DEF ReaderStep, ReaderBegin, ReaderCheck, ReaderRead, ReaderFlush, ReaderEnqueue,
     ReaderAdd, AfterFlush
<1>9. ASSUME PublisherStep PROVE PlaceTypes'
  BY <1>9 DEF PublisherStep, PublisherCheck, PublisherWait, PublisherLoad,
     PublisherAdjust, PublisherApply
<1>10. ASSUME Crash PROVE PlaceTypes'
  BY <1>10 DEF Crash, LockedCommands, UnlockedCommands
<1>11. CASE UNCHANGED vars
  BY <1>11
<1>12. QED
  BY <1>1, <1>2, <1>3, <1>4, <1>5, <1>6, <1>7, <1>8, <1>9, <1>10, <1>11
  DEF Next, ControlStep, Ended

\* The modular counter of the model is the UInt64 of the code.
LEMMA CounterStaysInWidth ==
  /\ 0 \in 0 .. CounterModulus - 1
  /\ \A n \in Int : n % CounterModulus \in 0 .. CounterModulus - 1
BY BoundsAssumption

\* Numbers stay natural and batches stay batches: the local batch of the reader
\* is only queued when it holds frames (flushBatch).
LEMMA DataTypesStep == DataTypes /\ OrderInv /\ PlaceTypes /\ [Next]_vars => DataTypes'
<1> SUFFICES ASSUME DataTypes, OrderInv, PlaceTypes, [Next]_vars
             PROVE  DataTypes'
  OBVIOUS
<1> USE DEF DataTypes, Goto
<1>1. ASSUME MainStep \/ Terminate PROVE DataTypes'
  BY <1>1 DEF MainStep, LockRestore, LockShutdown, JoinPublisher, StopSubscriber,
     ReleaseHardware, Terminate
<1>2. ASSUME ListenerStep PROVE DataTypes'
  BY <1>2 DEF ListenerStep, LockCommand, UnlockedCommand, Answer
<1>3. ASSUME NEW c \in Commands, Receive(c) PROVE DataTypes'
  BY <1>3 DEF Receive
<1>4. ASSUME StopFlag \/ StopJoin \/ DrainEnd \/ StopAdc \/ StopEnd
      PROVE  DataTypes'
  BY <1>4, CounterStaysInWidth DEF StopFlag, StopJoin, DrainEnd, StopAdc, StopEnd
<1>5. ASSUME DrainOne PROVE DataTypes'
  BY <1>5 DEF DrainOne
<1>6. ASSUME StartCheck \/ StartMap \/ StartClear \/ StartAdc \/ StartThread \/ StartEnd
      PROVE  DataTypes'
  <2>1. CASE StartClear
    BY <2>1, CounterStaysInWidth DEF StartClear
  <2>2. CASE StartCheck \/ StartMap \/ StartAdc \/ StartThread \/ StartEnd
    BY <2>2 DEF StartCheck, StartMap, StartAdc, StartThread, StartEnd, StartThrows
  <2>3. QED
    BY <1>6, <2>1, <2>2
<1>7. ASSUME Pause \/ Apply \/ Restore \/ Unlock PROVE DataTypes'
  BY <1>7 DEF Pause, Apply, Restore, Unlock
<1>8. ASSUME ReaderStep PROVE DataTypes'
  <2>1. CASE ReaderBegin
    <3>1. StartingPoints \subseteq Nat
      BY DEF StartingPoints, Batch, LastOf
    <3>2. QED
      BY <2>1, <3>1, 0 \in Nat DEF ReaderBegin
  <2>2. CASE ReaderCheck
    BY <2>2 DEF ReaderCheck
  <2>3. CASE ReaderRead
    <3>1. /\ sequence' \in {sequence, sequence + 1}
          /\ batchSize' \in {batchSize, batchSize + 1}
          /\ framesRead' \in {framesRead, framesRead + 1}
      BY <2>3, Zenon DEF ReaderRead
    <3>2. QED
      BY <2>3, <3>1 DEF ReaderRead
  <2>4. CASE ReaderFlush
    <3>1. /\ batchSize' \in {batchSize, 0}
          /\ droppedFrames' \in {droppedFrames, droppedFrames + batchSize}
      BY <2>4, Zenon DEF ReaderFlush
    <3>2. QED
      BY <2>4, <3>1 DEF ReaderFlush
  <2>5. CASE ReaderEnqueue
    <3>1. LocalBatch \in Batch
      BY <2>5 DEF ReaderEnqueue, LocalBatch, Batch, OrderInv, CaptureInv, Capturing
    <3>2. queue' \in Seq(Batch)
      BY <2>5, <3>1 DEF ReaderEnqueue
    <3>3. QED
      BY <2>5, <3>2 DEF ReaderEnqueue
  <2>6. CASE ReaderAdd
    <3>1. queueDepth + batchSize \in Nat
      OBVIOUS
    <3>2. QED
      BY <2>6, <3>1, CounterStaysInWidth DEF ReaderAdd
  <2>7. QED
    BY <1>8, <2>1, <2>2, <2>3, <2>4, <2>5, <2>6 DEF ReaderStep
<1>9. ASSUME PublisherStep PROVE DataTypes'
  <2>1. CASE PublisherCheck \/ PublisherLoad
    BY <2>1 DEF PublisherCheck, PublisherLoad
  <2>2. CASE PublisherWait
    <3>1. queue # <<>> => Head(queue) \in Batch /\ Tail(queue) \in Seq(Batch)
      OBVIOUS
    <3>2. hand' \in Batch /\ queue' \in Seq(Batch)
      BY <2>2, <3>1 DEF PublisherWait
    <3>3. QED
      BY <2>2, <3>2 DEF PublisherWait
  <2>3. CASE PublisherAdjust
    <3>1. queueDepth + CounterModulus - hand.size \in Int
      BY BoundsAssumption DEF Batch
    <3>2. queueDepth' \in 0 .. CounterModulus - 1
      BY <2>3, <3>1, CounterStaysInWidth, Zenon DEF PublisherAdjust
    <3>3. QED
      BY <2>3, <3>2 DEF PublisherAdjust
  <2>4. CASE PublisherApply
    <3>1. LastOf(hand) \in Nat /\ hand.size \in Nat /\ hand.session \in Nat
      BY DEF Batch, LastOf
    <3>2. appliedFrames' \in Nat /\ shown' \in [session: Nat, frame: Nat]
      BY <2>4, <3>1 DEF PublisherApply
    <3>3. totalFrames' \in Nat
      BY <2>4, <3>1 DEF PublisherApply
    <3>4. QED
      BY <2>4, <3>2, <3>3 DEF PublisherApply
  <2>5. QED
    BY <1>9, <2>1, <2>2, <2>3, <2>4 DEF PublisherStep
<1>10. ASSUME Crash PROVE DataTypes'
  BY <1>10, CounterStaysInWidth DEF Crash, NoBatch, Batch
<1>11. CASE UNCHANGED vars
  BY <1>11
<1>12. QED
  BY <1>1, <1>2, <1>3, <1>4, <1>5, <1>6, <1>7, <1>8, <1>9, <1>10, <1>11
  DEF Next, ControlStep, Ended

(***************************************************************************)
(* What a step leaves alone.                                               *)
(***************************************************************************)
LEMMA ReaderFrame ==
  ReaderStep => /\ UNCHANGED <<agentVars, publisherPc, hand, session, shown>>
                /\ readerPc # "dead"
                /\ queue' = queue \/ readerPc = "enqueue"
BY DEF ReaderStep, ReaderBegin, ReaderCheck, ReaderRead, ReaderFlush, ReaderEnqueue,
   ReaderAdd

\* The publisher changes nothing of the agent's control state and only takes from the queue.
LEMMA PublisherFrame ==
  PublisherStep => /\ UNCHANGED <<agentVars, readerVars, session>>
                   /\ queue' = queue \/ (queue # <<>> /\ queue' = Tail(queue))
BY Zenon DEF PublisherStep, PublisherCheck, PublisherWait, PublisherLoad, PublisherAdjust,
   PublisherApply

(***************************************************************************)
(* Who holds the mutex.                                                    *)
(***************************************************************************)

\* Whoever is inside a control procedure holds _controlMutex, and nobody else.
LEMMA HolderStep == PlaceTypes /\ HolderInv /\ [Next]_vars => HolderInv'
<1> SUFFICES ASSUME PlaceTypes, HolderInv, [Next]_vars
             PROVE  HolderInv'
  OBVIOUS
<1> USE DEF HolderInv, PlaceTypes, Goto, StopSteps, StartSteps, Stopped
<1>1. ASSUME MainStep PROVE HolderInv'
  BY <1>1 DEF MainStep, LockRestore, LockShutdown, JoinPublisher, StopSubscriber,
     ReleaseHardware
<1>2. ASSUME ListenerStep PROVE HolderInv'
  BY <1>2 DEF ListenerStep, LockCommand, UnlockedCommand, Answer, FirstStep, LockedCommands,
     UnlockedCommands
<1>3. ASSUME Terminate PROVE HolderInv'
  BY <1>3 DEF Terminate
<1>4. ASSUME NEW c \in Commands, Receive(c) PROVE HolderInv'
  BY <1>4 DEF Receive, SubscriberOpen
<1>5. ASSUME StopFlag \/ StopJoin \/ DrainOne \/ StopAdc
      PROVE  HolderInv'
  <2>1. UNCHANGED <<threadVars, lockHolder>>
    BY <1>5, Zenon DEF StopFlag, StopJoin, DrainOne, StopAdc
  <2>2. \/ step \in StopSteps /\ step' \in StopSteps
        \/ step \in StartSteps /\ step' \in StartSteps \ {"startCheck"}
    BY <1>5 DEF StopFlag, StopJoin, DrainOne, StopAdc
  <2>3. QED
    BY <2>1, <2>2
<1>6. ASSUME DrainEnd PROVE HolderInv'
  BY <1>6 DEF DrainEnd, AfterDrain
<1>7. ASSUME StopEnd PROVE HolderInv'
  BY <1>7 DEF StopEnd
<1>8. ASSUME StartCheck \/ StartMap \/ StartClear \/ StartAdc \/ StartThread \/ StartEnd
      PROVE  HolderInv'
  <2>1. UNCHANGED <<threadVars, lockHolder>>
    BY <1>8 DEF StartCheck, StartMap, StartClear, StartAdc, StartThread, StartEnd, StartThrows
  <2>2. step \in StartSteps /\ step' \in (StartSteps \ {"startCheck"}) \cup {"unlock"}
    BY <1>8 DEF StartCheck, StartMap, StartClear, StartAdc, StartThread, StartEnd, StartThrows
  <2>3. QED
    BY <2>1, <2>2
<1>9. ASSUME Pause \/ Apply \/ Restore PROVE HolderInv'
  <2>1. CASE Pause
    BY <2>1 DEF Pause
  <2>2. CASE Apply
    <3>1. step = "apply" /\ step' \in {"startCheck", "unlock"}
      BY <2>2 DEF Apply
    <3>2. UNCHANGED <<mainVars, listenerVars, lockHolder>>
      BY <2>2 DEF Apply
    <3>3. QED
      BY <3>1, <3>2
  <2>3. CASE Restore
    <3>1. step = "restore" /\ step' \in {"startCheck", "unlock"}
      BY <2>3 DEF Restore
    <3>2. UNCHANGED <<threadVars, lockHolder>>
      BY <2>3 DEF Restore
    <3>3. QED
      BY <3>1, <3>2
  <2>4. QED
    BY <1>9, <2>1, <2>2, <2>3
<1>10. ASSUME Unlock PROVE HolderInv'
  <2>1. CASE lockHolder = "listener"
    BY <1>10, <2>1 DEF Unlock
  <2>2. CASE lockHolder = "main"
    BY <1>10, <2>2 DEF Unlock
  <2>3. QED
    BY <1>10, <2>1, <2>2 DEF Unlock
<1>11. ASSUME ReaderStep PROVE HolderInv'
  BY <1>11, ReaderFrame
<1>12. ASSUME PublisherStep PROVE HolderInv'
  BY <1>12, PublisherFrame
<1>13. ASSUME Crash PROVE HolderInv'
  BY <1>13 DEF Crash, LockedCommands, UnlockedCommands
<1>14. CASE UNCHANGED vars
  BY <1>14
<1>15. QED
  BY <1>1, <1>2, <1>3, <1>4, <1>5, <1>6, <1>7, <1>8, <1>9, <1>10, <1>11, <1>12, <1>13, <1>14
  DEF Next, ControlStep, Ended

(***************************************************************************)
(* The flags at each place of the control procedures.                      *)
(***************************************************************************)
LEMMA FlagsStep == TypeOK /\ HolderInv /\ FlagsInv /\ TypeOK' /\ HolderInv' /\ [Next]_vars => FlagsInv'
<1> SUFFICES ASSUME TypeOK, HolderInv, FlagsInv, TypeOK', HolderInv', [Next]_vars
             PROVE  FlagsInv'
  OBVIOUS
<1>0. FlagTypes /\ FlagTypes' /\ PlaceTypes /\ PlaceTypes' /\ queue \in Seq(Batch)
  BY DEF TypeOK, DataTypes
<1> USE <1>0 DEF FlagTypes, PlaceTypes
<1> USE DEF FlagsInv, Settled, NoReader, Goto, HolderInv, StopSteps, StartSteps, Stopped
<1>1. ASSUME MainStep PROVE FlagsInv'
  BY <1>1 DEF MainStep, LockRestore, LockShutdown, JoinPublisher, StopSubscriber,
     ReleaseHardware
<1>2. ASSUME ListenerStep PROVE FlagsInv'
  BY <1>2 DEF ListenerStep, LockCommand, UnlockedCommand, Answer, FirstStep
<1>3. ASSUME Terminate PROVE FlagsInv'
  BY <1>3 DEF Terminate
<1>4. ASSUME NEW c \in Commands, Receive(c) PROVE FlagsInv'
  BY <1>4 DEF Receive, SubscriberOpen
<1>5. ASSUME StopFlag \/ StopJoin \/ DrainOne \/ StopAdc
      PROVE  FlagsInv'
  BY <1>5 DEF StopFlag, StopJoin, DrainOne, StopAdc, Switched
<1>6. ASSUME DrainEnd PROVE FlagsInv'
  BY <1>6 DEF DrainEnd, AfterDrain
<1>7. ASSUME StopEnd PROVE FlagsInv'
  BY <1>7 DEF StopEnd
<1>8. ASSUME StartCheck \/ StartMap \/ StartClear \/ StartAdc \/ StartThread \/ StartEnd
      PROVE  FlagsInv'
  BY <1>8 DEF Switched, StartCheck, StartMap, StartClear, StartAdc, StartThread, StartEnd, StartThrows
<1>9. ASSUME Pause \/ Apply \/ Restore PROVE FlagsInv'
  BY <1>9 DEF Pause, Apply, Restore
<1>10. ASSUME Unlock PROVE FlagsInv'
  BY <1>10 DEF Unlock
<1>11. ASSUME ReaderStep PROVE FlagsInv'
  BY <1>11, ReaderFrame
<1>12. ASSUME PublisherStep PROVE FlagsInv'
  BY <1>12, PublisherFrame
<1>13. ASSUME Crash PROVE FlagsInv'
  BY <1>13 DEF Crash
<1>14. CASE UNCHANGED vars
  BY <1>14
<1>15. QED
  BY <1>1, <1>2, <1>3, <1>4, <1>5, <1>6, <1>7, <1>8, <1>9, <1>10, <1>11, <1>12, <1>13, <1>14
  DEF Next, ControlStep, Ended

(***************************************************************************)
(* The reader and the registers.                                           *)
(***************************************************************************)
LEMMA ReadStep == TypeOK /\ HolderInv /\ FlagsInv /\ ReadInv /\ TypeOK' /\ HolderInv' /\ [Next]_vars => ReadInv'
<1> SUFFICES ASSUME TypeOK, HolderInv, FlagsInv, ReadInv, TypeOK', HolderInv', [Next]_vars
             PROVE  ReadInv'
  OBVIOUS
<1>0. FlagTypes /\ FlagTypes' /\ PlaceTypes
  BY DEF TypeOK
<1> USE <1>0 DEF FlagTypes, PlaceTypes
<1> USE DEF ReadInv, HolderInv, Goto, StopSteps, StartSteps, Stopped
<1>1. ASSUME MainStep PROVE ReadInv'
  BY <1>1 DEF MainStep, LockRestore, LockShutdown, JoinPublisher, StopSubscriber,
     ReleaseHardware
<1>2. ASSUME ListenerStep PROVE ReadInv'
  BY <1>2 DEF ListenerStep, LockCommand, UnlockedCommand, Answer, FirstStep
<1>3. ASSUME Terminate PROVE ReadInv'
  BY <1>3 DEF Terminate
<1>4. ASSUME NEW c \in Commands, Receive(c) PROVE ReadInv'
  BY <1>4 DEF Receive, SubscriberOpen
<1>5. ASSUME StopFlag \/ StopJoin \/ DrainOne \/ StopAdc
      PROVE  ReadInv'
  BY <1>5 DEF StopFlag, StopJoin, DrainOne, StopAdc
<1>6. ASSUME DrainEnd PROVE ReadInv'
  BY <1>6 DEF DrainEnd, AfterDrain
<1>7. ASSUME StopEnd PROVE ReadInv'
  BY <1>7 DEF StopEnd
<1>8. ASSUME StartCheck \/ StartMap \/ StartClear \/ StartAdc \/ StartThread \/ StartEnd
      PROVE  ReadInv'
  BY <1>8 DEF FlagsInv, StartCheck, StartMap, StartClear, StartAdc, StartThread, StartEnd, StartThrows
<1>9. ASSUME Pause \/ Apply \/ Restore PROVE ReadInv'
  BY <1>9 DEF Pause, Apply, Restore
<1>10. ASSUME Unlock PROVE ReadInv'
  BY <1>10 DEF FlagsInv, Settled, Unlock
<1>11. ASSUME ReaderStep PROVE ReadInv'
  BY <1>11 DEF ReaderStep, ReaderBegin, ReaderCheck, ReaderRead, ReaderFlush, ReaderEnqueue,
     ReaderAdd, AfterFlush
<1>12. ASSUME PublisherStep PROVE ReadInv'
  BY <1>12, PublisherFrame
<1>13. ASSUME Crash PROVE ReadInv'
  BY <1>13 DEF Crash
<1>14. CASE UNCHANGED vars
  BY <1>14
<1>15. QED
  BY <1>1, <1>2, <1>3, <1>4, <1>5, <1>6, <1>7, <1>8, <1>9, <1>10, <1>11, <1>12, <1>13, <1>14
  DEF Next, ControlStep, Ended

(***************************************************************************)
(* How far the frames have got.  Only these variables say so:              *)
(***************************************************************************)
orderVars == <<readerPc, sequence, batchSize, queue, publisherPc, hand, session, shown>>

\* The steps of the control procedures that touch no frame.
LEMMA OtherFrame ==
  ASSUME MainStep \/ Terminate \/ ListenerStep \/ (\E c \in Commands : Receive(c))
         \/ StopFlag \/ StopJoin \/ DrainEnd \/ StopAdc \/ StopEnd
         \/ StartCheck \/ StartMap \/ StartAdc \/ StartEnd \/ Pause \/ Apply \/ Restore
         \/ Unlock \/ UNCHANGED vars
  PROVE  UNCHANGED orderVars
BY Zenon DEF orderVars, MainStep, LockRestore, LockShutdown, JoinPublisher, StopSubscriber,
   ReleaseHardware, Terminate, ListenerStep, LockCommand, UnlockedCommand, Answer, Receive,
   StopFlag, StopJoin, DrainEnd, StopAdc, StopEnd, StartCheck, StartMap, StartAdc, StartEnd,
   Pause, Apply, Restore, Unlock

\* A step that leaves the frames alone leaves them in order.
LEMMA OrderFrame == OrderInv /\ UNCHANGED orderVars => OrderInv'
BY DEF orderVars, OrderInv, CaptureInv, QueueInv, HandInv, Capturing, NextToQueue, Busy,
   Captured, After, Follows, InOrder, LastOf

\* The fields of a batch are numbers.
LEMMA BatchFields ==
  \A b \in Batch : /\ b.session \in Nat /\ b.first \in Nat /\ b.size \in Nat
                   /\ b.first <= LastOf(b) /\ LastOf(b) \in Nat
BY DEF Batch, LastOf

\* What is left of the queue when its first batch is taken.
LEMMA TailOfQueue ==
  ASSUME queue \in Seq(Batch), queue # <<>>
  PROVE  /\ Tail(queue) \in Seq(Batch) /\ Len(Tail(queue)) = Len(queue) - 1
         /\ \A i \in 1 .. Len(Tail(queue)) :
              i + 1 \in 1 .. Len(queue) /\ Tail(queue)[i] = queue[i + 1]
         /\ 1 \in 1 .. Len(queue) /\ Head(queue) = queue[1]
OBVIOUS

\* The batches in a queue are batches of frames.
LEMMA ElementsOfQueue ==
  ASSUME queue \in Seq(Batch)
  PROVE  \A i \in 1 .. Len(queue) : queue[i] \in Batch
OBVIOUS

\* What holds of the batches in a queue holds when the first one is taken.
LEMMA QueueInvOfTail ==
  ASSUME queue \in Seq(Batch), queue # <<>>, queue' = Tail(queue), QueueInv,
         UNCHANGED <<readerPc, sequence, batchSize, session, shown>>
  PROVE  QueueInv'
<1>0. \A i \in 1 .. Len(queue') : i + 1 \in 1 .. Len(queue) /\ queue'[i] = queue[i + 1]
  BY TailOfQueue
<1>1. ASSUME NEW i \in 1 .. Len(queue')
      PROVE  /\ Captured(queue[i])' /\ After(queue[i], shown)'
             /\ (readerPc # "dead" => queue[i].session = session)'
  <2>1. /\ Captured(queue[i + 1]) /\ After(queue[i + 1], shown)
        /\ (readerPc # "dead" => queue[i + 1].session = session)
    BY <1>0 DEF QueueInv
  <2>2. QED
    BY <1>0, <2>1 DEF Captured, After, Capturing, NextToQueue
<1>2. ASSUME NEW i \in 1 .. Len(queue'), NEW j \in 1 .. Len(queue'), i < j
      PROVE  InOrder(queue[i], queue[j])'
  <2>1. i + 1 < j + 1
    BY <1>2
  <2>2. InOrder(queue[i + 1], queue[j + 1])
    BY <1>0, <2>1 DEF QueueInv
  <2>3. QED
    BY <1>0, <2>2 DEF InOrder
<1>3. QED
  BY <1>1, <1>2 DEF QueueInv

\* Reader, queue and publisher keep the frames in the order of their capture.
LEMMA OrderStep ==
  TypeOK /\ FlagsInv /\ OrderInv /\ FreshInv /\ TypeOK' /\ [Next]_vars => OrderInv'
<1> SUFFICES ASSUME TypeOK, FlagsInv, OrderInv, FreshInv, TypeOK', [Next]_vars
             PROVE  OrderInv'
  OBVIOUS
<1>0. /\ sequence \in Nat /\ batchSize \in Nat /\ session \in Nat /\ totalFrames \in Nat
      /\ queue \in Seq(Batch) /\ queue' \in Seq(Batch) /\ hand \in Batch /\ hand' \in Batch
      /\ shown.session \in Nat /\ shown.frame \in Nat
      /\ \A i \in 1 .. Len(queue) : queue[i] \in Batch
  BY ElementsOfQueue DEF TypeOK, DataTypes
<1>1. ASSUME DrainOne PROVE OrderInv'
  <2>1. UNCHANGED <<readerPc, sequence, batchSize, publisherPc, hand, session, shown>>
    BY <1>1 DEF DrainOne
  <2>2. queue # <<>> /\ queue' = Tail(queue)
    BY <1>1 DEF DrainOne
  <2>3. CaptureInv'
    BY <2>1 DEF OrderInv, CaptureInv, Capturing, NextToQueue
  <2>4. QueueInv'
    BY <1>0, <2>1, <2>2, QueueInvOfTail DEF OrderInv
  <2>5. HandInv'
    BY <1>0, <2>1, <2>2, TailOfQueue
    DEF OrderInv, HandInv, Captured, After, Follows, InOrder, LastOf, Capturing,
        NextToQueue, Busy
  <2>6. QED
    BY <2>3, <2>4, <2>5 DEF OrderInv
<1>2. ASSUME StartClear PROVE OrderInv'
  <2>1. UNCHANGED <<readerPc, publisherPc, hand, shown>> /\ session' = session + 1
        /\ readerPc = "dead" /\ queue' = <<>>
    BY <1>2 DEF StartClear, Goto, FlagsInv, NoReader
  <2>2. CaptureInv' /\ QueueInv'
    BY <1>0, <2>1 DEF OrderInv, CaptureInv, QueueInv, Capturing
  <2>3. HandInv'
    BY <1>0, <2>1, BatchFields DEF OrderInv, HandInv, Captured, After, Busy, LastOf
  <2>4. QED
    BY <2>2, <2>3 DEF OrderInv
<1>3. ASSUME StartThread PROVE OrderInv'
  <2>1. UNCHANGED <<publisherPc, hand, session, shown>>
        /\ ~Capturing' /\ ~Capturing /\ queue' = <<>> /\ readerPc' \notin {"enqueue", "add"}
    BY <1>3 DEF StartThread, StartThrows, Goto, FlagsInv, Capturing
  <2>2. CaptureInv' /\ QueueInv'
    BY <2>1 DEF OrderInv, CaptureInv, QueueInv
  <2>3. HandInv'
    BY <2>1 DEF OrderInv, HandInv, Captured, After, Busy, LastOf
  <2>4. QED
    BY <2>2, <2>3 DEF OrderInv
<1>4. ASSUME ReaderStep PROVE OrderInv'
  <2>0. UNCHANGED <<publisherPc, hand, session, shown>>
    BY <1>4, ReaderFrame
  <2>1. CASE ReaderBegin
    <3>1. queue' = <<>> /\ shown.session < session /\ (Busy => hand.session < session)
          /\ readerPc' = "check" /\ sequence' \in Nat /\ batchSize' = 0
      BY <2>1 DEF ReaderBegin, FreshInv, Fresh, TypeOK, DataTypes
    <3>2. QED
      BY <1>0, <2>0, <3>1, BatchFields
      DEF OrderInv, CaptureInv, QueueInv, HandInv, Captured, After, Busy, LastOf, Capturing,
          NextToQueue
  <2>2. CASE ReaderCheck \/ ReaderRead \/ ReaderFlush \/ ReaderAdd
    <3>1. queue' = queue /\ Capturing
      BY <2>2 DEF ReaderCheck, ReaderRead, ReaderFlush, ReaderAdd, Capturing
    <3>2. Capturing' => NextToQueue' >= NextToQueue
      BY <1>0, <2>2
      DEF ReaderCheck, ReaderRead, ReaderFlush, ReaderAdd, NextToQueue, Capturing, AfterFlush
    <3>3. (Capturing' => batchSize' <= sequence') /\ NextToQueue \in Int
          /\ (Capturing' => NextToQueue' \in Int)
      BY <1>0, <2>2
      DEF ReaderCheck, ReaderRead, ReaderFlush, ReaderAdd, OrderInv, CaptureInv, Capturing,
          NextToQueue, AfterFlush
    <3>4. readerPc' \in {"enqueue", "add"} => batchSize' > 0
      BY <1>0, <2>2 DEF ReaderCheck, ReaderRead, ReaderFlush, ReaderAdd, AfterFlush
    <3>5. CaptureInv'
      BY <1>0, <2>0, <3>1, <3>2, <3>3, <3>4 DEF OrderInv, CaptureInv
    <3>6. readerPc # "dead"
      BY <3>1 DEF Capturing
    <3>7. QueueInv'
      BY <1>0, <2>0, <3>1, <3>2, <3>3, <3>6, BatchFields
      DEF OrderInv, QueueInv, Captured, After, InOrder, LastOf
    <3>8. HandInv'
      BY <1>0, <2>0, <3>1, <3>2, <3>3, BatchFields
      DEF OrderInv, HandInv, Captured, After, Follows, InOrder, LastOf, Busy
    <3>9. QED
      BY <3>5, <3>7, <3>8 DEF OrderInv
  <2>3. CASE ReaderEnqueue
    <3>0. /\ readerPc = "enqueue" /\ readerPc' = "add" /\ queue' = Append(queue, LocalBatch)
          /\ UNCHANGED <<sequence, batchSize>>
      BY <2>3 DEF ReaderEnqueue
    <3>1. /\ Capturing /\ Capturing' /\ batchSize > 0 /\ batchSize <= sequence
          /\ NextToQueue = sequence - batchSize /\ NextToQueue' = sequence
      BY <1>0, <3>0 DEF OrderInv, CaptureInv, Capturing, NextToQueue
    <3>2. /\ LocalBatch \in Batch /\ LocalBatch.session = session
          /\ LocalBatch.first = NextToQueue /\ LastOf(LocalBatch) = sequence - 1
      BY <1>0, <3>1 DEF LocalBatch, Batch, LastOf
    <3>3. /\ Len(queue') = Len(queue) + 1 /\ queue'[Len(queue) + 1] = LocalBatch
          /\ \A i \in 1 .. Len(queue) : queue'[i] = queue[i]
          /\ Len(queue) \in Nat
      BY <1>0, <3>0, <3>2
    <3>4. CaptureInv'
      BY <1>0, <2>0, <3>0, <3>1 DEF OrderInv, CaptureInv
    <3>5. QueueInv'
      <4>1. ASSUME NEW i \in 1 .. Len(queue')
            PROVE  /\ Captured(queue[i])' /\ After(queue[i], shown)'
                   /\ (queue[i].session = session)'
        BY <1>0, <2>0, <3>0, <3>1, <3>2, <3>3, BatchFields
        DEF OrderInv, CaptureInv, QueueInv, Captured, After, LastOf
      <4>2. ASSUME NEW i \in 1 .. Len(queue'), NEW j \in 1 .. Len(queue'), i < j
            PROVE  InOrder(queue[i], queue[j])'
        <5>1. CASE j \in 1 .. Len(queue)
          <6>1. i \in 1 .. Len(queue)
            BY <3>3, <4>2, <5>1
          <6>2. InOrder(queue[i], queue[j])
            BY <4>2, <5>1, <6>1 DEF OrderInv, QueueInv
          <6>3. QED
            BY <3>3, <5>1, <6>1, <6>2 DEF InOrder
        <5>2. CASE j = Len(queue) + 1
          <6>1. i \in 1 .. Len(queue)
            BY <3>3, <4>2, <5>2
          <6>2. queue[i].session = session /\ LastOf(queue[i]) < NextToQueue
            BY <1>0, <3>0, <3>1, <6>1 DEF OrderInv, QueueInv, Captured
          <6>3. QED
            BY <3>2, <3>3, <5>2, <6>1, <6>2 DEF InOrder
        <5>3. QED
          BY <3>3, <5>1, <5>2
      <4>3. QED
        BY <2>0, <4>1, <4>2 DEF QueueInv
    <3>6. HandInv'
      <4>1. SUFFICES ASSUME Busy
                     PROVE  /\ Captured(hand)' /\ After(hand, shown)
                            /\ \A i \in 1 .. Len(queue') : Follows(queue'[i], hand)
        BY <2>0 DEF HandInv, Busy, After, Follows, InOrder
      <4>2. Captured(hand) /\ After(hand, shown)
            /\ \A i \in 1 .. Len(queue) : Follows(queue[i], hand)
        BY <4>1 DEF OrderInv, HandInv
      <4>3. Captured(hand)' /\ Follows(LocalBatch, hand)
        BY <1>0, <2>0, <3>0, <3>1, <3>2, <4>2, BatchFields
        DEF Captured, Follows, InOrder, LastOf
      <4>4. ASSUME NEW i \in 1 .. Len(queue') PROVE Follows(queue'[i], hand)
        BY <3>3, <4>2, <4>3
      <4>5. QED
        BY <4>2, <4>3, <4>4
    <3>7. QED
      BY <3>4, <3>5, <3>6 DEF OrderInv
  <2>4. QED
    BY <1>4, <2>1, <2>2, <2>3 DEF ReaderStep
<1>5. ASSUME PublisherStep PROVE OrderInv'
  <2>0. UNCHANGED <<readerPc, sequence, batchSize, session>>
    BY <1>5, PublisherFrame
  <2>1. CASE PublisherCheck \/ PublisherLoad \/ PublisherAdjust
    <3>1. UNCHANGED <<queue, hand, shown>> /\ (Busy' => Busy)
      BY <2>1 DEF PublisherCheck, PublisherLoad, PublisherAdjust, Busy
    <3>2. QED
      BY <2>0, <3>1
      DEF OrderInv, CaptureInv, QueueInv, HandInv, Captured, After, Follows, InOrder, LastOf,
          Capturing, NextToQueue
  <2>2. CASE PublisherWait
    <3>1. CASE queue = <<>>
      <4>1. UNCHANGED <<queue, hand, shown>> /\ ~Busy'
        BY <2>2, <3>1 DEF PublisherWait, Busy
      <4>2. QED
        BY <2>0, <4>1
        DEF OrderInv, CaptureInv, QueueInv, HandInv, Captured, After, InOrder, LastOf,
            Capturing, NextToQueue
    <3>2. CASE queue # <<>>
      <4>1. hand' = queue[1] /\ queue' = Tail(queue) /\ shown' = shown
        BY <1>0, <2>2, <3>2, TailOfQueue DEF PublisherWait
      <4>2. CaptureInv'
        BY <2>0, <4>1 DEF OrderInv, CaptureInv, Capturing, NextToQueue
      <4>3. QueueInv'
        BY <1>0, <2>0, <3>2, <4>1, QueueInvOfTail DEF OrderInv
      <4>4. HandInv'
        <5>1. /\ Captured(queue[1]) /\ After(queue[1], shown)
              /\ \A i \in 1 .. Len(queue) : 1 < i => InOrder(queue[1], queue[i])
          BY <1>0, <3>2, TailOfQueue DEF OrderInv, QueueInv
        <5>2. Captured(hand)' /\ After(hand, shown)'
          BY <2>0, <4>1, <5>1 DEF Captured, After, Capturing, NextToQueue
        <5>3. ASSUME NEW i \in 1 .. Len(queue') PROVE Follows(queue[i], hand)'
          <6>1. i + 1 \in 1 .. Len(queue) /\ queue'[i] = queue[i + 1]
            BY <1>0, <3>2, <4>1, TailOfQueue
          <6>2. i \in Nat \ {0}
            BY <1>0
          <6>3. InOrder(queue[1], queue[i + 1])
            BY <5>1, <6>1, <6>2
          <6>4. QED
            BY <4>1, <6>1, <6>3 DEF Follows, InOrder
        <5>4. QED
          BY <5>2, <5>3 DEF HandInv
      <4>5. QED
        BY <4>2, <4>3, <4>4 DEF OrderInv
    <3>3. QED
      BY <3>1, <3>2
  <2>3. CASE PublisherApply
    <3>1. /\ Busy /\ ~Busy' /\ UNCHANGED queue
          /\ shown'.session = hand.session /\ shown'.frame = LastOf(hand)
      BY <2>3 DEF PublisherApply, Busy
    <3>2. CaptureInv'
      BY <1>0, <2>0, <3>1, BatchFields
      DEF OrderInv, CaptureInv, HandInv, Captured, Capturing, NextToQueue
    <3>3. QueueInv'
      BY <1>0, <2>0, <3>1, BatchFields
      DEF OrderInv, QueueInv, HandInv, Captured, After, Follows, InOrder, LastOf, Capturing,
          NextToQueue
    <3>4. QED
      BY <3>1, <3>2, <3>3 DEF OrderInv, HandInv
  <2>4. QED
    BY <1>5, <2>1, <2>2, <2>3 DEF PublisherStep
<1>6. ASSUME Crash PROVE OrderInv'
  <2>1. /\ readerPc' = "dead" /\ queue' = <<>> /\ publisherPc' = "check"
        /\ session' = session + 1 /\ shown' = shown
    BY <1>6 DEF Crash
  <2>2. QED
    BY <1>0, <2>1 DEF OrderInv, CaptureInv, QueueInv, HandInv, Capturing, Busy
<1>7. QED
  BY <1>1, <1>2, <1>3, <1>4, <1>5, <1>6, OtherFrame, OrderFrame
  DEF Next, ControlStep, Ended

(***************************************************************************)
(* A session begins with nothing left of the one before.                   *)
(***************************************************************************)

\* A new acquisition begins with an empty queue, and what is in hand or shown is older.
LEMMA FreshStep ==
  TypeOK /\ FlagsInv /\ OrderInv /\ FreshInv /\ TypeOK' /\ [Next]_vars => FreshInv'
<1> SUFFICES ASSUME TypeOK, FlagsInv, OrderInv, FreshInv, TypeOK', [Next]_vars
             PROVE  FreshInv'
  OBVIOUS
<1>0. session \in Nat /\ shown.session \in Nat /\ hand.session \in Nat /\ queue \in Seq(Batch)
  BY BatchFields DEF TypeOK, DataTypes
<1> USE DEF Fresh
<1>1. ASSUME MainStep \/ Terminate \/ ListenerStep \/ (\E c \in Commands : Receive(c))
             \/ UNCHANGED vars
      PROVE  FreshInv'
  <2>1. UNCHANGED orderVars
    BY <1>1, OtherFrame
  <2>2. Fresh' => Fresh
    BY <1>1, <2>1
    DEF orderVars, MainStep, LockRestore, LockShutdown, JoinPublisher, StopSubscriber,
        ReleaseHardware, Terminate, ListenerStep, LockCommand, UnlockedCommand, Answer,
        Receive, FirstStep
  <2>3. QED
    BY <2>1, <2>2 DEF FreshInv, orderVars, Busy
<1>2. ASSUME \/ StopFlag \/ StopJoin \/ StopAdc \/ StopEnd \/ DrainEnd \/ StartCheck \/ StartMap
             \/ StartAdc \/ StartEnd \/ Pause \/ Apply \/ Restore \/ Unlock
      PROVE  FreshInv'
  <2>1. UNCHANGED orderVars
    BY <1>2, OtherFrame
  <2>2. Fresh' => Fresh
    BY <1>2, <2>1
    DEF orderVars, Goto, StopFlag, StopJoin, StopAdc, StopEnd, DrainEnd, AfterDrain,
        StartCheck, StartMap, StartThrows, StartAdc, StartEnd, Pause, Apply, Restore, Unlock
  <2>3. QED
    BY <2>1, <2>2 DEF FreshInv, orderVars, Busy
<1>3. ASSUME DrainOne PROVE FreshInv'
  BY <1>3 DEF DrainOne, FreshInv
<1>4. ASSUME StartClear PROVE FreshInv'
  <2>1. /\ queue' = <<>> /\ session' = session + 1
        /\ UNCHANGED <<shown, hand, publisherPc>>
    BY <1>4 DEF StartClear, Goto, FlagsInv
  <2>2. shown.session <= session /\ (Busy => hand.session <= session)
    BY <1>0 DEF OrderInv, CaptureInv, HandInv, Captured
  <2>3. QED
    BY <1>0, <2>1, <2>2 DEF FreshInv, Busy
<1>5. ASSUME StartThread PROVE FreshInv'
  BY <1>5 DEF StartThread, StartThrows, Goto, FreshInv, Busy
<1>6. ASSUME ReaderStep PROVE FreshInv'
  <2>1. UNCHANGED step /\ readerPc # "dead" /\ readerPc' # "begin"
    BY <1>6 DEF ReaderStep, ReaderBegin, ReaderCheck, ReaderRead, ReaderFlush, ReaderEnqueue,
       ReaderAdd, AfterFlush
  <2>2. ~Fresh'
    BY <2>1 DEF FlagsInv, NoReader
  <2>3. QED
    BY <2>2 DEF FreshInv
<1>7. ASSUME PublisherStep PROVE FreshInv'
  <2>1. UNCHANGED <<step, readerPc, session>> /\ (queue = <<>> => queue' = <<>>)
    BY <1>7, PublisherFrame
  <2>2. ASSUME queue = <<>> PROVE (Busy' => Busy) /\ hand' = hand
    BY <1>7, <2>2 DEF PublisherStep, PublisherCheck, PublisherWait, PublisherLoad,
       PublisherAdjust, PublisherApply, Busy
  <2>3. shown' = shown \/ (Busy /\ shown'.session = hand.session)
    BY <1>7 DEF PublisherStep, PublisherCheck, PublisherWait, PublisherLoad,
       PublisherAdjust, PublisherApply, Busy
  <2>4. QED
    BY <1>0, <2>1, <2>2, <2>3 DEF FreshInv
<1>8. ASSUME Crash PROVE FreshInv'
  BY <1>8 DEF Crash, FreshInv
<1>9. QED
  BY <1>1, <1>2, <1>3, <1>4, <1>5, <1>6, <1>7, <1>8 DEF Next, ControlStep, Ended

(***************************************************************************)
(* The inductive invariant, and what follows from it.                      *)
(***************************************************************************)
LEMMA InvInit == Init => IInv
<1> SUFFICES ASSUME Init PROVE IInv
  OBVIOUS
<1>1. HolderInv
  BY DEF Init, HolderInv, StopSteps, StartSteps, Stopped
<1>2. FlagsInv /\ ReadInv
  BY DEF Init, FlagsInv, Settled, NoReader, ReadInv, Stopped
<1>3. OrderInv /\ FreshInv
  BY DEF Init, OrderInv, CaptureInv, QueueInv, HandInv, FreshInv, Fresh, Capturing, Busy
<1>4. QED
  BY <1>1, <1>2, <1>3, TypeInit DEF IInv

\* Every step of the agent keeps the whole inductive invariant.
LEMMA InvStep == IInv /\ [Next]_vars => IInv'
<1> SUFFICES ASSUME IInv, [Next]_vars PROVE IInv'
  OBVIOUS
<1>1. TypeOK'
  BY FlagTypesStep, PlaceTypesStep, DataTypesStep DEF IInv, TypeOK
<1>2. HolderInv'
  BY HolderStep DEF IInv, TypeOK
<1>3. FlagsInv' /\ ReadInv'
  BY <1>1, <1>2, FlagsStep, ReadStep DEF IInv
<1>4. OrderInv' /\ FreshInv'
  BY <1>1, OrderStep, FreshStep DEF IInv
<1>5. QED
  BY <1>1, <1>2, <1>3, <1>4 DEF IInv

\* In every reachable state the inductive invariant holds.
THEOREM Invariance == Spec => []IInv
BY InvInit, InvStep, PTL DEF Spec

\* Every variable keeps its type: _queueDepth (readerLoop, publisherLoop) is a
\* UInt64 whatever the interleaving, and no queued batch is empty.
THEOREM TypeCorrect == Spec => []TypeOK
BY Invariance, PTL DEF IInv

\* The FIFO registers are only touched while they are mapped: the shutdown
\* unmaps them when no reader reads, and no start is under way any more.
THEOREM MappedWhenUsed == Spec => []NoUnmappedAccess
<1>1. IInv => NoUnmappedAccess
  <2> SUFFICES ASSUME IInv PROVE NoUnmappedAccess
    OBVIOUS
  <2>1. readerPc = "read" => mapped
    BY DEF IInv, ReadInv, Stopped
  <2>2. step \in {"stopAdc", "startReset"} => mapped
    BY DEF IInv, FlagsInv
  <2>3. QED
    BY <2>1, <2>2 DEF NoUnmappedAccess
<1>2. QED
  BY <1>1, Invariance, PTL

\* Between two commands _running, _readerThreadStarted, _readerShouldRun, the
\* ADC and the reader thread agree, whichever start or stop failed halfway.
THEOREM FlagsTellTheTruth == Spec => []FlagsAgree
<1>1. IInv => FlagsAgree
  BY DEF IInv, HolderInv, FlagsInv, Settled, FlagsAgree
<1>2. QED
  BY <1>1, Invariance, PTL

\* Whatever batches are left by a stop or in flight across a restart, the
\* queue holds frames of the current acquisition in the order of capture.
THEOREM QueueNeverStale == Spec => []QueueIsCurrent
<1>1. IInv => QueueIsCurrent
  BY DEF IInv, HolderInv, FlagsInv, Settled, OrderInv, QueueInv, QueueIsCurrent
<1>2. QED
  BY <1>1, Invariance, PTL

\* The visible state never goes back to an older frame.
THEOREM ShownOnlyForward == Spec => NeverShowsOlder
<1>1. IInv /\ [Next]_vars => [Later(shown', shown)]_shown
  <2> SUFFICES ASSUME IInv, [Next]_vars, shown' # shown
               PROVE  Later(shown', shown)
    OBVIOUS
  <2>1. CASE PublisherApply
    <3>1. /\ Busy /\ shown'.session = hand.session /\ shown'.frame = LastOf(hand)
      BY <2>1 DEF PublisherApply, Busy
    <3>2. After(hand, shown) /\ hand \in Batch /\ shown.frame \in Nat
      BY <3>1 DEF IInv, OrderInv, HandInv, TypeOK, DataTypes
    <3>3. QED
      BY <3>1, <3>2, BatchFields DEF After, Later
  <2>2. CASE ~PublisherApply
    <3>1. ASSUME DrainOne \/ StartClear \/ StartThread PROVE UNCHANGED shown
      BY <3>1 DEF DrainOne, StartClear, StartThread
    <3>2. ASSUME PublisherStep PROVE UNCHANGED shown
      BY <2>2, <3>2 DEF PublisherStep, PublisherCheck, PublisherWait, PublisherLoad,
         PublisherAdjust
    <3>3. ASSUME Crash PROVE UNCHANGED shown
      BY <3>3 DEF Crash
    <3>4. QED
      BY <3>1, <3>2, <3>3, OtherFrame, ReaderFrame DEF Next, ControlStep, Ended, orderVars
  <2>3. QED
    BY <2>1, <2>2
<1>2. QED
  BY <1>1, Invariance, PTL DEF Spec, NeverShowsOlder
=============================================================================
