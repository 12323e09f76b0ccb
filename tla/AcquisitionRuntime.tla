------------------------- MODULE AcquisitionRuntime -------------------------
(***************************************************************************)
(* The JNDM123 acquisition agent: class AcquisitionRuntime of              *)
(* src/services/JNDM123AcquisitionAgent/src/AcquisitionRuntime.cpp.        *)
(*                                                                         *)
(* Four threads share the object.  The main thread restores the saved      *)
(* divider configuration, waits for SIGTERM and shuts down.  The DDS       *)
(* listener runs one control command at a time.  The reader takes frames   *)
(* out of the hardware FIFO into batches and queues them.  The publisher   *)
(* takes the batches out and makes them visible.  Start and stop are       *)
(* procedures that run under _controlMutex, whoever called them: `step' is *)
(* the place where the holder of the mutex is.                             *)
(*                                                                         *)
(* Each action is what one thread does between two points where another    *)
(* thread can see the difference.  The sections under _stateMutex call     *)
(* nothing that blocks, so each of them is one action.                     *)
(***************************************************************************)
EXTENDS Naturals, Sequences

CONSTANTS
  Commands,         \* the control actions a client may send
  Faults,           \* may I2C, GPIO, mmap and thread creation fail?
  BatchLimit,       \* bound: frames in one batch (the code bounds its age)
  MaxPendingFrames, \* kMaxPendingFrames
  CounterModulus,   \* 2^64 in the code: _queueDepth is a Poco::UInt64
  FrameBudget,      \* bound: frames the hardware delivers in all
  CommandBudget,    \* bound: commands received in all
  CrashBudget       \* bound: times the process is killed

LockedCommands == {"start", "stop", "divider-apply"}
UnlockedCommands == {"divider-status", "divider-init", "divider-update-reference"}

ASSUME CommandsAssumption == Commands \subseteq LockedCommands \cup UnlockedCommands
ASSUME FaultsAssumption == Faults \in BOOLEAN
ASSUME BoundsAssumption ==
  /\ BatchLimit \in Nat \ {0}
  /\ MaxPendingFrames \in Nat
  /\ CounterModulus \in Nat \ {0}
  /\ MaxPendingFrames + BatchLimit < CounterModulus
  /\ FrameBudget \in Nat /\ CommandBudget \in Nat /\ CrashBudget \in Nat

VARIABLES
  mainPc,            \* the main thread
  listenerPc,        \* the DDS listener thread
  command,           \* the command it is handling
  received,          \* the sequence number of that command
  answered,          \* _lastCommandSequence
  lockHolder,        \* who holds _controlMutex
  step,              \* where its holder is in start, stop, apply or restore
  wasRunning,        \* the local of divider-apply
  readerShouldRun, readerStarted, running, shutdown,
  mapped,            \* _hardware.fifoCtrl and fifoData point to the registers
  adcOn,             \* hardware: the AD7606 chips convert
  clockSafe,         \* hardware: the fastest output is below the safety limit
  readerPc,          \* the reader thread
  exiting,           \* it has left its loop and flushes for the last time
  sequence,          \* its local frame counter
  batchSize,         \* the size of its local batch
  queue,             \* _frameQueue
  queueDepth,        \* _queueDepth
  droppedFrames, totalFrames,
  publisherPc,       \* the publisher thread
  hand,              \* the batch it has dequeued
  session,           \* ghost: how often the state was cleared, by a start or a crash
  firstSequence,     \* ghost: the first sequence number of this reader
  appliedFrames,     \* ghost: frames of this session that became visible
  shown,             \* ghost: session and number of the frame last made visible
  framesRead,        \* bound: frames the hardware has delivered
  crashes            \* bound: crashes so far

mainVars == <<mainPc, shutdown>>
listenerVars == <<listenerPc, command, received>>
controlVars == <<lockHolder, step, wasRunning>>
flagVars == <<readerShouldRun, readerStarted, running>>
hardwareVars == <<mapped, adcOn, clockSafe>>
readerVars == <<readerPc, exiting, sequence, batchSize, firstSequence, framesRead>>
queueVars == <<queue, queueDepth>>
counterVars == <<droppedFrames, totalFrames>>
publisherVars == <<publisherPc, hand>>
ghostVars == <<session, appliedFrames, shown>>

threadVars == <<mainVars, listenerVars, answered>>
agentVars == <<threadVars, controlVars, flagVars, hardwareVars, crashes>>
pipelineVars == <<readerVars, queueVars, counterVars, publisherVars, ghostVars, crashes>>

vars == <<mainVars, listenerVars, answered, controlVars, flagVars, hardwareVars,
          readerVars, queueVars, counterVars, publisherVars, ghostVars, crashes>>

(***************************************************************************)
(* A batch is a run of consecutive frames: FrameBatchNotification.         *)
(***************************************************************************)
Batch == [session: Nat, first: Nat, size: Nat \ {0}]
NoBatch == [session |-> 0, first |-> 0, size |-> 1]
LastOf(b) == b.first + b.size - 1

\* The reader's local batch ends with the frame before `sequence'.
LocalBatch == [session |-> session, first |-> sequence - batchSize, size |-> batchSize]

MainSteps == {"restoreLock", "restoring", "ready", "stopLock", "stopping",
              "joinPublisher", "stopSubscriber", "release", "done"}
ListenerSteps == {"idle", "lock", "locked", "work", "answer"}
ControlSteps == {"none", "restore", "pause", "apply",
                 "stopFlag", "stopJoin", "stopDrain", "stopAdc", "stopEnd",
                 "startCheck", "startMap", "startReset", "startClear",
                 "startDrain", "startAdc", "startThread", "startEnd", "unlock"}
ReaderSteps == {"dead", "begin", "check", "read", "flush", "enqueue", "add"}
PublisherSteps == {"check", "wait", "load", "subtract", "zero", "apply", "exited"}

-----------------------------------------------------------------------------
\* The process is in its constructor, just before the restore; the board was
\* powered up with the ADCs in reset and whatever clock its registers hold.
Init ==
  /\ mainPc = "restoreLock" /\ shutdown = FALSE
  /\ listenerPc = "idle" /\ command = "divider-status" /\ received = 0 /\ answered = 0
  /\ lockHolder = "nobody" /\ step = "none" /\ wasRunning = FALSE
  /\ readerShouldRun = FALSE /\ readerStarted = FALSE /\ running = FALSE
  /\ mapped = FALSE /\ adcOn = FALSE /\ clockSafe \in BOOLEAN
  /\ readerPc = "dead" /\ exiting = FALSE
  /\ sequence = 0 /\ batchSize = 0 /\ firstSequence = 0 /\ framesRead = 0
  /\ queue = <<>> /\ queueDepth = 0
  /\ droppedFrames = 0 /\ totalFrames = 0
  /\ publisherPc = "check" /\ hand = NoBatch
  /\ session = 0 /\ appliedFrames = 0 /\ shown = [session |-> 0, frame |-> 0]
  /\ crashes = 0

-----------------------------------------------------------------------------
(***************************************************************************)
(* Main: restore, wait for termination, shut down.                         *)
(***************************************************************************)
LockRestore ==
  /\ mainPc = "restoreLock" /\ lockHolder = "nobody"
  /\ mainPc' = "restoring" /\ lockHolder' = "main" /\ step' = "restore"
  /\ UNCHANGED <<shutdown, listenerVars, answered, wasRunning, flagVars, hardwareVars,
                 pipelineVars>>

Terminate ==
  /\ mainPc = "ready"
  /\ mainPc' = "stopLock" /\ shutdown' = TRUE
  /\ UNCHANGED <<listenerVars, answered, controlVars, flagVars, hardwareVars,
                 pipelineVars>>

LockShutdown ==
  /\ mainPc = "stopLock" /\ lockHolder = "nobody"
  /\ mainPc' = "stopping" /\ lockHolder' = "main" /\ step' = "stopFlag"
  /\ UNCHANGED <<shutdown, listenerVars, answered, wasRunning, flagVars, hardwareVars,
                 pipelineVars>>

\* Joins the publisher and deletes the snapshot writer.
JoinPublisher ==
  /\ mainPc = "joinPublisher" /\ publisherPc = "exited"
  /\ mainPc' = "stopSubscriber"
  /\ UNCHANGED <<shutdown, listenerVars, answered, controlVars, flagVars, hardwareVars,
                 pipelineVars>>

\* Mutant: the reader is deleted while its callback runs.
StopSubscriberEarly ==
  /\ mainPc = "stopSubscriber"
  /\ mainPc' = "release"
  /\ UNCHANGED <<shutdown, listenerVars, answered, controlVars, flagVars, hardwareVars,
                 pipelineVars>>

\* Fast-DDS deletes a reader only when none of its callbacks runs.
StopSubscriber ==
  /\ mainPc = "stopSubscriber" /\ listenerPc = "idle"
  /\ mainPc' = "release"
  /\ UNCHANGED <<shutdown, listenerVars, answered, controlVars, flagVars, hardwareVars,
                 pipelineVars>>

ReleaseHardware ==
  /\ mainPc = "release"
  /\ mainPc' = "done" /\ mapped' = FALSE
  /\ UNCHANGED <<shutdown, listenerVars, answered, controlVars, flagVars, adcOn,
                 clockSafe, pipelineVars>>

(***************************************************************************)
(* Listener: one control command.                                          *)
(***************************************************************************)
SubscriberOpen == mainPc \notin {"release", "done"}

Receive(c) ==
  /\ listenerPc = "idle" /\ SubscriberOpen
  /\ received < CommandBudget
  /\ received' = received + 1 /\ command' = c
  /\ listenerPc' = IF c \in LockedCommands THEN "lock" ELSE "work"
  /\ UNCHANGED <<mainVars, answered, controlVars, flagVars, hardwareVars, pipelineVars>>

FirstStep(c) == CASE c = "start" -> "startCheck"
                  [] c = "stop" -> "stopFlag"
                  [] OTHER -> "pause"

LockCommand ==
  /\ listenerPc = "lock" /\ lockHolder = "nobody"
  /\ listenerPc' = "locked" /\ lockHolder' = "listener" /\ step' = FirstStep(command)
  /\ UNCHANGED <<mainVars, command, received, answered, wasRunning, flagVars,
                 hardwareVars, pipelineVars>>

\* divider-status, divider-init and divider-update-reference take no lock.
\* The last two change what the clock is: registers or reference.
UnlockedCommand ==
  /\ listenerPc = "work"
  /\ listenerPc' = "answer"
  /\ clockSafe' \in IF command = "divider-status" THEN {clockSafe} ELSE BOOLEAN
  /\ UNCHANGED <<mainVars, command, received, answered, controlVars, flagVars, mapped,
                 adcOn, pipelineVars>>

\* The tail of handleControlMessage: record the sequence number, publish.
Answer ==
  /\ listenerPc = "answer"
  /\ listenerPc' = "idle" /\ answered' = received
  /\ UNCHANGED <<mainVars, command, received, controlVars, flagVars, hardwareVars,
                 pipelineVars>>

(***************************************************************************)
(* Under _controlMutex: stopAcquisitionLocked.                             *)
(***************************************************************************)
Goto(from, to) == step = from /\ step' = to

\* Mutant: the flag that ends the reader is not cleared.
StopFlagForgotten ==
  /\ Goto("stopFlag", IF readerStarted THEN "stopJoin" ELSE "stopDrain")
  /\ UNCHANGED <<threadVars, lockHolder, wasRunning, flagVars, hardwareVars, pipelineVars>>

StopFlag ==
  /\ Goto("stopFlag", IF readerStarted THEN "stopJoin" ELSE "stopDrain")
  /\ readerShouldRun' = FALSE
  /\ UNCHANGED <<threadVars, lockHolder, wasRunning, readerStarted, running,
                 hardwareVars, pipelineVars>>

\* Mutant: the reader counts as started after it was joined.
StopJoinStillStarted ==
  /\ Goto("stopJoin", "stopDrain")
  /\ readerPc = "dead"
  /\ UNCHANGED <<threadVars, lockHolder, wasRunning, flagVars, hardwareVars, pipelineVars>>

\* Mutant: the reader is told to end but not joined.
StopJoinNoWait ==
  /\ Goto("stopJoin", "stopDrain")
  /\ readerStarted' = FALSE
  /\ UNCHANGED <<threadVars, lockHolder, wasRunning, readerShouldRun, running,
                 hardwareVars, pipelineVars>>

StopJoin ==
  /\ Goto("stopJoin", "stopDrain")
  /\ readerPc = "dead"
  /\ readerStarted' = FALSE
  /\ UNCHANGED <<threadVars, lockHolder, wasRunning, readerShouldRun, running,
                 hardwareVars, pipelineVars>>

\* drainQueue, called by stop and by start: dequeue one, or store zero.
DrainOne ==
  /\ step \in {"stopDrain", "startDrain"}
  /\ queue # <<>>
  /\ queue' = Tail(queue)
  /\ UNCHANGED <<agentVars, readerVars, queueDepth, counterVars, publisherVars,
                 ghostVars>>

AfterDrain == IF step = "startDrain" THEN "startAdc"
              ELSE IF mapped THEN "stopAdc" ELSE "stopEnd"

DrainEnd ==
  /\ step \in {"stopDrain", "startDrain"}
  /\ queue = <<>>
  /\ step' = AfterDrain
  /\ queueDepth' = 0
  /\ UNCHANGED <<threadVars, lockHolder, wasRunning, flagVars, hardwareVars, readerVars,
                 queue, counterVars, publisherVars, ghostVars, crashes>>

\* What the ADC is after it was switched: writeSysfsValue ignores a failure.
Switched(on) == IF Faults THEN {on, adcOn} ELSE {on}

\* stopAdcLocked and resetFifoLocked, in stop and in start.
StopAdc ==
  /\ \/ Goto("stopAdc", "stopEnd")
     \/ Goto("startReset", "startClear")
  /\ adcOn' \in Switched(FALSE)
  /\ UNCHANGED <<threadVars, lockHolder, wasRunning, flagVars, mapped, clockSafe,
                 pipelineVars>>

StopEnd ==
  /\ Goto("stopEnd",
          IF lockHolder = "listener" /\ command = "divider-apply" THEN "apply" ELSE "unlock")
  /\ running' = FALSE
  /\ UNCHANGED <<threadVars, lockHolder, wasRunning, readerShouldRun, readerStarted,
                 hardwareVars, pipelineVars>>

(***************************************************************************)
(* Under _controlMutex: startAcquisitionLocked.                            *)
(***************************************************************************)
\* What readDividerStatus may say of a clock: a divider register whose I2C
\* read fails counts as divider 0, hence as 0 Hz.
Readings(safe) == IF Faults THEN {safe, TRUE} ELSE {safe}

\* Mutant: the mutex is not released when an exception leaves the procedure.
StartThrowsLocked(from) ==
  /\ Faults
  /\ Goto(from, "none") /\ readerShouldRun' = FALSE

\* An exception: the catch blocks make sure that no reader runs.
StartThrows(from) ==
  /\ Faults
  /\ Goto(from, "unlock") /\ readerShouldRun' = FALSE

StartCheck ==
  /\ \/ running /\ Goto("startCheck", "unlock") /\ UNCHANGED readerShouldRun
     \/ /\ ~running /\ TRUE \in Readings(clockSafe)
        /\ Goto("startCheck", "startMap") /\ UNCHANGED readerShouldRun
     \/ /\ ~running /\ FALSE \in Readings(clockSafe)
        /\ Goto("startCheck", "unlock") /\ UNCHANGED readerShouldRun
     \/ ~running /\ StartThrows("startCheck")
  /\ UNCHANGED <<threadVars, lockHolder, wasRunning, readerStarted, running, hardwareVars,
                 pipelineVars>>

StartMap ==
  /\ \/ Goto("startMap", "startReset") /\ mapped' = TRUE /\ UNCHANGED readerShouldRun
     \/ ~mapped /\ StartThrows("startMap") /\ UNCHANGED mapped
  /\ UNCHANGED <<threadVars, lockHolder, wasRunning, readerStarted, running, adcOn, clockSafe,
                 pipelineVars>>

StartClear ==
  /\ Goto("startClear", "startDrain")
  /\ droppedFrames' = 0 /\ totalFrames' = 0
  /\ queueDepth' = 0
  /\ session' = session + 1 /\ appliedFrames' = 0
  /\ UNCHANGED <<threadVars, lockHolder, wasRunning, flagVars, hardwareVars, readerVars,
                 queue, publisherVars, shown, crashes>>

StartAdc ==
  /\ Goto("startAdc", "startThread")
  /\ readerShouldRun' = TRUE /\ adcOn' \in Switched(TRUE)
  /\ UNCHANGED <<threadVars, lockHolder, wasRunning, readerStarted, running, mapped,
                 clockSafe, pipelineVars>>

StartThread ==
  /\ \/ Goto("startThread", "startEnd") /\ readerPc' = "begin" /\ UNCHANGED readerShouldRun
     \/ StartThrows("startThread") /\ UNCHANGED readerPc
  /\ UNCHANGED <<threadVars, lockHolder, wasRunning, readerStarted, running,
                 hardwareVars, exiting, sequence, batchSize, firstSequence, framesRead,
                 queueVars, counterVars, publisherVars, ghostVars, crashes>>

StartEnd ==
  /\ Goto("startEnd", "unlock")
  /\ readerStarted' = TRUE /\ running' = TRUE
  /\ UNCHANGED <<threadVars, lockHolder, wasRunning, readerShouldRun, hardwareVars,
                 pipelineVars>>

(***************************************************************************)
(* Under _controlMutex: divider-apply, the restore at startup, unlocking.  *)
(***************************************************************************)
Pause ==
  /\ Goto("pause", IF running THEN "stopFlag" ELSE "apply")
  /\ wasRunning' = running
  /\ UNCHANGED <<threadVars, lockHolder, flagVars, hardwareVars, pipelineVars>>

\* The registers are written, all or (when it throws) some of them.  The
\* sequence number is recorded before acquisition is restarted.
Apply ==
  /\ clockSafe' \in BOOLEAN
  /\ \/ Faults /\ Goto("apply", "unlock") /\ UNCHANGED answered
     \/ /\ answered' = received
        /\ \/ wasRunning /\ TRUE \in Readings(clockSafe') /\ Goto("apply", "startCheck")
           \/ wasRunning /\ FALSE \in Readings(clockSafe') /\ Goto("apply", "unlock")
           \/ ~wasRunning /\ Goto("apply", "unlock")
  /\ UNCHANGED <<mainVars, listenerVars, lockHolder, wasRunning, flagVars, mapped,
                 adcOn, pipelineVars>>

\* No saved configuration, a failure on the way, an unsafe clock: not started.
Restore ==
  /\ \/ Goto("restore", "unlock") /\ UNCHANGED clockSafe
     \/ /\ clockSafe' \in BOOLEAN
        /\ \/ Faults /\ Goto("restore", "unlock")
           \/ FALSE \in Readings(clockSafe') /\ Goto("restore", "unlock")
           \/ TRUE \in Readings(clockSafe') /\ Goto("restore", "startCheck")
  /\ UNCHANGED <<threadVars, lockHolder, wasRunning, flagVars, mapped, adcOn,
                 pipelineVars>>

Unlock ==
  /\ Goto("unlock", "none")
  /\ lockHolder' = "nobody"
  /\ \/ /\ lockHolder = "listener" /\ listenerPc' = "answer" /\ UNCHANGED mainPc
     \/ /\ lockHolder = "main" /\ UNCHANGED listenerPc
        /\ mainPc' = IF mainPc = "restoring" THEN "ready" ELSE "joinPublisher"
  /\ UNCHANGED <<shutdown, command, received, answered, wasRunning, flagVars,
                 hardwareVars, pipelineVars>>

-----------------------------------------------------------------------------
(***************************************************************************)
(* Reader: readerLoop.                                                     *)
(***************************************************************************)
\* _totalFrames is read without a lock, perhaps while the publisher stores
\* the numbers of a batch one after the other.
StartingPoints ==
  {totalFrames} \cup IF publisherPc = "apply" THEN hand.first + 1 .. LastOf(hand) ELSE {}

ReaderBegin ==
  /\ readerPc = "begin"
  /\ readerPc' = "check"
  /\ exiting' = FALSE /\ batchSize' = 0
  /\ sequence' \in StartingPoints /\ firstSequence' = sequence'
  /\ UNCHANGED <<agentVars, framesRead, queueVars, counterVars, publisherVars,
                 ghostVars>>

\* The loop conditions, and the flush of a batch that is old enough.
ReaderCheck ==
  /\ readerPc = "check"
  /\ \/ readerShouldRun /\ ~shutdown /\ readerPc' = "read" /\ UNCHANGED exiting
     \/ readerShouldRun /\ ~shutdown /\ readerPc' = "flush" /\ UNCHANGED exiting
     \/ ~(readerShouldRun /\ ~shutdown) /\ readerPc' = "flush" /\ exiting' = TRUE
  /\ UNCHANGED <<agentVars, sequence, batchSize, firstSequence, framesRead, queueVars,
                 counterVars, publisherVars, ghostVars>>

\* readOneFramePacket: a frame, or none (also when a FIFO error is recovered).
ReaderRead ==
  /\ readerPc = "read"
  /\ readerPc' = "check"
  /\ \/ UNCHANGED <<sequence, batchSize, framesRead>>
     \/ /\ adcOn /\ framesRead < FrameBudget /\ batchSize < BatchLimit
        /\ framesRead' = framesRead + 1
        /\ sequence' = sequence + 1 /\ batchSize' = batchSize + 1
  /\ UNCHANGED <<agentVars, exiting, firstSequence, queueVars, counterVars,
                 publisherVars, ghostVars>>

AfterFlush == IF exiting THEN "dead" ELSE "check"

\* Mutant: a batch that does not fit is cleared and not counted.
ReaderFlushUncounted ==
  /\ readerPc = "flush"
  /\ \/ /\ batchSize > 0
        /\ (queueDepth + batchSize) % CounterModulus <= MaxPendingFrames
        /\ readerPc' = "enqueue" /\ UNCHANGED batchSize
     \/ /\ batchSize > 0 => (queueDepth + batchSize) % CounterModulus > MaxPendingFrames
        /\ readerPc' = AfterFlush /\ batchSize' = 0
  /\ UNCHANGED <<agentVars, exiting, sequence, firstSequence, framesRead, queueVars,
                 counterVars, publisherVars, ghostVars>>

\* flushBatch: nothing to flush, drop the batch, or go on to enqueue it.
ReaderFlush ==
  /\ readerPc = "flush"
  /\ \/ /\ batchSize = 0 /\ readerPc' = AfterFlush
        /\ UNCHANGED <<batchSize, droppedFrames>>
     \/ /\ batchSize > 0
        /\ (queueDepth + batchSize) % CounterModulus > MaxPendingFrames
        /\ droppedFrames' = droppedFrames + batchSize
        /\ batchSize' = 0 /\ readerPc' = AfterFlush
     \/ /\ batchSize > 0
        /\ (queueDepth + batchSize) % CounterModulus <= MaxPendingFrames
        /\ readerPc' = "enqueue" /\ UNCHANGED <<batchSize, droppedFrames>>
  /\ UNCHANGED <<agentVars, exiting, sequence, firstSequence, framesRead, queueVars,
                 totalFrames, publisherVars, ghostVars>>

\* Mutant: the batch is queued as an urgent notification.
ReaderEnqueueUrgent ==
  /\ readerPc = "enqueue"
  /\ readerPc' = "add"
  /\ queue' = <<LocalBatch>> \o queue
  /\ UNCHANGED <<agentVars, exiting, sequence, batchSize, firstSequence, framesRead,
                 queueDepth, counterVars, publisherVars, ghostVars>>

ReaderEnqueue ==
  /\ readerPc = "enqueue"
  /\ readerPc' = "add"
  /\ queue' = Append(queue, LocalBatch)
  /\ UNCHANGED <<agentVars, exiting, sequence, batchSize, firstSequence, framesRead,
                 queueDepth, counterVars, publisherVars, ghostVars>>

\* The batch itself is in the queue: what is left of it is its size.
ReaderAdd ==
  /\ readerPc = "add"
  /\ readerPc' = AfterFlush
  /\ queueDepth' = (queueDepth + batchSize) % CounterModulus
  /\ batchSize' = 0
  /\ UNCHANGED <<agentVars, exiting, sequence, firstSequence, framesRead, queue,
                 counterVars, publisherVars, ghostVars>>

(***************************************************************************)
(* Publisher: publisherLoop.                                               *)
(***************************************************************************)
PublisherCheck ==
  /\ publisherPc = "check"
  /\ publisherPc' = IF shutdown /\ queueDepth = 0 THEN "exited" ELSE "wait"
  /\ UNCHANGED <<agentVars, readerVars, queueVars, counterVars, hand, ghostVars>>

\* waitDequeueNotification: a batch, or nothing after a timeout or wakeUpAll.
PublisherWait ==
  /\ publisherPc = "wait"
  /\ \/ /\ queue # <<>> /\ publisherPc' = "load"
        /\ hand' = Head(queue) /\ queue' = Tail(queue)
     \/ queue = <<>> /\ publisherPc' = "check" /\ UNCHANGED <<hand, queue>>
  /\ UNCHANGED <<agentVars, readerVars, queueDepth, counterVars, ghostVars>>

\* _queueDepth is loaded here and changed by a second atomic operation.
PublisherLoad ==
  /\ publisherPc = "load"
  /\ publisherPc' = IF queueDepth >= hand.size THEN "subtract" ELSE "zero"
  /\ UNCHANGED <<agentVars, readerVars, queueVars, counterVars, hand, ghostVars>>

\* Mutant: the counter is signed.
PublisherAdjustSigned ==
  /\ \/ /\ publisherPc = "subtract"
        /\ queueDepth' = queueDepth - hand.size
     \/ publisherPc = "zero" /\ queueDepth' = 0
  /\ publisherPc' = "apply"
  /\ UNCHANGED <<agentVars, readerVars, queue, counterVars, hand, ghostVars>>

PublisherAdjust ==
  /\ \/ /\ publisherPc = "subtract"
        /\ queueDepth' = (queueDepth + CounterModulus - hand.size) % CounterModulus
     \/ publisherPc = "zero" /\ queueDepth' = 0
  /\ publisherPc' = "apply"
  /\ UNCHANGED <<agentVars, readerVars, queue, counterVars, hand, ghostVars>>

\* The frames become the visible state, then the UDP packets and the snapshot.
PublisherApply ==
  /\ publisherPc = "apply"
  /\ publisherPc' = "check"
  /\ totalFrames' = LastOf(hand) + 1
  /\ shown' = [session |-> hand.session, frame |-> LastOf(hand)]
  /\ appliedFrames' = appliedFrames + IF hand.session = session THEN hand.size ELSE 0
  /\ UNCHANGED <<agentVars, readerVars, queueVars, droppedFrames, hand, session>>

-----------------------------------------------------------------------------
\* The process manager stops the agent with SIGKILL and starts another: all of
\* the process is new, the board stays as it is.
Crash ==
  /\ crashes < CrashBudget /\ crashes' = crashes + 1
  /\ mainPc' = "restoreLock" /\ shutdown' = FALSE
  /\ listenerPc' = "idle" /\ command' = "divider-status" /\ answered' = 0
  /\ lockHolder' = "nobody" /\ step' = "none" /\ wasRunning' = FALSE
  /\ readerShouldRun' = FALSE /\ readerStarted' = FALSE /\ running' = FALSE
  /\ mapped' = FALSE
  /\ readerPc' = "dead" /\ exiting' = FALSE
  /\ sequence' = 0 /\ batchSize' = 0 /\ firstSequence' = 0
  /\ queue' = <<>> /\ queueDepth' = 0
  /\ droppedFrames' = 0 /\ totalFrames' = 0
  /\ publisherPc' = "check" /\ hand' = NoBatch
  /\ session' = session + 1 /\ appliedFrames' = 0
  /\ UNCHANGED <<received, adcOn, clockSafe, framesRead, shown>>

\* The process has ended.
Ended == mainPc = "done" /\ UNCHANGED vars

ControlStep ==
  \/ StopFlag \/ StopJoin \/ DrainOne \/ DrainEnd \/ StopAdc \/ StopEnd
  \/ StartCheck \/ StartMap \/ StartClear \/ StartAdc \/ StartThread \/ StartEnd
  \/ Pause \/ Apply \/ Restore \/ Unlock
MainStep == LockRestore \/ LockShutdown \/ JoinPublisher \/ StopSubscriber \/ ReleaseHardware
ListenerStep == LockCommand \/ UnlockedCommand \/ Answer
ReaderStep ==
  ReaderBegin \/ ReaderCheck \/ ReaderRead \/ ReaderFlush \/ ReaderEnqueue \/ ReaderAdd
PublisherStep ==
  PublisherCheck \/ PublisherWait \/ PublisherLoad \/ PublisherAdjust \/ PublisherApply

Next ==
  \/ ControlStep \/ MainStep \/ ListenerStep \/ ReaderStep \/ PublisherStep
  \/ Terminate \/ (\E c \in Commands : Receive(c)) \/ Crash \/ Ended

Spec == Init /\ [][Next]_vars

\* Every thread that can take a step takes one.  SIGTERM, commands, frames
\* and crashes come or do not come.
Fairness ==
  /\ WF_vars(ControlStep) /\ WF_vars(MainStep) /\ WF_vars(ListenerStep)
  /\ WF_vars(ReaderStep) /\ WF_vars(PublisherStep)
FairSpec == Spec /\ Fairness

-----------------------------------------------------------------------------
(***************************************************************************)
(* Properties                                                              *)
(***************************************************************************)
FlagTypes ==
  /\ shutdown \in BOOLEAN /\ wasRunning \in BOOLEAN
  /\ readerShouldRun \in BOOLEAN /\ readerStarted \in BOOLEAN /\ running \in BOOLEAN
  /\ mapped \in BOOLEAN /\ adcOn \in BOOLEAN /\ clockSafe \in BOOLEAN
  /\ exiting \in BOOLEAN

PlaceTypes ==
  /\ mainPc \in MainSteps
  /\ listenerPc \in ListenerSteps /\ command \in LockedCommands \cup UnlockedCommands
  /\ lockHolder \in {"nobody", "main", "listener"} /\ step \in ControlSteps
  /\ readerPc \in ReaderSteps /\ publisherPc \in PublisherSteps

DataTypes ==
  /\ received \in Nat /\ answered \in Nat
  /\ sequence \in Nat /\ batchSize \in Nat /\ firstSequence \in Nat
  /\ queue \in Seq(Batch) /\ queueDepth \in 0 .. CounterModulus - 1
  /\ droppedFrames \in Nat /\ totalFrames \in Nat
  /\ hand \in Batch
  /\ session \in Nat /\ appliedFrames \in Nat /\ shown \in [session: Nat, frame: Nat]
  /\ framesRead \in Nat /\ crashes \in Nat

\* Every variable keeps its type; in particular _queueDepth stays a UInt64 and
\* no batch that is queued is empty.
TypeOK == FlagTypes /\ PlaceTypes /\ DataTypes

\* The FIFO registers are touched only while they are mapped, although the
\* shutdown unmaps them without the mutex and a start that came too late may
\* have left a reader thread behind (recoverRxFifo checks the pointers,
\* readOneFramePacket and resetFifoLocked do not).
NoUnmappedAccess ==
  readerPc = "read" \/ step \in {"stopAdc", "startReset"} => mapped

\* Whenever nobody holds _controlMutex, the flags tell the truth: running if
\* and only if a reader was started, is to run and has not been joined, the
\* ADC is on (unless a GPIO write failed unnoticed) and the registers are
\* mapped until the process ends.
FlagsAgree ==
  lockHolder = "nobody" =>
    /\ running = readerStarted /\ running = readerShouldRun
    /\ running => (adcOn \/ Faults) /\ (mapped \/ mainPc = "done")
    /\ readerPc # "dead" => running

\* While a reader is alive the queue holds frames of its session only, in
\* the order in which they were captured; without one it is empty.
InOrder(b, c) == b.session = c.session /\ LastOf(b) < c.first

QueueIsCurrent ==
  /\ readerPc # "dead" => \A i \in 1 .. Len(queue) : queue[i].session = session
  /\ \A i, j \in 1 .. Len(queue) : i < j => InOrder(queue[i], queue[j])
  /\ lockHolder = "nobody" /\ ~running => queue = <<>>

\* What the agent shows never goes back: a later frame of the same session
\* or a frame of a later session, whatever stop and start did in between.
Later(a, b) == a.session > b.session \/ (a.session = b.session /\ a.frame > b.frame)

NeverShowsOlder == [][Later(shown', shown)]_shown

\* Every command that was received is answered (unless the process is killed):
\* the listener never waits for ever for the mutex or for a reader to end.
CommandsAnswered == \A n \in 1 .. CommandBudget : received = n ~> answered >= n

\* After SIGTERM the reader thread ends and the acquisition section of the
\* shutdown is over.
ShutdownStopsReader ==
  shutdown ~> /\ readerPc = "dead"
              /\ mainPc \in {"joinPublisher", "stopSubscriber", "release", "done"}

\* "Acquisition remains stopped because the configured clock (...) exceeds the
\* software safety limit": acquisition never runs on such a clock.
RunningClockSafe == running /\ lockHolder = "nobody" => clockSafe

\* After SIGTERM the process ends.
ShutdownCompletes == shutdown ~> mainPc = "done"
=============================================================================
