----------------------- MODULE AcquisitionRuntimeInv ------------------------
(***************************************************************************)
(* The inductive invariant behind the safety properties of                 *)
(* AcquisitionRuntime: what holds at each place of the control procedures, *)
(* and how far the frames in the queue, in the publisher's hand and on     *)
(* show have got.                                                          *)
(***************************************************************************)
EXTENDS AcquisitionRuntime

StopSteps == {"stopFlag", "stopJoin", "stopDrain", "stopAdc", "stopEnd"}
StartSteps == {"startCheck", "startMap", "startReset", "startClear", "startDrain",
               "startAdc", "startThread", "startEnd"}
Stopped == {"joinPublisher", "stopSubscriber", "release", "done"}

\* Who holds the mutex, and what the holder may be doing with it.
HolderInv ==
  /\ lockHolder = "nobody" <=> step = "none"
  /\ lockHolder = "main" <=> mainPc \in {"restoring", "stopping"}
  /\ lockHolder = "listener" <=> listenerPc = "locked"
  /\ listenerPc = "lock" => command \in LockedCommands
  /\ step = "restore" => mainPc = "restoring"
  /\ step \in {"pause", "apply"} => lockHolder = "listener" /\ command = "divider-apply"
  /\ step \in StopSteps /\ lockHolder = "main" => mainPc = "stopping"
  /\ step \in StartSteps /\ lockHolder = "main" => mainPc = "restoring"
  /\ mainPc = "stopping" => step \in StopSteps \cup {"unlock"}
  /\ shutdown <=> mainPc \in {"stopLock", "stopping"} \cup Stopped
  /\ mainPc \in {"release", "done"} => listenerPc = "idle"

\* No reader: none was started, none is to run and none is left.
NoReader == ~readerStarted /\ ~readerShouldRun /\ readerPc = "dead"

\* The flags between two control procedures.
Settled ==
  /\ running = readerStarted /\ running = readerShouldRun
  /\ running => (adcOn \/ Faults) /\ (mapped \/ mainPc = "done")
  /\ readerPc # "dead" => running
  /\ ~running => queue = <<>>

FlagsInv ==
  /\ step \in {"none", "restore", "pause", "stopFlag", "startCheck", "unlock"} => Settled
  /\ step = "stopJoin" => readerStarted /\ ~readerShouldRun /\ mapped
  /\ step \in {"stopDrain", "stopAdc", "stopEnd"} => NoReader
  /\ step \in {"stopAdc", "stopEnd"} => queue = <<>>
  /\ step = "stopAdc" => mapped
  /\ step = "apply" => Settled /\ ~running
  /\ step \in {"startMap", "startReset", "startClear", "startDrain", "startAdc"} =>
       NoReader /\ ~running /\ queue = <<>>
  /\ step \in {"startReset", "startClear", "startDrain", "startAdc"} => mapped
  /\ step = "startThread" =>
       /\ readerShouldRun /\ ~readerStarted /\ ~running /\ readerPc = "dead"
       /\ (adcOn \/ Faults) /\ mapped /\ queue = <<>>
  /\ step = "startEnd" => readerShouldRun /\ ~readerStarted /\ ~running /\ (adcOn \/ Faults)
                         /\ mapped

\* The reader reads only before the shutdown has stopped it, and then the
\* registers are mapped.
ReadInv ==
  /\ readerPc # "dead" => mapped \/ mainPc = "done"
  /\ mainPc \in Stopped => readerPc # "read"
  /\ mainPc = "stopping" /\ step = "unlock" => ~running

Busy == publisherPc \in {"load", "subtract", "zero", "apply"}
Capturing == readerPc \notin {"dead", "begin"}

\* The first frame that the reader has not queued yet.
NextToQueue == sequence - (IF readerPc = "add" THEN 0 ELSE batchSize)

\* Where a batch stands to a frame on show, to another batch, to the reader.
After(b, s) == b.session > s.session \/ (b.session = s.session /\ b.first > s.frame)
Follows(c, b) == c.session > b.session \/ InOrder(b, c)
Captured(b) == b.session < session \/ (b.session = session /\ (Capturing => LastOf(b) < NextToQueue))

\* The reader's own counters, and how far it is ahead of what is shown.
CaptureInv ==
  /\ Capturing => batchSize <= sequence
  /\ readerPc \in {"enqueue", "add"} => batchSize > 0
  /\ shown.session <= session
  /\ shown.session = session /\ Capturing => shown.frame < NextToQueue

QueueInv ==
  /\ \A i \in 1 .. Len(queue) : Captured(queue[i]) /\ After(queue[i], shown)
  /\ \A i, j \in 1 .. Len(queue) : i < j => InOrder(queue[i], queue[j])
  /\ readerPc # "dead" => \A i \in 1 .. Len(queue) : queue[i].session = session

HandInv ==
  Busy => /\ Captured(hand) /\ After(hand, shown)
          /\ \A i \in 1 .. Len(queue) : Follows(queue[i], hand)

OrderInv == CaptureInv /\ QueueInv /\ HandInv

\* From the clearing of the state until the reader begins, everything that was
\* captured is older.
Fresh == step \in {"startDrain", "startAdc", "startThread"} \/ readerPc = "begin"

FreshInv ==
  Fresh =>
    /\ queue = <<>>
    /\ shown.session < session
    /\ Busy => hand.session < session

IInv == TypeOK /\ HolderInv /\ FlagsInv /\ ReadInv /\ OrderInv /\ FreshInv
=============================================================================
