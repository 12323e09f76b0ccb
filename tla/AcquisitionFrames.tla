-------------------------- MODULE AcquisitionFrames --------------------------
(***************************************************************************)
(* Where the frames of AcquisitionRuntime are: the accounting of them, and *)
(* the abstract specification that the agent implements.                   *)
(***************************************************************************)
EXTENDS AcquisitionRuntimeInv, FiniteSets

\* The frames of a batch.
FramesOf(b) == [session: {b.session}, frame: b.first .. LastOf(b)]

\* When the reader is about to count a batch, the batch is in the queue already.
LocalFrames == IF Capturing /\ readerPc # "add" THEN FramesOf(LocalBatch) ELSE {}
QueuedFrames == UNION {FramesOf(queue[i]): i \in 1 .. Len(queue)}
HandFrames == IF Busy THEN FramesOf(hand) ELSE {}

\* Captured, and neither visible nor given up.
Pending == LocalFrames \cup QueuedFrames \cup HandFrames
PendingHere == {f \in Pending: f.session = session}

\* No frame is lost silently: what this reader has captured is in its batch, in
\* the queue, with the publisher, visible, or counted in _droppedFrames, and in
\* one of these places only, although _queueDepth itself may have lost count.
FrameAccounting ==
  Capturing =>
    sequence - firstSequence = Cardinality(PendingHere) + appliedFrames + droppedFrames

\* With FrameAccounting inductive: until the reader begins, nothing is counted.
AccountInv ==
  /\ FrameAccounting
  /\ Fresh => appliedFrames = 0 /\ droppedFrames = 0

-----------------------------------------------------------------------------
Stream == INSTANCE FrameStream WITH
  open <- Capturing, next <- sequence, pending <- Pending, dropped <- droppedFrames

\* The agent implements FrameStream: whatever starts, stops, faults and crashes
\* come in between, the visible frame moves on frame by frame of what was
\* captured, and no frame disappears uncounted while acquisition goes on.
ImplementsFrameStream == Stream!Spec
=============================================================================
