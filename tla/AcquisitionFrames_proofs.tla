---------------------- MODULE AcquisitionFrames_proofs ----------------------
(***************************************************************************)
(* No frame of the acquisition agent is lost uncounted, and the agent      *)
(* implements FrameStream, for every value of the constants.               *)
(***************************************************************************)
EXTENDS AcquisitionFrames, AcquisitionRuntime_proofs, FiniteSetTheorems

USE DEF mainVars, listenerVars, controlVars, flagVars, hardwareVars, readerVars,
        queueVars, counterVars, publisherVars, ghostVars, threadVars, agentVars,
        pipelineVars, vars

Frame == [session: Nat, frame: Nat]

(***************************************************************************)
(* The frames of a batch, and of a queue of batches.                       *)
(***************************************************************************)
LEMMA FramesOfBatch ==
  ASSUME NEW b, b.session \in Nat, b.first \in Nat, b.size \in Nat
  PROVE  /\ \A f : f \in FramesOf(b) <=>
              f \in Frame /\ f.session = b.session /\ b.first <= f.frame /\ f.frame <= LastOf(b)
         /\ IsFiniteSet(FramesOf(b)) /\ Cardinality(FramesOf(b)) = b.size
<1>1. ASSUME NEW f
      PROVE  f \in FramesOf(b) <=>
              f \in Frame /\ f.session = b.session /\ b.first <= f.frame /\ f.frame <= LastOf(b)
  BY DEF FramesOf, Frame, LastOf
<1> DEFINE N == b.first .. LastOf(b)
           g == [n \in N |-> [session |-> b.session, frame |-> n]]
<1>2. IsFiniteSet(N) /\ Cardinality(N) = b.size
  <2>1. b.first \in Int /\ LastOf(b) \in Int /\ LastOf(b) - b.first + 1 = b.size
    BY DEF LastOf
  <2>2. /\ IsFiniteSet(N)
        /\ Cardinality(N) = IF b.first > LastOf(b) THEN 0 ELSE LastOf(b) - b.first + 1
    BY <2>1, FS_Interval
  <2> HIDE DEF N
  <2>3. QED
    BY <2>1, <2>2
<1>3. g \in Bijection(N, FramesOf(b))
  <2>1. \A n \in N : g[n] \in FramesOf(b)
    BY DEF FramesOf
  <2>2. \A m, n \in N : g[m] = g[n] => m = n
    OBVIOUS
  <2>3. \A f \in FramesOf(b) : f.frame \in N /\ g[f.frame] = f
    BY DEF FramesOf
  <2>4. QED
    BY <2>1, <2>2, <2>3 DEF Bijection, Injection, Surjection, IsInjective
<1>4. IsFiniteSet(FramesOf(b)) /\ Cardinality(FramesOf(b)) = b.size
  BY <1>2, <1>3, FS_Bijection DEF ExistsBijection
<1>5. QED
  BY <1>1, <1>4

\* The frames of one session from one number up to another.
Run(s, from, to) == {f \in Frame : f.session = s /\ from <= f.frame /\ f.frame < to}

\* The reader's batch holds the frames before its counter.
LEMMA FramesOfRun ==
  ASSUME NEW s \in Nat, NEW n \in Nat, NEW k \in Nat, k <= n
  PROVE  FramesOf([session |-> s, first |-> n - k, size |-> k]) = Run(s, n - k, n)
<1> DEFINE b == [session |-> s, first |-> n - k, size |-> k]
<1>1. b.session = s /\ b.first = n - k /\ b.size = k /\ n - k \in Nat /\ LastOf(b) = n - 1
  BY DEF LastOf
<1> HIDE DEF b
<1>2. \A f : f \in FramesOf(b) <=>
              f \in Frame /\ f.session = s /\ n - k <= f.frame /\ f.frame <= n - 1
  BY <1>1, FramesOfBatch
<1>3. \A f \in Frame : f.frame <= n - 1 <=> f.frame < n
  BY DEF Frame
<1>4. FramesOf(b) = Run(s, n - k, n)
  BY <1>2, <1>3 DEF Run
<1>5. QED
  BY <1>4 DEF b

\* Frames that are pending have been captured already, and have been captured
\* one by one.
LEMMA PendingFrames ==
  ASSUME IInv
  PROVE  /\ IsFiniteSet(LocalFrames) /\ IsFiniteSet(QueuedFrames) /\ IsFiniteSet(HandFrames)
         /\ IsFiniteSet(Pending)
         /\ Pending \subseteq Frame
<1>0. /\ queue \in Seq(Batch) /\ hand \in Batch
      /\ sequence \in Nat /\ batchSize \in Nat /\ session \in Nat
  BY DEF IInv, TypeOK, DataTypes
<1>1. IsFiniteSet(LocalFrames) /\ LocalFrames \subseteq Frame
  <2>1. CASE Capturing /\ readerPc # "add"
    <3>1. LocalBatch.session \in Nat /\ LocalBatch.first \in Nat /\ LocalBatch.size \in Nat
      BY <1>0, <2>1 DEF LocalBatch, IInv, OrderInv, CaptureInv
    <3>2. QED
      BY <2>1, <3>1, FramesOfBatch DEF LocalFrames
  <2>2. CASE ~(Capturing /\ readerPc # "add")
    BY <2>2, FS_EmptySet DEF LocalFrames
  <2>3. QED
    BY <2>1, <2>2
<1>2. IsFiniteSet(QueuedFrames) /\ QueuedFrames \subseteq Frame
  <2> DEFINE Q == {FramesOf(queue[i]) : i \in 1 .. Len(queue)}
             q == [i \in 1 .. Len(queue) |-> FramesOf(queue[i])]
  <2>1. \A F \in Q : IsFiniteSet(F) /\ F \subseteq Frame
    BY <1>0, ElementsOfQueue, BatchFields, FramesOfBatch
  <2>2. IsFiniteSet(1 .. Len(queue))
    BY <1>0, FS_Interval
  <2>3. q \in Surjection(1 .. Len(queue), Q)
    BY DEF Surjection
  <2>4. IsFiniteSet(Q)
    BY <2>2, <2>3, FS_Surjection
  <2> HIDE DEF Q
  <2>5. IsFiniteSet(UNION Q)
    BY <2>1, <2>4, FS_UNION
  <2>6. QED
    BY <2>1, <2>5 DEF QueuedFrames, Q
<1>3. IsFiniteSet(HandFrames) /\ HandFrames \subseteq Frame
  BY <1>0, BatchFields, FramesOfBatch, FS_EmptySet DEF HandFrames
<1>4. IsFiniteSet(Pending)
  <2>1. IsFiniteSet(LocalFrames \cup QueuedFrames)
    BY <1>1, <1>2, FS_Union
  <2>2. QED
    BY <1>3, <2>1, FS_Union DEF Pending
<1>5. QED
  BY <1>1, <1>2, <1>3, <1>4 DEF Pending

\* The batch of the reader, the queue and the hand share no frame: the reader's
\* batch is newer than both, and the queue newer than the hand.
LEMMA FramesInOrder ==
  ASSUME IInv
  PROVE  /\ Capturing => \A f \in LocalFrames : f.session = session /\ NextToQueue <= f.frame
                                                /\ f.frame < sequence
         /\ Capturing => \A f \in QueuedFrames : f.session = session /\ f.frame < NextToQueue
         /\ \A f \in HandFrames : Capturing => f.session < session \/ f.frame < NextToQueue
         /\ \A f \in QueuedFrames, h \in HandFrames : Later(f, h)
         /\ \A f \in Pending : Later(f, shown) /\ f.session <= session
<1>0. /\ queue \in Seq(Batch) /\ hand \in Batch /\ shown \in Frame
      /\ sequence \in Nat /\ batchSize \in Nat /\ session \in Nat
  BY DEF IInv, TypeOK, DataTypes, Frame
<1>1. ASSUME NEW f \in LocalFrames
      PROVE  /\ Capturing /\ readerPc # "add" /\ f \in Frame /\ f.session = session
             /\ NextToQueue = sequence - batchSize /\ NextToQueue <= f.frame
             /\ f.frame < sequence
  <2>1. Capturing /\ readerPc # "add" /\ f \in FramesOf(LocalBatch)
    BY DEF LocalFrames
  <2>2. /\ LocalBatch.session = session /\ LocalBatch.first = sequence - batchSize
        /\ LocalBatch.size = batchSize /\ batchSize <= sequence
    BY <2>1 DEF LocalBatch, IInv, OrderInv, CaptureInv
  <2>3. /\ f \in Frame /\ f.session = session
        /\ sequence - batchSize <= f.frame /\ f.frame <= sequence - 1
    <3>1. LastOf(LocalBatch) = sequence - 1 /\ LocalBatch.first \in Nat
      BY <1>0, <2>2 DEF LastOf
    <3>2. QED
      BY <1>0, <2>1, <2>2, <3>1, FramesOfBatch
  <2>4. QED
    BY <1>0, <2>1, <2>3 DEF NextToQueue, Frame
<1>2. ASSUME NEW f \in QueuedFrames
      PROVE  \E i \in 1 .. Len(queue) :
               /\ queue[i] \in Batch /\ f \in Frame /\ f.session = queue[i].session
               /\ queue[i].first <= f.frame /\ f.frame <= LastOf(queue[i])
  <2>1. PICK i \in 1 .. Len(queue) : f \in FramesOf(queue[i])
    BY DEF QueuedFrames
  <2>2. QED
    BY <1>0, <2>1, ElementsOfQueue, BatchFields, FramesOfBatch
<1>3. ASSUME NEW f \in HandFrames
      PROVE  /\ Busy /\ f \in Frame /\ f.session = hand.session
             /\ hand.first <= f.frame /\ f.frame <= LastOf(hand)
  BY <1>0, BatchFields, FramesOfBatch DEF HandFrames
<1>4. /\ Capturing => NextToQueue \in Nat /\ readerPc # "dead"
      /\ shown.session <= session
      /\ shown.session = session /\ Capturing => shown.frame < NextToQueue
      /\ shown.session \in Nat /\ shown.frame \in Nat
  BY <1>0 DEF Frame, IInv, OrderInv, CaptureInv, NextToQueue, Capturing
<1>5. ASSUME NEW f \in QueuedFrames
      PROVE  /\ Capturing => f.session = session /\ f.frame < NextToQueue
             /\ \A h \in HandFrames : Later(f, h)
             /\ Later(f, shown) /\ f.session <= session
  <2>1. PICK i \in 1 .. Len(queue) :
               /\ queue[i] \in Batch /\ f \in Frame /\ f.session = queue[i].session
               /\ queue[i].first <= f.frame /\ f.frame <= LastOf(queue[i])
    BY <1>2
  <2>2. /\ queue[i].first \in Nat /\ LastOf(queue[i]) \in Nat /\ queue[i].session \in Nat
        /\ f.session \in Nat /\ f.frame \in Nat
    BY <2>1, BatchFields DEF Frame
  <2>3. /\ Captured(queue[i]) /\ After(queue[i], shown)
        /\ (readerPc # "dead" => queue[i].session = session)
    BY DEF IInv, OrderInv, QueueInv
  <2>4. Busy => Follows(queue[i], hand)
    BY DEF IInv, OrderInv, HandInv
  <2>5. Capturing => f.session = session /\ f.frame < NextToQueue
    BY <1>0, <1>4, <2>1, <2>2, <2>3 DEF Captured
  <2>6. Later(f, shown) /\ f.session <= session
    BY <1>0, <1>4, <2>1, <2>2, <2>3 DEF Captured, After, Later
  <2>7. ASSUME NEW h \in HandFrames PROVE Later(f, h)
    <3>1. h \in Frame /\ h.session = hand.session /\ h.frame <= LastOf(hand) /\ Busy
      BY <1>3
    <3>2. h.frame \in Nat /\ LastOf(hand) \in Nat /\ hand.session \in Nat
      BY <1>0, <3>1, BatchFields DEF Frame
    <3>3. QED
      BY <2>1, <2>2, <2>4, <3>1, <3>2 DEF Follows, InOrder, Later
  <2>8. QED
    BY <2>5, <2>6, <2>7
<1>6. ASSUME NEW f \in HandFrames
      PROVE  /\ Capturing => f.session < session \/ f.frame < NextToQueue
             /\ Later(f, shown) /\ f.session <= session
  <2>1. Captured(hand) /\ After(hand, shown)
    BY <1>3 DEF IInv, OrderInv, HandInv
  <2>2. /\ hand.first \in Nat /\ LastOf(hand) \in Nat /\ hand.session \in Nat
        /\ f.session \in Nat /\ f.frame \in Nat
    BY <1>0, <1>3, BatchFields DEF Frame
  <2>3. QED
    BY <1>0, <1>3, <1>4, <2>1, <2>2 DEF Captured, After, Later
<1>7. ASSUME NEW f \in LocalFrames
      PROVE  Later(f, shown) /\ f.session <= session
  BY <1>0, <1>1, <1>4 DEF Later, Frame
<1>8. QED
  BY <1>1, <1>5, <1>6, <1>7 DEF Pending

(***************************************************************************)
(* What each step does to the frames that are pending.                     *)
(***************************************************************************)

\* Only the variables of orderVars say which frames are pending.
LEMMA PendingUntouched ==
  UNCHANGED orderVars => UNCHANGED <<Pending, PendingHere, Capturing, sequence, session, shown>>
BY DEF orderVars, Pending, PendingHere, LocalFrames, QueuedFrames, HandFrames, LocalBatch,
   FramesOf, LastOf, Capturing, Busy

\* A reader that neither captures nor gives up frames keeps its own ones, also
\* when it ends, for then it has none.
LEMMA PendingKept ==
  ASSUME IInv, \/ ReaderBegin \/ ReaderCheck \/ ReaderAdd
               \/ ReaderRead /\ UNCHANGED sequence
               \/ ReaderFlush /\ UNCHANGED batchSize
  PROVE  Pending' = Pending
<1>0. /\ batchSize \in Nat /\ sequence \in Nat /\ session \in Nat
      /\ UNCHANGED <<queue, publisherPc, hand, session>>
      /\ Capturing => batchSize <= sequence
  <2>1. batchSize \in Nat /\ sequence \in Nat /\ session \in Nat
    BY DEF IInv, TypeOK, DataTypes
  <2>2. UNCHANGED <<queue, publisherPc, hand, session>>
    <3>1. ReaderStep
      BY DEF ReaderStep
    <3>2. readerPc \in {"begin", "check", "add", "read", "flush"}
      BY DEF ReaderBegin, ReaderCheck, ReaderRead, ReaderFlush, ReaderAdd
    <3>3. QED
      BY <3>1, <3>2, ReaderFrame
  <2>3. Capturing => batchSize <= sequence
    BY DEF IInv, OrderInv, CaptureInv
  <2>4. QED
    BY <2>1, <2>2, <2>3
<1>1. UNCHANGED <<QueuedFrames, HandFrames>>
  BY <1>0 DEF QueuedFrames, HandFrames, FramesOf, LastOf, Busy
<1>2. \A s, n \in Nat : FramesOf([session |-> s, first |-> n - 0, size |-> 0]) = {}
  BY FramesOfRun DEF Run, Frame
<1>3. ASSUME UNCHANGED <<sequence, batchSize>>, Capturing, Capturing', readerPc # "add",
             readerPc' # "add"
      PROVE  LocalFrames' = LocalFrames
  BY <1>0, <1>3 DEF LocalFrames, LocalBatch
<1>4. LocalFrames' = LocalFrames
  <2>1. CASE ReaderBegin
    <3>1. sequence' \in Nat /\ batchSize' = 0 /\ readerPc = "begin"
      BY <2>1 DEF ReaderBegin, StartingPoints, Batch, LastOf, IInv, TypeOK, DataTypes
    <3>2. LocalFrames = {}
      BY <3>1 DEF LocalFrames, Capturing
    <3>3. LocalFrames' = {}
      BY <1>0, <1>2, <3>1 DEF LocalFrames, LocalBatch
    <3>4. QED
      BY <3>2, <3>3
  <2>2. CASE ReaderAdd
    <3>1. batchSize' = 0 /\ readerPc = "add" /\ sequence' = sequence
      BY <2>2 DEF ReaderAdd
    <3>2. LocalFrames = {}
      BY <3>1 DEF LocalFrames
    <3>3. LocalFrames' = {}
      BY <1>0, <1>2, <3>1 DEF LocalFrames, LocalBatch
    <3>4. QED
      BY <3>2, <3>3
  <2>3. CASE ReaderCheck \/ (ReaderRead /\ UNCHANGED sequence)
    <3>1. /\ UNCHANGED <<sequence, batchSize>> /\ Capturing /\ Capturing'
          /\ readerPc # "add" /\ readerPc' # "add"
      BY <1>0, <2>3 DEF ReaderCheck, ReaderRead, Capturing
    <3>2. QED
      BY <1>3, <3>1
  <2>4. CASE ReaderFlush /\ UNCHANGED batchSize
    <3>0. readerPc = "flush" /\ UNCHANGED <<sequence, batchSize>>
      BY <2>4, Zenon DEF ReaderFlush
    <3>1. CASE batchSize = 0
      <4>1. LocalFrames = {}
        BY <1>0, <1>2, <3>1 DEF LocalFrames, LocalBatch
      <4>2. LocalFrames' = {}
        BY <1>0, <1>2, <3>0, <3>1 DEF LocalFrames, LocalBatch
      <4>3. QED
        BY <4>1, <4>2
    <3>2. CASE batchSize > 0
      <4>1. Capturing /\ Capturing' /\ readerPc # "add" /\ readerPc' # "add"
        BY <1>0, <2>4, <3>0, <3>2 DEF ReaderFlush, Capturing
      <4>2. QED
        BY <1>3, <3>0, <4>1
    <3>3. QED
      BY <1>0, <3>1, <3>2
  <2>5. QED
    BY <2>1, <2>2, <2>3, <2>4
<1>5. QED
  BY <1>1, <1>4 DEF Pending

\* A frame that is captured is a new one, and the only new one.
LEMMA PendingCaptured ==
  ASSUME IInv, ReaderRead, sequence' # sequence
  PROVE  /\ sequence' = sequence + 1
         /\ Pending' = Pending \cup {[session |-> session, frame |-> sequence]}
         /\ [session |-> session, frame |-> sequence] \notin Pending
<1> DEFINE new == [session |-> session, frame |-> sequence]
<1>0. /\ batchSize \in Nat /\ sequence \in Nat /\ session \in Nat
      /\ UNCHANGED <<queue, publisherPc, hand, session>>
      /\ sequence' = sequence + 1 /\ batchSize' = batchSize + 1
      /\ readerPc = "read" /\ readerPc' = "check"
  <2>1. batchSize \in Nat /\ sequence \in Nat /\ session \in Nat
    BY DEF IInv, TypeOK, DataTypes
  <2>2. readerPc = "read" /\ readerPc' = "check"
    BY DEF ReaderRead
  <2>3. UNCHANGED <<queue, publisherPc, hand, session>>
    BY <2>2, ReaderFrame DEF ReaderStep
  <2>4. sequence' = sequence + 1 /\ batchSize' = batchSize + 1
    BY Zenon DEF ReaderRead
  <2>5. QED
    BY <2>1, <2>2, <2>3, <2>4
<1>1. batchSize <= sequence /\ Capturing /\ Capturing'
  BY <1>0 DEF IInv, OrderInv, CaptureInv, Capturing
<1>2. UNCHANGED <<QueuedFrames, HandFrames>>
  BY <1>0 DEF QueuedFrames, HandFrames, FramesOf, LastOf, Busy
<1>3. LocalFrames' = LocalFrames \cup {new}
  <2>1. LocalFrames = Run(session, sequence - batchSize, sequence)
    BY <1>0, <1>1, FramesOfRun DEF LocalFrames, LocalBatch
  <2>2. LocalFrames' = Run(session, (sequence + 1) - (batchSize + 1), sequence + 1)
    <3>1. sequence + 1 \in Nat /\ batchSize + 1 \in Nat /\ batchSize + 1 <= sequence + 1
      BY <1>0, <1>1
    <3>2. QED
      BY <1>0, <1>1, <3>1, FramesOfRun DEF LocalFrames, LocalBatch
  <2>3. QED
    BY <1>0, <1>1, <2>1, <2>2 DEF Run, Frame
<1>4. new \notin Pending
  <2>1. NextToQueue <= sequence
    BY <1>0 DEF NextToQueue
  <2>2. NextToQueue \in Int /\ new.session = session /\ new.frame = sequence
    BY <1>0 DEF NextToQueue
  <2>3. QED
    BY <1>0, <1>1, <2>1, <2>2, FramesInOrder DEF Pending
<1>5. QED
  BY <1>0, <1>2, <1>3, <1>4 DEF Pending

\* A batch that does not fit is given up whole: the newest frames that are pending.
LEMMA PendingDropped ==
  ASSUME IInv, ReaderFlush, batchSize' # batchSize
  PROVE  /\ Pending' = Pending \ LocalFrames /\ LocalFrames \subseteq Pending
         /\ Cardinality(LocalFrames) = batchSize /\ batchSize > 0
         /\ \A f \in LocalFrames : f.session = session
         /\ [session |-> session, frame |-> sequence - batchSize] \in LocalFrames
         /\ LET first == [session |-> session, frame |-> sequence - batchSize]
            IN  \A f \in Pending : f \in LocalFrames <=> ~Later(first, f)
<1> DEFINE first == [session |-> session, frame |-> sequence - batchSize]
<1>0. /\ batchSize \in Nat /\ sequence \in Nat /\ session \in Nat
      /\ UNCHANGED <<queue, publisherPc, hand, session, sequence>>
      /\ readerPc = "flush" /\ batchSize > 0 /\ batchSize' = 0
  <2>1. batchSize \in Nat /\ sequence \in Nat /\ session \in Nat
    BY DEF IInv, TypeOK, DataTypes
  <2>2. readerPc = "flush"
    BY DEF ReaderFlush
  <2>3. UNCHANGED <<queue, publisherPc, hand, session>>
    BY <2>2, ReaderFrame DEF ReaderStep
  <2>4. sequence' = sequence /\ batchSize > 0 /\ batchSize' = 0
    BY Zenon DEF ReaderFlush
  <2>5. QED
    BY <2>1, <2>2, <2>3, <2>4
<1>1. batchSize <= sequence /\ Capturing
  BY <1>0 DEF IInv, OrderInv, CaptureInv, Capturing
<1>2. UNCHANGED <<QueuedFrames, HandFrames>>
  BY <1>0 DEF QueuedFrames, HandFrames, FramesOf, LastOf, Busy
<1>3. LocalFrames = Run(session, sequence - batchSize, sequence)
  BY <1>0, <1>1, FramesOfRun DEF LocalFrames, LocalBatch
<1>4. LocalFrames' = {}
  <2>1. FramesOf([session |-> session, first |-> sequence - 0, size |-> 0])
          = Run(session, sequence - 0, sequence)
    BY <1>0, FramesOfRun
  <2>2. Run(session, sequence - 0, sequence) = {}
    BY <1>0 DEF Run, Frame
  <2>3. QED
    BY <1>0, <2>1, <2>2 DEF LocalFrames, LocalBatch
<1>5. Cardinality(LocalFrames) = batchSize
  <2>1. LocalFrames = FramesOf(LocalBatch)
    BY <1>0, <1>1 DEF LocalFrames
  <2>2. LocalBatch.session \in Nat /\ LocalBatch.first \in Nat /\ LocalBatch.size = batchSize
    BY <1>0, <1>1 DEF LocalBatch
  <2>3. QED
    BY <1>0, <2>1, <2>2, FramesOfBatch
<1>6. NextToQueue = sequence - batchSize /\ NextToQueue \in Nat
  BY <1>0, <1>1 DEF NextToQueue
<1>7. ASSUME NEW f \in QueuedFrames \cup HandFrames PROVE Later(first, f) /\ f \notin LocalFrames
  <2>1. f \in Pending /\ f \in Frame
    BY PendingFrames DEF Pending
  <2>2. f.session < session \/ (f.session = session /\ f.frame < NextToQueue)
    BY <1>1, <2>1, FramesInOrder, <1>0 DEF Frame
  <2>3. QED
    BY <1>0, <1>3, <1>6, <2>1, <2>2 DEF Later, Run, Frame
<1>8. ASSUME NEW f \in LocalFrames PROVE ~Later(first, f) /\ f.session = session
  BY <1>0, <1>3, <1>1 DEF Later, Run, Frame
<1>9. first \in LocalFrames
  BY <1>0, <1>1, <1>3 DEF Run, Frame
<1>10. Pending' = Pending \ LocalFrames
  BY <1>2, <1>4, <1>7 DEF Pending
<1>11. QED
  BY <1>0, <1>5, <1>7, <1>8, <1>9, <1>10 DEF Pending

\* Queueing a batch moves its frames from the reader to the queue.
LEMMA PendingQueued ==
  ASSUME IInv, ReaderEnqueue
  PROVE  Pending' = Pending
<1>0. /\ queue \in Seq(Batch) /\ batchSize \in Nat /\ sequence \in Nat /\ session \in Nat
      /\ UNCHANGED <<publisherPc, hand, session, sequence, batchSize>>
      /\ readerPc = "enqueue" /\ readerPc' = "add" /\ queue' = Append(queue, LocalBatch)
  <2>1. queue \in Seq(Batch) /\ batchSize \in Nat /\ sequence \in Nat /\ session \in Nat
    BY DEF IInv, TypeOK, DataTypes
  <2>2. readerPc = "enqueue" /\ readerPc' = "add" /\ queue' = Append(queue, LocalBatch)
        /\ UNCHANGED <<sequence, batchSize>>
    BY DEF ReaderEnqueue
  <2>3. UNCHANGED <<publisherPc, hand, session>>
    BY ReaderFrame DEF ReaderStep
  <2>4. QED
    BY <2>1, <2>2, <2>3
<1>1. LocalFrames = FramesOf(LocalBatch) /\ LocalFrames' = {}
  BY <1>0 DEF LocalFrames, Capturing
<1>2. HandFrames' = HandFrames
  BY <1>0 DEF HandFrames, Busy, FramesOf, LastOf
<1>3. QueuedFrames' = QueuedFrames \cup FramesOf(LocalBatch)
  <2>1. LocalBatch \in Batch
    BY <1>0 DEF LocalBatch, Batch, IInv, OrderInv, CaptureInv, Capturing
  <2>2. /\ Len(queue) \in Nat /\ Len(queue') = Len(queue) + 1
        /\ queue'[Len(queue) + 1] = LocalBatch
        /\ \A i \in 1 .. Len(queue) : queue'[i] = queue[i]
    BY <1>0, <2>1
  <2>3. QueuedFrames' = UNION {FramesOf(queue'[i]) : i \in 1 .. Len(queue')}
    BY DEF QueuedFrames, FramesOf, LastOf
  <2>4. \A i \in 1 .. Len(queue') : i \in 1 .. Len(queue) \/ i = Len(queue) + 1
    BY <2>2
  <2>5. 1 .. Len(queue) \subseteq 1 .. Len(queue') /\ Len(queue) + 1 \in 1 .. Len(queue')
    BY <2>2
  <2>6. ASSUME NEW f PROVE f \in QueuedFrames' <=> f \in QueuedFrames \cup FramesOf(LocalBatch)
    BY <2>2, <2>3, <2>4, <2>5 DEF QueuedFrames
  <2>7. QED
    BY <2>6
<1>4. QED
  BY <1>1, <1>2, <1>3 DEF Pending

\* The batch that is dequeued goes from the queue to the publisher's hand.
LEMMA PendingTaken ==
  ASSUME IInv, PublisherCheck \/ PublisherWait \/ PublisherLoad \/ PublisherAdjust
  PROVE  Pending' = Pending
<1>0. UNCHANGED <<readerPc, sequence, batchSize, session>> /\ queue \in Seq(Batch)
  <2>1. PublisherStep
    BY DEF PublisherStep
  <2>2. UNCHANGED <<readerPc, sequence, batchSize, session>>
    BY <2>1, PublisherFrame, Zenon
  <2>3. QED
    BY <2>2 DEF IInv, TypeOK, DataTypes
<1>1. LocalFrames' = LocalFrames
  BY <1>0 DEF LocalFrames, LocalBatch, FramesOf, LastOf, Capturing
<1>2. CASE PublisherWait /\ queue # <<>>
  <2>1. /\ publisherPc = "wait" /\ publisherPc' = "load"
        /\ hand' = Head(queue) /\ queue' = Tail(queue)
    BY <1>2 DEF PublisherWait
  <2>2. HandFrames = {} /\ HandFrames' = FramesOf(queue[1])
    BY <1>0, <1>2, <2>1, TailOfQueue DEF HandFrames, Busy, FramesOf, LastOf
  <2>3. /\ QueuedFrames' = UNION {FramesOf(queue'[i]) : i \in 1 .. Len(queue')}
        /\ Len(queue) \in Nat /\ Len(queue') = Len(queue) - 1
    BY <1>0, <1>2, <2>1, TailOfQueue DEF QueuedFrames, FramesOf, LastOf
  <2>4. ASSUME NEW f
        PROVE  f \in QueuedFrames <=> f \in FramesOf(queue[1]) \/ f \in QueuedFrames'
    <3>1. ASSUME f \in QueuedFrames PROVE f \in FramesOf(queue[1]) \/ f \in QueuedFrames'
      <4>1. PICK i \in 1 .. Len(queue) : f \in FramesOf(queue[i])
        BY <3>1 DEF QueuedFrames
      <4>2. i = 1 \/ (i - 1 \in 1 .. Len(queue') /\ queue'[i - 1] = queue[i])
        BY <1>0, <1>2, <2>1, <2>3
      <4>3. QED
        BY <2>3, <4>1, <4>2
    <3>2. ASSUME f \in QueuedFrames' PROVE f \in QueuedFrames
      <4>1. PICK i \in 1 .. Len(queue') : f \in FramesOf(queue'[i])
        BY <2>3, <3>2
      <4>2. i + 1 \in 1 .. Len(queue) /\ queue'[i] = queue[i + 1]
        BY <1>0, <1>2, <2>1, <2>3, TailOfQueue
      <4>3. QED
        BY <4>1, <4>2 DEF QueuedFrames
    <3>3. 1 \in 1 .. Len(queue)
      BY <1>0, <1>2, TailOfQueue
    <3>4. QED
      BY <3>1, <3>2, <3>3 DEF QueuedFrames
  <2>5. QED
    BY <1>1, <2>2, <2>4 DEF Pending
<1>3. CASE ~(PublisherWait /\ queue # <<>>)
  <2>1. UNCHANGED <<queue, hand>> /\ (Busy' <=> Busy)
    <3>1. CASE PublisherCheck
      BY <3>1 DEF PublisherCheck, Busy
    <3>2. CASE PublisherWait
      BY <1>3, <3>2 DEF PublisherWait, Busy
    <3>3. CASE PublisherLoad
      BY <3>3 DEF PublisherLoad, Busy
    <3>4. CASE PublisherAdjust
      BY <3>4 DEF PublisherAdjust, Busy
    <3>5. QED
      BY <3>1, <3>2, <3>3, <3>4
  <2>2. QED
    BY <1>1, <2>1 DEF Pending, QueuedFrames, HandFrames, FramesOf, LastOf
<1>4. QED
  BY <1>2, <1>3

\* What becomes visible is the oldest of what is pending, and all of it that is
\* not newer than the last frame of the batch.
LEMMA PendingShown ==
  ASSUME IInv, PublisherApply
  PROVE  /\ shown' \in Pending /\ Later(shown', shown)
         /\ HandFrames \subseteq Pending /\ Pending' = Pending \ HandFrames
         /\ \A f \in Pending : f \in HandFrames <=> ~Later(f, shown')
         /\ Cardinality(HandFrames) = hand.size
         /\ \A f \in HandFrames : f.session = hand.session
<1>0. /\ UNCHANGED <<readerPc, sequence, batchSize, session, queue>>
      /\ Busy /\ ~Busy' /\ shown' = [session |-> hand.session, frame |-> LastOf(hand)]
      /\ hand \in Batch /\ sequence \in Nat /\ batchSize \in Nat /\ session \in Nat
  <2>1. PublisherStep
    BY DEF PublisherStep
  <2>2. UNCHANGED <<readerPc, sequence, batchSize, session>>
    BY <2>1, PublisherFrame, Zenon
  <2>3. UNCHANGED queue /\ shown' = [session |-> hand.session, frame |-> LastOf(hand)]
    BY Zenon DEF PublisherApply
  <2>4. Busy /\ ~Busy'
    BY DEF PublisherApply, Busy
  <2>5. QED
    BY <2>2, <2>3, <2>4 DEF IInv, TypeOK, DataTypes
<1>1. UNCHANGED <<LocalFrames, QueuedFrames>> /\ HandFrames' = {} /\ HandFrames = FramesOf(hand)
  BY <1>0 DEF LocalFrames, QueuedFrames, HandFrames, LocalBatch, FramesOf, LastOf, Capturing
<1>2. /\ \A f : f \in HandFrames <=> /\ f \in Frame /\ f.session = hand.session
                                     /\ hand.first <= f.frame /\ f.frame <= LastOf(hand)
      /\ Cardinality(HandFrames) = hand.size
  BY <1>0, <1>1, BatchFields, FramesOfBatch
<1>3. hand.session \in Nat /\ LastOf(hand) \in Nat /\ hand.first <= LastOf(hand)
      /\ hand.first \in Nat
  BY <1>0, BatchFields
<1>4. shown' \in HandFrames /\ shown'.session = hand.session /\ shown'.frame = LastOf(hand)
  BY <1>0, <1>2, <1>3 DEF Frame
<1>5. ASSUME NEW f \in HandFrames PROVE ~Later(f, shown')
  BY <1>2, <1>3, <1>4 DEF Later, Frame
<1>6. ASSUME NEW f \in QueuedFrames PROVE Later(f, shown')
  BY <1>4, FramesInOrder
<1>7. ASSUME NEW f \in LocalFrames PROVE Later(f, shown')
  <2>1. f \in Frame /\ Capturing
    BY PendingFrames DEF Pending, LocalFrames
  <2>2. f.session = session /\ NextToQueue <= f.frame
    BY <2>1, FramesInOrder
  <2>3. shown'.session < session \/ (shown'.session = session /\ shown'.frame < NextToQueue)
    <3>1. shown'.session < session \/ shown'.frame < NextToQueue
      BY <1>4, <2>1, FramesInOrder
    <3>2. shown'.session <= session
      BY <1>4, FramesInOrder DEF Pending
    <3>3. QED
      BY <1>0, <1>3, <1>4, <3>1, <3>2
  <2>4. NextToQueue \in Int
    BY <1>0 DEF NextToQueue
  <2>5. QED
    BY <1>0, <1>3, <1>4, <2>1, <2>2, <2>3, <2>4 DEF Later, Frame
<1>8. Pending' = Pending \ HandFrames
  BY <1>1, <1>5, <1>6, <1>7 DEF Pending
<1>9. shown' \in Pending /\ Later(shown', shown)
  BY <1>4, FramesInOrder DEF Pending
<1>10. QED
  BY <1>2, <1>5, <1>6, <1>7, <1>8, <1>9 DEF Pending

\* Without a reader, what the drain takes out of the queue is gone.
LEMMA PendingDrained ==
  ASSUME IInv, DrainOne
  PROVE  ~Capturing /\ Pending' \subseteq Pending
         /\ UNCHANGED <<readerPc, sequence, session, shown, droppedFrames>>
<1>0. /\ queue \in Seq(Batch) /\ queue # <<>> /\ queue' = Tail(queue)
      /\ UNCHANGED <<readerPc, sequence, batchSize, publisherPc, hand, session, shown,
                     droppedFrames>>
  <2>1. /\ queue # <<>> /\ queue' = Tail(queue)
        /\ UNCHANGED <<readerPc, sequence, batchSize, publisherPc, hand, session, shown,
                       droppedFrames>>
    BY Zenon DEF DrainOne
  <2>2. QED
    BY <2>1 DEF IInv, TypeOK, DataTypes
<1>1. ~Capturing
  BY DEF DrainOne, IInv, FlagsInv, NoReader, Capturing
<1>2. UNCHANGED <<LocalFrames, HandFrames>>
  BY <1>0 DEF LocalFrames, HandFrames, LocalBatch, FramesOf, LastOf, Capturing, Busy
<1>3. QueuedFrames' \subseteq QueuedFrames
  <2>1. QueuedFrames' = UNION {FramesOf(queue'[i]) : i \in 1 .. Len(queue')}
    BY DEF QueuedFrames, FramesOf, LastOf
  <2>2. QED
    BY <1>0, <2>1, TailOfQueue DEF QueuedFrames
<1>4. QED
  BY <1>0, <1>1, <1>2, <1>3 DEF Pending

(***************************************************************************)
(* The accounting of the frames.                                           *)
(***************************************************************************)

\* The steps of the control procedures that touch no frame count none either.
LEMMA OtherCounters ==
  ASSUME MainStep \/ Terminate \/ ListenerStep \/ (\E c \in Commands : Receive(c))
         \/ StopFlag \/ StopJoin \/ DrainEnd \/ StopAdc \/ StopEnd
         \/ StartCheck \/ StartMap \/ StartAdc \/ StartEnd \/ Pause \/ Apply \/ Restore
         \/ Unlock \/ UNCHANGED vars
  PROVE  UNCHANGED <<firstSequence, appliedFrames, droppedFrames>> /\ (Fresh' => Fresh)
<1>1. UNCHANGED <<firstSequence, appliedFrames, droppedFrames>>
  BY Zenon DEF MainStep, LockRestore, LockShutdown, JoinPublisher, StopSubscriber,
     ReleaseHardware, Terminate, ListenerStep, LockCommand, UnlockedCommand, Answer, Receive,
     StopFlag, StopJoin, DrainEnd, StopAdc, StopEnd, StartCheck, StartMap, StartAdc, StartEnd,
     Pause, Apply, Restore, Unlock
<1>2. readerPc' = readerPc
  BY OtherFrame, Zenon DEF orderVars
<1>3. ASSUME MainStep \/ Terminate \/ ListenerStep \/ (\E c \in Commands : Receive(c))
             \/ UNCHANGED vars
      PROVE  Fresh' => Fresh
  BY <1>2, <1>3
  DEF Fresh, MainStep, LockRestore, LockShutdown, JoinPublisher, StopSubscriber,
      ReleaseHardware, Terminate, ListenerStep, LockCommand, UnlockedCommand, Answer, Receive,
      FirstStep
<1>4. ASSUME \/ StopFlag \/ StopJoin \/ StopAdc \/ StopEnd \/ DrainEnd \/ StartCheck \/ StartMap
             \/ StartAdc \/ StartEnd \/ Pause \/ Apply \/ Restore \/ Unlock
      PROVE  Fresh' => Fresh
  BY <1>2, <1>4
  DEF Fresh, Goto, StopFlag, StopJoin, StopAdc, StopEnd, DrainEnd, AfterDrain, StartCheck,
      StartMap, StartThrows, StartAdc, StartEnd, Pause, Apply, Restore, Unlock
<1>5. QED
  BY <1>1, <1>3, <1>4

\* A part of the pending frames of this acquisition can be counted apart.
LEMMA CountingApart ==
  ASSUME IInv, NEW F \in SUBSET Pending
  PROVE  /\ Cardinality(PendingHere) \in Nat
         /\ (\A f \in F : f.session = session) =>
              /\ Cardinality({f \in Pending \ F : f.session = session})
                   = Cardinality(PendingHere) - Cardinality(F)
              /\ Cardinality(F) \in Nat
<1>1. IsFiniteSet(PendingHere) /\ Cardinality(PendingHere) \in Nat
  BY PendingFrames, FS_Subset, FS_CardinalityType DEF PendingHere
<1>2. ASSUME \A f \in F : f.session = session
      PROVE  /\ Cardinality({f \in Pending \ F : f.session = session})
                   = Cardinality(PendingHere) - Cardinality(F)
             /\ Cardinality(F) \in Nat
  <2>1. PendingHere \cap F = F /\ {f \in Pending \ F : f.session = session} = PendingHere \ F
    BY <1>2 DEF PendingHere
  <2>2. IsFiniteSet(F)
    BY PendingFrames, FS_Subset
  <2>3. QED
    BY <1>1, <2>1, <2>2, FS_Difference, FS_CardinalityType
<1>3. QED
  BY <1>1, <1>2

\* Every step of the agent keeps the accounts.
LEMMA AccountStep == IInv /\ AccountInv /\ IInv' /\ [Next]_vars => AccountInv'
<1> SUFFICES ASSUME IInv, AccountInv, IInv', [Next]_vars PROVE AccountInv'
  OBVIOUS
<1>0. /\ sequence \in Nat /\ firstSequence \in Nat /\ appliedFrames \in Nat
      /\ droppedFrames \in Nat /\ session \in Nat /\ batchSize \in Nat /\ hand \in Batch
  BY DEF IInv, TypeOK, DataTypes
<1>1. Cardinality(PendingHere) \in Nat
  BY CountingApart
<1>2. ASSUME UNCHANGED orderVars, UNCHANGED <<firstSequence, appliedFrames, droppedFrames>>,
             Fresh' => Fresh
      PROVE  AccountInv'
  <2>1. UNCHANGED <<PendingHere, Capturing, sequence>>
    BY <1>2, PendingUntouched
  <2>2. UNCHANGED FrameAccounting
    BY <1>2, <2>1 DEF FrameAccounting
  <2>3. QED
    BY <1>2, <2>2 DEF AccountInv
<1>3. ASSUME DrainOne PROVE AccountInv'
  <2>1. UNCHANGED <<step, readerPc, appliedFrames, droppedFrames>>
    BY <1>3, Zenon DEF DrainOne
  <2>2. ~Capturing'
    BY <1>3, <2>1, PendingDrained DEF Capturing
  <2>3. QED
    BY <2>1, <2>2 DEF AccountInv, FrameAccounting, Fresh
<1>4. ASSUME StartClear PROVE AccountInv'
  BY <1>4 DEF StartClear, Goto, IInv, FlagsInv, NoReader, AccountInv, FrameAccounting, Capturing
<1>5. ASSUME StartThread PROVE AccountInv'
  <2>1. /\ UNCHANGED <<appliedFrames, droppedFrames>> /\ step = "startThread"
        /\ ~Capturing'
    BY <1>5 DEF StartThread, StartThrows, Goto, IInv, FlagsInv, Capturing
  <2>2. QED
    BY <2>1 DEF AccountInv, FrameAccounting, Fresh
<1>6. ASSUME ReaderStep PROVE AccountInv'
  <2>0. UNCHANGED <<session, appliedFrames>>
    BY <1>6, Zenon DEF ReaderStep, ReaderBegin, ReaderCheck, ReaderRead, ReaderFlush,
       ReaderEnqueue, ReaderAdd
  <2>1. ~Fresh'
    <3>1. UNCHANGED step /\ readerPc # "dead" /\ readerPc' # "begin"
      BY <1>6 DEF ReaderStep, ReaderBegin, ReaderCheck, ReaderRead, ReaderFlush,
         ReaderEnqueue, ReaderAdd, AfterFlush
    <3>2. QED
      BY <3>1 DEF Fresh, IInv, FlagsInv, NoReader
  <2>2. PendingHere' = {f \in Pending' : f.session = session}
    BY <2>0 DEF PendingHere
  <2>3. CASE ReaderBegin
    <3>1. /\ Pending' = Pending /\ sequence' = firstSequence' /\ sequence' \in Nat
          /\ droppedFrames' = droppedFrames /\ Fresh /\ ~Capturing
      BY <2>3, PendingKept
      DEF ReaderBegin, Fresh, Capturing, IInv, TypeOK, DataTypes
    <3>2. QueuedFrames = {} /\ LocalFrames = {} /\ \A f \in HandFrames : f.session < session
      <4>1. queue = <<>> /\ (Busy => hand.session < session)
        BY <3>1 DEF IInv, FreshInv
      <4>2. QED
        BY <1>0, <3>1, <4>1, BatchFields, FramesOfBatch
        DEF QueuedFrames, LocalFrames, HandFrames
    <3>3. PendingHere' = {}
      <4>1. \A f \in Pending : f.session < session
        BY <3>2 DEF Pending
      <4>2. \A f \in Pending : f.session # session
        BY <1>0, <4>1, PendingFrames DEF Frame
      <4>3. QED
        BY <2>2, <3>1, <4>2
    <3>4. Cardinality(PendingHere') = 0
      BY <3>3, FS_EmptySet
    <3>5. appliedFrames' = 0 /\ droppedFrames' = 0
      BY <2>0, <3>1 DEF AccountInv
    <3>6. sequence' - firstSequence' = 0
      <4>1. firstSequence' \in Int /\ sequence' = firstSequence'
        BY <3>1 DEF IInv, TypeOK, DataTypes
      <4>2. \A n \in Int : n - n = 0
        OBVIOUS
      <4>3. firstSequence' - firstSequence' = 0
        BY <4>1, <4>2
      <4>4. QED
        BY <4>1, <4>3, Zenon
    <3>7. FrameAccounting'
      BY <3>4, <3>5, <3>6 DEF FrameAccounting
    <3>8. QED
      BY <2>1, <3>7 DEF AccountInv
  <2>4. CASE ReaderCheck \/ ReaderAdd \/ ReaderEnqueue \/ (ReaderRead /\ UNCHANGED sequence)
             \/ (ReaderFlush /\ UNCHANGED batchSize)
    <3>1. Pending' = Pending
      BY <2>4, PendingKept, PendingQueued
    <3>2. UNCHANGED <<sequence, firstSequence, droppedFrames>>
      BY <2>4, <1>0 DEF ReaderCheck, ReaderAdd, ReaderEnqueue, ReaderRead, ReaderFlush
    <3>3. Capturing
      BY <2>4 DEF ReaderCheck, ReaderAdd, ReaderEnqueue, ReaderRead, ReaderFlush, Capturing
    <3>4. PendingHere' = PendingHere
      BY <2>2, <3>1 DEF PendingHere
    <3>5. QED
      BY <2>0, <2>1, <3>2, <3>3, <3>4, Zenon DEF AccountInv, FrameAccounting
  <2>5. CASE ReaderRead /\ sequence' # sequence
    <3> DEFINE new == [session |-> session, frame |-> sequence]
    <3>1. /\ sequence' = sequence + 1 /\ Pending' = Pending \cup {new} /\ new \notin Pending
      BY <2>5, PendingCaptured
    <3>2. UNCHANGED <<firstSequence, droppedFrames>> /\ Capturing
      BY <2>5 DEF ReaderRead, Capturing
    <3>3. PendingHere' = PendingHere \cup {new} /\ new \notin PendingHere
      BY <2>2, <3>1 DEF PendingHere
    <3>4. IsFiniteSet(PendingHere)
      BY PendingFrames, FS_Subset DEF PendingHere
    <3>5. Cardinality(PendingHere') = Cardinality(PendingHere) + 1
      BY <3>3, <3>4, FS_AddElement
    <3>6. QED
      BY <1>0, <1>1, <2>0, <2>1, <3>1, <3>2, <3>5 DEF AccountInv, FrameAccounting
  <2>6. CASE ReaderFlush /\ batchSize' # batchSize
    <3>1. /\ Pending' = Pending \ LocalFrames /\ LocalFrames \in SUBSET Pending
          /\ Cardinality(LocalFrames) = batchSize /\ batchSize > 0
          /\ \A f \in LocalFrames : f.session = session
      BY <2>6, PendingDropped
    <3>2. UNCHANGED <<sequence, firstSequence>> /\ Capturing
          /\ droppedFrames' = droppedFrames + batchSize
      BY <2>6 DEF ReaderFlush, Capturing
    <3>3. Cardinality(PendingHere') = Cardinality(PendingHere) - batchSize
      BY <2>2, <3>1, CountingApart
    <3>4. QED
      BY <1>0, <1>1, <2>0, <2>1, <3>2, <3>3 DEF AccountInv, FrameAccounting
  <2>7. QED
    BY <1>6, <2>3, <2>4, <2>5, <2>6 DEF ReaderStep
<1>7. ASSUME PublisherStep PROVE AccountInv'
  <2>0. UNCHANGED <<readerPc, sequence, firstSequence, session, step>>
        /\ (Capturing' <=> Capturing) /\ (Fresh' <=> Fresh)
    BY <1>7, PublisherFrame DEF Capturing, Fresh
  <2>1. droppedFrames' = droppedFrames
    BY <1>7, Zenon DEF PublisherStep, PublisherCheck, PublisherWait, PublisherLoad,
       PublisherAdjust, PublisherApply
  <2>2. PendingHere' = {f \in Pending' : f.session = session}
    BY <2>0 DEF PendingHere
  <2>3. CASE PublisherApply
    <3>1. /\ HandFrames \in SUBSET Pending /\ Pending' = Pending \ HandFrames
          /\ Cardinality(HandFrames) = hand.size
          /\ \A f \in HandFrames : f.session = hand.session
      BY <2>3, PendingShown
    <3>2. appliedFrames' = appliedFrames + IF hand.session = session THEN hand.size ELSE 0
      BY <2>3 DEF PublisherApply
    <3>3. Fresh => hand.session # session
      <4>1. Busy
        BY <2>3 DEF PublisherApply, Busy
      <4>2. QED
        BY <1>0, <4>1, BatchFields DEF IInv, FreshInv
    <3>4. CASE hand.session = session
      <4>1. Cardinality(PendingHere') = Cardinality(PendingHere) - hand.size
        BY <2>2, <3>1, <3>4, CountingApart
      <4>2. appliedFrames' = appliedFrames + hand.size /\ hand.size \in Nat
        BY <1>0, <3>2, <3>4, BatchFields
      <4>3. QED
        BY <1>0, <1>1, <2>0, <2>1, <3>3, <3>4, <4>1, <4>2 DEF AccountInv, FrameAccounting
    <3>5. CASE hand.session # session
      <4>1. PendingHere' = PendingHere
        BY <2>2, <3>1, <3>5 DEF PendingHere
      <4>2. appliedFrames' = appliedFrames
        BY <1>0, <3>2, <3>5
      <4>3. QED
        BY <2>0, <2>1, <4>1, <4>2, Zenon DEF AccountInv, FrameAccounting
    <3>6. QED
      BY <3>4, <3>5
  <2>4. CASE PublisherCheck \/ PublisherWait \/ PublisherLoad \/ PublisherAdjust
    <3>1. PendingHere' = PendingHere
      BY <2>2, <2>4, PendingTaken DEF PendingHere
    <3>2. appliedFrames' = appliedFrames
      BY <2>4, Zenon DEF PublisherCheck, PublisherWait, PublisherLoad, PublisherAdjust
    <3>3. QED
      BY <2>0, <2>1, <3>1, <3>2, Zenon DEF AccountInv, FrameAccounting
  <2>5. QED
    BY <1>7, <2>3, <2>4 DEF PublisherStep
<1>8. ASSUME Crash PROVE AccountInv'
  BY <1>8 DEF Crash, AccountInv, FrameAccounting, Fresh, Capturing
<1>9. QED
  BY <1>2, <1>3, <1>4, <1>5, <1>6, <1>7, <1>8, OtherFrame, OtherCounters
  DEF Next, ControlStep, Ended

\* In every reachable state each frame that the reader has captured in this
\* acquisition is in its batch, queued, with the publisher, visible or counted in
\* _droppedFrames (flushBatch), and in one of these places only.
THEOREM FramesAccounted == Spec => []FrameAccounting
<1>1. Init => AccountInv
  BY DEF Init, AccountInv, FrameAccounting, Fresh, Capturing
<1>2. QED
  BY <1>1, InvInit, InvStep, AccountStep, PTL DEF Spec, AccountInv

(***************************************************************************)
(* The agent implements FrameStream.                                       *)
(***************************************************************************)

\* Both modules mean the same by a later frame.
LEMMA LaterIsLater == \A f, g : Stream!Later(f, g) <=> Later(f, g)
BY DEF Stream!Later, Later

\* And both count alike.
LEMMA CountIsCount == \A S : Stream!Cardinality(S) = Cardinality(S)
BY DEF Stream!Cardinality, Cardinality

\* The agent begins as the stream does.
LEMMA StreamInit == Init => Stream!Init
<1> SUFFICES ASSUME Init PROVE Stream!Init
  OBVIOUS
<1>1. LocalFrames = {} /\ QueuedFrames = {} /\ HandFrames = {}
  BY DEF Init, LocalFrames, QueuedFrames, HandFrames, Capturing, Busy
<1>2. QED
  BY <1>1 DEF Init, Stream!Init, Pending, Capturing

\* Every step of the reader is a capture, an end, a loss that is counted, or
\* nothing that a watcher of the frames would see.
LEMMA ReaderStream ==
  ASSUME IInv, IInv', ReaderStep
  PROVE  [Stream!Next]_Stream!streamVars
<1>0. /\ sequence \in Nat /\ droppedFrames \in Nat /\ batchSize \in Nat
      /\ session \in Nat /\ sequence' \in Nat
      /\ UNCHANGED <<session, shown>>
  BY ReaderFrame DEF IInv, TypeOK, DataTypes
<1>1. CASE ReaderBegin
  <2>1. /\ Pending' = Pending /\ droppedFrames' = droppedFrames
        /\ ~Capturing /\ Capturing' = TRUE /\ readerPc = "begin"
    BY <1>1, PendingKept DEF ReaderBegin, Capturing
  <2>2. queue = <<>> /\ shown.session < session /\ (Busy => hand.session < session)
    BY <2>1 DEF IInv, FreshInv, Fresh
  <2>3. \A f \in Pending : f.session < session
    <3>1. QueuedFrames = {} /\ LocalFrames = {}
      BY <2>1, <2>2 DEF QueuedFrames, LocalFrames
    <3>2. hand \in Batch
      BY DEF IInv, TypeOK, DataTypes
    <3>3. \A f \in HandFrames : f.session < session
      BY <2>2, <3>2, BatchFields, FramesOfBatch DEF HandFrames
    <3>4. QED
      BY <3>1, <3>3 DEF Pending
  <2>4. Stream!Open
    BY <1>0, <2>1, <2>2, <2>3 DEF Stream!Open
  <2>5. QED
    BY <2>4 DEF Stream!Next
<1>2. CASE ReaderCheck \/ ReaderEnqueue \/ (ReaderRead /\ UNCHANGED sequence)
  <2>1. Pending' = Pending
    BY <1>2, PendingKept, PendingQueued
  <2>2. UNCHANGED <<sequence, droppedFrames>> /\ Capturing /\ Capturing'
    BY <1>2 DEF ReaderCheck, ReaderEnqueue, ReaderRead, Capturing
  <2>3. QED
    BY <1>0, <2>1, <2>2 DEF Stream!streamVars, Capturing
<1>3. CASE ReaderAdd \/ (ReaderFlush /\ UNCHANGED batchSize)
  <2>1. Pending' = Pending
    BY <1>3, PendingKept
  <2>2. UNCHANGED <<sequence, droppedFrames>> /\ Capturing /\ Capturing' \in BOOLEAN
    BY <1>0, <1>3 DEF ReaderAdd, ReaderFlush, Capturing
  <2>3. CASE Capturing'
    BY <1>0, <2>1, <2>2, <2>3 DEF Stream!streamVars, Capturing
  <2>4. CASE ~Capturing'
    <3>1. Stream!Close
      BY <1>0, <2>1, <2>2, <2>4 DEF Stream!Close, Capturing
    <3>2. QED
      BY <3>1 DEF Stream!Next
  <2>5. QED
    BY <2>3, <2>4
<1>4. CASE ReaderRead /\ sequence' # sequence
  <2>1. /\ sequence' = sequence + 1
        /\ Pending' = Pending \cup {[session |-> session, frame |-> sequence]}
    BY <1>4, PendingCaptured
  <2>2. UNCHANGED droppedFrames /\ Capturing /\ Capturing'
    BY <1>4 DEF ReaderRead, Capturing
  <2>3. Stream!Capture
    BY <1>0, <2>1, <2>2 DEF Stream!Capture, Capturing
  <2>4. QED
    BY <2>3 DEF Stream!Next
<1>5. CASE ReaderFlush /\ batchSize' # batchSize
  <2> DEFINE first == [session |-> session, frame |-> sequence - batchSize]
  <2>1. /\ Pending' = Pending \ LocalFrames /\ LocalFrames \subseteq Pending
        /\ Cardinality(LocalFrames) = batchSize
        /\ first \in LocalFrames
        /\ \A f \in Pending : f \in LocalFrames <=> ~Later(first, f)
    BY <1>5, PendingDropped
  <2>2. UNCHANGED sequence /\ Capturing /\ droppedFrames' = droppedFrames + batchSize
    BY <1>5 DEF ReaderFlush, Capturing
  <2>3. Capturing' \in BOOLEAN
    BY DEF Capturing
  <2>4. Pending' = {g \in Pending : Stream!Later(first, g)}
    BY <2>1, LaterIsLater
  <2>5. Pending \ Pending' = LocalFrames
    BY <2>1
  <2>6. first \in Pending /\ first.session = session
    BY <2>1
  <2>7. Stream!Drop(first)
    BY <1>0, <2>1, <2>2, <2>3, <2>4, <2>5, <2>6, CountIsCount DEF Stream!Drop
  <2>8. QED
    BY <2>6, <2>7 DEF Stream!Next
<1>6. QED
  BY <1>1, <1>2, <1>3, <1>4, <1>5 DEF ReaderStep

\* Every step of the publisher moves on what is visible, over all the frames up
\* to the one that it shows, or is invisible.
LEMMA PublisherStream ==
  ASSUME IInv, PublisherStep
  PROVE  [Stream!Next]_Stream!streamVars
<1>0. UNCHANGED <<readerPc, session, sequence>> /\ UNCHANGED Capturing
  BY PublisherFrame DEF Capturing
<1>1. droppedFrames' = droppedFrames
  BY Zenon DEF PublisherStep, PublisherCheck, PublisherWait, PublisherLoad,
     PublisherAdjust, PublisherApply
<1>2. CASE PublisherApply
  <2>1. /\ shown' \in Pending /\ Later(shown', shown)
        /\ Pending' = Pending \ HandFrames
        /\ \A f \in Pending : f \in HandFrames <=> ~Later(f, shown')
    BY <1>2, PendingShown
  <2>2. Pending' = {g \in Pending : Stream!Later(g, shown')}
    BY <2>1, LaterIsLater
  <2>3. \E f \in Pending : Stream!Show(f)
    BY <1>0, <1>1, <2>1, <2>2, LaterIsLater DEF Stream!Show
  <2>4. QED
    BY <2>3 DEF Stream!Next
<1>3. CASE PublisherCheck \/ PublisherWait \/ PublisherLoad \/ PublisherAdjust
  <2>1. shown' = shown
    BY <1>3, Zenon DEF PublisherCheck, PublisherWait, PublisherLoad, PublisherAdjust
  <2>2. Pending' = Pending
    BY <1>3, PendingTaken
  <2>3. QED
    BY <1>0, <1>1, <2>1, <2>2 DEF Stream!streamVars
<1>4. QED
  BY <1>2, <1>3 DEF PublisherStep

\* Every step of the agent is a step of the stream or invisible in it.
LEMMA StreamStep == IInv /\ IInv' /\ [Next]_vars => [Stream!Next]_Stream!streamVars
<1> SUFFICES ASSUME IInv, IInv', [Next]_vars PROVE [Stream!Next]_Stream!streamVars
  OBVIOUS
<1>1. ASSUME UNCHANGED orderVars, UNCHANGED droppedFrames
      PROVE  [Stream!Next]_Stream!streamVars
  BY <1>1, PendingUntouched DEF Stream!streamVars
<1>2. ASSUME DrainOne PROVE [Stream!Next]_Stream!streamVars
  <2>1. /\ ~Capturing /\ Pending' \in SUBSET Pending /\ UNCHANGED Capturing
        /\ UNCHANGED <<sequence, session, shown, droppedFrames>>
    BY <1>2, PendingDrained DEF Capturing
  <2>2. Stream!Discard
    BY <2>1 DEF Stream!Discard
  <2>3. QED
    BY <2>2 DEF Stream!Next
<1>3. ASSUME StartClear PROVE [Stream!Next]_Stream!streamVars
  <2>1. /\ UNCHANGED <<readerPc, sequence, batchSize, queue, publisherPc, hand, shown>>
        /\ session' = session + 1 /\ droppedFrames' = 0 /\ ~Capturing
    BY <1>3 DEF StartClear, Goto, IInv, FlagsInv, NoReader, Capturing
  <2>2. UNCHANGED <<Capturing, LocalFrames, QueuedFrames, HandFrames>>
    BY <2>1 DEF LocalFrames, QueuedFrames, HandFrames, FramesOf, LastOf, Capturing, Busy
  <2>3. Stream!Renew
    BY <2>1, <2>2 DEF Stream!Renew, Pending
  <2>4. QED
    BY <2>3 DEF Stream!Next
<1>4. ASSUME StartThread PROVE [Stream!Next]_Stream!streamVars
  <2>1. /\ UNCHANGED <<sequence, batchSize, queue, publisherPc, hand, session, shown,
                       droppedFrames>>
        /\ ~Capturing /\ ~Capturing'
    BY <1>4 DEF StartThread, StartThrows, Goto, IInv, FlagsInv, Capturing
  <2>2. UNCHANGED <<LocalFrames, QueuedFrames, HandFrames>>
    BY <2>1 DEF LocalFrames, QueuedFrames, HandFrames, FramesOf, LastOf, Busy
  <2>3. QED
    BY <2>1, <2>2 DEF Stream!streamVars, Pending, Capturing
<1>5. ASSUME Crash PROVE [Stream!Next]_Stream!streamVars
  <2>1. /\ session' = session + 1 /\ sequence' = 0 /\ droppedFrames' = 0 /\ shown' = shown
        /\ readerPc' = "dead" /\ queue' = <<>> /\ publisherPc' = "check"
    BY <1>5 DEF Crash
  <2>2. Pending' = {} /\ Capturing' = FALSE
    BY <2>1 DEF Pending, LocalFrames, QueuedFrames, HandFrames, Capturing, Busy
  <2>3. Stream!Crash
    BY <2>1, <2>2 DEF Stream!Crash
  <2>4. QED
    BY <2>3 DEF Stream!Next
<1>6. QED
  BY <1>1, <1>2, <1>3, <1>4, <1>5, OtherFrame, OtherCounters, ReaderStream, PublisherStream
  DEF Next, ControlStep, Ended

\* Whatever starts, stops, faults and crashes come in between, what is visible
\* (publisherLoop) moves on over every frame that was captured and not given up, and
\* readerLoop gives up frames only with a count or after acquisition has ended.
THEOREM AcquisitionImplementsFrameStream == Spec => ImplementsFrameStream
<1>1. QED
  BY Invariance, StreamInit, StreamStep, PTL DEF Spec, ImplementsFrameStream, Stream!Spec
=============================================================================
