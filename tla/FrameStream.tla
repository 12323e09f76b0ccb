----------------------------- MODULE FrameStream -----------------------------
(***************************************************************************)
(* What the acquisition agent promises to whoever watches its frames.      *)
(* Frames of one acquisition are numbered without a gap as they are        *)
(* captured.  What is visible only moves on, over all the frames up to     *)
(* the one it moves to.  As long as frames are captured, none that is not  *)
(* visible yet is given up without being counted; only when capturing has  *)
(* stopped are the remaining ones discarded.  AcquisitionRuntime           *)
(* implements this specification.                                          *)
(***************************************************************************)
EXTENDS Naturals, FiniteSets

VARIABLES
  session,   \* which acquisition this is
  open,      \* are frames being captured?
  next,      \* the number of the next frame
  pending,   \* the frames captured that are neither visible nor given up
  shown,     \* the frame made visible last
  dropped    \* how many frames of this acquisition were given up

streamVars == <<session, open, next, pending, shown, dropped>>

Frame == [session: Nat, frame: Nat]
Later(f, g) == f.session > g.session \/ (f.session = g.session /\ f.frame > g.frame)

Init == /\ session = 0 /\ open = FALSE /\ next = 0 /\ dropped = 0
        /\ pending = {} /\ shown = [session |-> 0, frame |-> 0]

\* A new acquisition; frames of the one before may still be on their way.
Renew == /\ ~open
         /\ session' = session + 1 /\ dropped' = 0
         /\ UNCHANGED <<open, next, pending, shown>>

Open == /\ ~open /\ open' = TRUE
        /\ \A f \in pending \cup {shown}: f.session < session
        /\ next' \in Nat
        /\ UNCHANGED <<session, pending, shown, dropped>>

Capture == /\ open
           /\ pending' = pending \cup {[session |-> session, frame |-> next]}
           /\ next' = next + 1
           /\ UNCHANGED <<session, open, shown, dropped>>

\* The frames up to f are visible.
Show(f) == /\ f \in pending /\ Later(f, shown)
           /\ shown' = f /\ pending' = {g \in pending: Later(g, f)}
           /\ UNCHANGED <<session, open, next, dropped>>

\* The newest frames, from f on, are given up, perhaps when capturing ends.
Drop(f) == /\ open /\ open' \in BOOLEAN
           /\ f \in pending /\ f.session = session
           /\ pending' = {g \in pending: Later(f, g)}
           /\ dropped' = dropped + Cardinality(pending \ pending')
           /\ UNCHANGED <<session, next, shown>>

Close == /\ open /\ open' = FALSE
         /\ UNCHANGED <<session, next, pending, shown, dropped>>

Discard == /\ ~open
           /\ pending' \in SUBSET pending
           /\ UNCHANGED <<session, open, next, shown, dropped>>

\* The process is killed; what was visible is not captured again.
Crash == /\ session' = session + 1 /\ open' = FALSE /\ next' = 0
         /\ pending' = {} /\ dropped' = 0
         /\ UNCHANGED shown

Next == \/ Renew \/ Open \/ Capture \/ Close \/ Discard \/ Crash
        \/ \E f \in pending: Show(f) \/ Drop(f)

Spec == Init /\ [][Next]_streamVars
=============================================================================
