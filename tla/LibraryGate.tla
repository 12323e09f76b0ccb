----------------------------- MODULE LibraryGate -----------------------------
(***************************************************************************)
(* What the requests of a bundle and the stop of the bundle promise to one *)
(* another about the bundle's library.  There is a gate: requests are let  *)
(* in while it is open, and none after stop() has begun to close it.       *)
(* stop() waits until nobody is inside, or gives those up who are, for its *)
(* patience is limited; then the gate is closed, and only then the library *)
(* may be unloaded.  LogStreamLifecycle implements this specification with *)
(* a flag and a counter.                                                   *)
(***************************************************************************)
EXTENDS Naturals

CONSTANTS
  Requests,   \* whoever may want to be let in
  Patience    \* how often stop() waits at most

VARIABLES
  gate,       \* "open", "closing" or "closed"
  inside,     \* the requests that were let in and stop() has to wait for
  givenUp,    \* those that it has not waited for
  waits,      \* how often it has waited
  unloaded,   \* has the library ever been unloaded?
  down        \* a request has run into code that was unloaded

gateVars == <<gate, inside, givenUp, waits, unloaded, down>>

Init == /\ gate = "open" /\ inside = {} /\ givenUp = {}
        /\ waits = 0 /\ unloaded = FALSE /\ down = FALSE

Enter(r) == /\ ~down /\ gate = "open" /\ inside' = inside \cup {r}
            /\ UNCHANGED <<gate, givenUp, waits, unloaded, down>>

Leave(r) == /\ ~down /\ r \in inside \cup givenUp
            /\ inside' = inside \ {r} /\ givenUp' = givenUp \ {r}
            /\ UNCHANGED <<gate, waits, unloaded, down>>

Close == /\ ~down /\ gate = "open" /\ gate' = "closing" /\ waits' = 0
         /\ UNCHANGED <<inside, givenUp, unloaded, down>>

Wait == /\ ~down /\ gate = "closing" /\ waits < Patience /\ waits' = waits + 1
        /\ UNCHANGED <<gate, inside, givenUp, unloaded, down>>

Finish == /\ ~down /\ gate = "closing" /\ (inside = {} \/ waits >= Patience)
          /\ gate' = "closed" /\ givenUp' = inside /\ inside' = {}
          /\ UNCHANGED <<waits, unloaded, down>>

\* A library that was not unloaded still has in it whom stop() gave up.
Open == /\ ~down /\ gate = "closed" /\ gate' = "open"
        /\ inside' = givenUp /\ givenUp' = {}
        /\ UNCHANGED <<waits, unloaded, down>>

Unload == /\ ~down /\ gate = "closed" /\ unloaded' = TRUE /\ givenUp' = {}
          /\ UNCHANGED <<gate, inside, waits, down>>

\* A thread on its way to the gate, away from it, or given up, finds its code gone.
Die == /\ ~down /\ unloaded /\ down' = TRUE
       /\ UNCHANGED <<gate, inside, givenUp, waits, unloaded>>

Next == \/ Close \/ Wait \/ Finish \/ Open \/ Unload \/ Die
        \/ \E r \in Requests: Enter(r) \/ Leave(r)

SafetySpec == Init /\ [][Next]_gateVars
Spec == SafetySpec /\ WF_gateVars(Wait \/ Finish)
=============================================================================
