--------------------------- MODULE CommandService ---------------------------
(***************************************************************************)
(* What the web interface promises a client that sends one acquisition     *)
(* command after the other: a command that is answered has been carried    *)
(* out, and every command gets an answer or is given up.  The promise is   *)
(* void for a command in EarlyActions, and once the server has restarted.  *)
(* DdsCommandBridge implements this specification.                         *)
(***************************************************************************)
EXTENDS Naturals, Sequences

CONSTANTS
  Actions,        \* what a client can ask for
  EarlyActions    \* the actions answered before they are complete

VARIABLES
  sent,           \* every action asked for, the latest one last
  open,           \* does the client wait for the latest one?
  verdict,        \* what it was told: "none", "answered" or "givenUp"
  carriedOut,     \* the places in `sent' of the actions the device has done
  forgotten       \* the server has lost its memory of what was sent

serviceVars == <<sent, open, verdict, carriedOut, forgotten>>

Trustworthy(n) == ~forgotten /\ sent[n] \notin EarlyActions

Init == /\ sent = <<>> /\ open = FALSE /\ verdict = "none"
        /\ carriedOut = {} /\ forgotten = FALSE

Ask(a) == /\ ~open
          /\ sent' = Append(sent, a) /\ open' = TRUE /\ verdict' = "none"
          /\ UNCHANGED <<carriedOut, forgotten>>

\* The command does not even leave the server.
Refuse(a) == /\ ~open
             /\ sent' = Append(sent, a) /\ verdict' = "givenUp"
             /\ UNCHANGED <<open, carriedOut, forgotten>>

\* A command may be carried out again, or after it was given up.
CarryOut(n) == /\ carriedOut' = carriedOut \cup {n}
               /\ UNCHANGED <<sent, open, verdict, forgotten>>

Answer == /\ open
          /\ Trustworthy(Len(sent)) => Len(sent) \in carriedOut
          /\ open' = FALSE /\ verdict' = "answered"
          /\ UNCHANGED <<sent, carriedOut, forgotten>>

GiveUp == /\ open
          /\ open' = FALSE /\ verdict' = "givenUp"
          /\ UNCHANGED <<sent, carriedOut, forgotten>>

Forget == /\ open' = FALSE /\ verdict' = "none" /\ forgotten' = TRUE
          /\ UNCHANGED <<sent, carriedOut>>

Next == \/ \E a \in Actions: Ask(a) \/ Refuse(a)
        \/ \E n \in DOMAIN sent: CarryOut(n)
        \/ Answer \/ GiveUp \/ Forget

SafetySpec == Init /\ [][Next]_serviceVars
Spec == SafetySpec /\ WF_serviceVars(Answer \/ GiveUp)
=============================================================================
