-------------------------- MODULE DdsCommandBridge --------------------------
(***************************************************************************)
(* How a command travels from the web server to the acquisition agent and  *)
(* how its answer comes back: DdsAcquisitionBridge and the process manager *)
(* of src/webUI/JNDM123/AD7606/src, two DDS topics, and the part of        *)
(* AcquisitionRuntime that numbers, records and publishes.                 *)
(*                                                                         *)
(* Two threads of the server take part: the caller, which sends commands   *)
(* under _controlMutex and so never overlaps with itself, and the handler  *)
(* of "restart-process", which takes no such lock.  Both use the process   *)
(* manager under its own mutex.  Two threads of the agent publish          *)
(* snapshots: the listener, which carries out commands, and the publisher. *)
(*                                                                         *)
(* Both topics keep the last sample only: a slot at the writer, kept for a *)
(* reader that comes late, and a slot at the reader.  A slot is a set of   *)
(* at most one element.  A sample that is delivered late is one that is    *)
(* taken late.  At most one agent runs at a time.                          *)
(***************************************************************************)
EXTENDS Naturals, Sequences

CONSTANTS
  Actions,        \* the actions clients ask for
  CallBudget,     \* bound: commands numbered in all
  LaunchBudget,   \* bound: agent processes launched
  IncidentBudget  \* bound: resets, crashes and server restarts in all

\* handleControlMessage stores the number of these before it is done.
EarlyActions == {"divider-apply"}

ASSUME ActionsAssumption == Actions \subseteq {"start", "stop", "divider-apply"}
ASSUME BudgetAssumption ==
  CallBudget \in Nat /\ LaunchBudget \in Nat /\ IncidentBudget \in Nat

VARIABLES
  pc,                \* where the caller and the handler are
  managerLock,       \* who holds agentManagerMutex
  nextSequence,      \* _nextCommandSequence
  seen,              \* _lastCommandSequenceSeen
  latest,            \* slot: _latestPayloadText
  control,           \* slot of the server's writer
  controlUnread,     \* slot of the agent's reader
  snapshot,          \* slot of the agent's writer
  snapshotUnread,    \* slot of the server's reader
  agent,             \* the agent process: "none", "up" or "stopping"
  listenerPc,        \* its listener thread
  executing,         \* slot: the command the listener carries out
  recorded,          \* _lastCommandSequence
  held,              \* per thread, slot: the snapshot it is about to write
  sent,              \* ghost: the actions of all commands
  carriedOut,        \* ghost: the commands an agent has finished
  result,            \* ghost: what the caller was told of the latest command
  forgotten,         \* ghost: the server has been restarted
  launches, incidents   \* bounds

serverVars == <<pc, managerLock, nextSequence, seen, latest>>
topicVars == <<control, controlUnread, snapshot, snapshotUnread>>
agentVars == <<agent, listenerPc, executing, recorded, held>>
ghostVars == <<sent, carriedOut, result, forgotten>>
boundVars == <<launches, incidents>>
vars == <<serverVars, topicVars, agentVars, ghostVars, boundVars>>

Actors == {"caller", "handler"}
Publishers == {"listener", "publisher"}

Steps == {"idle", "statusLock", "statusEnsure", "publish", "poll",
          "restartLock", "kill", "wait", "restartEnsure"}
ListenerSteps == {"idle", "work", "record", "rest", "compose", "write"}
Command == [sequence: Nat \ {0}, id: Nat \ {0}]
Snapshot == Nat    \* a snapshot is the commandSequence in it
Result == [kind: {"none", "answered", "givenUp"}, snapshot: Snapshot]
NoResult == [kind |-> "none", snapshot |-> 0]
GivenUp == [kind |-> "givenUp", snapshot |-> 0]

Incident == incidents < IncidentBudget /\ incidents' = incidents + 1

At(a, s) == pc[a] = s
Goes(a, s) == pc' = [pc EXCEPT ![a] = s]

-----------------------------------------------------------------------------
\* The bundle has started and its bridge with it; the service of the
\* acquisition bundle may have launched an agent already.
Init ==
  /\ pc = [a \in Actors |-> "idle"] /\ managerLock = "nobody"
  /\ nextSequence = 0 /\ seen = 0 /\ latest = {}
  /\ control = {} /\ controlUnread = {} /\ snapshot = {} /\ snapshotUnread = {}
  /\ agent \in {"none", "up"} /\ listenerPc = "idle" /\ executing = {}
  /\ recorded = 0 /\ held = [t \in Publishers |-> {}]
  /\ sent = <<>> /\ carriedOut = {} /\ result = NoResult
  /\ forgotten = FALSE /\ launches = 0 /\ incidents = 0

-----------------------------------------------------------------------------
(***************************************************************************)
(* The caller: sendCommandAndAwait.                                        *)
(***************************************************************************)
Call ==
  /\ At("caller", "idle") /\ Len(sent) < CallBudget
  /\ Goes("caller", "statusLock")
  /\ UNCHANGED <<managerLock, nextSequence, seen, latest, topicVars, agentVars, ghostVars,
                 boundVars>>

\* Mutant: the number before the increment goes out.
PublishOldNumber(a) ==
  /\ At("caller", "publish") /\ Goes("caller", "poll")
  /\ nextSequence' = nextSequence + 1 /\ sent' = Append(sent, a) /\ result' = NoResult
  /\ control' = {[sequence |-> nextSequence, id |-> Len(sent) + 1]}
  /\ controlUnread' = IF agent = "none" THEN controlUnread ELSE control'
  /\ UNCHANGED <<managerLock, seen, latest, snapshot, snapshotUnread, agentVars, carriedOut,
                 forgotten, boundVars>>

\* Mutant: the topic keeps the first sample for those who come late.
PublishKeepingFirst(a) ==
  /\ At("caller", "publish") /\ Goes("caller", "poll")
  /\ nextSequence' = nextSequence + 1 /\ sent' = Append(sent, a) /\ result' = NoResult
  /\ LET c == [sequence |-> nextSequence + 1, id |-> Len(sent) + 1]
     IN  /\ control' = IF control = {} THEN {c} ELSE control
         /\ controlUnread' = IF agent = "none" THEN controlUnread ELSE {c}
  /\ UNCHANGED <<managerLock, seen, latest, snapshot, snapshotUnread, agentVars, carriedOut,
                 forgotten, boundVars>>

Publish(a) ==
  /\ At("caller", "publish") /\ Goes("caller", "poll")
  /\ nextSequence' = nextSequence + 1 /\ sent' = Append(sent, a) /\ result' = NoResult
  /\ control' = {[sequence |-> nextSequence + 1, id |-> Len(sent) + 1]}
  /\ controlUnread' = IF agent = "none" THEN controlUnread ELSE control'
  /\ UNCHANGED <<managerLock, seen, latest, snapshot, snapshotUnread, agentVars, carriedOut,
                 forgotten, boundVars>>

PublishFails(a) ==
  /\ At("caller", "publish") /\ Goes("caller", "idle")
  /\ nextSequence' = nextSequence + 1 /\ sent' = Append(sent, a) /\ result' = GivenUp
  /\ UNCHANGED <<managerLock, seen, latest, topicVars, agentVars, carriedOut, forgotten, boundVars>>

\* Mutant: any snapshot is an answer.
PollAny ==
  /\ At("caller", "poll") /\ latest # {}
  /\ Goes("caller", "idle")
  /\ \E s \in latest: result' = [kind |-> "answered", snapshot |-> s]
  /\ UNCHANGED <<managerLock, nextSequence, seen, latest, topicVars, agentVars, sent,
                 carriedOut, forgotten, boundVars>>

\* One round of the loop finds an answer: nextSequence is this command's number.
Poll ==
  /\ At("caller", "poll") /\ seen >= nextSequence /\ latest # {}
  /\ Goes("caller", "idle")
  /\ \E s \in latest: result' = [kind |-> "answered", snapshot |-> s]
  /\ UNCHANGED <<managerLock, nextSequence, seen, latest, topicVars, agentVars, sent,
                 carriedOut, forgotten, boundVars>>

\* The deadline has passed; a divider command also waits for its outputs.
TimeOut ==
  /\ At("caller", "poll") /\ Goes("caller", "restartLock")
  /\ UNCHANGED <<managerLock, nextSequence, seen, latest, topicVars, agentVars, ghostVars,
                 boundVars>>

(***************************************************************************)
(* The handler of "restart-process".                                       *)
(***************************************************************************)
Reset ==
  /\ At("handler", "idle") /\ Incident
  /\ Goes("handler", "restartLock")
  /\ seen' = 0 /\ latest' = {}
  /\ UNCHANGED <<managerLock, nextSequence, topicVars, agentVars, ghostVars, launches>>

(***************************************************************************)
(* The process manager, for either of them.                                *)
(***************************************************************************)
\* Mutant: a restart does not take the mutex.
LockManagerForStatus(a) ==
  /\ pc[a] \in {"statusLock", "restartLock"}
  /\ pc[a] = "statusLock" => managerLock = "nobody"
  /\ managerLock' = a
  /\ Goes(a, IF pc[a] = "statusLock" THEN "statusEnsure" ELSE "kill")
  /\ UNCHANGED <<nextSequence, seen, latest, topicVars, agentVars, ghostVars, boundVars>>

LockManager(a) ==
  /\ pc[a] \in {"statusLock", "restartLock"} /\ managerLock = "nobody"
  /\ managerLock' = a
  /\ Goes(a, IF pc[a] = "statusLock" THEN "statusEnsure" ELSE "kill")
  /\ UNCHANGED <<nextSequence, seen, latest, topicVars, agentVars, ghostVars, boundVars>>

Kill(a) ==
  /\ At(a, "kill") /\ Goes(a, "wait")
  /\ agent' = IF agent = "up" THEN "stopping" ELSE agent
  /\ UNCHANGED <<managerLock, nextSequence, seen, latest, topicVars, listenerPc, executing,
                 recorded, held, ghostVars, boundVars>>

\* The process is gone, or two seconds are over and it is not.
Wait(a) ==
  /\ At(a, "wait") /\ Goes(a, "restartEnsure")
  /\ UNCHANGED <<managerLock, nextSequence, seen, latest, topicVars, agentVars, ghostVars,
                 boundVars>>

\* The reader of a new agent gets the sample the writer has kept.
LaunchAgent ==
  /\ launches < LaunchBudget /\ launches' = launches + 1
  /\ agent' = "up" /\ listenerPc' = "idle" /\ executing' = {}
  /\ recorded' = 0 /\ held' = [t \in Publishers |-> {}]
  /\ snapshot' = {} /\ controlUnread' = control

AfterEnsure(a) ==
  /\ managerLock' = "nobody"
  /\ Goes(a, IF pc[a] = "statusEnsure" THEN "publish" ELSE "idle")
  /\ result' = IF a = "caller" /\ pc[a] = "restartEnsure" THEN GivenUp ELSE result

EnsureRunning(a) ==
  /\ pc[a] \in {"statusEnsure", "restartEnsure"}
  /\ \/ agent # "none" /\ UNCHANGED <<agentVars, snapshot, controlUnread, launches>>
     \/ agent = "none" /\ LaunchAgent
  /\ AfterEnsure(a)
  /\ UNCHANGED <<nextSequence, seen, latest, control, snapshotUnread, sent, carriedOut, forgotten,
                 incidents>>

\* Mutant: an exception leaves the manager locked.
EnsureThrowsLocked(a) ==
  /\ pc[a] \in {"statusEnsure", "restartEnsure"} /\ agent = "none"
  /\ Goes(a, "idle") /\ managerLock' = managerLock
  /\ result' = IF a = "caller" /\ pc[a] = "restartEnsure" THEN GivenUp ELSE result
  /\ UNCHANGED <<nextSequence, seen, latest, topicVars, agentVars, sent, carriedOut, forgotten, boundVars>>

\* pidof does not find the agent 300 ms after its launch, or there is nothing to
\* launch: the exception ends the call.  The agent may appear all the same.
EnsureThrows(a) ==
  /\ pc[a] \in {"statusEnsure", "restartEnsure"} /\ agent = "none"
  /\ LaunchAgent \/ UNCHANGED <<agentVars, snapshot, controlUnread, launches>>
  /\ Goes(a, "idle") /\ managerLock' = "nobody"
  /\ result' = IF a = "caller" /\ pc[a] = "restartEnsure" THEN GivenUp ELSE result
  /\ UNCHANGED <<nextSequence, seen, latest, control, snapshotUnread, sent, carriedOut, forgotten,
                 incidents>>

(***************************************************************************)
(* The bridge's DDS callback: onMessage.                                   *)
(***************************************************************************)
OnSnapshot ==
  /\ \E s \in snapshotUnread:
       /\ latest' = {s}
       /\ seen' = IF s > seen THEN s ELSE seen
  /\ snapshotUnread' = {}
  /\ UNCHANGED <<pc, managerLock, nextSequence, control, controlUnread, snapshot, agentVars,
                 ghostVars, boundVars>>

-----------------------------------------------------------------------------
(***************************************************************************)
(* The agent's listener: handleControlMessage and publishSnapshot.         *)
(***************************************************************************)
Take ==
  /\ agent # "none" /\ listenerPc = "idle" /\ controlUnread # {}
  /\ listenerPc' = "work" /\ executing' = controlUnread /\ controlUnread' = {}
  /\ UNCHANGED <<serverVars, control, snapshot, snapshotUnread, agent, recorded, held, ghostVars,
                 boundVars>>

\* The command is done, or has failed for good.
CarryOut ==
  /\ listenerPc = "work" /\ listenerPc' = "record"
  /\ \E c \in executing: /\ sent[c.id] \notin EarlyActions
                         /\ carriedOut' = carriedOut \cup {c.id}
  /\ UNCHANGED <<serverVars, topicVars, agent, executing, recorded, held, sent, result, forgotten,
                 boundVars>>

\* Mutant: every command stores its number first, as divider-apply does.
RecordFirst ==
  /\ listenerPc = "work" /\ listenerPc' = "rest"
  /\ \E c \in executing: recorded' = c.sequence
  /\ UNCHANGED <<serverVars, topicVars, agent, executing, held, ghostVars, boundVars>>

\* divider-apply stores its number when the registers are written; the
\* acquisition it has stopped is still to be started again.
RecordEarly ==
  /\ listenerPc = "work" /\ listenerPc' = "rest"
  /\ \E c \in executing: sent[c.id] \in EarlyActions /\ recorded' = c.sequence
  /\ UNCHANGED <<serverVars, topicVars, agent, executing, held, ghostVars, boundVars>>

CarryOutRest ==
  /\ listenerPc = "rest" /\ listenerPc' = "compose"
  /\ \E c \in executing: carriedOut' = carriedOut \cup {c.id}
  /\ UNCHANGED <<serverVars, topicVars, agent, executing, recorded, held, sent, result, forgotten,
                 boundVars>>

Record ==
  /\ listenerPc = "record" /\ listenerPc' = "compose"
  /\ \E c \in executing: recorded' = c.sequence
  /\ UNCHANGED <<serverVars, topicVars, agent, executing, held, ghostVars, boundVars>>

\* publishSnapshot: composed here, written in the next step.
ComposeAnswer ==
  /\ listenerPc = "compose" /\ listenerPc' = "write" /\ executing' = {}
  /\ held' = [held EXCEPT !["listener"] = {recorded}]
  /\ UNCHANGED <<serverVars, topicVars, agent, recorded, ghostVars, boundVars>>

\* The publisher thread does the same for every batch of frames, and the main
\* thread once at startup.
ComposeFrames ==
  /\ agent = "up" /\ held["publisher"] = {}
  /\ held' = [held EXCEPT !["publisher"] = {recorded}]
  /\ UNCHANGED <<serverVars, topicVars, agent, listenerPc, executing, recorded, ghostVars,
                 boundVars>>

\* While the agent stops its writer goes before its listener does.
Write(t) ==
  /\ held[t] # {} /\ held' = [held EXCEPT ![t] = {}]
  /\ listenerPc' = IF t = "listener" THEN "idle" ELSE listenerPc
  /\ \/ snapshot' = held[t] /\ snapshotUnread' = held[t]
     \/ agent = "stopping" /\ UNCHANGED <<snapshot, snapshotUnread>>
  /\ UNCHANGED <<serverVars, control, controlUnread, agent, executing, recorded,
                 ghostVars, boundVars>>

(***************************************************************************)
(* A process ends.  A sample under way gets lost with its writer, or not.  *)
(***************************************************************************)
AgentEnds ==
  /\ agent' = "none" /\ listenerPc' = "idle" /\ executing' = {}
  /\ recorded' = 0 /\ held' = [t \in Publishers |-> {}]
  /\ snapshot' = {} /\ controlUnread' = {}
  /\ snapshotUnread' \in {snapshotUnread, {}}
  /\ UNCHANGED <<serverVars, control, ghostVars, launches>>

AgentExit == agent = "stopping" /\ AgentEnds /\ UNCHANGED incidents
AgentCrash == agent = "up" /\ AgentEnds /\ Incident

\* The server ends and starts again; an agent it did not launch through the
\* acquisition service outlives it.
ServerRestart ==
  /\ Incident /\ forgotten' = TRUE
  /\ pc' = [a \in Actors |-> "idle"] /\ managerLock' = "nobody"
  /\ nextSequence' = 0 /\ seen' = 0 /\ latest' = {}
  /\ control' = {} /\ controlUnread' \in {controlUnread, {}}
  /\ snapshotUnread' = snapshot
  /\ result' = NoResult
  /\ UNCHANGED <<snapshot, agentVars, sent, carriedOut, launches>>

-----------------------------------------------------------------------------
Caller == \/ Call \/ Poll \/ TimeOut
          \/ \E a \in Actions: Publish(a) \/ PublishFails(a)
Manager(a) == LockManager(a) \/ Kill(a) \/ Wait(a) \/ EnsureRunning(a) \/ EnsureThrows(a)
Listener == Take \/ CarryOut \/ RecordEarly \/ CarryOutRest \/ Record \/ ComposeAnswer
Next == \/ Caller \/ Reset \/ OnSnapshot
        \/ \E a \in Actors: Manager(a)
        \/ Listener \/ ComposeFrames
        \/ \E t \in Publishers: Write(t)
        \/ AgentExit \/ AgentCrash \/ ServerRestart

\* A thread of the server that can go on does: the loop sleeps 50 ms a round
\* and ends after five seconds, the waits of the manager end after two.
\* Nothing is assumed of the agent or of the topics.
SafetySpec == Init /\ [][Next]_vars
Fairness ==
  /\ WF_vars(\E a \in Actions: Publish(a) \/ PublishFails(a))
  /\ WF_vars(Poll \/ TimeOut)
  /\ \A a \in Actors: WF_vars(Manager(a))
Spec == SafetySpec /\ Fairness

-----------------------------------------------------------------------------
TypeOK ==
  /\ pc \in [Actors -> Steps] /\ managerLock \in Actors \cup {"nobody"}
  /\ nextSequence \in Nat /\ seen \in Nat /\ latest \in SUBSET Snapshot
  /\ control \in SUBSET Command /\ controlUnread \in SUBSET Command
  /\ snapshot \in SUBSET Snapshot /\ snapshotUnread \in SUBSET Snapshot
  /\ agent \in {"none", "up", "stopping"} /\ listenerPc \in ListenerSteps
  /\ executing \in SUBSET Command
  /\ recorded \in Nat /\ held \in [Publishers -> SUBSET Snapshot]
  /\ sent \in Seq(Actions) /\ carriedOut \in SUBSET (1 .. Len(sent))
  /\ result \in Result
  /\ forgotten \in BOOLEAN /\ launches \in Nat /\ incidents \in Nat

\* A command the caller was given an answer to has been carried out by an
\* agent, unless the action is one that records its number before it is done
\* or the server has been restarted since the device first saw a command:
\* neither an old snapshot, nor one of the agent before, nor the cleared cache
\* is taken for the answer to a later command.
AnsweredWasCarriedOut ==
  (/\ result.kind = "answered" /\ ~forgotten
   /\ sent[Len(sent)] \notin EarlyActions)
  => Len(sent) \in carriedOut

\* What the web page says of an answered start, whatever came before:
\* "Capture started."
AnswerMeansCarriedOut ==
  (result.kind = "answered" /\ sent[Len(sent)] \notin EarlyActions)
  => Len(sent) \in carriedOut

\* The process manager is never locked by someone who is not inside it, so the
\* caller and the handler cannot both kill or launch the agent.
ManagerIsExclusive ==
  \A a \in Actors:
    (managerLock = a) <=> pc[a] \in {"statusEnsure", "kill", "wait", "restartEnsure"}

\* A new agent gets the last command once more (transient-local durability), but
\* no agent ever goes back to a command before one that was carried out: a stop
\* is not followed by the start it has ended, whatever crashes, restarts of
\* either process and commands that were not published come in between.
NeverGoesBack == \A c \in executing: \A n \in carriedOut: n <= c.id

-----------------------------------------------------------------------------
(***************************************************************************)
(* The inductive invariant.  As long as the server keeps its memory a      *)
(* command is numbered by its place in `sent', and every number that an    *)
(* agent or a snapshot carries, or that the bridge has seen, is that of a  *)
(* handled command.                                                        *)
(***************************************************************************)
Handled(n) == \/ n = 0 \/ n \in carriedOut
              \/ n \in DOMAIN sent /\ sent[n] \in EarlyActions

Commands == control \cup controlUnread \cup executing

\* A slot holds one command at most.
SlotInv == \A S \in {control, controlUnread, executing}: \A c, d \in S: c = d

CommandInv == \A c \in Commands: /\ c.id \in DOMAIN sent
                                 /\ ~forgotten => c.sequence = c.id

ListenerInv == listenerPc = "record" => \A c \in executing: c.id \in carriedOut

AgentInv == ~forgotten => /\ Handled(recorded)
                          /\ \A t \in Publishers: \A s \in held[t]: Handled(s)
                          /\ \A s \in snapshot \cup snapshotUnread: Handled(s)

ServerInv == ~forgotten => nextSequence = Len(sent) /\ Handled(seen)

AnswerInv ==
  /\ pc["caller"] = "poll" => Len(sent) > 0
  /\ result.kind = "answered" => Len(sent) > 0
  /\ (result.kind = "answered" /\ ~forgotten) => Handled(Len(sent))

\* The slots of the control topic hold no command older than the one under way.
NewestInv ==
  /\ \A c \in Commands: \A n \in carriedOut: n <= c.id
  /\ \A c \in executing: \A d \in control \cup controlUnread: c.id <= d.id
  /\ \A c \in controlUnread: \A d \in control: c.id <= d.id

IInv == /\ TypeOK /\ ManagerIsExclusive /\ NewestInv
        /\ SlotInv /\ CommandInv /\ ListenerInv /\ AgentInv /\ ServerInv /\ AnswerInv

-----------------------------------------------------------------------------
\* The client waits from the moment its command is published.
Waiting == pc["caller"] \in {"poll", "restartLock", "kill", "wait", "restartEnsure"}

Service == INSTANCE CommandService WITH
  open <- Waiting, verdict <- result.kind

\* The bridge implements the promise of CommandService: nobody is told of a
\* command that was not carried out, and no command is left without a reply.
ImplementsService == Service!Spec

\* Every request a client makes comes back to it, whatever the agent does.
CallReturns == pc["caller"] # "idle" ~> pc["caller"] = "idle"
=============================================================================
