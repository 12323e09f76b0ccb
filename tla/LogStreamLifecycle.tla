-------------------------- MODULE LogStreamLifecycle -------------------------
(***************************************************************************)
(* Requests that run code of the Home bundle (src/webUI/Home) while the    *)
(* bundle is stopped, started again, or replaced by a new version.         *)
(*                                                                         *)
(* WebServerDispatcher finds the bundle's handler factory under its mutex  *)
(* and calls it outside.  The handler counts itself in (tryAcquire) and    *)
(* out (release) in two global atomics of the bundle's library; the        *)
(* activator's stop() raises a flag and waits, at most five seconds, for   *)
(* the count to be zero.  Only then may the library be unloaded.           *)
(*                                                                         *)
(* One action is what a thread does with one atomic or under one mutex.    *)
(* `controller' is the thread that stops and starts the bundle.            *)
(***************************************************************************)
EXTENDS Naturals, FiniteSets

CONSTANTS
  LogRequests,     \* the threads of the web server
  Streams,         \* those whose client asks for the event stream
  Unread,          \* those of them whose client does not read what is sent
  WaitSlices,      \* how often stop() sleeps at most (50 times 100 ms)
  ReplaceBudget    \* bound: new versions of the bundle

ASSUME LogStreamAssumption ==
  /\ IsFiniteSet(LogRequests) /\ Streams \subseteq LogRequests
  /\ Unread \subseteq Streams
  /\ WaitSlices \in Nat /\ ReplaceBudget \in Nat

VARIABLES
  stage,           \* of the bundle: where its controller stands
  codeVersion,     \* the version of the bundle
  codeLoaded,      \* is its library mapped?
  routedTo,        \* the version whose factory the dispatcher knows, or 0
  shuttingDown,    \* gLogStreamShuttingDown, in the library
  activeRequests,  \* gActiveLogRequests, in the library
  waited,          \* waitedMs
  abandoned,       \* ghost: the requests a stop() no longer waited for
  at,              \* request -> where it stands
  handlerVersion,  \* request -> version of the code it runs
  serverDown       \* the process has executed code that is no longer mapped

bundleVars == <<stage, codeVersion, codeLoaded, routedTo, waited>>
requestVars == <<at, handlerVersion, abandoned>>
logStreamVars == <<bundleVars, shuttingDown, activeRequests, requestVars, serverDown>>

Stages == {"active", "stopping", "draining", "drained", "stopped", "starting"}
RequestPlaces == {"idle", "routed", "checked", "counted", "serving", "backingOut",
                  "leaving", "returning"}

LogStreamInit ==
  /\ stage = "active" /\ codeVersion = 1 /\ codeLoaded = TRUE /\ routedTo = 1
  /\ shuttingDown = FALSE /\ activeRequests = 0 /\ waited = 0 /\ abandoned = {}
  /\ at = [r \in LogRequests |-> "idle"]
  /\ handlerVersion = [r \in LogRequests |-> 1]
  /\ serverDown = FALSE

\* Those the count stands for.
CountedIn == {r \in LogRequests: /\ handlerVersion[r] = codeVersion
                                 /\ at[r] \in {"counted", "serving", "backingOut", "leaving"}}

-----------------------------------------------------------------------------
\* The bundle: Bundle::stop, Bundle::start, and its replacement.

Moves(from, to) == ~serverDown /\ stage = from /\ stage' = to

\* bundleStopping: removeBundle takes the bundle's paths off the table.
UnmapPaths ==
  /\ Moves("active", "stopping") /\ routedTo' = 0
  /\ UNCHANGED <<codeVersion, codeLoaded, waited, shuttingDown, activeRequests,
                 requestVars, serverDown>>

\* Mutant: the flag is not raised.
BeginShutdownUnflagged ==
  /\ Moves("stopping", "draining") /\ waited' = 0
  /\ UNCHANGED <<codeVersion, codeLoaded, routedTo, shuttingDown, activeRequests,
                 requestVars, serverDown>>

BeginShutdown ==
  /\ Moves("stopping", "draining") /\ shuttingDown' = TRUE /\ waited' = 0
  /\ UNCHANGED <<codeVersion, codeLoaded, routedTo, activeRequests, requestVars,
                 serverDown>>

WaitSlice ==
  /\ Moves("draining", "draining") /\ activeRequests > 0 /\ waited < WaitSlices
  /\ waited' = waited + 1
  /\ UNCHANGED <<codeVersion, codeLoaded, routedTo, shuttingDown, activeRequests,
                 requestVars, serverDown>>

\* Mutant: stop() waits for as long as it takes.
EndWaitForAll ==
  /\ Moves("draining", "drained") /\ activeRequests = 0
  /\ abandoned' = abandoned \cup CountedIn
  /\ UNCHANGED <<codeVersion, codeLoaded, routedTo, waited, shuttingDown, activeRequests,
                 at, handlerVersion, serverDown>>

EndWait ==
  /\ Moves("draining", "drained") /\ (activeRequests = 0 \/ waited >= WaitSlices)
  /\ abandoned' = abandoned \cup CountedIn
  /\ UNCHANGED <<codeVersion, codeLoaded, routedTo, waited, shuttingDown, activeRequests,
                 at, handlerVersion, serverDown>>

\* bundleStopped: the web server's own reference to the library goes.  That of
\* the activator's class loader keeps it mapped.
Stopped ==
  /\ Moves("drained", "stopped")
  /\ UNCHANGED <<codeVersion, codeLoaded, routedTo, waited, shuttingDown,
                 activeRequests, requestVars, serverDown>>

\* loadActivator maps the library, its globals in their initial state, unless
\* it is still mapped; the activator calls beginStartup.
BeginStartup ==
  /\ Moves("stopped", "starting")
  /\ shuttingDown' = FALSE /\ codeLoaded' = TRUE
  /\ activeRequests' = IF codeLoaded THEN activeRequests ELSE 0
  /\ UNCHANGED <<codeVersion, routedTo, waited, requestVars, serverDown>>

\* bundleStarted: the extension point registers the factory.
MapPaths ==
  /\ Moves("starting", "active") /\ routedTo' = codeVersion
  /\ UNCHANGED <<codeVersion, codeLoaded, waited, shuttingDown, activeRequests,
                 requestVars, serverDown>>

\* A stopped bundle is replaced: unloadActivator, then the next version.  The bundle
\* administration does so; the watcher defers bundles of this name.
Replace ==
  /\ Moves("stopped", "stopped") /\ codeLoaded /\ codeVersion <= ReplaceBudget
  /\ codeLoaded' = FALSE /\ codeVersion' = codeVersion + 1
  /\ UNCHANGED <<routedTo, waited, shuttingDown, activeRequests, requestVars,
                 serverDown>>

-----------------------------------------------------------------------------
\* A request.

InMappedCode(r) == handlerVersion[r] = codeVersion /\ codeLoaded

\* A thread runs on in the code of its handler.
Runs(r, from, to) ==
  /\ ~serverDown /\ at[r] = from /\ InMappedCode(r)
  /\ at' = [at EXCEPT ![r] = to]
  /\ UNCHANGED <<bundleVars, handlerVersion, abandoned, serverDown>>

\* mapPath and the copy of pFactory, under the dispatcher's mutex.
Route(r) ==
  /\ ~serverDown /\ at[r] = "idle" /\ routedTo # 0
  /\ at' = [at EXCEPT ![r] = "routed"]
  /\ handlerVersion' = [handlerVersion EXCEPT ![r] = routedTo]
  /\ abandoned' = abandoned \ {r}
  /\ UNCHANGED <<bundleVars, shuttingDown, activeRequests, serverDown>>

\* Mutant: the guard of a refused request releases what it has not acquired.
TryAcquireOwning(r) == /\ Runs(r, "routed", IF shuttingDown THEN "leaving" ELSE "checked")
                       /\ UNCHANGED <<shuttingDown, activeRequests>>

\* tryAcquire: look at the flag, count, look again.
TryAcquire(r) == /\ Runs(r, "routed", IF shuttingDown THEN "returning" ELSE "checked")
                 /\ UNCHANGED <<shuttingDown, activeRequests>>
CountIn(r) == /\ Runs(r, "checked", "counted")
              /\ activeRequests' = activeRequests + 1 /\ UNCHANGED shuttingDown
\* Mutant: the second look is left out.
CheckOnce(r) == Runs(r, "counted", "serving") /\ UNCHANGED <<shuttingDown, activeRequests>>

CheckAgain(r) == /\ Runs(r, "counted", IF shuttingDown THEN "backingOut" ELSE "serving")
                 /\ UNCHANGED <<shuttingDown, activeRequests>>
\* Mutant: the count is not taken back.
BackOutCounted(r) == /\ Runs(r, "backingOut", "returning")
                     /\ UNCHANGED <<shuttingDown, activeRequests>>

BackOut(r) == /\ Runs(r, "backingOut", "returning")
              /\ activeRequests' = activeRequests - 1 /\ UNCHANGED shuttingDown

\* A snapshot is sent, or the client of a stream is gone: an exception.
EndRequest(r) == Runs(r, "serving", "leaving") /\ UNCHANGED <<shuttingDown, activeRequests>>

\* Mutant: the condition of the loop is inverted.
EndStreamInverted(r) ==
  /\ r \in Streams /\ ~shuttingDown
  /\ Runs(r, "serving", "leaving") /\ UNCHANGED <<shuttingDown, activeRequests>>

\* The loop of a stream looks at the flag every 750 ms.
EndStream(r) == /\ r \in Streams /\ shuttingDown
                /\ Runs(r, "serving", "leaving") /\ UNCHANGED <<shuttingDown, activeRequests>>

Release(r) == /\ Runs(r, "leaving", "returning")
              /\ activeRequests' = activeRequests - 1 /\ UNCHANGED shuttingDown

Return(r) == Runs(r, "returning", "idle") /\ UNCHANGED <<shuttingDown, activeRequests>>

\* The code is not there any more: the operating system ends the process.
RunUnmapped(r) ==
  /\ ~serverDown /\ at[r] # "idle" /\ ~InMappedCode(r) /\ serverDown' = TRUE
  /\ UNCHANGED <<bundleVars, shuttingDown, activeRequests, requestVars>>

-----------------------------------------------------------------------------
Controller == \/ UnmapPaths \/ BeginShutdown \/ WaitSlice \/ EndWait \/ Stopped
              \/ BeginStartup \/ MapPaths \/ Replace
Request(r) == \/ Route(r) \/ TryAcquire(r) \/ CountIn(r) \/ CheckAgain(r) \/ BackOut(r)
              \/ EndRequest(r) \/ EndStream(r) \/ Release(r) \/ Return(r) \/ RunUnmapped(r)
LogStreamNext == Controller \/ \E r \in LogRequests: Request(r)

LogStreamSpec == LogStreamInit /\ [][LogStreamNext]_logStreamVars

\* The threads of the operating system run.  Nothing is assumed of clients:
\* whether one asks, or leaves its stream, is up to it; a snapshot ends by itself.
\* The thread of a stream nobody reads may stay in the send, however often
\* the flag says otherwise.
Proceeds(r) ==
  \/ TryAcquire(r) \/ CountIn(r) \/ CheckAgain(r) \/ BackOut(r) \/ Release(r) \/ Return(r)
  \/ r \notin Streams /\ EndRequest(r)
  \/ r \notin Unread /\ (EndStream(r) \/ RunUnmapped(r))

LogStreamFairness ==
  /\ WF_logStreamVars(BeginShutdown \/ WaitSlice \/ EndWait \/ Stopped \/ MapPaths)
  /\ \A r \in LogRequests: WF_logStreamVars(Proceeds(r))

-----------------------------------------------------------------------------
LogStreamTypeOK ==
  /\ stage \in Stages /\ codeVersion \in Nat \ {0} /\ codeLoaded \in BOOLEAN
  /\ routedTo \in Nat /\ waited \in Nat /\ abandoned \subseteq LogRequests
  /\ shuttingDown \in BOOLEAN /\ activeRequests \in Nat
  /\ at \in [LogRequests -> RequestPlaces]
  /\ handlerVersion \in [LogRequests -> Nat] /\ serverDown \in BOOLEAN

\* The counter tells how many requests have counted themselves in, whatever
\* refusals, stops and restarts the same requests have met on the way.
CountIsExact == codeLoaded => activeRequests = Cardinality(CountedIn)

\* A request that was let in runs mapped code, unless a stop() gave up waiting
\* for it: the flag and the counter, two atomics, protect the library together.
ServedFromMappedCode ==
  \A r \in LogRequests: at[r] = "serving" => InMappedCode(r) \/ r \in abandoned

\* From the moment stop() has begun to wait until the next start, no request is
\* let in, not even one that has passed the first look at the flag before.
NobodyEntersAStoppedBundle ==
  [][\A r \in LogRequests: at[r] # "serving" /\ at'[r] = "serving" =>
       stage \notin {"draining", "drained", "stopped"}]_logStreamVars

\* stop() returns although the thread of a stream may be stuck for ever in a send to
\* a client that does not read.
StopReturns == (stage = "draining") ~> (stage = "stopped" \/ serverDown)

\* A stream that is open when stop() begins is closed by it (or the bundle is
\* started again meanwhile), unless its client does not read.
StreamsAreClosed ==
  \A r \in Streams \ Unread: (at[r] = "serving" /\ shuttingDown) ~>
                               (at[r] # "serving" \/ ~shuttingDown \/ serverDown)

-----------------------------------------------------------------------------
\* The gate closes with the flag and is closed when the wait has ended; inside is
\* who serves from the library that is mapped.
Gate == CASE stage = "draining" -> "closing"
          [] stage \in {"drained", "stopped"} -> "closed"
          [] OTHER -> "open"
Serving == {r \in LogRequests: at[r] = "serving" /\ handlerVersion[r] = codeVersion}

Inside == IF Gate = "closed" THEN {} ELSE Serving
GivenUp == IF Gate = "closed" THEN Serving ELSE {}
Unloaded == codeVersion > 1

LogGate == INSTANCE LibraryGate WITH
  Requests <- LogRequests, Patience <- WaitSlices, gate <- Gate, inside <- Inside,
  givenUp <- GivenUp, waits <- waited, unloaded <- Unloaded, down <- serverDown

\* Flag and counter, looked at one after the other, implement the gate: nobody
\* gets in while stop() waits, nobody is overlooked by it, it comes to an end,
\* and the server does not die of a stop without a replacement.
ImplementsGate == LogGate!Spec
=============================================================================
