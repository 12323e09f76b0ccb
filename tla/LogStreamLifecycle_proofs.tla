---------------------- MODULE LogStreamLifecycle_proofs ----------------------
(***************************************************************************)
(* The flag and the counter of the log stream: nobody is let into a        *)
(* stopped bundle, the counter is exact, and whoever was let in runs       *)
(* mapped code unless stop() gave up waiting for it - for any number of    *)
(* requests, stops, starts and versions.                                   *)
(***************************************************************************)
EXTENDS LogStreamLifecycle, FiniteSetTheorems, TLAPS

\* The dispatcher knows the factory of the version that is active; a request's
\* handler is of that version or of one that is gone, and none was gone at first.
VersionsInv ==
  /\ routedTo # 0 => routedTo = codeVersion /\ stage = "active"
  /\ ~codeLoaded => stage = "stopped" /\ codeVersion > 1
  /\ \A r \in LogRequests: /\ handlerVersion[r] <= codeVersion /\ handlerVersion[r] # 0
                           /\ ~codeLoaded => handlerVersion[r] # codeVersion

\* The flag is up as long as stop() relies on it.
FlagInv == stage \in {"draining", "drained", "stopped"} /\ codeLoaded => shuttingDown

\* When stop() has given up, it has given up everyone who is still there.
AbandonedInv ==
  stage \in {"drained", "stopped"} =>
    \A r \in LogRequests: at[r] = "serving" /\ handlerVersion[r] = codeVersion =>
                            r \in abandoned

IInv == /\ LogStreamTypeOK /\ VersionsInv /\ FlagInv /\ AbandonedInv
        /\ CountIsExact /\ ServedFromMappedCode

-----------------------------------------------------------------------------
\* A counter that is the size of a set follows it, one element at a time.
LEMMA CountedUp ==
  ASSUME LogStreamTypeOK, NEW r \in LogRequests, r \notin CountedIn
  PROVE  Cardinality(CountedIn \cup {r}) = Cardinality(CountedIn) + 1
<1>1. IsFiniteSet(CountedIn)
  BY LogStreamAssumption, FS_Subset DEF CountedIn
<1>. QED BY <1>1, FS_AddElement

LEMMA CountedDown ==
  ASSUME LogStreamTypeOK, NEW r \in CountedIn
  PROVE  /\ Cardinality(CountedIn) \in Nat \ {0}
         /\ Cardinality(CountedIn \ {r}) = Cardinality(CountedIn) - 1
<1>1. IsFiniteSet(CountedIn)
  BY LogStreamAssumption, FS_Subset DEF CountedIn
<1>2. Cardinality(CountedIn) # 0
  BY <1>1, FS_EmptySet
<1>. QED BY <1>1, <1>2, FS_RemoveElement, FS_CardinalityType

\* A version is replaced when its bundle is stopped, and never comes back.
LEMMA VersionsKept == IInv /\ LogStreamNext => VersionsInv'
<1> SUFFICES ASSUME IInv, LogStreamNext PROVE VersionsInv'
  OBVIOUS
<1>. USE LogStreamAssumption
     DEF IInv, LogStreamTypeOK, Stages, RequestPlaces, bundleVars, requestVars, VersionsInv
<1>1. ASSUME UnmapPaths PROVE VersionsInv'
  BY <1>1 DEF UnmapPaths, Moves
<1>2. ASSUME BeginShutdown PROVE VersionsInv'
  BY <1>2 DEF BeginShutdown, Moves
<1>3. ASSUME WaitSlice PROVE VersionsInv'
  BY <1>3 DEF WaitSlice, Moves
<1>4. ASSUME EndWait PROVE VersionsInv'
  BY <1>4 DEF EndWait, Moves
<1>5. ASSUME Stopped PROVE VersionsInv'
  BY <1>5 DEF Stopped, Moves
<1>6. ASSUME BeginStartup PROVE VersionsInv'
  BY <1>6 DEF BeginStartup, Moves
<1>7. ASSUME MapPaths PROVE VersionsInv'
  BY <1>7 DEF MapPaths, Moves
<1>8. ASSUME Replace PROVE VersionsInv'
  BY <1>8 DEF Replace, Moves
<1>9. ASSUME NEW r \in LogRequests, Route(r) PROVE VersionsInv'
  BY <1>9 DEF Route
<1>10. ASSUME NEW r \in LogRequests, TryAcquire(r) PROVE VersionsInv'
  BY <1>10 DEF TryAcquire, Runs, InMappedCode
<1>11. ASSUME NEW r \in LogRequests, CountIn(r) PROVE VersionsInv'
  BY <1>11 DEF CountIn, Runs, InMappedCode
<1>12. ASSUME NEW r \in LogRequests, CheckAgain(r) PROVE VersionsInv'
  BY <1>12 DEF CheckAgain, Runs, InMappedCode
<1>13. ASSUME NEW r \in LogRequests, BackOut(r) PROVE VersionsInv'
  BY <1>13 DEF BackOut, Runs, InMappedCode
<1>14. ASSUME NEW r \in LogRequests, EndRequest(r) PROVE VersionsInv'
  BY <1>14 DEF EndRequest, Runs, InMappedCode
<1>15. ASSUME NEW r \in LogRequests, EndStream(r) PROVE VersionsInv'
  BY <1>15 DEF EndStream, Runs, InMappedCode
<1>16. ASSUME NEW r \in LogRequests, Release(r) PROVE VersionsInv'
  BY <1>16 DEF Release, Runs, InMappedCode
<1>17. ASSUME NEW r \in LogRequests, Return(r) PROVE VersionsInv'
  BY <1>17 DEF Return, Runs, InMappedCode
<1>18. ASSUME NEW r \in LogRequests, RunUnmapped(r) PROVE VersionsInv'
  BY <1>18 DEF RunUnmapped, InMappedCode
<1>. HIDE DEF IInv, VersionsInv
<1>. QED
  BY <1>1, <1>2, <1>3, <1>4, <1>5, <1>6, <1>7, <1>8, <1>9, <1>10, <1>11, <1>12, <1>13, <1>14, <1>15, <1>16, <1>17, <1>18, Zenon
     DEF LogStreamNext, Controller, Request

\* Only a start lowers the flag, in a library that is loaded anew or not.
LEMMA FlagKept == IInv /\ LogStreamNext => FlagInv'
<1> SUFFICES ASSUME IInv, LogStreamNext PROVE FlagInv'
  OBVIOUS
<1>. USE LogStreamAssumption
     DEF IInv, LogStreamTypeOK, Stages, RequestPlaces, bundleVars, requestVars, VersionsInv, FlagInv
<1>1. ASSUME UnmapPaths PROVE FlagInv'
  BY <1>1 DEF UnmapPaths, Moves
<1>2. ASSUME BeginShutdown PROVE FlagInv'
  BY <1>2 DEF BeginShutdown, Moves
<1>3. ASSUME WaitSlice PROVE FlagInv'
  BY <1>3 DEF WaitSlice, Moves
<1>4. ASSUME EndWait PROVE FlagInv'
  BY <1>4 DEF EndWait, Moves
<1>5. ASSUME Stopped PROVE FlagInv'
  BY <1>5 DEF Stopped, Moves
<1>6. ASSUME BeginStartup PROVE FlagInv'
  BY <1>6 DEF BeginStartup, Moves
<1>7. ASSUME MapPaths PROVE FlagInv'
  BY <1>7 DEF MapPaths, Moves
<1>8. ASSUME Replace PROVE FlagInv'
  BY <1>8 DEF Replace, Moves
<1>9. ASSUME NEW r \in LogRequests, Route(r) PROVE FlagInv'
  BY <1>9 DEF Route
<1>10. ASSUME NEW r \in LogRequests, TryAcquire(r) PROVE FlagInv'
  BY <1>10 DEF TryAcquire, Runs, InMappedCode
<1>11. ASSUME NEW r \in LogRequests, CountIn(r) PROVE FlagInv'
  BY <1>11 DEF CountIn, Runs, InMappedCode
<1>12. ASSUME NEW r \in LogRequests, CheckAgain(r) PROVE FlagInv'
  BY <1>12 DEF CheckAgain, Runs, InMappedCode
<1>13. ASSUME NEW r \in LogRequests, BackOut(r) PROVE FlagInv'
  BY <1>13 DEF BackOut, Runs, InMappedCode
<1>14. ASSUME NEW r \in LogRequests, EndRequest(r) PROVE FlagInv'
  BY <1>14 DEF EndRequest, Runs, InMappedCode
<1>15. ASSUME NEW r \in LogRequests, EndStream(r) PROVE FlagInv'
  BY <1>15 DEF EndStream, Runs, InMappedCode
<1>16. ASSUME NEW r \in LogRequests, Release(r) PROVE FlagInv'
  BY <1>16 DEF Release, Runs, InMappedCode
<1>17. ASSUME NEW r \in LogRequests, Return(r) PROVE FlagInv'
  BY <1>17 DEF Return, Runs, InMappedCode
<1>18. ASSUME NEW r \in LogRequests, RunUnmapped(r) PROVE FlagInv'
  BY <1>18 DEF RunUnmapped, InMappedCode
<1>. HIDE DEF IInv, FlagInv
<1>. QED
  BY <1>1, <1>2, <1>3, <1>4, <1>5, <1>6, <1>7, <1>8, <1>9, <1>10, <1>11, <1>12, <1>13, <1>14, <1>15, <1>16, <1>17, <1>18, Zenon
     DEF LogStreamNext, Controller, Request

\* Nobody joins those who were given up.
LEMMA AbandonedKept == IInv /\ LogStreamNext => AbandonedInv'
<1> SUFFICES ASSUME IInv, LogStreamNext PROVE AbandonedInv'
  OBVIOUS
<1>. USE LogStreamAssumption
     DEF IInv, LogStreamTypeOK, Stages, RequestPlaces, bundleVars, requestVars, VersionsInv, FlagInv, AbandonedInv, CountedIn
<1>1. ASSUME UnmapPaths PROVE AbandonedInv'
  BY <1>1 DEF UnmapPaths, Moves
<1>2. ASSUME BeginShutdown PROVE AbandonedInv'
  BY <1>2 DEF BeginShutdown, Moves
<1>3. ASSUME WaitSlice PROVE AbandonedInv'
  BY <1>3 DEF WaitSlice, Moves
<1>4. ASSUME EndWait PROVE AbandonedInv'
  BY <1>4 DEF EndWait, Moves
<1>5. ASSUME Stopped PROVE AbandonedInv'
  BY <1>5 DEF Stopped, Moves
<1>6. ASSUME BeginStartup PROVE AbandonedInv'
  BY <1>6 DEF BeginStartup, Moves
<1>7. ASSUME MapPaths PROVE AbandonedInv'
  BY <1>7 DEF MapPaths, Moves
<1>8. ASSUME Replace PROVE AbandonedInv'
  BY <1>8 DEF Replace, Moves
<1>9. ASSUME NEW r \in LogRequests, Route(r) PROVE AbandonedInv'
  BY <1>9 DEF Route
<1>10. ASSUME NEW r \in LogRequests, TryAcquire(r) PROVE AbandonedInv'
  BY <1>10 DEF TryAcquire, Runs, InMappedCode
<1>11. ASSUME NEW r \in LogRequests, CountIn(r) PROVE AbandonedInv'
  BY <1>11 DEF CountIn, Runs, InMappedCode
<1>12. ASSUME NEW r \in LogRequests, CheckAgain(r) PROVE AbandonedInv'
  BY <1>12 DEF CheckAgain, Runs, InMappedCode
<1>13. ASSUME NEW r \in LogRequests, BackOut(r) PROVE AbandonedInv'
  BY <1>13 DEF BackOut, Runs, InMappedCode
<1>14. ASSUME NEW r \in LogRequests, EndRequest(r) PROVE AbandonedInv'
  BY <1>14 DEF EndRequest, Runs, InMappedCode
<1>15. ASSUME NEW r \in LogRequests, EndStream(r) PROVE AbandonedInv'
  BY <1>15 DEF EndStream, Runs, InMappedCode
<1>16. ASSUME NEW r \in LogRequests, Release(r) PROVE AbandonedInv'
  BY <1>16 DEF Release, Runs, InMappedCode
<1>17. ASSUME NEW r \in LogRequests, Return(r) PROVE AbandonedInv'
  BY <1>17 DEF Return, Runs, InMappedCode
<1>18. ASSUME NEW r \in LogRequests, RunUnmapped(r) PROVE AbandonedInv'
  BY <1>18 DEF RunUnmapped, InMappedCode
<1>. HIDE DEF IInv, AbandonedInv
<1>. QED
  BY <1>1, <1>2, <1>3, <1>4, <1>5, <1>6, <1>7, <1>8, <1>9, <1>10, <1>11, <1>12, <1>13, <1>14, <1>15, <1>16, <1>17, <1>18, Zenon
     DEF LogStreamNext, Controller, Request

\* The library goes when only those are left that were given up.
LEMMA ServedKept == IInv /\ LogStreamNext => ServedFromMappedCode'
<1> SUFFICES ASSUME IInv, LogStreamNext PROVE ServedFromMappedCode'
  OBVIOUS
<1>. USE LogStreamAssumption
     DEF IInv, LogStreamTypeOK, Stages, RequestPlaces, bundleVars, requestVars, VersionsInv, AbandonedInv, ServedFromMappedCode, InMappedCode
<1>1. ASSUME UnmapPaths PROVE ServedFromMappedCode'
  BY <1>1 DEF UnmapPaths, Moves
<1>2. ASSUME BeginShutdown PROVE ServedFromMappedCode'
  BY <1>2 DEF BeginShutdown, Moves
<1>3. ASSUME WaitSlice PROVE ServedFromMappedCode'
  BY <1>3 DEF WaitSlice, Moves
<1>4. ASSUME EndWait PROVE ServedFromMappedCode'
  BY <1>4 DEF EndWait, Moves
<1>5. ASSUME Stopped PROVE ServedFromMappedCode'
  BY <1>5 DEF Stopped, Moves
<1>6. ASSUME BeginStartup PROVE ServedFromMappedCode'
  BY <1>6 DEF BeginStartup, Moves
<1>7. ASSUME MapPaths PROVE ServedFromMappedCode'
  BY <1>7 DEF MapPaths, Moves
<1>8. ASSUME Replace PROVE ServedFromMappedCode'
  BY <1>8 DEF Replace, Moves
<1>9. ASSUME NEW r \in LogRequests, Route(r) PROVE ServedFromMappedCode'
  BY <1>9 DEF Route
<1>10. ASSUME NEW r \in LogRequests, TryAcquire(r) PROVE ServedFromMappedCode'
  BY <1>10 DEF TryAcquire, Runs, InMappedCode
<1>11. ASSUME NEW r \in LogRequests, CountIn(r) PROVE ServedFromMappedCode'
  BY <1>11 DEF CountIn, Runs, InMappedCode
<1>12. ASSUME NEW r \in LogRequests, CheckAgain(r) PROVE ServedFromMappedCode'
  BY <1>12 DEF CheckAgain, Runs, InMappedCode
<1>13. ASSUME NEW r \in LogRequests, BackOut(r) PROVE ServedFromMappedCode'
  BY <1>13 DEF BackOut, Runs, InMappedCode
<1>14. ASSUME NEW r \in LogRequests, EndRequest(r) PROVE ServedFromMappedCode'
  BY <1>14 DEF EndRequest, Runs, InMappedCode
<1>15. ASSUME NEW r \in LogRequests, EndStream(r) PROVE ServedFromMappedCode'
  BY <1>15 DEF EndStream, Runs, InMappedCode
<1>16. ASSUME NEW r \in LogRequests, Release(r) PROVE ServedFromMappedCode'
  BY <1>16 DEF Release, Runs, InMappedCode
<1>17. ASSUME NEW r \in LogRequests, Return(r) PROVE ServedFromMappedCode'
  BY <1>17 DEF Return, Runs, InMappedCode
<1>18. ASSUME NEW r \in LogRequests, RunUnmapped(r) PROVE ServedFromMappedCode'
  BY <1>18 DEF RunUnmapped, InMappedCode
<1>. HIDE DEF IInv, ServedFromMappedCode
<1>. QED
  BY <1>1, <1>2, <1>3, <1>4, <1>5, <1>6, <1>7, <1>8, <1>9, <1>10, <1>11, <1>12, <1>13, <1>14, <1>15, <1>16, <1>17, <1>18, Zenon
     DEF LogStreamNext, Controller, Request

\* The counter and the set change together: a request counts itself in on its way
\* from "checked" to "counted", and out once on each of its two ways back.
LEMMA CountKept == IInv /\ LogStreamNext => CountIsExact'
<1> SUFFICES ASSUME IInv, LogStreamNext, codeLoaded'
             PROVE  activeRequests' = Cardinality(CountedIn)'
  BY DEF CountIsExact
<1>. USE DEF bundleVars, requestVars
<1>1. ASSUME codeLoaded, UNCHANGED <<at, handlerVersion, codeVersion, activeRequests>>
      PROVE  activeRequests' = Cardinality(CountedIn)'
  BY <1>1 DEF IInv, CountIsExact, CountedIn
<1>2. ASSUME UnmapPaths \/ BeginShutdown \/ WaitSlice \/ EndWait \/ Stopped \/ MapPaths
      PROVE  activeRequests' = Cardinality(CountedIn)'
  BY <1>1, <1>2 DEF UnmapPaths, BeginShutdown, WaitSlice, EndWait, Stopped, MapPaths
<1>3. ASSUME BeginStartup PROVE activeRequests' = Cardinality(CountedIn)'
  <2>1. CASE codeLoaded
    BY <1>1, <1>3, <2>1 DEF BeginStartup
  <2>2. CASE ~codeLoaded
    <3>1. CountedIn' = {}
      BY <1>3, <2>2 DEF BeginStartup, IInv, VersionsInv, CountedIn
    <3>. QED BY <1>3, <2>2, <3>1, FS_EmptySet DEF BeginStartup
  <2>. QED BY <2>1, <2>2
<1>4. ASSUME Replace PROVE activeRequests' = Cardinality(CountedIn)'
  BY <1>4 DEF Replace
<1>5. ASSUME NEW r \in LogRequests, Route(r) PROVE activeRequests' = Cardinality(CountedIn)'
  <2>1. CountedIn' = CountedIn /\ codeLoaded /\ activeRequests' = activeRequests
    BY <1>5 DEF Route, IInv, LogStreamTypeOK, CountedIn
  <2>. QED BY <2>1 DEF IInv, CountIsExact
<1>6. ASSUME NEW r \in LogRequests, CountIn(r) PROVE activeRequests' = Cardinality(CountedIn)'
  <2>1. codeLoaded /\ r \notin CountedIn /\ CountedIn' = CountedIn \cup {r}
    BY <1>6 DEF CountIn, Runs, InMappedCode, IInv, LogStreamTypeOK, CountedIn
  <2>. QED BY <1>6, <2>1, CountedUp DEF CountIn, IInv, CountIsExact
<1>7. ASSUME NEW r \in LogRequests, BackOut(r) \/ Release(r)
      PROVE  activeRequests' = Cardinality(CountedIn)'
  <2>1. codeLoaded /\ r \in CountedIn /\ CountedIn' = CountedIn \ {r}
    BY <1>7 DEF BackOut, Release, Runs, InMappedCode, IInv, LogStreamTypeOK, CountedIn
  <2>. QED BY <1>7, <2>1, CountedDown DEF BackOut, Release, IInv, CountIsExact
<1>8. ASSUME NEW r \in LogRequests,
             TryAcquire(r) \/ CheckAgain(r) \/ EndRequest(r) \/ EndStream(r) \/ Return(r)
      PROVE  activeRequests' = Cardinality(CountedIn)'
  <2>1. codeLoaded /\ CountedIn' = CountedIn /\ activeRequests' = activeRequests
    BY <1>8 DEF TryAcquire, CheckAgain, EndRequest, EndStream, Return, Runs, InMappedCode,
                IInv, LogStreamTypeOK, CountedIn
  <2>. QED BY <2>1 DEF IInv, CountIsExact
<1>9. ASSUME NEW r \in LogRequests, RunUnmapped(r)
      PROVE  activeRequests' = Cardinality(CountedIn)'
  BY <1>1, <1>9 DEF RunUnmapped
<1>. QED BY <1>2, <1>3, <1>4, <1>5, <1>6, <1>7, <1>8, <1>9, Zenon
         DEF LogStreamNext, Controller, Request

\* The counter is never taken below zero.
LEMMA TypesKept == IInv /\ LogStreamNext => LogStreamTypeOK'
<1> SUFFICES ASSUME IInv, LogStreamNext PROVE LogStreamTypeOK'
  OBVIOUS
<1>. USE DEF IInv, LogStreamTypeOK, Stages, RequestPlaces, bundleVars, requestVars
<1>1. ASSUME UnmapPaths PROVE LogStreamTypeOK'
  BY <1>1 DEF UnmapPaths, Moves
<1>2. ASSUME BeginShutdown PROVE LogStreamTypeOK'
  BY <1>2 DEF BeginShutdown, Moves
<1>3. ASSUME WaitSlice PROVE LogStreamTypeOK'
  BY <1>3 DEF WaitSlice, Moves
<1>4. ASSUME EndWait PROVE LogStreamTypeOK'
  BY <1>4 DEF EndWait, Moves, CountedIn
<1>5. ASSUME Stopped PROVE LogStreamTypeOK'
  BY <1>5 DEF Stopped, Moves
<1>6. ASSUME BeginStartup PROVE LogStreamTypeOK'
  BY <1>6 DEF BeginStartup, Moves
<1>7. ASSUME MapPaths PROVE LogStreamTypeOK'
  BY <1>7 DEF MapPaths, Moves
<1>8. ASSUME Replace PROVE LogStreamTypeOK'
  <2>1. codeVersion' \in Nat \ {0} /\ stage' \in Stages
    BY <1>8 DEF Replace, Moves
  <2>2. codeLoaded' \in BOOLEAN
    BY <1>8, Zenon DEF Replace
  <2>. QED BY <1>8, <2>1, <2>2, Zenon DEF Replace
<1>9. ASSUME NEW r \in LogRequests, Route(r) PROVE LogStreamTypeOK'
  BY <1>9 DEF Route
<1>10. ASSUME NEW r \in LogRequests, TryAcquire(r) PROVE LogStreamTypeOK'
  BY <1>10 DEF TryAcquire, Runs
<1>11. ASSUME NEW r \in LogRequests, CountIn(r) PROVE LogStreamTypeOK'
  BY <1>11 DEF CountIn, Runs
<1>12. ASSUME NEW r \in LogRequests, CheckAgain(r) PROVE LogStreamTypeOK'
  BY <1>12 DEF CheckAgain, Runs
<1>13. ASSUME NEW r \in LogRequests, BackOut(r) PROVE LogStreamTypeOK'
  <2>1. r \in CountedIn /\ codeLoaded
    BY <1>13 DEF BackOut, Runs, InMappedCode, CountedIn
  <2>2. activeRequests \in Nat \ {0}
    BY <2>1, CountedDown, Zenon DEF CountIsExact
  <2>3. activeRequests - 1 \in Nat
    BY <2>2
  <2>. QED BY <1>13, <2>3 DEF BackOut, Runs
<1>14. ASSUME NEW r \in LogRequests, EndRequest(r) PROVE LogStreamTypeOK'
  BY <1>14 DEF EndRequest, Runs
<1>15. ASSUME NEW r \in LogRequests, EndStream(r) PROVE LogStreamTypeOK'
  BY <1>15 DEF EndStream, Runs
<1>16. ASSUME NEW r \in LogRequests, Release(r) PROVE LogStreamTypeOK'
  <2>1. r \in CountedIn /\ codeLoaded
    BY <1>16 DEF Release, Runs, InMappedCode, CountedIn
  <2>2. activeRequests \in Nat \ {0}
    BY <2>1, CountedDown, Zenon DEF CountIsExact
  <2>3. activeRequests - 1 \in Nat
    BY <2>2
  <2>. QED BY <1>16, <2>3 DEF Release, Runs
<1>17. ASSUME NEW r \in LogRequests, Return(r) PROVE LogStreamTypeOK'
  BY <1>17 DEF Return, Runs
<1>18. ASSUME NEW r \in LogRequests, RunUnmapped(r) PROVE LogStreamTypeOK'
  BY <1>18 DEF RunUnmapped
<1>. HIDE DEF IInv, LogStreamTypeOK
<1>. QED
  BY <1>1, <1>2, <1>3, <1>4, <1>5, <1>6, <1>7, <1>8, <1>9, <1>10, <1>11, <1>12, <1>13, <1>14, <1>15, <1>16, <1>17, <1>18, Zenon
     DEF LogStreamNext, Controller, Request

LEMMA Start == LogStreamInit => IInv
<1> SUFFICES ASSUME LogStreamInit PROVE IInv
  OBVIOUS
<1>1. CountedIn = {}
  BY DEF LogStreamInit, CountedIn
<1>2. CountIsExact
  BY <1>1, FS_EmptySet DEF LogStreamInit, CountIsExact
<1>3. LogStreamTypeOK
  <2>1. codeLoaded \in BOOLEAN /\ shuttingDown \in BOOLEAN /\ serverDown \in BOOLEAN
    BY Zenon DEF LogStreamInit
  <2>. QED BY <2>1 DEF LogStreamInit, LogStreamTypeOK, Stages, RequestPlaces
<1>4. VersionsInv /\ FlagInv /\ AbandonedInv /\ ServedFromMappedCode
  BY DEF LogStreamInit, VersionsInv, FlagInv, AbandonedInv, ServedFromMappedCode
<1>. QED BY <1>2, <1>3, <1>4 DEF IInv

LEMMA Stutter == IInv /\ UNCHANGED logStreamVars => IInv'
BY DEF IInv, LogStreamTypeOK, VersionsInv, FlagInv, AbandonedInv, CountIsExact, CountedIn,
       ServedFromMappedCode, InMappedCode, logStreamVars, bundleVars, requestVars

LEMMA Invariance == LogStreamSpec => []IInv
<1>1. IInv /\ [LogStreamNext]_logStreamVars => IInv'
  BY TypesKept, VersionsKept, FlagKept, AbandonedKept, CountKept, ServedKept, Stutter, Zenon
     DEF IInv
<1>. QED BY Start, <1>1, PTL DEF LogStreamSpec

-----------------------------------------------------------------------------
\* The types.
THEOREM LogStreamTypes == LogStreamSpec => []LogStreamTypeOK
BY Invariance, PTL DEF IInv

\* gActiveLogRequests is the number of requests between tryAcquire and release,
\* whatever refusals, stops and restarts they meet.
THEOREM CounterIsExact == LogStreamSpec => []CountIsExact
BY Invariance, PTL DEF IInv

\* Whoever was let in runs mapped code, unless stop() gave up waiting.
THEOREM MappedWhileServed == LogStreamSpec => []ServedFromMappedCode
BY Invariance, PTL DEF IInv

\* No request is let in between the begin of stop()'s wait and the next start.
THEOREM StoppedIsClosed == LogStreamSpec => NobodyEntersAStoppedBundle
<1> DEFINE Stays == \A r \in LogRequests: at[r] # "serving" /\ at'[r] = "serving" =>
                      stage \notin {"draining", "drained", "stopped"}
<1>1. IInv /\ [LogStreamNext]_logStreamVars => [Stays]_logStreamVars
  <2> SUFFICES ASSUME IInv, LogStreamNext PROVE Stays
    BY Zenon
  <2>1. ASSUME NEW q \in LogRequests, CheckAgain(q) PROVE Stays
    BY <2>1 DEF CheckAgain, Runs, InMappedCode, IInv, LogStreamTypeOK, FlagInv
  <2>2. ASSUME \A r \in LogRequests: at'[r] = "serving" => at[r] = "serving" PROVE Stays
    BY <2>2
  <2>3. ASSUME Controller PROVE Stays
    BY <2>2, <2>3
       DEF Controller, UnmapPaths, BeginShutdown, WaitSlice, EndWait, Stopped, BeginStartup,
           MapPaths, Replace, requestVars
  <2>4. ASSUME NEW q \in LogRequests, Request(q), ~CheckAgain(q) PROVE Stays
    BY <2>2, <2>4
       DEF Request, Route, TryAcquire, CountIn, BackOut, EndRequest, EndStream, Release,
           Return, RunUnmapped, Runs, requestVars, IInv, LogStreamTypeOK
  <2>. QED BY <2>1, <2>3, <2>4, Zenon DEF LogStreamNext
<1>2. LogStreamSpec => [][Stays]_logStreamVars
  BY Invariance, <1>1, PTL DEF LogStreamSpec
<1>. QED BY <1>2, Zenon DEF NobodyEntersAStoppedBundle

-----------------------------------------------------------------------------
\* A step that leaves the stage, the version and who serves alone is none for
\* the gate.
LEMMA GateStays ==
  ASSUME UNCHANGED <<stage, codeVersion, waited, serverDown>>, Serving' = Serving
  PROVE  UNCHANGED LogGate!gateVars
BY DEF LogGate!gateVars, Gate, Inside, GivenUp, Unloaded

\* A step of the controller that is none of a request.
LEMMA ControllerAtGate == IInv /\ Controller => [LogGate!Next]_(LogGate!gateVars)
<1> SUFFICES ASSUME IInv, Controller PROVE [LogGate!Next]_(LogGate!gateVars)
  OBVIOUS
<1>. USE DEF bundleVars, requestVars, Moves, Unloaded
<1>1. CASE UnmapPaths \/ MapPaths
  <2>1. Gate = "open" /\ Gate' = "open" /\ Serving' = Serving
    BY <1>1 DEF UnmapPaths, MapPaths, Gate, Serving
  <2>2. UNCHANGED <<Gate, Inside, GivenUp, waited, Unloaded, serverDown>>
    BY <1>1, <2>1 DEF UnmapPaths, MapPaths, Inside, GivenUp
  <2>. QED BY <2>2 DEF LogGate!gateVars
<1>2. CASE BeginShutdown
  <2>1. Gate = "open" /\ Gate' = "closing" /\ Serving' = Serving
    BY <1>2 DEF BeginShutdown, Gate, Serving
  <2>2. LogGate!Close
    BY <1>2, <2>1 DEF BeginShutdown, Inside, GivenUp, LogGate!Close
  <2>. QED BY <2>2 DEF LogGate!Next
<1>3. CASE WaitSlice
  <2>1. Gate = "closing" /\ Gate' = "closing" /\ Serving' = Serving
    BY <1>3 DEF WaitSlice, Gate, Serving
  <2>2. LogGate!Wait
    BY <1>3, <2>1 DEF WaitSlice, Inside, GivenUp, LogGate!Wait
  <2>. QED BY <2>2 DEF LogGate!Next
<1>4. CASE EndWait
  <2>1. Gate = "closing" /\ Gate' = "closed" /\ Serving' = Serving /\ codeLoaded
    BY <1>4 DEF EndWait, Gate, Serving, IInv, VersionsInv
  <2>2. activeRequests = 0 => Serving = {}
    <3>1. IsFiniteSet(CountedIn) /\ Serving \subseteq CountedIn
      BY LogStreamAssumption, FS_Subset DEF CountedIn, Serving
    <3>. QED BY <2>1, <3>1, FS_EmptySet DEF IInv, CountIsExact
  <2>3. LogGate!Finish
    BY <1>4, <2>1, <2>2 DEF EndWait, Inside, GivenUp, LogGate!Finish
  <2>. QED BY <2>3 DEF LogGate!Next
<1>5. CASE Stopped
  <2>1. Gate = "closed" /\ Gate' = "closed" /\ Serving' = Serving
    BY <1>5 DEF Stopped, Gate, Serving
  <2>2. UNCHANGED <<Gate, Inside, GivenUp, waited, Unloaded, serverDown>>
    BY <1>5, <2>1 DEF Stopped, Inside, GivenUp
  <2>. QED BY <2>2 DEF LogGate!gateVars
<1>6. CASE BeginStartup
  <2>1. Gate = "closed" /\ Gate' = "open" /\ Serving' = Serving
    BY <1>6 DEF BeginStartup, Gate, Serving
  <2>2. LogGate!Open
    BY <1>6, <2>1 DEF BeginStartup, Inside, GivenUp, LogGate!Open
  <2>. QED BY <2>2 DEF LogGate!Next
<1>7. CASE Replace
  <2>1. Gate = "closed" /\ Gate' = "closed" /\ codeVersion' = codeVersion + 1
    BY <1>7 DEF Replace, Gate
  <2>2. codeVersion \in Nat \ {0} /\ handlerVersion' = handlerVersion
        /\ \A r \in LogRequests: handlerVersion[r] \in Nat /\ handlerVersion[r] <= codeVersion
    BY <1>7 DEF Replace, IInv, LogStreamTypeOK, VersionsInv
  <2>3. Serving' = {}
    BY <2>1, <2>2 DEF Serving
  <2>4. codeVersion' > 1
    BY <2>1, <2>2
  <2>5. Inside = {} /\ Inside' = {} /\ GivenUp' = {} /\ Unloaded' = TRUE
    BY <2>1, <2>3, <2>4 DEF Inside, GivenUp
  <2>6. LogGate!Unload
    BY <1>7, <2>1, <2>5 DEF Replace, LogGate!Unload
  <2>. QED BY <2>6 DEF LogGate!Next
<1>. QED BY <1>1, <1>2, <1>3, <1>4, <1>5, <1>6, <1>7 DEF Controller

\* Only the second look lets a request in, and then the flag says that the gate
\* is open.
LEMMA RequestAtGate ==
  ASSUME IInv, NEW r \in LogRequests, Request(r)
  PROVE  [LogGate!Next]_(LogGate!gateVars)
<1>. USE DEF bundleVars, IInv, LogStreamTypeOK, RequestPlaces
<1>1. ASSUME NEW from \in RequestPlaces \ {"serving"}, NEW to \in RequestPlaces \ {"serving"},
             Runs(r, from, to)
      PROVE  UNCHANGED LogGate!gateVars
  <2>1. Serving' = Serving
    BY <1>1 DEF Runs, Serving
  <2>. QED BY <1>1, <2>1, GateStays DEF Runs
<1>2. CASE Route(r)
  <2>1. Serving' = Serving
    BY <1>2 DEF Route, Serving
  <2>. QED BY <1>2, <2>1, GateStays DEF Route
<1>3. CASE TryAcquire(r) \/ CountIn(r) \/ BackOut(r) \/ Release(r) \/ Return(r)
  BY <1>1, <1>3 DEF TryAcquire, CountIn, BackOut, Release, Return
<1>4. CASE CheckAgain(r)
  <2>1. CASE shuttingDown
    BY <1>1, <1>4, <2>1 DEF CheckAgain
  <2>2. CASE ~shuttingDown
    <3>1. Runs(r, "counted", "serving") /\ codeLoaded /\ handlerVersion[r] = codeVersion
      BY <1>4, <2>2 DEF CheckAgain, Runs, InMappedCode
    <3>2. stage \notin {"draining", "drained", "stopped"} /\ stage' = stage
      BY <2>2, <3>1 DEF FlagInv, Runs
    <3>3. Gate = "open" /\ Gate' = "open"
      BY <3>2 DEF Gate
    <3>4. Serving' = Serving \cup {r}
      BY <3>1 DEF Runs, Serving
    <3>5. LogGate!Enter(r)
      BY <3>1, <3>3, <3>4 DEF Runs, Inside, GivenUp, Unloaded, LogGate!Enter
    <3>. QED BY <3>5 DEF LogGate!Next
  <2>. QED BY <2>1, <2>2
<1>5. CASE EndRequest(r) \/ EndStream(r)
  <2>1. Runs(r, "serving", "leaving") /\ handlerVersion[r] = codeVersion
    BY <1>5 DEF EndRequest, EndStream, Runs, InMappedCode
  <2>2. r \in Serving /\ Serving' = Serving \ {r} /\ Gate' = Gate
    BY <2>1 DEF Runs, Serving, Gate
  <2>3. /\ r \in Inside \cup GivenUp
        /\ Inside' = Inside \ {r} /\ GivenUp' = GivenUp \ {r}
    BY <2>2 DEF Inside, GivenUp
  <2>4. LogGate!Leave(r)
    BY <2>1, <2>2, <2>3 DEF Runs, Unloaded, LogGate!Leave
  <2>. QED BY <2>4 DEF LogGate!Next
<1>6. CASE RunUnmapped(r)
  <2>1. codeVersion > 1
    BY <1>6 DEF RunUnmapped, InMappedCode, VersionsInv
  <2>2. Unloaded /\ UNCHANGED <<Gate, Inside, GivenUp, waited, Unloaded>>
    BY <1>6, <2>1 DEF RunUnmapped, requestVars, Gate, Inside, GivenUp, Serving, Unloaded
  <2>3. LogGate!Die
    BY <1>6, <2>2 DEF RunUnmapped, LogGate!Die
  <2>. QED BY <2>3 DEF LogGate!Next
<1>. QED BY <1>2, <1>3, <1>4, <1>5, <1>6 DEF Request

\* Two atomics, looked at one after the other, are as good as one gate: what
\* LogStreamRequestHandler does implements LibraryGate (but for its fairness).
THEOREM LogStreamImplementsGate == LogStreamSpec => LogGate!SafetySpec
<1>1. LogStreamInit => LogGate!Init
  <2> SUFFICES ASSUME LogStreamInit PROVE LogGate!Init
    OBVIOUS
  <2>1. Gate = "open" /\ Serving = {} /\ ~(1 > 1)
    BY DEF LogStreamInit, Gate, Serving
  <2>. QED BY <2>1 DEF LogStreamInit, Inside, GivenUp, Unloaded, LogGate!Init
<1>2. IInv /\ [LogStreamNext]_logStreamVars => [LogGate!Next]_(LogGate!gateVars)
  <2>1. ASSUME UNCHANGED logStreamVars PROVE UNCHANGED LogGate!gateVars
    BY <2>1, GateStays DEF logStreamVars, bundleVars, requestVars, Serving
  <2>. QED BY <2>1, ControllerAtGate, RequestAtGate DEF LogStreamNext
<1>. QED BY <1>1, <1>2, Invariance, PTL DEF LogStreamSpec, LogGate!SafetySpec
=============================================================================
