----------------------- MODULE BundleHotReload_proofs -----------------------
(***************************************************************************)
(* Proofs about BundleHotReload: type correctness, that what runs is       *)
(* stored, that the watcher spares the bundles it must not touch, that a   *)
(* start finds its dependencies, and that all of it implements             *)
(* BundleDirectory.                                                        *)
(***************************************************************************)
EXTENDS BundleHotReload, FiniteSetTheorems, TLAPS

BundleStep(t) == StopStep(t) \/ StartStep(t) \/ ResolveStep(t)

-----------------------------------------------------------------------------
(***************************************************************************)
(* Bundle objects are only ever added, and keep their name and version.    *)
(***************************************************************************)
SameBundles ==
  /\ Len(bundles') = Len(bundles)
  /\ \A i \in 1 .. Len(bundles): bundles'[i].name = bundles[i].name
                                /\ bundles'[i].version = bundles[i].version

\* A function on the places of a sequence of bundles is such a sequence.
LEMMA BundleSequence ==
  ASSUME NEW b \in Seq(Bundle), NEW f, f = [i \in DOMAIN b |-> f[i]],
         \A i \in 1 .. Len(b): f[i] \in Bundle
  PROVE  f \in Seq(Bundle) /\ Len(f) = Len(b)
<1>1. DOMAIN b = 1 .. Len(b) /\ Len(b) \in Nat
  OBVIOUS
<1>2. f \in [1 .. Len(b) -> Bundle]
  BY <1>1
<1>3. f \in Seq(Bundle)
  BY <1>1, <1>2
<1>4. QED
  BY <1>1, <1>2, <1>3

\* Writing a state.
LEMMA StateWritten ==
  ASSUME bundles \in Seq(Bundle), NEW o \in 1 .. Len(bundles), NEW s \in States, Becomes(o, s)
  PROVE  bundles' \in Seq(Bundle) /\ SameBundles
<1> DEFINE f == [bundles EXCEPT ![o].state = s]
<1>0. DOMAIN bundles = 1 .. Len(bundles)
  OBVIOUS
<1>1. \A i \in 1 .. Len(bundles): bundles[i] \in Bundle
  OBVIOUS
<1>2. \A i \in 1 .. Len(bundles): f[i] \in Bundle /\ f[i].name = bundles[i].name
                                /\ f[i].version = bundles[i].version
  BY <1>0, <1>1 DEF Bundle
<1>3. f = [i \in DOMAIN bundles |-> f[i]]
  BY <1>0
<1>4. f \in Seq(Bundle) /\ Len(f) = Len(bundles)
  BY <1>2, <1>3, BundleSequence
<1>5. QED
  BY <1>2, <1>4 DEF Becomes, SameBundles

\* Loading a bundle.
LEMMA OneBundleMore ==
  ASSUME bundles \in Seq(Bundle), NEW b \in Bundle, bundles' = Append(bundles, b)
  PROVE  /\ bundles' \in Seq(Bundle) /\ Len(bundles') = Len(bundles) + 1
         /\ \A i \in 1 .. Len(bundles): bundles'[i] = bundles[i]
         /\ bundles'[Len(bundles) + 1] = b
OBVIOUS

\* Writing the state and the dependencies of one bundle.
SameIdentity(b, c) == c.name = b.name /\ c.version = b.version

LEMMA RecordWritten ==
  ASSUME NEW b \in Bundle, NEW s \in States, NEW D \in SUBSET Contents
  PROVE  /\ SameIdentity(b, [b EXCEPT !.state = s]) /\ [b EXCEPT !.state = s] \in Bundle
         /\ SameIdentity(b, [b EXCEPT !.deps = D]) /\ [b EXCEPT !.deps = D] \in Bundle
         /\ SameIdentity(b, [b EXCEPT !.state = s, !.deps = D])
         /\ [b EXCEPT !.state = s, !.deps = D] \in Bundle
BY DEF Bundle, SameIdentity

\* What a start or a resolution writes, to several bundles at once.
LEMMA BundlesWritten ==
  ASSUME bundles \in Seq(Bundle), bundles' = [i \in DOMAIN bundles |-> bundles'[i]],
         \A i \in 1 .. Len(bundles):
           bundles'[i] \in Bundle /\ SameIdentity(bundles[i], bundles'[i])
  PROVE  bundles' \in Seq(Bundle) /\ SameBundles
BY BundleSequence DEF SameBundles, SameIdentity

-----------------------------------------------------------------------------
(***************************************************************************)
(* The steps of the bundle objects: SameBundles, and the type of bundles.  *)
(***************************************************************************)
LEMMA StartSame ==
  ASSUME TypeOK, NEW t \in Threads, StartSucceeds(t) \/ StartFails(t)
  PROVE  bundles' \in Seq(Bundle) /\ SameBundles
<1> DEFINE o == target[t]
<1>1. /\ bundles \in Seq(Bundle) /\ DOMAIN bundles = 1 .. Len(bundles)
      /\ \A i \in 1 .. Len(bundles): bundles[i] \in Bundle
      /\ old[t] \in States /\ "active" \in States
  BY DEF TypeOK, LoaderTypes, ThreadTypes, States
<1>2. ASSUME NEW i \in 1 .. Len(bundles), NEW s \in States
      PROVE  [bundles[i] EXCEPT !.state = s] \in Bundle
             /\ SameIdentity(bundles[i], [bundles[i] EXCEPT !.state = s])
  BY <1>1, RecordWritten
<1>3. \A i \in 1 .. Len(bundles): SameIdentity(bundles[i], bundles[i])
  BY DEF SameIdentity
<1>4. CASE StartSucceeds(t)
  <2>1. PICK D \in SUBSET Names: bundles' = [i \in DOMAIN bundles |->
               IF i \in Loaded(D) \cup {o}
               THEN [bundles[i] EXCEPT !.state = "active"] ELSE bundles[i]]
    BY <1>4 DEF StartSucceeds
  <2>2. bundles' = [i \in DOMAIN bundles |-> bundles'[i]]
    BY <2>1, Zenon
  <2>3. QED
    BY <1>1, <1>2, <1>3, <2>1, <2>2, BundlesWritten
<1>5. CASE StartFails(t)
  <2>1. PICK D \in SUBSET Names: bundles' = [i \in DOMAIN bundles |->
               IF i = o THEN [bundles[i] EXCEPT !.state = old[t]]
               ELSE IF i \in Loaded(D) THEN [bundles[i] EXCEPT !.state = "active"]
               ELSE bundles[i]]
    BY <1>5 DEF StartFails
  <2>2. bundles' = [i \in DOMAIN bundles |-> bundles'[i]]
    BY <2>1, Zenon
  <2>3. QED
    BY <1>1, <1>2, <1>3, <2>1, <2>2, BundlesWritten
<1>6. QED
  BY <1>4, <1>5

LEMMA ResolveSame ==
  ASSUME TypeOK, LoadedUnderItsName, NEW t \in Threads, ResolveSucceeds(t) \/ ResolveFails(t)
  PROVE  bundles' \in Seq(Bundle) /\ SameBundles
<1> DEFINE o == target[t]
           deps(i) == {PathOf(loaded[d]): d \in Needs[NameOf(i)]}
<1>1. /\ bundles \in Seq(Bundle) /\ DOMAIN bundles = 1 .. Len(bundles)
      /\ \A i \in 1 .. Len(bundles): bundles[i] \in Bundle
      /\ o \in 1 .. Len(bundles) /\ "resolved" \in States
  BY DEF TypeOK, LoaderTypes, ThreadTypes, States
<1>2. \A n \in Names: IsLoaded(n) => loaded[n] \in 1 .. Len(bundles)
  BY DEF TypeOK, LoaderTypes, IsLoaded
<1>3. \A i \in 1 .. Len(bundles): NameOf(i) \in Names /\ PathOf(i) \in Contents
  BY <1>1 DEF NameOf, PathOf, Bundle, Contents
<1>4. ASSUME NEW n \in Names, NEW D \in SUBSET Names, Resolvable(n, D),
             NEW i \in 1 .. Len(bundles), NameOf(i) = n
      PROVE  deps(i) \in SUBSET Contents
  <2>1. Needs[n] \subseteq Names
    BY NamesAssumption
  <2>2. QED
    BY <1>2, <1>3, <1>4, <2>1 DEF Resolvable
<1>5. \A i \in 1 .. Len(bundles): SameIdentity(bundles[i], bundles[i])
  BY DEF SameIdentity
<1>6. ASSUME NEW i \in 1 .. Len(bundles), deps(i) \in SUBSET Contents
      PROVE  /\ [bundles[i] EXCEPT !.state = "resolved", !.deps = deps(i)] \in Bundle
             /\ SameIdentity(bundles[i],
                             [bundles[i] EXCEPT !.state = "resolved", !.deps = deps(i)])
  <2>1. bundles[i] \in Bundle /\ "resolved" \in States
    BY <1>1
  <2>2. QED
    BY <1>6, <2>1, RecordWritten
<1>7. ASSUME NEW i \in 1 .. Len(bundles)
      PROVE  /\ [bundles[i] EXCEPT !.deps = {}] \in Bundle
             /\ SameIdentity(bundles[i], [bundles[i] EXCEPT !.deps = {}])
  <2>1. bundles[i] \in Bundle /\ "resolved" \in States /\ {} \in SUBSET Contents
    BY <1>1
  <2>2. QED
    BY <2>1, RecordWritten
<1>8. ASSUME NEW D \in SUBSET Names, ResolvedFor(NameOf(o), D), \A n \in D: Resolvable(n, D),
             NEW i \in Loaded(D)
      PROVE  i \in 1 .. Len(bundles) /\ deps(i) \in SUBSET Contents
  <2>1. PICK n \in D: i = loaded[n]
    BY DEF Loaded
  <2>2. IsLoaded(n) /\ n \in Names
    BY <1>8 DEF ResolvedFor
  <2>3. NameOf(i) = n /\ i \in 1 .. Len(bundles)
    BY <1>2, <2>1, <2>2 DEF LoadedUnderItsName
  <2>4. QED
    BY <1>4, <1>8, <2>2, <2>3
<1>9. CASE ResolveSucceeds(t)
  <2>1. PICK D \in SUBSET Names: ResolvesWith(o, D) /\ bundles' = [i \in DOMAIN bundles |->
               IF i \in Loaded(D) \cup {o}
               THEN [bundles[i] EXCEPT !.state = "resolved", !.deps = deps(i)]
               ELSE bundles[i]]
    BY <1>9, Zenon DEF ResolveSucceeds
  <2>2. bundles' = [i \in DOMAIN bundles |-> bundles'[i]]
    BY <2>1, Zenon
  <2>3. /\ ResolvedFor(NameOf(o), D) /\ \A n \in D: Resolvable(n, D)
        /\ Resolvable(NameOf(o), D) /\ NameOf(o) \in Names
    BY <1>1, <1>3, <2>1 DEF ResolvesWith
  <2>4. \A i \in Loaded(D) \cup {o}: deps(i) \in SUBSET Contents
    BY <1>1, <1>4, <1>8, <2>3
  <2>5. ASSUME NEW i \in 1 .. Len(bundles)
        PROVE  bundles'[i] \in Bundle /\ SameIdentity(bundles[i], bundles'[i])
    <3>1. CASE i \in Loaded(D) \cup {o}
      <4>1. bundles'[i] = [bundles[i] EXCEPT !.state = "resolved", !.deps = deps(i)]
        BY <1>1, <2>1, <3>1, Zenon
      <4>2. QED
        BY <1>6, <2>4, <3>1, <4>1, Zenon
    <3>2. CASE i \notin Loaded(D) \cup {o}
      <4>1. bundles'[i] = bundles[i]
        BY <1>1, <2>1, <3>2, Zenon
      <4>2. QED
        BY <1>1, <1>5, <4>1
    <3>3. QED
      BY <3>1, <3>2
  <2>6. QED
    BY <1>1, <2>2, <2>5, BundlesWritten
<1>10. CASE ResolveFails(t)
  <2>1. PICK D \in SUBSET Names:
          /\ ResolvedFor(NameOf(o), D) /\ \A n \in D: Resolvable(n, D)
          /\ bundles' = [i \in DOMAIN bundles |->
               IF i = o THEN [bundles[i] EXCEPT !.deps = {}]
               ELSE IF i \in Loaded(D)
               THEN [bundles[i] EXCEPT !.state = "resolved", !.deps = deps(i)]
               ELSE bundles[i]]
    BY <1>10, Zenon DEF ResolveFails
  <2>2. bundles' = [i \in DOMAIN bundles |-> bundles'[i]]
    BY <2>1, Zenon
  <2>3. ASSUME NEW i \in 1 .. Len(bundles)
        PROVE  bundles'[i] \in Bundle /\ SameIdentity(bundles[i], bundles'[i])
    <3>1. CASE i = o
      <4>1. bundles'[i] = [bundles[i] EXCEPT !.deps = {}]
        BY <1>1, <2>1, <3>1, Zenon
      <4>2. QED
        BY <1>7, <4>1, Zenon
    <3>2. CASE i # o /\ i \in Loaded(D)
      <4>1. bundles'[i] = [bundles[i] EXCEPT !.state = "resolved", !.deps = deps(i)]
        BY <1>1, <2>1, <3>2, Zenon
      <4>2. deps(i) \in SUBSET Contents
        BY <1>8, <2>1, <3>2, Zenon
      <4>3. QED
        BY <1>6, <4>1, <4>2, Zenon
    <3>3. CASE i # o /\ i \notin Loaded(D)
      <4>1. bundles'[i] = bundles[i]
        BY <1>1, <2>1, <3>3, Zenon
      <4>2. QED
        BY <1>1, <1>5, <4>1
    <3>4. QED
      BY <3>1, <3>2, <3>3
  <2>4. QED
    BY <1>1, <2>2, <2>3, BundlesWritten
<1>11. QED
  BY <1>9, <1>10

LEMMA StopSame ==
  ASSUME TypeOK, NEW t \in Threads, StopStep(t)
  PROVE  bundles' \in Seq(Bundle) /\ SameBundles
<1> DEFINE o == target[t]
<1>1. /\ bundles \in Seq(Bundle) /\ o \in 1 .. Len(bundles) /\ old[t] \in States
      /\ "stopping" \in States /\ "resolved" \in States
  BY DEF TypeOK, LoaderTypes, ThreadTypes, States
<1>2. bundles' = bundles \/ \E s \in States: Becomes(o, s)
  BY <1>1, Zenon DEF StopStep, StopIf, Stop, StopMark, StopWork, StopWatching, Join, loaderVars
<1>3. CASE bundles' = bundles
  BY <1>1, <1>3 DEF SameBundles
<1>4. QED
  BY <1>1, <1>2, <1>3, StateWritten

\* Whatever happens, bundles are bundles and keep their names; one is added
\* by Load.
LEMMA BundlesStep ==
  ASSUME TypeOK, LoadedUnderItsName, [Next]_vars
  PROVE  bundles' \in Seq(Bundle) /\ (SameBundles \/ Load)
<1>1. /\ bundles \in Seq(Bundle) /\ "starting" \in States /\ "uninstalled" \in States
      /\ \A t \in Threads: target[t] \in 1 .. Len(bundles)
      /\ "watcher" \in Threads /\ "main" \in Threads /\ "console" \in Threads
  BY DEF TypeOK, LoaderTypes, ThreadTypes, States, Threads
<1>2. ASSUME bundles' = bundles
      PROVE  bundles' \in Seq(Bundle) /\ SameBundles
  BY <1>1, <1>2 DEF SameBundles
<1>3. ASSUME NEW t \in Threads, BundleStep(t)
      PROVE  bundles' \in Seq(Bundle) /\ SameBundles
  <2>1. CASE StopStep(t)
    BY <2>1, StopSame
  <2>2. CASE Start(t) \/ Resolve(t)
    <3>1. bundles' = bundles
      BY <2>2, Zenon DEF Start, Resolve, loaderVars
    <3>2. QED
      BY <1>2, <3>1
  <2>3. CASE StartMark(t)
    <3>1. Becomes(target[t], "starting")
      BY <2>3, Zenon DEF StartMark
    <3>2. QED
      BY <1>1, <3>1, StateWritten
  <2>4. CASE StartWork(t)
    BY <2>4, StartSame DEF StartWork
  <2>5. CASE ResolveWork(t)
    BY <2>5, ResolveSame DEF ResolveWork
  <2>6. QED
    BY <1>3, <2>1, <2>2, <2>3, <2>4, <2>5, Zenon DEF BundleStep, StartStep, ResolveStep
<1>4. CASE Uninstall
  <2>1. Becomes(target["watcher"], "uninstalled")
    BY <1>4, Zenon DEF Uninstall
  <2>2. QED
    BY <1>1, <2>1, StateWritten
<1>5. CASE Load
  <2> DEFINE b == [name |-> incoming.name, version |-> incoming.version,
                   state |-> "installed", deps |-> {}]
  <2>1. bundles' = bundles \/ bundles' = Append(bundles, b)
    BY <1>5, Zenon DEF Load
  <2>2. b \in Bundle
    BY DEF TypeOK, WatcherTypes, Bundle, Contents, States
  <2>3. bundles' \in Seq(Bundle)
    BY <1>1, <2>1, <2>2, OneBundleMore
  <2>4. QED
    BY <1>5, <2>3
<1>6. \/ bundles' = bundles \/ Uninstall \/ Load
      \/ \E t \in Threads: BundleStep(t)
  <2>1. CASE UNCHANGED vars
    BY <2>1, Zenon DEF vars, loaderVars
  <2>2. CASE Next
    BY <1>1, <2>2, Zenon DEF Next, WatcherStep, ConsoleStep, MainStep, Deployer, BundleStep,
       Drop, Delete, Expire, SkipAvailable, TakeAvailable, SkipRemoved, TakeRemoved,
       GiveUpReading, ReadReplacement, ReadNew, Erase, UninstallFails, Unload, Request,
       Terminate, List, Sort, StopNext, loaderVars
  <2>3. QED
    BY <2>1, <2>2
<1>7. QED
  BY <1>2, <1>3, <1>4, <1>5, <1>6, Zenon

-----------------------------------------------------------------------------
(***************************************************************************)
(* Type correctness.                                                       *)
(***************************************************************************)
\* What the steps on a bundle object leave alone.
LEMMA BundleStepFrame ==
  ASSUME NEW t \in Threads, BundleStep(t)
  PROVE  /\ UNCHANGED <<files, ignored, deployed, deleted, loaded, target, watcherVars,
                       mainVars, requests>>
         /\ events' = events \/ events' = <<>>
BY Zenon DEF BundleStep, StopStep, StartStep, ResolveStep, StopIf, Stop, StopMark, StopWork,
   StopWatching, Join, Start, StartMark, StartWork, Resolve, ResolveWork, directoryVars,
   loaderVars, watcherVars, mainVars

LEMMA ReportsTypes ==
  ASSUME events \in Seq(Event), NEW es \in Seq(Event), Reports(es)
  PROVE  events' \in Seq(Event)
<1>1. events \o es \in Seq(Event)
  OBVIOUS
<1>2. QED
  BY <1>1, Zenon DEF Reports

LEMMA EventSequences ==
  /\ <<>> \in Seq(Event)
  /\ \A d, e \in Event: <<d>> \in Seq(Event) /\ <<d, e>> \in Seq(Event)
  /\ \A es \in Seq(Event): es # <<>> => Tail(es) \in Seq(Event)
OBVIOUS

LEMMA EventTypes ==
  ASSUME NEW p \in Paths
  PROVE  Available(p) \in Event /\ Removed(p) \in Event
BY DEF Available, Removed, Event

LEMMA DirectoryStep == TypeOK /\ [Next]_vars => DirectoryTypes'
<1> SUFFICES ASSUME TypeOK, [Next]_vars PROVE DirectoryTypes'
  OBVIOUS
<1> USE DEF DirectoryTypes
<1>0. DirectoryTypes /\ handling \in Paths /\ incoming \in Paths /\ Paths = Contents
  BY DEF TypeOK, WatcherTypes, Paths
<1>1. \A i \in 1 .. Len(bundles): PathOf(i) \in Paths
  <2>1. \A i \in 1 .. Len(bundles): bundles[i] \in Bundle
    BY DEF TypeOK, LoaderTypes
  <2>2. QED
    BY <2>1 DEF PathOf, Bundle, Contents, Paths
<1>2. target["watcher"] \in 1 .. Len(bundles)
  BY DEF TypeOK, ThreadTypes, Threads
<1>3. CASE UNCHANGED directoryVars
  BY <1>0, <1>3 DEF directoryVars
<1>4. ASSUME NEW t \in Threads, BundleStep(t) PROVE DirectoryTypes'
  BY <1>0, <1>4, BundleStepFrame, EventSequences
<1>5. ASSUME NEW d \in Deployable, Drop(d) PROVE DirectoryTypes'
  <2>1. d.path \in Paths /\ d.content \in Contents
    BY ContentsAssumption
  <2>2. events' \in Seq(Event)
    BY <1>0, <1>5, <2>1, EventTypes, EventSequences, ReportsTypes DEF Drop
  <2>3. QED
    BY <1>0, <1>5, <2>1, <2>2 DEF Drop
<1>6. ASSUME NEW p \in Paths, Delete(p) PROVE DirectoryTypes'
  <2>1. events' \in Seq(Event)
    BY <1>0, <1>6, EventTypes, EventSequences, ReportsTypes DEF Delete
  <2>2. QED
    BY <1>0, <1>6, <2>1 DEF Delete
<1>7. ASSUME NEW p \in Paths, Expire(p) PROVE DirectoryTypes'
  BY <1>0, <1>7 DEF Expire
<1>8. ASSUME NEW p \in Paths, SkipAvailable(p) \/ TakeAvailable(p)
      PROVE  DirectoryTypes'
  BY <1>0, <1>8, EventSequences DEF SkipAvailable, TakeAvailable, Comes
<1>9. ASSUME NEW p \in Paths, SkipRemoved(p) PROVE DirectoryTypes'
  BY <1>0, <1>9, EventSequences DEF SkipRemoved, Comes
<1>10. ASSUME NEW p \in Paths, TakeRemoved(p) PROVE DirectoryTypes'
  <2>1. Found(p) \in 0 .. Len(bundles)
    BY DEF Found, TypeOK, LoaderTypes, Paths, Contents
  <2>2. PathOf(Found(p)) \in Paths
    BY <1>1, <1>10, <2>1 DEF TakeRemoved
  <2>3. QED
    BY <1>0, <1>10, <2>2 DEF TakeRemoved, Comes
<1>11. CASE ReadReplacement
  BY <1>0, <1>11 DEF ReadReplacement, Read
<1>12. CASE ReadNew
  <2>1. events' \in Seq(Event)
    BY <1>0, <1>12, EventTypes, EventSequences, ReportsTypes DEF ReadNew
  <2>2. QED
    BY <1>0, <1>12, <2>1 DEF ReadNew, Read
<1>13. CASE Uninstall
  <2>1. events' \in Seq(Event)
    BY <1>0, <1>1, <1>2, <1>13, EventTypes, EventSequences, ReportsTypes DEF Uninstall
  <2>2. QED
    BY <1>0, <1>1, <1>2, <1>13, <2>1 DEF Uninstall
<1>14. CASE Load
  <2>1. events' \in Seq(Event)
    BY <1>0, <1>14, EventTypes, EventSequences, ReportsTypes DEF Load
  <2>2. QED
    BY <1>0, <1>14, <2>1 DEF Load
<1>15. \/ UNCHANGED directoryVars \/ ReadReplacement \/ ReadNew \/ Uninstall \/ Load
       \/ \E t \in Threads: BundleStep(t)
       \/ \E d \in Deployable: Drop(d)
       \/ \E p \in Paths: \/ Delete(p) \/ Expire(p) \/ SkipAvailable(p) \/ TakeAvailable(p)
                          \/ SkipRemoved(p) \/ TakeRemoved(p)
  <2>0. "watcher" \in Threads /\ "main" \in Threads /\ "console" \in Threads
    BY DEF Threads
  <2>1. CASE UNCHANGED vars
    BY <2>1, Zenon DEF vars
  <2>2. CASE Next
    BY <2>0, <2>2, Zenon DEF Next, WatcherStep, ConsoleStep, MainStep, Deployer, BundleStep,
       GiveUpReading, Erase, UninstallFails, Unload, Request, Terminate, List, Sort, StopNext
  <2>3. QED
    BY <2>1, <2>2
<1>16. QED
  BY <1>3, <1>4, <1>5, <1>6, <1>7, <1>8, <1>9, <1>10, <1>11, <1>12, <1>13, <1>14, <1>15, Zenon

LEMMA WatchingStep == TypeOK /\ [Next]_vars => watching' \in BOOLEAN
<1> SUFFICES ASSUME TypeOK, [Next]_vars PROVE watching' \in BOOLEAN
  OBVIOUS
<1>0. watching \in BOOLEAN
  BY DEF TypeOK
<1>1. ASSUME NEW t \in Threads, BundleStep(t) PROVE watching' \in BOOLEAN
  <2>1. \/ watching' = watching \/ watching' = FALSE
        \/ \E D: watching' = (watching \/ (Self \in D /\ classLoader'[Self] = "ready"))
    BY <1>1, Zenon DEF BundleStep, StopStep, StartStep, ResolveStep, StopIf, Stop, StopMark,
       StopWork, StopWatching, Join, Start, StartMark, StartWork, StartSucceeds, StartFails,
       Resolve, ResolveWork
  <2>2. QED
    BY <1>0, <2>1, Zenon
<1>2. CASE watching' = watching
  BY <1>0, <1>2, Zenon
<1>3. watching' = watching \/ \E t \in Threads: BundleStep(t)
  <2>0. "watcher" \in Threads /\ "main" \in Threads /\ "console" \in Threads
    BY DEF Threads
  <2>1. CASE UNCHANGED vars
    BY <2>1, Zenon DEF vars
  <2>2. CASE Next
    BY <2>0, <2>2, Zenon DEF Next, WatcherStep, ConsoleStep, MainStep, Deployer, BundleStep,
       Drop, Delete, Expire, SkipAvailable, TakeAvailable, SkipRemoved, TakeRemoved,
       GiveUpReading, ReadReplacement, ReadNew, Erase, Uninstall, UninstallFails, Load, Unload,
       Request, Terminate, List, Sort, StopNext
  <2>3. QED
    BY <2>1, <2>2
<1>4. QED
  BY <1>1, <1>2, <1>3, Zenon

LEMMA LengthStep ==
  ASSUME TypeOK, LoadedUnderItsName, [Next]_vars
  PROVE  /\ Len(bundles) \in Nat /\ Len(bundles') \in Nat /\ Len(bundles') >= Len(bundles)
         /\ bundles' \in Seq(Bundle)
         /\ \A i \in 1 .. Len(bundles): i \in 1 .. Len(bundles') /\ NameOf(i)' = NameOf(i)
                                       /\ PathOf(i)' = PathOf(i)
<1>1. bundles \in Seq(Bundle) /\ bundles' \in Seq(Bundle)
  BY BundlesStep DEF TypeOK, LoaderTypes
<1>2. CASE SameBundles
  BY <1>1, <1>2 DEF SameBundles, NameOf, PathOf
<1>3. CASE Load
  <2>1. bundles' = bundles \/ \E b : bundles' = Append(bundles, b)
    BY <1>3, Zenon DEF Load
  <2>2. QED
    BY <1>1, <2>1 DEF NameOf, PathOf
<1>4. QED
  BY <1>2, <1>3, BundlesStep

LEMMA LoaderStep == TypeOK /\ LoadedUnderItsName /\ [Next]_vars => LoaderTypes'
<1> SUFFICES ASSUME TypeOK, LoadedUnderItsName, [Next]_vars PROVE LoaderTypes'
  OBVIOUS
<1>0. /\ loaded \in [Names -> 0 .. Len(bundles)] /\ loaderLock \in Threads \cup {"nobody"}
      /\ classLoader \in [Names -> {"none", "ready", "empty"}]
  BY DEF TypeOK, LoaderTypes
<1>1. /\ bundles' \in Seq(Bundle) /\ Len(bundles') >= Len(bundles)
      /\ Len(bundles) \in Nat /\ Len(bundles') \in Nat
  BY LengthStep
<1>2. CASE UNCHANGED <<loaded, classLoader, loaderLock>>
  BY <1>0, <1>1, <1>2 DEF LoaderTypes
<1>3. ASSUME NEW t \in Threads, StopStep(t) PROVE LoaderTypes'
  <2>1. /\ loaded' = loaded /\ classLoader' = classLoader
        /\ loaderLock' = loaderLock \/ loaderLock' = t \/ loaderLock' = "nobody"
    BY <1>3, Zenon DEF StopStep, StopIf, Stop, StopMark, StopWork, StopWatching, Join, loaderVars
  <2>2. QED
    BY <1>0, <1>1, <2>1 DEF LoaderTypes
<1>4. ASSUME NEW t \in Threads, StartWork(t) PROVE LoaderTypes'
  <2>1. loaded' = loaded /\ loaderLock' = loaderLock
    BY <1>4 DEF StartWork
  <2>2. \A D: LoadActivators(D) \in [Names -> {"none", "ready", "empty"}]
    BY <1>0, Zenon DEF LoadActivators
  <2>3. \E D: \/ classLoader' = LoadActivators(D)
             \/ \E n: classLoader' = [LoadActivators(D) EXCEPT ![n] = "empty"]
    BY <1>4, Zenon DEF StartWork, StartSucceeds, StartFails
  <2>4. classLoader' \in [Names -> {"none", "ready", "empty"}]
    BY <2>2, <2>3
  <2>5. QED
    BY <1>0, <1>1, <2>1, <2>4 DEF LoaderTypes
<1>5. CASE Uninstall \/ Unload
  <2>1. /\ loaderLock' = loaderLock
        /\ \E n: /\ loaded' = [loaded EXCEPT ![n] = 0]
                 /\ classLoader' = [classLoader EXCEPT ![n] = "none"]
    BY <1>5, Zenon DEF Uninstall, Unload, Forget
  <2>2. PICK n: /\ loaded' = [loaded EXCEPT ![n] = 0]
                /\ classLoader' = [classLoader EXCEPT ![n] = "none"]
    BY <2>1
  <2>3. \A m \in 0 .. Len(bundles): m \in 0 .. Len(bundles')
    BY <1>1
  <2>4. 0 \in 0 .. Len(bundles')
    BY <1>1
  <2>5. loaded' \in [Names -> 0 .. Len(bundles')]
    BY <1>0, <2>2, <2>3, <2>4
  <2>6. classLoader' \in [Names -> {"none", "ready", "empty"}]
    BY <1>0, <2>2
  <2>7. QED
    BY <1>0, <1>1, <2>1, <2>5, <2>6 DEF LoaderTypes
<1>6. CASE UninstallFails
  BY <1>0, <1>1, <1>6 DEF UninstallFails, LoaderTypes
<1>7. CASE Load
  <2>1. loaded' = loaded \/ (loaded' = [loaded EXCEPT ![incoming.name] = Len(bundles) + 1]
                            /\ \E b: bundles' = Append(bundles, b))
    BY <1>7, Zenon DEF Load
  <2>2. loaded' \in [Names -> 0 .. Len(bundles')]
    BY <1>0, <1>1, <2>1 DEF TypeOK, LoaderTypes
  <2>3. QED
    BY <1>0, <1>1, <1>7, <2>2 DEF Load, LoaderTypes
<1>8. \/ UNCHANGED <<loaded, classLoader, loaderLock>>
      \/ Uninstall \/ UninstallFails \/ Unload \/ Load
      \/ \E t \in Threads: StopStep(t) \/ StartWork(t)
  <2>0. "watcher" \in Threads /\ "main" \in Threads /\ "console" \in Threads
    BY DEF Threads
  <2>1. CASE UNCHANGED vars
    BY <2>1, Zenon DEF vars, loaderVars
  <2>2. CASE Next
    BY <2>0, <2>2, Zenon DEF Next, WatcherStep, ConsoleStep, MainStep, Deployer, StartStep,
       ResolveStep, Start, StartMark, Resolve, ResolveWork,
       Drop, Delete, Expire, SkipAvailable, TakeAvailable, SkipRemoved, TakeRemoved,
       GiveUpReading, ReadReplacement, ReadNew, Erase, Request, Terminate, List, Sort,
       StopNext, loaderVars
  <2>3. QED
    BY <2>1, <2>2
<1>9. QED
  BY <1>2, <1>3, <1>4, <1>5, <1>6, <1>7, <1>8, Zenon

LEMMA PlacesGoneTo ==
  \A t \in Threads: AfterStop(t) \in Places /\ \A s: Caught(t, s) \in Places
BY DEF AfterStop, Caught, Places

LEMMA PcStep == TypeOK /\ [Next]_vars => pc' \in [Threads -> Places]
<1> SUFFICES ASSUME TypeOK, [Next]_vars PROVE pc' \in [Threads -> Places]
  OBVIOUS
<1>0. /\ pc \in [Threads -> Places]
      /\ "watcher" \in Threads /\ "main" \in Threads /\ "console" \in Threads
  BY DEF TypeOK, ThreadTypes, Threads
<1>1. ASSUME NEW t, NEW p \in Places, Goes(t, p) PROVE pc' \in [Threads -> Places]
  BY <1>0, <1>1 DEF Goes
<1>2. CASE pc' = pc
  BY <1>0, <1>2
<1>3. ASSUME NEW t \in Threads, BundleStep(t) PROVE pc' \in [Threads -> Places]
  <2>1. CASE StopStep(t)
    <3>1. \/ \E p \in {"stop", "stopMark", "stopWork", "join", AfterStop(t)}: Goes(t, p)
          \/ \E s: Goes(t, Caught(t, s))
      BY <2>1, Zenon DEF StopStep, StopIf, Stop, StopMark, StopWork, StopWatching, Join
    <3>2. {"stop", "stopMark", "stopWork", "join", AfterStop(t)} \subseteq Places
      BY PlacesGoneTo DEF Places
    <3>3. QED
      BY <1>1, <3>1, <3>2, PlacesGoneTo, Zenon
  <2>2. CASE StartStep(t)
    <3>1. \/ \E p \in {"startMark", "startWork", "idle"}: Goes(t, p)
          \/ \E s: Goes(t, Caught(t, s))
      BY <2>2, Zenon DEF StartStep, Start, StartMark, StartWork, StartSucceeds, StartFails
    <3>2. {"startMark", "startWork", "idle"} \subseteq Places
      BY DEF Places
    <3>3. QED
      BY <1>1, <3>1, <3>2, PlacesGoneTo, Zenon
  <2>3. CASE ResolveStep(t)
    <3>1. \E p \in {"resolveWork", "start", "idle"}: Goes(t, p)
      BY <2>3 DEF ResolveStep, Resolve, ResolveWork, ResolveSucceeds, ResolveFails
    <3>2. {"resolveWork", "start", "idle"} \subseteq Places
      BY DEF Places
    <3>3. QED
      BY <1>1, <3>1, <3>2
  <2>4. QED
    BY <1>3, <2>1, <2>2, <2>3 DEF BundleStep
<1>4. CASE \E t \in {"watcher", "console", "main"}, p \in {"idle", "read", "stopIf", "stop", "erase",
             "uninstall", "unload", "load", "resolve", "start", "list", "sort", "next", "done"}:
             Goes(t, p)
  <2>1. {"idle", "read", "stopIf", "stop", "erase", "uninstall", "unload", "load", "resolve",
         "start", "list", "sort", "next", "done"} \subseteq Places
    BY DEF Places
  <2>2. QED
    BY <1>1, <1>4, <2>1
<1>5. \/ pc' = pc \/ \E t \in Threads: BundleStep(t)
      \/ \E t \in {"watcher", "console", "main"}, p \in {"idle", "read", "stopIf", "stop", "erase",
             "uninstall", "unload", "load", "resolve", "start", "list", "sort", "next", "done"}:
             Goes(t, p)
  <2>1. CASE UNCHANGED vars
    BY <2>1, Zenon DEF vars, threadVars
  <2>2. CASE WatcherStep
    BY <1>0, <2>2 DEF WatcherStep, BundleStep, SkipAvailable, TakeAvailable, SkipRemoved,
       TakeRemoved, GiveUpReading, ReadReplacement, ReadNew, Erase, Uninstall, UninstallFails,
       Load, Unload, threadVars
  <2>3. CASE ConsoleStep \/ MainStep
    BY <1>0, <2>3 DEF ConsoleStep, MainStep, BundleStep, List, Sort, StopNext, threadVars
  <2>4. CASE Deployer \/ Terminate
    BY <2>4 DEF Deployer, Drop, Delete, Expire, Terminate, threadVars
  <2>5. CASE \E action \in {"start", "stop", "resolve"}, n \in Manageable: Request(action, n)
    BY <2>5 DEF Request
  <2>6. QED
    BY <2>1, <2>2, <2>3, <2>4, <2>5 DEF Next
<1>6. QED
  BY <1>2, <1>3, <1>4, <1>5, Zenon

LEMMA OldStep == TypeOK /\ [Next]_vars => old' \in [Threads -> States]
<1> SUFFICES ASSUME TypeOK, [Next]_vars PROVE old' \in [Threads -> States]
  OBVIOUS
<1>0. /\ old \in [Threads -> States]
      /\ "watcher" \in Threads /\ "main" \in Threads /\ "console" \in Threads
  BY DEF TypeOK, ThreadTypes, Threads
<1>1. \A t \in Threads: State(target[t]) \in States
  <2>1. \A i \in 1 .. Len(bundles): bundles[i] \in Bundle
    BY DEF TypeOK, LoaderTypes
  <2>2. QED
    BY <2>1 DEF TypeOK, ThreadTypes, Bundle, State
<1>2. ASSUME NEW t \in Threads, BundleStep(t) PROVE old' \in [Threads -> States]
  <2>1. old' = old \/ old' = [old EXCEPT ![t] = State(target[t])]
    BY <1>2, Zenon DEF BundleStep, StopStep, StartStep, ResolveStep, StopIf, Stop, StopMark,
       StopWork, StopWatching, Join, Start, StartMark, StartWork, Resolve, ResolveWork
  <2>2. QED
    BY <1>0, <1>1, <2>1
<1>3. old' = old \/ \E t \in Threads: BundleStep(t)
  <2>1. CASE UNCHANGED vars
    BY <2>1, Zenon DEF vars, threadVars
  <2>2. CASE Next
    BY <1>0, <2>2, Zenon DEF Next, WatcherStep, ConsoleStep, MainStep, Deployer, BundleStep,
       Drop, Delete, Expire, SkipAvailable, TakeAvailable, SkipRemoved, TakeRemoved,
       GiveUpReading, ReadReplacement, ReadNew, Erase, Uninstall, UninstallFails, Load, Unload,
       Request, Terminate, List, Sort, StopNext, threadVars
  <2>3. QED
    BY <2>1, <2>2
<1>4. QED
  BY <1>0, <1>2, <1>3

LEMMA TargetStep ==
  TypeOK /\ LoadedUnderItsName /\ [Next]_vars => target' \in [Threads -> 1 .. Len(bundles')]
<1> SUFFICES ASSUME TypeOK, LoadedUnderItsName, [Next]_vars
             PROVE  target' \in [Threads -> 1 .. Len(bundles')]
  OBVIOUS
<1>0. /\ target \in [Threads -> 1 .. Len(bundles)] /\ order \in Seq(1 .. Len(bundles))
      /\ loaded \in [Names -> 0 .. Len(bundles)]
      /\ "watcher" \in Threads /\ "main" \in Threads /\ "console" \in Threads
  BY DEF TypeOK, ThreadTypes, LoaderTypes, MainTypes, Threads
<1>1. \A i \in 1 .. Len(bundles): i \in 1 .. Len(bundles')
  BY LengthStep
<1>2. CASE target' = target
  BY <1>0, <1>1, <1>2
<1>3. ASSUME NEW t \in Threads, NEW o \in 1 .. Len(bundles), target' = [target EXCEPT ![t] = o]
      PROVE  target' \in [Threads -> 1 .. Len(bundles')]
  BY <1>0, <1>1, <1>3
<1>4. CASE ReadReplacement
  <2>1. handling.name \in Names
    BY DEF TypeOK, WatcherTypes, Paths, Contents
  <2>2. loaded[handling.name] \in 1 .. Len(bundles)
    BY <1>0, <1>4, <2>1 DEF ReadReplacement, IsLoaded
  <2>3. QED
    BY <1>0, <1>3, <1>4, <2>2 DEF ReadReplacement
<1>5. CASE Load
  <2>1. \/ target' = target
        \/ /\ target' = [target EXCEPT !["watcher"] = Len(bundles) + 1]
           /\ \E b: bundles' = Append(bundles, b)
    BY <1>5, Zenon DEF Load
  <2>2. CASE \E b: bundles' = Append(bundles, b)
    <3>1. Len(bundles) + 1 \in 1 .. Len(bundles')
      BY <2>2, LengthStep DEF TypeOK, LoaderTypes
    <3>2. QED
      BY <1>0, <1>1, <2>1, <3>1
  <2>3. QED
    BY <1>2, <2>1, <2>2
<1>6. ASSUME NEW p \in Paths, TakeRemoved(p) PROVE target' \in [Threads -> 1 .. Len(bundles')]
  <2>1. Found(p) \in 1 .. Len(bundles)
    BY <1>0, <1>6 DEF TakeRemoved, Found, Paths, Contents
  <2>2. QED
    BY <1>0, <1>3, <1>6, <2>1 DEF TakeRemoved
<1>7. ASSUME NEW a, NEW n \in Manageable, Request(a, n)
      PROVE  target' \in [Threads -> 1 .. Len(bundles')]
  <2>1. loaded[n] \in 1 .. Len(bundles)
    BY <1>0, <1>7, NamesAssumption DEF Request, IsLoaded
  <2>2. QED
    BY <1>0, <1>3, <1>7, <2>1 DEF Request
<1>8. CASE StopNext
  <2>1. target' = target \/ (order # <<>> /\ target' = [target EXCEPT !["main"] = Head(order)])
    BY <1>8, Zenon DEF StopNext
  <2>2. order # <<>> => Head(order) \in 1 .. Len(bundles)
    BY <1>0
  <2>3. QED
    BY <1>0, <1>2, <1>3, <2>1, <2>2
<1>9. \/ target' = target \/ ReadReplacement \/ Load \/ StopNext
      \/ \E p \in Paths: TakeRemoved(p)
      \/ \E a \in {"start", "stop", "resolve"}, n \in Manageable: Request(a, n)
  <2>1. CASE UNCHANGED vars
    BY <2>1, Zenon DEF vars, threadVars
  <2>2. CASE \E t \in Threads: BundleStep(t)
    BY <2>2, BundleStepFrame
  <2>3. CASE Next /\ ~\E t \in Threads: BundleStep(t)
    BY <1>0, <2>3, Zenon DEF Next, WatcherStep, ConsoleStep, MainStep, Deployer, BundleStep,
       Drop, Delete, Expire, SkipAvailable, TakeAvailable, SkipRemoved,
       GiveUpReading, ReadNew, Erase, Uninstall, UninstallFails, Unload,
       Terminate, List, Sort, threadVars
  <2>4. QED
    BY <2>1, <2>2, <2>3
<1>10. QED
  BY <1>2, <1>4, <1>5, <1>6, <1>7, <1>8, <1>9, Zenon

LEMMA WatcherTypesStep == TypeOK /\ [Next]_vars => WatcherTypes'
<1> SUFFICES ASSUME TypeOK, [Next]_vars PROVE WatcherTypes'
  OBVIOUS
<1> USE DEF WatcherTypes
<1>0. WatcherTypes /\ files \in [Paths -> Contents \cup {NoFile}]
  BY DEF TypeOK, DirectoryTypes
<1>1. CASE UNCHANGED watcherVars
  BY <1>0, <1>1 DEF watcherVars
<1>2. ASSUME NEW p \in Paths, TakeAvailable(p) PROVE WatcherTypes'
  BY <1>0, <1>2 DEF TakeAvailable
<1>3. ASSUME NEW p \in Paths, TakeRemoved(p) PROVE WatcherTypes'
  BY <1>0, <1>3 DEF TakeRemoved
<1>4. CASE ReadReplacement \/ ReadNew
  BY <1>0, <1>4 DEF ReadReplacement, ReadNew, Read
<1>5. \/ UNCHANGED watcherVars \/ ReadReplacement \/ ReadNew
      \/ \E p \in Paths: TakeAvailable(p) \/ TakeRemoved(p)
  <2>0. "watcher" \in Threads /\ "main" \in Threads /\ "console" \in Threads
    BY DEF Threads
  <2>1. CASE UNCHANGED vars
    BY <2>1, Zenon DEF vars, watcherVars
  <2>2. CASE \E t \in Threads: BundleStep(t)
    BY <2>2, BundleStepFrame
  <2>3. CASE Next /\ ~\E t \in Threads: BundleStep(t)
    BY <2>0, <2>3, Zenon DEF Next, WatcherStep, ConsoleStep, MainStep, Deployer, BundleStep,
       Drop, Delete, Expire, SkipAvailable, SkipRemoved, GiveUpReading, Erase, Uninstall,
       UninstallFails, Load, Unload, Request, Terminate, List, Sort, StopNext, watcherVars
  <2>4. QED
    BY <2>1, <2>2, <2>3
<1>6. QED
  BY <1>1, <1>2, <1>3, <1>4, <1>5, Zenon

\* What main has still to stop, reversed and taken up one by one.
LEMMA OrderSequences ==
  ASSUME NEW S
  PROVE  /\ \A q \in Seq(S): q # <<>> => Tail(q) \in Seq(S)
         /\ \A n \in Nat: \A q \in [1 .. n -> S]: [i \in 1 .. n |-> q[n + 1 - i]] \in Seq(S)
<1>1. \A q \in Seq(S): q # <<>> => Tail(q) \in Seq(S)
  OBVIOUS
<1>2. ASSUME NEW n \in Nat, NEW q \in [1 .. n -> S]
      PROVE  [i \in 1 .. n |-> q[n + 1 - i]] \in Seq(S)
  <2>1. \A i \in 1 .. n: q[n + 1 - i] \in S
    <3>1. \A i \in 1 .. n: n + 1 - i \in 1 .. n
      OBVIOUS
    <3>2. QED
      BY <3>1
  <2>2. [i \in 1 .. n |-> q[n + 1 - i]] \in [1 .. n -> S]
    BY <2>1, Zenon
  <2>3. QED
    BY <2>2
<1>3. QED
  BY <1>1, <1>2

LEMMA MainTypesStep == TypeOK /\ LoadedUnderItsName /\ [Next]_vars => MainTypes'
<1> SUFFICES ASSUME TypeOK, LoadedUnderItsName, [Next]_vars PROVE MainTypes'
  OBVIOUS
<1>0. /\ pending \subseteq 1 .. Len(bundles) /\ order \in Seq(1 .. Len(bundles))
      /\ requests \in Nat /\ loaded \in [Names -> 0 .. Len(bundles)] /\ Len(bundles) \in Nat
  BY DEF TypeOK, MainTypes, LoaderTypes
<1>1. 1 .. Len(bundles) \subseteq 1 .. Len(bundles')
  BY LengthStep
<1>2. ASSUME pending' \subseteq 1 .. Len(bundles), order' \in Seq(1 .. Len(bundles)),
             requests' \in Nat
      PROVE  MainTypes'
  <2>1. order' \in Seq(1 .. Len(bundles'))
    BY <1>1, <1>2
  <2>2. QED
    BY <1>1, <1>2, <2>1 DEF MainTypes
<1>3. CASE UNCHANGED <<mainVars, requests>>
  BY <1>0, <1>2, <1>3 DEF mainVars
<1>4. ASSUME NEW a, NEW n, Request(a, n) PROVE MainTypes'
  BY <1>0, <1>2, <1>4 DEF Request, mainVars
<1>5. CASE List
  BY <1>0, <1>2, <1>5 DEF List, IsLoaded
<1>6. CASE Sort
  <2>1. IsFiniteSet(pending)
    <3>1. IsFiniteSet(1 .. Len(bundles))
      BY <1>0, FS_Interval
    <3>2. QED
      BY <1>0, <3>1, FS_Subset
  <2>2. Cardinality(pending) \in Nat
    BY <2>1, FS_CardinalityType
  <2>3. PICK s \in [1 .. Cardinality(pending) -> pending]:
               order' = [i \in 1 .. Cardinality(pending) |-> s[Cardinality(pending) + 1 - i]]
    BY <1>6 DEF Sort
  <2>4. s \in [1 .. Cardinality(pending) -> 1 .. Len(bundles)]
    BY <1>0
  <2>5. order' \in Seq(1 .. Len(bundles))
    BY <2>2, <2>3, <2>4, OrderSequences, Zenon
  <2>6. pending' \subseteq 1 .. Len(bundles) /\ requests' = requests
    BY <1>6 DEF Sort
  <2>7. QED
    BY <1>0, <1>2, <2>5, <2>6
<1>7. CASE StopNext
  <2>1. order' = order \/ (order # <<>> /\ order' = Tail(order))
    BY <1>7, Zenon DEF StopNext
  <2>2. order' \in Seq(1 .. Len(bundles))
    BY <1>0, <2>1, OrderSequences, Zenon
  <2>3. pending' = pending /\ requests' = requests
    BY <1>7, Zenon DEF StopNext
  <2>4. QED
    BY <1>0, <1>2, <2>2, <2>3
<1>8. \/ UNCHANGED <<mainVars, requests>> \/ List \/ Sort \/ StopNext
      \/ \E a \in {"start", "stop", "resolve"}, n \in Manageable: Request(a, n)
  <2>0. "watcher" \in Threads /\ "main" \in Threads /\ "console" \in Threads
    BY DEF Threads
  <2>1. CASE UNCHANGED vars
    BY <2>1, Zenon DEF vars
  <2>2. CASE \E t \in Threads: BundleStep(t)
    BY <2>2, BundleStepFrame
  <2>3. CASE Next /\ ~\E t \in Threads: BundleStep(t)
    BY <2>0, <2>3, Zenon DEF Next, WatcherStep, ConsoleStep, MainStep, Deployer, BundleStep,
       Drop, Delete, Expire, SkipAvailable, TakeAvailable, SkipRemoved, TakeRemoved,
       GiveUpReading, ReadReplacement, ReadNew, Erase, Uninstall, UninstallFails, Load, Unload,
       Terminate
  <2>4. QED
    BY <2>1, <2>2, <2>3
<1>9. QED
  BY <1>3, <1>4, <1>5, <1>6, <1>7, <1>8, Zenon

LEMMA TypeStep == TypeOK /\ LoadedUnderItsName /\ [Next]_vars => TypeOK'
<1> SUFFICES ASSUME TypeOK, LoadedUnderItsName, [Next]_vars PROVE TypeOK'
  OBVIOUS
<1>1. ThreadTypes'
  BY PcStep, TargetStep, OldStep, Zenon DEF ThreadTypes
<1>2. QED
  BY <1>1, DirectoryStep, WatchingStep, LoaderStep, WatcherTypesStep, MainTypesStep, Zenon
  DEF TypeOK
-----------------------------------------------------------------------------
(***************************************************************************)
(* What is loaded, and the watcher.                                        *)
(***************************************************************************)
\* Only the watcher changes what is loaded.
LEMMA LoadedStep ==
  ASSUME TypeOK, [Next]_vars
  PROVE  \/ loaded' = loaded
         \/ /\ Uninstall \/ Unload
            /\ loaded' = [loaded EXCEPT ![NameOf(target["watcher"])] = 0]
         \/ /\ Load
            /\ loaded' = [loaded EXCEPT ![incoming.name] = Len(bundles) + 1]
            /\ bundles' = Append(bundles, [name |-> incoming.name,
                  version |-> incoming.version, state |-> "installed", deps |-> {}])
<1>0. "watcher" \in Threads /\ "main" \in Threads /\ "console" \in Threads
  BY DEF Threads
<1>1. CASE UNCHANGED vars
  BY <1>1, Zenon DEF vars, loaderVars
<1>2. CASE \E t \in Threads: BundleStep(t)
  BY <1>2, BundleStepFrame
<1>3. CASE Uninstall \/ Unload
  BY <1>3, Zenon DEF Uninstall, Unload, Forget
<1>4. CASE Load
  BY <1>4, Zenon DEF Load
<1>5. CASE Next /\ ~(Uninstall \/ Unload \/ Load \/ \E t \in Threads: BundleStep(t))
  BY <1>0, <1>5, Zenon DEF Next, WatcherStep, ConsoleStep, MainStep, Deployer, BundleStep,
     Drop, Delete, Expire, SkipAvailable, TakeAvailable, SkipRemoved, TakeRemoved,
     GiveUpReading, ReadReplacement, ReadNew, Erase, UninstallFails, Request,
     Terminate, List, Sort, StopNext, loaderVars
<1>6. QED
  BY <1>1, <1>2, <1>3, <1>4, <1>5, Zenon

\* A name that is loaded has a bundle object with that name.
LEMMA LoadedPlaces ==
  ASSUME TypeOK
  PROVE  /\ \A n \in Names: loaded[n] \in 0 .. Len(bundles)
         /\ \A n \in Names: IsLoaded(n) => loaded[n] \in 1 .. Len(bundles)
         /\ \A i \in 1 .. Len(bundles): NameOf(i) \in Names /\ PathOf(i) \in Paths
                                       /\ PathOf(i).name = NameOf(i)
         /\ target["watcher"] \in 1 .. Len(bundles)
         /\ loaded \in [Names -> 0 .. Len(bundles)]
         /\ handling.name \in Names /\ incoming.name \in Names
         /\ incoming.version \in Versions
<1>1. bundles \in Seq(Bundle) /\ loaded \in [Names -> 0 .. Len(bundles)]
  BY DEF TypeOK, LoaderTypes
<1>2. \A i \in 1 .. Len(bundles): bundles[i] \in Bundle
  BY <1>1
<1>3. handling.name \in Names /\ incoming.name \in Names /\ incoming.version \in Versions
  BY DEF TypeOK, WatcherTypes, Paths, Contents
<1>4. target["watcher"] \in 1 .. Len(bundles)
  BY DEF TypeOK, ThreadTypes, Threads
<1>5. \A n \in Names: IsLoaded(n) => loaded[n] \in 1 .. Len(bundles)
  BY <1>1 DEF IsLoaded
<1>6. \A i \in 1 .. Len(bundles): NameOf(i) \in Names /\ PathOf(i) \in Paths
                                 /\ PathOf(i).name = NameOf(i)
  BY <1>2 DEF NameOf, PathOf, Bundle, Paths, Contents
<1>7. QED
  BY <1>1, <1>3, <1>4, <1>5, <1>6

\* What becomes of a name that is loaded after a step: it was so before, with
\* the same bundle, or Load has just loaded it.
LEMMA StillLoaded ==
  ASSUME TypeOK, LoadedUnderItsName, [Next]_vars, NEW n \in Names, IsLoaded(n)'
  PROVE  \/ /\ IsLoaded(n) /\ loaded'[n] = loaded[n] /\ loaded[n] \in 1 .. Len(bundles)
            /\ NameOf(loaded[n])' = NameOf(loaded[n]) /\ PathOf(loaded[n])' = PathOf(loaded[n])
            /\ PathOf(loaded[n]) \in Paths /\ PathOf(loaded[n]).name = n
            /\ (Uninstall \/ Unload) => n # NameOf(target["watcher"])
         \/ /\ Load /\ n = incoming.name /\ loaded'[n] = Len(bundles) + 1
            /\ NameOf(loaded[n])' = n
            /\ PathOf(loaded[n])' = [name |-> incoming.name, version |-> incoming.version]
            /\ loaded' # loaded
<1>0. /\ loaded \in [Names -> 0 .. Len(bundles)]
      /\ \A m \in Names: IsLoaded(m) => loaded[m] \in 1 .. Len(bundles)
      /\ NameOf(target["watcher"]) \in Names /\ incoming.name \in Names
      /\ Len(bundles) \in Nat
      /\ \A i \in 1 .. Len(bundles): PathOf(i) \in Paths /\ PathOf(i).name = NameOf(i)
  BY LoadedPlaces, LengthStep
<1>1. ASSUME IsLoaded(n), loaded'[n] = loaded[n],
             (Uninstall \/ Unload) => n # NameOf(target["watcher"])
      PROVE  /\ IsLoaded(n) /\ loaded'[n] = loaded[n] /\ loaded[n] \in 1 .. Len(bundles)
             /\ NameOf(loaded[n])' = NameOf(loaded[n]) /\ PathOf(loaded[n])' = PathOf(loaded[n])
             /\ PathOf(loaded[n]) \in Paths /\ PathOf(loaded[n]).name = n
             /\ (Uninstall \/ Unload) => n # NameOf(target["watcher"])
  <2>1. loaded[n] \in 1 .. Len(bundles) /\ NameOf(loaded[n]) = n
    BY <1>0, <1>1 DEF LoadedUnderItsName
  <2>2. /\ NameOf(loaded[n])' = bundles'[loaded[n]].name
        /\ PathOf(loaded[n])' = [name |-> bundles'[loaded[n]].name,
                                 version |-> bundles'[loaded[n]].version]
    BY <1>1 DEF NameOf, PathOf
  <2>3. /\ NameOf(loaded[n]) = bundles'[loaded[n]].name
        /\ PathOf(loaded[n]) = [name |-> bundles'[loaded[n]].name,
                                version |-> bundles'[loaded[n]].version]
    BY <2>1, LengthStep DEF NameOf, PathOf
  <2>4. QED
    BY <1>0, <1>1, <2>1, <2>2, <2>3
<1>2. CASE Load /\ loaded' = [loaded EXCEPT ![incoming.name] = Len(bundles) + 1]
           /\ bundles' = Append(bundles, [name |-> incoming.name,
                  version |-> incoming.version, state |-> "installed", deps |-> {}])
  <2>1. CASE n = incoming.name
    <3>1. loaded'[n] = Len(bundles) + 1 /\ loaded' # loaded
      BY <1>0, <1>2, <2>1
    <3>2. bundles'[Len(bundles) + 1] = [name |-> incoming.name,
                  version |-> incoming.version, state |-> "installed", deps |-> {}]
      BY <1>2 DEF TypeOK, LoaderTypes
    <3>3. QED
      BY <1>2, <2>1, <3>1, <3>2 DEF NameOf, PathOf
  <2>2. CASE n # incoming.name
    <3>1. loaded'[n] = loaded[n] /\ IsLoaded(n)
      BY <1>0, <1>2, <2>2 DEF IsLoaded
    <3>2. ~(Uninstall \/ Unload)
      BY <1>2 DEF Load, Uninstall, Unload, At
    <3>3. QED
      BY <1>1, <3>1, <3>2
  <2>3. QED
    BY <2>1, <2>2
<1>3. CASE /\ Uninstall \/ Unload
           /\ loaded' = [loaded EXCEPT ![NameOf(target["watcher"])] = 0]
  <2>1. n # NameOf(target["watcher"]) /\ loaded'[n] = loaded[n] /\ IsLoaded(n)
    BY <1>0, <1>3 DEF IsLoaded
  <2>2. QED
    BY <1>1, <2>1
<1>4. CASE loaded' = loaded
  <2>1. loaded'[n] = loaded[n] /\ IsLoaded(n)
    BY <1>4 DEF IsLoaded
  <2>2. (Uninstall \/ Unload) => n # NameOf(target["watcher"])
    <3>1. ASSUME Uninstall \/ Unload PROVE loaded'[NameOf(target["watcher"])] = 0
      BY <1>0, <3>1 DEF Uninstall, Unload, Forget
    <3>2. QED
      BY <2>1, <3>1 DEF IsLoaded
  <2>3. QED
    BY <1>1, <2>1, <2>2
<1>5. QED
  BY <1>2, <1>3, <1>4, LoadedStep, Zenon

LEMMA UnderItsNameStep == TypeOK /\ LoadedUnderItsName /\ [Next]_vars => LoadedUnderItsName'
BY StillLoaded DEF LoadedUnderItsName
\* The bundle step of a thread changes only its own place, and that of the
\* watcher leads on through the stop, or through the start, that it is in.
LEMMA PlaceStep ==
  ASSUME TypeOK, NEW t \in Threads, BundleStep(t)
  PROVE  /\ t # "watcher" => pc'["watcher"] = pc["watcher"]
         /\ t = "watcher" =>
              \/ /\ pc["watcher"] \in Stopping
                 /\ \/ pc'["watcher"] \in {"idle", "stop", "stopMark", "stopWork", "join", "erase"}
                    \/ pc'["watcher"] = "unload" /\ goal = "remove"
              \/ /\ pc["watcher"] \in Installing
                 /\ \/ pc'["watcher"] \in {"idle", "resolveWork", "start", "startMark", "startWork"}
                    \/ pc'["watcher"] = "unload" /\ goal = "remove"
<1>0. /\ pc \in [Threads -> Places]
      /\ "watcher" \in Threads /\ "main" \in Threads /\ "console" \in Threads
  BY DEF TypeOK, ThreadTypes, Threads
<1>1. AfterStop("watcher") = "erase"
  BY DEF AfterStop
<1>2. \A s: Caught("watcher", s) = "idle" \/ (Caught("watcher", s) = "unload" /\ goal = "remove")
  BY DEF Caught
<1>3. CASE StopStep(t)
  <2>1. /\ pc[t] \in {"stopIf", "stop", "stopMark", "stopWork", "join"}
        /\ \/ \E p \in {"stop", "stopMark", "stopWork", "join", AfterStop(t)}: Goes(t, p)
           \/ \E s: Goes(t, Caught(t, s))
    BY <1>3, Zenon DEF StopStep, StopIf, Stop, StopMark, StopWork, StopWatching, Join, At
  <2>2. QED
    BY <1>0, <1>1, <1>2, <2>1 DEF Goes, Stopping
<1>4. CASE StartStep(t)
  <2>1. /\ pc[t] \in {"start", "startMark", "startWork"}
        /\ \/ \E p \in {"startMark", "startWork", "idle"}: Goes(t, p)
           \/ \E s: Goes(t, Caught(t, s))
    BY <1>4, Zenon DEF StartStep, Start, StartMark, StartWork, StartSucceeds, StartFails, At
  <2>2. QED
    BY <1>0, <1>2, <2>1 DEF Goes, Installing
<1>5. CASE ResolveStep(t)
  <2>1. /\ pc[t] \in {"resolve", "resolveWork"}
        /\ \E p \in {"resolveWork", "start", "idle"}: Goes(t, p)
    BY <1>5 DEF ResolveStep, Resolve, ResolveWork, ResolveSucceeds, ResolveFails, At
  <2>2. QED
    BY <1>0, <2>1 DEF Goes, Installing
<1>6. QED
  BY <1>3, <1>4, <1>5 DEF BundleStep

LEMMA WatcherInvStep ==
  TypeOK /\ LoadedUnderItsName /\ WatcherInv /\ [Next]_vars => WatcherInv'
<1> SUFFICES ASSUME TypeOK, LoadedUnderItsName, WatcherInv, [Next]_vars PROVE WatcherInv'
  OBVIOUS
<1> USE DEF WatcherInv, At, IsLoaded
<1>0. /\ pc \in [Threads -> Places] /\ target \in [Threads -> 1 .. Len(bundles)]
      /\ "watcher" \in Threads /\ "main" \in Threads /\ "console" \in Threads
      /\ "main" # "watcher" /\ "console" # "watcher"
  BY DEF TypeOK, ThreadTypes, Threads
<1>1. \A i \in 1 .. Len(bundles): NameOf(i)' = NameOf(i)
  BY LengthStep
<1>2. ASSUME target'["watcher"] \in 1 .. Len(bundles)
      PROVE  NameOf(target["watcher"])' = NameOf(target'["watcher"])
  <2>1. NameOf(target["watcher"])' = bundles'[target'["watcher"]].name
    BY DEF NameOf
  <2>2. NameOf(target'["watcher"]) = bundles'[target'["watcher"]].name
    BY <1>2, LengthStep DEF NameOf
  <2>3. QED
    BY <2>1, <2>2
<1>3. ASSUME target' = target
      PROVE  NameOf(target["watcher"])' = NameOf(target["watcher"])
  BY <1>0, <1>2, <1>3
<1>4. CASE UNCHANGED <<watcherVars, loaded>> /\ pc'["watcher"] = pc["watcher"]
           /\ target'["watcher"] = target["watcher"]
  <2>1. NameOf(target["watcher"])' = NameOf(target["watcher"])
    BY <1>0, <1>2, <1>4
  <2>2. QED
    BY <1>4, <2>1 DEF watcherVars
<1>5. ASSUME NEW t \in Threads, BundleStep(t) PROVE WatcherInv'
  <2>1. UNCHANGED <<watcherVars, loaded, target>>
    BY <1>5, BundleStepFrame
  <2>2. CASE t # "watcher"
    BY <1>4, <1>5, <2>1, <2>2, PlaceStep
  <2>3. CASE t = "watcher"
    <3>1. NameOf(target["watcher"])' = NameOf(target["watcher"])
      BY <1>3, <2>1
    <3>2. CASE pc["watcher"] \in Stopping
      BY <1>5, <2>1, <2>3, <3>1, <3>2, PlaceStep DEF watcherVars, Stopping, Installing
    <3>3. CASE pc["watcher"] \in Installing
      BY <1>5, <2>1, <2>3, <3>1, <3>3, PlaceStep DEF watcherVars, Stopping, Installing
    <3>4. QED
      BY <1>5, <2>3, <3>2, <3>3, PlaceStep
  <2>4. QED
    BY <2>2, <2>3
<1>6. ASSUME NEW p \in Paths, TakeAvailable(p) PROVE WatcherInv'
  <2>1. pc'["watcher"] = "read" /\ handling' = p /\ goal' = "replace"
    BY <1>0, <1>6 DEF TakeAvailable, Goes
  <2>2. p.name \notin Untouchable
    BY <1>6 DEF TakeAvailable, Untouchable
  <2>3. QED
    BY <2>1, <2>2 DEF Stopping, Installing
<1>7. CASE GiveUpReading \/ UninstallFails \/ Unload
  <2>1. pc'["watcher"] = "idle"
    BY <1>0, <1>7 DEF GiveUpReading, UninstallFails, Unload, Goes
  <2>2. QED
    BY <2>1 DEF Stopping, Installing
<1>8. CASE ReadReplacement
  <2> DEFINE o == loaded[handling.name]
  <2>1. /\ pc'["watcher"] \in {"idle", "stopIf"} /\ goal' = goal /\ loaded' = loaded
        /\ target'["watcher"] = o /\ IsLoaded(handling.name)
        /\ handling.name \notin Untouchable /\ goal = "replace"
        /\ pc'["watcher"] = "stopIf" =>
             incoming'.name = handling.name \/ ~IsLoaded(incoming'.name)
    BY <1>0, <1>8 DEF ReadReplacement, Read, Goes, loaderVars
  <2>2. o \in 1 .. Len(bundles) /\ NameOf(o) = handling.name
    BY <2>1, LoadedPlaces DEF LoadedUnderItsName
  <2>3. NameOf(target["watcher"])' = handling.name
    BY <1>2, <2>1, <2>2
  <2>4. QED
    BY <2>1, <2>3 DEF Stopping, Installing
<1>9. CASE ReadNew
  <2>1. /\ pc'["watcher"] \in {"idle", "load"} /\ goal' = goal /\ loaded' = loaded
        /\ pc["watcher"] = "read"
        /\ pc'["watcher"] = "load" => ~IsLoaded(incoming'.name)
    BY <1>0, <1>9 DEF ReadNew, Read, Goes, loaderVars
  <2>2. QED
    BY <2>1 DEF Stopping, Installing
<1>10. CASE Erase
  <2>1. /\ UNCHANGED <<watcherVars, loaded, target>> /\ pc["watcher"] = "erase"
        /\ \/ pc'["watcher"] \in {"idle", "unload"}
           \/ pc'["watcher"] = "uninstall" /\ goal = "replace"
    BY <1>0, <1>10 DEF Erase, Goes, loaderVars
  <2>2. QED
    BY <1>3, <2>1 DEF watcherVars, Stopping, Installing
<1>11. CASE Uninstall
  <2>1. /\ UNCHANGED <<watcherVars, target>> /\ pc["watcher"] = "uninstall"
        /\ pc'["watcher"] = "load"
        /\ loaded' = [loaded EXCEPT ![NameOf(target["watcher"])] = 0]
    BY <1>0, <1>11 DEF Uninstall, Goes, Forget
  <2>2. goal = "replace"
    BY <2>1
  <2>3. loaded'[incoming.name] = 0
    BY <2>1, <2>2, LoadedPlaces DEF Stopping
  <2>4. QED
    BY <2>1, <2>2, <2>3 DEF watcherVars, Stopping, Installing
<1>12. CASE Load
  <2>1. /\ UNCHANGED watcherVars /\ pc["watcher"] = "load"
        /\ pc'["watcher"] \in {"idle", "resolve"}
    BY <1>0, <1>12 DEF Load, Goes
  <2>2. QED
    BY <2>1 DEF watcherVars, Stopping, Installing
<1>13. ASSUME NEW p \in Paths, TakeRemoved(p) PROVE WatcherInv'
  <2>1. /\ pc'["watcher"] = "stopIf" /\ goal' = "remove" /\ target'["watcher"] = Found(p)
        /\ Found(p) # 0 /\ NameOf(Found(p)) \notin Untouchable
    BY <1>0, <1>13 DEF TakeRemoved, Goes, Untouchable
  <2>2. Found(p) \in 1 .. Len(bundles)
    BY <2>1, LoadedPlaces DEF Found, Paths, Contents
  <2>3. NameOf(target["watcher"])' = NameOf(Found(p))
    BY <1>2, <2>1, <2>2
  <2>4. QED
    BY <2>1, <2>3 DEF Stopping, Installing
<1>14. CASE \E a \in {"start", "stop", "resolve"}, n \in Manageable: Request(a, n)
  BY <1>0, <1>4, <1>14 DEF Request, Goes, loaderVars
<1>15. CASE Terminate \/ List \/ Sort \/ StopNext
  <2>1. UNCHANGED <<watcherVars, loaded>>
    BY <1>15, Zenon DEF Terminate, List, Sort, StopNext, loaderVars
  <2>2. \E p: Goes("main", p)
    BY <1>15, Zenon DEF Terminate, List, Sort, StopNext
  <2>3. target' = target \/ \E o: target' = [target EXCEPT !["main"] = o]
    BY <1>15, Zenon DEF Terminate, List, Sort, StopNext
  <2>4. QED
    BY <1>0, <1>4, <2>1, <2>2, <2>3 DEF Goes
<1>16. UNCHANGED vars \/ Deployer \/ (\E p \in Paths: SkipAvailable(p) \/ SkipRemoved(p)) =>
         UNCHANGED <<watcherVars, loaded, pc, target>>
  BY Zenon DEF vars, Deployer, Drop, Delete, Expire, SkipAvailable, SkipRemoved, loaderVars,
     threadVars
<1>17. QED
  <2>1. CASE UNCHANGED vars \/ Deployer \/ \E p \in Paths: SkipAvailable(p) \/ SkipRemoved(p)
    BY <1>4, <1>16, <2>1
  <2>2. CASE \E t \in Threads: BundleStep(t)
    BY <1>5, <2>2
  <2>3. CASE Next /\ ~Deployer /\ ~(\E t \in Threads: BundleStep(t))
             /\ ~(\E p \in Paths: SkipAvailable(p) \/ SkipRemoved(p))
    BY <1>0, <1>6, <1>7, <1>8, <1>9, <1>10, <1>11, <1>12, <1>13, <1>14, <1>15, <2>3, Zenon
    DEF Next, WatcherStep, ConsoleStep, MainStep, BundleStep
  <2>4. QED
    BY <2>1, <2>2, <2>3, Zenon

\* Between its check and its act the watcher keeps its target, and nobody else
\* loads or unloads.
LEMMA TargetInvStep ==
  TypeOK /\ LoadedUnderItsName /\ WatcherInv /\ TargetInv /\ [Next]_vars => TargetInv'
<1> SUFFICES ASSUME TypeOK, LoadedUnderItsName, WatcherInv, TargetInv, [Next]_vars,
                    pc'["watcher"] \in Stopping \cup {"unload"}
             PROVE  loaded'[NameOf(target["watcher"])'] = target'["watcher"]
  BY DEF TargetInv
<1> DEFINE W == Stopping \cup {"unload"}
<1>0. /\ pc \in [Threads -> Places] /\ target \in [Threads -> 1 .. Len(bundles)]
      /\ "watcher" \in Threads /\ "main" \in Threads /\ "console" \in Threads
      /\ "main" # "watcher" /\ "console" # "watcher"
  BY DEF TypeOK, ThreadTypes, Threads
<1>1. ASSUME NEW n \in Names, IsLoaded(n), target'["watcher"] = loaded[n], loaded' = loaded
      PROVE  loaded'[NameOf(target["watcher"])'] = target'["watcher"]
  <2>1. loaded[n] \in 1 .. Len(bundles) /\ NameOf(loaded[n]) = n
    BY <1>1, LoadedPlaces DEF LoadedUnderItsName
  <2>2. bundles'[loaded[n]].name = n
    BY <2>1, LengthStep DEF NameOf
  <2>3. NameOf(target["watcher"])' = n
    BY <1>1, <2>2 DEF NameOf
  <2>4. QED
    BY <1>1, <2>3
<1>2. ASSUME target'["watcher"] = target["watcher"], loaded' = loaded, pc["watcher"] \in W
      PROVE  loaded'[NameOf(target["watcher"])'] = target'["watcher"]
  <2>1. loaded[NameOf(target["watcher"])] = target["watcher"]
    BY <1>2 DEF TargetInv
  <2>2. NameOf(target["watcher"]) \in Names /\ IsLoaded(NameOf(target["watcher"]))
    BY <1>0, <2>1, LoadedPlaces DEF IsLoaded
  <2>3. QED
    BY <1>1, <1>2, <2>1, <2>2
<1>3. ASSUME NEW t \in Threads, BundleStep(t)
      PROVE  pc["watcher"] \in W /\ UNCHANGED <<loaded, target>>
  <2>1. UNCHANGED <<loaded, target>>
    BY <1>3, BundleStepFrame
  <2>2. pc["watcher"] \in Installing => goal = "replace"
    BY DEF WatcherInv
  <2>3. CASE t = "watcher"
    BY <1>3, <2>1, <2>2, <2>3, PlaceStep DEF Stopping, Installing
  <2>4. CASE t # "watcher"
    BY <1>3, <2>1, <2>4, PlaceStep
  <2>5. QED
    BY <2>3, <2>4
<1>4. CASE ReadReplacement
  BY <1>0, <1>1, <1>4, LoadedPlaces DEF ReadReplacement, loaderVars
<1>5. ASSUME NEW p \in Paths, TakeRemoved(p)
      PROVE  loaded'[NameOf(target["watcher"])'] = target'["watcher"]
  <2>1. target'["watcher"] = Found(p) /\ Found(p) # 0 /\ loaded' = loaded
    BY <1>0, <1>5 DEF TakeRemoved, loaderVars
  <2>2. PICK n \in Names: Found(p) = loaded[n]
    BY DEF Found, Paths, Contents
  <2>3. QED
    BY <1>1, <2>1, <2>2 DEF IsLoaded
<1>6. CASE Erase
  <2>1. pc["watcher"] = "erase" /\ UNCHANGED <<loaded, target>>
    BY <1>6 DEF Erase, At, loaderVars
  <2>2. QED
    BY <1>2, <2>1 DEF Stopping
<1>7. ~(\/ GiveUpReading \/ ReadNew \/ Uninstall \/ UninstallFails \/ Load \/ Unload
        \/ \E p \in Paths: TakeAvailable(p))
  <2>1. ASSUME \/ GiveUpReading \/ ReadNew \/ Uninstall \/ UninstallFails \/ Load \/ Unload
               \/ \E p \in Paths: TakeAvailable(p)
        PROVE  \E q \in {"idle", "read", "load", "resolve"}: Goes("watcher", q)
    BY <2>1 DEF GiveUpReading, ReadNew, Uninstall, UninstallFails, Load, Unload, TakeAvailable
  <2>2. QED
    BY <1>0, <2>1 DEF Goes, Stopping
<1>8. CASE \E a \in {"start", "stop", "resolve"}, n \in Manageable: Request(a, n)
  BY <1>0, <1>2, <1>8 DEF Request, Goes, loaderVars
<1>9. CASE Terminate \/ List \/ Sort \/ StopNext
  <2>1. loaded' = loaded
    BY <1>9, Zenon DEF Terminate, List, Sort, StopNext, loaderVars
  <2>2. \E p: Goes("main", p)
    BY <1>9, Zenon DEF Terminate, List, Sort, StopNext
  <2>3. target' = target \/ \E o: target' = [target EXCEPT !["main"] = o]
    BY <1>9, Zenon DEF Terminate, List, Sort, StopNext
  <2>4. QED
    BY <1>0, <1>2, <2>1, <2>2, <2>3 DEF Goes
<1>10. UNCHANGED vars \/ Deployer \/ (\E p \in Paths: SkipAvailable(p) \/ SkipRemoved(p)) =>
         UNCHANGED <<loaded, pc, target>>
  BY Zenon DEF vars, Deployer, Drop, Delete, Expire, SkipAvailable, SkipRemoved, loaderVars,
     threadVars
<1>11. QED
  <2>1. CASE UNCHANGED vars \/ Deployer \/ \E p \in Paths: SkipAvailable(p) \/ SkipRemoved(p)
    BY <1>2, <1>10, <2>1
  <2>2. CASE \E t \in Threads: BundleStep(t)
    BY <1>2, <1>3, <2>2
  <2>3. CASE Next /\ ~Deployer /\ ~(\E t \in Threads: BundleStep(t))
             /\ ~(\E p \in Paths: SkipAvailable(p) \/ SkipRemoved(p))
    BY <1>0, <1>4, <1>5, <1>6, <1>7, <1>8, <1>9, <2>3, Zenon
    DEF Next, WatcherStep, ConsoleStep, MainStep, BundleStep
  <2>4. QED
    BY <2>1, <2>2, <2>3, Zenon
-----------------------------------------------------------------------------
(***************************************************************************)
(* What is loaded is stored.                                               *)
(***************************************************************************)
Stored(p) == files[p] # NoFile \/ p \in deleted

\* A file that is stored stays, or the deployer deletes it, or the watcher
\* removes it: the file it has read, that of the bundle it uninstalls, or the
\* one it could not load.
LEMMA StoredStep ==
  ASSUME TypeOK, [Next]_vars, NEW p \in Paths, Stored(p)
  PROVE  \/ Stored(p)'
         \/ ReadNew /\ p = handling
         \/ Uninstall /\ p = PathOf(target["watcher"])
         \/ Load /\ p = incoming /\ loaded' = loaded
<1>0. /\ files \in [Paths -> Contents \cup {NoFile}] /\ incoming \in Paths /\ Paths = Contents
      /\ NoFile \notin Contents
      /\ "watcher" \in Threads /\ "main" \in Threads /\ "console" \in Threads
  BY ContentsAssumption DEF TypeOK, DirectoryTypes, WatcherTypes, Paths, Threads
<1>1. CASE files' = files /\ deleted' = deleted
  BY <1>1 DEF Stored
<1>2. ASSUME NEW d \in Deployable, Drop(d) PROVE Stored(p)'
  <2>1. d.content # NoFile
    BY <1>0, ContentsAssumption
  <2>2. QED
    BY <1>0, <1>2, <2>1 DEF Drop, Stored
<1>3. ASSUME NEW q \in Paths, Delete(q) PROVE Stored(p)'
  BY <1>0, <1>3 DEF Delete, Stored
<1>4. CASE ReadNew
  <2>1. files' = [files EXCEPT ![handling] = NoFile] /\ deleted' = deleted
    BY <1>4, Zenon DEF ReadNew
  <2>2. QED
    BY <1>0, <1>4, <2>1 DEF Stored
<1>5. CASE Uninstall
  <2>1. files' = [files EXCEPT ![PathOf(target["watcher"])] = NoFile] /\ deleted' = deleted
    BY <1>5, Zenon DEF Uninstall
  <2>2. QED
    BY <1>0, <1>5, <2>1 DEF Stored
<1>6. CASE Load
  <2>1. /\ deleted' = deleted
        /\ \/ files' = files
           \/ files' = [files EXCEPT ![incoming] = incoming]
           \/ files' = [files EXCEPT ![incoming] = NoFile] /\ loaded' = loaded
    BY <1>6, Zenon DEF Load
  <2>2. QED
    BY <1>0, <1>6, <2>1 DEF Stored
<1>7. CASE UNCHANGED vars
  BY <1>1, <1>7, Zenon DEF vars, directoryVars
<1>8. CASE \E t \in Threads: BundleStep(t)
  BY <1>1, <1>8, BundleStepFrame
<1>9. CASE Next /\ ~(ReadNew \/ Uninstall \/ Load \/ (\E t \in Threads: BundleStep(t))
                     \/ (\E d \in Deployable: Drop(d)) \/ \E q \in Paths: Delete(q))
  <2>1. files' = files /\ deleted' = deleted
    BY <1>0, <1>9, Zenon DEF Next, WatcherStep, ConsoleStep, MainStep, Deployer, BundleStep,
       Expire, SkipAvailable, TakeAvailable, SkipRemoved, TakeRemoved, GiveUpReading,
       ReadReplacement, Erase, UninstallFails, Unload, Request, Terminate, List, Sort,
       StopNext, directoryVars
  <2>2. QED
    BY <1>1, <2>1
<1>10. QED
  BY <1>2, <1>3, <1>4, <1>5, <1>6, <1>7, <1>8, <1>9, Zenon

LEMMA RunsWhatIsStoredStep ==
  /\ TypeOK /\ LoadedUnderItsName /\ WatcherInv /\ RunsWhatIsStored /\ [Next]_vars
  => RunsWhatIsStored'
<1> SUFFICES ASSUME TypeOK, LoadedUnderItsName, WatcherInv, RunsWhatIsStored, [Next]_vars,
                    NEW n \in Names, IsLoaded(n)'
             PROVE  Stored(PathOf(loaded[n]))'
  BY DEF RunsWhatIsStored, Stored
<1>1. CASE /\ IsLoaded(n) /\ loaded'[n] = loaded[n]
           /\ PathOf(loaded[n])' = PathOf(loaded[n])
           /\ PathOf(loaded[n]) \in Paths /\ PathOf(loaded[n]).name = n
           /\ (Uninstall \/ Unload) => n # NameOf(target["watcher"])
  <2> DEFINE p == PathOf(loaded[n])
  <2>1. Stored(p)
    BY <1>1 DEF RunsWhatIsStored, Stored
  <2>2. ~(ReadNew /\ p = handling)
    BY <1>1 DEF ReadNew
  <2>3. ~(Uninstall /\ p = PathOf(target["watcher"]))
    BY <1>1, LoadedPlaces
  <2>4. ~(Load /\ p = incoming /\ loaded' = loaded)
    BY <1>1 DEF Load, WatcherInv, At
  <2>5. Stored(p)'
    BY <1>1, <2>1, <2>2, <2>3, <2>4, StoredStep, Zenon
  <2>6. p' = p
    BY <1>1
  <2>7. QED
    BY <2>5, <2>6 DEF Stored
<1>2. CASE Load /\ loaded' # loaded /\ PathOf(loaded[n])' = [name |-> incoming.name,
                                                             version |-> incoming.version]
  <2>1. files' = [files EXCEPT ![incoming] = incoming]
    BY <1>2, Zenon DEF Load
  <2>2. incoming = [name |-> incoming.name, version |-> incoming.version]
    BY DEF TypeOK, WatcherTypes, Contents
  <2>3. files'[incoming] = incoming /\ incoming # NoFile
    BY <2>1, ContentsAssumption DEF TypeOK, DirectoryTypes, WatcherTypes, Paths
  <2>4. PathOf(loaded[n])' = incoming
    BY <1>2, <2>2
  <2>5. QED
    BY <2>3, <2>4 DEF Stored
<1>3. QED
  BY <1>1, <1>2, StillLoaded, Zenon

-----------------------------------------------------------------------------
(***************************************************************************)
(* The initial state.                                                      *)
(***************************************************************************)
LEMMA InitInv == Init => IInv
<1> SUFFICES ASSUME Init PROVE IInv
  OBVIOUS
<1>0. /\ BootOrder \in Seq(STRING) /\ DOMAIN BootOrder = 1 .. Len(BootOrder)
      /\ Len(BootOrder) \in Nat /\ BootVersion \in Versions /\ Self \in Names
      /\ Needs \in [Names -> SUBSET Names]
  BY NamesAssumption
<1>1. \A i \in DOMAIN BootOrder: BootOrder[i] \in Names
  BY DEF Names
<1>2. \A n \in Names: /\ loaded[n] \in DOMAIN BootOrder /\ BootOrder[loaded[n]] = n
  <2>1. loaded = [n \in Names |-> CHOOSE i \in DOMAIN BootOrder: BootOrder[i] = n]
    BY DEF Init
  <2>2. \A n \in Names: \E i \in DOMAIN BootOrder: BootOrder[i] = n
    BY DEF Names
  <2>3. QED
    BY <2>1, <2>2
<1>3. ASSUME NEW i \in DOMAIN BootOrder
      PROVE  /\ bundles[i] \in Bundle /\ bundles[i].name = BootOrder[i]
             /\ bundles[i].version = BootVersion
  <2>1. bundles[i] = [name |-> BootOrder[i], version |-> BootVersion, state |-> "active",
                      deps |-> [name: Needs[BootOrder[i]], version: {BootVersion}]]
    BY <1>3 DEF Init
  <2>2. [name: Needs[BootOrder[i]], version: {BootVersion}] \subseteq Contents
    BY <1>0, <1>1, <1>3 DEF Contents
  <2>3. QED
    BY <1>0, <1>1, <1>3, <2>1, <2>2 DEF Bundle, States
<1>4. bundles \in [1 .. Len(BootOrder) -> Bundle]
  <2>1. bundles = [i \in DOMAIN BootOrder |-> bundles[i]]
    BY Zenon DEF Init
  <2>2. QED
    BY <1>0, <1>3, <2>1
<1>5. bundles \in Seq(Bundle) /\ Len(bundles) = Len(BootOrder)
  BY <1>0, <1>4
<1>6. DirectoryTypes
  <2>1. files \in [Paths -> Contents \cup {NoFile}]
    BY DEF Init, Paths
  <2>2. QED
    BY <2>1, EventSequences DEF Init, DirectoryTypes
<1>7. LoaderTypes
  <2>1. loaded \in [Names -> 0 .. Len(bundles)]
    <3> DEFINE place(n) == CHOOSE i \in DOMAIN BootOrder: BootOrder[i] = n
    <3>1. loaded = [n \in Names |-> place(n)]
      BY DEF Init
    <3>2. \A n \in Names: loaded[n] \in 0 .. Len(bundles)
      BY <1>0, <1>2, <1>5
    <3>3. \A n \in Names: place(n) \in 0 .. Len(bundles)
      <4> HIDE DEF place
      <4>1. QED
        BY <3>1, <3>2
    <3>4. QED
      BY <3>1, <3>3, Zenon
  <2>2. classLoader \in [Names -> {"none", "ready", "empty"}]
    BY DEF Init
  <2>3. QED
    BY <1>5, <2>1, <2>2 DEF Init, LoaderTypes
<1>8. ThreadTypes /\ WatcherTypes /\ MainTypes
  <2>1. 1 \in 1 .. Len(bundles)
    BY <1>0, <1>5 DEF Names
  <2>2. handling \in Contents
    BY <1>0 DEF Init, Contents
  <2>3. ThreadTypes
    BY <2>1 DEF Init, ThreadTypes, Places, States
  <2>4. WatcherTypes
    BY <2>2 DEF Init, WatcherTypes, Paths
  <2>5. MainTypes
    BY DEF Init, MainTypes
  <2>6. QED
    BY <2>3, <2>4, <2>5
<1>9. TypeOK
  BY <1>6, <1>7, <1>8 DEF TypeOK, Init
<1>10. LoadedUnderItsName
  BY <1>2, <1>3 DEF LoadedUnderItsName, NameOf
<1>11. WatcherInv
  BY DEF Init, WatcherInv, At, Installing, Stopping, Threads
<1>12. RunsWhatIsStored
  <2>1. ASSUME NEW n \in Names PROVE PathOf(loaded[n]) = [name |-> n, version |-> BootVersion]
    BY <1>2, <1>3 DEF PathOf
  <2>2. ASSUME NEW n \in Names PROVE [name |-> n, version |-> BootVersion] \in Contents
    BY <1>0 DEF Contents
  <2>3. ASSUME NEW n \in Names PROVE files[[name |-> n, version |-> BootVersion]] # NoFile
    BY <2>2, ContentsAssumption DEF Init, Paths
  <2>4. QED
    BY <2>1, <2>3 DEF RunsWhatIsStored
<1>13. TargetInv
  BY DEF Init, TargetInv, Stopping, Threads
<1>14. QED
  BY <1>9, <1>10, <1>11, <1>12, <1>13 DEF IInv

(***************************************************************************)
(* What a start finds.                                                     *)
(***************************************************************************)
\* A thread leaves its place in startBundle only with StartWork.
LEMMA LeavesStart ==
  ASSUME TypeOK, [Next]_vars, NEW t \in Threads, At(t, "startWork"), pc'[t] # "startWork"
  PROVE  StartWork(t)
<1>0. /\ pc \in [Threads -> Places] /\ pc[t] = "startWork"
      /\ Threads = {"watcher", "console", "main"}
  BY DEF TypeOK, ThreadTypes, Threads, At
<1>1. ASSUME NEW u \in Threads, BundleStep(u)
      PROVE  (u # t => pc'[t] = pc[t]) /\ (u = t => StartWork(t))
  <2>1. \E p: Goes(u, p)
    BY <1>1, Zenon DEF BundleStep, StopStep, StartStep, ResolveStep, StopIf, Stop, StopMark,
       StopWork, StopWatching, Join, Start, StartMark, StartWork, StartSucceeds, StartFails,
       Resolve, ResolveWork, ResolveSucceeds, ResolveFails
  <2>2. u # t => pc'[t] = pc[t]
    BY <1>0, <2>1 DEF Goes
  <2>3. u = t => StartWork(t)
    BY <1>0, <1>1 DEF BundleStep, StopStep, StartStep, ResolveStep, StopIf, Stop, StopMark,
       StopWork, StopWatching, Join, Start, StartMark, Resolve, ResolveWork, At
  <2>4. QED
    BY <2>2, <2>3
<1>2. CASE UNCHANGED vars
  BY <1>0, <1>2 DEF vars, threadVars
<1>3. CASE \E u \in Threads: BundleStep(u)
  BY <1>0, <1>1, <1>3
<1>4. CASE Deployer
  BY <1>0, <1>4 DEF Deployer, Drop, Delete, Expire, threadVars
<1>5. CASE Terminate \/ List \/ Sort \/ StopNext
  BY <1>0, <1>5 DEF Terminate, List, Sort, StopNext, At, Goes
<1>6. CASE \E action \in {"start", "stop", "resolve"}, n \in Manageable: Request(action, n)
  BY <1>0, <1>6 DEF Request, At, Goes
<1>7. CASE \E p \in Paths: SkipAvailable(p) \/ TakeAvailable(p) \/ SkipRemoved(p) \/ TakeRemoved(p)
  <2>1. pc["watcher"] = "idle" /\ (pc' = pc \/ \E p: Goes("watcher", p))
    BY <1>7, Zenon DEF SkipAvailable, TakeAvailable, SkipRemoved, TakeRemoved, Comes, At,
       threadVars
  <2>2. QED
    BY <1>0, <2>1 DEF Goes
<1>8. CASE GiveUpReading \/ ReadReplacement \/ ReadNew \/ Erase \/ Uninstall
           \/ UninstallFails \/ Load \/ Unload
  <2>1. \E p: Goes("watcher", p)
    BY <1>8, Zenon DEF GiveUpReading, ReadReplacement, ReadNew, Erase, Uninstall,
       UninstallFails, Load, Unload
  <2>2. \E p \in {"read", "erase", "uninstall", "load", "unload"}: At("watcher", p)
    BY <1>8, Zenon DEF GiveUpReading, ReadReplacement, ReadNew, Read, Erase, Uninstall,
       UninstallFails, Load, Unload
  <2>3. QED
    BY <1>0, <2>1, <2>2 DEF Goes, At
<1>9. QED
  BY <1>0, <1>2, <1>3, <1>4, <1>5, <1>6, <1>7, <1>8, Zenon
  DEF Next, WatcherStep, ConsoleStep, MainStep, BundleStep

\* What a start has found when it leaves its bundle active.
LEMMA StartFindsAll ==
  ASSUME TypeOK, LoadedUnderItsName, NEW t \in Threads, StartWork(t),
         bundles'[target[t]].state = "active", old[t] # "active"
  PROVE  \A d \in bundles[target[t]].deps:
           /\ IsLoaded(d.name) /\ PathOf(loaded[d.name]) = d
           /\ bundles'[loaded[d.name]].state = "active"
<1> DEFINE o == target[t]
<1>0. /\ DOMAIN bundles = 1 .. Len(bundles) /\ o \in 1 .. Len(bundles)
      /\ \A i \in 1 .. Len(bundles): bundles[i] \in Bundle
  BY DEF TypeOK, LoaderTypes, ThreadTypes
<1>1. ASSUME NEW i \in 1 .. Len(bundles), NEW s
      PROVE  [bundles[i] EXCEPT !.state = s].state = s
  BY <1>0, <1>1 DEF Bundle
<1>2. ~StartFails(t)
  <2>1. SUFFICES ASSUME StartFails(t) PROVE bundles'[o].state = old[t]
    OBVIOUS
  <2>2. PICK D \in SUBSET Names: bundles' = [i \in DOMAIN bundles |->
               IF i = o THEN [bundles[i] EXCEPT !.state = old[t]]
               ELSE IF i \in Loaded(D) THEN [bundles[i] EXCEPT !.state = "active"]
               ELSE bundles[i]]
    BY <2>1 DEF StartFails
  <2>3. QED
    BY <1>0, <1>1, <2>2
<1>3. PICK D \in SUBSET Names:
        /\ StartsWith(o, D)
        /\ bundles' = [i \in DOMAIN bundles |-> IF i \in Loaded(D) \cup {o}
                         THEN [bundles[i] EXCEPT !.state = "active"] ELSE bundles[i]]
  BY <1>2 DEF StartWork, StartSucceeds
<1>4. \A i \in 1 .. Len(bundles):
        State(i) = "active" \/ i \in Loaded(D) => bundles'[i].state = "active"
  BY <1>0, <1>1, <1>3 DEF State
<1>5. ASSUME NEW d \in bundles[o].deps
      PROVE  /\ IsLoaded(d.name) /\ PathOf(loaded[d.name]) = d
             /\ bundles'[loaded[d.name]].state = "active"
  <2>1. d \in Contents /\ d.name \in Names /\ d = [name |-> d.name, version |-> d.version]
    BY <1>0, <1>5 DEF Bundle, Contents
  <2>2. Fits(d) /\ (State(loaded[d.name]) = "active" \/ d.name \in D)
    BY <1>3, <1>5 DEF StartsWith, Startable
  <2>3. /\ IsLoaded(d.name) /\ loaded[d.name] \in 1 .. Len(bundles)
        /\ bundles[loaded[d.name]].name = d.name
        /\ bundles[loaded[d.name]].version = d.version
    BY <2>1, <2>2, LoadedPlaces DEF Fits, LoadedUnderItsName, NameOf
  <2>4. d.name \in D => loaded[d.name] \in Loaded(D)
    BY DEF Loaded
  <2>5. QED
    BY <1>4, <2>1, <2>2, <2>3, <2>4 DEF PathOf
<1>6. QED
  BY <1>5

-----------------------------------------------------------------------------
(***************************************************************************)
(* The theorems.                                                           *)
(***************************************************************************)
\* The inductive invariant holds in every state, whatever the bundles, their
\* dependencies and the changes of the directory.
THEOREM HotReloadInvariance == SafetySpec => []IInv
<1>1. IInv /\ [Next]_vars => IInv'
  BY TypeStep, UnderItsNameStep, WatcherInvStep, RunsWhatIsStoredStep, TargetInvStep, Zenon
  DEF IInv
<1>2. QED
  BY InitInv, <1>1, PTL DEF SafetySpec

\* The variables of loader, watcher, console and shutdown keep their types; no
\* thread ever works on a bundle object that does not exist.
THEOREM TypeCorrect == SafetySpec => []TypeOK
<1>1. IInv => TypeOK
  BY DEF IInv
<1>2. QED
  BY HotReloadInvariance, <1>1, PTL

\* A bundle that is loaded is stored in the repository, unless the deployer has
\* deleted its file.
THEOREM StoredWhatRuns == SafetySpec => []RunsWhatIsStored
<1>1. IInv => RunsWhatIsStored
  BY DEF IInv
<1>2. QED
  BY HotReloadInvariance, <1>1, PTL

\* The watcher never unloads or replaces, and never begins to stop, a web
\* interface bundle or itself.
THEOREM SparedByWatcher == SafetySpec => WatcherSpares
<1> DEFINE Spares ==
      /\ \A n \in Untouchable: IsLoaded(n) => loaded'[n] = loaded[n]
      /\ pc'["watcher"] \in {"stop", "stopMark", "stopWork", "erase"} =>
           NameOf(target'["watcher"]) \notin Untouchable
<1>1. ASSUME IInv, IInv', [Next]_vars PROVE Spares
  <2>0. TypeOK /\ LoadedUnderItsName /\ WatcherInv /\ WatcherInv' /\ Untouchable \subseteq Names
    BY <1>1, NamesAssumption DEF IInv, Untouchable
  <2>1. ASSUME NEW n \in Untouchable, IsLoaded(n) PROVE loaded'[n] = loaded[n]
    <3>1. Uninstall \/ Unload => NameOf(target["watcher"]) # n
      BY <2>0, <2>1 DEF Uninstall, Unload, WatcherInv, Stopping, At
    <3>2. Load => incoming.name # n
      BY <2>0, <2>1 DEF Load, WatcherInv, At
    <3>3. loaded \in [Names -> 0 .. Len(bundles)]
      BY <2>0, LoadedPlaces
    <3>4. QED
      BY <1>1, <2>0, <2>1, <3>1, <3>2, <3>3, LoadedStep
  <2>2. ASSUME pc'["watcher"] \in {"stop", "stopMark", "stopWork", "erase"}
        PROVE  NameOf(target'["watcher"]) \notin Untouchable
    <3>1. NameOf(target["watcher"])' \notin Untouchable
      BY <2>0, <2>2 DEF WatcherInv, Stopping, Untouchable
    <3>2. ~Load
      BY <1>1, <2>2 DEF Load, Goes, IInv, TypeOK, ThreadTypes, Threads
    <3>3. SameBundles
      BY <1>1, <2>0, <3>2, BundlesStep
    <3>4. target'["watcher"] \in 1 .. Len(bundles)
      BY <1>1, <3>3, LoadedPlaces DEF IInv, SameBundles, TypeOK, ThreadTypes, Threads
    <3>5. QED
      BY <3>1, <3>3, <3>4 DEF NameOf, SameBundles
  <2>3. QED
    BY <2>1, <2>2
<1>2. SafetySpec => [][Spares]_vars
  BY HotReloadInvariance, <1>1, PTL DEF SafetySpec
<1>3. QED
  BY <1>2, Zenon DEF WatcherSpares

\* A start that succeeds has found every dependency loaded in the version that
\* the bundle was resolved to, and leaves all of them active, whatever watcher,
\* console and shutdown do to the same bundles meanwhile.
THEOREM StartsOnDependencies == SafetySpec => StartedOnItsDependencies
<1> DEFINE Starts ==
      \A t \in Threads:
        LET o == target[t] IN
        (/\ At(t, "startWork") /\ pc'[t] # "startWork"
         /\ bundles'[o].state = "active" /\ old[t] # "active") =>
          \A d \in bundles[o].deps:
            /\ IsLoaded(d.name) /\ PathOf(loaded[d.name]) = d
            /\ bundles'[loaded[d.name]].state = "active"
<1>1. IInv /\ [Next]_vars => [Starts]_vars
  <2>1. SUFFICES ASSUME IInv, [Next]_vars PROVE Starts
    OBVIOUS
  <2>2. QED
    BY <2>1, LeavesStart, StartFindsAll DEF IInv
<1>2. SafetySpec => [][Starts]_vars
  BY HotReloadInvariance, <1>1, PTL DEF SafetySpec
<1>3. QED
  BY <1>2, Zenon DEF StartedOnItsDependencies

-----------------------------------------------------------------------------
(***************************************************************************)
(* The directory as the deployer sees it.                                  *)
(***************************************************************************)
\* What becomes of the files.
LEMMA FilesStep ==
  ASSUME TypeOK, [Next]_vars
  PROVE  \/ UNCHANGED <<files, deleted>>
         \/ \E d \in Deployable: Drop(d)
         \/ \E p \in Paths: Delete(p)
         \/ ReadNew \/ Uninstall \/ Load
<1>0. "watcher" \in Threads /\ "main" \in Threads /\ "console" \in Threads
  BY DEF Threads
<1>1. CASE UNCHANGED vars
  BY <1>1, Zenon DEF vars, directoryVars
<1>2. CASE \E t \in Threads: BundleStep(t)
  BY <1>2, BundleStepFrame
<1>3. CASE Next /\ ~\E t \in Threads: BundleStep(t)
  BY <1>0, <1>3, Zenon DEF Next, WatcherStep, ConsoleStep, MainStep, Deployer, BundleStep,
     Expire, SkipAvailable, TakeAvailable, SkipRemoved, TakeRemoved, GiveUpReading,
     ReadReplacement, Erase, UninstallFails, Unload, Request, Terminate, List, Sort,
     StopNext, directoryVars
<1>4. QED
  BY <1>1, <1>2, <1>3

\* Writing and removing one file.
LEMMA FileWritten ==
  ASSUME TypeOK, NEW p \in Paths, NEW c, files' = [files EXCEPT ![p] = c]
  PROVE  StoredPaths' = IF c = NoFile THEN StoredPaths \ {p} ELSE StoredPaths \cup {p}
BY DEF StoredPaths, TypeOK, DirectoryTypes

\* What runs is of its name, and of nobody else's.
LEMMA RunningNames ==
  ASSUME TypeOK, LoadedUnderItsName, NEW n \in Names
  PROVE  /\ IsLoaded(n) => /\ Running[n] = PathOf(loaded[n]) /\ Running[n] \in Paths
                           /\ Running[n].name = n /\ Running[n] # NoFile
         /\ ~IsLoaded(n) => Running[n] = NoFile
<1>1. Running[n] = IF IsLoaded(n) THEN PathOf(loaded[n]) ELSE NoFile
  BY DEF Running
<1>2. NoFile \notin Paths
  BY ContentsAssumption DEF Paths
<1>3. CASE IsLoaded(n)
  <2>1. loaded[n] \in 1 .. Len(bundles) /\ NameOf(loaded[n]) = n
    BY <1>3, LoadedPlaces DEF LoadedUnderItsName
  <2>2. PathOf(loaded[n]) \in Paths /\ PathOf(loaded[n]).name = n
    BY <2>1, LoadedPlaces
  <2>3. QED
    BY <1>1, <1>2, <1>3, <2>2
<1>4. QED
  BY <1>1, <1>3

LEMMA RunningFunction ==
  /\ Running = [n \in Names |-> Running[n]] /\ Running' = [n \in Names |-> Running'[n]]
  /\ \A n \in Names: Running'[n] = IF IsLoaded(n)' THEN PathOf(loaded[n])' ELSE NoFile
<1>1. Running = [n \in Names |-> Running[n]] /\ Running' = [n \in Names |-> Running'[n]]
  BY Zenon DEF Running
<1>2. \A n \in Names: Running'[n] = IF IsLoaded(n)' THEN PathOf(loaded[n])' ELSE NoFile
  BY DEF Running
<1>3. QED
  BY <1>1, <1>2, Zenon

\* What runs is what is loaded, whatever else happens to the bundle objects.
LEMMA RunningStep ==
  ASSUME TypeOK, LoadedUnderItsName, [Next]_vars, NEW n \in Names, loaded'[n] = loaded[n]
  PROVE  Running'[n] = Running[n]
<1>1. /\ Running'[n] = IF loaded'[n] # 0 THEN PathOf(loaded[n])' ELSE NoFile
      /\ Running[n] = IF loaded[n] # 0 THEN PathOf(loaded[n]) ELSE NoFile
  BY DEF Running, IsLoaded
<1>2. CASE loaded[n] # 0
  <2>1. loaded[n] \in 1 .. Len(bundles)
    BY <1>2, LoadedPlaces DEF IsLoaded
  <2>2. /\ PathOf(loaded[n])' = [name |-> bundles'[loaded[n]].name,
                                 version |-> bundles'[loaded[n]].version]
        /\ PathOf(loaded[n]) = [name |-> bundles'[loaded[n]].name,
                                version |-> bundles'[loaded[n]].version]
    BY <2>1, LengthStep DEF PathOf
  <2>3. QED
    BY <1>1, <2>2
<1>3. QED
  BY <1>1, <1>2

LEMMA RunningStays ==
  ASSUME TypeOK, LoadedUnderItsName, [Next]_vars, loaded' = loaded
  PROVE  Running' = Running
<1>1. \A n \in Names: Running'[n] = Running[n]
  BY RunningStep
<1>2. QED
  BY <1>1, RunningFunction, Zenon

\* One name is loaded or unloaded.
LEMMA RunningWritten ==
  ASSUME TypeOK, LoadedUnderItsName, [Next]_vars, NEW n \in Names, NEW o,
         loaded' = [loaded EXCEPT ![n] = o]
  PROVE  Running' = [Running EXCEPT ![n] = Running'[n]]
<1>1. ASSUME NEW m \in Names, m # n PROVE Running'[m] = Running[m]
  BY <1>1, RunningStep, LoadedPlaces
<1>2. QED
  BY <1>1, RunningFunction

\* Removing the file at p, while what is loaded stays, tidies up if nobody runs
\* from p.
LEMMA TidyAtDirectory ==
  ASSUME TypeOK, LoadedUnderItsName, [Next]_vars, NEW p \in Paths, loaded' = loaded,
         files' = [files EXCEPT ![p] = NoFile], deleted' = deleted, ~IsLoaded(p.name)
  PROVE  Directory!Next
<1>1. StoredPaths' = StoredPaths \ {p} /\ Running' = Running
  BY FileWritten, RunningStays
<1>2. \A n \in Names: Running[n] # p
  BY RunningNames, ContentsAssumption DEF Paths
<1>3. Directory!Tidy(p)
  BY <1>1, <1>2 DEF Directory!Tidy
<1>4. QED
  BY <1>3 DEF Directory!Next

\* The watcher unloads what is loaded under the name of its target: the target.
LEMMA RetireAtDirectory ==
  ASSUME IInv, [Next]_vars, Uninstall \/ Unload
  PROVE  Directory!Next
<1> DEFINE o == target["watcher"]
           n == NameOf(o)
<1>0. TypeOK /\ LoadedUnderItsName /\ WatcherInv /\ TargetInv
  BY DEF IInv
<1>1. pc["watcher"] \in {"uninstall", "unload"}
  BY DEF Uninstall, Unload, At
<1>2. n \notin Untouchable /\ loaded[n] = o
  BY <1>0, <1>1 DEF WatcherInv, TargetInv, Stopping
<1>3. n \in Names /\ IsLoaded(n) /\ PathOf(o) \in Paths
  BY <1>0, <1>2, LoadedPlaces DEF IsLoaded
<1>4. Running[n] = PathOf(o) /\ Running[n] # NoFile
  BY <1>0, <1>2, <1>3, RunningNames
<1>5. loaded' = [loaded EXCEPT ![n] = 0] /\ deleted' = deleted
  BY Zenon DEF Uninstall, Unload, Forget, directoryVars
<1>6. Running'[n] = NoFile
  <2>1. loaded'[n] = 0
    BY <1>0, <1>3, <1>5, LoadedPlaces
  <2>2. ASSUME NEW m \in Names, loaded'[m] = 0 PROVE Running'[m] = NoFile
    BY <2>2, RunningFunction DEF IsLoaded
  <2>3. QED
    BY <1>3, <2>1, <2>2
<1>7. Running' = [Running EXCEPT ![n] = NoFile]
  BY <1>0, <1>3, <1>5, <1>6, RunningWritten
<1>8. StoredPaths' = StoredPaths \/ StoredPaths' = StoredPaths \ {PathOf(o)}
  <2>1. CASE Uninstall
    <3>1. files' = [files EXCEPT ![PathOf(o)] = NoFile]
      BY <2>1, Zenon DEF Uninstall
    <3>2. QED
      BY <1>0, <1>3, <3>1, FileWritten
  <2>2. CASE Unload
    BY <2>2 DEF Unload, directoryVars, StoredPaths
  <2>3. QED
    BY <2>1, <2>2
<1>9. Directory!Retire(n)
  BY <1>2, <1>4, <1>5, <1>7, <1>8 DEF Directory!Retire
<1>10. QED
  BY <1>3, <1>9 DEF Directory!Next

\* What is loaded gets its file, under a name that is free.
LEMMA LoadAtDirectory ==
  ASSUME IInv, [Next]_vars, Load
  PROVE  [Directory!Next]_(Directory!directory)
<1> DEFINE n == incoming.name
<1>0. /\ TypeOK /\ LoadedUnderItsName /\ incoming \in Paths /\ n \in Names
      /\ incoming = [name |-> n, version |-> incoming.version]
      /\ incoming # NoFile /\ ~IsLoaded(n) /\ deleted' = deleted
  BY ContentsAssumption DEF IInv, WatcherInv, Load, TypeOK, WatcherTypes, Paths, Contents
<1>1. CASE loaded' = loaded
  <2>1. \/ files' = [files EXCEPT ![incoming] = NoFile]
        \/ files' = files
        \/ loaded' = [loaded EXCEPT ![n] = Len(bundles) + 1]
    BY Zenon DEF Load
  <2>2. ~(loaded' = [loaded EXCEPT ![n] = Len(bundles) + 1])
    BY <1>0, <1>1, LoadedPlaces, LengthStep DEF IsLoaded
  <2>3. CASE files' = [files EXCEPT ![incoming] = NoFile]
    BY <1>0, <1>1, <2>3, TidyAtDirectory
  <2>4. CASE files' = files
    <3>1. StoredPaths' = StoredPaths /\ Running' = Running
      BY <1>0, <1>1, <2>4, RunningStays DEF StoredPaths
    <3>2. QED
      BY <1>0, <3>1 DEF Directory!directory
  <2>5. QED
    BY <2>1, <2>2, <2>3, <2>4
<1>2. CASE loaded' # loaded
  <2>1. /\ loaded' = [loaded EXCEPT ![n] = Len(bundles) + 1]
        /\ files' = [files EXCEPT ![incoming] = incoming]
    BY <1>2, Zenon DEF Load
  <2>2. StoredPaths' = StoredPaths \cup {incoming}
    BY <1>0, <2>1, FileWritten
  <2>3. loaded'[n] # 0
    BY <1>0, <2>1, LoadedPlaces, LengthStep
  <2>4. ASSUME NEW m \in Names, m = n PROVE Running'[m] = incoming
    <3>1. IsLoaded(m)' /\ ~IsLoaded(m)
      BY <1>0, <2>3, <2>4 DEF IsLoaded
    <3>2. PathOf(loaded[m])' = incoming
      BY <1>0, <3>1, StillLoaded
    <3>3. QED
      BY <3>1, <3>2, RunningFunction
  <2>5. Running'[n] = incoming
    BY <1>0, <2>4
  <2>6. Running' = [Running EXCEPT ![n] = incoming]
    BY <1>0, <2>1, <2>5, RunningWritten
  <2>7. Running[n] = NoFile
    BY <1>0, RunningNames
  <2>8. Directory!Install(incoming)
    BY <1>0, <2>2, <2>6, <2>7 DEF Directory!Install
  <2>9. QED
    BY <1>0, <2>8 DEF Directory!Next
<1>3. QED
  BY <1>1, <1>2

\* The server begins with a file for every bundle.
LEMMA InitAtDirectory == Init => Directory!Init
<1> SUFFICES ASSUME Init PROVE Directory!Init
  OBVIOUS
<1>0. IInv /\ TypeOK /\ LoadedUnderItsName /\ RunsWhatIsStored /\ deleted = {}
  BY InitInv DEF IInv, Init
<1>1. ASSUME NEW n \in Names PROVE IsLoaded(n)
  <2>1. \E i \in DOMAIN BootOrder: BootOrder[i] = n
    BY DEF Names
  <2>2. loaded[n] \in DOMAIN BootOrder
    BY <2>1 DEF Init
  <2>3. DOMAIN BootOrder = 1 .. Len(BootOrder)
    BY NamesAssumption
  <2>4. QED
    BY <2>2, <2>3 DEF IsLoaded
<1>2. ASSUME NEW n \in Names PROVE Running[n] \in StoredPaths /\ Running[n].name = n
  <2>1. Running[n] = PathOf(loaded[n]) /\ Running[n] \in Paths /\ Running[n].name = n
    BY <1>0, <1>1, RunningNames
  <2>2. files[PathOf(loaded[n])] # NoFile
    BY <1>0, <1>1 DEF RunsWhatIsStored
  <2>3. QED
    BY <2>1, <2>2 DEF StoredPaths
<1>3. Running = [n \in Names |-> Running[n]]
  BY Zenon DEF Running
<1>4. Running \in [Names -> StoredPaths]
  BY <1>2, <1>3
<1>5. StoredPaths \subseteq Paths
  BY DEF StoredPaths
<1>6. QED
  BY <1>0, <1>2, <1>4, <1>5 DEF Directory!Init

\* Watcher, console, shutdown and deployer, with their events and failures,
\* implement BundleDirectory: names are taken one at a time, a file goes only
\* with its bundle or when nobody runs from it, and some bundles are never touched.
THEOREM HotReloadImplementsDirectory == SafetySpec => ImplementsDirectory
<1>1. IInv /\ [Next]_vars => [Directory!Next]_(Directory!directory)
  <2> SUFFICES ASSUME IInv, [Next]_vars PROVE [Directory!Next]_(Directory!directory)
    OBVIOUS
  <2>0. TypeOK /\ LoadedUnderItsName /\ WatcherInv
    BY DEF IInv
  <2>1. CASE Uninstall \/ Unload
    BY <2>1, RetireAtDirectory
  <2>2. CASE Load
    BY <2>2, LoadAtDirectory
  <2>3. CASE ~(Uninstall \/ Unload \/ Load)
    <3>1. loaded' = loaded /\ Running' = Running
      BY <2>0, <2>3, LoadedStep, RunningStays
    <3>2. CASE UNCHANGED <<files, deleted>>
      BY <3>1, <3>2 DEF StoredPaths, Directory!directory
    <3>3. ASSUME NEW d \in Deployable, Drop(d) PROVE Directory!Next
      <4>1. d.path \in Paths /\ d.content # NoFile
        BY ContentsAssumption
      <4>2. StoredPaths' = StoredPaths \cup {d.path} /\ deleted' = deleted
        BY <2>0, <3>3, <4>1, FileWritten DEF Drop
      <4>3. Directory!Deploy(d.path)
        BY <3>1, <4>2 DEF Directory!Deploy
      <4>4. QED
        BY <4>1, <4>3 DEF Directory!Next
    <3>4. ASSUME NEW p \in Paths, Delete(p) PROVE Directory!Next
      <4>1. /\ p \in StoredPaths /\ StoredPaths' = StoredPaths \ {p}
            /\ deleted' = deleted \cup {p}
        BY <2>0, <3>4, FileWritten DEF Delete, StoredPaths
      <4>2. Directory!Withdraw(p)
        BY <3>1, <4>1 DEF Directory!Withdraw
      <4>3. QED
        BY <4>2 DEF Directory!Next
    <3>5. CASE ReadNew
      <4>1. /\ handling \in Paths /\ ~IsLoaded(handling.name) /\ deleted' = deleted
            /\ files' = [files EXCEPT ![handling] = NoFile]
        BY <2>0, <3>5 DEF ReadNew, TypeOK, WatcherTypes
      <4>2. QED
        BY <2>0, <3>1, <4>1, TidyAtDirectory
    <3>6. QED
      BY <2>0, <2>3, <3>2, <3>3, <3>4, <3>5, FilesStep
  <2>4. QED
    BY <2>1, <2>2, <2>3
<1>2. QED
  BY InitAtDirectory, HotReloadInvariance, <1>1, PTL
  DEF SafetySpec, ImplementsDirectory, Directory!Spec
=============================================================================
