--------------------------- MODULE BundleHotReload --------------------------
(***************************************************************************)
(* Bundles that come and go in a running server: the bundle watcher        *)
(* (src/services/BundleWatcher), the bundle loader, the bundle objects and *)
(* the bundle repository (src/platform/OSP/src), the start and stop        *)
(* buttons of the configuration page (src/webUI/GlobalConfig), and the     *)
(* shutdown.                                                               *)
(*                                                                         *)
(* Three threads use the loader.  The watcher handles one event of the     *)
(* repository directory after the other; the console handles a request of  *)
(* the configuration page; main shuts down.  A deployer changes the        *)
(* directory meanwhile.                                                    *)
(*                                                                         *)
(* Bundle::start, stop and resolve look at the state of the bundle, then   *)
(* write it, then enter the loader under its mutex: three steps, between   *)
(* which the other threads go on.  `pc' says which is next, `target' is    *)
(* the bundle object.  What the loader does under its mutex is one step,   *)
(* except that stopping the watcher's own bundle waits, inside the mutex,  *)
(* for the watcher thread.                                                 *)
(***************************************************************************)
EXTENDS Naturals, Sequences, FiniteSets

CONSTANTS
  BootOrder,     \* the symbolic names of all bundles, in the order of loading
  BootVersion,   \* the version they have then
  Versions,      \* versions
  Needs,         \* name -> names in Require-Bundle
  RunLevel,      \* name -> run level
  Self,          \* io.myiot.services.bundlewatcher
  Deferred,      \* io.myiot.webui.*
  Manageable,    \* what the configuration page may start and stop
  Deployable,    \* [path, content]: what may be copied into the directory
  Faults,        \* may activators and the file system fail?
  DeployBudget,  \* bound: changes of the directory by the deployer
  RequestBudget, \* bound: requests of the configuration page
  LoadBudget     \* bound: bundle objects created in all

Names == {BootOrder[i]: i \in DOMAIN BootOrder}
Contents == [name: Names, version: Versions]   \* of a bundle file
Paths == Contents                              \* <name>_<version>.bndl
NoFile == [name |-> "none", version |-> 0]

ASSUME NamesAssumption ==
  /\ BootOrder \in Seq(STRING) /\ BootVersion \in Versions
  /\ \A i, j \in DOMAIN BootOrder: BootOrder[i] = BootOrder[j] => i = j
  /\ Self \in Names
  /\ Deferred \subseteq Names /\ Manageable \subseteq Names
  /\ Needs \in [Names -> SUBSET Names] /\ RunLevel \in [Names -> Nat]
ASSUME ContentsAssumption ==
  /\ Deployable \subseteq [path: Paths, content: Contents]
  /\ Faults \in BOOLEAN
  /\ NoFile \notin Contents
ASSUME BudgetsAssumption ==
  DeployBudget \in Nat /\ RequestBudget \in Nat /\ LoadBudget \in Nat

VARIABLES
  files,        \* path -> content or NoFile: the repository directory
  events,       \* what the directory watcher has yet to report
  ignored,      \* _ignoredPaths
  watching,     \* _watchers is not empty
  bundles,      \* the bundle objects created so far
  loaded,       \* _bundles: name -> place in `bundles', or 0
  classLoader,  \* pClassLoader of a name: none, with activator, without
  loaderLock,   \* who keeps _mutex from step to step
  pc, target,   \* per thread
  old,          \* per thread: StateChange::_oldState
  handling,     \* the path the watcher handles
  incoming,     \* the payload it has read
  goal,         \* what it stops a bundle for
  pending,      \* main: what sortBundles has listed
  order,        \* main: what it has still to stop
  deployed, requests,  \* bounds
  deleted       \* ghost: the paths the deployer has deleted

directoryVars == <<files, events, ignored, deployed, deleted>>
loaderVars == <<bundles, loaded, classLoader>>
threadVars == <<pc, target, old>>
watcherVars == <<handling, incoming, goal>>
mainVars == <<pending, order>>
vars == <<directoryVars, watching, loaderVars, loaderLock, threadVars, watcherVars,
          mainVars, requests>>

Threads == {"watcher", "console", "main"}
States == {"installed", "uninstalled", "resolved", "starting", "active", "stopping"}
Started == {"starting", "active", "stopping"}
Resolved == Started \cup {"resolved"}
Event == [kind: {"available", "removed"}, path: Paths]
Bundle == [name: Names, version: Versions, state: States, deps: SUBSET Contents]
Places == {"idle", "read", "stopIf", "stop", "stopMark", "stopWork", "join", "erase",
           "uninstall", "unload", "load", "resolve", "resolveWork",
           "start", "startMark", "startWork", "run", "list", "sort", "next",
           "done", "aborted"}

At(t, p) == pc[t] = p
Goes(t, p) == pc' = [pc EXCEPT ![t] = p]
LoaderFree == loaderLock = "nobody"

State(o) == bundles[o].state
NameOf(o) == bundles[o].name
PathOf(o) == [name |-> bundles[o].name, version |-> bundles[o].version]
Becomes(o, s) == bundles' = [bundles EXCEPT ![o].state = s]
IsLoaded(n) == loaded[n] # 0

\* The directory watcher reports a change, if it is there.
Reports(es) == events' = IF watching THEN events \o es ELSE events
Available(p) == [kind |-> "available", path |-> p]
Removed(p) == [kind |-> "removed", path |-> p]

-----------------------------------------------------------------------------
\* The server is up: one version of every bundle, all of them started.
Init ==
  /\ bundles = [i \in DOMAIN BootOrder |->
                  [name |-> BootOrder[i], version |-> BootVersion, state |-> "active",
                   deps |-> [name: Needs[BootOrder[i]], version: {BootVersion}]]]
  /\ loaded = [n \in Names |-> CHOOSE i \in DOMAIN BootOrder: BootOrder[i] = n]
  /\ files = [p \in Paths |-> IF p.version = BootVersion THEN p ELSE NoFile]
  /\ classLoader = [n \in Names |-> "ready"] /\ loaderLock = "nobody"
  /\ events = <<>> /\ ignored = {} /\ watching = TRUE
  /\ pc = [t \in Threads |-> IF t = "main" THEN "run" ELSE "idle"]
  /\ target = [t \in Threads |-> 1] /\ old = [t \in Threads |-> "active"]
  /\ handling = [name |-> Self, version |-> BootVersion] /\ incoming = handling
  /\ goal = "replace" /\ pending = {} /\ order = <<>>
  /\ deployed = 0 /\ requests = 0 /\ deleted = {}

-----------------------------------------------------------------------------
(***************************************************************************)
(* The deployer, and the eight seconds.                                    *)
(***************************************************************************)
Drop(d) ==
  /\ deployed < DeployBudget /\ deployed' = deployed + 1
  /\ files' = [files EXCEPT ![d.path] = d.content]
  /\ Reports(<<Available(d.path)>>)
  /\ UNCHANGED <<ignored, deleted, watching, loaderVars, loaderLock, threadVars,
                 watcherVars, mainVars, requests>>

Delete(p) ==
  /\ deployed < DeployBudget /\ deployed' = deployed + 1
  /\ files[p] # NoFile /\ files' = [files EXCEPT ![p] = NoFile]
  /\ deleted' = deleted \cup {p}
  /\ Reports(<<Removed(p)>>)
  /\ UNCHANGED <<ignored, watching, loaderVars, loaderLock, threadVars, watcherVars,
                 mainVars, requests>>

\* How long a handler takes is open, so an ignored path may expire at any time.
Expire(p) ==
  /\ p \in ignored /\ ignored' = ignored \ {p}
  /\ UNCHANGED <<files, events, deployed, deleted, watching, loaderVars, loaderLock,
                 threadVars, watcherVars, mainVars, requests>>

-----------------------------------------------------------------------------
(***************************************************************************)
(* Where a thread goes on after Bundle::stop, and after an exception that  *)
(* left its bundle in state s.                                             *)
(***************************************************************************)
AfterStop(t) == CASE t = "watcher" -> "erase" [] t = "console" -> "idle" [] OTHER -> "next"

Caught(t, s) ==
  CASE t = "main" -> "aborted"
    [] t = "watcher" /\ goal = "remove" /\ files[PathOf(target[t])] = NoFile
         /\ s \notin Started -> "unload"
    [] OTHER -> "idle"

(***************************************************************************)
(* Bundle::stop and BundleLoader::stopBundle.                              *)
(***************************************************************************)
\* The caller's own look at the state, where it takes one.
StopIf(t) ==
  /\ At(t, "stopIf")
  /\ Goes(t, IF State(target[t]) = "active" THEN "stop" ELSE AfterStop(t))
  /\ UNCHANGED <<directoryVars, watching, loaderVars, loaderLock, target, old,
                 watcherVars, mainVars, requests>>

Stop(t) ==
  LET s == State(target[t]) IN
  /\ At(t, "stop") /\ Goes(t, IF s = "active" THEN "stopMark" ELSE Caught(t, s))
  /\ UNCHANGED <<directoryVars, watching, loaderVars, loaderLock, target, old,
                 watcherVars, mainVars, requests>>

StopMark(t) ==
  /\ At(t, "stopMark") /\ Goes(t, "stopWork")
  /\ old' = [old EXCEPT ![t] = State(target[t])]
  /\ Becomes(target[t], "stopping")
  /\ UNCHANGED <<directoryVars, watching, loaded, classLoader, loaderLock, target,
                 watcherVars, mainVars, requests>>

\* The activator's stop returns, or throws.
StopWork(t) ==
  LET o == target[t] IN
  /\ At(t, "stopWork") /\ LoaderFree
  /\ ~(IsLoaded(NameOf(o)) /\ NameOf(o) = Self /\ watching)
  /\ \/ /\ IsLoaded(NameOf(o))
        /\ Becomes(o, "resolved") /\ Goes(t, AfterStop(t))
     \/ /\ Faults \/ ~IsLoaded(NameOf(o))
        /\ Becomes(o, old[t]) /\ Goes(t, Caught(t, old[t]))
  /\ UNCHANGED <<directoryVars, watching, loaded, classLoader, loaderLock, target, old,
                 watcherVars, mainVars, requests>>

\* The watcher's own activator: stopWatching keeps the mutex and waits.
StopWatching(t) ==
  LET o == target[t] IN
  /\ At(t, "stopWork") /\ LoaderFree
  /\ IsLoaded(NameOf(o)) /\ NameOf(o) = Self /\ watching
  /\ loaderLock' = t /\ Goes(t, "join")
  /\ UNCHANGED <<directoryVars, watching, loaderVars, target, old, watcherVars, mainVars,
                 requests>>

Join(t) ==
  /\ At(t, "join") /\ At("watcher", "idle")
  /\ watching' = FALSE /\ events' = <<>>
  /\ Becomes(target[t], "resolved") /\ loaderLock' = "nobody" /\ Goes(t, AfterStop(t))
  /\ UNCHANGED <<files, ignored, deployed, deleted, loaded, classLoader, target, old,
                 watcherVars, mainVars, requests>>

-----------------------------------------------------------------------------
(***************************************************************************)
(* Starting a bundle starts what it needs, resolving a bundle resolves what *)
(* it needs.  D is a set of names done on the way to bundle o.             *)
(***************************************************************************)
\* Mutant: any version of a dependency will do.
FitsByName(d) == IsLoaded(d.name)

\* startDependencies: is the dependency still the one it was resolved to?
Fits(d) == IsLoaded(d.name) /\ bundles[loaded[d.name]].version = d.version

Loaded(D) == {loaded[n]: n \in D}

\* start() is called for each name in D, because o or another one of D needs it.
StartedFor(o, D) ==
  /\ \A n \in D: IsLoaded(n) /\ State(loaded[n]) = "resolved"
  /\ \A n \in D: \E m \in Loaded(D) \cup {o}: \E d \in bundles[m].deps: d.name = n /\ Fits(d)

\* Everything bundle o needs is active once D is.
Startable(o, D) ==
  \A d \in bundles[o].deps: Fits(d) /\ (State(loaded[d.name]) = "active" \/ d.name \in D)

StartsWith(o, D) ==
  /\ IsLoaded(NameOf(o)) /\ StartedFor(o, D)
  /\ \A m \in Loaded(D) \cup {o}: Startable(m, D)

\* The same for resolve(), which takes whatever version is loaded.
ResolvedFor(n, D) ==
  \A d \in D: /\ IsLoaded(d) /\ State(loaded[d]) = "installed"
              /\ \E m \in D \cup {n}: d \in Needs[m]

Resolvable(n, D) ==
  \A d \in Needs[n]: IsLoaded(d) /\ (State(loaded[d]) \in Resolved \/ d \in D)

ResolvesWith(o, D) ==
  ResolvedFor(NameOf(o), D) /\ \A n \in D \cup {NameOf(o)}: Resolvable(n, D)

(***************************************************************************)
(* Bundle::start and BundleLoader::startBundle.                            *)
(***************************************************************************)
Start(t) ==
  LET s == State(target[t]) IN
  /\ At(t, "start") /\ Goes(t, IF s = "resolved" THEN "startMark" ELSE Caught(t, s))
  /\ UNCHANGED <<directoryVars, watching, loaderVars, loaderLock, target, old,
                 watcherVars, mainVars, requests>>

StartMark(t) ==
  /\ At(t, "startMark") /\ Goes(t, "startWork")
  /\ old' = [old EXCEPT ![t] = State(target[t])]
  /\ Becomes(target[t], "starting")
  /\ UNCHANGED <<directoryVars, watching, loaded, classLoader, loaderLock, target,
                 watcherVars, mainVars, requests>>

\* loadActivator, for every name in D.
LoadActivators(D) ==
  [n \in Names |-> IF n \in D /\ classLoader[n] = "none" THEN "ready" ELSE classLoader[n]]

StartSucceeds(t) ==
  LET o == target[t] IN
  \E D \in SUBSET Names:
    /\ StartsWith(o, D)
    /\ bundles' = [i \in DOMAIN bundles |-> IF i \in Loaded(D) \cup {o}
                     THEN [bundles[i] EXCEPT !.state = "active"] ELSE bundles[i]]
    /\ classLoader' = LoadActivators(D \cup {NameOf(o)})
    /\ watching' = (watching \/ (Self \in D \cup {NameOf(o)} /\ classLoader'[Self] = "ready"))
    /\ Goes(t, "idle")

\* Of the bundles in C that start() was called for, those in D have been
\* started before something is missing or fails.  When the library of a bundle
\* cannot be loaded its class loader stays all the same, without activator.
StartFails(t) ==
  LET o == target[t] IN
  \E C \in SUBSET Names: \E D \in SUBSET C:
    /\ Faults \/ ~\E E \in SUBSET Names: StartsWith(o, E)
    /\ StartedFor(o, C) /\ (C # {} => IsLoaded(NameOf(o)))
    /\ \A m \in Loaded(D): Startable(m, D)
    /\ bundles' = [i \in DOMAIN bundles |->
         IF i = o THEN [bundles[i] EXCEPT !.state = old[t]]
         ELSE IF i \in Loaded(D) THEN [bundles[i] EXCEPT !.state = "active"] ELSE bundles[i]]
    /\ \/ classLoader' = LoadActivators(D)
       \/ \E n \in (C \ D) \cup {NameOf(o)}:
            /\ Faults /\ IsLoaded(n) /\ classLoader[n] = "none"
            /\ classLoader' = [LoadActivators(D) EXCEPT ![n] = "empty"]
    /\ watching' = (watching \/ (Self \in D /\ classLoader'[Self] = "ready"))
    /\ Goes(t, Caught(t, old[t]))

StartWork(t) ==
  /\ At(t, "startWork") /\ LoaderFree
  /\ StartSucceeds(t) \/ StartFails(t)
  /\ UNCHANGED <<directoryVars, loaded, loaderLock, target, old, watcherVars, mainVars,
                 requests>>

(***************************************************************************)
(* Bundle::resolve and BundleLoader::resolveBundle.                        *)
(***************************************************************************)
Resolve(t) ==
  LET s == State(target[t]) IN
  /\ At(t, "resolve")
  /\ Goes(t, CASE s = "installed" -> "resolveWork"
               [] s # "installed" /\ t = "watcher" -> "start"
               [] OTHER -> "idle")
  /\ UNCHANGED <<directoryVars, watching, loaderVars, loaderLock, target, old,
                 watcherVars, mainVars, requests>>

ResolveSucceeds(t) ==
  LET o == target[t] IN
  \E D \in SUBSET Names:
    /\ ResolvesWith(o, D)
    /\ bundles' = [i \in DOMAIN bundles |-> IF i \in Loaded(D) \cup {o}
         THEN [bundles[i] EXCEPT !.state = "resolved",
                 !.deps = {PathOf(loaded[d]): d \in Needs[NameOf(i)]}]
         ELSE bundles[i]]
    /\ Goes(t, IF t = "watcher" THEN "start" ELSE "idle")

ResolveFails(t) ==
  LET o == target[t] IN
  \E D \in SUBSET Names:
    /\ Faults \/ ~\E E \in SUBSET Names: ResolvesWith(o, E)
    /\ ResolvedFor(NameOf(o), D) /\ \A n \in D: Resolvable(n, D)
    /\ bundles' = [i \in DOMAIN bundles |->
         IF i = o THEN [bundles[i] EXCEPT !.deps = {}]
         ELSE IF i \in Loaded(D)
         THEN [bundles[i] EXCEPT !.state = "resolved",
                 !.deps = {PathOf(loaded[d]): d \in Needs[NameOf(i)]}]
         ELSE bundles[i]]
    /\ Goes(t, "idle")

ResolveWork(t) ==
  /\ At(t, "resolveWork") /\ LoaderFree
  /\ ResolveSucceeds(t) \/ ResolveFails(t)
  /\ UNCHANGED <<directoryVars, watching, loaded, classLoader, loaderLock, target, old,
                 watcherVars, mainVars, requests>>

-----------------------------------------------------------------------------
(***************************************************************************)
(* The watcher: handleBundleAvailable.                                     *)
(***************************************************************************)
Comes(kind, p) ==
  /\ At("watcher", "idle") /\ watching /\ events # <<>>
  /\ Head(events).kind = kind /\ p = Head(events).path
  /\ events' = Tail(events)

\* The path is ignored, or its name is that of a bundle not to be reloaded.
SkipAvailable(p) ==
  /\ Comes("available", p)
  /\ \/ (p \in ignored \/ p.name = Self) /\ UNCHANGED ignored
     \/ p \notin ignored /\ p.name \in Deferred \ {Self} /\ ignored' = ignored \cup {p}
  /\ UNCHANGED <<files, deployed, deleted, watching, loaderVars, loaderLock, threadVars,
                 watcherVars, mainVars, requests>>

TakeAvailable(p) ==
  /\ Comes("available", p)
  /\ p \notin ignored /\ p.name # Self /\ p.name \notin Deferred
  /\ Goes("watcher", "read") /\ handling' = p /\ goal' = "replace"
  /\ UNCHANGED <<files, ignored, deployed, deleted, watching, loaderVars, loaderLock,
                 target, old, incoming, mainVars, requests>>

\* The file is gone or does not settle.
GiveUpReading ==
  /\ At("watcher", "read") /\ Goes("watcher", "idle")
  /\ UNCHANGED <<directoryVars, watching, loaderVars, loaderLock, target, old,
                 watcherVars, mainVars, requests>>

Read ==
  /\ At("watcher", "read") /\ LoaderFree /\ Len(bundles) < LoadBudget
  /\ files[handling] # NoFile
  /\ incoming' = files[handling] /\ ignored' = ignored \cup {handling}

\* Mutant: the name in the manifest is not compared.
ReadReplacementUnchecked ==
  /\ Read /\ IsLoaded(handling.name)
  /\ target' = [target EXCEPT !["watcher"] = loaded[handling.name]]
  /\ Goes("watcher", "stopIf")
  /\ UNCHANGED <<files, events, deployed, deleted, watching, loaderVars, loaderLock, old,
                 handling, goal, mainVars, requests>>

\* replaceBundle, unless the file cannot be used or holds another bundle that
\* is loaded.
ReadReplacement ==
  /\ Read /\ IsLoaded(handling.name)
  /\ target' = [target EXCEPT !["watcher"] = loaded[handling.name]]
  /\ \/ /\ incoming'.name = handling.name \/ ~IsLoaded(incoming'.name)
        /\ Goes("watcher", "stopIf")
     \/ /\ Faults \/ (incoming'.name # handling.name /\ IsLoaded(incoming'.name))
        /\ Goes("watcher", "idle")
  /\ UNCHANGED <<files, events, deployed, deleted, watching, loaderVars, loaderLock, old,
                 handling, goal, mainVars, requests>>

\* Mutant: the file of a bundle that is loaded is installed like a new one.
ReadNewAlways ==
  /\ Read
  /\ files' = [files EXCEPT ![handling] = NoFile]
  /\ Reports(<<Removed(handling)>>)
  /\ \/ ~IsLoaded(incoming'.name) /\ Goes("watcher", "load")
     \/ (Faults \/ IsLoaded(incoming'.name)) /\ Goes("watcher", "idle")
  /\ UNCHANGED <<deployed, deleted, watching, loaderVars, loaderLock, target, old,
                 handling, goal, mainVars, requests>>

\* The incoming file is removed, and then installBundle may refuse.
ReadNew ==
  /\ Read /\ ~IsLoaded(handling.name)
  /\ files' = [files EXCEPT ![handling] = NoFile]
  /\ Reports(<<Removed(handling)>>)
  /\ \/ ~IsLoaded(incoming'.name) /\ Goes("watcher", "load")
     \/ (Faults \/ IsLoaded(incoming'.name)) /\ Goes("watcher", "idle")
  /\ UNCHANGED <<deployed, deleted, watching, loaderVars, loaderLock, target, old,
                 handling, goal, mainVars, requests>>

\* After the stop: may the bundle be uninstalled, or unloaded, now?
Erase ==
  /\ At("watcher", "erase")
  /\ Goes("watcher", CASE State(target["watcher"]) \notin {"resolved", "installed"} -> "idle"
                       [] goal = "replace" -> "uninstall"
                       [] OTHER -> "unload")
  /\ UNCHANGED <<directoryVars, watching, loaderVars, loaderLock, target, old,
                 watcherVars, mainVars, requests>>

\* Mutant: the entry is not removed but left pointing past the last bundle.
ForgetPastEnd(n) == /\ loaded' = [loaded EXCEPT ![n] = Len(bundles) + 1]
                    /\ classLoader' = [classLoader EXCEPT ![n] = "none"]

Forget(n) == /\ loaded' = [loaded EXCEPT ![n] = 0]
             /\ classLoader' = [classLoader EXCEPT ![n] = "none"]

\* uninstallBundle cannot remove the file; the activator is unloaded by then.
UninstallFails ==
  /\ At("watcher", "uninstall") /\ LoaderFree /\ Faults
  /\ classLoader' = [classLoader EXCEPT ![NameOf(target["watcher"])] = "none"]
  /\ Goes("watcher", "idle")
  /\ UNCHANGED <<directoryVars, watching, bundles, loaded, loaderLock, target, old,
                 watcherVars, mainVars, requests>>

\* uninstallBundle: the old file goes, whether or not its path is ignored.
Uninstall ==
  LET o == target["watcher"] IN
  /\ At("watcher", "uninstall") /\ LoaderFree
  /\ Forget(NameOf(o)) /\ Becomes(o, "uninstalled")
  /\ files' = [files EXCEPT ![PathOf(o)] = NoFile]
  /\ Reports(IF files[PathOf(o)] = NoFile THEN <<>> ELSE <<Removed(PathOf(o))>>)
  /\ Goes("watcher", "load")
  /\ UNCHANGED <<ignored, deployed, deleted, watching, loaderLock, target, old,
                 watcherVars, mainVars, requests>>

\* The temporary file gets its name and the loader takes it; or it is removed,
\* before or after it got its name.
Load ==
  LET o == Len(bundles) + 1 IN
  /\ At("watcher", "load") /\ LoaderFree
  /\ \/ /\ bundles' = Append(bundles, [name |-> incoming.name, version |-> incoming.version,
                                       state |-> "installed", deps |-> {}])
        /\ loaded' = [loaded EXCEPT ![incoming.name] = o]
        /\ target' = [target EXCEPT !["watcher"] = o]
        /\ files' = [files EXCEPT ![incoming] = incoming]
        /\ Reports(<<Available(incoming)>>)
        /\ Goes("watcher", "resolve")
     \/ /\ Faults
        /\ \/ /\ files' = [files EXCEPT ![incoming] = NoFile]
              /\ Reports(<<Available(incoming), Removed(incoming)>>)
           \/ UNCHANGED <<files, events>>
        /\ Goes("watcher", "idle") /\ UNCHANGED <<bundles, loaded, target>>
  /\ UNCHANGED <<ignored, deployed, deleted, watching, classLoader, loaderLock, old,
                 watcherVars, mainVars, requests>>

(***************************************************************************)
(* The watcher: handleBundleRemoved.                                       *)
(***************************************************************************)
\* By its path, or else by the name in the path.
Found(p) ==
  IF \E n \in Names: IsLoaded(n) /\ PathOf(loaded[n]) = p
  THEN loaded[CHOOSE n \in Names: IsLoaded(n) /\ PathOf(loaded[n]) = p]
  ELSE loaded[p.name]

SkipRemoved(p) ==
  /\ Comes("removed", p)
  /\ \/ p \in ignored /\ UNCHANGED ignored
     \/ /\ p \notin ignored /\ LoaderFree
        /\ \/ (Found(p) = 0 \/ p.name = Self) /\ UNCHANGED ignored
           \/ /\ Found(p) # 0 /\ NameOf(Found(p)) \in Deferred \ {Self}
              /\ ignored' = ignored \cup {p}
  /\ UNCHANGED <<files, deployed, deleted, watching, loaderVars, loaderLock, threadVars,
                 watcherVars, mainVars, requests>>

\* Mutant: web interface bundles are removed like others.
TakeRemovedAny(p) ==
  /\ Comes("removed", p) /\ p \notin ignored /\ LoaderFree
  /\ Found(p) # 0 /\ NameOf(Found(p)) # Self
  /\ ignored' = ignored \cup {PathOf(Found(p))}
  /\ target' = [target EXCEPT !["watcher"] = Found(p)] /\ goal' = "remove"
  /\ Goes("watcher", "stopIf")
  /\ UNCHANGED <<files, deployed, deleted, watching, loaderVars, loaderLock, old,
                 handling, incoming, mainVars, requests>>

TakeRemoved(p) ==
  /\ Comes("removed", p) /\ p \notin ignored /\ LoaderFree
  /\ Found(p) # 0 /\ NameOf(Found(p)) \notin Deferred \cup {Self}
  /\ ignored' = ignored \cup {PathOf(Found(p))}
  /\ target' = [target EXCEPT !["watcher"] = Found(p)] /\ goal' = "remove"
  /\ Goes("watcher", "stopIf")
  /\ UNCHANGED <<files, deployed, deleted, watching, loaderVars, loaderLock, old,
                 handling, incoming, mainVars, requests>>

\* unloadBundle leaves the state of the object as it is.
Unload ==
  /\ At("watcher", "unload") /\ LoaderFree
  /\ Forget(NameOf(target["watcher"])) /\ Goes("watcher", "idle")
  /\ UNCHANGED <<directoryVars, watching, bundles, loaderLock, target, old, watcherVars,
                 mainVars, requests>>

-----------------------------------------------------------------------------
(***************************************************************************)
(* The console: manage.json of the configuration page.                     *)
(***************************************************************************)
Request(action, n) ==
  /\ At("console", "idle") /\ LoaderFree
  /\ requests < RequestBudget /\ requests' = requests + 1
  /\ IsLoaded(n)
  /\ target' = [target EXCEPT !["console"] = loaded[n]]
  /\ \/ action \in {"start", "resolve"} /\ Goes("console", action)
     \/ /\ action = "stop"
        /\ \A m \in Names \ {n}: IsLoaded(m) /\ n \in Needs[m] => State(loaded[m]) \notin Started
        /\ Goes("console", "stop")
  /\ UNCHANGED <<directoryVars, watching, loaderVars, loaderLock, old, watcherVars, mainVars>>

-----------------------------------------------------------------------------
(***************************************************************************)
(* Main: OSPSubsystem::uninitialize and BundleLoader::stopAllBundles.      *)
(***************************************************************************)
Terminate ==
  /\ At("main", "run") /\ Goes("main", "list")
  /\ UNCHANGED <<directoryVars, watching, loaderVars, loaderLock, target, old,
                 watcherVars, mainVars, requests>>

List ==
  /\ At("main", "list") /\ LoaderFree
  /\ pending' = {loaded[n]: n \in {m \in Names: IsLoaded(m)}}
  /\ Goes("main", "sort")
  /\ UNCHANGED <<directoryVars, watching, loaderVars, loaderLock, target, old,
                 watcherVars, order, requests>>

\* Bundle o may be placed after the bundles in P.
Placeable(o, P) ==
  State(o) \in Resolved => \A d \in bundles[o].deps: \E p \in P: NameOf(p) = d.name

\* Each place goes to the first bundle by run level that is placeable there.
Sorted(s) ==
  \A i, j \in DOMAIN s:
    LET P == {s[k]: k \in 1 .. i - 1} IN
    /\ i # j => s[i] # s[j]
    /\ Placeable(s[i], P)
    /\ i < j /\ Placeable(s[j], P) => RunLevel[NameOf(s[i])] <= RunLevel[NameOf(s[j])]

\* sortBundles goes round until every bundle is placed.
Sort ==
  LET n == Cardinality(pending) IN
  /\ At("main", "sort")
  /\ \E s \in [1 .. n -> pending]: Sorted(s) /\ order' = [i \in 1 .. n |-> s[n + 1 - i]]
  /\ pending' = {} /\ Goes("main", "next")
  /\ UNCHANGED <<directoryVars, watching, loaderVars, loaderLock, target, old,
                 watcherVars, requests>>

StopNext ==
  /\ At("main", "next")
  /\ \/ /\ order # <<>> /\ order' = Tail(order)
        /\ target' = [target EXCEPT !["main"] = Head(order)] /\ Goes("main", "stopIf")
     \/ order = <<>> /\ Goes("main", "done") /\ UNCHANGED <<order, target>>
  /\ UNCHANGED <<directoryVars, watching, loaderVars, loaderLock, old, watcherVars,
                 pending, requests>>

-----------------------------------------------------------------------------
StopStep(t) == StopIf(t) \/ Stop(t) \/ StopMark(t) \/ StopWork(t) \/ StopWatching(t) \/ Join(t)
StartStep(t) == Start(t) \/ StartMark(t) \/ StartWork(t)
ResolveStep(t) == Resolve(t) \/ ResolveWork(t)

WatcherStep ==
  \/ StopStep("watcher") \/ StartStep("watcher") \/ ResolveStep("watcher")
  \/ \E p \in Paths: \/ SkipAvailable(p) \/ TakeAvailable(p)
                     \/ SkipRemoved(p) \/ TakeRemoved(p)
  \/ GiveUpReading \/ ReadReplacement \/ ReadNew
  \/ Erase \/ Uninstall \/ UninstallFails \/ Load \/ Unload
ConsoleStep == StopStep("console") \/ StartStep("console") \/ ResolveStep("console")
MainStep == StopStep("main") \/ List \/ Sort \/ StopNext
Deployer ==
  \/ \E d \in Deployable: Drop(d)
  \/ \E p \in Paths: Delete(p) \/ Expire(p)

Next ==
  \/ WatcherStep \/ ConsoleStep \/ MainStep \/ Deployer \/ Terminate
  \/ \E action \in {"start", "stop", "resolve"}, n \in Manageable: Request(action, n)

SafetySpec == Init /\ [][Next]_vars

\* A thread that can go on does: the watcher thread and the request handlers
\* run, and so does main once it has been told to terminate.
Spec == SafetySpec /\ WF_vars(WatcherStep) /\ WF_vars(ConsoleStep) /\ WF_vars(MainStep)

-----------------------------------------------------------------------------
(***************************************************************************)
(* Properties                                                              *)
(***************************************************************************)
DirectoryTypes ==
  /\ files \in [Paths -> Contents \cup {NoFile}]
  /\ events \in Seq(Event) /\ ignored \subseteq Paths
  /\ deployed \in Nat /\ deleted \subseteq Paths

LoaderTypes ==
  /\ bundles \in Seq(Bundle)
  /\ loaded \in [Names -> 0 .. Len(bundles)]
  /\ classLoader \in [Names -> {"none", "ready", "empty"}]
  /\ loaderLock \in Threads \cup {"nobody"}

ThreadTypes ==
  /\ pc \in [Threads -> Places] /\ target \in [Threads -> 1 .. Len(bundles)]
  /\ old \in [Threads -> States]

WatcherTypes ==
  handling \in Paths /\ incoming \in Contents /\ goal \in {"replace", "remove"}

MainTypes ==
  /\ pending \subseteq 1 .. Len(bundles) /\ order \in Seq(1 .. Len(bundles))
  /\ requests \in Nat

\* Every variable keeps its type; in particular `loaded', `target' and `order'
\* never name a bundle object that does not exist.
TypeOK == /\ DirectoryTypes /\ watching \in BOOLEAN
          /\ LoaderTypes /\ ThreadTypes /\ WatcherTypes /\ MainTypes

\* A bundle that is loaded is still in the repository, so that the server runs
\* it again after a restart, unless the deployer himself has deleted the file:
\* the removals and renames of a replacement, of a failed one and of an
\* installation from a file with a misleading name never hit another bundle.
RunsWhatIsStored ==
  \A n \in Names: IsLoaded(n) =>
    files[PathOf(loaded[n])] # NoFile \/ PathOf(loaded[n]) \in deleted

\* "Restart the server to apply this update safely.": the watcher never stops,
\* unloads or replaces a web interface bundle or itself, whatever file names
\* and contents the deployer combines.
Untouchable == Deferred \cup {Self}

WatcherSpares ==
  [][/\ \A n \in Untouchable: IsLoaded(n) => loaded'[n] = loaded[n]
     /\ pc'["watcher"] \in {"stop", "stopMark", "stopWork", "erase"} =>
          NameOf(target'["watcher"]) \notin Untouchable]_vars

(***************************************************************************)
(* The inductive invariant of these two: a name is loaded with a bundle    *)
(* of that name, and what the watcher has found out about the bundle it    *)
(* stops, removes or is about to load stays true, because nobody else      *)
(* loads or unloads bundles.                                               *)
(***************************************************************************)
Stopping == {"stopIf", "stop", "stopMark", "stopWork", "join", "erase", "uninstall"}
Installing == {"load", "resolve", "resolveWork", "start", "startMark", "startWork"}

LoadedUnderItsName == \A n \in Names: IsLoaded(n) => NameOf(loaded[n]) = n

WatcherInv ==
  LET o == target["watcher"] IN
  /\ At("watcher", "read") => handling.name \notin Untouchable
  /\ pc["watcher"] \in Installing \cup {"read", "uninstall"} => goal = "replace"
  /\ pc["watcher"] \in Stopping \cup {"unload"} => NameOf(o) \notin Untouchable
  /\ pc["watcher"] \in Stopping /\ goal = "replace" =>
       incoming.name = NameOf(o) \/ ~IsLoaded(incoming.name)
  /\ At("watcher", "load") => ~IsLoaded(incoming.name)

\* What the watcher stops, removes or unloads is what is loaded under its name.
TargetInv ==
  LET o == target["watcher"] IN
  pc["watcher"] \in Stopping \cup {"unload"} => loaded[NameOf(o)] = o

IInv == TypeOK /\ LoadedUnderItsName /\ WatcherInv /\ RunsWhatIsStored /\ TargetInv

(***************************************************************************)
(* The directory as the deployer sees it.                                  *)
(***************************************************************************)
StoredPaths == {p \in Paths: files[p] # NoFile}
Running == [n \in Names |-> IF IsLoaded(n) THEN PathOf(loaded[n]) ELSE NoFile]

Directory == INSTANCE BundleDirectory WITH
  Nothing <- NoFile, stored <- StoredPaths, running <- Running, withdrawn <- deleted

\* Loading, unloading, replacing and removing bundles, with whatever events come,
\* files of misleading names and failures, and in the middle of starts and stops
\* by others, is installing them under free names and retiring them with no file
\* but their own.
ImplementsDirectory == Directory!Spec

\* Once the start of a bundle has succeeded, everything it was resolved to is
\* loaded in that very version and active.
StartedOnItsDependencies ==
  [][\A t \in Threads:
       LET o == target[t] IN
       (/\ At(t, "startWork") /\ pc'[t] # "startWork"
        /\ bundles'[o].state = "active" /\ old[t] # "active") =>
         \A d \in bundles[o].deps:
           /\ IsLoaded(d.name) /\ PathOf(loaded[d.name]) = d
           /\ bundles'[loaded[d.name]].state = "active"]_vars

\* "Upgrades or replaces a bundle": when all is quiet again, nothing was deleted
\* and nobody shuts down, every bundle in the repository is loaded.
Quiet == /\ watching /\ events = <<>> /\ At("main", "run")
         /\ At("console", "idle") /\ At("watcher", "idle")

StoredIsLoaded ==
  Quiet /\ deleted = {} => \A p \in Paths: files[p] = p => IsLoaded(p.name)

\* "At shutdown, OSP ensures that all bundles are shutdown in the correct
\* order.": the shutdown comes to an end.
ShutdownEnds == At("main", "list") ~> (At("main", "done") \/ At("main", "aborted"))
=============================================================================
