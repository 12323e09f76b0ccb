--------------------------- MODULE BundleDirectory ---------------------------
(***************************************************************************)
(* What whoever deploys bundles is promised about the repository directory *)
(* and the bundles that run.  One bundle runs under a name, and its file   *)
(* is in the directory when it begins to run; the server removes the file  *)
(* of a bundle only together with that bundle, and any other file only if  *)
(* nobody runs from it; some bundles it never takes away.  BundleHotReload *)
(* implements this specification with bundle objects, events and threads.  *)
(***************************************************************************)
CONSTANTS
  Names,        \* the names of bundles
  Paths,        \* of their files: records with the name of the bundle
  Untouchable,  \* the names of bundles that need a restart of the server
  Nothing       \* what runs under a name when nothing does

VARIABLES
  stored,       \* the paths at which there is a file
  running,      \* name -> the path of the bundle that is loaded, or Nothing
  withdrawn     \* the paths the deployer has deleted

directory == <<stored, running, withdrawn>>

\* The server has been started with a file for each bundle it runs.
Init ==
  /\ stored \subseteq Paths /\ running \in [Names -> stored] /\ withdrawn = {}
  /\ \A n \in Names: running[n].name = n

\* The deployer copies a file into the directory, or deletes one, in use or not.
Deploy(p) == stored' = stored \cup {p} /\ UNCHANGED <<running, withdrawn>>

Withdraw(p) == /\ p \in stored /\ stored' = stored \ {p}
               /\ withdrawn' = withdrawn \cup {p} /\ UNCHANGED running

\* The server removes a file that no bundle runs from.
Tidy(p) == /\ \A n \in Names: running[n] # p
           /\ stored' = stored \ {p} /\ UNCHANGED <<running, withdrawn>>

\* A bundle is loaded under a name that is free, and its file is there.
Install(p) == /\ running[p.name] = Nothing
              /\ running' = [running EXCEPT ![p.name] = p]
              /\ stored' = stored \cup {p} /\ UNCHANGED withdrawn

\* A bundle is unloaded; only its own file may go with it.
Retire(n) == /\ n \notin Untouchable /\ running[n] # Nothing
             /\ running' = [running EXCEPT ![n] = Nothing]
             /\ stored' \in {stored, stored \ {running[n]}} /\ UNCHANGED withdrawn

Next == \/ \E p \in Paths: Deploy(p) \/ Withdraw(p) \/ Tidy(p) \/ Install(p)
        \/ \E n \in Names: Retire(n)

Spec == Init /\ [][Next]_directory
=============================================================================
