--------------------------- MODULE MCBundleHotReload ------------------------
(***************************************************************************)
(* BundleHotReload for TLC: a library bundle, a web interface bundle that  *)
(* needs it, and the watcher's own bundle.                                 *)
(***************************************************************************)
EXTENDS BundleHotReload

MCBootOrder == <<"lib", "ui", "watcher">>
MCNeeds == [n \in {"lib", "ui", "watcher"} |-> IF n = "ui" THEN {"lib"} ELSE {}]
MCNoNeeds == [n \in {"lib", "ui", "watcher"} |-> {}]
MCRunLevel == [n \in {"lib", "ui", "watcher"} |->
                 CASE n = "lib" -> 1 [] n = "ui" -> 2 [] OTHER -> 3]

File(n, v) == [name |-> n, version |-> v]
As(p, c) == [path |-> p, content |-> c]

\* An upgrade (in place, when it comes again), a web interface bundle, and one
\* under another name.
MCDeployable == {As(File("lib", 2), File("lib", 2)),
                 As(File("ui", 2), File("ui", 2)), As(File("lib", 2), File("ui", 2))}
=============================================================================
