----------------------------- MODULE MCComponents ----------------------------
(***************************************************************************)
(* The components that share no state with one another, for TLC.  A        *)
(* behaviour exercises one of them and leaves the others in their initial  *)
(* state: the states of all of them together would only multiply.          *)
(***************************************************************************)
EXTENDS LogStreamLifecycle, VirtualPaths, ServiceListener

CONSTANT Exercised \* which components are exercised
VARIABLE exercised

componentVars == <<exercised, logStreamVars, pathVars, serviceVars>>

ComponentsInit ==
  /\ exercised \in Exercised
  /\ LogStreamInit /\ VirtualPathsInit /\ ServiceListenerInit

ComponentsNext ==
  /\ UNCHANGED exercised
  /\ \/ /\ exercised = "LogStreamLifecycle" /\ LogStreamNext
        /\ UNCHANGED <<pathVars, serviceVars>>
     \/ /\ exercised = "VirtualPaths" /\ VirtualPathsNext
        /\ UNCHANGED <<logStreamVars, serviceVars>>
     \/ /\ exercised = "ServiceListener" /\ ServiceListenerNext
        /\ UNCHANGED <<logStreamVars, pathVars>>

\* In its initial state LogStreamLifecycle has nothing to be fair about.
ComponentsSpec ==
  ComponentsInit /\ [][ComponentsNext]_componentVars /\ LogStreamFairness

-----------------------------------------------------------------------------
\* Mappings of both modes above and below one another, exact ones, and patterns
\* that overlap; /a/b/c/ is three deep.
Root == <<>>
A == <<"a">>
AB == <<"a", "b">>
ABC == <<"a", "b", "c">>
C == <<"c">>
Offer(owner, path, mode, exact) ==
  [owner |-> owner, path |-> path, mode |-> mode, exact |-> exact]
Pattern(owner, covers, methods) == [owner |-> owner, covers |-> covers, methods |-> methods]

MCPaths == {Root, A, AB, ABC, C}
MCPathOffers ==
  { Offer("home", Root, SM_ALL, FALSE), Offer("home", A, SM_OWNER, TRUE),
    Offer("home", AB, SM_NONE, FALSE), Offer("ui", A, SM_ALL, FALSE),
    Offer("ui", AB, SM_OWNER, FALSE), Offer("ui", C, SM_ALL, TRUE),
    Offer("ui", Root, SM_OWNER, FALSE), Offer("x", ABC, SM_ALL, FALSE),
    Offer("x", AB, SM_ALL, TRUE) }
MCPatternOffers ==
  { Pattern("home", {A, AB}, {"GET"}), Pattern("ui", {AB, C}, {}), Pattern("x", {AB}, {"POST"}) }

\* Two bundles offer a service of the same name.
MCNameOf == [a |-> "store", b |-> "store", d |-> "other"]
=============================================================================
