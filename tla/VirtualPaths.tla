----------------------------- MODULE VirtualPaths ----------------------------
(***************************************************************************)
(* The table from which WebServerDispatcher                                *)
(* (src/platform/OSP/Web/src/WebServerDispatcher.cpp) finds who serves a   *)
(* request.  Bundles add virtual paths and patterns when they start, in    *)
(* any order, and lose them when they stop.  A path is the sequence of its *)
(* segments; /a/b/ lies under /a/ and under /.                             *)
(***************************************************************************)
EXTENDS Naturals, SequencesExt

CONSTANTS
  Paths,           \* the paths of mappings and requests
  Methods,         \* GET, POST, ...
  PathOffers,      \* [owner, path, mode, exact]: extensions with a path
  PatternOffers    \* [owner, covers, methods]: extensions with a pattern

\* SpecializationMode: who may map a path below.
SM_NONE == 0
SM_OWNER == 1
SM_ALL == 2

Mapping == [owner: STRING, mode: {SM_NONE, SM_OWNER, SM_ALL}, exact: BOOLEAN]
NotMapped == [owner |-> "nobody", mode |-> SM_NONE, exact |-> FALSE]

ASSUME PathsAssumption ==
  /\ Paths \subseteq Seq(STRING)
  /\ \A e \in PathOffers: /\ e.path \in Paths /\ e.owner # "nobody"
                          /\ [owner |-> e.owner, mode |-> e.mode, exact |-> e.exact] \in Mapping
  /\ \A e \in PatternOffers: /\ e.covers \subseteq Paths /\ e.methods \subseteq Methods
                             /\ e.owner # "nobody"

VARIABLES
  pathMap,     \* _pathMap: path -> mapping, or NotMapped
  patternVec,  \* _patternVec
  handled      \* the extensions handled since their bundles have started

pathVars == <<pathMap, patternVec, handled>>

PathOwners == {e.owner: e \in PathOffers \cup PatternOffers}
Mapped(p) == pathMap[p] # NotMapped
Under(p, q) == IsPrefix(q, p) /\ p # q

VirtualPathsInit == /\ pathMap = [p \in Paths |-> NotMapped]
                    /\ patternVec = <<>> /\ handled = {}

-----------------------------------------------------------------------------
\* What addVirtualPath throws for: a mapping above, or of the path itself ...
ProtectedAbove(e) ==
  \E q \in Paths:
    /\ Mapped(q) /\ (q = e.path \/ Under(e.path, q))
    /\ \/ q = e.path
       \/ pathMap[q].mode < e.mode \/ pathMap[q].mode = SM_NONE
       \/ pathMap[q].mode = SM_OWNER /\ pathMap[q].owner # e.owner

\* ... and a mapping below, which may have come first.
ProtectedBelow(e) ==
  \E p \in Paths:
    /\ Mapped(p) /\ Under(p, e.path)
    /\ \/ pathMap[p].mode > e.mode \/ e.mode = SM_NONE
       \/ e.mode = SM_OWNER /\ pathMap[p].owner # e.owner

\* Mutant: only what is above is looked at.
AddVirtualPathFromAbove(e) ==
  /\ e \notin handled /\ handled' = handled \cup {e}
  /\ ~ProtectedAbove(e)
  /\ pathMap' = [pathMap EXCEPT ![e.path] =
                   [owner |-> e.owner, mode |-> e.mode, exact |-> e.exact]]
  /\ UNCHANGED patternVec

AddVirtualPath(e) ==
  /\ e \notin handled /\ handled' = handled \cup {e}
  /\ ~ProtectedAbove(e) /\ ~ProtectedBelow(e)
  /\ pathMap' = [pathMap EXCEPT ![e.path] =
                   [owner |-> e.owner, mode |-> e.mode, exact |-> e.exact]]
  /\ UNCHANGED patternVec

\* The exception is logged; the bundle goes without that path.
RefuseVirtualPath(e) ==
  /\ e \notin handled /\ handled' = handled \cup {e}
  /\ ProtectedAbove(e) \/ ProtectedBelow(e)
  /\ UNCHANGED <<pathMap, patternVec>>

AddPattern(e) ==
  /\ e \notin handled /\ handled' = handled \cup {e}
  /\ patternVec' = Append(patternVec, e)
  /\ UNCHANGED pathMap

\* The loop that erases the patterns of a bundle, as a recursive function: what is
\* left of the first i of them.
Without(patterns, b) ==
  LET left[i \in 0..Len(patterns)] ==
        IF i = 0 THEN <<>>
        ELSE IF patterns[i].owner = b THEN left[i - 1]
        ELSE Append(left[i - 1], patterns[i])
  IN  left[Len(patterns)]

\* Mutant: patterns are cleared but not erased.
RemoveBundleLeavingHoles(b) ==
  /\ pathMap' = [p \in Paths |-> IF pathMap[p].owner = b THEN NotMapped ELSE pathMap[p]]
  /\ patternVec' = [i \in DOMAIN patternVec |->
                      IF patternVec[i].owner = b THEN NotMapped ELSE patternVec[i]]
  /\ handled' = {e \in handled: e.owner # b}

\* Mutant: with a mapping go those below it.
RemoveBundleAndBelow(b) ==
  /\ pathMap' = [p \in Paths |->
                   IF \E q \in Paths: pathMap[q].owner = b /\ (p = q \/ Under(p, q))
                   THEN NotMapped ELSE pathMap[p]]
  /\ patternVec' = Without(patternVec, b)
  /\ handled' = {e \in handled: e.owner # b}

\* bundleStopping.
RemoveBundle(b) ==
  /\ pathMap' = [p \in Paths |-> IF pathMap[p].owner = b THEN NotMapped ELSE pathMap[p]]
  /\ patternVec' = Without(patternVec, b)
  /\ handled' = {e \in handled: e.owner # b}

VirtualPathsNext ==
  \/ \E e \in PathOffers: AddVirtualPath(e) \/ RefuseVirtualPath(e)
  \/ \E e \in PatternOffers: AddPattern(e)
  \/ \E b \in PathOwners: RemoveBundle(b)

VirtualPathsSpec == VirtualPathsInit /\ [][VirtualPathsNext]_pathVars

-----------------------------------------------------------------------------
\* mapPath: patterns go before paths.  The first pattern that matches is taken,
\* but for a later one that also accepts the method.
Accepts(i, m) == patternVec[i].methods = {} \/ m \in patternVec[i].methods
PatternFor(path, m) ==
  LET matching == {i \in DOMAIN patternVec: path \in patternVec[i].covers}
      better == {i \in matching \ {Min(matching)}: Accepts(i, m)}
  IN  IF matching = {} THEN 0
      ELSE IF better = {} THEN Min(matching) ELSE Max(better)

\* Mutant: the loop ends at the first mapping it finds.
FoundFirst(path) ==
  LET mapped == {i \in 0..Len(path): SubSeq(path, 1, i) \in Paths /\ Mapped(SubSeq(path, 1, i))}
  IN  IF mapped = {} THEN NotMapped ELSE pathMap[SubSeq(path, 1, Min(mapped))]

\* The loop from the root down to the path: what it has found after i segments.
FoundIn(path) ==
  LET found[i \in 0..Len(path)] ==
        IF SubSeq(path, 1, i) \in Paths /\ Mapped(SubSeq(path, 1, i))
        THEN pathMap[SubSeq(path, 1, i)]
        ELSE IF i = 0 THEN NotMapped ELSE found[i - 1]
  IN  found[Len(path)]

MapPath(path, m) ==
  IF PatternFor(path, m) # 0 THEN patternVec[PatternFor(path, m)]
  ELSE IF FoundIn(path).exact /\ ~Mapped(path) THEN NotMapped
  ELSE FoundIn(path)

-----------------------------------------------------------------------------
VirtualPathsTypeOK == /\ pathMap \in [Paths -> Mapping \cup {NotMapped}]
                      /\ patternVec \in Seq(PatternOffers)
                      /\ handled \subseteq PathOffers \cup PatternOffers

\* What a bundle has said about the paths below its own holds, whichever of the
\* two bundles came first (01000-OSPWeb.page: none, owner, all).
SpecializationHolds ==
  \A p, q \in Paths: Mapped(p) /\ Mapped(q) /\ Under(p, q) =>
    /\ pathMap[q].mode # SM_NONE
    /\ pathMap[q].mode = SM_OWNER => pathMap[p].owner = pathMap[q].owner
    /\ pathMap[p].mode <= pathMap[q].mode

\* Without a pattern for it, a request is served by the deepest mapping above it
\* (or by nobody, if that wants an exact match).
ServedByTheDeepest ==
  \A path \in Paths, m \in Methods:
    LET above == {q \in Paths: Mapped(q) /\ (q = path \/ Under(path, q))}
    IN  PatternFor(path, m) = 0 =>
          \/ above = {} /\ MapPath(path, m) = NotMapped
          \/ \E q \in above:
               /\ \A o \in above: o = q \/ Under(q, o)
               /\ MapPath(path, m) =
                    IF pathMap[q].exact /\ q # path THEN NotMapped ELSE pathMap[q]

\* When a bundle stops, requests that others serve are served by them still, and
\* it serves none itself.
OthersGoOnServing ==
  [][\A b \in PathOwners: handled' # handled /\ RemoveBundle(b) =>
       \A path \in Paths, m \in Methods:
         /\ MapPath(path, m)'.owner # b
         /\ MapPath(path, m).owner \notin {b, "nobody"} =>
              MapPath(path, m)' = MapPath(path, m)]_pathVars
=============================================================================
