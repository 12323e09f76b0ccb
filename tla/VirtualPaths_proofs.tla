------------------------- MODULE VirtualPaths_proofs -------------------------
(***************************************************************************)
(* Whichever bundle starts first: the table of paths respects what every   *)
(* bundle has said about the paths below its own, a request is served by   *)
(* the deepest mapping above it, and a bundle that stops takes nothing     *)
(* with it that another one serves.  The loops of the code are recursive   *)
(* functions; what they compute is proved for every table and list, by an  *)
(* induction over a set of numbers that rests on finite sets only.         *)
(***************************************************************************)
EXTENDS VirtualPaths, FiniteSetTheorems, TLAPS

\* The paths of the table, whose patterns do not matter here.
PathMapOK == pathMap \in [Paths -> Mapping \cup {NotMapped}]

-----------------------------------------------------------------------------
\* Before a bundle has come there is nothing to respect.
LEMMA InitPaths == VirtualPathsInit => PathMapOK /\ SpecializationHolds
BY DEF VirtualPathsInit, PathMapOK, SpecializationHolds, Mapped

\* The new mapping is on one side of a pair or on the other, never on both; what
\* addVirtualPath does not throw for is what the pair has to satisfy.
LEMMA AddKeeps ==
  ASSUME NEW e \in PathOffers, PathMapOK, SpecializationHolds, AddVirtualPath(e)
  PROVE  PathMapOK' /\ SpecializationHolds'
<1> DEFINE new == [owner |-> e.owner, mode |-> e.mode, exact |-> e.exact]
<1>1. /\ e.path \in Paths /\ new \in Mapping
      /\ pathMap' = [pathMap EXCEPT ![e.path] = new]
  BY PathsAssumption DEF AddVirtualPath
<1>2. PathMapOK'
  BY <1>1 DEF PathMapOK
<1>3. ASSUME NEW p \in Paths, NEW q \in Paths, Mapped(p)', Mapped(q)', Under(p, q)
      PROVE  /\ pathMap'[q].mode # SM_NONE
             /\ pathMap'[q].mode = SM_OWNER => pathMap'[p].owner = pathMap'[q].owner
             /\ pathMap'[p].mode <= pathMap'[q].mode
  <2>1. CASE p = e.path
    <3>1. q # e.path
      BY <1>3, <2>1 DEF Under
    <3>2. Mapped(q) /\ pathMap'[q] = pathMap[q] /\ pathMap'[p] = new
      BY <1>1, <1>3, <2>1, <3>1 DEF PathMapOK, Mapped
    <3>3. ~(\/ pathMap[q].mode < e.mode \/ pathMap[q].mode = SM_NONE
            \/ pathMap[q].mode = SM_OWNER /\ pathMap[q].owner # e.owner)
      BY <1>3, <2>1, <3>2, Zenon DEF AddVirtualPath, ProtectedAbove
    <3>4. pathMap[q].mode \in 0..2 /\ e.mode \in 0..2
      BY <1>1, <3>2 DEF PathMapOK, Mapped, Mapping, SM_NONE, SM_OWNER, SM_ALL
    <3>. QED BY <3>2, <3>3, <3>4
  <2>2. CASE p # e.path /\ q = e.path
    <3>1. Mapped(p) /\ pathMap'[p] = pathMap[p] /\ pathMap'[q] = new
      BY <1>1, <1>3, <2>2 DEF PathMapOK, Mapped
    <3>2. ~(\/ pathMap[p].mode > e.mode \/ e.mode = SM_NONE
            \/ e.mode = SM_OWNER /\ pathMap[p].owner # e.owner)
      BY <1>3, <2>2, <3>1, Zenon DEF AddVirtualPath, ProtectedBelow
    <3>3. pathMap[p].mode \in 0..2 /\ e.mode \in 0..2
      BY <1>1, <3>1 DEF PathMapOK, Mapped, Mapping, SM_NONE, SM_OWNER, SM_ALL
    <3>. QED BY <3>1, <3>2, <3>3
  <2>3. CASE p # e.path /\ q # e.path
    <3>1. /\ Mapped(p) /\ Mapped(q)
          /\ pathMap'[p] = pathMap[p] /\ pathMap'[q] = pathMap[q]
      BY <1>1, <1>3, <2>3 DEF PathMapOK, Mapped
    <3>. QED BY <1>3, <3>1, Zenon DEF SpecializationHolds
  <2>. QED BY <2>1, <2>2, <2>3
<1>. QED BY <1>2, <1>3, Zenon DEF SpecializationHolds, Under

\* Mappings only go.
LEMMA RemoveKeeps ==
  ASSUME NEW b, PathMapOK, SpecializationHolds, RemoveBundle(b)
  PROVE  PathMapOK' /\ SpecializationHolds'
<1>1. \A p \in Paths: pathMap'[p] = IF pathMap[p].owner = b THEN NotMapped ELSE pathMap[p]
  BY DEF RemoveBundle
<1>2. PathMapOK'
  BY DEF RemoveBundle, PathMapOK
<1>3. \A p \in Paths: Mapped(p)' => Mapped(p) /\ pathMap'[p] = pathMap[p]
  BY <1>1, Zenon DEF Mapped
<1>. QED BY <1>2, <1>3, Zenon DEF SpecializationHolds, Under
-----------------------------------------------------------------------------
\* Every mapping respects every mapping above it, in whichever order bundles have
\* started and stopped (WebServerDispatcher::addVirtualPath, removeBundle).
THEOREM SpecializationRespected == VirtualPathsSpec => []SpecializationHolds
<1>1. PathMapOK /\ SpecializationHolds /\ [VirtualPathsNext]_pathVars
        => PathMapOK' /\ SpecializationHolds'
  <2> SUFFICES ASSUME PathMapOK, SpecializationHolds, [VirtualPathsNext]_pathVars
               PROVE  PathMapOK' /\ SpecializationHolds'
    OBVIOUS
  <2>1. ASSUME UNCHANGED pathMap PROVE PathMapOK' /\ SpecializationHolds'
    BY <2>1 DEF PathMapOK, SpecializationHolds, Mapped
  <2>2. ASSUME NEW e \in PathOffers, AddVirtualPath(e)
        PROVE  PathMapOK' /\ SpecializationHolds'
    BY <2>2, AddKeeps
  <2>3. ASSUME NEW e \in PathOffers, RefuseVirtualPath(e)
        PROVE  PathMapOK' /\ SpecializationHolds'
    BY <2>1, <2>3 DEF RefuseVirtualPath
  <2>4. ASSUME NEW e \in PatternOffers, AddPattern(e)
        PROVE  PathMapOK' /\ SpecializationHolds'
    BY <2>1, <2>4 DEF AddPattern
  <2>5. ASSUME NEW b \in PathOwners, RemoveBundle(b)
        PROVE  PathMapOK' /\ SpecializationHolds'
    BY <2>5, RemoveKeeps
  <2>. QED BY <2>1, <2>2, <2>3, <2>4, <2>5, Zenon DEF VirtualPathsNext, pathVars
<1>. QED BY InitPaths, <1>1, PTL DEF VirtualPathsSpec
-----------------------------------------------------------------------------
\* Induction over numbers, for a set of them.
LEMMA Induction ==
  ASSUME NEW S, 0 \in S, \A n \in Nat: n \in S => n + 1 \in S
  PROVE  \A m \in Nat: m \in S
<1> SUFFICES ASSUME NEW m \in Nat, m \notin S PROVE FALSE
  OBVIOUS
<1> DEFINE A == {n \in 0..m: \A k \in 0..n: k \in S}
           next == [n \in A |-> n + 1]
<1>1. A \subseteq 0..m /\ 0 \in A
  OBVIOUS
<1>2. \A n \in A: n + 1 \in A
  <2> TAKE n \in A
  <2>1. n \in 0..m /\ n # m /\ n \in S
    OBVIOUS
  <2>2. n + 1 \in S /\ n + 1 \in 0..m
    BY <2>1
  <2>3. \A k \in 0..(n + 1): k \in 0..n \/ k = n + 1
    BY <2>1
  <2>. QED BY <2>2, <2>3
<1>3. IsFiniteSet(A)
  <2>1. IsFiniteSet(0..m)
    BY FS_Interval
  <2>. QED BY <1>1, <2>1, FS_Subset
<1>4. next \in Injection(A, A)
  BY <1>1, <1>2 DEF Injection, IsInjective
<1>5. next \in Surjection(A, A)
  BY <1>3, <1>4, FS_Injection
<1>6. \A n \in A: next[n] # 0
  BY <1>1
<1>. QED BY <1>1, <1>5, <1>6 DEF Surjection

\* A set of numbers has a least one, and a greatest one if it is bounded.
LEMMA LeastOf ==
  ASSUME NEW S \in SUBSET Nat, S # {}
  PROVE  Min(S) \in S /\ \A n \in S: Min(S) <= n
<1>1. \E m \in S: \A n \in S: m <= n
  <2> SUFFICES ASSUME \A m \in S: \E n \in S: n < m PROVE FALSE
    OBVIOUS
  <2> DEFINE T == {m \in Nat: \A n \in 0..m: n \notin S}
  <2>1. 0 \in T
    OBVIOUS
  <2>2. \A m \in Nat: m \in T => m + 1 \in T
    <3> TAKE m \in Nat
    <3> HAVE m \in T
    <3>1. \A n \in 0..(m + 1): n \in 0..m \/ n = m + 1
      OBVIOUS
    <3>2. m + 1 \notin S
      OBVIOUS
    <3>. QED BY <3>1, <3>2
  <2> HIDE DEF T
  <2>3. \A m \in Nat: m \in T
    BY <2>1, <2>2, Induction
  <2>4. PICK m \in S: TRUE
    OBVIOUS
  <2>5. m \in Nat /\ m \in T
    BY <2>3
  <2>6. m \notin S
    BY <2>5 DEF T
  <2>. QED BY <2>6
<1>. QED BY <1>1 DEF Min

\* The greatest one of S is as far below the bound as the least of the distances.
LEMMA GreatestOf ==
  ASSUME NEW S \in SUBSET Nat, S # {}, NEW bound \in Nat, \A n \in S: n <= bound
  PROVE  Max(S) \in S /\ \A n \in S: n <= Max(S)
<1> DEFINE T == {bound - n: n \in S}
<1>1. T \in SUBSET Nat /\ T # {}
  <2>1. \A n \in S: bound - n \in Nat
    OBVIOUS
  <2>. QED BY <2>1
<1>2. Min(T) \in T /\ \A n \in T: Min(T) <= n
  BY <1>1, LeastOf
<1>3. PICK m \in S: Min(T) = bound - m
  BY <1>2
<1>4. \A n \in S: n <= m
  <2> TAKE n \in S
  <2>1. bound - n \in T
    OBVIOUS
  <2>2. bound - m <= bound - n
    BY <1>2, <1>3, <2>1
  <2>. QED BY <2>2
<1>. QED BY <1>4 DEF Max

-----------------------------------------------------------------------------
\* What is left of the first n patterns of s: those that are not b's, in order.
LeftOf(w, s, n, b) ==
  \E at \in [1..Len(w) -> 1..n]:
    /\ \A j, k \in 1..Len(w): j < k => at[j] < at[k]
    /\ \A j \in 1..Len(w): w[j] = s[at[j]] /\ s[at[j]].owner # b
    /\ \A i \in 1..n: s[i].owner # b => \E j \in 1..Len(w): at[j] = i

\* The loop of removeBundle keeps all the patterns of the others, in order.
LEMMA WithoutKeepsOthers ==
  ASSUME NEW P, NEW s \in Seq(P), NEW b
  PROVE  Without(s, b) \in Seq(P) /\ LeftOf(Without(s, b), s, Len(s), b)
<1> DEFINE Body(g, i) == IF i = 0 THEN <<>>
                         ELSE IF s[i].owner = b THEN g[i - 1]
                         ELSE Append(g[i - 1], s[i])
           IsLeft(g, n) == g = [i \in 0..n |-> Body(g, i)]
           F == CHOOSE left: IsLeft(left, Len(s))
<1>0. Len(s) \in Nat /\ \A i \in 1..Len(s): s[i] \in P
  OBVIOUS
<1>1. Without(s, b) = F[Len(s)]
  BY DEF Without
<1>2. IsLeft(F, Len(s))
  <2> DEFINE S == {n \in Nat: n <= Len(s) => \E g: IsLeft(g, n)}
  <2>1. 0 \in S
    <3>1. IsLeft([i \in 0..0 |-> <<>>], 0)
      OBVIOUS
    <3>. QED BY <3>1
  <2>2. ASSUME NEW n \in Nat, n \in S, n + 1 <= Len(s)
        PROVE  \E g: IsLeft(g, n + 1)
    <3>0. n <= Len(s)
      BY <1>0, <2>2
    <3>1. PICK g: IsLeft(g, n)
      BY <2>2, <3>0, Zenon
    <3> DEFINE h == [i \in 0..(n + 1) |-> IF i = n + 1 THEN Body(g, i) ELSE g[i]]
    <3>2. \A i \in 0..n: h[i] = g[i] /\ g[i] = Body(g, i)
      <4> TAKE i \in 0..n
      <4>1. i \in 0..(n + 1) /\ i # n + 1
        OBVIOUS
      <4>2. h[i] = g[i]
        BY <4>1
      <4>3. g[i] = [k \in 0..n |-> Body(g, k)][i]
        BY <3>1, Zenon
      <4>. QED BY <4>2, <4>3, Zenon
    <3>3. \A i \in 0..(n + 1): h[i] = Body(h, i)
      <4> TAKE i \in 0..(n + 1)
      <4>1. i = 0 \/ i - 1 \in 0..n
        OBVIOUS
      <4>2. i # 0 => h[i - 1] = g[i - 1]
        BY <3>2, <4>1
      <4>3. Body(h, i) = Body(g, i)
        BY <4>2
      <4>4. h[i] = Body(g, i)
        <5>1. CASE i = n + 1
          BY <5>1, Zenon
        <5>2. CASE i \in 0..n
          BY <3>2, <5>2, Zenon
        <5>. QED BY <5>1, <5>2
      <4>. QED BY <4>3, <4>4
    <3>4. h = [i \in 0..(n + 1) |-> Body(h, i)]
      BY <3>3
    <3>. QED BY <3>4
  <2>3. \A n \in Nat: n \in S => n + 1 \in S
    <3> TAKE n \in Nat
    <3> HAVE n \in S
    <3>1. n + 1 <= Len(s) => \E g: IsLeft(g, n + 1)
      BY <2>2, Zenon
    <3>2. n + 1 \in Nat
      OBVIOUS
    <3>. QED BY <3>1, <3>2, Zenon
  <2> HIDE DEF S
  <2>4. Len(s) \in S
    BY <1>0, <2>1, <2>3, Induction
  <2>5. \E g: IsLeft(g, Len(s))
    BY <1>0, <2>4 DEF S
  <2> HIDE DEF IsLeft
  <2>. QED BY <2>5
<1> HIDE DEF F
<1>3. \A i \in 0..Len(s): F[i] = Body(F, i)
  BY <1>2
<1> DEFINE S == {n \in Nat: n <= Len(s) => F[n] \in Seq(P) /\ LeftOf(F[n], s, n, b)}
<1>4. 0 \in S
  <2>1. F[0] = <<>>
    BY <1>0, <1>3
  <2>2. LeftOf(<<>>, s, 0, b)
    <3> DEFINE none == [j \in 1..0 |-> 0]
    <3>1. none \in [1..Len(<<>>) -> 1..0] /\ 1..0 = {} /\ Len(<<>>) = 0
      OBVIOUS
    <3> HIDE DEF none
    <3>. QED BY <3>1 DEF LeftOf
  <2>3. <<>> \in Seq(P)
    OBVIOUS
  <2>. QED BY <2>1, <2>2, <2>3, 0 \in Nat, Zenon
<1>5. \A n \in Nat: n \in S => n + 1 \in S
  <2> SUFFICES ASSUME NEW n \in Nat, n \in S, n + 1 <= Len(s)
               PROVE  F[n + 1] \in Seq(P) /\ LeftOf(F[n + 1], s, n + 1, b)
    OBVIOUS
  <2> DEFINE w == F[n]
  <2>1. w \in Seq(P) /\ LeftOf(w, s, n, b) /\ Len(w) \in Nat /\ s[n + 1] \in P
    BY <1>0
  <2>2. F[n + 1] = IF s[n + 1].owner = b THEN w ELSE Append(w, s[n + 1])
    BY <1>0, <1>3
  <2> HIDE DEF w
  <2>3. PICK at \in [1..Len(w) -> 1..n]:
               /\ \A j, k \in 1..Len(w): j < k => at[j] < at[k]
               /\ \A j \in 1..Len(w): w[j] = s[at[j]] /\ s[at[j]].owner # b
               /\ \A i \in 1..n: s[i].owner # b => \E j \in 1..Len(w): at[j] = i
    BY <2>1 DEF LeftOf
  <2>4. \A i \in 1..(n + 1): i \in 1..n \/ i = n + 1
    OBVIOUS
  <2>5. CASE s[n + 1].owner = b
    <3>1. at \in [1..Len(w) -> 1..(n + 1)]
      BY <2>3
    <3>2. LeftOf(w, s, n + 1, b)
      BY <2>3, <2>4, <2>5, <3>1 DEF LeftOf
    <3>. QED BY <2>1, <2>2, <2>5, <3>2
  <2>6. CASE s[n + 1].owner # b
    <3> DEFINE v == Append(w, s[n + 1])
               to == [j \in 1..(Len(w) + 1) |-> IF j = Len(w) + 1 THEN n + 1 ELSE at[j]]
    <3>1. /\ v \in Seq(P) /\ Len(v) = Len(w) + 1 /\ v[Len(w) + 1] = s[n + 1]
          /\ \A j \in 1..Len(w): v[j] = w[j]
      BY <2>1
    <3>2. \A j \in 1..(Len(w) + 1): j \in 1..Len(w) \/ j = Len(w) + 1
      BY <2>1
    <3>3. \A j \in 1..Len(w): to[j] = at[j] /\ at[j] \in 1..n
      BY <2>1, <2>3
    <3>4. to[Len(w) + 1] = n + 1 /\ to \in [1..Len(v) -> 1..(n + 1)]
      BY <2>1, <2>3, <3>1, <3>2
    <3> HIDE DEF v, to
    <3>5. \A j, k \in 1..Len(v): j < k => to[j] < to[k]
      <4> TAKE j, k \in 1..Len(v)
      <4> HAVE j < k
      <4>0. j \in 1..(Len(w) + 1) /\ k \in 1..(Len(w) + 1)
        BY <3>1
      <4>1. j \in 1..Len(w) /\ (k \in 1..Len(w) \/ k = Len(w) + 1)
        BY <2>1, <3>2, <4>0
      <4>. QED BY <2>3, <3>3, <3>4, <4>1
    <3>6. \A j \in 1..Len(v): v[j] = s[to[j]] /\ s[to[j]].owner # b
      BY <2>1, <2>3, <2>6, <3>1, <3>2, <3>3, <3>4
    <3>7. \A i \in 1..(n + 1): s[i].owner # b => \E j \in 1..Len(v): to[j] = i
      <4> TAKE i \in 1..(n + 1)
      <4> HAVE s[i].owner # b
      <4>1. CASE i = n + 1
        BY <2>1, <3>1, <3>4, <4>1
      <4>2. CASE i \in 1..n
        <5>1. PICK j \in 1..Len(w): at[j] = i
          BY <2>3, <4>2
        <5>. QED BY <2>1, <3>1, <3>3, <5>1
      <4>. QED BY <2>4, <4>1, <4>2
    <3>8. LeftOf(v, s, n + 1, b)
      BY <3>4, <3>5, <3>6, <3>7 DEF LeftOf
    <3>. QED BY <2>2, <2>6, <3>1, <3>8 DEF v
  <2>. QED BY <2>5, <2>6
<1> HIDE DEF S
<1>6. Len(s) \in S
  BY <1>0, <1>4, <1>5, Induction
<1>. QED BY <1>0, <1>1, <1>6 DEF S

-----------------------------------------------------------------------------
\* What mapPath chooses among the patterns v: nothing that accepts the method comes
\* later, and it is the first that matches or accepts the method itself.
AcceptsIn(v, i, m) == v[i].methods = {} \/ m \in v[i].methods
MatchingIn(v, path) == {i \in DOMAIN v: path \in v[i].covers}
ChosenIn(v, path, m) ==
  LET matching == MatchingIn(v, path)
      better == {i \in matching \ {Min(matching)}: AcceptsIn(v, i, m)}
  IN  IF matching = {} THEN 0
      ELSE IF better = {} THEN Min(matching) ELSE Max(better)

IsChosen(v, path, m, c) ==
  /\ c \in MatchingIn(v, path)
  /\ \A i \in MatchingIn(v, path): i > c => ~AcceptsIn(v, i, m)
  /\ AcceptsIn(v, c, m) \/ \A i \in MatchingIn(v, path): c <= i

\* The choice of mapPath is such a pattern, and there is only one.
LEMMA ChosenPattern ==
  ASSUME NEW P, NEW v \in Seq(P), NEW path, NEW m
  PROVE  /\ MatchingIn(v, path) = {} => ChosenIn(v, path, m) = 0
         /\ MatchingIn(v, path) # {} =>
              IsChosen(v, path, m, ChosenIn(v, path, m)) /\ ChosenIn(v, path, m) # 0
         /\ \A c: IsChosen(v, path, m, c) => ChosenIn(v, path, m) = c
<1> DEFINE matching == MatchingIn(v, path)
           better == {i \in matching \ {Min(matching)}: AcceptsIn(v, i, m)}
           chosen == ChosenIn(v, path, m)
<1>1. matching \in SUBSET (1..Len(v)) /\ Len(v) \in Nat /\ matching \in SUBSET Nat
  BY DEF MatchingIn
<1>2. chosen = IF matching = {} THEN 0
               ELSE IF better = {} THEN Min(matching) ELSE Max(better)
  BY DEF ChosenIn
<1>3. ASSUME matching # {} PROVE IsChosen(v, path, m, chosen) /\ chosen # 0
  <2>1. Min(matching) \in matching /\ \A i \in matching: Min(matching) <= i
    BY <1>1, <1>3, LeastOf
  <2>2. CASE better = {}
    <3>1. chosen = Min(matching)
      BY <1>2, <1>3, <2>2
    <3>2. \A i \in matching: i > chosen => ~AcceptsIn(v, i, m)
      BY <1>1, <2>1, <2>2, <3>1
    <3>. QED BY <1>1, <2>1, <3>1, <3>2 DEF IsChosen
  <2>3. CASE better # {}
    <3>1. better \in SUBSET Nat /\ \A i \in better: i <= Len(v)
      BY <1>1
    <3>2. Max(better) \in better /\ \A i \in better: i <= Max(better)
      BY <1>1, <2>3, <3>1, GreatestOf
    <3>3. chosen = Max(better)
      BY <1>2, <1>3, <2>3
    <3>4. chosen \in matching /\ chosen # Min(matching) /\ AcceptsIn(v, chosen, m)
      BY <3>2, <3>3
    <3>5. ASSUME NEW i \in matching, i > chosen, AcceptsIn(v, i, m) PROVE FALSE
      <4>1. i # Min(matching)
        BY <1>1, <2>1, <3>4, <3>5
      <4>2. i \in better
        BY <3>5, <4>1
      <4>3. i <= chosen
        BY <3>2, <3>3, <4>2, Zenon
      <4>. QED BY <1>1, <3>4, <3>5, <4>3
    <3>. QED BY <1>1, <3>4, <3>5 DEF IsChosen
  <2>. QED BY <2>2, <2>3
<1>4. ASSUME NEW c, IsChosen(v, path, m, c) PROVE chosen = c
  <2>1. c \in matching /\ IsChosen(v, path, m, chosen) /\ chosen \in matching
    BY <1>3, <1>4 DEF IsChosen
  <2>2. ASSUME NEW x \in matching, NEW y \in matching, x < y,
               IsChosen(v, path, m, x), IsChosen(v, path, m, y)
        PROVE  FALSE
    <3>1. ~AcceptsIn(v, y, m)
      BY <1>1, <2>2 DEF IsChosen
    <3>2. y <= x
      BY <1>1, <2>2, <3>1 DEF IsChosen
    <3>. QED BY <1>1, <2>2, <3>2
  <2>3. ~(c < chosen) /\ ~(chosen < c)
    BY <1>4, <2>1, <2>2
  <2>. QED BY <1>1, <2>1, <2>3
<1> HIDE DEF matching, chosen
<1>. QED BY <1>2, <1>3, <1>4 DEF matching, chosen

\* The choice among what is left: the same one, if it is left at all.
LEMMA ChoiceStays ==
  ASSUME NEW P, NEW v \in Seq(P), NEW w \in Seq(P), NEW b, LeftOf(w, v, Len(v), b),
         NEW path, NEW m
  PROVE  /\ ChosenIn(v, path, m) = 0 => ChosenIn(w, path, m) = 0
         /\ ChosenIn(w, path, m) # 0 => /\ ChosenIn(w, path, m) \in 1..Len(w)
                                        /\ w[ChosenIn(w, path, m)].owner # b
         /\ ChosenIn(v, path, m) # 0 /\ v[ChosenIn(v, path, m)].owner # b =>
              /\ ChosenIn(w, path, m) # 0
              /\ w[ChosenIn(w, path, m)] = v[ChosenIn(v, path, m)]
<1>1. PICK at \in [1..Len(w) -> 1..Len(v)]:
               /\ \A j, k \in 1..Len(w): j < k => at[j] < at[k]
               /\ \A j \in 1..Len(w): w[j] = v[at[j]] /\ v[at[j]].owner # b
               /\ \A i \in 1..Len(v): v[i].owner # b => \E j \in 1..Len(w): at[j] = i
  BY DEF LeftOf
<1>2. Len(v) \in Nat /\ Len(w) \in Nat /\ DOMAIN v = 1..Len(v) /\ DOMAIN w = 1..Len(w)
  OBVIOUS
<1>3. \A j \in MatchingIn(w, path): j \in 1..Len(w) /\ at[j] \in MatchingIn(v, path)
  BY <1>1, <1>2 DEF MatchingIn
<1>4. \A j \in 1..Len(w): AcceptsIn(w, j, m) <=> AcceptsIn(v, at[j], m)
  BY <1>1 DEF AcceptsIn
<1>5. ChosenIn(w, path, m) # 0 => ChosenIn(w, path, m) \in MatchingIn(w, path)
  BY ChosenPattern DEF IsChosen
<1>6. ChosenIn(v, path, m) = 0 => ChosenIn(w, path, m) = 0
  BY <1>3, <1>5, ChosenPattern
<1>7. ChosenIn(w, path, m) # 0 => /\ ChosenIn(w, path, m) \in 1..Len(w)
                                  /\ w[ChosenIn(w, path, m)].owner # b
  BY <1>1, <1>3, <1>5
<1>8. ASSUME ChosenIn(v, path, m) # 0, v[ChosenIn(v, path, m)].owner # b
      PROVE  /\ ChosenIn(w, path, m) # 0
             /\ w[ChosenIn(w, path, m)] = v[ChosenIn(v, path, m)]
  <2> DEFINE c == ChosenIn(v, path, m)
  <2>1. IsChosen(v, path, m, c) /\ c \in MatchingIn(v, path) /\ c \in 1..Len(v)
    BY <1>2, <1>8, ChosenPattern DEF IsChosen, MatchingIn
  <2>2. PICK j \in 1..Len(w): at[j] = c
    BY <1>1, <1>8, <2>1
  <2> HIDE DEF c
  <2>3. j \in MatchingIn(w, path)
    BY <1>1, <1>2, <2>1, <2>2 DEF MatchingIn
  <2>4. ASSUME NEW k \in MatchingIn(w, path), k > j PROVE ~AcceptsIn(w, k, m)
    <3>1. k \in 1..Len(w) /\ at[k] \in MatchingIn(v, path) /\ j < k
      BY <1>2, <1>3, <2>4
    <3>2. at[j] < at[k] /\ at[j] \in Nat /\ at[k] \in Nat
      BY <1>1, <3>1
    <3>3. ~AcceptsIn(v, at[k], m)
      BY <2>1, <2>2, <3>1, <3>2 DEF IsChosen
    <3>. QED BY <1>4, <3>1, <3>3
  <2>5. ASSUME ~AcceptsIn(w, j, m), NEW k \in MatchingIn(w, path) PROVE j <= k
    <3>1. k \in 1..Len(w) /\ at[k] \in MatchingIn(v, path)
      BY <1>3
    <3>2. ~AcceptsIn(v, c, m)
      BY <1>4, <2>2, <2>5
    <3>3. at[j] <= at[k]
      BY <2>1, <2>2, <3>1, <3>2 DEF IsChosen
    <3>4. k < j => at[k] < at[j]
      BY <1>1, <3>1
    <3>5. at[k] \in Int /\ at[j] \in Int /\ k \in Int /\ j \in Int
      BY <1>1, <1>2, <3>1
    <3>. QED BY <3>3, <3>4, <3>5
  <2>6. IsChosen(w, path, m, j)
    BY <2>3, <2>4, <2>5 DEF IsChosen
  <2>7. ChosenIn(w, path, m) = j
    BY <2>6, ChosenPattern
  <2>8. w[j] = v[c] /\ j # 0
    BY <1>1, <2>2
  <2>. QED BY <2>7, <2>8 DEF c
<1>. QED BY <1>6, <1>7, <1>8
-----------------------------------------------------------------------------
\* The paths that lead to a path are what it starts with.
LEMMA PrefixOf ==
  ASSUME NEW p \in Seq(STRING), NEW q \in Seq(STRING)
  PROVE  q = p \/ Under(p, q) <=> Len(q) <= Len(p) /\ q = SubSeq(p, 1, Len(q))
<1>1. Len(p) \in Nat /\ Len(q) \in Nat
  OBVIOUS
<1>2. SubSeq(q, 1, Len(q)) = q /\ SubSeq(p, 1, Len(p)) = p
  OBVIOUS
<1>. QED BY <1>1, <1>2 DEF Under, IsPrefix

\* Of two starts of a path the shorter one leads to the longer one.
LEMMA PrefixesNest ==
  ASSUME NEW p \in Seq(STRING), NEW i \in 0..Len(p), NEW j \in 0..Len(p), i <= j
  PROVE  /\ Len(SubSeq(p, 1, i)) = i /\ SubSeq(p, 1, i) \in Seq(STRING)
         /\ SubSeq(p, 1, i) = SubSeq(p, 1, j) \/ Under(SubSeq(p, 1, j), SubSeq(p, 1, i))
<1>1. /\ Len(SubSeq(p, 1, i)) = i /\ SubSeq(p, 1, i) \in Seq(STRING)
      /\ Len(SubSeq(p, 1, j)) = j /\ SubSeq(p, 1, j) \in Seq(STRING)
  OBVIOUS
<1>2. SubSeq(SubSeq(p, 1, j), 1, i) = SubSeq(p, 1, i)
  OBVIOUS
<1>. QED BY <1>1, <1>2, PrefixOf

\* What the loop of mapPath finds in the table pm, and where a table has mappings
\* above a path: the loop finds the deepest of them.
FoundOver(pm, path) ==
  LET found[i \in 0..Len(path)] ==
        IF SubSeq(path, 1, i) \in Paths /\ pm[SubSeq(path, 1, i)] # NotMapped
        THEN pm[SubSeq(path, 1, i)]
        ELSE IF i = 0 THEN NotMapped ELSE found[i - 1]
  IN  found[Len(path)]

Depths(pm, path) ==
  {i \in 0..Len(path): SubSeq(path, 1, i) \in Paths /\ pm[SubSeq(path, 1, i)] # NotMapped}

\* The loop keeps what it has found last.
LEMMA FindsTheDeepest ==
  ASSUME NEW pm, NEW path \in Seq(STRING)
  PROVE  /\ Depths(pm, path) = {} => FoundOver(pm, path) = NotMapped
         /\ \A d \in Depths(pm, path):
              (\A i \in Depths(pm, path): i <= d) => FoundOver(pm, path) = pm[SubSeq(path, 1, d)]
<1> DEFINE At(i) == SubSeq(path, 1, i)
           Here(i) == At(i) \in Paths /\ pm[At(i)] # NotMapped
           Body(g, i) == IF Here(i) THEN pm[At(i)]
                         ELSE IF i = 0 THEN NotMapped ELSE g[i - 1]
           IsFound(g, n) == g = [i \in 0..n |-> Body(g, i)]
           F == CHOOSE found: IsFound(found, Len(path))
<1>0. Len(path) \in Nat
  OBVIOUS
<1>1. FoundOver(pm, path) = F[Len(path)]
  BY DEF FoundOver
<1>2. Depths(pm, path) = {i \in 0..Len(path): Here(i)}
  BY DEF Depths
<1> HIDE DEF Here, At
<1>3. IsFound(F, Len(path))
  <2> DEFINE S == {n \in Nat: \E g: IsFound(g, n)}
  <2>1. 0 \in S
    <3> DEFINE g == [i \in 0..0 |-> IF Here(i) THEN pm[At(i)] ELSE NotMapped]
    <3>1. IsFound(g, 0)
      OBVIOUS
    <3>. QED BY <3>1
  <2>2. ASSUME NEW n \in Nat, n \in S PROVE \E g: IsFound(g, n + 1)
    <3>1. PICK g: IsFound(g, n)
      BY <2>2, Zenon
    <3> DEFINE h == [i \in 0..(n + 1) |-> IF i = n + 1 THEN Body(g, i) ELSE g[i]]
    <3>2. \A i \in 0..n: h[i] = g[i] /\ g[i] = Body(g, i)
      <4> TAKE i \in 0..n
      <4>1. i \in 0..(n + 1) /\ i # n + 1
        OBVIOUS
      <4>2. h[i] = g[i]
        BY <4>1
      <4>3. g[i] = [k \in 0..n |-> Body(g, k)][i]
        BY <3>1, Zenon
      <4>. QED BY <4>2, <4>3, Zenon
    <3>3. \A i \in 0..(n + 1): h[i] = Body(h, i)
      <4> TAKE i \in 0..(n + 1)
      <4>1. i = 0 \/ i - 1 \in 0..n
        OBVIOUS
      <4>2. i # 0 => h[i - 1] = g[i - 1]
        BY <3>2, <4>1
      <4>3. Body(h, i) = Body(g, i)
        BY <4>2
      <4>4. h[i] = Body(g, i)
        <5>1. CASE i = n + 1
          BY <5>1, Zenon
        <5>2. CASE i \in 0..n
          BY <3>2, <5>2, Zenon
        <5>. QED BY <5>1, <5>2
      <4>. QED BY <4>3, <4>4
    <3>4. h = [i \in 0..(n + 1) |-> Body(h, i)]
      BY <3>3
    <3>. QED BY <3>4
  <2>3. \A n \in Nat: n \in S => n + 1 \in S
    <3> TAKE n \in Nat
    <3> HAVE n \in S
    <3>1. \E g: IsFound(g, n + 1)
      BY <2>2, Zenon
    <3>2. n + 1 \in Nat
      OBVIOUS
    <3>. QED BY <3>1, <3>2, Zenon
  <2> HIDE DEF S
  <2>4. Len(path) \in S
    BY <1>0, <2>1, <2>3, Induction
  <2>5. \E g: IsFound(g, Len(path))
    BY <2>4 DEF S
  <2> HIDE DEF IsFound
  <2>. QED BY <2>5
<1> HIDE DEF F
<1>4. \A i \in 0..Len(path): F[i] = Body(F, i)
  BY <1>3
\* From a mapping on, as long as no deeper one comes, and from the root if none does.
<1> DEFINE Since(d, n) == {k \in 0..n: k > d /\ Here(k)} = {}
           S(d) == {n \in Nat: n <= Len(path) /\ n >= d /\ Since(d, n) => F[n] = pm[At(d)]}
           Z == {n \in Nat: n <= Len(path) /\ {k \in 0..n: Here(k)} = {} => F[n] = NotMapped}
<1>5. ASSUME NEW d \in 0..Len(path), Here(d) PROVE \A n \in Nat: n \in S(d)
  <2>1. F[d] = pm[At(d)]
    BY <1>4, <1>5
  <2>2. 0 \in S(d)
    BY <1>0, <2>1
  <2>3. ASSUME NEW n \in Nat, n \in S(d), n + 1 <= Len(path), n + 1 >= d, Since(d, n + 1)
        PROVE  F[n + 1] = pm[At(d)]
    <3>1. CASE n + 1 = d
      BY <2>1, <3>1
    <3>2. CASE n + 1 # d
      <4>1. n <= Len(path) /\ n >= d /\ n + 1 > d
        BY <1>0, <2>3, <3>2
      <4>2. Since(d, n) /\ ~Here(n + 1)
        BY <1>0, <2>3, <4>1
      <4>3. F[n] = pm[At(d)]
        BY <2>3, <4>1, <4>2
      <4>4. n + 1 \in 0..Len(path) /\ n + 1 # 0 /\ (n + 1) - 1 = n
        BY <1>0, <2>3
      <4>. QED BY <1>4, <4>2, <4>3, <4>4
    <3>. QED BY <3>1, <3>2
  <2>4. \A n \in Nat: n \in S(d) => n + 1 \in S(d)
    <3> TAKE n \in Nat
    <3> HAVE n \in S(d)
    <3>1. n + 1 \in Nat
      OBVIOUS
    <3> HIDE DEF Since
    <3>. QED BY <2>3, <3>1, Zenon
  <2> HIDE DEF S
  <2>. QED BY <2>2, <2>4, Induction
<1>6. \A n \in Nat: n \in Z
  <2>1. 0 \in Z
    BY <1>0, <1>4
  <2>2. ASSUME NEW n \in Nat, n \in Z, n + 1 <= Len(path), {k \in 0..(n + 1): Here(k)} = {}
        PROVE  F[n + 1] = NotMapped
    <3>1. n <= Len(path) /\ {k \in 0..n: Here(k)} = {} /\ ~Here(n + 1)
      BY <1>0, <2>2
    <3>2. F[n] = NotMapped
      BY <2>2, <3>1
    <3>3. n + 1 \in 0..Len(path) /\ n + 1 # 0 /\ (n + 1) - 1 = n
      BY <1>0, <2>2
    <3>. QED BY <1>4, <3>1, <3>2, <3>3
  <2>3. \A n \in Nat: n \in Z => n + 1 \in Z
    BY <2>2
  <2> HIDE DEF Z
  <2>. QED BY <2>1, <2>3, Induction
<1>7. ASSUME Depths(pm, path) = {} PROVE F[Len(path)] = NotMapped
  BY <1>0, <1>2, <1>6, <1>7
<1>8. ASSUME NEW d \in Depths(pm, path), \A i \in Depths(pm, path): i <= d
      PROVE  F[Len(path)] = pm[At(d)]
  <2>1. d \in 0..Len(path) /\ Here(d) /\ d \in Nat
    BY <1>0, <1>2, <1>8
  <2>2. Since(d, Len(path))
    BY <1>0, <1>2, <1>8, <2>1
  <2>3. Len(path) \in S(d) /\ Len(path) >= d
    BY <1>0, <1>5, <2>1
  <2>. QED BY <2>2, <2>3, <1>0
<1>. QED BY <1>1, <1>7, <1>8 DEF At

\* The same, said of the paths above: who serves is the deepest of them.
Above(pm, path) == {q \in Paths: pm[q] # NotMapped /\ (q = path \/ Under(path, q))}
IsDeepest(pm, path, q) == /\ q \in Above(pm, path)
                          /\ \A o \in Above(pm, path): o = q \/ Under(q, o)

\* With nothing above it a path has no mapping; otherwise one is the deepest.
LEMMA TheDeepestServes ==
  ASSUME NEW pm, NEW path \in Paths
  PROVE  /\ Above(pm, path) = {} => FoundOver(pm, path) = NotMapped
         /\ Above(pm, path) # {} => \E q: IsDeepest(pm, path, q)
         /\ \A q: IsDeepest(pm, path, q) => FoundOver(pm, path) = pm[q]
<1>1. path \in Seq(STRING) /\ Len(path) \in Nat /\ \A q \in Paths: q \in Seq(STRING)
  BY PathsAssumption
<1>2. \A q \in Above(pm, path):
        /\ Len(q) \in Depths(pm, path) /\ Len(q) \in 0..Len(path)
        /\ q = SubSeq(path, 1, Len(q)) /\ q \in Seq(STRING)
  <2> TAKE q \in Above(pm, path)
  <2>1. q \in Paths /\ q \in Seq(STRING) /\ pm[q] # NotMapped /\ (q = path \/ Under(path, q))
    BY <1>1 DEF Above
  <2>2. Len(q) <= Len(path) /\ q = SubSeq(path, 1, Len(q)) /\ Len(q) \in Nat
    BY <1>1, <2>1, PrefixOf
  <2>3. Len(q) \in 0..Len(path)
    BY <1>1, <2>2
  <2>. QED BY <2>1, <2>2, <2>3 DEF Depths
<1>3. \A d \in Depths(pm, path): SubSeq(path, 1, d) \in Above(pm, path) /\ d \in 0..Len(path)
  <2> TAKE d \in Depths(pm, path)
  <2>1. d \in 0..Len(path) /\ Len(path) \in 0..Len(path) /\ d <= Len(path)
    BY <1>1 DEF Depths
  <2>2. SubSeq(path, 1, d) \in Seq(STRING) /\ Len(SubSeq(path, 1, d)) = d
    BY <1>1, <2>1, PrefixesNest
  <2>3. SubSeq(path, 1, d) = path \/ Under(path, SubSeq(path, 1, d))
    BY <1>1, <2>1, <2>2, PrefixOf
  <2>. QED BY <2>1, <2>3 DEF Depths, Above
<1>4. Above(pm, path) = {} => FoundOver(pm, path) = NotMapped
  BY <1>1, <1>3, FindsTheDeepest
<1>5. ASSUME Above(pm, path) # {} PROVE \E q: IsDeepest(pm, path, q)
  <2>1. Depths(pm, path) \in SUBSET Nat /\ Depths(pm, path) # {}
    BY <1>2, <1>3, <1>5
  <2>2. PICK d \in Depths(pm, path): \A i \in Depths(pm, path): i <= d
    <3>1. \A i \in Depths(pm, path): i <= Len(path)
      BY <1>3
    <3>. QED BY <1>1, <2>1, <3>1, GreatestOf
  <2>3. SubSeq(path, 1, d) \in Above(pm, path) /\ d \in 0..Len(path)
    BY <1>3
  <2>4. ASSUME NEW o \in Above(pm, path)
        PROVE  o = SubSeq(path, 1, d) \/ Under(SubSeq(path, 1, d), o)
    <3>1. Len(o) <= d /\ Len(o) \in 0..Len(path) /\ o = SubSeq(path, 1, Len(o))
      BY <1>2, <2>2
    <3>. QED BY <1>1, <2>3, <3>1, PrefixesNest, Zenon
  <2>. QED BY <2>3, <2>4 DEF IsDeepest
<1>6. ASSUME NEW q, IsDeepest(pm, path, q) PROVE FoundOver(pm, path) = pm[q]
  <2>1. q \in Above(pm, path) /\ \A o \in Above(pm, path): o = q \/ Under(q, o)
    BY <1>6 DEF IsDeepest
  <2>2. ASSUME NEW i \in Depths(pm, path) PROVE i <= Len(q)
    <3> DEFINE o == SubSeq(path, 1, i)
    <3>1. o \in Above(pm, path) /\ i \in 0..Len(path) /\ Len(path) <= Len(path)
      BY <1>1, <1>3
    <3>2. Len(o) = i /\ o \in Seq(STRING)
      BY <1>1, <3>1
    <3>3. o = q \/ Under(q, o)
      BY <2>1, <3>1
    <3> HIDE DEF o
    <3>. QED BY <1>2, <2>1, <3>2, <3>3, PrefixOf
  <2>. QED BY <1>1, <1>2, <2>1, <2>2, FindsTheDeepest
<1>. QED BY <1>4, <1>5, <1>6

\* The deepest is the path itself exactly if that is mapped.
LEMMA DeepestIsIt ==
  ASSUME NEW pm, NEW path \in Paths, NEW q, IsDeepest(pm, path, q)
  PROVE  q = path <=> pm[path] # NotMapped
<1>1. path \in Seq(STRING) /\ q \in Seq(STRING) /\ pm[q] # NotMapped
      /\ (q = path \/ Under(path, q))
  BY PathsAssumption DEF IsDeepest, Above
<1>2. ASSUME pm[path] # NotMapped PROVE q = path
  <2>1. path = q \/ Under(q, path)
    BY <1>2 DEF IsDeepest, Above
  <2>2. Len(q) <= Len(path) /\ Len(path) <= Len(q) /\ q = SubSeq(path, 1, Len(q))
    BY <1>1, <2>1, PrefixOf
  <2>. QED BY <1>1, <2>2
<1>. QED BY <1>1, <1>2

-----------------------------------------------------------------------------
\* The table and the list have their types: nothing else is ever mapped.
THEOREM PathTypes == VirtualPathsSpec => []VirtualPathsTypeOK
<1>1. VirtualPathsInit => VirtualPathsTypeOK
  BY DEF VirtualPathsInit, VirtualPathsTypeOK
<1>2. VirtualPathsTypeOK /\ [VirtualPathsNext]_pathVars => VirtualPathsTypeOK'
  <2> SUFFICES ASSUME VirtualPathsTypeOK, [VirtualPathsNext]_pathVars
               PROVE  VirtualPathsTypeOK'
    OBVIOUS
  <2>1. ASSUME NEW e \in PathOffers, AddVirtualPath(e) PROVE VirtualPathsTypeOK'
    BY <2>1, PathsAssumption DEF AddVirtualPath, VirtualPathsTypeOK
  <2>2. ASSUME NEW e \in PathOffers, RefuseVirtualPath(e) PROVE VirtualPathsTypeOK'
    BY <2>2 DEF RefuseVirtualPath, VirtualPathsTypeOK
  <2>3. ASSUME NEW e \in PatternOffers, AddPattern(e) PROVE VirtualPathsTypeOK'
    BY <2>3 DEF AddPattern, VirtualPathsTypeOK
  <2>4. ASSUME NEW b \in PathOwners, RemoveBundle(b) PROVE VirtualPathsTypeOK'
    <3>1. patternVec' \in Seq(PatternOffers)
      BY <2>4, WithoutKeepsOthers DEF RemoveBundle, VirtualPathsTypeOK
    <3>. QED BY <2>4, <3>1 DEF RemoveBundle, VirtualPathsTypeOK
  <2>5. CASE UNCHANGED pathVars
    BY <2>5 DEF pathVars, VirtualPathsTypeOK
  <2>. QED BY <2>1, <2>2, <2>3, <2>4, <2>5 DEF VirtualPathsNext
<1>. QED BY <1>1, <1>2, PTL DEF VirtualPathsSpec

\* mapPath in the terms of these lemmas.
LEMMA MapPathIs ==
  ASSUME NEW path, NEW m
  PROVE  /\ PatternFor(path, m) = ChosenIn(patternVec, path, m)
         /\ FoundIn(path) = FoundOver(pathMap, path)
BY DEF PatternFor, Accepts, ChosenIn, MatchingIn, AcceptsIn, FoundIn, FoundOver, Mapped

\* A request that no pattern matches is served by the deepest mapping above it,
\* whatever the table (WebServerDispatcher::mapPath).
THEOREM TheDeepestIsFound == VirtualPathsSpec => []ServedByTheDeepest
<1>1. ServedByTheDeepest
  <2> SUFFICES ASSUME NEW path \in Paths, NEW m \in Methods, PatternFor(path, m) = 0
               PROVE  \/ Above(pathMap, path) = {} /\ MapPath(path, m) = NotMapped
                      \/ \E q \in Above(pathMap, path):
                           /\ \A o \in Above(pathMap, path): o = q \/ Under(q, o)
                           /\ MapPath(path, m) = IF pathMap[q].exact /\ q # path
                                                 THEN NotMapped ELSE pathMap[q]
    BY DEF ServedByTheDeepest, Above, Mapped
  <2>1. MapPath(path, m) = IF FoundOver(pathMap, path).exact /\ ~Mapped(path)
                           THEN NotMapped ELSE FoundOver(pathMap, path)
    BY MapPathIs DEF MapPath
  <2>2. CASE Above(pathMap, path) = {}
    <3>1. FoundOver(pathMap, path) = NotMapped
      BY <2>2, TheDeepestServes
    <3>. QED BY <2>1, <2>2, <3>1
  <2>3. CASE Above(pathMap, path) # {}
    <3>1. PICK q: IsDeepest(pathMap, path, q)
      BY <2>3, TheDeepestServes
    <3>2. FoundOver(pathMap, path) = pathMap[q]
      BY <3>1, TheDeepestServes
    <3>3. q = path <=> Mapped(path)
      BY <3>1, DeepestIsIt DEF Mapped
    <3>4. q \in Above(pathMap, path) /\ \A o \in Above(pathMap, path): o = q \/ Under(q, o)
      BY <3>1 DEF IsDeepest
    <3>. QED BY <2>1, <3>2, <3>3, <3>4
  <2>. QED BY <2>2, <2>3
<1>. QED BY <1>1, PTL

\* One stop: a pattern or a mapping that is kept is chosen as before.
LEMMA StopKeepsOthers ==
  ASSUME VirtualPathsTypeOK, NEW b \in PathOwners, RemoveBundle(b),
         NEW path \in Paths, NEW m
  PROVE  /\ MapPath(path, m)'.owner # b
         /\ MapPath(path, m).owner \notin {b, "nobody"} =>
              MapPath(path, m)' = MapPath(path, m)
<1> DEFINE v == patternVec
           w == patternVec'
           pm == pathMap
           new == pathMap'
           c == ChosenIn(v, path, m)
           k == ChosenIn(w, path, m)
           found == FoundOver(pm, path)
           left == FoundOver(new, path)
<1>1. v \in Seq(PatternOffers) /\ w \in Seq(PatternOffers) /\ LeftOf(w, v, Len(v), b)
  BY WithoutKeepsOthers DEF RemoveBundle, VirtualPathsTypeOK
<1>2. new = [p \in Paths |-> IF pm[p].owner = b THEN NotMapped ELSE pm[p]]
  BY DEF RemoveBundle
<1>3. b # "nobody" /\ NotMapped.owner = "nobody"
  BY PathsAssumption DEF PathOwners, NotMapped
<1>4. MapPath(path, m) = IF c # 0 THEN v[c]
                         ELSE IF found.exact /\ pm[path] = NotMapped THEN NotMapped ELSE found
  BY MapPathIs DEF MapPath, Mapped
<1>5. MapPath(path, m)' = IF k # 0 THEN w[k]
                          ELSE IF left.exact /\ new[path] = NotMapped THEN NotMapped ELSE left
  BY DEF MapPath, Mapped, PatternFor, Accepts, ChosenIn, MatchingIn, AcceptsIn,
         FoundIn, FoundOver
<1>6. /\ c = 0 => k = 0
      /\ k # 0 => w[k].owner # b
      /\ c # 0 /\ v[c].owner # b => k # 0 /\ w[k] = v[c]
  BY <1>1, ChoiceStays
<1>7. Above(new, path) = {q \in Above(pm, path): pm[q].owner # b}
      /\ \A q \in Above(new, path): new[q] = pm[q]
  BY <1>2 DEF Above
<1>8. left.owner # b
  <2>1. CASE Above(new, path) = {}
    BY <1>3, <2>1, TheDeepestServes
  <2>2. CASE Above(new, path) # {}
    <3>1. PICK q: IsDeepest(new, path, q)
      BY <2>2, TheDeepestServes
    <3>2. left = new[q] /\ q \in Above(new, path)
      BY <3>1, TheDeepestServes DEF IsDeepest
    <3>. QED BY <1>7, <3>2
  <2>. QED BY <2>1, <2>2
<1>9. ASSUME found.owner \notin {b, "nobody"}
      PROVE  left = found /\ (pm[path] = NotMapped <=> new[path] = NotMapped)
  <2>1. Above(pm, path) # {}
    BY <1>3, <1>9, TheDeepestServes
  <2>2. PICK q: IsDeepest(pm, path, q)
    BY <2>1, TheDeepestServes
  <2>3. found = pm[q] /\ q \in Above(pm, path)
    BY <2>2, TheDeepestServes DEF IsDeepest
  <2>4. q \in Above(new, path) /\ IsDeepest(new, path, q)
    BY <1>7, <1>9, <2>2, <2>3 DEF IsDeepest
  <2>5. left = new[q] /\ new[q] = pm[q]
    BY <1>7, <2>4, TheDeepestServes
  <2>6. pm[path] # NotMapped <=> new[path] # NotMapped
    BY <2>2, <2>4, DeepestIsIt
  <2>. QED BY <2>3, <2>5, <2>6
<1> HIDE DEF v, w, pm, new, c, k, found, left
<1>. QED BY <1>3, <1>4, <1>5, <1>6, <1>8, <1>9

\* A bundle that stops takes with it what it serves and nothing else
\* (bundleStopping, removeBundle).
THEOREM OthersAreServed == VirtualPathsSpec => OthersGoOnServing
<1>1. VirtualPathsTypeOK /\ [VirtualPathsNext]_pathVars =>
        [\A b \in PathOwners: handled' # handled /\ RemoveBundle(b) =>
           \A path \in Paths, m \in Methods:
             /\ MapPath(path, m)'.owner # b
             /\ MapPath(path, m).owner \notin {b, "nobody"} =>
                  MapPath(path, m)' = MapPath(path, m)]_pathVars
  BY StopKeepsOthers
<1>. QED BY <1>1, PathTypes, PTL DEF VirtualPathsSpec, OthersGoOnServing
=============================================================================
