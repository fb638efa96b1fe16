------------------------- MODULE TaskGraphTheorems --------------------------
(***************************************************************************)
(* Facts about Reach and Acyclic that the task store's proofs rest on, and *)
(* the least element of a set of naturals, on which its depths and the     *)
(* model ladder rest.                                                      *)
(***************************************************************************)
EXTENDS TaskGraph, Integers, FiniteSets, FiniteSetTheorems, TLAPS

\* Reach contains where it starts and everything a member leads to.
LEMMA ReachGrows ==
    ASSUME NEW f, NEW D, f \in [D -> SUBSET D], NEW S \in SUBSET D
    PROVE  /\ S \subseteq Reach(f, S)
           /\ Reach(f, S) \subseteq D
           /\ \A n \in Reach(f, S) : f[n] \subseteq Reach(f, S)
  BY DEF Reach, ClosedUnder

\* Reach is the smallest such set.
LEMMA ReachLeast ==
    ASSUME NEW f, NEW D, f \in [D -> SUBSET D], NEW S, NEW X \in SUBSET D,
           S \subseteq X, ClosedUnder(f, X)
    PROVE  Reach(f, S) \subseteq X
  BY DEF Reach

\* From a reachable node nothing new is reachable.
LEMMA ReachTransitive ==
    ASSUME NEW f, NEW D, f \in [D -> SUBSET D], NEW S \in SUBSET D,
           NEW T \in SUBSET Reach(f, S)
    PROVE  Reach(f, T) \subseteq Reach(f, S)
<1>1. ClosedUnder(f, Reach(f, S)) /\ Reach(f, S) \in SUBSET D
  BY ReachGrows DEF ClosedUnder
<1> QED
  BY <1>1, ReachLeast

\* What S reaches, one member of S reaches.
LEMMA ReachFromOne ==
    ASSUME NEW f, NEW D, f \in [D -> SUBSET D], NEW S \in SUBSET D,
           NEW n \in Reach(f, S)
    PROVE  \E s \in S : n \in Reach(f, {s})
<1> DEFINE U == {m \in D : \E s \in S : m \in Reach(f, {s})}
<1>1. S \subseteq U
  BY ReachGrows
<1>2. ClosedUnder(f, U)
  <2> SUFFICES ASSUME NEW m \in U, NEW k \in f[m] PROVE k \in U
    BY DEF ClosedUnder
  <2>1. PICK s \in S : m \in Reach(f, {s})
    OBVIOUS
  <2>2. k \in Reach(f, {s}) /\ k \in D
    BY <2>1, ReachGrows
  <2> QED
    BY <2>2
<1>3. n \in U
  BY <1>1, <1>2, ReachLeast
<1> QED
  BY <1>3

\* A node reaches itself and what its successors reach.
LEMMA ReachStep ==
    ASSUME NEW f, NEW D, f \in [D -> SUBSET D], NEW n \in D
    PROVE  Reach(f, {n}) = {n} \cup Reach(f, f[n])
<1>1. Reach(f, f[n]) \subseteq Reach(f, {n})
  <2>1. f[n] \subseteq Reach(f, {n})
    BY ReachGrows
  <2> QED
    BY <2>1, ReachTransitive
<1>2. ClosedUnder(f, {n} \cup Reach(f, f[n]))
  BY ReachGrows DEF ClosedUnder
<1>3. {n} \cup Reach(f, f[n]) \in SUBSET D
  BY ReachGrows
<1>4. Reach(f, {n}) \subseteq {n} \cup Reach(f, f[n])
  BY <1>2, <1>3, ReachLeast
<1>5. n \in Reach(f, {n})
  BY ReachGrows
<1> QED
  BY <1>1, <1>4, <1>5

\* In an acyclic graph no node leads back to itself.
LEMMA AcyclicNoReturn ==
    ASSUME NEW f, NEW D, f \in [D -> SUBSET D], Acyclic(f), NEW n \in D
    PROVE  n \notin Reach(f, f[n])
<1> SUFFICES ASSUME n \in Reach(f, f[n]) PROVE FALSE
  OBVIOUS
<1> DEFINE X == {m \in D : n \in Reach(f, f[m])}
<1>1. X # {} /\ X \in SUBSET (DOMAIN f)
  OBVIOUS
<1>2. PICK m \in X : f[m] \cap X = {}
  BY <1>1 DEF Acyclic
<1>3. PICK k \in f[m] : n \in Reach(f, {k})
  BY <1>2, ReachFromOne
<1>4. k \in D
  BY <1>2, <1>3
<1>5. n = k \/ n \in Reach(f, f[k])
  BY <1>3, <1>4, ReachStep
<1>6. k \in X
  BY <1>4, <1>5
<1> QED
  BY <1>2, <1>3, <1>6

\* Fewer edges keep a graph acyclic.
LEMMA AcyclicFewerEdges ==
    ASSUME NEW f, NEW g, NEW D, f \in [D -> SUBSET D], g \in [D -> SUBSET D],
           Acyclic(f), \A n \in D : g[n] \subseteq f[n]
    PROVE  Acyclic(g)
  BY DEF Acyclic

\* Changing the edges of one node keeps a graph acyclic unless the node can
\* now be reached from its own successors.
LEMMA AcyclicOneNode ==
    ASSUME NEW f, NEW g, NEW D, f \in [D -> SUBSET D], g \in [D -> SUBSET D],
           Acyclic(f), NEW n \in D, \A m \in D \ {n} : g[m] = f[m],
           n \notin Reach(g, g[n])
    PROVE  Acyclic(g)
<1> SUFFICES ASSUME NEW X \in SUBSET D, X # {}, \A m \in X : g[m] \cap X # {}
             PROVE FALSE
  BY DEF Acyclic
<1>1. CASE n \notin X
  BY <1>1 DEF Acyclic
<1>2. CASE n \in X
  <2> DEFINE Y == X \cap Reach(g, g[n])
  <2>1. /\ g[n] \subseteq Reach(g, g[n])
        /\ \A m \in Reach(g, g[n]) : g[m] \subseteq Reach(g, g[n])
    BY ReachGrows
  <2>2. Y # {} /\ Y \in SUBSET (DOMAIN f)
    BY <1>2, <2>1
  <2>3. PICK m \in Y : f[m] \cap Y = {}
    BY <2>2 DEF Acyclic
  <2>4. m # n /\ g[m] = f[m]
    BY <2>3
  <2>5. g[m] \subseteq Reach(g, g[n])
    BY <2>1, <2>3
  <2>6. g[m] \cap X = {}
    BY <2>3, <2>4, <2>5
  <2> QED
    BY <2>3, <2>6
<1> QED
  BY <1>1, <1>2
-----------------------------------------------------------------------------
\* Every nonempty set of naturals has a least element: of the initial segments
\* of a finite part of it, one is minimal.
LEMMA LeastNatural ==
    ASSUME NEW S \in SUBSET Nat, S # {}
    PROVE  \E m \in S : \A k \in S : m <= k
<1>1. PICK n \in S : TRUE
  OBVIOUS
<1> DEFINE B == {k \in S : k <= n}
           Upto(m) == {k \in B : k <= m}
           F == {Upto(m) : m \in B}
<1>a. S \subseteq Nat
  OBVIOUS
<1>c. n \in Nat
  BY <1>a
<1>d. n <= n
  BY <1>c
<1>b. B \subseteq Nat /\ n \in B
  BY <1>a, <1>d
<1>2. IsFiniteSet(B)
  BY <1>b, FS_BoundedSetOfNaturals
<1>3. F \subseteq FiniteSubsetsOf(B) /\ F # {}
  <2>1. \A m \in B : Upto(m) \in SUBSET B /\ IsFiniteSet(Upto(m))
    <3> HIDE DEF B
    <3> QED BY <1>2, FS_Subset
  <2> HIDE DEF B, Upto
  <2> QED
    BY <1>b, <2>1 DEF FiniteSubsetsOf
<1>4. PICK x \in F : \A y \in F : <<y, x>> \notin StrictSubsetOrdering(B)
  <2>1. IsWellFoundedOn(StrictSubsetOrdering(B), FiniteSubsetsOf(B))
    BY FS_StrictSubsetOrderingWellFounded
  <2> HIDE DEF F
  <2> QED
    BY <1>3, <2>1, WFMin
<1>5. PICK m \in B : x = Upto(m)
  OBVIOUS
<1>6. ASSUME NEW k \in B, k < m PROVE FALSE
  <2>0. k \in Nat /\ m \in Nat /\ m \in B
    BY <1>b, <1>5
  <2>1. Upto(k) \subseteq Upto(m) /\ m \in Upto(m) /\ m \notin Upto(k)
    <3> HIDE DEF B
    <3>1. \A j \in B : j <= k => j <= m
      BY <1>6, <2>0, <1>b
    <3>2. m <= m /\ ~(m <= k)
      BY <1>6, <2>0
    <3> QED
      BY <2>0, <3>1, <3>2
  <2>2. <<Upto(k), Upto(m)>> \in StrictSubsetOrdering(B)
    <3> HIDE DEF B
    <3> QED
    BY <2>1 DEF StrictSubsetOrdering
  <2>3. Upto(k) \in F
    <3> HIDE DEF B, Upto
    <3> QED OBVIOUS
  <2> QED
    BY <1>4, <1>5, <2>2, <2>3
<1> QED
  BY <1>6, <1>b, <1>5
=============================================================================
