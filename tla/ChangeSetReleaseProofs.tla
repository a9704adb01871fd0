----------------------- MODULE ChangeSetReleaseProofs -----------------------
(***************************************************************************)
(* Theorems about what an apply acts on and what a release rests on: the   *)
(* walk of the impact assessment over the dependency graph, the picture an *)
(* apply was assessed on, the work a stabilization finds done, and the     *)
(* chapters behind an open release gate.                                   *)
(***************************************************************************)
EXTENDS ChangeSetLifecycleProofs, FiniteSetTheorems

-----------------------------------------------------------------------------
(* Induction over the layers of the walk, stated for sets of numbers *)

\* A set of natural numbers that is not empty has a least element.
LEMMA LeastNatural ==
  ASSUME NEW T \in SUBSET Nat, T # {}
  PROVE  \E m \in T : \A n \in T : m <= n
<1> DEFINE R == OpToRel(<, Nat)
<1>1. IsWellFoundedOn(R, Nat)
  BY NatLessThanWellFounded
<1>2. \A m, n \in Nat : <<n, m>> \in R <=> n < m
  BY DEF OpToRel
<1> HIDE DEF R
<1>3. PICK m \in T : \A n \in T : ~(<<n, m>> \in R)
  BY <1>1, WFMin
<1>4. ASSUME NEW n \in T PROVE m <= n
  <2>1. m \in Nat /\ n \in Nat
    OBVIOUS
  <2>2. ~(n < m)
    BY <1>2, <1>3, <2>1, Zenon
  <2> QED BY <2>1, <2>2
<1> QED BY <1>4

\* A set with 0 and with the successor of each of its numbers holds them all.
LEMMA SetInduction ==
  ASSUME NEW T \in SUBSET Nat, 0 \in T, \A n \in T : n + 1 \in T
  PROVE  \A n \in Nat : n \in T
<1> SUFFICES ASSUME Nat \ T # {} PROVE FALSE
  OBVIOUS
<1>1. PICK m \in Nat \ T : \A n \in Nat \ T : m <= n
  BY LeastNatural
<1>2. m # 0 /\ m - 1 \in Nat
  BY <1>1
<1>3. m - 1 \in T
  BY <1>1, <1>2
<1> QED BY <1>1, <1>3

-----------------------------------------------------------------------------
(* The walk over the dependency graph *)

\* What the confirmed dependencies of the objects in L propagate to.
Successors(L) == {e.target : e \in {f \in ValidEdges : Definite(f) /\ f.source \in L}}

\* f lists the layers of the walk from R, up to the N-th.
IsWalk(f, R, N) ==
    f = [n \in 0 .. N |-> IF n = 0 THEN R ELSE f[n - 1] \cup Successors(f[n - 1])]

\* One step of the walk, from its definition.
LEMMA WalkStep ==
  ASSUME NEW R, NEW N \in Nat, NEW f, IsWalk(f, R, N)
  PROVE  /\ f[0] = R
         /\ \A n \in Nat : n + 1 <= N => f[n + 1] = f[n] \cup Successors(f[n])
<1>1. \A n \in 0 .. N : f[n] = IF n = 0 THEN R ELSE f[n - 1] \cup Successors(f[n - 1])
  BY DEF IsWalk
<1>2. f[0] = R
  <2>1. 0 \in 0 .. N
    OBVIOUS
  <2> QED BY <1>1, <2>1
<1>3. ASSUME NEW n \in Nat, n + 1 <= N PROVE f[n + 1] = f[n] \cup Successors(f[n])
  <2>1. n + 1 \in 0 .. N /\ n + 1 # 0 /\ (n + 1) - 1 = n
    BY <1>3
  <2> QED BY <1>1, <2>1
<1> QED BY <1>2, <1>3

\* The layers exist, however many are asked for.
LEMMA WalkExists ==
  ASSUME NEW R, NEW N \in Nat
  PROVE  \E f : IsWalk(f, R, N)
<1> DEFINE T == {m \in Nat : \E f : IsWalk(f, R, m)}
<1>1. 0 \in T
  <2> DEFINE f == [n \in 0 .. 0 |-> R]
  <2>1. f = [n \in 0 .. 0 |-> IF n = 0 THEN R ELSE f[n - 1] \cup Successors(f[n - 1])]
    OBVIOUS
  <2>2. IsWalk(f, R, 0)
    BY <2>1 DEF IsWalk
  <2> QED BY <2>2
<1>2. ASSUME NEW m \in T PROVE m + 1 \in T
  <2>1. PICK f : IsWalk(f, R, m)
    BY <1>2
  <2>2. m \in Nat
    BY <1>2
  <2> DEFINE next == f[m] \cup Successors(f[m])
             g == [n \in 0 .. m + 1 |-> IF n = m + 1 THEN next ELSE f[n]]
  <2>3. ASSUME NEW n \in 0 .. m + 1
        PROVE  g[n] = IF n = 0 THEN R ELSE g[n - 1] \cup Successors(g[n - 1])
    <3>1. CASE n = 0
      BY <2>1, <2>2, <3>1, WalkStep
    <3>2. CASE n # 0 /\ n # m + 1
      <4>1. n - 1 \in Nat /\ (n - 1) + 1 = n /\ n <= m /\ n - 1 # m + 1 /\ n - 1 \in 0 .. m + 1
        BY <2>2, <2>3, <3>2
      <4>2. f[n] = f[n - 1] \cup Successors(f[n - 1])
        BY <2>1, <2>2, <4>1, WalkStep
      <4>3. g[n] = f[n] /\ g[n - 1] = f[n - 1]
        BY <3>2, <4>1
      <4> HIDE DEF g
      <4> QED BY <3>2, <4>2, <4>3
    <3>3. CASE n = m + 1
      <4>1. n - 1 = m /\ m # m + 1 /\ m \in 0 .. m + 1 /\ n # 0
        BY <2>2, <3>3
      <4>2. g[n] = next /\ g[n - 1] = f[m]
        BY <3>3, <4>1
      <4> HIDE DEF g
      <4> QED BY <4>1, <4>2
    <3> QED BY <3>1, <3>2, <3>3
  <2>4. g = [n \in 0 .. m + 1 |-> g[n]]
    OBVIOUS
  <2> HIDE DEF g
  <2>5. IsWalk(g, R, m + 1)
    BY <2>3, <2>4 DEF IsWalk
  <2> QED BY <2>2, <2>5
<1> HIDE DEF T
<1>3. N \in T
  BY <1>1, <1>2, SetInduction DEF T
<1> QED BY <1>3 DEF T

\* What holds the roots and all their successors holds every layer.
LEMMA WalkInside ==
  ASSUME NEW R, NEW N \in Nat, NEW f, IsWalk(f, R, N),
         NEW U, R \subseteq U, \A L \in SUBSET U : Successors(L) \subseteq U
  PROVE  \A n \in 0 .. N : f[n] \subseteq U
<1> DEFINE T == {n \in Nat : n <= N => f[n] \subseteq U}
<1>1. 0 \in T
  BY WalkStep
<1>2. ASSUME NEW n \in T PROVE n + 1 \in T
  <2>1. CASE n + 1 <= N
    <3>1. n \in Nat /\ n \in 0 .. N - 1 /\ f[n] \subseteq U
      BY <1>2, <2>1
    <3> HIDE DEF T
    <3>2. f[n + 1] = f[n] \cup Successors(f[n])
      BY <3>1, WalkStep
    <3>3. f[n + 1] \subseteq U
      BY <3>1, <3>2
    <3> QED BY <3>1, <3>3 DEF T
  <2> QED BY <1>2, <2>1
<1>3. \A n \in Nat : n \in T
  <2> HIDE DEF T
  <2> QED BY <1>1, <1>2, SetInduction DEF T
<1> QED BY <1>3

\* The walk starts with the roots and keeps them.
LEMMA WalkKeepsRoots ==
  ASSUME NEW R, NEW N \in Nat, NEW f, IsWalk(f, R, N)
  PROVE  R \subseteq f[N]
<1>1. f[0] = R
  BY WalkStep
<1>2. \A j \in Nat : j + 1 <= N => f[j + 1] = f[j] \cup Successors(f[j])
  BY WalkStep
<1> DEFINE T == {n \in Nat : n <= N => R \subseteq f[n]}
<1>3. 0 \in T
  BY <1>1
<1>4. ASSUME NEW n \in T PROVE n + 1 \in T
  <2>1. n \in Nat
    BY <1>4
  <2>2. CASE n + 1 <= N
    <3>1. n <= N /\ f[n + 1] = f[n] \cup Successors(f[n])
      BY <1>2, <2>1, <2>2
    <3>2. R \subseteq f[n + 1]
      BY <1>4, <3>1
    <3> QED BY <2>1, <3>2
  <2> QED BY <2>1, <2>2
<1>5. N \in T
  <2> HIDE DEF T
  <2> QED BY <1>3, <1>4, SetInduction DEF T
<1> QED BY <1>5

\* A layer that is closed is the last one: all later layers are the same.
LEMMA WalkSettles ==
  ASSUME NEW R, NEW N \in Nat, NEW f, IsWalk(f, R, N),
         NEW k \in 0 .. N, Successors(f[k]) \subseteq f[k]
  PROVE  Successors(f[N]) \subseteq f[N]
<1>1. \A j \in Nat : j + 1 <= N => f[j + 1] = f[j] \cup Successors(f[j])
  BY WalkStep
<1> DEFINE T == {n \in Nat : k + n <= N => f[k + n] = f[k]}
<1>2. 0 \in T
  OBVIOUS
<1>3. ASSUME NEW n \in T PROVE n + 1 \in T
  <2>1. CASE k + (n + 1) <= N
    <3>1. n \in Nat /\ k + n \in Nat /\ (k + n) + 1 <= N /\ k + (n + 1) = (k + n) + 1
      BY <1>3, <2>1
    <3>2. f[k + n] = f[k]
      BY <1>3, <3>1
    <3>3. f[(k + n) + 1] = f[k + n] \cup Successors(f[k + n])
      BY <1>1, <3>1
    <3> QED BY <3>1, <3>2, <3>3
  <2> QED BY <1>3, <2>1
<1>4. \A n \in Nat : n \in T
  <2> HIDE DEF T
  <2> QED BY <1>2, <1>3, SetInduction DEF T
<1>5. N - k \in Nat /\ k + (N - k) = N
  OBVIOUS
<1>6. f[N] = f[k]
  BY <1>4, <1>5
<1> QED BY <1>6

\* A walk of at least as many layers as there are objects it can reach ends in a
\* closed layer: until then every layer has one object more than the one before.
LEMMA WalkCloses ==
  ASSUME NEW R, NEW N \in Nat, NEW f, IsWalk(f, R, N),
         NEW U, IsFiniteSet(U), Cardinality(U) <= N,
         R \subseteq U, R # {}, \A L \in SUBSET U : Successors(L) \subseteq U
  PROVE  Successors(f[N]) \subseteq f[N]
<1> SUFFICES ASSUME ~(Successors(f[N]) \subseteq f[N]) PROVE FALSE
  OBVIOUS
<1>1. \A n \in 0 .. N : f[n] \in SUBSET U
  BY WalkInside
<1>2. \A n \in 0 .. N : IsFiniteSet(f[n]) /\ Cardinality(f[n]) \in Nat
                        /\ Cardinality(f[n]) <= Cardinality(U)
  BY <1>1, FS_Subset, FS_CardinalityType
<1> DEFINE T == {n \in Nat : n <= N => Cardinality(f[n]) >= n + 1}
<1>3. 0 \in T
  <2>1. f[0] = R /\ 0 \in 0 .. N
    BY WalkStep
  <2>2. Cardinality(f[0]) # 0 /\ Cardinality(f[0]) \in Nat
    BY <1>2, <2>1, FS_EmptySet
  <2> QED BY <2>2
<1>4. ASSUME NEW n \in T PROVE n + 1 \in T
  <2>1. CASE n + 1 <= N
    <3>1. n \in Nat /\ n \in 0 .. N /\ n + 1 \in 0 .. N /\ Cardinality(f[n]) >= n + 1
      BY <1>4, <2>1
    <3>2. PICK x \in Successors(f[n]) : x \notin f[n]
      BY <3>1, WalkSettles
    <3>3. f[n] \cup {x} \in SUBSET f[n + 1]
      <4>1. \A j \in Nat : j + 1 <= N => f[j + 1] = f[j] \cup Successors(f[j])
        BY WalkStep
      <4>2. f[n + 1] = f[n] \cup Successors(f[n])
        BY <2>1, <3>1, <4>1
      <4> QED BY <3>2, <4>2
    <3>4. Cardinality(f[n] \cup {x}) = Cardinality(f[n]) + 1
      BY <1>2, <3>1, <3>2, FS_AddElement
    <3>5. Cardinality(f[n] \cup {x}) <= Cardinality(f[n + 1])
      BY <1>2, <3>1, <3>3, FS_Subset
    <3>6. Cardinality(f[n]) \in Nat /\ Cardinality(f[n + 1]) \in Nat
      BY <1>2, <3>1
    <3> QED BY <3>1, <3>4, <3>5, <3>6
  <2> QED BY <1>4, <2>1
<1>5. N \in T
  <2> HIDE DEF T
  <2> QED BY <1>3, <1>4, SetInduction DEF T
<1>6. Cardinality(U) \in Nat
  BY FS_CardinalityType
<1> QED BY <1>2, <1>5, <1>6

\* The assessment reaches the last layer of the walk from the proposal's roots.
LEMMA ReachedByWalk ==
  ASSUME NEW change, Cardinality(Objects) \in Nat
  PROVE  \E f : /\ IsWalk(f, RootsOf(change), Cardinality(Objects))
                /\ Reached(change) = f[Cardinality(Objects)]
<1> DEFINE f == CHOOSE g : IsWalk(g, RootsOf(change), Cardinality(Objects))
<1>1. IsWalk(f, RootsOf(change), Cardinality(Objects))
  <2>1. \E g : IsWalk(g, RootsOf(change), Cardinality(Objects))
    BY WalkExists
  <2> HIDE DEF IsWalk
  <2> QED BY <2>1, Zenon
<1>2. Reached(change) = f[Cardinality(Objects)]
  BY Zenon DEF Reached, IsWalk, Successors
<1> HIDE DEF f
<1> QED BY <1>1, <1>2

\* The references that exist now, at their current versions.
CurrentRefs == {Ref(o) : o \in Objects}

\* There are finitely many, and no more than there are objects.
LEMMA CurrentRefsFinite ==
  /\ Cardinality(Objects) \in Nat
  /\ IsFiniteSet(CurrentRefs) /\ Cardinality(CurrentRefs) <= Cardinality(Objects)
<1>1. IsFiniteSet(Roots)
  <2>1. IsFiniteSet({"ProjectSpec"}) /\ IsFiniteSet({"TemplateCopy"}) /\ IsFiniteSet({"RuleSet"})
    BY FS_Singleton
  <2>2. IsFiniteSet({"ProjectSpec"} \cup {"TemplateCopy"})
    BY <2>1, FS_Union
  <2>3. IsFiniteSet(({"ProjectSpec"} \cup {"TemplateCopy"}) \cup {"RuleSet"})
    BY <2>1, <2>2, FS_Union
  <2>4. Roots = ({"ProjectSpec"} \cup {"TemplateCopy"}) \cup {"RuleSet"}
    BY DEF Roots
  <2> QED BY <2>3, <2>4
<1>2. IsFiniteSet(Objects)
  BY <1>1, FS_Union, ConstantsAssumption DEF Objects
<1>3. Cardinality(Objects) \in Nat
  BY <1>2, FS_CardinalityType
<1> DEFINE f == [o \in Objects |-> Ref(o)]
<1>4. f \in Surjection(Objects, CurrentRefs)
  BY DEF Surjection, CurrentRefs
<1> HIDE DEF f
<1>5. IsFiniteSet(CurrentRefs) /\ Cardinality(CurrentRefs) <= Cardinality(Objects)
  BY <1>2, <1>4, FS_Surjection
<1> QED BY <1>3, <1>5

\* A valid dependency is about current references.
LEMMA EdgesAreCurrent ==
  ASSUME TypeOK, NEW e \in ValidEdges
  PROVE  /\ e.target \in CurrentRefs /\ IsCurrent(e.target)
         /\ e.target = Ref(e.target.obj)
<1>1. e.target \in Refs /\ IsCurrent(e.target)
  BY DEF TypeOK, ValidEdges
<1>2. e.target.obj \in Objects /\ e.target.version = VersionOf(e.target.obj)
  BY <1>1 DEF Refs, IsCurrent
<1>3. e.target = Ref(e.target.obj)
  BY <1>1, <1>2 DEF Ref, Refs
<1> QED BY <1>1, <1>2, <1>3 DEF CurrentRefs

\* The roots of a proposal are current references, and there is one.
LEMMA RootsAreCurrent ==
  ASSUME NEW change
  PROVE  RootsOf(change) \subseteq CurrentRefs /\ RootsOf(change) # {}
<1>1. \A o \in Roots : o \in Objects
  BY DEF Objects
<1>2. "ProjectSpec" \in Roots
  BY DEF Roots
<1>3. Ref("ProjectSpec") \in RootsOf(change)
  BY <1>2 DEF RootsOf
<1> QED BY <1>1, <1>2, <1>3 DEF RootsOf, CurrentRefs

(* The impact walk (the layers bounded by the number of objects) computes  *)
(* reachability: what an assessment reaches contains the changed roots, is *)
(* closed under the confirmed dependencies that propagate, and lies within *)
(* every set that is so.  No impact is missed for want of layers, and none *)
(* is invented.                                                            *)
THEOREM WalkIsReachability ==
  ASSUME TypeOK, NEW change
  PROVE  /\ RootsOf(change) \subseteq Reached(change)
         /\ Successors(Reached(change)) \subseteq Reached(change)
         /\ \A L : RootsOf(change) \subseteq L /\ Successors(L) \subseteq L =>
                     Reached(change) \subseteq L
<1> DEFINE N == Cardinality(Objects)
           R == RootsOf(change)
<1>1. N \in Nat /\ IsFiniteSet(CurrentRefs) /\ Cardinality(CurrentRefs) <= N
  BY CurrentRefsFinite
<1>2. PICK f : IsWalk(f, R, N) /\ Reached(change) = f[N]
  BY <1>1, ReachedByWalk
<1>3. \A L : Successors(L) \subseteq CurrentRefs
  BY EdgesAreCurrent DEF Successors
<1>4. R \subseteq CurrentRefs /\ R # {}
  BY RootsAreCurrent
<1> HIDE DEF N, R
<1>5. Successors(f[N]) \subseteq f[N]
  BY <1>1, <1>2, <1>3, <1>4, WalkCloses
<1>6. R \subseteq f[N]
  BY <1>1, <1>2, WalkKeepsRoots
<1>7. ASSUME NEW L, R \subseteq L, Successors(L) \subseteq L PROVE f[N] \subseteq L
  <2>1. \A M \in SUBSET L : Successors(M) \subseteq L
    BY <1>7 DEF Successors
  <2> QED BY <1>1, <1>2, <1>7, <2>1, WalkInside
<1> QED BY <1>2, <1>5, <1>6, <1>7 DEF R

-----------------------------------------------------------------------------
(* What a release rests on *)

\* A task closed by a person names the object it is about in its evidence.
EvidenceNamesTarget ==
    \A t \in tasks : t.status = "DONE" /\ t.action # "BLOCK_RELEASE" => t.target \in t.evidence

\* A task is there because of an obligation of its change set.
TasksHaveObligations ==
    \A t \in tasks : \E i \in Obligations(assessments[t.change]) :
        i.action = t.action /\ i.target.obj = t.target.obj

\* What an applied change set obliges people to look at is among the objects its
\* assessment lists: the stabilization re-reads these.
ObligationsListed ==
    \A c \in ChangeIDs : IsClosed(c) =>
        \A i \in Obligations(assessments[c]) :
            \E o \in assessments[c].objects : o.ref.obj = i.target.obj

\* The specification, the template copy and the rule set have a version.
RootsExist == project.spec > 0 /\ project.copy > 0 /\ project.rules > 0

\* The inductive invariant behind the release theorems.
ReleaseInv == EvidenceNamesTarget /\ TasksHaveObligations /\ ObligationsListed /\ RootsExist

\* Replacing one task keeps the evidence in order when the new record has it so.
LEMMA ReplaceNames ==
  ASSUME EvidenceNamesTarget, NEW t \in tasks, NEW next, Replace(t, next),
         next.status = "DONE" /\ next.action # "BLOCK_RELEASE" => next.target \in next.evidence
  PROVE  EvidenceNamesTarget'
BY DEF EvidenceNamesTarget, Replace

\* The task actions keep the evidence in order: a completion cites the version
\* it re-targets the task at.
LEMMA TaskActionNames ==
  ASSUME TypeOK, EvidenceNamesTarget, NEW t \in tasks, NEW u \in writers, ActOnImpactTask(t, u)
  PROVE  EvidenceNamesTarget'
<1>1. t \in Task
  BY DEF TypeOK
<1>2. ASSUME NEW s, s # "DONE", Replace(t, [t EXCEPT !.status = s])
      PROVE  EvidenceNamesTarget'
  <2>1. [t EXCEPT !.status = s].status # "DONE"
    BY <1>1, <1>2 DEF Task
  <2> QED BY <1>2, <2>1, ReplaceNames
<1>3. ASSUME NEW a, AssignTask(t, u, a) PROVE EvidenceNamesTarget'
  <2>1. t.status # "DONE" /\ Replace(t, [t EXCEPT !.assignee = a])
    BY <1>3, Zenon DEF AssignTask, Workable
  <2>2. [t EXCEPT !.assignee = a].status # "DONE"
    BY <1>1, <2>1 DEF Task
  <2> QED BY <2>1, <2>2, ReplaceNames
<1>4. ASSUME NEW cited \in SUBSET CitedObjects, CompleteTask(t, u, cited)
      PROVE  EvidenceNamesTarget'
  <2> DEFINE ref == Ref(t.target.obj)
             ev == {ref} \cup {Ref(o) : o \in cited}
             next == [t EXCEPT !.status = "DONE", !.target = ref, !.evidence = ev]
  <2>1. Replace(t, next)
    BY <1>4, Zenon DEF CompleteTask
  <2>2. ref \in ev
    OBVIOUS
  <2>3. next.target \in next.evidence
    <3> HIDE DEF ref, ev
    <3> QED BY <1>1, <2>2 DEF Task
  <2> HIDE DEF next
  <2> QED BY <2>1, <2>3, ReplaceNames
<1>5. \/ \E s : s # "DONE" /\ Replace(t, [t EXCEPT !.status = s])
      \/ \E a : AssignTask(t, u, a)
      \/ \E cited \in SUBSET CitedObjects : CompleteTask(t, u, cited)
  <2>1. CASE \E act \in {"assign", "start", "wait", "complete", "dismiss"} :
                MarkTaskStale(t, u, act)
    <3>1. Replace(t, [t EXCEPT !.status = "STALE"])
      BY <2>1, Zenon DEF MarkTaskStale
    <3>2. "STALE" # "DONE"
      OBVIOUS
    <3> QED BY <3>1, <3>2, Zenon
  <2>2. CASE StartTask(t, u)
    <3>1. Replace(t, [t EXCEPT !.status = "IN_PROGRESS"])
      BY <2>2, Zenon DEF StartTask
    <3>2. "IN_PROGRESS" # "DONE"
      OBVIOUS
    <3> QED BY <3>1, <3>2, Zenon
  <2>3. CASE WaitTask(t, u)
    <3>1. Replace(t, [t EXCEPT !.status = "WAITING_USER"])
      BY <2>3, Zenon DEF WaitTask
    <3>2. "WAITING_USER" # "DONE"
      OBVIOUS
    <3> QED BY <3>1, <3>2, Zenon
  <2>4. CASE DismissTask(t, u)
    <3>1. Replace(t, [t EXCEPT !.status = "DISMISSED"])
      BY <2>4, Zenon DEF DismissTask
    <3>2. "DISMISSED" # "DONE"
      OBVIOUS
    <3> QED BY <3>1, <3>2, Zenon
  <2> QED BY <2>1, <2>2, <2>3, <2>4, Zenon DEF ActOnImpactTask
<1> QED BY <1>2, <1>3, <1>4, <1>5

\* A preflight proof closes only tasks that block the release.
LEMMA PreflightNames ==
  ASSUME TypeOK, EvidenceNamesTarget, NEW c \in ChangeIDs, AcknowledgeImpactPreflight(c)
  PROVE  EvidenceNamesTarget'
<1> DEFINE proof == [obj |-> "Preflight", version |-> project.version]
           R == {t \in tasks : /\ t.change = c /\ t.revision = project.context
                               /\ t.action = "BLOCK_RELEASE"}
<1>1. tasks' = (tasks \ R) \cup {[t EXCEPT !.status = "DONE", !.evidence = {proof}] : t \in R}
  BY Zenon DEF AcknowledgeImpactPreflight
<1>2. \A t \in R : t \in Task /\ t.action = "BLOCK_RELEASE"
  BY DEF TypeOK
<1> HIDE DEF R, proof
<1>3. ASSUME NEW t \in R
      PROVE  [t EXCEPT !.status = "DONE", !.evidence = {proof}].action = "BLOCK_RELEASE"
  BY <1>2 DEF Task
<1>4. \A u \in tasks' : u \in tasks \/ u.action = "BLOCK_RELEASE"
  BY <1>1, <1>3
<1> QED BY <1>4 DEF EvidenceNamesTarget

\* A stabilization re-opens the tasks it rewrites.
LEMMA StabilizeNames ==
  ASSUME TypeOK, EvidenceNamesTarget, NEW R \in SUBSET tasks, NEW at,
         tasks' = (tasks \ R) \cup {Repost(t, at) : t \in R}
  PROVE  EvidenceNamesTarget'
<1>1. ASSUME NEW t \in R PROVE Repost(t, at).status = "OPEN"
  <2>1. t \in Task
    BY DEF TypeOK
  <2> QED BY <2>1 DEF Repost, Task
<1>2. \A u \in tasks' : u \in tasks \/ u.status = "OPEN"
  BY <1>1
<1> QED BY <1>2 DEF EvidenceNamesTarget

\* An apply raises no task that is already done.
LEMMA ApplyNames ==
  ASSUME EvidenceNamesTarget, NEW c \in ChangeIDs, NEW k \in Keys, ApplyChangeSet(c, k)
  PROVE  EvidenceNamesTarget'
<1> DEFINE next == AppliedProject(changes[c])
<1>1. tasks' = tasks \cup RaisedTasks(c, assessments[c], next)
  BY Zenon DEF ApplyChangeSet
<1> HIDE DEF next
<1>2. \A t \in RaisedTasks(c, assessments[c], next) : t.status \in {"OPEN", "STALE"}
  BY DEF RaisedTasks
<1> QED BY <1>1, <1>2 DEF EvidenceNamesTarget

\* Every step keeps the evidence in order.
LEMMA NamesStep ==
  ASSUME TypeOK, EvidenceNamesTarget, [Next]_vars
  PROVE  EvidenceNamesTarget'
<1>1. ASSUME UNCHANGED tasks PROVE EvidenceNamesTarget'
  BY <1>1 DEF EvidenceNamesTarget
<1>2. CASE UNCHANGED vars
  BY <1>1, <1>2 DEF vars
<1>3. ASSUME NEW c \in ChangeIDs, Propose(c) PROVE EvidenceNamesTarget'
  BY <1>1, <1>3, ProposeStores DEF ProposalStored
<1>4. ASSUME NEW c \in ChangeIDs, NEW k \in Keys, Apply(c, k) PROVE EvidenceNamesTarget'
  <2>1. ApplyChangeSet(c, k) \/ UNCHANGED tasks
    BY <1>4, Zenon DEF Apply, BeginApply, ReplayApply, RefuseApply, MarkStale
  <2> QED BY <1>1, <2>1, ApplyNames
<1>5. ASSUME NEW ch \in Chapters, SaveChapter(ch) \/ ConfirmChapter(ch)
      PROVE  EvidenceNamesTarget'
  BY <1>1, <1>5, Zenon DEF SaveChapter, ConfirmChapter
<1>6. ASSUME NEW u \in Users, ChangeWriters(u) PROVE EvidenceNamesTarget'
  BY <1>1, <1>6, Zenon DEF ChangeWriters
<1>7. ASSUME Dependencies PROVE EvidenceNamesTarget'
  BY <1>1, <1>7, Zenon DEF Dependencies, CreateDependencyEdge, DecideDependencyEdge
<1>8. ASSUME Stabilize PROVE EvidenceNamesTarget'
  BY <1>1, <1>8, StabilizeStores, StabilizeNames DEF VerdictStored
<1> QED
  BY <1>2, <1>3, <1>4, <1>5, <1>6, <1>7, <1>8, TaskActionNames, PreflightNames DEF Next

\* The roots keep a version: an apply only ever raises it.
LEMMA RootsStep ==
  ASSUME TypeOK, RootsExist, [Next]_vars
  PROVE  RootsExist'
<1>1. project.spec \in Nat /\ project.copy \in Nat /\ project.rules \in Nat
  BY DEF TypeOK, Revisions
<1>2. ASSUME UNCHANGED project PROVE RootsExist'
  BY <1>2 DEF RootsExist
<1>3. ASSUME Bump PROVE RootsExist'
  <2>1. project' = [project EXCEPT !.version = @ + 1]
    BY <1>3, Zenon DEF Bump
  <2>2. project'.spec = project.spec /\ project'.copy = project.copy /\ project'.rules = project.rules
    BY <2>1 DEF TypeOK
  <2> QED BY <2>2 DEF RootsExist
<1>4. ASSUME NEW c \in ChangeIDs, NEW k \in Keys, ApplyChangeSet(c, k) PROVE RootsExist'
  <2>1. project' = AppliedProject(changes[c])
    BY <1>4, Zenon DEF ApplyChangeSet
  <2>2. /\ project'.spec = project.spec + 1
        /\ project'.copy \in {project.copy, project.copy + 1}
        /\ project'.rules \in {project.rules, project.rules + 1}
    BY <2>1 DEF AppliedProject, TypeOK
  <2> QED BY <1>1, <2>2 DEF RootsExist
<1>5. \/ UNCHANGED project \/ Bump
      \/ \E c \in ChangeIDs, k \in Keys : ApplyChangeSet(c, k)
  <2>1. CASE UNCHANGED vars
    BY <2>1 DEF vars
  <2>2. ASSUME NEW c \in ChangeIDs, Propose(c) PROVE UNCHANGED project
    BY <2>2, ProposeStores DEF ProposalStored
  <2>3. ASSUME NEW c \in ChangeIDs, AcknowledgeImpactPreflight(c) PROVE UNCHANGED project
    BY <2>3, Zenon DEF AcknowledgeImpactPreflight, OnlyTasks
  <2>4. ASSUME NEW c \in ChangeIDs, NEW k \in Keys, Apply(c, k)
        PROVE  UNCHANGED project \/ ApplyChangeSet(c, k)
    BY <2>4, Zenon DEF Apply, BeginApply, ReplayApply, RefuseApply, MarkStale
  <2>5. ASSUME NEW ch \in Chapters, SaveChapter(ch) \/ ConfirmChapter(ch) PROVE Bump
    BY <2>5, Zenon DEF SaveChapter, ConfirmChapter
  <2>6. ASSUME NEW t \in tasks, NEW u \in writers, ActOnImpactTask(t, u)
        PROVE  UNCHANGED project
    BY <2>6, Zenon DEF ActOnImpactTask, MarkTaskStale, AssignTask, StartTask, WaitTask,
       DismissTask, CompleteTask, OnlyTasks
  <2>7. ASSUME NEW u \in Users, ChangeWriters(u) PROVE UNCHANGED project
    BY <2>7, Zenon DEF ChangeWriters
  <2>8. ASSUME Dependencies PROVE UNCHANGED project
    BY <2>8, Zenon DEF Dependencies, CreateDependencyEdge, DecideDependencyEdge
  <2>9. ASSUME Stabilize PROVE UNCHANGED project
    BY <2>9, StabilizeStores DEF VerdictStored
  <2> QED BY <2>1, <2>2, <2>3, <2>4, <2>5, <2>6, <2>7, <2>8, <2>9 DEF Next
<1> QED BY <1>2, <1>3, <1>4, <1>5

\* An assessment lists what it obliges people to look at: a confirmed dependency
\* of a reached object is an object the walk reaches, and the objects the
\* proposal names are listed beside them.
LEMMA AssessmentLists ==
  ASSUME TypeOK, NEW change, NEW i \in Obligations(Assessment(change))
  PROVE  \E o \in Assessment(change).objects : o.ref.obj = i.target.obj
<1> DEFINE reached == Reached(change)
<1>1. \/ \E e \in ValidEdges : /\ e.source \in reached /\ i.target = e.target
                               /\ Definite(e)
      \/ i.target \in Written(change.impacts)
  <2>1. CASE \E e \in {f \in ValidEdges : f.source \in reached} :
               i = [target |-> e.target, action |-> e.action,
                    definite |-> e.status = "confirmed"]
    <3>1. PICK e \in {f \in ValidEdges : f.source \in reached} :
               i = [target |-> e.target, action |-> e.action,
                    definite |-> e.status = "confirmed"]
      BY <2>1
    <3>2. i.definite /\ i.action # "NO_ACTION"
      BY DEF Obligations
    <3>3. i.target = e.target /\ i.action = e.action /\ (i.definite <=> e.status = "confirmed")
      <4> HIDE DEF reached
      <4> QED BY <3>1
    <3>4. e \in ValidEdges /\ e.source \in reached
      BY <3>1
    <3> QED BY <3>2, <3>3, <3>4 DEF Definite
  <2>2. CASE \E r \in Written(change.impacts) :
               i = [target |-> r, action |-> "REVIEW_REQUIRED", definite |-> TRUE]
    BY <2>2
  <2>3. i \in Assessment(change).impacts
    BY DEF Obligations
  <2>4. Assessment(change).impacts =
           {[target |-> e.target, action |-> e.action, definite |-> e.status = "confirmed"] :
                 e \in {f \in ValidEdges : f.source \in reached}}
           \cup {[target |-> r, action |-> "REVIEW_REQUIRED", definite |-> TRUE] :
                 r \in Written(change.impacts)}
    BY DEF Assessment
  <2> QED BY <2>1, <2>2, <2>3, <2>4
<1>2. Successors(reached) \subseteq reached
  BY WalkIsReachability
<1>3. i.target \in reached \cup Written(change.impacts)
  BY <1>1, <1>2 DEF Successors
<1>4. Assessment(change).objects =
         {[ref |-> r, confirmed |-> Confirmed(r.obj)] : r \in reached \cup Written(change.impacts)}
  BY DEF Assessment
<1>5. [ref |-> i.target, confirmed |-> Confirmed(i.target.obj)] \in Assessment(change).objects
  BY <1>3, <1>4, Zenon
<1> QED BY <1>5

\* An apply raises the tasks of an assessment that lists their objects.
LEMMA ApplyLists ==
  ASSUME TypeOK, TasksMatchObligations, TasksHaveObligations, ObligationsListed,
         NEW c \in ChangeIDs, NEW k \in Keys, ApplyChangeSet(c, k)
  PROVE  TasksHaveObligations' /\ ObligationsListed'
<1> DEFINE next == AppliedProject(changes[c])
           new == RaisedTasks(c, assessments[c], next)
<1>1. tasks' = tasks \cup new /\ UNCHANGED assessments
  BY Zenon DEF ApplyChangeSet
<1>2. assessments[c] = Assessment(changes[c])
  BY DEF ApplyChangeSet, AssessmentHolds
<1>3. \A x \in ChangeIDs \ {c} : changes'[x] = changes[x]
  BY ApplyOpensRevision
<1>4. \A t \in new : \E i \in Obligations(assessments[c]) :
         t.change = c /\ t.action = i.action /\ t.target = i.target
  <2> HIDE DEF next
  <2> QED BY DEF RaisedTasks
<1> HIDE DEF next, new
<1>5. TasksHaveObligations'
  <2> SUFFICES ASSUME NEW t \in tasks'
               PROVE  \E i \in Obligations(assessments[t.change]) :
                         i.action = t.action /\ i.target.obj = t.target.obj
    BY <1>1 DEF TasksHaveObligations, Obligations
  <2> QED BY <1>1, <1>4 DEF TasksHaveObligations
<1>6. ObligationsListed'
  <2> SUFFICES ASSUME NEW x \in ChangeIDs, IsClosed(x)', NEW i \in Obligations(assessments[x])
               PROVE  \E o \in assessments[x].objects : o.ref.obj = i.target.obj
    BY <1>1 DEF ObligationsListed, Obligations
  <2>1. CASE x = c
    BY <1>2, <2>1, AssessmentLists
  <2>2. CASE x # c
    BY <1>3, <2>2 DEF ObligationsListed, IsClosed, Exists
  <2> QED BY <2>1, <2>2
<1> QED BY <1>5, <1>6

\* A step that keeps tasks, closed rows and their assessments keeps both.
LEMMA KeptLists ==
  ASSUME TypeOK, TasksMatchObligations, TasksHaveObligations, ObligationsListed,
         ClosedKept, TasksKept, AssessmentsKept
  PROVE  TasksHaveObligations' /\ ObligationsListed'
<1>1. TasksHaveObligations'
  <2> SUFFICES ASSUME NEW u \in tasks'
               PROVE  \E i \in Obligations(assessments'[u.change]) :
                         i.action = u.action /\ i.target.obj = u.target.obj
    BY DEF TasksHaveObligations, Obligations
  <2>1. PICK t \in tasks : SameTask(t, u)
    BY DEF TasksKept
  <2>2. t.change \in ChangeIDs /\ IsClosed(t.change)
    BY DEF TypeOK, Task, TasksMatchObligations, TasksBelong
  <2>3. assessments'[t.change] = assessments[t.change]
    BY <2>2 DEF AssessmentsKept
  <2> QED BY <2>1, <2>3 DEF SameTask, TasksHaveObligations
<1>2. ObligationsListed'
  <2> SUFFICES ASSUME NEW x \in ChangeIDs, IsClosed(x)', NEW i \in Obligations(assessments'[x])
               PROVE  \E o \in assessments'[x].objects : o.ref.obj = i.target.obj
    BY DEF ObligationsListed, Obligations
  <2>1. IsClosed(x) /\ assessments'[x] = assessments[x]
    BY DEF ClosedKept, AssessmentsKept
  <2> QED BY <2>1 DEF ObligationsListed
<1> QED BY <1>1, <1>2

\* ReleaseInv holds of every reachable state.
LEMMA ReleaseInvariant == Spec => []ReleaseInv
<1>1. Init => ReleaseInv
  <2> SUFFICES ASSUME Init PROVE ReleaseInv
    OBVIOUS
  <2>1. tasks = {} /\ \A c \in ChangeIDs : ~IsClosed(c)
    BY DEF Init, IsClosed, Exists
  <2>2. project.spec = 1 /\ project.copy = 1 /\ project.rules = 1
    BY DEF Init
  <2> QED
    BY <2>1, <2>2 DEF ReleaseInv, EvidenceNamesTarget, TasksHaveObligations,
       ObligationsListed, RootsExist
<1>2. TypeOK /\ (TasksMatchObligations /\ AssessmentsTable) /\ ReleaseInv /\ [Next]_vars
      => ReleaseInv'
  <2> SUFFICES ASSUME TypeOK, TasksMatchObligations, AssessmentsTable,
                      ReleaseInv, [Next]_vars
               PROVE  ReleaseInv'
    OBVIOUS
  <2>1. EvidenceNamesTarget' /\ RootsExist'
    BY NamesStep, RootsStep DEF ReleaseInv
  <2>2. TasksHaveObligations' /\ ObligationsListed'
    <3>1. CASE ClosedKept /\ TasksKept /\ AssessmentsKept
      BY <3>1, KeptLists DEF ReleaseInv
    <3>2. ASSUME NEW c \in ChangeIDs, NEW k \in Keys, ApplyChangeSet(c, k)
          PROVE  TasksHaveObligations' /\ ObligationsListed'
      BY <3>2, ApplyLists DEF ReleaseInv
    <3> QED BY <3>1, <3>2, OnlyApplyCloses, OnlyApplyRaises
  <2> QED BY <2>1, <2>2 DEF ReleaseInv
<1> QED BY <1>1, <1>2, LifecycleTypeCorrect, TasksInvariant, PTL DEF Spec

\* An open release gate means that every chapter the current revision obliged
\* people to look at again is confirmed at the version that would be released,
\* for any number of change sets, chapters and dependencies.
THEOREM ReleasedChaptersTheorem == Spec => []ReleasedChaptersWereReviewed
<1>1. ASSUME TasksMatchObligations, ReleaseInv PROVE ReleasedChaptersWereReviewed
  <2> SUFFICES ASSUME GateOpen, NEW c \in ChangeIDs, IsClosed(c),
                      changes[c].target = project.context,
                      NEW i \in Obligations(assessments[c]),
                      i.action \in {"REVIEW_REQUIRED", "INVALIDATE_CONFIRMATION"}
               PROVE  Confirmed(i.target.obj)
    BY DEF ReleasedChaptersWereReviewed
  <2> DEFINE S == {t \in tasks : t.revision = project.context}
  <2>1. PICK t \in tasks : /\ t.change = c /\ t.action = i.action
                           /\ t.target.obj = i.target.obj
    BY <1>1 DEF TasksMatchObligations, ObligationsRaised
  <2>2. t \in S
    BY <1>1, <2>1 DEF TasksMatchObligations, TasksBelong
  <2>3. /\ \A x \in S : x.status # "STALE"
        /\ OpenBlocking(S) = {} /\ Replaced(S) = {} /\ Unconfirmed(S) = {}
    BY DEF GateOpen
  <2> HIDE DEF S
  <2>4. t.status = "DONE" /\ t.action # "BLOCK_RELEASE"
    BY <2>1, <2>2, <2>3 DEF OpenBlocking, Blocking
  <2>5. t \in Evidenced(S) /\ t.target \in t.evidence
    BY <1>1, <2>2, <2>4 DEF Evidenced, ReleaseInv, EvidenceNamesTarget
  <2>6. IsCurrent(t.target)
    BY <2>3, <2>5 DEF Replaced
  <2>7. t.action \in NeedsConfirmation
    BY <2>1 DEF NeedsConfirmation
  <2>8. Confirmed(t.target.obj)
    BY <2>3, <2>5, <2>6, <2>7 DEF Unconfirmed
  <2> QED BY <2>1, <2>8
<1> QED BY <1>1, TasksInvariant, ReleaseInvariant, PTL

-----------------------------------------------------------------------------
(* What an apply acts on, what a stabilization finds done *)

\* Only an apply makes a row applied.
LEMMA OnlyApplyApplies ==
  ASSUME TypeOK, [Next]_vars, NEW c \in ChangeIDs, Becomes(c, "applied")
  PROVE  \E k \in Keys : ApplyChangeSet(c, k)
<1>1. ASSUME NEW d \in ChangeIDs, NEW row, Put(d, row), row.status # "applied" PROVE FALSE
  BY <1>1 DEF Put, Becomes, TypeOK
<1>2. ASSUME UNCHANGED changes PROVE FALSE
  BY <1>2 DEF Becomes
<1>3. ASSUME NEW d \in ChangeIDs, NEW row \in Change, ProposalStored(d, row) PROVE FALSE
  BY <1>1, <1>3 DEF ProposalStored, Closed
<1>4. ASSUME NEW d \in ChangeIDs, NEW k \in Keys, MarkStale(d, k) PROVE FALSE
  <2>1. changes[d] \in Change
    BY <1>4, RowTyped DEF MarkStale, CanMove
  <2>2. [changes[d] EXCEPT !.status = "stale"].status # "applied"
    BY <2>1 DEF Change
  <2>3. Put(d, [changes[d] EXCEPT !.status = "stale"])
    BY <1>4 DEF MarkStale
  <2> QED BY <1>1, <2>2, <2>3
<1>5. ASSUME Stabilize PROVE FALSE
  <2>1. ASSUME NEW d \in ChangeIDs, RowStabilized(d) PROVE FALSE
    <3> DEFINE row == [changes[d] EXCEPT !.status = "stabilized"]
    <3>1. changes[d] \in Change /\ Put(d, row)
      BY <2>1, RowTyped DEF RowStabilized
    <3>2. row.status # "applied"
      BY <3>1 DEF Change
    <3> HIDE DEF row
    <3> QED BY <1>1, <3>1, <3>2
  <2> QED BY <1>2, <1>5, <2>1, StabilizeStores DEF VerdictStored
<1>6. ASSUME NEW d \in ChangeIDs, NEW k \in Keys, ApplyChangeSet(d, k)
      PROVE  \E q \in Keys : ApplyChangeSet(c, q)
  <2>1. CASE d = c
    BY <1>6, <2>1
  <2>2. CASE d # c
    BY <1>6, <2>2, ApplyOpensRevision DEF Becomes
  <2> QED BY <2>1, <2>2
<1> QED BY <1>2, <1>3, <1>4, <1>5, <1>6, StepKinds DEF Storing, RowsKept, ReplayApply

\* The objects an assessment made now reaches are at their current versions.
LEMMA ReachedAreCurrent ==
  ASSUME TypeOK, RootsExist, NEW change
  PROVE  \A r \in Reached(change) : IsCurrent(r)
<1> DEFINE L == {r \in CurrentRefs : IsCurrent(r)}
<1>1. Successors(L) \subseteq L
  BY EdgesAreCurrent DEF Successors
<1>2. \A o \in Roots : IsCurrent(Ref(o))
  BY DEF RootsExist, Roots, IsCurrent, Ref, VersionOf
<1>3. RootsOf(change) \subseteq L
  <2>1. RootsOf(change) \subseteq CurrentRefs
    BY RootsAreCurrent
  <2>2. \A r \in RootsOf(change) : IsCurrent(r)
    <3>1. "ProjectSpec" \in Roots
      BY DEF Roots
    <3> QED BY <1>2, <3>1 DEF RootsOf
  <2> QED BY <2>1, <2>2
<1> HIDE DEF L
<1>4. Reached(change) \subseteq L
  BY <1>1, <1>3, WalkIsReachability
<1> QED BY <1>4 DEF L

\* An apply acts on the picture its assessment recorded: every object listed is
\* at the recorded version with the recorded confirmation, whatever was saved,
\* confirmed or connected between the assessment and the apply.
THEOREM AppliedAsAssessedTheorem == Spec => AppliedAsAssessed
<1>1. ASSUME TypeOK, ReleaseInv, [Next]_vars, NEW c \in ChangeIDs, Becomes(c, "applied"),
             NEW o \in assessments[c].objects
      PROVE  IsCurrent(o.ref) /\ Confirmed(o.ref.obj) = o.confirmed
  <2>1. PICK k \in Keys : ApplyChangeSet(c, k)
    BY <1>1, OnlyApplyApplies
  <2>2. assessments[c] = Assessment(changes[c]) /\ ~BasisMoved(changes[c])
    BY <2>1 DEF ApplyChangeSet, AssessmentHolds
  <2> DEFINE listed == Reached(changes[c]) \cup Written(changes[c].impacts)
  <2>3. PICK r \in listed : o = [ref |-> r, confirmed |-> Confirmed(r.obj)]
    BY <1>1, <2>2 DEF Assessment
  <2>4. IsCurrent(r)
    <3>1. CASE r \in Reached(changes[c])
      BY <1>1, <3>1, ReachedAreCurrent DEF ReleaseInv
    <3>2. CASE r \in Written(changes[c].impacts)
      <4>1. r.version > 0 /\ r = Ref(r.obj)
        BY <2>2, <3>2 DEF Written, BasisMoved
      <4> QED BY <4>1 DEF IsCurrent, Ref
    <3> QED BY <3>1, <3>2
  <2>5. o.ref = r /\ o.confirmed = Confirmed(r.obj)
    <3> HIDE DEF listed
    <3> QED BY <2>3
  <2> QED BY <2>4, <2>5
<1>2. TypeOK /\ ReleaseInv /\ [Next]_vars =>
        [\A c \in ChangeIDs : Becomes(c, "applied") =>
            \A o \in assessments[c].objects :
                IsCurrent(o.ref) /\ Confirmed(o.ref.obj) = o.confirmed]_vars
  BY <1>1
<1> QED BY <1>2, LifecycleTypeCorrect, ReleaseInvariant, PTL DEF Spec, AppliedAsAssessed

\* On a snapshot store no judgement waits for its commit.
NoWindow == stabilizing.step # "commit"

\* A snapshot store stores the verdict in the step that judges.
LEMMA WindowStep ==
  ASSUME SnapshotStore, NoWindow, [Next]_vars
  PROVE  NoWindow'
<1>1. ASSUME UNCHANGED stabilizing PROVE NoWindow'
  BY <1>1 DEF NoWindow
<1>2. ASSUME stabilizing' = Idle PROVE NoWindow'
  BY <1>2 DEF NoWindow, Idle
<1>3. CASE UNCHANGED vars
  BY <1>1, <1>3 DEF vars
<1>4. ASSUME NEW c \in ChangeIDs, Propose(c) PROVE NoWindow'
  BY <1>1, <1>4, Zenon DEF Propose, CreateChangeSet, CreateChangeDraft, EditChangeDraft,
     AssessChangeSet, RejectChangeSet, ReassessChangeSet
<1>5. ASSUME NEW c \in ChangeIDs, NEW k \in Keys, Apply(c, k) PROVE NoWindow'
  BY <1>1, <1>5, Zenon DEF Apply, BeginApply, ReplayApply, RefuseApply, MarkStale, ApplyChangeSet
<1>6. ASSUME NEW ch \in Chapters, SaveChapter(ch) \/ ConfirmChapter(ch) PROVE NoWindow'
  BY <1>1, <1>6, Zenon DEF SaveChapter, ConfirmChapter
<1>7. ASSUME NEW t \in tasks, NEW u \in writers, ActOnImpactTask(t, u) PROVE NoWindow'
  BY <1>1, <1>7, Zenon DEF ActOnImpactTask, MarkTaskStale, AssignTask, StartTask, WaitTask,
     DismissTask, CompleteTask, OnlyTasks
<1>8. ASSUME NEW c \in ChangeIDs, AcknowledgeImpactPreflight(c) PROVE NoWindow'
  BY <1>1, <1>8, Zenon DEF AcknowledgeImpactPreflight, OnlyTasks
<1>9. ASSUME NEW u \in Users, ChangeWriters(u) PROVE NoWindow'
  BY <1>1, <1>9, Zenon DEF ChangeWriters
<1>10. ASSUME Dependencies PROVE NoWindow'
  BY <1>1, <1>10, Zenon DEF Dependencies, CreateDependencyEdge, DecideDependencyEdge
<1>11. ASSUME NEW c \in ChangeIDs, BeginStabilize(c) PROVE NoWindow'
  <2>1. stabilizing' = [Idle EXCEPT !.step = "read", !.change = c,
                                    !.proofs = ProofsOf(InScope(c))]
    BY <1>11, Zenon DEF BeginStabilize
  <2> QED BY <2>1 DEF NoWindow, Idle
<1>12. ASSUME RecheckStabilize PROVE NoWindow'
  <2>1. \/ stabilizing' = Idle
        \/ stabilizing' = [stabilizing EXCEPT !.step = "write", !.basis = project.version]
    BY <1>12, Zenon DEF RecheckStabilize
  <2>2. [stabilizing EXCEPT !.step = "write", !.basis = project.version].step
           \in {stabilizing.step, "write"}
    OBVIOUS
  <2> QED BY <1>2, <2>1, <2>2 DEF NoWindow
<1>13. ASSUME NEW external \in BOOLEAN, StabilizeRevision(external) PROVE NoWindow'
  BY <1>2, <1>13, Zenon DEF StabilizeRevision, StoreVerdict
<1>14. ASSUME CommitStabilize \/ RefuseStabilize PROVE NoWindow'
  BY <1>2, <1>14, Zenon DEF CommitStabilize, RefuseStabilize, StoreVerdict
<1> QED
  BY <1>3, <1>4, <1>5, <1>6, <1>7, <1>8, <1>9, <1>10, <1>11, <1>12, <1>13, <1>14
  DEF Next, Stabilize

\* On a snapshot store only a stabilization the Owner's conditions do not block
\* makes a row stabilized.
LEMMA OnlyStabilizeStabilizes ==
  ASSUME SnapshotStore, TypeOK, NoWindow, [Next]_vars,
         NEW c \in ChangeIDs, Becomes(c, "stabilized")
  PROVE  IsClosed(c) /\ ~OwnerBlocked(c)
<1>1. ASSUME NEW d \in ChangeIDs, NEW row, Put(d, row), row.status # "stabilized" PROVE FALSE
  BY <1>1 DEF Put, Becomes, TypeOK
<1>2. ASSUME UNCHANGED changes PROVE FALSE
  BY <1>2 DEF Becomes
<1>3. ASSUME NEW d \in ChangeIDs, NEW row \in Change, ProposalStored(d, row) PROVE FALSE
  BY <1>1, <1>3 DEF ProposalStored, Closed
<1>4. ASSUME NEW d \in ChangeIDs, NEW k \in Keys, MarkStale(d, k) PROVE FALSE
  <2>1. changes[d] \in Change
    BY <1>4, RowTyped DEF MarkStale, CanMove
  <2>2. [changes[d] EXCEPT !.status = "stale"].status # "stabilized"
    BY <2>1 DEF Change
  <2>3. Put(d, [changes[d] EXCEPT !.status = "stale"])
    BY <1>4 DEF MarkStale
  <2> QED BY <1>1, <2>2, <2>3
<1>5. ASSUME NEW d \in ChangeIDs, NEW k \in Keys, ApplyChangeSet(d, k) PROVE FALSE
  <2> DEFINE row == [changes[d] EXCEPT !.status = "applied",
                                       !.target = AppliedProject(changes[d]).context]
  <2>1. changes[d] \in Change
    BY <1>5, RowTyped DEF ApplyChangeSet, CanMove
  <2>2. row.status # "stabilized"
    BY <2>1 DEF Change
  <2>3. Put(d, row)
    BY <1>5, Zenon DEF ApplyChangeSet
  <2> HIDE DEF row
  <2> QED BY <1>1, <2>2, <2>3
<1>6. ASSUME NEW external \in BOOLEAN, StabilizeRevision(external)
      PROVE  IsClosed(c) /\ ~OwnerBlocked(c)
  <2> DEFINE d == stabilizing.change
             row == [changes[d] EXCEPT !.status = "stabilized"]
  <2>1. \E R, at : StoreVerdict(d, R, at, Verdict(d, external))
    BY <1>6, Zenon DEF StabilizeRevision
  <2>2. IsClosed(d) /\ (UNCHANGED changes \/ (Put(d, row) /\ Verdict(d, external) = "STABILIZED"))
    BY <2>1, Zenon DEF StoreVerdict, IsClosed
  <2>3. Verdict(d, external) = "STABILIZED" => ~OwnerBlocked(d)
    BY DEF Verdict
  <2>4. Put(d, row) /\ ~OwnerBlocked(d) /\ IsClosed(d)
    BY <1>2, <2>2, <2>3
  <2>5. d = c
    BY <2>4 DEF Put, Becomes, TypeOK
  <2> HIDE DEF d
  <2> QED BY <2>4, <2>5
<1>7. ASSUME Stabilize PROVE IsClosed(c) /\ ~OwnerBlocked(c)
  <2>1. UNCHANGED changes \/ \E external \in BOOLEAN : StabilizeRevision(external)
    BY <1>7, Zenon DEF Stabilize, BeginStabilize, RecheckStabilize, CommitStabilize,
       RefuseStabilize, NoWindow
  <2> QED BY <1>2, <1>6, <2>1
<1> QED BY <1>2, <1>3, <1>4, <1>5, <1>7, StepKinds DEF Storing, RowsKept, ReplayApply

\* On a snapshot store a revision is stabilized only over finished work: each of
\* its blocking tasks is done on evidence that is current, or was overtaken and its chapter is
\* confirmed again or answered for by another task.
THEOREM StabilizedTheorem ==
  ASSUME SnapshotStore
  PROVE  Spec => StabilizedOverFinishedWork
<1> DEFINE Finished(c, t) ==
             \/ /\ t.status = "DONE"
                /\ t.action # "BLOCK_RELEASE" => \A r \in t.evidence : IsCurrent(r)
             \/ /\ t.status = "STALE"
                /\ \/ t.target.obj \in Roots \cup AccountedFor(c)
                   \/ Confirmed(t.target.obj)
<1>1. ASSUME TypeOK, ReleaseInv, NoWindow, [Next]_vars, NEW c \in ChangeIDs,
             Becomes(c, "stabilized"),
             NEW t \in InScope(c), t.action \in Blocking
      PROVE  Finished(c, t)
  <2>1. IsClosed(c) /\ ~OwnerBlocked(c)
    BY <1>1, OnlyStabilizeStabilizes
  <2> DEFINE S == InScope(c)
  <2>2. /\ OpenBlocking(S) = {} /\ Replaced(S) = {}
        /\ ObjectBlockers(c) = {}
    BY <2>1 DEF OwnerBlocked
  <2>3. t \in tasks /\ t.change = c /\ t \in S
    BY <1>1 DEF InScope
  <2> HIDE DEF S
  <2>4. t.status = "DONE" \/ t.status = "STALE"
    BY <1>1, <2>2, <2>3 DEF OpenBlocking
  <2>5. CASE t.status = "DONE"
    BY <2>2, <2>3, <2>5 DEF Replaced, Evidenced
  <2>6. CASE t.status = "STALE"
    <3>1. PICK i \in Obligations(assessments[c]) : i.target.obj = t.target.obj
      BY <1>1, <2>3 DEF ReleaseInv, TasksHaveObligations
    <3>2. PICK o \in assessments[c].objects : o.ref.obj = i.target.obj
      BY <1>1, <2>1 DEF ReleaseInv, ObligationsListed
    <3>3. o.ref.obj \in AccountedFor(c) \/ ObjectHolds(o.ref)
      BY <2>2 DEF ObjectBlockers
    <3>4. o.ref.obj \notin Roots /\ ObjectHolds(o.ref) => Confirmed(o.ref.obj)
      BY DEF ObjectHolds, Roots
    <3> QED BY <2>6, <3>1, <3>2, <3>3, <3>4
  <2> QED BY <2>4, <2>5, <2>6
<1>2. TypeOK /\ ReleaseInv /\ NoWindow /\ [Next]_vars =>
        [\A c \in ChangeIDs : Becomes(c, "stabilized") =>
            \A t \in InScope(c) : t.action \in Blocking => Finished(c, t)]_vars
  BY <1>1
<1>3. Init => NoWindow
  BY DEF Init, Idle, NoWindow
<1>4. NoWindow /\ [Next]_vars => NoWindow'
  BY WindowStep
<1> QED
  BY <1>2, <1>3, <1>4, LifecycleTypeCorrect, ReleaseInvariant, PTL
  DEF Spec, StabilizedOverFinishedWork
=============================================================================
