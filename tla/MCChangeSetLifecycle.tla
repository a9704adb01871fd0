------------------------ MODULE MCChangeSetLifecycle ------------------------
(***************************************************************************)
(* Instances of ChangeSetLifecycle for TLC.                                *)
(***************************************************************************)
EXTENDS ChangeSetLifecycle, TLC

CONSTANTS x1, x2, x3,  \* change sets
          a, b,        \* chapters
          k1, k2,      \* idempotency keys
          v1, v2,      \* field values
          owner, u1    \* members

\* The dependencies registered in each instance.
NoShapes == {}
ReleaseShapes == {<<"ProjectSpec", a, "BLOCK_RELEASE">>}
RegenerateShapes == {<<"ProjectSpec", b, "REGENERATE">>}
ChainShapes == {<<"ProjectSpec", a, "REGENERATE">>, <<a, b, "INVALIDATE_CONFIRMATION">>}

TaskShapes == ReleaseShapes \cup ChainShapes

(* One run, two subjects: a graph of two chapters up to the tasks an apply *)
(* raises, or one chapter with its tasks worked on and stabilized.         *)
GraphOfTwo ==
    /\ project.version <= 4
    /\ writers = Users
    /\ stabilizing = Idle
    /\ Cardinality({ck[2] : ck \in applying \cup {x \in DOMAIN answers : answers[x] # None}}) <= 1
    /\ \A e \in edges : "BLOCK_RELEASE" \notin {e.action, e.superseded}
    /\ \A t \in tasks : t.status = "OPEN" /\ t.assignee = None

ReleaseOfOne ==
    /\ chapters[b].version = 0 /\ Cardinality(edges) <= 1
    /\ \A c \in ChangeIDs : Exists(c) => \A ref \in changes[c].impacts : ref.obj # b
    /\ \A e \in edges : e.action = "BLOCK_RELEASE" /\ e.superseded = None

TasksBound == GraphOfTwo \/ ReleaseOfOne

\* Change-set rows, keys and values are interchangeable.
LifecycleSymmetry ==
    Permutations({x1, x2, x3} \cap ChangeIDs) \cup Permutations({k1, k2} \cap Keys)
    \cup Permutations({v1, v2} \cap Values)
=============================================================================
