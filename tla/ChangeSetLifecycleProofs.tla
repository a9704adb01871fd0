---------------------- MODULE ChangeSetLifecycleProofs ----------------------
(***************************************************************************)
(* Theorems about ChangeSetLifecycle for every set of change sets,         *)
(* chapters, members, keys, values and dependencies.                       *)
(***************************************************************************)
EXTENDS ChangeSetLifecycle, TLAPS

-----------------------------------------------------------------------------
(* Types *)

\* An object's current reference is a reference.
LEMMA RefTyped ==
  ASSUME TypeOK, NEW o \in Objects
  PROVE  Ref(o) \in Refs
<1>1. VersionOf(o) \in Revisions
  BY DEF TypeOK, VersionOf, Objects, Roots, Revisions
<1> QED
  BY <1>1 DEF Ref, Refs

\* A proposal made in a well-typed state is a row of the change-set table.
LEMMA ProposalTyped ==
  ASSUME TypeOK, NEW kind \in {"fields", "template", "rules"}, NEW new \in Values,
         NEW S \in SUBSET Chapters, NEW from \in ChangeIDs \cup {None}
  PROVE  Proposal(kind, new, S, from) \in Change
<1>1. Pinned(S) \in SUBSET Refs
  BY RefTyped DEF Pinned, Objects
<1> QED
  BY <1>1 DEF Proposal, Change, TypeOK, Statuses, Revisions

\* What an assessment obliges people to do is about references and actions.
LEMMA ObligationsTyped ==
  ASSUME TypeOK, NEW change \in Change, NEW i \in Obligations(Assessment(change))
  PROVE  i.target \in Refs /\ i.action \in Actions
<1>1. CASE \E e \in ValidEdges : /\ i.target = e.target /\ i.action = e.action
  BY <1>1 DEF TypeOK, ValidEdges
<1>2. CASE \E r \in Written(change.impacts) :
              i.target = r /\ i.action = "REVIEW_REQUIRED"
  BY <1>2 DEF Written, Change, Actions
<1> QED
  BY <1>1, <1>2 DEF Obligations, Assessment

\* Replacing a task by a well-typed one keeps the state well typed.
LEMMA ReplaceTyped ==
  ASSUME TypeOK, NEW t \in tasks, NEW next \in Task, Replace(t, next), OnlyTasks
  PROVE  TypeOK'
BY DEF TypeOK, Replace, OnlyTasks

\* The task actions keep the state well typed.
LEMMA TaskActionTyped ==
  ASSUME TypeOK, NEW t \in tasks, NEW u \in writers, ActOnImpactTask(t, u)
  PROVE  TypeOK'
<1>1. t \in Task /\ t.target \in Refs /\ t.target.obj \in Objects
  BY DEF TypeOK, Task, Refs
<1>2. ASSUME NEW act, MarkTaskStale(t, u, act)
      PROVE  TypeOK'
  <2>1. [t EXCEPT !.status = "STALE"] \in Task
    BY <1>1 DEF Task, TaskStatuses
  <2> QED
    BY <1>2, <2>1, ReplaceTyped DEF MarkTaskStale
<1>3. ASSUME NEW assignee \in Users, AssignTask(t, u, assignee)
      PROVE  TypeOK'
  <2>1. [t EXCEPT !.assignee = assignee] \in Task
    BY <1>1 DEF Task
  <2> QED
    BY <1>3, <2>1, ReplaceTyped DEF AssignTask
<1>4. ASSUME StartTask(t, u) PROVE TypeOK'
  <2>1. [t EXCEPT !.status = "IN_PROGRESS"] \in Task
    BY <1>1 DEF Task, TaskStatuses
  <2> QED
    BY <1>4, <2>1, ReplaceTyped DEF StartTask
<1>5. ASSUME WaitTask(t, u) PROVE TypeOK'
  <2>1. [t EXCEPT !.status = "WAITING_USER"] \in Task
    BY <1>1 DEF Task, TaskStatuses
  <2> QED
    BY <1>5, <2>1, ReplaceTyped DEF WaitTask
<1>6. ASSUME DismissTask(t, u) PROVE TypeOK'
  <2>1. [t EXCEPT !.status = "DISMISSED"] \in Task
    BY <1>1 DEF Task, TaskStatuses
  <2> QED
    BY <1>6, <2>1, ReplaceTyped DEF DismissTask
<1>7. ASSUME NEW cited \in SUBSET CitedObjects, CompleteTask(t, u, cited)
      PROVE  TypeOK'
  <2> DEFINE ref == Ref(t.target.obj)
             evidence == {ref} \cup {Ref(o) : o \in cited}
  <2>1. ref \in Refs
    BY <1>1, RefTyped
  <2>2. evidence \in SUBSET Refs
    BY <2>1, RefTyped, ConstantsAssumption
  <2>3. [t EXCEPT !.status = "DONE", !.target = ref, !.evidence = evidence] \in Task
    <3> HIDE DEF ref, evidence
    <3> QED
      BY <1>1, <2>1, <2>2 DEF Task, TaskStatuses
  <2> QED
    BY <1>7, <2>3, ReplaceTyped DEF CompleteTask
<1> QED
  BY <1>2, <1>3, <1>4, <1>5, <1>6, <1>7 DEF ActOnImpactTask

\* Storing a well-typed row keeps the table well typed.
LEMMA PutTyped ==
  ASSUME TypeOK, NEW c \in ChangeIDs, NEW change \in Change, Put(c, change)
  PROVE  changes' \in [ChangeIDs -> Change \cup {None}]
BY DEF TypeOK, Put

\* A row that exists is a row of the table.
LEMMA RowTyped ==
  ASSUME TypeOK, NEW c \in ChangeIDs, Exists(c)
  PROVE  changes[c] \in Change
BY DEF TypeOK, Exists

\* A proposal operation stores one row and at most that row's assessment: a new
\* row, or one still undecided, and never in a status that says the change was
\* applied.
ProposalStored(d, row) ==
    /\ Put(d, row)
    /\ row \in Change /\ row.status \notin Closed
    /\ Exists(d) => changes[d].status \in {"draft", "assessed"}
    /\ UNCHANGED assessments \/ \E a : assessments' = [assessments EXCEPT ![d] = a]
    /\ UNCHANGED <<project, chapters, edges, tasks, writers, applying, answers, stabilizing>>

\* Creating, editing, assessing, rejecting and reassessing store one row of
\* that kind.
LEMMA ProposeStores ==
  ASSUME TypeOK, NEW c \in ChangeIDs, Propose(c)
  PROVE  \E d \in ChangeIDs : \E row \in Change : ProposalStored(d, row)
<1> DEFINE Goal == \E d \in ChangeIDs : \E row \in Change : ProposalStored(d, row)
<1>1. \A row : row.status = "draft" \/ row.status = "assessed" \/ row.status = "rejected"
               \/ row.status = "satisfied" => row.status \notin Closed
  BY DEF Closed
<1>2. ASSUME NEW new \in Values, NEW S \in SUBSET Chapters, NEW kind \in Kinds,
             CreateChangeSet(c, kind, new, S)
      PROVE  Goal
  <2> DEFINE row == Proposal(kind, new, S, None)
  <2>1. row \in Change
    BY ProposalTyped, ConstantsAssumption
  <2>2. row.status = "assessed"
    BY DEF Proposal
  <2>3. ProposalStored(c, row)
    <3> HIDE DEF row
    <3> QED
      BY <1>1, <1>2, <2>1, <2>2, Zenon DEF CreateChangeSet, ProposalStored, row
  <2> QED
    BY <2>1, <2>3
<1>3. ASSUME NEW new \in Values, NEW S \in SUBSET Chapters,
             CreateChangeDraft(c, new, S)
      PROVE  Goal
  <2> DEFINE row == [Proposal("fields", new, S, None) EXCEPT !.status = "draft"]
  <2>1. Proposal("fields", new, S, None) \in Change
    BY ProposalTyped
  <2>2. row \in Change /\ row.status = "draft"
    BY <2>1 DEF Change, Statuses
  <2>3. ProposalStored(c, row)
    <3> HIDE DEF row
    <3> QED
      BY <1>1, <1>3, <2>2, Zenon DEF CreateChangeDraft, ProposalStored, row
  <2> QED
    BY <2>2, <2>3
<1>4. ASSUME NEW new \in Values, NEW S \in SUBSET Chapters,
             EditChangeDraft(c, new, S)
      PROVE  Goal
  <2> DEFINE row == [changes[c] EXCEPT !.status = "draft", !.old = project.value,
                                       !.new = new, !.impacts = Pinned(S)]
  <2>1. changes[c] \in Change
    BY <1>4, RowTyped DEF EditChangeDraft, CanMove
  <2>2. Pinned(S) \in SUBSET Refs
    BY RefTyped DEF Pinned, Objects
  <2>3. row \in Change /\ row.status = "draft"
    BY <2>1, <2>2 DEF Change, Statuses, TypeOK
  <2>4. changes[c].status \in {"draft", "assessed"}
    BY <1>4 DEF EditChangeDraft, CanMove, MoveFrom
  <2>5. ProposalStored(c, row)
    <3> HIDE DEF row
    <3> QED
      BY <1>1, <1>4, <2>3, <2>4, Zenon DEF EditChangeDraft, ProposalStored, row
  <2> QED
    BY <2>3, <2>5
<1>5. ASSUME AssessChangeSet(c)
      PROVE  Goal
  <2> DEFINE row == [changes[c] EXCEPT !.status = "assessed"]
  <2>1. changes[c] \in Change
    BY <1>5, RowTyped DEF AssessChangeSet, CanMove
  <2>2. row \in Change /\ row.status = "assessed"
    BY <2>1 DEF Change, Statuses
  <2>3. changes[c].status \in {"draft", "assessed"}
    BY <1>5 DEF AssessChangeSet, CanMove, MoveFrom
  <2>4. ProposalStored(c, row)
    <3> HIDE DEF row
    <3> QED
      BY <1>1, <1>5, <2>2, <2>3, Zenon DEF AssessChangeSet, ProposalStored, row
  <2> QED
    BY <2>2, <2>4
<1>6. ASSUME RejectChangeSet(c)
      PROVE  Goal
  <2> DEFINE row == [changes[c] EXCEPT !.status = "rejected"]
  <2>1. changes[c] \in Change
    BY <1>6, RowTyped DEF RejectChangeSet, CanMove
  <2>2. row \in Change /\ row.status = "rejected"
    BY <2>1 DEF Change, Statuses
  <2>3. changes[c].status \in {"draft", "assessed"}
    BY <1>6 DEF RejectChangeSet, CanMove, MoveFrom
  <2>4. ProposalStored(c, row)
    <3> HIDE DEF row
    <3> QED
      BY <1>1, <1>6, <2>2, <2>3, Zenon DEF RejectChangeSet, ProposalStored, row
  <2> QED
    BY <2>2, <2>4
<1>7. ASSUME NEW d \in ChangeIDs, ReassessChangeSet(c, d)
      PROVE  Goal
  <2> DEFINE stale == changes[c]
             impacted == IF stale.kind = "fields" THEN {r.obj : r \in stale.impacts}
                                                  ELSE Chapters
             fresh == [Proposal(stale.kind, stale.new, impacted, c) EXCEPT
                          !.old = stale.old, !.copy = stale.copy]
             done == [fresh EXCEPT !.status = "satisfied", !.impacts = {},
                                   !.target = project.context]
  <2>1. stale \in Change
    BY <1>7, RowTyped DEF ReassessChangeSet, CanMove
  <2>2. impacted \in SUBSET Objects
    BY <2>1 DEF Change, Refs, Objects
  <2>3. Pinned(impacted) \in SUBSET Refs
    BY <2>2, RefTyped DEF Pinned
  <2>4. Proposal(stale.kind, stale.new, impacted, c) \in Change
    BY <2>1, <2>3 DEF Proposal, Change, TypeOK, Statuses, Revisions
  <2>5. fresh \in Change /\ fresh.status = "assessed"
    BY <2>1, <2>4 DEF Change, Proposal
  <2>6. done \in Change /\ done.status = "satisfied"
    BY <2>5 DEF Change, Statuses, TypeOK, Revisions
  <2>7. /\ Put(d, done) \/ Put(d, fresh)
        /\ ~Exists(d)
        /\ UNCHANGED assessments \/ \E a : assessments' = [assessments EXCEPT ![d] = a]
        /\ UNCHANGED <<project, chapters, edges, tasks, writers, applying, answers,
                       stabilizing>>
    BY <1>7, Zenon DEF ReassessChangeSet
  <2> HIDE DEF fresh, done
  <2>8. ProposalStored(d, done) \/ ProposalStored(d, fresh)
    BY <1>1, <2>5, <2>6, <2>7, Zenon DEF ProposalStored
  <2> QED
    BY <2>5, <2>6, <2>8
<1> QED
  BY <1>2, <1>3, <1>4, <1>5, <1>6, <1>7 DEF Propose

\* Creating, editing, assessing, rejecting and reassessing keep the types.
LEMMA ProposeTyped ==
  ASSUME TypeOK, NEW c \in ChangeIDs, Propose(c)
  PROVE  TypeOK'
<1>1. PICK d \in ChangeIDs, row \in Change : ProposalStored(d, row)
  BY ProposeStores
<1>2. changes' \in [ChangeIDs -> Change \cup {None}]
  BY <1>1, PutTyped DEF ProposalStored
<1> QED
  BY <1>1, <1>2 DEF ProposalStored, TypeOK

\* The tasks an apply raises are tasks.
LEMMA RaisedTyped ==
  ASSUME TypeOK, NEW c \in ChangeIDs, NEW change \in Change, NEW next,
         next.context \in Revisions
  PROVE  RaisedTasks(c, Assessment(change), next) \subseteq Task
<1> SUFFICES ASSUME NEW t \in RaisedTasks(c, Assessment(change), next)
             PROVE  t \in Task
  OBVIOUS
<1>1. PICK i \in Obligations(Assessment(change)), status \in {"OPEN", "STALE"} :
         t = [change |-> c, target |-> i.target, action |-> i.action,
              revision |-> next.context, assignee |-> None, evidence |-> {},
              status |-> status]
  BY Zenon DEF RaisedTasks
<1>2. i.target \in Refs /\ i.action \in Actions
  BY ObligationsTyped
<1> QED
  BY <1>1, <1>2 DEF Task, TaskStatuses

\* The apply calls keep the state well typed.
LEMMA ApplyTyped ==
  ASSUME TypeOK, NEW c \in ChangeIDs, NEW k \in Keys, Apply(c, k)
  PROVE  TypeOK'
<1>1. ASSUME BeginApply(c, k) PROVE TypeOK'
  BY <1>1 DEF BeginApply, TypeOK
<1>2. ASSUME ReplayApply(c, k) PROVE TypeOK'
  BY <1>2 DEF ReplayApply, EndApply, Answer, TypeOK
<1>3. ASSUME RefuseApply(c, k) PROVE TypeOK'
  BY <1>3 DEF RefuseApply, EndApply, TypeOK
<1>4. ASSUME MarkStale(c, k) PROVE TypeOK'
  <2>1. changes[c] \in Change
    BY <1>4, RowTyped DEF MarkStale, CanMove
  <2>2. [changes[c] EXCEPT !.status = "stale"] \in Change
    BY <2>1 DEF Change, Statuses
  <2>3. changes' \in [ChangeIDs -> Change \cup {None}]
    BY <1>4, <2>2, PutTyped DEF MarkStale
  <2> QED
    BY <1>4, <2>3 DEF MarkStale, EndApply, Answer, TypeOK
<1>5. ASSUME ApplyChangeSet(c, k) PROVE TypeOK'
  <2> DEFINE change == changes[c]
             next == AppliedProject(change)
  <2>1. change \in Change
    BY <1>5, RowTyped DEF ApplyChangeSet, CanMove
  <2>2. next \in [version : Revisions, context : Revisions, spec : Revisions,
                  copy : Revisions, rules : Revisions, value : Values]
    <3>1. change.new \in Values
      BY <2>1 DEF Change
    <3>2. project \in [version : Nat, context : Nat, spec : Nat, copy : Nat,
                       rules : Nat, value : Values]
      BY DEF TypeOK, Revisions
    <3> DEFINE copy == IF change.kind = "fields" THEN project.copy ELSE project.copy + 1
               rules == IF change.kind = "rules" THEN project.rules + 1 ELSE project.rules
    <3>3. /\ project.version + 1 \in Nat /\ project.context + 1 \in Nat
          /\ project.spec + 1 \in Nat /\ copy \in Nat /\ rules \in Nat
      BY <3>2
    <3>4. next = [project EXCEPT !.version = project.version + 1,
                     !.context = project.context + 1, !.spec = project.spec + 1,
                     !.value = change.new, !.copy = copy, !.rules = rules]
      BY DEF AppliedProject
    <3> HIDE DEF change, copy, rules, next
    <3> QED
      BY <3>1, <3>2, <3>3, <3>4, Zenon DEF Revisions
  <2>3. next.context \in Revisions
    BY <2>2
  <2>4. [change EXCEPT !.status = "applied", !.target = next.context] \in Change
    BY <2>1, <2>3 DEF Change, Statuses
  <2>5. changes' \in [ChangeIDs -> Change \cup {None}]
    BY <1>5, <2>4, PutTyped DEF ApplyChangeSet
  <2>6. tasks' \subseteq Task
    <3>1. assessments[c] = Assessment(change)
      BY <1>5 DEF ApplyChangeSet, AssessmentHolds
    <3>2. RaisedTasks(c, Assessment(change), next) \subseteq Task
      BY <2>1, <2>3, RaisedTyped
    <3> QED
      BY <1>5, <3>1, <3>2 DEF ApplyChangeSet, TypeOK
  <2>7. chapters' \in [Chapters -> [version : Revisions,
                   confirmation : [version : Revisions, spec : Revisions] \cup {None}]]
    BY <1>5 DEF ApplyChangeSet, Invalidated, TypeOK
  <2> QED
    BY <1>5, <2>2, <2>5, <2>6, <2>7 DEF ApplyChangeSet, EndApply, Answer, TypeOK
<1> QED
  BY <1>1, <1>2, <1>3, <1>4, <1>5 DEF Apply

\* Chapters, dependencies, members and preflight proofs keep the types.
LEMMA WorkTyped ==
  ASSUME TypeOK,
         \/ \E ch \in Chapters : SaveChapter(ch) \/ ConfirmChapter(ch)
         \/ \E u \in Users : ChangeWriters(u)
         \/ Dependencies
         \/ \E c \in ChangeIDs : AcknowledgeImpactPreflight(c)
  PROVE  TypeOK'
<1>1. ASSUME NEW ch \in Chapters, SaveChapter(ch) PROVE TypeOK'
  BY <1>1 DEF SaveChapter, Bump, TypeOK, Revisions
<1>2. ASSUME NEW ch \in Chapters, ConfirmChapter(ch) PROVE TypeOK'
  BY <1>2 DEF ConfirmChapter, Bump, TypeOK, Revisions
<1>3. ASSUME NEW u \in Users, ChangeWriters(u) PROVE TypeOK'
  BY <1>3 DEF ChangeWriters, TypeOK
<1>4. ASSUME NEW shape \in EdgeShapes, NEW origin, CreateDependencyEdge(shape, origin)
      PROVE  TypeOK'
  <2>1. /\ shape[1] \in Objects /\ shape[2] \in Objects /\ shape[3] \in Actions
    BY ConstantsAssumption
  <2>2. Ref(shape[1]) \in Refs /\ Ref(shape[2]) \in Refs
    BY <2>1, RefTyped
  <2> QED
    BY <1>4, <2>1, <2>2 DEF CreateDependencyEdge, TypeOK
<1>5. ASSUME NEW e \in edges, NEW decision, NEW shape \in EdgeShapes,
             DecideDependencyEdge(e, decision, shape[3])
      PROVE  TypeOK'
  <2>1. shape[3] \in Actions
    BY ConstantsAssumption
  <2> QED
    BY <1>5, <2>1 DEF DecideDependencyEdge, TypeOK
<1>6. ASSUME NEW c \in ChangeIDs, AcknowledgeImpactPreflight(c) PROVE TypeOK'
  <2> DEFINE proof == [obj |-> "Preflight", version |-> project.version]
             closed == {t \in tasks : /\ t.change = c /\ t.revision = project.context
                                      /\ t.action = "BLOCK_RELEASE"}
  <2>1. proof \in [obj : {"Preflight"}, version : Revisions]
    BY DEF TypeOK
  <2>2. \A t \in closed : [t EXCEPT !.status = "DONE", !.evidence = {proof}] \in Task
    <3> SUFFICES ASSUME NEW t \in closed
                 PROVE  [t EXCEPT !.status = "DONE", !.evidence = {proof}] \in Task
      OBVIOUS
    <3>1. t \in Task
      BY DEF TypeOK
    <3>2. {proof} \in SUBSET (Refs \cup [obj : {"Preflight"}, version : Revisions])
      BY <2>1
    <3> HIDE DEF proof
    <3> QED
      BY <3>1, <3>2 DEF Task, TaskStatuses
  <2>3. tasks' \subseteq Task
    <3>1. tasks' = (tasks \ closed) \cup
              {[t EXCEPT !.status = "DONE", !.evidence = {proof}] : t \in closed}
      BY <1>6 DEF AcknowledgeImpactPreflight
    <3>2. tasks \subseteq Task
      BY DEF TypeOK
    <3> HIDE DEF proof, closed
    <3> QED
      BY <2>2, <3>1, <3>2
  <2> QED
    BY <1>6, <2>3 DEF AcknowledgeImpactPreflight, OnlyTasks, TypeOK
<1> QED
  BY <1>1, <1>2, <1>3, <1>4, <1>5, <1>6 DEF Dependencies

\* A closed row is moved to stabilized.
RowStabilized(c) ==
    /\ Exists(c) /\ changes[c].status \in Closed
    /\ Put(c, [changes[c] EXCEPT !.status = "stabilized"])

\* What the steps of a stabilization call may store.
VerdictStored ==
    /\ UNCHANGED <<project, chapters, edges, assessments, writers, applying, answers>>
    /\ \/ UNCHANGED tasks
       \/ \E R \in SUBSET tasks, at \in [Objects -> Revisions] :
             tasks' = (tasks \ R) \cup {Repost(t, at) : t \in R}
    /\ UNCHANGED changes \/ \E c \in ChangeIDs : RowStabilized(c)

\* Storing a verdict re-opens tasks and moves at most one closed row.
LEMMA VerdictStores ==
  ASSUME TypeOK, NEW c \in ChangeIDs \cup {None}, NEW R, NEW at \in [Objects -> Revisions],
         NEW verdict, StoreVerdict(c, R, at, verdict),
         UNCHANGED <<project, chapters, edges, assessments, writers, applying, answers>>
  PROVE  VerdictStored
<1>1. R \in SUBSET tasks /\ tasks' = (tasks \ R) \cup {Repost(t, at) : t \in R}
  BY Zenon DEF StoreVerdict
<1>2. UNCHANGED changes \/ RowStabilized(c)
  BY Zenon DEF StoreVerdict, RowStabilized
<1>3. ASSUME c \notin ChangeIDs, RowStabilized(c) PROVE UNCHANGED changes
  BY <1>3 DEF RowStabilized, Put, TypeOK
<1>4. UNCHANGED changes \/ \E d \in ChangeIDs : RowStabilized(d)
  BY <1>2, <1>3
<1> QED BY <1>1, <1>4, Zenon DEF VerdictStored

\* The steps of a stabilization call store a verdict or nothing.
LEMMA StabilizeStores ==
  ASSUME TypeOK, Stabilize
  PROVE  VerdictStored
<1>1. ASSUME UNCHANGED <<project, chapters, edges, changes, assessments, tasks, writers,
                         applying, answers>>
      PROVE  VerdictStored
  BY <1>1, Zenon DEF VerdictStored
<1>2. /\ stabilizing.change \in ChangeIDs \cup {None}
      /\ stabilizing.at \in [Objects -> Revisions]
  BY DEF TypeOK
<1>3. ASSUME NEW external \in BOOLEAN, StabilizeRevision(external) PROVE VerdictStored
  <2> DEFINE c == stabilizing.change
             R == Replaced(InScope(c))
             at == [o \in Objects |-> VersionOf(o)]
  <2>1. at \in [Objects -> Revisions]
    <3>1. \A o \in Objects : VersionOf(o) \in Revisions
      BY RefTyped DEF Ref, Refs
    <3> QED BY <3>1
  <2>2. \/ StoreVerdict(c, R, at, Verdict(c, external))
        \/ UNCHANGED <<tasks, changes>>
    BY <1>3, Zenon DEF StabilizeRevision
  <2>3. UNCHANGED <<project, chapters, edges, assessments, writers, applying, answers>>
    BY <1>3, Zenon DEF StabilizeRevision
  <2> HIDE DEF R, at
  <2> QED BY <1>1, <1>2, <2>1, <2>2, <2>3, VerdictStores
<1>4. ASSUME CommitStabilize PROVE VerdictStored
  <2>1. /\ StoreVerdict(stabilizing.change, stabilizing.reposted, stabilizing.at,
                        stabilizing.verdict)
        /\ UNCHANGED <<project, chapters, edges, assessments, writers, applying, answers>>
    BY <1>4, Zenon DEF CommitStabilize
  <2> QED BY <1>2, <2>1, VerdictStores
<1> QED
  BY <1>1, <1>3, <1>4, Zenon DEF Stabilize, BeginStabilize, RecheckStabilize, RefuseStabilize

\* The stabilization call keeps the record of its progress well typed.
LEMMA StabilizingTyped ==
  ASSUME TypeOK, Stabilize
  PROVE  stabilizing' \in [step : {"idle", "read", "write", "commit"},
                           change : ChangeIDs \cup {None},
                           proofs : SUBSET Revisions, basis : Revisions,
                           reposted : SUBSET Task, at : [Objects -> Revisions],
                           verdict : {"none", "BLOCKED", "STABILIZED"}]
<1> DEFINE Call == [step : {"idle", "read", "write", "commit"},
                    change : ChangeIDs \cup {None},
                    proofs : SUBSET Revisions, basis : Revisions,
                    reposted : SUBSET Task, at : [Objects -> Revisions],
                    verdict : {"none", "BLOCKED", "STABILIZED"}]
<1>1. Idle \in Call
  BY DEF Idle, Revisions
<1>2. stabilizing \in Call /\ project.version \in Revisions
  BY DEF TypeOK
<1>3. ASSUME NEW c \in ChangeIDs, BeginStabilize(c) PROVE stabilizing' \in Call
  <2>1. ProofsOf(InScope(c)) \in SUBSET Revisions
    BY DEF ProofsOf, InScope, TypeOK, Task, Refs
  <2>2. stabilizing' = [Idle EXCEPT !.step = "read", !.change = c,
                                    !.proofs = ProofsOf(InScope(c))]
    BY <1>3, Zenon DEF BeginStabilize
  <2> QED BY <1>1, <2>1, <2>2
<1>4. ASSUME RecheckStabilize PROVE stabilizing' \in Call
  BY <1>1, <1>2, <1>4 DEF RecheckStabilize
<1>5. ASSUME NEW external \in BOOLEAN, StabilizeRevision(external) PROVE stabilizing' \in Call
  <2> DEFINE c == stabilizing.change
             R == Replaced(InScope(c))
             at == [o \in Objects |-> VersionOf(o)]
  <2>1. at \in [Objects -> Revisions]
    <3>1. \A o \in Objects : VersionOf(o) \in Revisions
      BY RefTyped DEF Ref, Refs
    <3> QED BY <3>1
  <2>2. R \in SUBSET Task
    BY DEF Replaced, Evidenced, InScope, TypeOK
  <2>3. Verdict(c, external) \in {"BLOCKED", "STABILIZED"}
    BY DEF Verdict
  <2>4. \/ stabilizing' = Idle
        \/ stabilizing' = [Idle EXCEPT !.step = "commit", !.change = c, !.reposted = R,
                                       !.at = at, !.verdict = Verdict(c, external)]
    BY <1>5, Zenon DEF StabilizeRevision, StoreVerdict
  <2>5. c \in ChangeIDs \cup {None}
    BY <1>2
  <2> HIDE DEF c, R, at
  <2> QED BY <1>1, <2>1, <2>2, <2>3, <2>4, <2>5
<1>6. ASSUME CommitStabilize \/ RefuseStabilize PROVE stabilizing' \in Call
  <2>1. stabilizing' = Idle
    BY <1>6, Zenon DEF CommitStabilize, RefuseStabilize, StoreVerdict
  <2> QED BY <1>1, <2>1
<1> HIDE DEF Call
<1>7. stabilizing' \in Call
  BY <1>3, <1>4, <1>5, <1>6 DEF Stabilize
<1> QED BY <1>7 DEF Call

\* The stabilization call keeps the state well typed.
LEMMA StabilizeTyped ==
  ASSUME TypeOK, Stabilize
  PROVE  TypeOK'
<1>1. VerdictStored
  BY StabilizeStores
<1>2. tasks' \subseteq Task
  <2>1. tasks \subseteq Task
    BY DEF TypeOK
  <2>2. ASSUME NEW R \in SUBSET tasks, NEW at \in [Objects -> Revisions],
               tasks' = (tasks \ R) \cup {Repost(t, at) : t \in R}
        PROVE  tasks' \subseteq Task
    <3>1. ASSUME NEW t \in R PROVE Repost(t, at) \in Task
      <4>1. t \in Task /\ t.target.obj \in Objects
        BY <2>1 DEF Task, Refs
      <4>2. [obj |-> t.target.obj, version |-> at[t.target.obj]] \in Refs
        BY <4>1 DEF Refs
      <4> QED BY <4>1, <4>2 DEF Repost, Task, TaskStatuses
    <3> QED BY <2>1, <2>2, <3>1
  <2> QED BY <1>1, <2>1, <2>2 DEF VerdictStored
<1>3. changes' \in [ChangeIDs -> Change \cup {None}]
  <2>1. CASE UNCHANGED changes
    BY <2>1 DEF TypeOK
  <2>2. ASSUME NEW c \in ChangeIDs, RowStabilized(c)
        PROVE  changes' \in [ChangeIDs -> Change \cup {None}]
    <3>1. changes[c] \in Change
      BY <2>2, RowTyped DEF RowStabilized
    <3>2. [changes[c] EXCEPT !.status = "stabilized"] \in Change
      BY <3>1 DEF Change, Statuses
    <3> QED BY <2>2, <3>2, PutTyped DEF RowStabilized
  <2> QED BY <1>1, <2>1, <2>2 DEF VerdictStored
<1>4. UNCHANGED <<project, chapters, edges, writers, applying, answers>>
  BY <1>1 DEF VerdictStored
<1> QED BY <1>2, <1>3, <1>4, StabilizingTyped DEF TypeOK

\* Every step keeps the state well typed.
LEMMA TypeStep == TypeOK /\ [Next]_vars => TypeOK'
<1> SUFFICES ASSUME TypeOK, [Next]_vars PROVE TypeOK'
  OBVIOUS
<1>1. CASE UNCHANGED vars
  BY <1>1 DEF vars, TypeOK
<1> QED
  BY <1>1, ProposeTyped, ApplyTyped, WorkTyped, TaskActionTyped, StabilizeTyped DEF Next

\* Every row of the project holds values of its column's vocabulary, however
\* many proposals, chapters, members and dependencies there are.
THEOREM LifecycleTypeCorrect == Spec => []TypeOK
<1>1. Init => TypeOK
  BY ConstantsAssumption DEF Init, TypeOK, Idle, Revisions
<1> QED BY <1>1, TypeStep, PTL DEF Spec

-----------------------------------------------------------------------------
(* How a step may change the change-set table *)

\* Operations on chapters, dependencies, tasks and members, and the halves of
\* a call that only read or are refused, keep every row and answer.
RowsKept ==
    /\ UNCHANGED <<changes, answers>>
    /\ project'.context = project.context
    /\ \A ck \in applying' : ck \in applying \/ Exists(ck[1])

\* The steps that store a row or an answer.
Storing ==
    \/ \E d \in ChangeIDs : \E row \in Change : ProposalStored(d, row)
    \/ \E c \in ChangeIDs, k \in Keys :
          ReplayApply(c, k) \/ MarkStale(c, k) \/ ApplyChangeSet(c, k)
    \/ Stabilize

\* Every step stores a row or an answer, or keeps them all.
LEMMA StepKinds ==
  ASSUME TypeOK, [Next]_vars
  PROVE  Storing \/ RowsKept
<1>1. ASSUME UNCHANGED <<project, changes, answers, applying>> PROVE RowsKept
  BY <1>1 DEF RowsKept
<1>2. CASE UNCHANGED vars
  BY <1>1, <1>2 DEF vars
<1>3. ASSUME NEW c \in ChangeIDs, Propose(c) PROVE Storing
  BY <1>3, ProposeStores DEF Storing
<1>4. ASSUME NEW c \in ChangeIDs, AcknowledgeImpactPreflight(c) PROVE RowsKept
  BY <1>1, <1>4, Zenon DEF AcknowledgeImpactPreflight, OnlyTasks
<1>5. ASSUME NEW c \in ChangeIDs, NEW k \in Keys, Apply(c, k)
      PROVE  Storing \/ RowsKept
  <2>1. CASE BeginApply(c, k)
    BY <2>1 DEF BeginApply, PreflightPasses, RowsKept
  <2>2. CASE RefuseApply(c, k)
    BY <2>2 DEF RefuseApply, EndApply, RowsKept
  <2> QED
    BY <1>5, <2>1, <2>2 DEF Apply, Storing
<1>6. ASSUME NEW ch \in Chapters, SaveChapter(ch) \/ ConfirmChapter(ch)
      PROVE  RowsKept
  <2>1. /\ project' = [project EXCEPT !.version = @ + 1]
        /\ UNCHANGED <<changes, answers, applying>>
    BY <1>6, Zenon DEF SaveChapter, ConfirmChapter, Bump
  <2> QED
    BY <2>1 DEF RowsKept, TypeOK
<1>7. ASSUME NEW t \in tasks, NEW u \in writers, ActOnImpactTask(t, u)
      PROVE  RowsKept
  <2>1. OnlyTasks
    BY <1>7, Zenon DEF ActOnImpactTask, MarkTaskStale, AssignTask, StartTask, WaitTask,
       DismissTask, CompleteTask
  <2> QED
    BY <1>1, <2>1, Zenon DEF OnlyTasks
<1>8. ASSUME NEW u \in Users, ChangeWriters(u) PROVE RowsKept
  BY <1>1, <1>8, Zenon DEF ChangeWriters
<1>9. ASSUME Dependencies PROVE RowsKept
  BY <1>1, <1>9, Zenon DEF Dependencies, CreateDependencyEdge, DecideDependencyEdge
<1>10. ASSUME Stabilize PROVE Storing
  BY <1>10 DEF Storing
<1> QED
  BY <1>2, <1>3, <1>4, <1>5, <1>6, <1>7, <1>8, <1>9, <1>10 DEF Next

\* What one step may do to a row that has been decided.
FinalStep ==
    \A c \in ChangeIDs : Exists(c) =>
        /\ changes[c].status \in {"rejected", "stale", "satisfied", "stabilized"} =>
              changes'[c] = changes[c]
        /\ changes[c].status = "applied" =>
              changes'[c] \in {changes[c], [changes[c] EXCEPT !.status = "stabilized"]}

\* No step rewrites a decided row.
LEMMA RowsFinal ==
  ASSUME TypeOK, [Next]_vars
  PROVE  FinalStep
<1>1. ASSUME NEW d, NEW row, Put(d, row),
             d \in ChangeIDs => changes[d].status \in {"draft", "assessed"} \/ ~Exists(d)
      PROVE  FinalStep
  BY <1>1 DEF Put, FinalStep, TypeOK
<1>2. ASSUME UNCHANGED changes PROVE FinalStep
  BY <1>2 DEF FinalStep
<1>3. ASSUME NEW c \in ChangeIDs, NEW k \in Keys, MarkStale(c, k) PROVE FinalStep
  <2>1. changes[c].status \in {"draft", "assessed"}
    BY <1>3 DEF MarkStale, CanMove, MoveFrom
  <2> QED
    BY <1>1, <1>3, <2>1, Zenon DEF MarkStale
<1>4. ASSUME NEW c \in ChangeIDs, NEW k \in Keys, ApplyChangeSet(c, k) PROVE FinalStep
  <2>1. changes[c].status \in {"draft", "assessed"}
    BY <1>4 DEF ApplyChangeSet, CanMove, MoveFrom
  <2> QED
    BY <1>1, <1>4, <2>1, Zenon DEF ApplyChangeSet
<1>5. ASSUME Stabilize PROVE FinalStep
  <2>1. VerdictStored
    BY <1>5, StabilizeStores
  <2>2. ASSUME NEW c \in ChangeIDs, RowStabilized(c) PROVE FinalStep
    <3>1. changes[c] \in Change
      BY <2>2, RowTyped DEF RowStabilized
    <3>2. changes[c].status = "stabilized" =>
             [changes[c] EXCEPT !.status = "stabilized"] = changes[c]
      BY <3>1 DEF Change
    <3> QED
      BY <2>2, <3>2 DEF RowStabilized, Put, FinalStep, Closed, TypeOK
  <2> QED
    BY <1>2, <2>1, <2>2 DEF VerdictStored
<1>6. ASSUME NEW d \in ChangeIDs, NEW row \in Change, ProposalStored(d, row)
      PROVE  FinalStep
  BY <1>1, <1>6 DEF ProposalStored
<1> QED
  BY <1>2, <1>3, <1>4, <1>5, <1>6, StepKinds DEF Storing, RowsKept, ReplayApply

\* A rejected, stale, satisfied or stabilized row keeps every column, and an
\* applied one only ever becomes stabilized.
THEOREM DecidedRowsTheorem == Spec => DecidedRowsAreFinal
<1>1. TypeOK /\ [Next]_vars => [FinalStep]_vars
  BY RowsFinal
<1> QED
  BY <1>1, LifecycleTypeCorrect, PTL DEF Spec, DecidedRowsAreFinal, FinalStep

-----------------------------------------------------------------------------
(* Answers and revisions *)

\* An apply past its pre-flight is about a row that exists, and the project
\* has a first context revision.
CallsHaveRows ==
    /\ \A ck \in applying : Exists(ck[1])
    /\ project.context >= 1

\* The inductive invariant: the recorded answers and the revision counter
\* agree with the rows only together with what in-flight applies rely on.
IInv == CallsHaveRows /\ AnswersStayTrue /\ OneChangePerRevision

\* Rows never disappear, stale and closed rows stay so.
LEMMA RowsLast ==
  ASSUME TypeOK, [Next]_vars, NEW c \in ChangeIDs, Exists(c)
  PROVE  /\ Exists(c)'
         /\ changes[c].status = "stale" => changes'[c] = changes[c]
         /\ IsClosed(c) => IsClosed(c)' /\ changes'[c].target = changes[c].target
<1>1. FinalStep /\ TypeOK'
  BY RowsFinal, TypeStep
<1>2. changes[c] \in Change
  BY RowTyped
<1>3. None \notin Change
  BY NoneAssumption
<1>4. CASE changes[c].status \in {"rejected", "stale", "satisfied", "stabilized"}
  BY <1>1, <1>4, Zenon DEF FinalStep, Exists, IsClosed
<1>5. CASE changes[c].status = "applied"
  <2> DEFINE row == [changes[c] EXCEPT !.status = "stabilized"]
  <2>1. row \in Change /\ row.status = "stabilized" /\ row.target = changes[c].target
    BY <1>2 DEF Change, Statuses
  <2>2. changes'[c] = changes[c] \/ changes'[c] = row
    BY <1>1, <1>5 DEF FinalStep
  <2> HIDE DEF row
  <2> QED
    BY <1>3, <1>5, <2>1, <2>2 DEF Exists, IsClosed, Closed
<1>6. CASE changes[c].status \in {"draft", "assessed"}
  <2>1. Exists(c)'
    <3>1. ASSUME NEW d, NEW row \in Change, Put(d, row) PROVE Exists(c)'
      BY <1>3, <3>1 DEF Put, Exists, TypeOK
    <3>2. ASSUME NEW d \in ChangeIDs, NEW k \in Keys,
                 MarkStale(d, k) \/ ApplyChangeSet(d, k)
          PROVE  Exists(c)'
      <4>1. changes[d] \in Change
        BY <3>2, RowTyped DEF MarkStale, ApplyChangeSet, CanMove
      <4>2. CASE MarkStale(d, k)
        <5>1. [changes[d] EXCEPT !.status = "stale"] \in Change
          BY <4>1 DEF Change, Statuses
        <5> QED
          BY <3>1, <4>2, <5>1 DEF MarkStale
      <4>3. CASE ApplyChangeSet(d, k)
        <5> DEFINE row == [changes[d] EXCEPT !.status = "applied",
                                             !.target = AppliedProject(changes[d]).context]
        <5>1. AppliedProject(changes[d]).context \in Revisions
          <6>1. project' = AppliedProject(changes[d])
            BY <4>3 DEF ApplyChangeSet
          <6> QED
            BY <1>1, <6>1 DEF TypeOK
        <5>2. row \in Change
          BY <4>1, <5>1 DEF Change, Statuses
        <5>3. Put(d, row)
          BY <4>3, Zenon DEF ApplyChangeSet
        <5> QED
          BY <3>1, <5>2, <5>3
      <4> QED
        BY <3>2, <4>2, <4>3
    <3>3. ASSUME Stabilize PROVE Exists(c)'
      <4>1. VerdictStored
        BY <3>3, StabilizeStores
      <4>2. ASSUME NEW d \in ChangeIDs, RowStabilized(d) PROVE Exists(c)'
        <5>1. d # c
          BY <1>6, <4>2 DEF RowStabilized, Closed
        <5> QED
          BY <4>2, <5>1 DEF RowStabilized, Put, Exists, TypeOK
      <4> QED
        BY <4>1, <4>2 DEF VerdictStored, Exists
    <3>4. ASSUME UNCHANGED changes PROVE Exists(c)'
      BY <3>4 DEF Exists
    <3> QED
      BY <3>1, <3>2, <3>3, <3>4, StepKinds
      DEF Storing, RowsKept, ReplayApply, ProposalStored
  <2> QED
    BY <1>6, <2>1 DEF IsClosed, Closed
<1> QED
  BY <1>2, <1>4, <1>5, <1>6 DEF Change, Statuses

\* The closed rows and their revisions, which only an apply extends.
ClosedKept ==
    /\ \A x \in ChangeIDs : IsClosed(x)' <=> IsClosed(x)
    /\ \A x \in ChangeIDs : IsClosed(x) => changes'[x].target = changes[x].target
    /\ project'.context = project.context

\* Every step other than an apply keeps the closed rows and their revisions.
LEMMA OnlyApplyCloses ==
  ASSUME TypeOK, [Next]_vars
  PROVE  ClosedKept \/ \E c \in ChangeIDs, k \in Keys : ApplyChangeSet(c, k)
<1>1. ASSUME NEW d \in ChangeIDs, NEW row, Put(d, row),
             row.status \notin Closed, ~IsClosed(d), UNCHANGED project
      PROVE  ClosedKept
  BY <1>1 DEF Put, ClosedKept, IsClosed, Exists, TypeOK
<1>2. ASSUME UNCHANGED changes, project'.context = project.context PROVE ClosedKept
  BY <1>2 DEF ClosedKept, IsClosed, Exists
<1>3. ASSUME NEW d \in ChangeIDs, NEW row \in Change, ProposalStored(d, row)
      PROVE  ClosedKept
  BY <1>1, <1>3 DEF ProposalStored, IsClosed, Closed
<1>4. ASSUME NEW c \in ChangeIDs, NEW k \in Keys, MarkStale(c, k)
      PROVE  ClosedKept
  <2> DEFINE row == [changes[c] EXCEPT !.status = "stale"]
  <2>1. changes[c] \in Change
    BY <1>4, RowTyped DEF MarkStale, CanMove
  <2>2. row.status = "stale" /\ changes[c].status = "assessed"
    BY <1>4, <2>1 DEF MarkStale, CanMove, MoveFrom, Change
  <2>3. Put(c, row) /\ UNCHANGED project
    BY <1>4 DEF MarkStale
  <2> HIDE DEF row
  <2> QED
    BY <1>1, <2>2, <2>3 DEF IsClosed, Closed
<1>5. ASSUME Stabilize PROVE ClosedKept
  <2>1. VerdictStored /\ UNCHANGED project
    BY <1>5, StabilizeStores DEF VerdictStored
  <2>2. ASSUME NEW c \in ChangeIDs, RowStabilized(c) PROVE ClosedKept
    <3> DEFINE row == [changes[c] EXCEPT !.status = "stabilized"]
    <3>1. Exists(c) /\ changes[c].status \in Closed /\ Put(c, row)
      BY <2>2 DEF RowStabilized
    <3>2. row \in Change /\ row.status = "stabilized" /\ row.target = changes[c].target
      BY <3>1, RowTyped DEF Change, Statuses
    <3>3. None \notin Change
      BY NoneAssumption
    <3> HIDE DEF row
    <3> QED
      BY <2>1, <3>1, <3>2, <3>3 DEF Put, ClosedKept, IsClosed, Exists, Closed, TypeOK
  <2> QED
    BY <1>2, <2>1, <2>2 DEF VerdictStored
<1> QED
  BY <1>2, <1>3, <1>4, <1>5, StepKinds DEF Storing, RowsKept, ReplayApply

\* What an apply does to the rows: the one it applies opens the next revision.
LEMMA ApplyOpensRevision ==
  ASSUME TypeOK, NEW c \in ChangeIDs, NEW k \in Keys, ApplyChangeSet(c, k)
  PROVE  /\ IsClosed(c)' /\ changes'[c].target = project.context + 1 /\ ~IsClosed(c)
         /\ project'.context = project.context + 1
         /\ \A x \in ChangeIDs \ {c} : changes'[x] = changes[x]
<1> DEFINE row == [changes[c] EXCEPT !.status = "applied",
                                     !.target = AppliedProject(changes[c]).context]
<1>1. changes[c] \in Change /\ changes[c].status = "assessed"
  BY RowTyped DEF ApplyChangeSet, CanMove, MoveFrom
<1>2. AppliedProject(changes[c]).context = project.context + 1
  BY DEF AppliedProject, TypeOK
<1>3. project' = AppliedProject(changes[c]) /\ Put(c, row)
  BY Zenon DEF ApplyChangeSet
<1>4. project.context + 1 \in Revisions
  BY DEF TypeOK, Revisions
<1>5. row \in Change /\ row.status = "applied" /\ row.target = project.context + 1
  BY <1>1, <1>2, <1>4 DEF Change, Statuses
<1>6. None \notin Change
  BY NoneAssumption
<1> HIDE DEF row
<1> QED
  BY <1>1, <1>2, <1>3, <1>5, <1>6 DEF Put, IsClosed, Exists, Closed, TypeOK

\* Revisions and closed rows stay in one-to-one correspondence.
LEMMA RevisionStep ==
  ASSUME TypeOK, CallsHaveRows, OneChangePerRevision, [Next]_vars
  PROVE  OneChangePerRevision' /\ (project.context >= 1)'
<1>1. CASE ClosedKept
  BY <1>1 DEF ClosedKept, OneChangePerRevision, CallsHaveRows
<1>2. ASSUME NEW c \in ChangeIDs, NEW k \in Keys, ApplyChangeSet(c, k)
      PROVE  OneChangePerRevision' /\ (project.context >= 1)'
  <2> DEFINE N == project.context
             T == {changes[x].target : x \in {d \in ChangeIDs : IsClosed(d)}}
  <2>1. N \in Nat /\ N >= 1 /\ T = 2 .. N
    BY DEF TypeOK, Revisions, CallsHaveRows, OneChangePerRevision
  <2>2. /\ IsClosed(c)' /\ changes'[c].target = N + 1 /\ ~IsClosed(c)
        /\ project'.context = N + 1
        /\ \A x \in ChangeIDs \ {c} : changes'[x] = changes[x]
    BY <1>2, ApplyOpensRevision
  <2>3. \A x \in ChangeIDs \ {c} : IsClosed(x)' <=> IsClosed(x)
    BY <2>2 DEF IsClosed, Exists
  <2>4. \A x \in ChangeIDs : IsClosed(x) => changes[x].target \in 2 .. N
    BY <2>1
  <2>5. {changes[x].target : x \in {d \in ChangeIDs : IsClosed(d)}}' = T \cup {N + 1}
    <3>1. {changes[x].target : x \in {d \in ChangeIDs : IsClosed(d)}}'
            = {changes'[x].target : x \in {d \in ChangeIDs : IsClosed(d)'}}
      OBVIOUS
    <3>2. {d \in ChangeIDs : IsClosed(d)'} = {d \in ChangeIDs : IsClosed(d)} \cup {c}
      BY <2>2, <2>3
    <3> QED
      BY <2>2, <3>1, <3>2
  <2>6. (2 .. N) \cup {N + 1} = 2 .. (N + 1)
    BY <2>1
  <2>7. \A x, y \in ChangeIDs :
           IsClosed(x)' /\ IsClosed(y)' /\ changes'[x].target = changes'[y].target => x = y
    BY <2>1, <2>2, <2>3, <2>4 DEF OneChangePerRevision
  <2> QED
    BY <2>1, <2>2, <2>5, <2>6, <2>7 DEF OneChangePerRevision
<1> QED
  BY <1>1, <1>2, OnlyApplyCloses

\* A recorded answer stays true of its row.
LEMMA AnswerStep ==
  ASSUME TypeOK, CallsHaveRows, AnswersStayTrue, [Next]_vars
  PROVE  AnswersStayTrue'
<1> DEFINE Kept(c, k) == answers'[<<c, k>>] = answers[<<c, k>>]
           True(c, k) ==
             /\ answers[<<c, k>>] = "ok" => IsClosed(c)
             /\ answers[<<c, k>>] = "conflict" => Exists(c) /\ changes[c].status = "stale"
<1>1. ASSUME NEW c \in ChangeIDs, NEW k \in Keys, Kept(c, k)
      PROVE  True(c, k)'
  <2>1. CASE answers[<<c, k>>] = "ok"
    <3>1. IsClosed(c) /\ Exists(c)
      BY <2>1 DEF AnswersStayTrue, IsClosed
    <3> QED
      BY <1>1, <2>1, <3>1, RowsLast
  <2>2. CASE answers[<<c, k>>] = "conflict"
    <3>1. Exists(c) /\ changes[c].status = "stale"
      BY <2>2 DEF AnswersStayTrue
    <3> QED
      BY <1>1, <2>2, <3>1, RowsLast
  <2> QED
    BY <1>1, <2>1, <2>2
<1>2. ASSUME NEW d \in ChangeIDs, NEW m \in Keys, NEW status, Answer(d, m, status),
             NEW c \in ChangeIDs, NEW k \in Keys
      PROVE  Kept(c, k) \/ (c = d /\ k = m /\ answers'[<<c, k>>] = status)
  BY <1>2 DEF Answer, TypeOK
<1>3. ASSUME NEW d \in ChangeIDs, NEW m \in Keys, ReplayApply(d, m),
             NEW c \in ChangeIDs, NEW k \in Keys
      PROVE  True(c, k)'
  <2>1. CASE UNCHANGED answers
    BY <1>1, <2>1
  <2>2. CASE Answer(d, m, "ok") /\ changes[d].status = "applied"
    <3>1. IsClosed(d)'
      <4>1. <<d, m>> \in applying
        BY <1>3 DEF ReplayApply, EndApply
      <4>2. Exists(d)
        BY <4>1 DEF CallsHaveRows
      <4> QED
        BY <2>2, <4>2, RowsLast DEF IsClosed, Closed
    <3> QED
      BY <1>1, <1>2, <2>2, <3>1
  <2> QED
    BY <1>3, <2>1, <2>2 DEF ReplayApply
<1>4. ASSUME NEW d \in ChangeIDs, NEW m \in Keys, MarkStale(d, m),
             NEW c \in ChangeIDs, NEW k \in Keys
      PROVE  True(c, k)'
  <2>1. changes[d] \in Change /\ Exists(d)
    BY <1>4, RowTyped DEF MarkStale, CanMove
  <2>2. Exists(d)' /\ changes'[d].status = "stale"
    BY <1>4, <2>1, RowsLast DEF MarkStale, Put, TypeOK, Change
  <2>3. Answer(d, m, "conflict")
    BY <1>4 DEF MarkStale
  <2> QED
    BY <1>1, <1>2, <2>2, <2>3
<1>5. ASSUME NEW d \in ChangeIDs, NEW m \in Keys, ApplyChangeSet(d, m),
             NEW c \in ChangeIDs, NEW k \in Keys
      PROVE  True(c, k)'
  <2>1. IsClosed(d)'
    BY <1>5, ApplyOpensRevision
  <2>2. Answer(d, m, "ok")
    BY <1>5, Zenon DEF ApplyChangeSet
  <2> QED
    BY <1>1, <1>2, <2>1, <2>2
<1>6. CASE UNCHANGED answers
  BY <1>1, <1>6 DEF AnswersStayTrue
<1>7. ASSUME NEW d \in ChangeIDs, NEW m \in Keys,
             ReplayApply(d, m) \/ MarkStale(d, m) \/ ApplyChangeSet(d, m)
      PROVE  AnswersStayTrue'
  BY <1>3, <1>4, <1>5, <1>7 DEF AnswersStayTrue
<1> QED
  BY <1>6, <1>7, StepKinds, StabilizeStores DEF Storing, RowsKept, ProposalStored, VerdictStored

\* An apply past its pre-flight keeps its row.
LEMMA CallStep ==
  ASSUME TypeOK, CallsHaveRows, [Next]_vars
  PROVE  \A ck \in applying' : Exists(ck[1])'
<1>1. \A ck \in applying' : ck \in applying \/ Exists(ck[1])
  <2>1. ASSUME NEW c \in ChangeIDs, NEW k \in Keys, EndApply(c, k)
        PROVE  applying' \subseteq applying
    BY <2>1 DEF EndApply
  <2>2. CASE applying' \subseteq applying
    BY <2>2
  <2> QED
    BY <2>1, <2>2, StepKinds, StabilizeStores, Zenon DEF Storing, RowsKept, ProposalStored,
       VerdictStored, ReplayApply, MarkStale, ApplyChangeSet
<1>2. \A ck \in applying' : Exists(ck[1]) /\ ck[1] \in ChangeIDs
  <2>1. applying' \subseteq ChangeIDs \X Keys
    BY TypeStep DEF TypeOK
  <2> QED
    BY <1>1, <2>1 DEF CallsHaveRows
<1> QED
  BY <1>2, RowsLast

\* IInv is inductive.
LEMMA LifecycleInvariant == Spec => []IInv
<1>1. Init => IInv
  <2> SUFFICES ASSUME Init PROVE IInv
    OBVIOUS
  <2>1. \A c \in ChangeIDs : ~IsClosed(c)
    BY DEF Init, IsClosed, Exists
  <2>2. project.context = 1 /\ applying = {}
    BY DEF Init
  <2>3. \A c \in ChangeIDs, k \in Keys : answers[<<c, k>>] = None
    BY DEF Init
  <2>4. None \notin {"ok", "conflict"}
    BY NoneAssumption
  <2>5. {changes[c].target : c \in {d \in ChangeIDs : IsClosed(d)}} = {} /\ 2 .. 1 = {}
    BY <2>1
  <2> QED
    BY <2>1, <2>2, <2>3, <2>4, <2>5
    DEF IInv, CallsHaveRows, AnswersStayTrue, OneChangePerRevision
<1>2. TypeOK /\ IInv /\ [Next]_vars => IInv'
  <2> SUFFICES ASSUME TypeOK, IInv, [Next]_vars PROVE IInv'
    OBVIOUS
  <2> QED
    BY RevisionStep, AnswerStep, CallStep DEF IInv, CallsHaveRows
<1> QED BY <1>1, <1>2, LifecycleTypeCorrect, PTL DEF Spec

\* A recorded 200 means the change is in the project for good, a recorded 409
\* that the proposal is stale for good, for any number of keys and retries.
THEOREM AnswersStayTrueTheorem == Spec => []AnswersStayTrue
<1>1. IInv => AnswersStayTrue
  BY DEF IInv
<1> QED BY <1>1, LifecycleInvariant, PTL

\* Context revisions after the first and applied change sets correspond one to
\* one: no two applies share a revision and no revision is skipped.
THEOREM OneChangePerRevisionTheorem == Spec => []OneChangePerRevision
<1>1. IInv => OneChangePerRevision
  BY DEF IInv
<1> QED BY <1>1, LifecycleInvariant, PTL

-----------------------------------------------------------------------------
(* Impact tasks *)

\* The two records are the same task: what identifies it is equal.
SameTask(t, u) ==
    /\ t.change = u.change /\ t.revision = u.revision
    /\ t.action = u.action /\ t.target.obj = u.target.obj

\* A step loses no task, invents none and merges none.
TasksKept ==
    /\ \A u \in tasks' : \E t \in tasks : SameTask(t, u)
    /\ \A t \in tasks : \E u \in tasks' : SameTask(t, u)
    /\ TasksUnique => TasksUnique'

\* The table of assessments is total, and those of closed rows are kept.
AssessmentsTable == assessments = [c \in ChangeIDs |-> assessments[c]]

AssessmentsKept ==
    /\ AssessmentsTable'
    /\ \A x \in ChangeIDs : IsClosed(x) => assessments'[x] = assessments[x]

\* Rewriting tasks one by one, each under its own identity, keeps the tasks.
LEMMA TasksRewritten ==
  ASSUME NEW R \in SUBSET tasks, NEW f,
         tasks' = (tasks \ R) \cup {f[t] : t \in R},
         \A t \in R : SameTask(t, f[t])
  PROVE  TasksKept
<1>1. \A u \in tasks' : u \in tasks \ R \/ \E t \in R : u = f[t]
  OBVIOUS
<1>2. \A u \in tasks' : \E t \in tasks : SameTask(t, u)
  BY <1>1 DEF SameTask
<1>3. \A t \in tasks : \E u \in tasks' : SameTask(t, u)
  BY DEF SameTask
<1>4. ASSUME TasksUnique, NEW u \in tasks', NEW v \in tasks',
             u.change = v.change, u.action = v.action, u.target.obj = v.target.obj
      PROVE  u = v
  <2>1. CASE u \in tasks \ R /\ v \in tasks \ R
    BY <1>4, <2>1 DEF TasksUnique
  <2>2. ASSUME NEW t \in R, u = f[t] \/ v = f[t] PROVE u = v
    <3>1. ASSUME NEW w \in R, u = f[t], v = f[w] PROVE u = v
      BY <1>4, <3>1 DEF SameTask, TasksUnique
    <3>2. ASSUME NEW w \in R, v = f[t], u = f[w] PROVE u = v
      BY <1>4, <3>2 DEF SameTask, TasksUnique
    <3>3. ASSUME u = f[t], v \in tasks \ R PROVE u = v
      BY <1>4, <3>3 DEF SameTask, TasksUnique
    <3>4. ASSUME v = f[t], u \in tasks \ R PROVE u = v
      BY <1>4, <3>4 DEF SameTask, TasksUnique
    <3> QED
      BY <1>1, <2>2, <3>1, <3>2, <3>3, <3>4
  <2> QED
    BY <1>1, <2>1, <2>2
<1>5. TasksUnique => TasksUnique'
  BY <1>4 DEF TasksUnique
<1> QED
  BY <1>2, <1>3, <1>5 DEF TasksKept

\* Replacing one task by its next state keeps the tasks.
LEMMA ReplaceKeeps ==
  ASSUME NEW t \in tasks, NEW next, Replace(t, next), SameTask(t, next)
  PROVE  TasksKept
<1> DEFINE f == [x \in {t} |-> next]
<1>1. tasks' = (tasks \ {t}) \cup {f[x] : x \in {t}}
  BY DEF Replace
<1>2. \A x \in {t} : SameTask(x, f[x])
  OBVIOUS
<1>3. {t} \in SUBSET tasks
  OBVIOUS
<1> HIDE DEF f
<1> QED
  BY <1>1, <1>2, <1>3, TasksRewritten

\* The task actions keep the tasks.
LEMMA TaskActionKeeps ==
  ASSUME TypeOK, NEW t \in tasks, NEW u \in writers, ActOnImpactTask(t, u)
  PROVE  TasksKept
<1>1. t \in Task
  BY DEF TypeOK
<1>2. \A s : SameTask(t, [t EXCEPT !.status = s])
  BY <1>1 DEF SameTask, Task
<1>3. \A a : SameTask(t, [t EXCEPT !.assignee = a])
  BY <1>1 DEF SameTask, Task
<1>4. \A e : SameTask(t, [t EXCEPT !.status = "DONE", !.target = Ref(t.target.obj),
                                   !.evidence = e])
  BY <1>1 DEF SameTask, Task, Ref
<1>5. \/ \E s : Replace(t, [t EXCEPT !.status = s])
      \/ \E a : Replace(t, [t EXCEPT !.assignee = a])
      \/ \E e : Replace(t, [t EXCEPT !.status = "DONE", !.target = Ref(t.target.obj),
                                     !.evidence = e])
  BY Zenon DEF ActOnImpactTask, MarkTaskStale, AssignTask, StartTask, WaitTask,
     DismissTask, CompleteTask
<1> QED
  BY <1>2, <1>3, <1>4, <1>5, ReplaceKeeps

\* A preflight proof closes tasks under their identity.
LEMMA PreflightKeeps ==
  ASSUME TypeOK, NEW c \in ChangeIDs, AcknowledgeImpactPreflight(c)
  PROVE  TasksKept
<1> DEFINE proof == [obj |-> "Preflight", version |-> project.version]
           R == {t \in tasks : /\ t.change = c /\ t.revision = project.context
                               /\ t.action = "BLOCK_RELEASE"}
           f == [t \in R |-> [t EXCEPT !.status = "DONE", !.evidence = {proof}]]
<1>1. tasks' = (tasks \ R) \cup {f[t] : t \in R}
  <2>1. tasks' = (tasks \ R) \cup
           {[t EXCEPT !.status = "DONE", !.evidence = {proof}] : t \in R}
    BY Zenon DEF AcknowledgeImpactPreflight
  <2> HIDE DEF R, proof
  <2> QED
    BY <2>1
<1>2. ASSUME NEW t \in R PROVE SameTask(t, f[t])
  <2>1. t \in Task
    BY DEF TypeOK
  <2> HIDE DEF R, proof
  <2> QED
    BY <2>1 DEF SameTask, Task
<1>3. R \in SUBSET tasks
  OBVIOUS
<1> HIDE DEF R, f
<1> QED
  BY <1>1, <1>2, <1>3, TasksRewritten

\* Stabilization re-opens replaced tasks under their identity.
LEMMA StabilizeKeeps ==
  ASSUME TypeOK, NEW R \in SUBSET tasks, NEW at,
         tasks' = (tasks \ R) \cup {Repost(t, at) : t \in R}
  PROVE  TasksKept
<1> DEFINE f == [t \in R |-> Repost(t, at)]
<1>1. tasks' = (tasks \ R) \cup {f[t] : t \in R}
  OBVIOUS
<1>2. ASSUME NEW t \in R PROVE SameTask(t, f[t])
  <2>1. t \in Task
    BY DEF TypeOK
  <2> QED
    BY <2>1 DEF SameTask, Task, Repost
<1> HIDE DEF f
<1> QED
  BY <1>1, <1>2, TasksRewritten

\* Every step but an apply keeps the tasks and the assessments of closed rows.
LEMMA OnlyApplyRaises ==
  ASSUME TypeOK, AssessmentsTable, [Next]_vars
  PROVE  \/ TasksKept /\ AssessmentsKept
         \/ \E c \in ChangeIDs, k \in Keys : ApplyChangeSet(c, k)
<1>1. ASSUME UNCHANGED tasks PROVE TasksKept
  BY <1>1 DEF TasksKept, SameTask, TasksUnique
<1>2. ASSUME UNCHANGED assessments PROVE AssessmentsKept
  BY <1>2 DEF AssessmentsKept, AssessmentsTable
<1>3. CASE UNCHANGED vars
  BY <1>1, <1>2, <1>3 DEF vars
<1>4. ASSUME NEW c \in ChangeIDs, Propose(c) PROVE TasksKept /\ AssessmentsKept
  <2>1. PICK d \in ChangeIDs, row \in Change : ProposalStored(d, row)
    BY <1>4, ProposeStores
  <2>2. ~IsClosed(d)
    BY <2>1 DEF ProposalStored, IsClosed, Closed
  <2>3. ASSUME NEW a, assessments' = [assessments EXCEPT ![d] = a] PROVE AssessmentsKept
    BY <2>2, <2>3 DEF AssessmentsKept, AssessmentsTable
  <2> QED
    BY <1>1, <1>2, <2>1, <2>3 DEF ProposalStored
<1>5. ASSUME NEW c \in ChangeIDs, AcknowledgeImpactPreflight(c)
      PROVE  TasksKept /\ AssessmentsKept
  BY <1>2, <1>5, PreflightKeeps DEF AcknowledgeImpactPreflight, OnlyTasks
<1>6. ASSUME NEW t \in tasks, NEW u \in writers, ActOnImpactTask(t, u)
      PROVE  TasksKept /\ AssessmentsKept
  <2>1. OnlyTasks
    BY <1>6, Zenon DEF ActOnImpactTask, MarkTaskStale, AssignTask, StartTask, WaitTask,
       DismissTask, CompleteTask
  <2> QED
    BY <1>2, <1>6, <2>1, TaskActionKeeps DEF OnlyTasks
<1>7. ASSUME Stabilize PROVE TasksKept /\ AssessmentsKept
  <2>1. VerdictStored
    BY <1>7, StabilizeStores
  <2> QED
    BY <1>1, <1>2, <2>1, StabilizeKeeps DEF VerdictStored
<1>8. ASSUME UNCHANGED <<tasks, assessments>> PROVE TasksKept /\ AssessmentsKept
  BY <1>1, <1>2, <1>8
<1>9. ASSUME NEW c \in ChangeIDs, NEW k \in Keys, Apply(c, k), ~ApplyChangeSet(c, k)
      PROVE  TasksKept /\ AssessmentsKept
  BY <1>8, <1>9, Zenon DEF Apply, BeginApply, ReplayApply, RefuseApply, MarkStale
<1>10. ASSUME NEW ch \in Chapters, SaveChapter(ch) \/ ConfirmChapter(ch)
       PROVE  TasksKept /\ AssessmentsKept
  BY <1>8, <1>10, Zenon DEF SaveChapter, ConfirmChapter
<1>11. ASSUME NEW u \in Users, ChangeWriters(u) PROVE TasksKept /\ AssessmentsKept
  BY <1>8, <1>11, Zenon DEF ChangeWriters
<1>12. ASSUME Dependencies PROVE TasksKept /\ AssessmentsKept
  BY <1>8, <1>12, Zenon DEF Dependencies, CreateDependencyEdge, DecideDependencyEdge
<1> QED
  BY <1>3, <1>4, <1>5, <1>6, <1>9, <1>7, <1>10, <1>11, <1>12 DEF Next

\* Two obligations of an assessment made now on the same object name the same
\* version of it, so they raise the same task.
LEMMA ObligationTargets ==
  ASSUME TypeOK, NEW change \in Change, ~BasisMoved(change),
         NEW i \in Obligations(Assessment(change))
  PROVE  i.target = Ref(i.target.obj)
<1>1. CASE \E e \in ValidEdges : i.target = e.target
  <2>1. PICK e \in ValidEdges : i.target = e.target
    BY <1>1
  <2>2. i.target \in Refs /\ IsCurrent(i.target)
    BY <2>1 DEF ValidEdges, TypeOK
  <2> QED
    BY <2>2 DEF Refs, IsCurrent, Ref
<1>2. CASE \E r \in change.impacts : i.target = r
  BY <1>2 DEF BasisMoved
<1> QED
  BY <1>1, <1>2 DEF Obligations, Assessment, Written

\* An apply raises exactly one task per obligation, under the revision it opens.
LEMMA ApplyRaises ==
  ASSUME TypeOK, TasksMatchObligations, NEW c \in ChangeIDs, NEW k \in Keys,
         ApplyChangeSet(c, k)
  PROVE  TasksMatchObligations'
<1> DEFINE change == changes[c]
           next == AppliedProject(change)
           a == assessments[c]
           new == RaisedTasks(c, a, next)
<1>1. change \in Change /\ ~BasisMoved(change) /\ a = Assessment(change)
  BY RowTyped DEF ApplyChangeSet, CanMove, AssessmentHolds
<1>2. tasks' = tasks \cup new /\ UNCHANGED assessments
  BY Zenon DEF ApplyChangeSet
<1>3. /\ IsClosed(c)' /\ changes'[c].target = next.context /\ ~IsClosed(c)
      /\ \A x \in ChangeIDs \ {c} : changes'[x] = changes[x]
  <2>1. next.context = project.context + 1
    BY DEF AppliedProject, TypeOK
  <2> QED
    BY <2>1, ApplyOpensRevision
<1>4. \A x \in ChangeIDs \ {c} : IsClosed(x)' <=> IsClosed(x)
  BY <1>3 DEF IsClosed, Exists
<1>5. \A t \in tasks : t.change \in ChangeIDs \ {c}
  BY <1>3 DEF TasksMatchObligations, TasksBelong, TypeOK, Task
<1>6. \A t \in new : \E i \in Obligations(a) :
         /\ t.change = c /\ t.revision = next.context /\ t.action = i.action
         /\ t.target = i.target
  <2> HIDE DEF a, next
  <2> QED
    BY DEF RaisedTasks
<1>7. \A i \in Obligations(a) : \E t \in new :
         t.change = c /\ t.action = i.action /\ t.target.obj = i.target.obj
  <2> SUFFICES ASSUME NEW i \in Obligations(a)
               PROVE  \E t \in new : /\ t.change = c /\ t.action = i.action
                                     /\ t.target.obj = i.target.obj
    OBVIOUS
  <2> HIDE DEF a, next
  <2>1. \E status : [change |-> c, target |-> i.target, action |-> i.action,
                     revision |-> next.context, assignee |-> None, evidence |-> {},
                     status |-> status] \in new
    BY Zenon DEF RaisedTasks
  <2> QED
    BY <2>1
<1>8. \A t, u \in new : t.action = u.action /\ t.target.obj = u.target.obj => t = u
  <2> SUFFICES ASSUME NEW t \in new, NEW u \in new,
                      t.action = u.action, t.target.obj = u.target.obj
               PROVE  t = u
    OBVIOUS
  <2>1. t.target = u.target
    BY <1>1, <1>6, ObligationTargets
  <2> HIDE DEF a, next
  <2> QED
    BY <2>1 DEF RaisedTasks
<1> HIDE DEF a, next, new, change
<1>9. TasksBelong'
  BY <1>2, <1>3, <1>4, <1>5, <1>6 DEF TasksMatchObligations, TasksBelong
<1>10. TasksUnique'
  BY <1>2, <1>5, <1>6, <1>8 DEF TasksMatchObligations, TasksUnique
<1>11. ObligationsRaised'
  <2>1. \A x : Obligations(assessments[x])' = Obligations(assessments[x])
    BY <1>2
  <2>2. ASSUME NEW x \in ChangeIDs \ {c}, IsClosed(x)',
               NEW i \in Obligations(assessments[x])
        PROVE  \E t \in tasks' : /\ t.change = x /\ t.action = i.action
                                 /\ t.target.obj = i.target.obj
    BY <1>2, <1>4, <2>2 DEF TasksMatchObligations, ObligationsRaised
  <2>3. \A i \in Obligations(assessments[c]) :
           \E t \in tasks' : /\ t.change = c /\ t.action = i.action
                             /\ t.target.obj = i.target.obj
    BY <1>2, <1>7 DEF a
  <2> QED
    BY <2>1, <2>2, <2>3 DEF ObligationsRaised
<1> QED
  BY <1>9, <1>10, <1>11 DEF TasksMatchObligations

\* A step that keeps closed rows, their assessments and the tasks keeps tasks
\* and obligations matched.
LEMMA KeptMatches ==
  ASSUME TypeOK, TasksMatchObligations, ClosedKept, TasksKept, AssessmentsKept
  PROVE  TasksMatchObligations'
<1>1. TasksBelong'
  <2> SUFFICES ASSUME NEW u \in tasks'
               PROVE  IsClosed(u.change)' /\ u.revision = changes'[u.change].target
    BY DEF TasksBelong
  <2>1. PICK t \in tasks : SameTask(t, u)
    BY DEF TasksKept
  <2>2. t.change \in ChangeIDs
    BY DEF TypeOK, Task
  <2>3. IsClosed(t.change) /\ t.revision = changes[t.change].target
    BY DEF TasksMatchObligations, TasksBelong
  <2> QED
    BY <2>1, <2>2, <2>3 DEF SameTask, ClosedKept
<1>2. TasksUnique'
  BY DEF TasksKept, TasksMatchObligations
<1>3. ObligationsRaised'
  <2> SUFFICES ASSUME NEW c \in ChangeIDs, IsClosed(c)',
                      NEW i \in Obligations(assessments'[c])
               PROVE  \E u \in tasks' : /\ u.change = c /\ u.action = i.action
                                        /\ u.target.obj = i.target.obj
    BY DEF ObligationsRaised
  <2>1. IsClosed(c) /\ assessments'[c] = assessments[c]
    BY DEF ClosedKept, AssessmentsKept
  <2>2. PICK t \in tasks : /\ t.change = c /\ t.action = i.action
                           /\ t.target.obj = i.target.obj
    BY <2>1 DEF TasksMatchObligations, ObligationsRaised
  <2> QED
    BY <2>2 DEF TasksKept, SameTask
<1> QED
  BY <1>1, <1>2, <1>3 DEF TasksMatchObligations

\* Tasks and obligations match in every reachable state, over a total table of
\* assessments.
LEMMA TasksInvariant == Spec => [](TasksMatchObligations /\ AssessmentsTable)
<1> DEFINE Inv == TasksMatchObligations /\ AssessmentsTable
<1>1. Init => Inv
  <2> SUFFICES ASSUME Init PROVE Inv
    OBVIOUS
  <2>1. \A c \in ChangeIDs : ~IsClosed(c)
    BY DEF Init, IsClosed, Exists
  <2>2. tasks = {} /\ AssessmentsTable
    BY DEF Init, AssessmentsTable
  <2> QED
    BY <2>1, <2>2 DEF TasksMatchObligations, TasksBelong, TasksUnique, ObligationsRaised
<1>2. TypeOK /\ Inv /\ [Next]_vars => Inv'
  <2> SUFFICES ASSUME TypeOK, Inv, [Next]_vars PROVE Inv'
    OBVIOUS
  <2>1. ASSUME NEW c \in ChangeIDs, NEW k \in Keys, ApplyChangeSet(c, k) PROVE Inv'
    <3>1. UNCHANGED assessments
      BY <2>1, Zenon DEF ApplyChangeSet
    <3> QED
      BY <2>1, <3>1, ApplyRaises DEF AssessmentsTable
  <2>2. CASE ClosedKept /\ TasksKept /\ AssessmentsKept
    BY <2>2, KeptMatches DEF AssessmentsKept
  <2> QED
    BY <2>1, <2>2, OnlyApplyCloses, OnlyApplyRaises
<1> QED BY <1>1, <1>2, LifecycleTypeCorrect, PTL DEF Spec

\* Every obligation of an applied change set has exactly one task, and every
\* task belongs to an applied change set of its revision, however tasks are
\* worked on, closed by proofs or re-opened by a stabilization.
THEOREM TasksMatchTheorem == Spec => []TasksMatchObligations
BY TasksInvariant, PTL

=============================================================================
