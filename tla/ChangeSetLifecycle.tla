------------------------- MODULE ChangeSetLifecycle -------------------------
(***************************************************************************)
(* The change-set state machine of one active project, with the impact     *)
(* assessment, the impact tasks, the chapter confirmations and the Owner's *)
(* stabilization (internal/lingdoc/workspacecore and the confirmation      *)
(* writer of internal/lingdoc/candidateadoption).                          *)
(*                                                                         *)
(* Every operation below is one commit of the operation pipeline, so it is *)
(* atomic here: module OperationPipeline is about that boundary.  Two      *)
(* operations read before they enter the pipeline and are split where the  *)
(* code reads: ApplyChangeSet (state pre-flight, then the write) and       *)
(* StabilizeRevision (closure read, then proof recheck and basis, then the *)
(* write).  The write of a stabilization reads what it judges without      *)
(* locking or advancing the project row, so only a store that isolates     *)
(* whole transactions makes it one step: SnapshotStore.  A refused         *)
(* operation changes nothing and is a stuttering step.                     *)
(***************************************************************************)
EXTENDS Integers, FiniteSets

CONSTANTS
    ChangeIDs,    \* identities of change-set rows (uuid.NewString)
    Chapters,     \* chapters of the project
    Values,       \* values of the one modelled specification field
    Keys,         \* idempotency keys clients use for an apply
    Users, Owner, \* project members, and the one with role "owner"
    Kinds,        \* what a created change set proposes
    EdgeShapes,   \* the dependencies people register: <<source, target, action>>
    CitedObjects, \* what a closure may cite beside the task's own target
    MaxVersion,   \* bound on the project version
    MaxEdges,     \* bound on the dependency edges
    SnapshotStore,\* SQLite (one writer, whole transactions), not READ COMMITTED
    None          \* the absent row, user or change set

Roots == {"ProjectSpec", "TemplateCopy", "RuleSet"}
Objects == Chapters \cup Roots
Actions == {"REVIEW_REQUIRED", "INVALIDATE_CONFIRMATION", "REVALIDATE_EVIDENCE",
            "REGENERATE", "BLOCK_RELEASE", "NO_ACTION"}

ASSUME ConstantsAssumption ==
    /\ IsFiniteSet(Chapters)
    /\ Chapters \cap (Roots \cup {"Preflight"}) = {}
    /\ Owner \in Users
    /\ Kinds \subseteq {"fields", "template", "rules"}
    /\ EdgeShapes \subseteq Objects \X Objects \X Actions
    /\ CitedObjects \subseteq Objects
    /\ MaxVersion \in Nat /\ MaxEdges \in Nat
    /\ SnapshotStore \in BOOLEAN
    /\ None \notin ChangeIDs \cup Users \cup Values

VARIABLES
    project,      \* the project row: version, revisions and the field's value
    chapters,     \* per chapter: current version (0 = none), live confirmation
    edges,        \* dependency edges
    changes,      \* change-set rows
    assessments,  \* stored impact assessments, one per change set
    tasks,        \* impact tasks
    writers,      \* users with write scope on the project
    applying,     \* apply calls <<change, key>> past their state pre-flight
    answers,      \* idempotency rows of the apply operation
    stabilizing   \* the one stabilization call in flight

vars == <<project, chapters, edges, changes, assessments, tasks, writers,
          applying, answers, stabilizing>>

Idle == [step |-> "idle", change |-> None, proofs |-> {}, basis |-> 0,
         reposted |-> {}, at |-> [o \in Objects |-> 0], verdict |-> "none"]

(***************************************************************************)
(* Object versions, confirmations and staleness.                           *)
(***************************************************************************)
VersionOf(o) ==
    CASE o = "ProjectSpec"  -> project.spec
      [] o = "TemplateCopy" -> project.copy
      [] o = "RuleSet"      -> project.rules
      [] OTHER              -> chapters[o].version

Ref(o) == [obj |-> o, version |-> VersionOf(o)]

IsCurrent(ref) == ref.version > 0 /\ ref.version = VersionOf(ref.obj)

Confirmed(o) ==
    o \in Chapters =>
        /\ chapters[o].version > 0
        /\ chapters[o].confirmation =
              [version |-> chapters[o].version, spec |-> project.spec]

(***************************************************************************)
(* The declared moves of the change-set state machine.                     *)
(***************************************************************************)
\* Mutant: a proposal may still be rejected after it went stale.
MutantRejectStale ==
    [apply |-> {"assessed"}, reject |-> {"assessed", "stale"}, markStale |-> {"assessed"},
     assess |-> {"draft", "assessed"}, reassess |-> {"stale"},
     satisfy |-> {"stale"}, stabilize |-> {"applied"},
     editDraft |-> {"draft", "assessed"}]

\* Mutant: the creator may edit a stale proposal back into a draft.
MutantEditStale ==
    [apply |-> {"assessed"}, reject |-> {"assessed"}, markStale |-> {"assessed"},
     assess |-> {"draft", "assessed"}, reassess |-> {"stale"},
     satisfy |-> {"stale"}, stabilize |-> {"applied"},
     editDraft |-> {"draft", "assessed", "stale"}]

MoveFrom ==
    [apply |-> {"assessed"}, reject |-> {"assessed"}, markStale |-> {"assessed"},
     assess |-> {"draft", "assessed"}, reassess |-> {"stale"},
     satisfy |-> {"stale"}, stabilize |-> {"applied"},
     editDraft |-> {"draft", "assessed"}]

Closed == {"applied", "stabilized"}
ApplyAnswered == {"applied", "stale"}

Exists(c) == changes[c] # None
CanMove(c, move) == Exists(c) /\ changes[c].status \in MoveFrom[move]

(***************************************************************************)
(* The impact assessment: the dependency graph is walked from the objects  *)
(* the proposal changes.  Confirmed edges propagate, suggested ones are    *)
(* only reported, NO_ACTION stops.  The stored record is also the          *)
(* fingerprint (InputHash) an apply compares with a fresh assessment.      *)
(***************************************************************************)
ValidEdges ==
    {e \in edges : /\ e.status \in {"confirmed", "suggested"}
                   /\ IsCurrent(e.source) /\ IsCurrent(e.target)}

Definite(e) == e.status = "confirmed" /\ e.action # "NO_ACTION"

RootsOf(change) ==
    {Ref(o) : o \in IF change.kind = "fields" THEN {"ProjectSpec"} ELSE Roots}

Reached(change) ==
    LET layer[n \in 0 .. Cardinality(Objects)] ==
          IF n = 0 THEN RootsOf(change)
          ELSE layer[n - 1] \cup
               {e.target : e \in {f \in ValidEdges :
                                    Definite(f) /\ f.source \in layer[n - 1]}}
    IN  layer[Cardinality(Objects)]

Written(impacts) == {r \in impacts : r.version > 0}

Assessment(change) ==
    LET reached == Reached(change)
    IN  [context |-> project.context, copy |-> project.copy,
         rules   |-> project.rules,
         objects |-> {[ref |-> r, confirmed |-> Confirmed(r.obj)] :
                          r \in reached \cup Written(change.impacts)},
         edges   |-> ValidEdges,
         impacts |-> {[target |-> e.target, action |-> e.action,
                       definite |-> e.status = "confirmed"] :
                          e \in {f \in ValidEdges : f.source \in reached}}
                     \cup
                     {[target |-> r, action |-> "REVIEW_REQUIRED", definite |-> TRUE] :
                          r \in Written(change.impacts)}]

Assessable(change) == \A r \in Written(change.impacts) : IsCurrent(r)

Obligations(a) == {i \in a.impacts : i.definite /\ i.action # "NO_ACTION"}

(***************************************************************************)
(* Creating, editing, assessing, rejecting and reassessing proposals.      *)
(***************************************************************************)
Pinned(S) == {Ref(ch) : ch \in S}

Proposal(kind, new, S, from) ==
    [status |-> "assessed", kind |-> kind, context |-> project.context,
     spec |-> project.spec, copy |-> project.copy, old |-> project.value,
     new |-> new, impacts |-> Pinned(S), target |-> 0, from |-> from]

OnBase(change) == change.context = project.context /\ change.spec = project.spec

Put(c, change) == changes' = [changes EXCEPT ![c] = change]

CreateChangeSet(c, kind, new, S) ==
    /\ ~Exists(c)
    /\ kind \in Kinds
    /\ IF kind = "fields" THEN new # project.value /\ S # {}
                          ELSE new = project.value /\ S = Chapters
    /\ LET change == Proposal(kind, new, S, None)
       IN  /\ Assessable(change)
           /\ Put(c, change)
           /\ assessments' = [assessments EXCEPT ![c] = Assessment(change)]
    /\ UNCHANGED <<project, chapters, edges, tasks, writers, applying, answers, stabilizing>>

CreateChangeDraft(c, new, S) ==
    /\ ~Exists(c)
    /\ "fields" \in Kinds /\ new # project.value /\ S # {}
    /\ Put(c, [Proposal("fields", new, S, None) EXCEPT !.status = "draft"])
    /\ UNCHANGED <<project, chapters, edges, assessments, tasks, writers, applying,
                   answers, stabilizing>>

EditChangeDraft(c, new, S) ==
    /\ CanMove(c, "editDraft")
    /\ changes[c].kind = "fields"
    /\ OnBase(changes[c])
    /\ new # project.value /\ S # {}
    /\ Put(c, [changes[c] EXCEPT !.status = "draft", !.old = project.value,
                                 !.new = new, !.impacts = Pinned(S)])
    /\ UNCHANGED <<project, chapters, edges, assessments, tasks, writers, applying,
                   answers, stabilizing>>

AssessChangeSet(c) ==
    /\ CanMove(c, "assess")
    /\ OnBase(changes[c])
    /\ Assessable(changes[c])
    /\ assessments' = [assessments EXCEPT ![c] = Assessment(changes[c])]
    /\ Put(c, [changes[c] EXCEPT !.status = "assessed"])
    /\ UNCHANGED <<project, chapters, edges, tasks, writers, applying, answers, stabilizing>>

RejectChangeSet(c) ==
    /\ CanMove(c, "reject")
    /\ Put(c, [changes[c] EXCEPT !.status = "rejected"])
    /\ UNCHANGED <<project, chapters, edges, assessments, tasks, writers, applying,
                   answers, stabilizing>>

(* A stale row is never rewritten: its reassessment is a new row d.  A     *)
(* proposal whose value the project already carries is satisfied, one      *)
(* whose old value was replaced by a third one is a conflict.              *)
ReassessChangeSet(c, d) ==
    LET stale == changes[c]
        impacted == IF stale.kind = "fields" THEN {r.obj : r \in stale.impacts} ELSE Chapters
        fresh == [Proposal(stale.kind, stale.new, impacted, c) EXCEPT
                     !.old = stale.old, !.copy = stale.copy]
    IN  /\ CanMove(c, "reassess")
        /\ ~Exists(d)
        /\ \/ /\ stale.kind = "fields" /\ project.value = stale.new
              /\ Put(d, [fresh EXCEPT !.status = "satisfied", !.impacts = {},
                                      !.target = project.context])
              /\ UNCHANGED assessments
           \/ /\ project.value = stale.old
              /\ stale.kind = "fields" \/ project.copy = stale.copy
              /\ Assessable(fresh)
              /\ Put(d, fresh)
              /\ assessments' = [assessments EXCEPT ![d] = Assessment(fresh)]
        /\ UNCHANGED <<project, chapters, edges, tasks, writers, applying, answers, stabilizing>>

(***************************************************************************)
(* Applying: the state pre-flight in a read transaction of its own, then   *)
(* the write in the operation pipeline.                                    *)
(***************************************************************************)
PreflightPasses(c) ==
    Exists(c) /\ (changes[c].status \in ApplyAnswered \/ CanMove(c, "apply"))

BeginApply(c, k) ==
    /\ PreflightPasses(c)
    /\ <<c, k>> \notin applying
    /\ applying' = applying \cup {<<c, k>>}
    /\ UNCHANGED <<project, chapters, edges, changes, assessments, tasks, writers,
                   answers, stabilizing>>

EndApply(c, k) == <<c, k>> \in applying /\ applying' = applying \ {<<c, k>>}

Answer(c, k, status) == answers' = [answers EXCEPT ![<<c, k>>] = status]

BasisMoved(change) ==
    \/ ~OnBase(change)
    \/ change.kind # "fields" /\ change.copy # project.copy
    \/ \E r \in change.impacts : r # Ref(r.obj)

\* Mutant: the apply trusts the stored assessment.
MutantTrustAssessment(c) == assessments[c] # None

(* ValidateChangeImpactAssessment. *)
AssessmentHolds(c) == Assessment(changes[c]) = assessments[c]

(* The recorded answer, or a second key on a change set already applied.   *)
ReplayApply(c, k) ==
    /\ EndApply(c, k)
    /\ answers[<<c, k>>] # None \/ changes[c].status = "applied"
    /\ IF answers[<<c, k>>] # None THEN UNCHANGED answers ELSE Answer(c, k, "ok")
    /\ UNCHANGED <<project, chapters, edges, changes, assessments, tasks, writers, stabilizing>>

(* The call is refused: the state moved after the pre-flight, the fresh    *)
(* assessment differs from the one the Owner saw, or a checker, the audit  *)
(* or the storage fails.  The transaction rolls back, no answer is         *)
(* recorded.                                                               *)
RefuseApply(c, k) ==
    /\ EndApply(c, k)
    /\ UNCHANGED <<project, chapters, edges, changes, assessments, tasks, writers,
                   answers, stabilizing>>

MarkStale(c, k) ==
    /\ EndApply(c, k)
    /\ answers[<<c, k>>] = None
    /\ CanMove(c, "apply") /\ CanMove(c, "markStale")
    /\ BasisMoved(changes[c])
    /\ Put(c, [changes[c] EXCEPT !.status = "stale"])
    /\ Answer(c, k, "conflict")
    /\ UNCHANGED <<project, chapters, edges, assessments, tasks, writers, stabilizing>>

\* Mutant: a template upgrade does not open a context revision.
MutantUpgradeKeepsContext(change) ==
    [project EXCEPT !.version = @ + 1, !.spec = @ + 1, !.value = change.new,
                    !.context = IF change.kind = "fields" THEN @ + 1 ELSE @,
                    !.copy  = IF change.kind = "fields" THEN @ ELSE @ + 1,
                    !.rules = IF change.kind = "rules" THEN @ + 1 ELSE @]

AppliedProject(change) ==
    [project EXCEPT !.version = @ + 1, !.context = @ + 1, !.spec = @ + 1,
                    !.value = change.new,
                    !.copy  = IF change.kind = "fields" THEN @ ELSE @ + 1,
                    !.rules = IF change.kind = "rules" THEN @ + 1 ELSE @]

(* InvalidateChapterConfirmations, on the chapters the proposal names and  *)
(* on those its assessment reaches.                                        *)
Invalidated(change, a) ==
    LET hit == {r.obj : r \in change.impacts}
               \cup {i.target.obj : i \in Obligations(a)}
    IN  [ch \in Chapters |->
            IF ch \in hit THEN [chapters[ch] EXCEPT !.confirmation = None]
                          ELSE chapters[ch]]

\* Mutant: tasks carry the status word of ChangeImpact.
MutantImpactStatusWord(c, a, next) ==
    {[change |-> c, target |-> i.target, action |-> i.action,
      revision |-> next.context, assignee |-> None, evidence |-> {},
      status |-> "open"] : i \in Obligations(a)}

(* One task per obligation.  A target the apply itself replaced (the       *)
(* specification, the template copy, the rule set) is born STALE.          *)
RaisedTasks(c, a, next) ==
    {[change |-> c, target |-> i.target, action |-> i.action,
      revision |-> next.context, assignee |-> None, evidence |-> {},
      status |-> IF i.target.obj \in Chapters THEN "OPEN"
                 ELSE IF i.target.version = [ProjectSpec |-> next.spec,
                            TemplateCopy |-> next.copy, RuleSet |-> next.rules][i.target.obj]
                 THEN "OPEN" ELSE "STALE"] : i \in Obligations(a)}

ApplyChangeSet(c, k) ==
    LET change == changes[c]
        next   == AppliedProject(change)
    IN  /\ EndApply(c, k)
        /\ answers[<<c, k>>] = None
        /\ CanMove(c, "apply")
        /\ ~BasisMoved(change)
        /\ AssessmentHolds(c)
        /\ project.version < MaxVersion
        /\ project' = next
        /\ Put(c, [change EXCEPT !.status = "applied", !.target = next.context])
        /\ tasks' = tasks \cup RaisedTasks(c, assessments[c], next)
        /\ chapters' = Invalidated(change, assessments[c])
        /\ Answer(c, k, "ok")
        /\ UNCHANGED <<edges, assessments, writers, stabilizing>>

(***************************************************************************)
(* Chapters and dependencies.                                              *)
(***************************************************************************)
Bump == project.version < MaxVersion /\ project' = [project EXCEPT !.version = @ + 1]

SaveChapter(ch) ==
    /\ Bump
    /\ chapters' = [chapters EXCEPT ![ch].version = @ + 1]
    /\ UNCHANGED <<edges, changes, assessments, tasks, writers, applying, answers, stabilizing>>

ConfirmChapter(ch) ==
    /\ chapters[ch].version > 0
    /\ Bump
    /\ chapters' = [chapters EXCEPT ![ch].confirmation =
                        [version |-> chapters[ch].version, spec |-> project.spec]]
    /\ UNCHANGED <<edges, changes, assessments, tasks, writers, applying, answers, stabilizing>>

SameTuple(e, source, target, action) ==
    e.source = source /\ e.target = target /\ e.action = action

(* A human's edge is confirmed at once, a model's is only suggested and    *)
(* may not bring back the tuple a human replaced.                          *)
CreateDependencyEdge(shape, origin) ==
    LET source == Ref(shape[1])
        target == Ref(shape[2])
    IN  /\ Cardinality(edges) < MaxEdges
        /\ IsCurrent(source) /\ IsCurrent(target)
        /\ ~\E e \in edges : SameTuple(e, source, target, shape[3])
        /\ origin = "ai" =>
              ~\E e \in edges : SameTuple([e EXCEPT !.action = e.superseded],
                                          source, target, shape[3])
        /\ edges' = edges \cup
              {[source |-> source, target |-> target, action |-> shape[3],
                superseded |-> None,
                status |-> IF origin = "ai" THEN "suggested" ELSE "confirmed"]}
        /\ UNCHANGED <<project, chapters, changes, assessments, tasks, writers, applying,
                       answers, stabilizing>>

DecideDependencyEdge(e, decision, action) ==
    /\ e.status = "suggested"
    /\ IsCurrent(e.source) /\ IsCurrent(e.target)
    /\ decision = "modify" <=> action # e.action
    /\ edges' = (edges \ {e}) \cup
          {[e EXCEPT !.status = IF decision = "reject" THEN "rejected" ELSE "confirmed",
                     !.action = action,
                     !.superseded = IF decision = "modify" THEN e.action ELSE @]}
    /\ UNCHANGED <<project, chapters, changes, assessments, tasks, writers, applying,
                   answers, stabilizing>>

ChangeWriters(u) ==
    /\ u # Owner
    /\ writers' = IF u \in writers THEN writers \ {u} ELSE writers \cup {u}
    /\ UNCHANGED <<project, chapters, edges, changes, assessments, tasks, applying,
                   answers, stabilizing>>

(***************************************************************************)
(* Impact tasks.                                                           *)
(***************************************************************************)
Blocking == {"BLOCK_RELEASE", "REVIEW_REQUIRED", "INVALIDATE_CONFIRMATION"}
NeedsConfirmation == {"REVIEW_REQUIRED", "INVALIDATE_CONFIRMATION", "REVALIDATE_EVIDENCE"}
VersionNeutral == {"complete", "assign", "wait"}

\* Mutant: the task is stored under a new record instead of its identity.
MutantInsertTask(t, next) == tasks' = tasks \cup {next}

Replace(t, next) == tasks' = (tasks \ {t}) \cup {next}

OnlyTasks ==
    UNCHANGED <<project, chapters, edges, changes, assessments, writers, applying,
                answers, stabilizing>>

(* Superseded revision, assignee without scope, or a replaced target.      *)
StaleFor(t, u, act) ==
    \/ t.revision # project.context
    \/ t.assignee \notin {None, u} /\ t.assignee \notin writers
    \/ ~IsCurrent(t.target) /\ act \notin VersionNeutral

MarkTaskStale(t, u, act) ==
    /\ t.status # "STALE" /\ StaleFor(t, u, act)
    /\ Replace(t, [t EXCEPT !.status = "STALE"])
    /\ OnlyTasks

Workable(t, u, act) ==
    /\ t.status \notin {"STALE", "DONE", "DISMISSED"}
    /\ ~StaleFor(t, u, act)
    /\ IF act \in {"assign", "dismiss"} THEN u = Owner ELSE u = t.assignee

AssignTask(t, u, assignee) ==
    /\ Workable(t, u, "assign")
    /\ assignee \in writers
    /\ Replace(t, [t EXCEPT !.assignee = assignee])
    /\ OnlyTasks

StartTask(t, u) ==
    /\ Workable(t, u, "start")
    /\ Replace(t, [t EXCEPT !.status = "IN_PROGRESS"])
    /\ OnlyTasks

WaitTask(t, u) ==
    /\ Workable(t, u, "wait")
    /\ Replace(t, [t EXCEPT !.status = "WAITING_USER"])
    /\ OnlyTasks

DismissTask(t, u) ==
    /\ Workable(t, u, "dismiss")
    /\ t.action \notin Blocking
    /\ Replace(t, [t EXCEPT !.status = "DISMISSED"])
    /\ OnlyTasks

(* Completion re-targets the task at the version its evidence names.       *)
CompleteTask(t, u, cited) ==
    LET ref == Ref(t.target.obj)
    IN  /\ Workable(t, u, "complete")
        /\ t.action # "BLOCK_RELEASE"
        /\ \A o \in cited : IsCurrent(Ref(o))
        /\ t.action \in NeedsConfirmation => Confirmed(t.target.obj)
        /\ t.action = "REGENERATE" => ref.version # t.target.version
        /\ Replace(t, [t EXCEPT !.status = "DONE", !.target = ref,
                                !.evidence = {ref} \cup {Ref(o) : o \in cited}])
        /\ OnlyTasks

(* A passing delivery preflight of the current project version is the      *)
(* only closure of a BLOCK_RELEASE task; it also refreshes an older proof. *)
AcknowledgeImpactPreflight(c) ==
    LET proof  == [obj |-> "Preflight", version |-> project.version]
        closed == {t \in tasks : /\ t.change = c /\ t.revision = project.context
                                 /\ t.action = "BLOCK_RELEASE"}
    IN  /\ Exists(c) /\ changes[c].target = project.context
        /\ tasks' = (tasks \ closed) \cup
              {[t EXCEPT !.status = "DONE", !.evidence = {proof}] : t \in closed}
        /\ OnlyTasks

(***************************************************************************)
(* Stabilization by the Owner, and the read-only release gate.             *)
(***************************************************************************)
InScope(c) == {t \in tasks : t.change = c /\ t.revision = project.context}

ProofsOf(S) ==
    {r.version : r \in UNION {t.evidence : t \in {x \in S :
                       x.action = "BLOCK_RELEASE" /\ x.status = "DONE"}}}

\* Mutant: only BLOCK_RELEASE tasks hold the revision.
MutantOnlyReleaseBlocks(S) ==
    {t \in S : t.action = "BLOCK_RELEASE" /\ t.status \notin {"DONE", "STALE"}}

OpenBlocking(S) ==
    {t \in S : t.action \in Blocking /\ t.status \notin {"DONE", "STALE"}}

Evidenced(S) == {t \in S : t.status = "DONE" /\ t.action # "BLOCK_RELEASE"}

\* Mutant: a DONE task is never re-read.
MutantDoneIsDone(S) == {}

Replaced(S) == {t \in Evidenced(S) : \E r \in t.evidence : ~IsCurrent(r)}

Unconfirmed(S) ==
    {t \in Evidenced(S) : /\ t.action \in NeedsConfirmation
                          /\ \E r \in t.evidence : IsCurrent(r) /\ ~Confirmed(r.obj)}

(* impactConfirmationBlockers: the objects of the stored assessment that   *)
(* no DONE task cites, judged at their current version.                    *)
AccountedFor(c) ==
    {r.obj : r \in UNION {t.evidence : t \in {x \in tasks : x.change = c /\ x.status = "DONE"}}}

ObjectHolds(ref) ==
    CASE ref.obj = "ProjectSpec"  -> TRUE
      [] ref.obj = "TemplateCopy" -> project.copy = ref.version + 1
      [] ref.obj = "RuleSet"      -> IsCurrent(ref)
      [] OTHER                    -> Confirmed(ref.obj)

ObjectBlockers(c) ==
    {o \in assessments[c].objects : o.ref.obj \notin AccountedFor(c) /\ ~ObjectHolds(o.ref)}

OwnerBlocked(c) ==
    LET S == InScope(c)
    IN  OpenBlocking(S) \cup Replaced(S) \cup Unconfirmed(S) # {} \/ ObjectBlockers(c) # {}

BeginStabilize(c) ==
    /\ stabilizing = Idle
    /\ Exists(c)
    /\ stabilizing' = [Idle EXCEPT !.step = "read", !.change = c,
                                   !.proofs = ProofsOf(InScope(c))]
    /\ UNCHANGED <<project, chapters, edges, changes, assessments, tasks, writers, applying, answers>>

RecheckStabilize ==
    /\ stabilizing.step = "read"
    /\ stabilizing' = IF stabilizing.proofs \subseteq {project.version}
                      THEN [stabilizing EXCEPT !.step = "write", !.basis = project.version]
                      ELSE Idle
    /\ UNCHANGED <<project, chapters, edges, changes, assessments, tasks, writers, applying, answers>>

StabilizeAccepted(c) ==
    /\ stabilizing.basis = project.version
    /\ stabilizing.proofs \subseteq {project.version}
    /\ Exists(c) /\ changes[c].status \in Closed /\ changes[c].target = project.context

(* external: a blocker of the route or rule checkers, which are plugged in. *)
Verdict(c, external) == IF OwnerBlocked(c) \/ external THEN "BLOCKED" ELSE "STABILIZED"

(* repostImpactTask: the same task, re-opened at the version read.         *)
Repost(t, at) ==
    [t EXCEPT !.status = "OPEN", !.evidence = {},
              !.target = [obj |-> t.target.obj, version |-> at[t.target.obj]]]

(* The writes: replaced obligations are re-raised at the version read, and *)
(* the row moves when nothing blocks.  Each is a compare-and-swap on what  *)
(* was read, of the task's record version and of the change set's status.  *)
StoreVerdict(c, reposted, at, verdict) ==
    /\ reposted \subseteq tasks
    /\ Exists(c) /\ changes[c].status \in Closed
    /\ tasks' = (tasks \ reposted) \cup {Repost(t, at) : t \in reposted}
    /\ IF verdict = "STABILIZED" THEN Put(c, [changes[c] EXCEPT !.status = "stabilized"])
                                 ELSE UNCHANGED changes
    /\ stabilizing' = Idle

(* The judgement, and on a snapshot store the commit with it.              *)
StabilizeRevision(external) ==
    LET c == stabilizing.change
        reposted == Replaced(InScope(c))
        at == [o \in Objects |-> VersionOf(o)]
    IN  /\ stabilizing.step = "write"
        /\ StabilizeAccepted(c)
        /\ IF SnapshotStore
           THEN StoreVerdict(c, reposted, at, Verdict(c, external))
           ELSE /\ stabilizing' = [Idle EXCEPT !.step = "commit", !.change = c,
                                      !.reposted = reposted, !.at = at,
                                      !.verdict = Verdict(c, external)]
                /\ UNCHANGED <<tasks, changes>>
        /\ UNCHANGED <<project, chapters, edges, assessments, writers, applying, answers>>

(* READ COMMITTED: others committed between the reads and this COMMIT.     *)
CommitStabilize ==
    /\ stabilizing.step = "commit"
    /\ StoreVerdict(stabilizing.change, stabilizing.reposted, stabilizing.at,
                    stabilizing.verdict)
    /\ UNCHANGED <<project, chapters, edges, assessments, writers, applying, answers>>

(* The write transaction refuses: StabilizeAccepted or a compare-and-swap  *)
(* fails, or a checker, the audit or the storage does.                     *)
RefuseStabilize ==
    /\ stabilizing.step \in {"write", "commit"}
    /\ stabilizing' = Idle
    /\ UNCHANGED <<project, chapters, edges, changes, assessments, tasks, writers, applying, answers>>

(* AssertRevisionStabilized, which every freeze and export must pass.      *)
GateOpen ==
    LET S == {t \in tasks : t.revision = project.context}
        current == {c \in ChangeIDs : /\ Exists(c) /\ changes[c].status \in Closed
                                      /\ changes[c].target = project.context}
    IN  /\ \A c \in current : changes[c].status = "stabilized"
        /\ current # {} \/ project.context = 1
        /\ \A t \in S : t.status # "STALE" /\ (t.status = "DONE" => t.evidence # {})
        /\ OpenBlocking(S) \cup Replaced(S) \cup Unconfirmed(S) = {}
        /\ ProofsOf(S) \subseteq {project.version}

-----------------------------------------------------------------------------
Init ==
    /\ project \in [version : {1}, context : {1}, spec : {1}, copy : {1}, rules : {1},
                    value : Values]
    /\ chapters = [ch \in Chapters |-> [version |-> 0, confirmation |-> None]]
    /\ edges = {} /\ tasks = {} /\ applying = {}
    /\ changes = [c \in ChangeIDs |-> None]
    /\ assessments = [c \in ChangeIDs |-> None]
    /\ writers = Users
    /\ answers = [ck \in ChangeIDs \X Keys |-> None]
    /\ stabilizing = Idle

Propose(c) ==
    \/ \E new \in Values, S \in SUBSET Chapters :
          \/ \E kind \in Kinds : CreateChangeSet(c, kind, new, S)
          \/ CreateChangeDraft(c, new, S)
          \/ EditChangeDraft(c, new, S)
    \/ AssessChangeSet(c)
    \/ RejectChangeSet(c)
    \/ \E d \in ChangeIDs : ReassessChangeSet(c, d)

Apply(c, k) ==
    \/ BeginApply(c, k) \/ ReplayApply(c, k) \/ RefuseApply(c, k)
    \/ MarkStale(c, k) \/ ApplyChangeSet(c, k)

ActOnImpactTask(t, u) ==
    \/ \E act \in {"assign", "start", "wait", "complete", "dismiss"} : MarkTaskStale(t, u, act)
    \/ \E assignee \in Users : AssignTask(t, u, assignee)
    \/ StartTask(t, u) \/ WaitTask(t, u) \/ DismissTask(t, u)
    \/ \E cited \in SUBSET CitedObjects : CompleteTask(t, u, cited)

Stabilize ==
    \/ \E c \in ChangeIDs : BeginStabilize(c)
    \/ RecheckStabilize
    \/ \E external \in BOOLEAN : StabilizeRevision(external)
    \/ CommitStabilize
    \/ RefuseStabilize

Dependencies ==
    \/ \E shape \in EdgeShapes, origin \in {"user", "ai"} : CreateDependencyEdge(shape, origin)
    \/ \E e \in edges, decision \in {"confirm", "reject", "modify"} :
          \E shape \in EdgeShapes : DecideDependencyEdge(e, decision, shape[3])

Next ==
    \/ \E c \in ChangeIDs : Propose(c) \/ AcknowledgeImpactPreflight(c)
    \/ \E c \in ChangeIDs, k \in Keys : Apply(c, k)
    \/ \E ch \in Chapters : SaveChapter(ch) \/ ConfirmChapter(ch)
    \/ \E t \in tasks, u \in writers : ActOnImpactTask(t, u)
    \/ \E u \in Users : ChangeWriters(u)
    \/ Dependencies
    \/ Stabilize

Spec == Init /\ [][Next]_vars

-----------------------------------------------------------------------------
(***************************************************************************)
(* Properties.                                                             *)
(***************************************************************************)
Revisions == Nat
Refs == [obj : Objects, version : Revisions]
Statuses == {"draft", "assessed", "applied", "stabilized", "rejected", "stale", "satisfied"}
TaskStatuses == {"OPEN", "IN_PROGRESS", "WAITING_USER", "DONE", "DISMISSED", "STALE"}

Change ==
    [status : Statuses, kind : {"fields", "template", "rules"}, context : Revisions,
     spec : Revisions, copy : Revisions, old : Values, new : Values,
     impacts : SUBSET Refs, target : Revisions, from : ChangeIDs \cup {None}]

\* The absent row is no row, and no recorded answer.
ASSUME NoneAssumption == None \notin Change \cup {"ok", "conflict"}

Task ==
    [change : ChangeIDs, target : Refs, action : Actions, revision : Revisions,
     assignee : Users \cup {None},
     evidence : SUBSET (Refs \cup [obj : {"Preflight"}, version : Revisions]),
     status : TaskStatuses]

(* Every row holds values of its column's vocabulary (ChangeSetStatuses,   *)
(* the impact task statuses, ObjectVersionRef).                            *)
TypeOK ==
    /\ project \in [version : Revisions, context : Revisions, spec : Revisions,
                    copy : Revisions, rules : Revisions, value : Values]
    /\ chapters \in [Chapters -> [version : Revisions,
                        confirmation : [version : Revisions, spec : Revisions] \cup {None}]]
    /\ edges \subseteq [source : Refs, target : Refs, action : Actions,
                        superseded : Actions \cup {None},
                        status : {"suggested", "confirmed", "rejected"}]
    /\ changes \in [ChangeIDs -> Change \cup {None}]
    /\ tasks \subseteq Task
    /\ writers \subseteq Users /\ Owner \in writers
    /\ applying \subseteq ChangeIDs \X Keys
    /\ answers \in [ChangeIDs \X Keys -> {None, "ok", "conflict"}]
    /\ stabilizing \in [step : {"idle", "read", "write", "commit"},
                        change : ChangeIDs \cup {None},
                        proofs : SUBSET Revisions, basis : Revisions,
                        reposted : SUBSET Task, at : [Objects -> Revisions],
                        verdict : {"none", "BLOCKED", "STABILIZED"}]

IsClosed(c) == Exists(c) /\ changes[c].status \in Closed

(* Two Owners' applies never land on the same context revision, and no     *)
(* revision lacks the change set that produced it: the closed change sets  *)
(* and the revisions after the first are in one-to-one correspondence      *)
(* (ApplyChangeSet's base check and CurrentContextRevision++).             *)
OneChangePerRevision ==
    /\ \A c, d \in ChangeIDs :
          IsClosed(c) /\ IsClosed(d) /\ changes[c].target = changes[d].target => c = d
    /\ {changes[c].target : c \in {d \in ChangeIDs : IsClosed(d)}} = 2 .. project.context

(* A recorded apply answer stays true of its change set whatever happens   *)
(* later: a 200 means the change reached the project, a 409 that the       *)
(* proposal is stale for good (ChangeSetApplyAnswered's comment).          *)
AnswersStayTrue ==
    \A c \in ChangeIDs, k \in Keys :
        /\ answers[<<c, k>>] = "ok" => IsClosed(c)
        /\ answers[<<c, k>>] = "conflict" => Exists(c) /\ changes[c].status = "stale"

TasksBelong ==
    \A t \in tasks : IsClosed(t.change) /\ t.revision = changes[t.change].target

TasksUnique ==
    \A t, u \in tasks :
        t.change = u.change /\ t.action = u.action /\ t.target.obj = u.target.obj => t = u

ObligationsRaised ==
    \A c \in ChangeIDs : IsClosed(c) =>
        \A i \in Obligations(assessments[c]) :
            \E t \in tasks : /\ t.change = c /\ t.action = i.action
                             /\ t.target.obj = i.target.obj

(* Impact tasks are raised once per obligation and never lost: every task  *)
(* belongs to the closed change set of its revision, its identity (change, *)
(* object, action) is unique however it is re-targeted or re-raised, and   *)
(* every definite impact of a closed change set has its task               *)
(* (ApplyChangeSet, the task actions and StabilizeRevision).               *)
TasksMatchObligations == TasksBelong /\ TasksUnique /\ ObligationsRaised

(* A decided row is never rewritten: rejected, stale, satisfied and        *)
(* stabilized change sets keep every column, and an applied one only ever  *)
(* moves to stabilized (ChangeSetStatusMoves).                             *)
DecidedRowsAreFinal ==
    [][\A c \in ChangeIDs : Exists(c) =>
          /\ changes[c].status \in {"rejected", "stale", "satisfied", "stabilized"} =>
                changes'[c] = changes[c]
          /\ changes[c].status = "applied" =>
                changes'[c] \in {changes[c], [changes[c] EXCEPT !.status = "stabilized"]}]_vars

Becomes(c, status) ==
    /\ Exists(c) /\ changes[c].status # status
    /\ changes'[c].status = status

(* An apply acts on exactly the picture its assessment recorded: every     *)
(* object it reached is still at that version and still has that           *)
(* confirmation (ValidateChangeImpactAssessment).                          *)
AppliedAsAssessed ==
    [][\A c \in ChangeIDs : Becomes(c, "applied") =>
          \A o \in assessments[c].objects :
              IsCurrent(o.ref) /\ Confirmed(o.ref.obj) = o.confirmed]_vars

(* The release gate opens on an impacted revision only when every chapter  *)
(* a human had to look at again is confirmed at the version that would be  *)
(* released (AssertRevisionStabilized over StabilizeRevision, SaveChapter, *)
(* ConfirmChapter and the task actions).                                   *)
ReleasedChaptersWereReviewed ==
    GateOpen =>
        \A c \in ChangeIDs : IsClosed(c) /\ changes[c].target = project.context =>
            \A i \in Obligations(assessments[c]) :
                i.action \in {"REVIEW_REQUIRED", "INVALIDATE_CONFIRMATION"} =>
                    Confirmed(i.target.obj)

(* Stabilization never happens over unfinished blocking work: a blocking   *)
(* task of the revision is DONE on evidence that is current, or STALE with *)
(* its chapter confirmed again or answered for by another task             *)
(* (stabilizationConditions, OwnerBlockers).  The snapshot store keeps     *)
(* this; under READ COMMITTED a save committed between the reads and the   *)
(* COMMIT escapes it, and the release gate, which reads everything again   *)
(* in one snapshot, is what ReleasedChaptersWereReviewed rests on.         *)
StabilizedOverFinishedWork ==
    [][\A c \in ChangeIDs : Becomes(c, "stabilized") =>
          \A t \in InScope(c) : t.action \in Blocking =>
              \/ /\ t.status = "DONE"
                 /\ t.action # "BLOCK_RELEASE" => \A r \in t.evidence : IsCurrent(r)
              \/ /\ t.status = "STALE"
                 /\ \/ t.target.obj \in Roots \cup AccountedFor(c)
                    \/ Confirmed(t.target.obj)]_vars

(***************************************************************************)
(* Statements of the repository's comments that the code does not keep.    *)
(***************************************************************************)
(* "A change set whose apply has already been answered keeps its answer:   *)
(* the operation's idempotent replay must be able to return it": a retry   *)
(* of an answered key passes checkChangeSetApplyState.                     *)
AnsweredApplyIsReplayable ==
    \A c \in ChangeIDs, k \in Keys : answers[<<c, k>>] # None => PreflightPasses(c)

(* "whether a closure still holds ... is decided inside the write          *)
(* transaction by the one evaluation that re-reads every condition": a     *)
(* revision is stabilized only on preflight proofs of its own version.     *)
StabilizedOnCurrentProof ==
    [][\A c \in ChangeIDs : Becomes(c, "stabilized") =>
          ProofsOf(InScope(c)) \subseteq {project.version}]_vars

(* "An object is accounted for when a DONE task of this change set carries *)
(* it as closure evidence: that task already verified the current          *)
(* confirmation": stabilization leaves no impacted chapter unconfirmed.    *)
StabilizedChaptersAreConfirmed ==
    [][\A c \in ChangeIDs : Becomes(c, "stabilized") =>
          \A o \in assessments[c].objects : Confirmed(o.ref.obj)]_vars

(* Applying an upgrade must not read as drift of its own roots ("would     *)
(* make every upgrade structurally impossible to stabilize"): when every   *)
(* task is DONE on current evidence and every impacted chapter confirmed,  *)
(* nothing blocks the Owner.                                               *)
DischargedRevisionIsUnblocked ==
    \A c \in ChangeIDs :
        /\ IsClosed(c) /\ changes[c].target = project.context
        /\ \A t \in InScope(c) :
              t.status = "DONE" /\ \A r \in t.evidence : IsCurrent(r) /\ Confirmed(r.obj)
        /\ \A o \in assessments[c].objects : Confirmed(o.ref.obj)
        => ~OwnerBlocked(c)
=============================================================================
