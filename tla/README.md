# LingDoc verification project

TLA+ models of the transactional core of LingDoc (`src/internal/lingdoc`): the
pipeline every mutating workspace operation runs through; the change-set state
machine with its impact tasks, Owner stabilization and release gate; chapters with
their working copies, candidate adoption and confirmation; freezing and exporting;
and the human approval of agent tool calls. TLC checks small instances; TLAPS proves
every safety property of the passing runs for every value of the constants, on the store
the property is claimed of.

## 1. The system

LingDoc is a Go service in which people and agents write a long, regulated
document together. A *project* has a specification (fields), a copy of a
template, a rule set and chapters. Changing the specification goes through a
*change set*, which is assessed over a dependency graph; applying it opens a new
context revision and raises impact tasks; the Owner stabilizes the revision when
the tasks are closed, and only a stabilized revision may be frozen and exported.

| Component | State | Operations | Interacts with | What is hard |
|---|---|---|---|---|
| Operation pipeline (`operationcore.Run`, `workspacecore/operation_pipeline.go`) | operation ledger, audit rows; per call: checked basis, attempts | one `Run` per request | every mutating operation; authorization, runtime control, source policy | reads before the write transaction, BUSY retry, replays, READ COMMITTED against SQLite snapshots, crash around the commit |
| Change sets (`workspacecore/service_facade.go`, `change_set_status.go`, `change_creation_mutation.go`, `context_revision.go`) | change-set rows, project row | create, draft, edit, assess, reject, reassess, apply | impact graph, project row, pipeline | apply pre-flight in its own transaction, competing proposals on one base, stale assessments, replays after the state moved on |
| Impact graph and tasks (`impact_service.go`, `impact_store.go`, `impact_preflight.go`) | dependency edges, assessments, tasks | register and decide edges; assign, start, wait, complete, dismiss; acknowledge preflight | change sets, chapters, membership | targets replaced while a task is open, assignees losing scope, obligations lost or doubled |
| Stabilization and release gate (`stabilization_conditions.go`, `release_gate.go`) | status of the change set, re-opened tasks | `StabilizeRevision`, `AssertRevisionStabilized` | tasks, chapters, delivery preflight | three reads at three times; chapters change before, during and after |
| Chapters, working copies, confirmation (`working_copy.go`, `service_facade.go`, `candidateadoption/confirmation.go`) | version chain, current pointer, one draft per chapter, confirmations | save, rewrite, restore, commit, reopen, save a version, confirm | impact graph, candidates, gate | several writers of one draft, reads outdated before the update, a confirmation is about one version and one specification |
| Candidate adoption (`candidateadoption`) | own idempotency tables | accept into the draft or as a version | chapters, generation | an idempotency mechanism outside the pipeline; a committed acceptance that is not answered |
| Delivery (`delivery`, `workspace/delivery_*.go`, `full_workflow_guard.go`) | snapshots, artifacts, action indexes | freeze, export, download | release gate, membership, runtime control, source policy | many transactions and a renderer in one call; everything may change in between |
| Tool approval (`agent/approval/gate.go`, `agent/tools/mcp_tool.go`) | waiters in memory, Redis channels | execute, resolve | user's stream, other instances | timeout against decision, lost and late messages, crash of the instance that waits |
| Authorization, membership, runtime controls, source policy | grants, owner, pauses, readable sources | (environment here) | pipeline, delivery | change between any two steps |
| Agent action proposals, generation tasks, acceptance budget, limiter and locks | their own rows | see the plan | pipeline | claims, expiry, cancellation, settlement |
| Templates, rules, IM adapters, agent engine, knowledge processing, retrieval | catalogues, queues, IO | validation, third-party protocols | - | sequential or IO |

`PROJECT.json` lists every component with its status, and the hazards of the code
at their lines with the properties that would catch them.

What makes each component correct:

- pipeline: an identity takes effect at most once; effect, ledger row and, where the
  operation is audited, audit row commit together; every body a caller reads is the stored result of its own
  request; the sources served were checked; nobody revoked commits; calls end;
- change sets: decided rows are final; recorded answers stay true; revisions and
  applied change sets correspond one to one; an apply acts on what was assessed;
- tasks: one task per obligation, none lost, none doubled;
- stabilization and gate: neither passes over unreviewed or replaced work (the
  stabilization on SQLite, the gate on either store);
- chapters: one chain of versions with the draft on its end; nobody replaces edits
  they have not seen; formal writes hold on what was declared; a key takes effect
  once and its retry is answered;
- delivery: one row per action; what is delivered is what the gate passed; an export
  holds when it is recorded; content reaches only people who may read its sources;
- approval: an "ok" decided, a refusal is true, a gated tool runs only on its own
  user's approval, and every wait and every caller ends.

## 2. Modules

| Module | Role |
|---|---|
| `OperationPipeline` | `operationcore.Run` step by step, for any number of concurrent and repeated calls |
| `IdempotentOperation` | abstract specification of what a keyed operation promises its callers; the pipeline and the delivery implement it |
| `MCOperationPipeline` | TLC instance (two `.cfg`) |
| `OperationPipelineProofs` | TLAPS proofs of the pipeline's invariants and action properties |
| `OperationPipelineRefinement` | TLAPS proof that the pipeline implements `IdempotentOperation` |
| `ChangeSetLifecycle` | one active project: change sets, edges, tasks, chapters, stabilization, gate |
| `MCChangeSetLifecycle` | TLC instance (six `.cfg`) |
| `ChangeSetLifecycleProofs` | TLAPS proofs about rows, answers, revisions and tasks |
| `ChangeSetReleaseProofs` | TLAPS proofs about the impact walk, the apply, the stabilization and the gate |
| `ChapterDraft` | one chapter and its working copy, candidate acceptance, confirmation |
| `MCChapterDraft` | TLC instance (two `.cfg`) |
| `ChapterDraftProofs` | TLAPS proofs about the version chain, drafts and keys |
| `Delivery` | freeze, export and download of one project behind the release gate |
| `MCDelivery` | TLC instance |
| `DeliveryProofs` | TLAPS proofs of the delivery's invariants and action property |
| `DeliveryRefinement` | TLAPS proof that freezing and exporting implement `IdempotentOperation` |
| `ApprovalGate` | gated tool calls and their decisions on several instances |
| `MCApprovalGate` | TLC instance |
| `ApprovalGateProofs` | TLAPS proofs of the gate's invariants |

How they fit together. `OperationPipeline` shows that an operation routed through it
is one atomic commit; `ChangeSetLifecycle` and the workspace operations of
`ChapterDraft` build on that. `ChangeSetLifecycle` ends at the release gate, which
`Delivery` starts from (`project.stable`, moved by its environment). What chapters
and confirmations mean for tasks is in `ChangeSetLifecycle`, how they are written
concurrently is in `ChapterDraft`, whose environment applies change sets.

### OperationPipeline

A *call* is one execution of `Run`; a client's retry is another call with the
same identity. `granted`, `paused`, `basis`, `refs`, `readable`, `ledger`,
`audits`, `effects` are the database and the source policy; `pc`, `id`, `body`,
`checked`, `seen`, `stale`, `attempts`, `reply` are the locals of a call.

| Action | Code |
|---|---|
| `Enter`, `Prepare` | entry gates; `PrepareCached` / `Prepare` |
| `CheckBasis`, `CheckSources` | read-only transaction, then policy IO outside it |
| `BeginWrite` | authorize, project check, runtime gate, lookup, digest and basis comparison |
| `RetryBusy`, `GiveUpBusy` | `retrySQLiteSpecOperation` within its one budget |
| `CommitReplay`, `CommitWrite`, `FailWrite` | replay, or write with provenance and save, or rollback |
| `Project` | rendering after the commit, which may fail on a committed result |
| `Crash` | process or connection lost at any step |

`Snapshot` chooses the store: on SQLite a commit makes every other open write
transaction BUSY; on PostgreSQL (READ COMMITTED) only the compare-and-swap of the
project, the target's version and the unique index of the ledger protect a write.
Permissions, pauses, the basis, the target's sources and the source policy move
between any two steps (`Environment`). Bodies, receipts and provenance payloads
are identities; a stored result is named by the call that produced it.

`Audited` are the identities whose operations write an audit row: those about an
existing project, on a service with an audit store. `recordAuditInTransaction` returns
without a row for a tenant-level operation (`createProject`), whose project does not
exist yet, and for a service without a store.

### ChangeSetLifecycle

Each operation is one commit of the pipeline, so it is one action. Two operations
read before they enter it and are split where the code reads:

- `BeginApply` (state pre-flight) and then one of `ReplayApply`, `MarkStale`,
  `ApplyChangeSet`, `RefuseApply`;
- `BeginStabilize` (closure read), `RecheckStabilize` (proofs and basis), then
  `StabilizeRevision` or `RefuseStabilize`, and under READ COMMITTED
  `CommitStabilize`.

Which writes stay one step, and which does not. `SnapshotStore` chooses the store. On
SQLite the writes are serialized. On PostgreSQL the writes of change sets, chapters
and edges advance the project row by compare-and-swap on the version they read, and a
task action compares the record version of the one task it reads and writes; another
commit in between makes them fail, which is their refusal. The write of a stabilization
is protected by neither: it compares the project version once at its start, reads tasks,
chapters and confirmations without a lock, and moves only rows of its own. With
`SnapshotStore = FALSE` it is therefore two steps, the judgement (`StabilizeRevision`
keeps the verdict, the tasks to re-raise and the versions read) and its COMMIT
(`CommitStabilize`, guarded by what the updates compare: the tasks and the status). The
reads of the judgement are taken at one moment; spreading them out would only enlarge a
window that is already open. `StabilizedOverFinishedWork` needs `SnapshotStore` and is checked with it
(`changes_tasks`); everything else is claimed of either store, among it the release
gate, which reads everything again in one REPEATABLE READ transaction
(`changes_answers` runs under READ COMMITTED, the theorems hold for both).

The assessment is the record the code hashes into `InputHash`: base revisions,
reached objects with version and confirmation, valid edges, impacts. `Reached`
walks confirmed edges in layers, bounded by the number of objects. A task's
identity is (change set, object, action); completion and stabilization re-target
it. Object versions are counters of their own; the project version moves with
every write the code routes through `UpdateProject`. `Init` is the project right
after `ActivateProject`: first context revision, chapters without a version.
The route and rule checkers of a stabilization are plugged in at run time and are
a nondeterministic blocker (`external`).

### ChapterDraft

A call declares what its client saw (`seen`): specification, version, working-copy
revision and candidate. Its write transaction is two actions, `Read` (what it read is
`basis`) and `Write` (the compare-and-swap updates), because READ COMMITTED lets
others commit in between.

| Action | Code |
|---|---|
| `Send` | a client acts on what it looked at, or sends an earlier request again |
| `Probe`, `Validate`, `LookUp` | `CandidateAcceptancePending`, validation outside the transaction, `ReplayCandidateAcceptance` / `ReplayConfirmation` |
| `Read`, `Write` | the transaction of each operation: declared state, `WHERE` clauses, unique key, effect |
| `ReadDraft`, `RecoverDraft` | the two transactions of `GetWorkingCopy` |
| `Answer`, `Fail` | the reply, and every error: access, sources, validation, storage, process |
| `ChangeSpec`, `MoveProject`, `Generate` | an applied change set, a write of another chapter, a new candidate |

A text stands for body, sources, citation usages and review items and is named by
the call that wrote it. Authorization, the shape and evidence of a candidate, the
editor's unsaved body and the review anchors' revision stamps are not told apart:
where they refuse, the call fails. (`cleanWorkingCopy` compares the stamps although
`reviewItemsEqual` ignores them, so a clean draft with anchored items may be refused;
that is a `Fail`.) `HistoryIsLinear` makes the branch of `GetWorkingCopy` for a draft
left behind by a new version unreachable: only a new specification leaves it behind.
A confirmation declares no working-copy revision, so its retries are compared without
one. `SaveChapter` reads the draft after its project update: an edit committed before
that read is replaced, one committed after it makes the call fail.

### Delivery

One action is one transaction of a call: `Admit`, `GateRead` and `GateRecheck` (the
two halves of `AssertRevisionStabilized`), `LookUp`; then `Assemble`, `Freeze`,
`RecordFreeze`, `GetSnapshot` for a freeze, `Produce`, `Render`, `PrepareBasis`,
`RecordExport`, on PostgreSQL `CommitExport`, `ConfirmExport` for an export, `OpenArtifact`, `SendArtifact` for a
download. Between any two the project, the gate, the check's disposition, members,
Owner, pause, source access and source revision may change. There is one source, which
a project text quotes or not. A row is named by the call that inserted it.

A freeze may expect any version, one that does not exist yet included, as the HTTP
handler accepts any number that is not negative; snapshots and artifacts have random ids,
so a client names only those it was shown. `recordExport` validates without locks before
its COMMIT. On SQLite its insert holds the one write lock; on PostgreSQL
(`SnapshotStore = FALSE`) the COMMIT is a step of its own and anything may change before
it, while an insert under the same action index waits (`InsertOpen`). `RecordFreeze`
compares nothing but the action index and stays one step.

What the model makes visible and the properties therefore do not claim: a freeze that
expects the next version may be gated before the write that makes it (section 6), so
`DeliveredAsGated` speaks of freezes of a version that existed when the gate judged; the
gate may close without a new project version (a task that turns stale), so the
claim is about the version, not about a gate that is still open; `RecordFreeze` does not
compare the version again (whether a snapshot is current is recomputed when it is read);
the digest an export is recorded on covers source revisions and policies but not one
user's access, which is judged before the record. A retry of a recorded freeze passes
the full-workflow gate before its replay lookup, so it is refused while the gate is
closed.

### ApprovalGate

A wait is one execution of a gated tool: `Execute`, `Register`, `Expire` (timer or
cancelled context), `Receive`, `Unregister`, `CallTool`. A Resolve is one HTTP call on
any instance: `Begin`, `LookUp` (under the lock), `DeliverLocal` (outside it), or
`Publish`, `ReadAck`, `AckTimeout`. The subscriber of each instance takes messages one
at a time: `TakeMessage`, `DeliverMessage`. Messages may miss an instance, an
acknowledgement may be lost or reach all callers that wait on the shared reply channel,
and `Crash` empties an instance's memory. Subscribing and publishing are one action:
an acknowledgement can only follow the publish. `Resent` are the calls
whose PUBLISH go-redis, with its default retries, sends once more because it missed the
answer. The copy finds the waiter fired, and when its acknowledgement is the one that
arrives the caller is told "already" of its own decision (`Outcomes`); a copy for an unknown
wait or of a stranger changes nothing. A waiter always has the user of its session; the
code's exception for a waiter without one does not occur. A call without an event bus in
its context passes without approval, as the code has it. A caller may be told `not_found`
although its message is taken afterwards: the code documents the three-second window.

## 3. Runs

| Run | Instance | Shows |
|---|---|---|
| `pipeline_sqlite` | 2 calls, 2 operations, 2 bodies, snapshot store, 3 attempts | answers are stored results, conflicts are real, nobody revoked or paused commits, every call that entered ends |
| `pipeline_postgres` | 2 calls, 2 operations, one of them not audited, 2 bodies, a source, READ COMMITTED | at most once, atomic boundary, checked sources and basis, refinement of `IdempotentOperation` |
| `changes_answers` | 3 proposals, fields and upgrades, 1 chapter, READ COMMITTED | one change per revision, decided rows are final, recorded answers stay true |
| `changes_tasks` | 1 proposal, 2 chapters, 2 members, 2 keys, chain and release-blocking edges, evidence that cites a second object, snapshot store | tasks match obligations, apply acts on what was assessed, stabilization and gate pass only over finished and reviewed work |
| `delivery` | 2 freezes and 2 exports of the Owner under one key, a peer's download, READ COMMITTED | one row per action, delivered as gated, export holds at its record, content only to readers, refinement of `IdempotentOperation` |
| `chapter_draft` | 2 edits, 2 acceptances of either kind, 2 confirmations, 1 restore, commit, save, reopen | linear history, drafts replaced knowingly, formal writes hold, one effect per key, retries answered |
| `approval_gate` | 1 wait, 2 instances, a rejection and an approval of its user, an approval of a stranger, the rejection sent twice, 1 crash | ok means decided, refusals are true, runs with consent, waits and callers end |
| `apply_replay`, `stale_proof`, `unconfirmed_chapter`, `rules_upgrade`, `draft_overwrite` | 1 proposal; 2 calls on a draft | violations, see section 6 |

The passing runs have between 150 thousand and 1 million distinct states.

Bounds. Two calls are the smallest number that race on one identity; a third adds
no new pair, and the proved properties hold for any number. `MaxAttempts` replaces
the retry budget by 1, 2 or 3, `MaxBasis` allows a move before and after a call's
own. Two proposals compete for a base and a third is the reassessment of a stale
one. `MaxVersion` bounds the commits that move the project: 4 or 5 are enough for
save, confirm, apply, then a second save or confirmation after the task was closed,
which is the longest sequence the release properties depend on. `MaxEdges` allows
the two edges of the chain. `TasksBound` lets `changes_tasks` ask two questions in one
run: a graph of two chapters up to the tasks an apply raises (`GraphOfTwo`), or one
chapter whose tasks two people work on and the Owner stabilizes (`ReleaseOfOne`). In
`delivery` and `chapter_draft` three calls of a larger stock are made in a behaviour
(`MaxCalls`), with one change around them (`MaxChanges`): every pair of operations
races, a third call retries or consumes, and one change is what a single window between
two transactions can be hit by. In `approval_gate` three decisions are the smallest
number in which two entitled callers and an intruder race the clock. Change sets, keys and values are symmetric; the actions
never compare them other than for equality. The symmetry sets are used by runs of
safety properties only.

Deadlock is checked in the change-set runs. In the others a finished call never
restarts, so the system may stop, and the check is off.

Fairness. `FairSpec` asks weak fairness of each call's own steps: a call runs on
its own goroutine under a context with a deadline, so a step that stays possible is
taken or fails. Nothing is asked of the environment or of crashes. BUSY retries end
because all attempts share one budget. `ApprovalGate` asks weak fairness of every tool
execution that began and of every Resolve that began: they are goroutines, and the
approval timer and the three-second window fire. Nothing is asked of users, Redis,
subscribers or crashes.

## 4. Proofs

`OperationPipelineProofs`, from `PipelineAssumption` only:

- `TypeCorrect`: `TypeOK` is an invariant;
- `AtMostOnceTheorem`, `AtomicBoundaryTheorem` (for any set `Audited`),
  `AnswersAreStoredTheorem`;
- `ConflictIsRealTheorem`: rows and requests stay, so a conflict stays true once told;
- `ServedSourcesTheorem`, `BasisHeldTheorem`, and `AuthorizedTheorem` under the
  hypothesis `Snapshot`. Under READ COMMITTED a revocation may commit between the
  decision and the commit of a write, so the last is claimed of snapshot stores only.

None of the first three is inductive. The inductive invariant `IInv` adds that an
identity has one ledger row (`UniqueRows`), that a row carries the identity and
body of its writer (`RowsNameWriters`), that committed effects are exactly the
writers of rows (`EffectsRecorded`), that a transaction which found a row still
finds one for its own body at commit time (`FoundForRequest`: this is what carries
the digest check of `BeginWrite` over to `CommitReplay`), and that an answer of
an audited operation has its audit row. Steps that only refuse or move a call preserve it by one lemma
(`QuietStep`). The last group needs `CheckInv`, which adds what an open transaction knows:
it read what the source recheck read (`SeenWasChecked`), a row the recheck found is still
there (`CheckedRowsStay`), and on a snapshot store a transaction nobody has overtaken
still sees the current basis, permission and pause (`SnapshotsAreCurrent`: this is where
BUSY on a stale snapshot is needed).

`OperationPipelineRefinement` shows `ImplementsIdempotentOperation`. With `ReplyAtStep` (no
reply before the commit) every step either advances a call, which is a stutter, or
refuses, replays, performs or projects, each of which is one abstract step or a stutter.
A crash is a refusal before the commit; after it the answer is lost to the caller but
stays recorded.

`ChangeSetLifecycleProofs`, from `ConstantsAssumption` (finitely many chapters, an Owner
among the users, shapes over known objects and actions) and `NoneAssumption` (the
absent row is distinct from every row and answer):

- `LifecycleTypeCorrect`: `TypeOK` is an invariant;
- `DecidedRowsTheorem`: `DecidedRowsAreFinal`. `StepKinds` sorts all steps into
  those that store a proposal, the three that store an apply's answer, the
  stabilization, and those that keep every row;
- `AnswersStayTrueTheorem`, `OneChangePerRevisionTheorem`: the inductive
  invariant adds `CallsHaveRows` (an apply past its pre-flight is about an existing
  row, and the first revision is 1). Without it `ReplayApply` could record an
  answer for no row. `OnlyApplyCloses` shows that only an apply adds a closed row,
  `ApplyOpensRevision` that it takes the next revision;
- `TasksMatchTheorem`: `TasksMatchObligations`. Two obligations of one assessment
  on the same object name the same version (`ObligationTargets`: valid edges end in
  current versions, and an apply refuses moved impacts), so one task is raised for
  both; all later steps rewrite tasks under their identity (`TasksRewritten`).

`ChapterDraftProofs`, from `CallsAssumption` only:

- `TypeCorrect`, `HistoryStaysLinear`: types and chain are proved together, because a
  recovery reads the text of the draft's base, which exists only on a chain
  (`AppendKeepsChain`: a version appended under an unmoved pointer prolongs it);
- `FormalWritesHold`, `DraftsReplacedKnowingly`: the inductive invariant `WriterInv` adds
  that a call about to write has read exactly what it declared (`ReadIsDeclared`) and
  that an equal project version means an equal pointer (`VersionGuardsPointer`: this is
  why `ConfirmChapter`, which compares only the project row, confirms the version it
  declared);
- `EffectsAreSingle`, `RetriesNotOutdated`: `KeyInv` adds that calls which were not sent
  have no rows (`UnsentIsSilent`) and that a retry of a recorded request stays on the
  path of probe, lookup and answer (`RetryStaysOnReplay`).

`ChangeSetReleaseProofs`, from the same assumptions:

- `WalkIsReachability`: what an assessment reaches contains the changed roots, is closed
  under confirmed dependencies, and is the least such set, on every graph. The layers
  are a recursive function; induction over them is stated with sets of numbers
  (`SetInduction`, from the well-foundedness of `<`), which needs no operator parameter.
  That as many layers as objects are enough is a counting argument (`WalkCloses`): until
  a layer is closed each has one object more than the one before, and there are no more
  current references than objects. This is what needs `IsFiniteSet(Chapters)`;
- `AppliedAsAssessedTheorem`: every object a fresh assessment lists is current, the
  roots because they always have a version (`RootsExist`), the rest by
  `WalkIsReachability`; an apply passes only when the stored assessment equals it;
- `ReleasedChaptersTheorem`, on either store, and `StabilizedTheorem`, under the
  hypothesis `SnapshotStore` (then no judgement waits for its COMMIT, `NoWindow`; without
  it the theorem is false, see section 6): the inductive invariant `ReleaseInv` adds that
  a task closed by a person cites the version it is about (`EvidenceNamesTarget`),
  that a task comes from an obligation of its change set (`TasksHaveObligations`), and
  that the object of an obligation is among the listed objects the stabilization
  re-reads (`ObligationsListed`, again from `WalkIsReachability`: without it a task that
  turned STALE could hide its chapter from the Owner's check).

`DeliveryProofs`, from `CallsAssumption` only (the absent row is distinct from every call,
basis, snapshot and file state): `TypeCorrect`, `OneRowPerActionTheorem`,
`DeliveredAsGatedTheorem`, `ContentOnlyToReadersTheorem` and `RecordHoldsTheorem`
(`ExportHoldsAtRecord`) on either store, and `ExportHoldsTheorem`, the same claim at the
moment of the COMMIT, under the hypothesis `SnapshotStore`. A call crosses
many transactions, so its invariant `CallInv` says at each step what it still knows: the
gate judged a version that is not of the future (`GatedInOrder`), what a freeze built is of
the version it expected and not older than the judged one (`BuiltAsGated`: so a freeze that
expected no later version froze the judged one), an export renders the judged version
(`ExportAsGated`), a row inserted and not yet committed keeps its action to itself,
and a reader was noted before content is sent (`ReaderNoted`). `History` (rows stay, the
project version grows) carries it over the steps of the others. `DeliveryRefinement` shows
`ImplementsIdempotentOperation` with the action index in place of the ledger.

`ApprovalGateProofs`, from the module's assumptions: `TypeCorrect`, `OkMeansDecidedTheorem`,
`RefusalsAreTrueTheorem`, `RunsWithConsentTheorem`. The inductive invariant says that a waiter
has fired exactly when it holds a decision (`OneDecision`), that a decision is offered to
its waiter at most once, locally or by the subscriber of the waiter's instance
(`OfferedOnce`: otherwise a caller whose message was sent once could be told "already"
about its own decision), and
that acknowledgements under way are true whoever reads them (`AcksAreTrue`).

Only model-checked: liveness under fairness (`CallsEnd`, `WaitsEnd`,
`CallersAreAnswered`), which the prover does not do. The five violations of section 6 are
counterexamples found by TLC. Every other property of a passing run has a theorem.

## 5. Not modelled, and why

- In the modelled components: semantic deltas, `ReverseChangeSet`, change sets that
  carry fields and an upgrade at once, field archives; RECOMPUTE and
  RETRIEVE_CANDIDATES actions with their receipts; the relation and cause of an
  edge; `TemplateVersion` in the confirmation fact (the specification revision moves
  with every upgrade, so it tells nothing more apart here); the version column of a task
  (a re-raise finds the very task it read, or refuses). In `ChapterDraft`: authorization
  and source checks as state (they are failures; `ConfirmChapter` authorizes before its
  transaction only), candidate invalidation reports. In `Delivery`: the renderer, the
  rules of the template check, more than one source. In `ApprovalGate`: disabling a tool
  while it waits (asked only before the wait), the second call after a connection error,
  `RequestOAuthAndWait` (the same wait again).
- Components of the plan below.
- Template catalogues, rule evaluation, IM adapters, agent prompts: sequential
  validation or IO.
- Knowledge processing, retrieval, wiki and FAQ import, model providers, the web client:
  the bulk of the repository's lines. They parse, embed, index and call third parties;
  what could be wrong there is content, not the order of a few state changes. The map
  therefore covers a small share of all lines, and about a third of the files it names.

## 6. Where the code and its comments disagree

Five runs end in a violation; `PROJECT.json` quotes the lines.

- `apply_replay`: once a change set is stabilized, a retry of its answered apply is
  refused by the state pre-flight, although a comment promises the stored answer.
- `stale_proof`: preflight proofs are collected before the write transaction of a
  stabilization and not re-read in it; a task acknowledged in between may rest on an
  older project version. The release gate re-reads proofs, so a release is held.
- `unconfirmed_chapter`: a REGENERATE task closes without a confirmation but still
  accounts for its chapter.
- `rules_upgrade`: an upgrade that changes the rules replaces its own `RuleSet`
  root, which then blocks the Owner although every task is done and every chapter
  confirmed (unless a done task happens to cite the RuleSet as further evidence).
- `draft_overwrite`: `SaveChapter` takes no working-copy revision and replaces a draft
  saved after its client looked, although the plan of the writing release forbids silent
  overwrites. `DraftsAreReplacedKnowingly` shows that it is the only operation that does.

Three weaker guarantees follow from the models; the properties are stated around them.

- On PostgreSQL the write transaction of `StabilizeRevision` locks nothing it reads
  (`impact_service.go:214` compares the project version once, `:1389` only the status):
  a chapter saved and committed before its COMMIT is stabilized over, although the
  re-raise of obligations is meant to be in the same transaction as the verdict. The
  release gate reads everything again, so a release is held. With
  `SnapshotStore = FALSE` TLC refutes `StabilizedOverFinishedWork` in this way.
- On PostgreSQL the last validation of `recordExport` is a plain read before the COMMIT
  (`full_workflow_guard.go:456`), so a pause, a transfer, a new source revision or a new
  project version may come in between. TLC refutes `ExportHoldsAtCommit` in this way;
  `ExportHoldsAtRecord` holds.
- A freeze may expect a version that does not exist yet. `Prepare` gates the version it
  finds and leaves the comparison to `assemble` (`delivery_release.go:472`), so when
  another operation makes the expected version in between, a version is frozen that the
  gate has not judged. `DeliveredAsGated` therefore claims the judged version only of
  freezes that expected no later one.

## 7. Plan

Done: the pipeline, change sets, chapters and drafts, delivery, the approval gate, and the
proofs of all their safety properties. Next:

1. `Membership`: invitations, owner transfer, delegations, with the one-owner
   invariant; replaces `writers`, `granted`, `members` and `owner` as environment.
2. `ActionProposals`: agent proposals, human decision, execution through the pipeline.
3. `GenerationTasks`, `AcceptanceBudget`, `Limiter`: claims, leases, settlement (the
   limiter's heartbeat may re-add a slot that was just released, until its lease ends).
4. Semantic deltas and `ReverseChangeSet` in `ChangeSetLifecycle`.
