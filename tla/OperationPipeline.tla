-------------------------- MODULE OperationPipeline --------------------------
(***************************************************************************)
(* The shared operation pipeline, operationcore.Run, and the operation     *)
(* ledger it runs on.  Every mutating workspace operation goes through it: *)
(*                                                                         *)
(*   entry gates -> preparation -> [source recheck: read-only transaction, *)
(*   then policy IO outside any transaction] -> write transaction          *)
(*   (authorize, audit, replay or write, save) -> projection.              *)
(*                                                                         *)
(* A call is one execution of Run.  A client that retries issues another   *)
(* call with the same identity, so several calls on one identity model     *)
(* retries, duplicates and key reuse.  Calls interleave with each other    *)
(* and with the rest of the system: permissions, source grants, runtime    *)
(* pauses and other writers move between any two steps.                    *)
(***************************************************************************)
EXTENDS Naturals, FiniteSets

CONSTANTS
    Calls,            \* executions of Run
    Ids,              \* operation identities: actor, operation, target, key
    Bodies,           \* request bodies, told apart by their digest
    Sources,          \* source ids an operation may depend on
    SourceSensitive,  \* identities whose operation declares SourceIDs
    MovesBasis,       \* identities whose Write advances the project basis
    RetryLocks,       \* identities whose write transaction retries on BUSY
    MutableReceipt,   \* identities PrepareCached consults the ledger for
    Audited,          \* identities about an existing project, on a service
                      \* that has an audit store
    Snapshot,         \* TRUE: SQLite, a write on a stale snapshot is BUSY;
                      \* FALSE: PostgreSQL, READ COMMITTED
    MaxBasis,         \* bound: project basis values explored
    MaxAttempts       \* bound: specLockMaxAttempts, made small

ASSUME PipelineAssumption ==
    /\ SourceSensitive \subseteq Ids
    /\ MovesBasis \subseteq Ids
    /\ RetryLocks \subseteq Ids
    /\ MutableReceipt \subseteq Ids
    /\ Audited \subseteq Ids
    /\ Snapshot \in BOOLEAN
    /\ MaxBasis \in Nat
    /\ MaxAttempts \in Nat \ {0}

VARIABLES
    (* Shared state of the database and of the source policy. *)
    granted,    \* identities AuthorizeProject and CheckProject let through
    paused,     \* a runtime control pauses the project's scope
    basis,      \* the project's version and research-condition revision
    refs,       \* sources of the object the operations write to
    readable,   \* sources the source policy lets the actor read
    ledger,     \* saved operation rows
    audits,     \* calls whose authorization audit row is committed
    effects,    \* calls whose Write is committed
    (* Local state of each call. *)
    pc,         \* the step of Run the call is about to take
    id, body,   \* the request
    checked,    \* checkedProject, checkedFound, checkedSources
    seen,       \* what the open write transaction has read
    stale,      \* another transaction overtook this one's snapshot
    attempts,   \* attempts of the write transaction
    reply       \* what the caller reads

dbVars == <<granted, paused, basis, refs, readable, ledger, audits, effects>>
callVars == <<pc, id, body, checked, seen, stale, attempts, reply>>
vars == <<dbVars, callVars>>

-----------------------------------------------------------------------------
(* Values *)

\* A row of lingdoc_operations: the result saved under an identity.  The body
\* a replay returns is named by the call that produced it.
Row == [id : Ids, body : Bodies, writer : Calls, sources : SUBSET Sources]

\* What a transaction reads of the project, the ledger and the sources.
View == [basis : Nat, found : BOOLEAN, sources : SUBSET Sources]

Steps == {"idle", "prepare", "check", "sources", "begin", "write", "project",
          "done"}

\* The refusals a caller can read, and the two answers that carry a body.
Refusals == {"refused", "denied", "conflict", "moved", "inProgress", "failed"}
Answers == {"written", "replayed"}
NoReply == [kind |-> "none"]
Refused(kind) == [kind |-> kind]
Answered(kind, row) == [kind |-> kind, row |-> row]
Replies == {NoReply} \cup [kind : Refusals] \cup [kind : Answers, row : Row]

NoView == [basis |-> 0, found |-> FALSE, sources |-> {}]

TypeOK ==
    /\ granted \subseteq Ids
    /\ paused \in BOOLEAN
    /\ basis \in Nat
    /\ refs \subseteq Sources
    /\ readable \subseteq Sources
    /\ ledger \subseteq Row
    /\ audits \subseteq Calls
    /\ effects \subseteq Calls
    /\ pc \in [Calls -> Steps]
    /\ id \in [Calls -> Ids]
    /\ body \in [Calls -> Bodies]
    /\ checked \in [Calls -> View]
    /\ seen \in [Calls -> View]
    /\ stale \in [Calls -> BOOLEAN]
    /\ attempts \in [Calls -> Nat]
    /\ reply \in [Calls -> Replies]

Init ==
    /\ granted = Ids
    /\ paused = FALSE
    /\ basis = 0
    /\ refs \in SUBSET Sources
    /\ readable = Sources
    /\ ledger = {}
    /\ audits = {}
    /\ effects = {}
    /\ pc = [c \in Calls |-> "idle"]
    /\ id \in [Calls -> Ids]
    /\ body \in [Calls -> Bodies]
    /\ checked = [c \in Calls |-> NoView]
    /\ seen = [c \in Calls |-> NoView]
    /\ stale = [c \in Calls |-> FALSE]
    /\ attempts = [c \in Calls |-> 0]
    /\ reply = [c \in Calls |-> NoReply]

-----------------------------------------------------------------------------
(* The ledger *)

\* Ledger.Lookup: the rows saved under an identity.
Lookup(i) == {r \in ledger : r.id = i}
Found(i) == Lookup(i) # {}

\* Mutants of Conflicting: the digest is not compared; the digest is compared
\* with the rows of every identity.
MutantNoDigest(c) == FALSE
MutantAnyRowDigest(c) == \E r \in ledger : r.body # body[c]

\* The request digest binds a key to one body: a row saved for another body is
\* an idempotency conflict.
Conflicting(c) == \E r \in Lookup(id[c]) : r.body # body[c]

\* Mutant of Savable: Save overwrites instead of creating.
MutantUpsert(i) == TRUE

\* Ledger.Save creates the row; the table's unique index refuses a second row
\* for the identity.
Savable(i) == ~Found(i)

\* Mutant of SourceIDs: the stored source lists are not flattened.
MutantNestedSources(i) == IF Found(i) THEN {r.sources : r \in Lookup(i)} ELSE refs

\* SourceIDs: a stored replay names its own sources, a new write the sources
\* of the object it is about to write.
SourceIDs(i) == IF Found(i) THEN UNION {r.sources : r \in Lookup(i)} ELSE refs

\* What a transaction reads for a call.
CurrentView(c) == [basis |-> basis, found |-> Found(id[c]),
                   sources |-> SourceIDs(id[c])]

-----------------------------------------------------------------------------
(* Steps of a call *)

\* Move a call to its next step.
Goto(c, step) == pc' = [pc EXCEPT ![c] = step]

\* The locals of Run end with it.
DropLocals(c) ==
    /\ seen' = [seen EXCEPT ![c] = NoView]
    /\ stale' = [stale EXCEPT ![c] = FALSE]
    /\ attempts' = [attempts EXCEPT ![c] = 0]

\* End a call with a refusal.  A refusal in a transaction rolls it back.
Refuse(c, kind) ==
    /\ Goto(c, "done")
    /\ reply' = [reply EXCEPT ![c] = Refused(kind)]
    /\ checked' = [checked EXCEPT ![c] = NoView]
    /\ DropLocals(c)
    /\ UNCHANGED <<dbVars, id, body>>

\* The entry gates (actor, key, inverse caller, human gate, body digest) look at
\* the request only, so whether a call passes them is part of its input.
Enter(c) ==
    /\ pc[c] = "idle"
    /\ \/ /\ Goto(c, "prepare")
          /\ UNCHANGED <<dbVars, id, body, checked, seen, stale, attempts, reply>>
       \/ Refuse(c, "refused")

\* PrepareCached and Prepare.  For the mutable change receipts the cached
\* proof is looked up under current authorization; provenance preparation may
\* refuse any call.
Prepare(c) ==
    /\ pc[c] = "prepare"
    /\ \/ /\ id[c] \in MutableReceipt => id[c] \in granted /\ ~Conflicting(c)
          /\ Goto(c, IF id[c] \in SourceSensitive THEN "check" ELSE "begin")
          /\ UNCHANGED <<dbVars, id, body, checked, seen, stale, attempts, reply>>
       \/ /\ id[c] \in MutableReceipt /\ id[c] \notin granted
          /\ Refuse(c, "denied")
       \/ /\ id[c] \in MutableReceipt \cap granted /\ Conflicting(c)
          /\ Refuse(c, "conflict")
       \/ Refuse(c, "failed")

\* The read-only transaction of a source-sensitive operation.
CheckBasis(c) ==
    /\ pc[c] = "check"
    /\ \/ /\ id[c] \in granted
          /\ ~Conflicting(c)
          /\ checked' = [checked EXCEPT ![c] = CurrentView(c)]
          /\ Goto(c, "sources")
          /\ UNCHANGED <<dbVars, id, body, seen, stale, attempts, reply>>
       \/ id[c] \notin granted /\ Refuse(c, "denied")
       \/ id[c] \in granted /\ Conflicting(c) /\ Refuse(c, "conflict")
       \/ Refuse(c, "failed")

\* CheckSources: policy IO on the checked sources, outside any transaction.
CheckSources(c) ==
    /\ pc[c] = "sources"
    /\ \/ /\ checked[c].sources \subseteq readable
          /\ Goto(c, "begin")
          /\ UNCHANGED <<dbVars, id, body, checked, seen, stale, attempts, reply>>
       \/ ~(checked[c].sources \subseteq readable) /\ Refuse(c, "denied")

\* AuthorizeProject, CheckProject and RuntimeGate, inside the write transaction.
Admitted(c) == id[c] \in granted /\ ~paused

\* Mutant of BasisHolds: the source lists are not compared again.
MutantBasisOnly(c) == id[c] \in SourceSensitive => basis = checked[c].basis

\* The basis comparison of the write transaction.
BasisHolds(c) == id[c] \in SourceSensitive => CurrentView(c) = checked[c]

\* Mutant of CountAttempt: a fresh budget for every retry.
MutantFreshBudget(c) == attempts' = [attempts EXCEPT ![c] = 1]

\* One budget covers all attempts of the write transaction.
CountAttempt(c) == attempts' = [attempts EXCEPT ![c] = @ + 1]

\* The guards of the write transaction, up to the replay decision.  The audit
\* row of an allowed call is written in the same transaction, so a failed audit
\* write is one of the ways the call ends "failed".
BeginWrite(c) ==
    /\ pc[c] = "begin"
    /\ \/ /\ Admitted(c)
          /\ ~Conflicting(c)
          /\ BasisHolds(c)
          /\ seen' = [seen EXCEPT ![c] = CurrentView(c)]
          /\ stale' = [stale EXCEPT ![c] = FALSE]
          /\ CountAttempt(c)
          /\ Goto(c, "write")
          /\ UNCHANGED <<dbVars, id, body, checked, reply>>
       \/ id[c] \notin granted /\ Refuse(c, "denied")
       \/ Admitted(c) /\ Conflicting(c) /\ Refuse(c, "conflict")
       \/ /\ Admitted(c) /\ ~Conflicting(c) /\ ~BasisHolds(c)
          /\ Refuse(c, "moved")
       \/ Refuse(c, "failed")

\* Mutant of Busy: an overtaken snapshot commits.
MutantNeverBusy(c) == FALSE

\* SQLite cannot upgrade a snapshot another writer has overtaken.
Busy(c) == Snapshot /\ stale[c]

\* retrySQLiteSpecOperation: a BUSY write transaction starts over, within a
\* bounded number of attempts and only for the listed operations.
RetryBusy(c) ==
    /\ pc[c] = "write"
    /\ Busy(c)
    /\ id[c] \in RetryLocks
    /\ attempts[c] < MaxAttempts
    /\ Goto(c, "begin")
    /\ UNCHANGED <<dbVars, id, body, checked, seen, stale, attempts, reply>>

GiveUpBusy(c) ==
    /\ pc[c] = "write"
    /\ Busy(c)
    /\ ~(id[c] \in RetryLocks /\ attempts[c] < MaxAttempts)
    /\ Refuse(c, IF id[c] \in RetryLocks THEN "inProgress" ELSE "failed")

\* Mutant of AuditRow: a failed audit write does not fail the operation.
MutantAuditFailsOpen(c) == audits' \in {audits, audits \cup {c}}

\* recordAuditInTransaction, on the operation's transaction.  A tenant-level
\* operation (createProject) has no project row to refer to, and a service may
\* have no audit store: neither writes a row.
AuditRow(c) == audits' = IF id[c] \in Audited THEN audits \cup {c} ELSE audits

\* A commit makes every other open write transaction's snapshot stale.
Overtake(c) ==
    stale' = [d \in Calls |-> stale[d] \/ (Snapshot /\ d # c /\ pc[d] = "write")]

\* The stored result is returned; the transaction commits its audit row only.
CommitReplay(c) ==
    /\ pc[c] = "write"
    /\ ~Busy(c)
    /\ seen[c].found
    /\ AuditRow(c)
    /\ \E r \in Lookup(id[c]) :
          reply' = [reply EXCEPT ![c] = Answered("replayed", r)]
    /\ Overtake(c)
    /\ Goto(c, "project")
    /\ UNCHANGED <<granted, paused, basis, refs, readable, ledger, effects,
                   id, body, checked, seen, attempts>>

\* Mutant of WriteCAS: UpdateProject does not compare the project's version.
MutantNoProjectCAS(c) == id[c] \in SourceSensitive => refs = seen[c].sources

\* The optimistic checks of the Write seam: UpdateProject compares the project's
\* version and revision, a source-sensitive write its target's version.
WriteCAS(c) ==
    /\ id[c] \in MovesBasis => basis = seen[c].basis
    /\ id[c] \in SourceSensitive => refs = seen[c].sources

\* The row a write saves.
RowOf(c) == [id |-> id[c], body |-> body[c], writer |-> c, sources |-> refs]

\* StorePins, Write, provenance, AfterWrite and Save commit together.
CommitWrite(c) ==
    /\ pc[c] = "write"
    /\ ~Busy(c)
    /\ ~seen[c].found
    /\ WriteCAS(c)
    /\ Savable(id[c])
    /\ id[c] \in MovesBasis => basis < MaxBasis
    /\ basis' = IF id[c] \in MovesBasis THEN basis + 1 ELSE basis
    /\ ledger' = ledger \cup {RowOf(c)}
    /\ AuditRow(c)
    /\ effects' = effects \cup {c}
    /\ reply' = [reply EXCEPT ![c] = Answered("written", RowOf(c))]
    /\ Overtake(c)
    /\ Goto(c, "project")
    /\ UNCHANGED <<granted, paused, refs, readable, id, body, checked, seen,
                   attempts>>

\* A write that loses: the optimistic check fails, the unique index refuses the
\* row, or the operation's own rules or the storage refuse it.
FailWrite(c) ==
    /\ pc[c] = "write"
    /\ ~Busy(c)
    /\ \/ ~seen[c].found /\ ~WriteCAS(c) /\ Refuse(c, "moved")
       \/ ~seen[c].found /\ ~Savable(id[c]) /\ Refuse(c, "inProgress")
       \/ Refuse(c, "failed")

\* Project renders the stored result after the commit.  It re-reads provenance
\* outside the transaction and can refuse a result that is already committed.
Project(c) ==
    /\ pc[c] = "project"
    /\ Goto(c, "done")
    /\ \/ UNCHANGED reply
       \/ reply' = [reply EXCEPT ![c] = Refused("failed")]
    /\ DropLocals(c)
    /\ UNCHANGED <<dbVars, id, body, checked>>

\* The process dies, or the connection to the caller is lost: an open
\* transaction rolls back, a committed one stays.
Crash(c) ==
    /\ pc[c] \notin {"idle", "done"}
    /\ Refuse(c, "failed")

-----------------------------------------------------------------------------
(* The rest of the system *)

\* A committed change of the database by another transaction.
OtherCommit ==
    /\ stale' = [d \in Calls |-> stale[d] \/ (Snapshot /\ pc[d] = "write")]
    /\ UNCHANGED <<readable, ledger, audits, effects, pc, id, body, checked,
                   seen, attempts, reply>>

\* A member is removed or reinstated, or the project leaves its writable state.
ChangeGrant(i) ==
    /\ granted' = IF i \in granted THEN granted \ {i} ELSE granted \cup {i}
    /\ OtherCommit
    /\ UNCHANGED <<paused, basis, refs>>

\* A runtime control pauses or resumes the scope.
TogglePause ==
    /\ paused' = ~paused
    /\ OtherCommit
    /\ UNCHANGED <<granted, basis, refs>>

\* Another operation advances the project.
MoveProject ==
    /\ basis < MaxBasis
    /\ basis' = basis + 1
    /\ OtherCommit
    /\ UNCHANGED <<granted, paused, refs>>

\* Another save replaces the target's sources without moving the project.
EditTarget ==
    /\ refs' \in (SUBSET Sources) \ {refs}
    /\ OtherCommit
    /\ UNCHANGED <<granted, paused, basis>>

\* The source policy grants or revokes a source; its store is not the project's.
ChangeSourceGrant(s) ==
    /\ readable' = IF s \in readable THEN readable \ {s} ELSE readable \cup {s}
    /\ UNCHANGED <<granted, paused, basis, refs, ledger, audits, effects,
                   callVars>>

CallStep(c) ==
    \/ Enter(c) \/ Prepare(c) \/ CheckBasis(c) \/ CheckSources(c)
    \/ BeginWrite(c) \/ RetryBusy(c) \/ GiveUpBusy(c)
    \/ CommitReplay(c) \/ CommitWrite(c) \/ FailWrite(c) \/ Project(c)

Environment ==
    \/ \E i \in Ids : ChangeGrant(i)
    \/ TogglePause \/ MoveProject \/ EditTarget
    \/ \E s \in Sources : ChangeSourceGrant(s)

Next ==
    \/ \E c \in Calls : CallStep(c) \/ Crash(c)
    \/ Environment

Spec == Init /\ [][Next]_vars

\* Every call has a goroutine of its own whose steps are bounded by its
\* context, so a call that can step eventually does.
FairSpec == Spec /\ \A c \in Calls : WF_vars(CallStep(c))

-----------------------------------------------------------------------------
(* Properties *)

HasAnswer(c) == reply[c].kind \in Answers

\* Run's promise to a retrying client: however many calls share an idempotency
\* identity, and however they interleave, at most one of them takes effect.
AtMostOnce == \A c, d \in effects : id[c] = id[d] => c = d

\* The write transaction carries the audit row, the idempotency record and the
\* business write together: no effect without its ledger row, no ledger row
\* without its effect, and, for the operations that are audited, neither an
\* effect nor a body served, fresh or replayed, without its audit row.
AtomicBoundary ==
    /\ effects = {r.writer : r \in ledger}
    /\ \A c \in Calls :
          (c \in effects \/ HasAnswer(c)) /\ id[c] \in Audited => c \in audits

\* Every body a caller reads, fresh or replayed, is the stored result of the
\* same identity for the same request body; a body is called fresh only for the
\* call that produced it.
AnswersAreStored ==
    \A c \in Calls : HasAnswer(c) =>
        LET r == reply[c].row
        IN  /\ r \in ledger
            /\ r.id = id[c]
            /\ r.body = body[c]
            /\ reply[c].kind = "written" <=> r.writer = c

\* A source-sensitive call only ever serves sources its own CheckSources call
\* looked at, although the target may be rewritten in between.
ServedSourcesWereChecked ==
    \A c \in Calls : HasAnswer(c) /\ id[c] \in SourceSensitive =>
        reply[c].row.sources = checked[c].sources

\* The idempotency conflict is only told about a key that is really taken by
\* another body.
ConflictIsReal ==
    \A c \in Calls : reply[c].kind = "conflict" =>
        \E r \in ledger : r.id = id[c] /\ r.body # body[c]

Commits(c) == pc[c] = "write" /\ pc'[c] = "project"

\* On a snapshot store, nobody whose permission was revoked before the commit
\* gets a write or a replay through, and no paused scope is written: the
\* decision taken at the start of the transaction still holds at its end.
AuthorizedAtCommit ==
    [][\A c \in Calls : Commits(c) => id[c] \in granted /\ ~paused]_vars

\* The project an operation writes to is the project its sources were checked
\* for: between the recheck and the commit nothing moved its basis.
BasisHeldAtCommit ==
    [][\A c \in Calls :
         Commits(c) /\ id[c] \in SourceSensitive /\ (Snapshot \/ id[c] \in MovesBasis)
         /\ ~seen[c].found
         => basis = checked[c].basis]_vars

\* Every call that entered Run ends, BUSY retries included.
CallsEnd == \A c \in Calls : pc[c] # "idle" ~> pc[c] = "done"

-----------------------------------------------------------------------------
(* The pipeline implements the abstract idempotent operation *)

Outcome(c) == IF reply[c].kind = "none" THEN "pending"
              ELSE IF HasAnswer(c) THEN "answered" ELSE "refused"

From(c) == IF HasAnswer(c) THEN reply[c].row.writer ELSE c

Abstract == INSTANCE IdempotentOperation WITH
    performed <- effects,
    outcome <- [c \in Calls |-> Outcome(c)],
    from <- [c \in Calls |-> From(c)]

\* Run with its ledger is an idempotent operation: every step of the pipeline is
\* a step of the abstract one or invisible to it.
ImplementsIdempotentOperation == Abstract!Spec
=============================================================================
