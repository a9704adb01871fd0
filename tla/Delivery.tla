------------------------------ MODULE Delivery ------------------------------
(***************************************************************************)
(* Freezing, exporting and downloading one project: the full-workflow      *)
(* guard (internal/lingdoc/workspace/full_workflow_guard.go) around the    *)
(* release and export services, and the snapshot and artifact tables of    *)
(* internal/lingdoc/delivery.                                              *)
(*                                                                         *)
(* None of the three operations uses the operation pipeline.  A call opens *)
(* one transaction after another, renders and asks the source policy in    *)
(* between, and everyone else keeps working: one action here is one of its *)
(* transactions.  A row is named by the call that inserted it, so two      *)
(* calls of one user under one key are two names for one action.           *)
(***************************************************************************)
EXTENDS Integers, FiniteSets

CONSTANTS
    Freezes, Exports, Downloads,  \* the calls a behaviour may contain
    Users, Creator,               \* Creator: the first Owner
    UserOf, KeyOf,                \* who makes a call, and under which key
    MaxCalls,                     \* bound on the calls that are made
    MaxVersion,                   \* bound on the project version
    MaxChanges,                   \* bound on what other people change
    SnapshotStore,                \* TRUE: SQLite, a write that was overtaken is BUSY;
                                  \* FALSE: PostgreSQL, READ COMMITTED
    None

Keyed == Freezes \cup Exports
Calls == Keyed \cup Downloads
Receivers == Freezes \cup Downloads  \* the calls that return content
Verdicts == {"passed", "blocked"}  \* not_evaluated is a block that nobody dismisses
Basis == [version : Nat, source : Nat]
Snapshot == [version : Nat, source : Nat, check : Verdicts]
FileStates == {"verified", "failed"}

ASSUME CallsAssumption ==
    /\ Freezes \cap Exports = {} /\ Keyed \cap Downloads = {}
    /\ UserOf \in [Calls -> Users] /\ Creator \in Users
    /\ DOMAIN KeyOf = Calls
    /\ MaxVersion \in Nat /\ MaxChanges \in Nat /\ SnapshotStore \in BOOLEAN
    /\ None \notin Calls \cup Basis \cup Snapshot \cup FileStates

VARIABLES
    \* The project and its people.
    project,     \* version, release gate, verdict of the check and its disposition,
                 \* and whether the text quotes the source
    members, owner, paused,
    source,      \* the revision of the one source a project text may quote
    access,      \* the users whom the source policy lets read it
    changes,     \* how often other people changed something
    \* The tables.
    snapshots, artifacts,
    \* The calls.
    asked,       \* a freeze: the expected version; an export: the snapshot;
                 \* a download: the artifact
    pc,
    reply,       \* "ok"; "moved": the project is not what the caller saw or not
                 \* releasable; "refused": any other error
    answer,      \* the row a keyed call will answer with
    gated,       \* the basis the gate read
    made,        \* what the call built: a snapshot, or the status of an artifact
    proof,       \* the basis an export prepared its record on
    couldRead    \* history: the caller had source access at some time during the call

worldVars == <<project, members, owner, paused, source, access, changes>>
rowVars == <<snapshots, artifacts>>
localVars == <<gated, made, proof>>
vars == <<worldVars, rowVars, asked, pc, reply, answer, localVars, couldRead>>

-----------------------------------------------------------------------------
(* The action index: one row per kind of action, user and key *)

KindOf(c) == IF c \in Freezes THEN "freeze" ELSE "export"
ActionOf(c) == <<KindOf(c), UserOf[c], KeyOf[c]>>

Stored(c) == IF c \in Freezes THEN snapshots[c] # None ELSE artifacts[c] # None

Recorded(c) == {d \in Keyed : Stored(d) /\ ActionOf(d) = ActionOf(c)}

SameRequest(c, d) == asked[c] = asked[d]

(* The snapshot whose text a call works on or returns. *)
SnapshotOf(c) ==
    snapshots[CASE c \in Freezes -> answer[c]
                [] c \in Exports -> asked[c]
                [] OTHER         -> asked[asked[c]]]

-----------------------------------------------------------------------------
(* Steps of a call *)

At(c, label) == pc[c] = label
Goto(c, label) == pc' = [pc EXCEPT ![c] = label]

\* The call returns, and what it had built is gone.
Return(c, why) ==
    /\ Goto(c, "done")
    /\ reply' = [reply EXCEPT ![c] = why]
    /\ made' = [made EXCEPT ![c] = None]
    /\ proof' = [proof EXCEPT ![c] = None]
    /\ UNCHANGED <<worldVars, rowVars, asked, gated, couldRead>>

Refuse(c, why) ==
    /\ Return(c, why)
    /\ answer' = [answer EXCEPT ![c] = None]

Proceed(c, label) ==
    /\ Goto(c, label)
    /\ UNCHANGED <<worldVars, rowVars, asked, reply, answer, localVars, couldRead>>

AnswerWith(c, d, label) ==
    /\ Goto(c, label)
    /\ answer' = [answer EXCEPT ![c] = d]
    /\ UNCHANGED <<worldVars, rowVars, asked, reply, localVars, couldRead>>

Succeed(c) ==
    /\ Return(c, "ok")
    /\ UNCHANGED answer

(* A client names a snapshot or an artifact it was shown, their ids being  *)
(* random; a freeze may expect any version, one that is yet to come too.   *)
Known(c) ==
    CASE c \in Freezes -> TRUE
      [] c \in Exports -> snapshots[asked[c]] # None
      [] OTHER         -> artifacts[asked[c]] # None

Begin(c) ==
    /\ At(c, "idle")
    /\ Cardinality({d \in Calls : ~At(d, "idle")}) < MaxCalls
    /\ Known(c)
    /\ Goto(c, "admit")
    /\ couldRead' = [d \in Receivers |-> couldRead[d] \/ (d = c /\ UserOf[c] \in access)]
    /\ UNCHANGED <<worldVars, rowVars, asked, reply, answer, localVars>>

IsMember(c) == UserOf[c] \in members

(* The source revision quoted by the current text; 0 when it quotes none. *)
Quoted == IF project.quotes THEN source ELSE 0

(* checkSources and the source reviewer, for a text that quotes rev. *)
MayRead(c, rev) == rev # 0 => UserOf[c] \in access

(* AuthorizeDeliveryExportInTransaction. *)
MayExport(c) == IsMember(c) /\ UserOf[c] = owner /\ ~paused

(* FullWorkflowGuard.before, and AuthorizeDeliveryExport on an export. *)
Admit(c) ==
    /\ At(c, "admit")
    /\ IF IsMember(c) /\ ~paused /\ (c \in Exports => MayExport(c))
       THEN Proceed(c, "gate") ELSE Refuse(c, "refused")

(* What preflightBasisInTransaction digests. *)
GateBasis == [version |-> project.version, source |-> Quoted]

(* AssertRevisionStabilized: its first transaction judges the revision,    *)
(* the sources and the proofs are rechecked outside, its last transaction  *)
(* compares the basis.                                                     *)
GateRead(c) ==
    /\ At(c, "gate")
    /\ \/ ~IsMember(c) /\ Refuse(c, "refused")
       \/ IsMember(c) /\ ~project.stable /\ Refuse(c, "moved")
       \/ /\ IsMember(c) /\ project.stable
          /\ Goto(c, "recheck")
          /\ gated' = [gated EXCEPT ![c] = GateBasis]
          /\ UNCHANGED <<worldVars, rowVars, asked, reply, answer, made, proof, couldRead>>

AfterGate(c) == IF c \in Keyed THEN "lookup" ELSE "open"

GateRecheck(c) ==
    /\ At(c, "recheck")
    /\ IF ~IsMember(c) \/ ~MayRead(c, gated[c].source) THEN Refuse(c, "refused")
       ELSE IF gated[c] # GateBasis THEN Refuse(c, "moved")
       ELSE Proceed(c, AfterGate(c))

\* Mutant: a row of the same key is an answer to whatever is asked under it.
MutantReplayAnything(c, d, label) == AnswerWith(c, d, label)

(* replay: the recorded row, if it was recorded for the same request. *)
Replay(c, d, label) ==
    IF SameRequest(c, d) THEN AnswerWith(c, d, label) ELSE Refuse(c, "refused")

(* ReplayFreeze and ReplayExport, after the project authorization. *)
LookUp(c) ==
    /\ At(c, "lookup")
    /\ \/ ~IsMember(c) /\ Refuse(c, "refused")
       \/ IsMember(c) /\ \E d \in Recorded(c) : Replay(c, d, IF c \in Freezes THEN "get" ELSE "confirm")
       \/ /\ IsMember(c) /\ Recorded(c) = {}
          /\ Proceed(c, IF c \in Freezes THEN "assemble" ELSE "produce")

-----------------------------------------------------------------------------
(* Freezing *)

Build(c, label, thing) ==
    /\ Goto(c, label)
    /\ made' = [made EXCEPT ![c] = thing]
    /\ UNCHANGED <<worldVars, rowVars, asked, reply, answer, gated, proof, couldRead>>

(* The delivery input and, once evaluated, the verdict on it. *)
Input(check) == [version |-> project.version, source |-> Quoted, check |-> check]

\* Mutant: whatever is current is frozen.
MutantFreezeWhatIsThere(c) ==
    /\ At(c, "assemble")
    /\ Build(c, "freeze", Input("none"))

(* assemble compares the version it read with the one the caller saw. *)
Assemble(c) ==
    /\ At(c, "assemble")
    /\ IF project.version = asked[c] THEN Build(c, "freeze", Input("none"))
                                     ELSE Refuse(c, "moved")

\* Mutant: the disposition is taken for the status of the check.
MutantStatusIsDisposition == IF project.disposition = "dismiss" THEN "dismiss" ELSE project.verdict

(* Evaluate and ApplyDispositions: only a dismissal lifts a block. *)
CheckStatus ==
    IF project.verdict = "blocked" /\ project.disposition = "dismiss" THEN "passed"
    ELSE project.verdict

(* Freeze reads the workspace again.  The dispositions are read in a later *)
(* transaction, which commutes with everything but a disposition.          *)
Freeze(c) ==
    /\ At(c, "freeze")
    /\ IF Input("none") = made[c] /\ MayRead(c, Quoted)
       THEN Build(c, "record", Input(CheckStatus)) ELSE Refuse(c, "moved")

\* Mutant: the loser of the insert race answers with the snapshot in its hands.
MutantAnswerOwn(c, label) ==
    /\ Goto(c, label)
    /\ answer' = [answer EXCEPT ![c] = c]
    /\ UNCHANGED <<worldVars, rowVars, asked, reply, localVars, couldRead>>

(* INSERT ... ON CONFLICT DO NOTHING on the action index found a row. *)
LoseInsert(c, label) == \E d \in Recorded(c) : Replay(c, d, label)

(* RecordFreeze: snapshot, action columns and RuleSet use in one write. *)
RecordFreeze(c) ==
    /\ c \in Freezes /\ At(c, "record")
    /\ \/ Recorded(c) # {} /\ LoseInsert(c, "get")
       \/ /\ Recorded(c) = {}
          /\ snapshots' = [snapshots EXCEPT ![c] = made[c]]
          /\ answer' = [answer EXCEPT ![c] = c]
          /\ Goto(c, "get")
          /\ UNCHANGED <<worldVars, artifacts, asked, reply, localVars, couldRead>>

(* DeliveryReleaseService.Get of the recorded snapshot: membership and the *)
(* sources it quotes are judged again before the body is returned.         *)
GetSnapshot(c) ==
    /\ At(c, "get")
    /\ IF IsMember(c) /\ MayRead(c, SnapshotOf(c).source) THEN Succeed(c) ELSE Refuse(c, "refused")

-----------------------------------------------------------------------------
(* Exporting *)

(* stillCurrent and deliveryCurrent, for the snapshot to be exported. *)
Current(c) ==
    /\ SnapshotOf(c).version = project.version
    /\ SnapshotOf(c).source = Quoted
    /\ MayRead(c, Quoted)

(* produce, up to the renderer. *)
Produce(c) ==
    /\ At(c, "produce")
    /\ \/ SnapshotOf(c).check # "passed" /\ Refuse(c, "refused")
       \/ /\ SnapshotOf(c).check = "passed"
          /\ IF Current(c) THEN Proceed(c, "render") ELSE Refuse(c, "moved")

(* The rest of produce: a file that cannot be rendered or validated is a   *)
(* result of its own, a rendered one is compared with the workspace again. *)
Render(c) ==
    /\ At(c, "render")
    /\ \/ Build(c, "prepare", "failed")
       \/ IF Current(c) THEN Build(c, "prepare", "verified") ELSE Refuse(c, "moved")

(* deliveryExportNativeDigest, over the sources the snapshot quotes. *)
ExportBasis(c) ==
    [version |-> project.version, source |-> IF SnapshotOf(c).source = 0 THEN 0 ELSE source]

(* PrepareDeliveryExportNativeBasis: a verified file insists on the        *)
(* snapshot's project version, a failed one takes the current one; both    *)
(* insist on the source revision that was frozen.                          *)
PrepareBasis(c) ==
    /\ At(c, "prepare")
    /\ IF ~MayExport(c) \/ ~MayRead(c, SnapshotOf(c).source)
             \/ ExportBasis(c).source # SnapshotOf(c).source THEN Refuse(c, "refused")
       ELSE IF made[c] = "verified" /\ SnapshotOf(c).version # project.version
       THEN Refuse(c, "moved")
       ELSE /\ Goto(c, "record")
            /\ proof' = [proof EXCEPT ![c] = ExportBasis(c)]
            /\ UNCHANGED <<worldVars, rowVars, asked, reply, answer, gated, made, couldRead>>

\* Mutant: the record trusts the preparation.
MutantTrustPreparation(c) == MayExport(c)

(* ValidateDeliveryExportNativeBasisInTransaction. *)
ProofHolds(c) == MayExport(c) /\ proof[c] = ExportBasis(c)

(* Another transaction has inserted a row of this action and is still open: *)
(* an insert under the same action waits for its end.                      *)
InsertOpen(c) == \E d \in Exports : At(d, "commit") /\ ActionOf(d) = ActionOf(c)

(* The artifact and its action columns become visible. *)
StoreExport(c) ==
    /\ artifacts' = [artifacts EXCEPT ![c] = made[c]]
    /\ answer' = [answer EXCEPT ![c] = c]
    /\ Goto(c, "confirm")
    /\ UNCHANGED <<worldVars, snapshots, asked, reply, localVars, couldRead>>

(* fullWorkflowExportRecorder.recordExport: validation, insert, validation, *)
(* both audits, validation.  The validations read without a lock, so on    *)
(* PostgreSQL others may still commit between the last one and the COMMIT; *)
(* SQLite holds its one write lock from the insert on.                     *)
RecordExport(c) ==
    /\ c \in Exports /\ At(c, "record")
    /\ \/ ~ProofHolds(c) /\ Refuse(c, "moved")
       \/ ProofHolds(c) /\ Recorded(c) # {} /\ LoseInsert(c, "confirm")
       \/ /\ ProofHolds(c) /\ Recorded(c) = {} /\ ~InsertOpen(c)
          /\ IF SnapshotStore THEN StoreExport(c) ELSE Proceed(c, "commit")

(* The COMMIT of recordExport. *)
CommitExport(c) ==
    /\ At(c, "commit")
    /\ StoreExport(c)

(* Start authorizes the export once more before it answers. *)
ConfirmExport(c) ==
    /\ At(c, "confirm")
    /\ IF MayExport(c) THEN Succeed(c) ELSE Refuse(c, "refused")

-----------------------------------------------------------------------------
(* Downloading *)

\* Mutant: a download trusts the authorization of the export.
MutantOpenUnread(c) ==
    /\ At(c, "open")
    /\ Proceed(c, "send")

(* authorizeSnapshotSources. *)
OpenArtifact(c) ==
    /\ At(c, "open")
    /\ IF IsMember(c) /\ MayRead(c, SnapshotOf(c).source) THEN Proceed(c, "send") ELSE Refuse(c, "refused")

(* DownloadAs. *)
SendArtifact(c) ==
    /\ At(c, "send")
    /\ \/ ~IsMember(c) /\ Refuse(c, "refused")
       \/ IsMember(c) /\ artifacts[asked[c]] # "verified" /\ Refuse(c, "refused")
       \/ IsMember(c) /\ artifacts[asked[c]] = "verified" /\ Succeed(c)

(* The storage, an audit or the provenance fails, or the process dies.  A  *)
(* committed row stays.                                                    *)
Fail(c) ==
    /\ pc[c] \notin {"idle", "done"}
    /\ Refuse(c, "refused")

-----------------------------------------------------------------------------
(* Everybody else *)

Change ==
    /\ changes < MaxChanges
    /\ changes' = changes + 1
    /\ UNCHANGED <<rowVars, asked, pc, reply, answer, localVars>>

(* A committed write of the workspace: the version advances, the revision  *)
(* may or may not pass the gate, the check is another one.                 *)
MoveProject(stable, verdict, quotes) ==
    /\ project.version < MaxVersion
    /\ project' = [version |-> project.version + 1, stable |-> stable,
                   verdict |-> verdict, disposition |-> "none", quotes |-> quotes]
    /\ Change
    /\ UNCHANGED <<members, owner, paused, source, access, couldRead>>

(* Stabilization, and a task that turns stale, leave the version alone. *)
MoveGate ==
    /\ project' = [project EXCEPT !.stable = ~@]
    /\ Change
    /\ UNCHANGED <<members, owner, paused, source, access, couldRead>>

(* RecordValidationIssueDisposition: once per finding and project version. *)
SetIssueDisposition(action) ==
    /\ project.verdict = "blocked" /\ project.disposition = "none"
    /\ project' = [project EXCEPT !.disposition = action]
    /\ Change
    /\ UNCHANGED <<members, owner, paused, source, access, couldRead>>

ChangeMember(u) ==
    /\ members' = IF u \in members THEN members \ {u} ELSE members \cup {u}
    /\ Change
    /\ UNCHANGED <<project, owner, paused, source, access, couldRead>>

TransferOwner(u) ==
    /\ u \in members \ {owner}
    /\ owner' = u
    /\ Change
    /\ UNCHANGED <<project, members, paused, source, access, couldRead>>

TogglePause ==
    /\ paused' = ~paused
    /\ Change
    /\ UNCHANGED <<project, members, owner, source, access, couldRead>>

ChangeAccess(u) ==
    /\ access' = IF u \in access THEN access \ {u} ELSE access \cup {u}
    /\ couldRead' = [c \in Receivers |-> couldRead[c] \/ (UserOf[c] = u /\ u \in access')]
    /\ Change
    /\ UNCHANGED <<project, members, owner, paused, source>>

(* A new revision of the quoted asset; the project version stays. *)
ReviseSource ==
    /\ source' = source + 1
    /\ Change
    /\ UNCHANGED <<project, members, owner, paused, access, couldRead>>

-----------------------------------------------------------------------------
Init ==
    /\ project \in [version : {1}, stable : {TRUE}, verdict : Verdicts, disposition : {"none"},
                    quotes : {TRUE}]
    /\ members = Users /\ owner = Creator /\ paused = FALSE /\ source = 1
    /\ access \in {readers \in SUBSET Users : Creator \in readers}
    /\ changes = 0
    /\ snapshots = [c \in Freezes |-> None] /\ artifacts = [c \in Exports |-> None]
    /\ asked \in [Calls -> (1 .. MaxVersion) \cup Keyed]
    /\ \A c \in Calls : asked[c] \in (CASE c \in Freezes -> 1 .. MaxVersion
                                        [] c \in Exports -> Freezes
                                        [] OTHER         -> Exports)
    /\ pc = [c \in Calls |-> "idle"] /\ reply = [c \in Calls |-> "none"]
    /\ answer = [c \in Calls |-> None]
    /\ gated = [c \in Calls |-> None] /\ made = [c \in Calls |-> None]
    /\ proof = [c \in Calls |-> None]
    /\ couldRead = [c \in Receivers |-> FALSE]

CallStep(c) ==
    \/ Begin(c) \/ Admit(c) \/ GateRead(c) \/ GateRecheck(c) \/ LookUp(c)
    \/ Assemble(c) \/ Freeze(c) \/ RecordFreeze(c) \/ GetSnapshot(c)
    \/ Produce(c) \/ Render(c) \/ PrepareBasis(c)
    \/ RecordExport(c) \/ CommitExport(c) \/ ConfirmExport(c)
    \/ OpenArtifact(c) \/ SendArtifact(c)
    \/ Fail(c)

Environment ==
    \/ \E stable, quotes \in BOOLEAN, verdict \in Verdicts : MoveProject(stable, verdict, quotes)
    \/ MoveGate
    \/ \E action \in {"dismiss", "resolve"} : SetIssueDisposition(action)
    \/ \E u \in Users : ChangeMember(u) \/ TransferOwner(u) \/ ChangeAccess(u)
    \/ TogglePause
    \/ ReviseSource

Next == (\E c \in Calls : CallStep(c)) \/ Environment

Spec == Init /\ [][Next]_vars

-----------------------------------------------------------------------------
(* Properties *)

Replies == {"none", "ok", "moved", "refused"}
Labels == {"idle", "admit", "gate", "recheck", "lookup", "assemble", "freeze", "record", "get",
           "produce", "render", "prepare", "commit", "confirm", "open", "send", "done"}

(* Rows and calls hold values of their columns' vocabulary (CheckStatus,   *)
(* ExportStatus), and a call builds only what its operation builds.        *)
TypeOK ==
    /\ project \in [version : Nat, stable : BOOLEAN, verdict : Verdicts,
                    disposition : {"none", "dismiss", "resolve"}, quotes : BOOLEAN]
    /\ members \subseteq Users /\ owner \in Users /\ paused \in BOOLEAN /\ access \subseteq Users
    /\ source \in Nat /\ changes \in Nat
    /\ snapshots \in [Freezes -> Snapshot \cup {None}]
    /\ artifacts \in [Exports -> FileStates \cup {None}]
    /\ pc \in [Calls -> Labels] /\ reply \in [Calls -> Replies]
    /\ answer \in [Calls -> Keyed \cup {None}]
    /\ gated \in [Calls -> Basis \cup {None}] /\ proof \in [Calls -> Basis \cup {None}]
    /\ \A c \in Freezes : pc[c] = "record" => made[c] \in Snapshot
    /\ \A c \in Exports : pc[c] \in {"prepare", "record", "commit"} => made[c] \in FileStates

(* However many calls of one user carry one key, one row is recorded for   *)
(* it, and each call that answers does so with that row and only if it     *)
(* asked for the same thing (the action index of RecordFreeze and          *)
(* RecordExport; a loser is given the winner's row).                       *)
OneRowPerAction ==
    /\ \A c, d \in Keyed : Stored(c) /\ Stored(d) /\ ActionOf(c) = ActionOf(d) => c = d
    /\ \A c \in Keyed : answer[c] # None =>
          /\ Stored(answer[c])
          /\ ActionOf(answer[c]) = ActionOf(c)
          /\ SameRequest(answer[c], c)

(* Although the gate, the assembly, the rendering and the record are       *)
(* transactions of their own, what is delivered is what the gate passed: a *)
(* freeze for a version that existed when AssertRevisionStabilized judged  *)
(* it freezes the very version that was judged, no freeze goes back behind *)
(* it, and a verified file is of a snapshot that passed its check, of the  *)
(* version that the gate passed for that export.                           *)
DeliveredAsGated ==
    /\ \A c \in Freezes : snapshots[c] # None =>
          /\ gated[c].version <= snapshots[c].version
          /\ asked[c] <= gated[c].version => snapshots[c].version = gated[c].version
    /\ \A c \in Exports : artifacts[c] = "verified" =>
          /\ snapshots[asked[c]].version = gated[c].version
          /\ snapshots[asked[c]].check = "passed"

Exported(c) == artifacts[c] = None /\ artifacts'[c] # None

Inserted(c) == pc[c] = "record" /\ (Exported(c) \/ pc'[c] = "commit")

(* When the row of an artifact has been inserted and validated a last time *)
(* its maker still is the project's Owner and may export, the source still *)
(* has the revision that was frozen, and a verified file still describes   *)
(* the project: nothing that changed while the file was rendered is        *)
(* published (recordExport), whichever store is used.                      *)
ExportHoldsAtRecord ==
    [][\A c \in Exports : Inserted(c) =>
          /\ UserOf[c] = owner /\ owner \in members /\ ~paused
          /\ SnapshotOf(c).source \in {0, source}
          /\ made[c] = "verified" => SnapshotOf(c).version = project.version]_vars

(* The same at the moment the artifact becomes visible.  This is claimed   *)
(* of SQLite only: on PostgreSQL the last validation precedes the COMMIT.  *)
ExportHoldsAtCommit ==
    [][\A c \in Exports : Exported(c) =>
          /\ UserOf[c] = owner /\ owner \in members /\ ~paused
          /\ SnapshotOf(c).source \in {0, source}
          /\ artifacts'[c] = "verified" => SnapshotOf(c).version = project.version]_vars

(* Frozen text and file bytes that quote the source reach only a caller    *)
(* whom the source policy let read it at some time during that very call,  *)
(* although the gate asks only about the sources of the current text:      *)
(* neither an old key nor an old export identity outlives a revocation     *)
(* (Get after a replay, authorizeSnapshotSources before a download).       *)
ContentOnlyToReaders ==
    \A c \in Receivers : reply[c] = "ok" /\ SnapshotOf(c).source # 0 => couldRead[c]

-----------------------------------------------------------------------------
(* Freezing and exporting implement the abstract idempotent operation *)

Outcome(c) == IF answer[c] # None THEN "answered"
              ELSE IF pc[c] = "done" THEN "refused" ELSE "pending"

Abstract == INSTANCE IdempotentOperation WITH
    Calls <- Keyed,
    Ids <- {"freeze", "export"} \X Users \X {KeyOf[c] : c \in Keyed},
    Bodies <- (1 .. MaxVersion) \cup Freezes,
    id <- [c \in Keyed |-> ActionOf(c)],
    body <- [c \in Keyed |-> asked[c]],
    performed <- {c \in Keyed : Stored(c)},
    outcome <- [c \in Keyed |-> Outcome(c)],
    from <- [c \in Keyed |-> IF answer[c] # None THEN answer[c] ELSE c]

(* The two operations keep the promise of the operation pipeline without   *)
(* using it: at most one row per action, answers only from that row.       *)
ImplementsIdempotentOperation == Abstract!Spec
=============================================================================
