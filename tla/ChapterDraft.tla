---------------------------- MODULE ChapterDraft ----------------------------
(***************************************************************************)
(* One chapter and its working copy: saving, committing, restoring and     *)
(* reopening the draft (workspacecore/working_copy.go), saving a version   *)
(* directly (SaveChapter), accepting a generated candidate into the draft  *)
(* or as a version and confirming a version (candidateadoption).           *)
(*                                                                         *)
(* Every call declares what its client saw.  Its write transaction is two  *)
(* actions, the reads and the compare-and-swap updates, because READ       *)
(* COMMITTED lets other transactions commit between them.  The operations  *)
(* of workspacecore run inside the pipeline of module OperationPipeline;   *)
(* the two of candidateadoption keep idempotency rows of their own.        *)
(*                                                                         *)
(* A text stands for a body with its sources, citation usages and review   *)
(* items, and is named by the call that wrote it.                          *)
(***************************************************************************)
EXTENDS Integers, Sequences, FiniteSets

CONSTANTS
    Edits,       \* SaveWorkingCopy, ApplyRewrite, SetReviewAnchor
    Restores,    \* RestoreWorkingCopy
    Commits,     \* CommitWorkingCopy
    Saves,       \* SaveChapter
    Opens,       \* GetWorkingCopy
    Inserts,     \* AcceptCandidate into the working copy, whole or partial
    Adopts,      \* AcceptCandidate as a formal version
    Confirms,    \* ConfirmChapter
    KeyOf,       \* the idempotency key of an acceptance or a confirmation
    MaxCalls,    \* bound on the calls that are made
    MaxChanges,  \* bound on what happens around the chapter
    None

Adoptions == Inserts \cup Adopts
Keyed == Adoptions \cup Confirms
DraftWriters == Edits \cup Restores \cup Inserts
Calls == DraftWriters \cup Commits \cup Saves \cup Opens \cup Adopts \cup Confirms

ASSUME CallsAssumption ==
    /\ Inserts \cap Adopts = {} /\ Adoptions \cap Confirms = {}
    /\ (Edits \cup Restores) \cap Keyed = {}
    /\ Edits \cap Restores = {}
    /\ (Commits \cup Saves \cup Opens) \cap (DraftWriters \cup Keyed) = {}
    /\ Commits \cap Saves = {} /\ (Commits \cup Saves) \cap Opens = {}
    /\ DOMAIN KeyOf = Keyed
    /\ None \notin Calls

VARIABLES
    project,    \* version and specification revision of the project row
    current,    \* the chapter's current version, 0 for none
    versions,   \* the version rows in the order of their creation
    draft,      \* the working-copy row
    candidate,  \* the basis of the generated candidate
    changes,    \* how often something around the chapter changed
    rows,       \* the calls that wrote an idempotency row
    pc,
    seen,       \* what a call declares
    basis,      \* what its write transaction read
    answer,     \* the call whose row is the answer
    reply,      \* "ok"; "moved": not what the client saw; "refused": other errors
    repeats     \* history: the call was sent after its action had been recorded

tableVars == <<project, current, versions, draft, candidate, changes, rows>>
vars == <<tableVars, pc, seen, basis, answer, reply, repeats>>

(* The text of a version; the empty text before the first one. *)
TextOf(v) == IF v = 0 THEN None ELSE versions[v].text

-----------------------------------------------------------------------------
(* Steps of a call *)

At(c, label) == pc[c] = label
Goto(c, label) == pc' = [pc EXCEPT ![c] = label]

Proceed(c, label) ==
    /\ Goto(c, label)
    /\ UNCHANGED <<tableVars, seen, basis, answer, reply, repeats>>

Return(c, why, row) ==
    /\ Goto(c, "done")
    /\ reply' = [reply EXCEPT ![c] = why]
    /\ answer' = [answer EXCEPT ![c] = row]
    /\ basis' = [basis EXCEPT ![c] = None]
    /\ UNCHANGED <<tableVars, seen, repeats>>

(* An open transaction is rolled back. *)
Refuse(c, why) == Return(c, why, None)

(* A confirmation declares no working-copy revision.                       *)
Observation(c) ==
    [spec |-> project.spec, version |-> current,
     revision |-> IF c \in Confirms THEN 0 ELSE draft.revision,
     candidate |-> IF c \in Adoptions THEN candidate ELSE None]

(* An acceptance or a confirmation belongs to its table and its key. *)
ActionOf(c) == <<IF c \in Adoptions THEN "adoption" ELSE "confirmation", KeyOf[c]>>

Recorded(c) == IF c \in Keyed THEN {d \in rows : ActionOf(d) = ActionOf(c)} ELSE {}

\* Mutant: the digest covers the candidate and not the declaration.
MutantSameCandidate(c, d) == seen[c].candidate = seen[d].candidate

(* compareAdoptionDigest and confirmationRequestHash. *)
SameRequest(c, d) == seen[c] = seen[d]

FirstStep(c) == IF c \in Adoptions THEN "probe" ELSE IF c \in Confirms THEN "lookup" ELSE "read"

(* The client sends what it looked at, or sends an earlier request again. *)
Send(c) ==
    /\ At(c, "idle")
    /\ Cardinality({d \in Calls : ~At(d, "idle")}) < MaxCalls
    /\ \E what \in {Observation(c)} \cup
                   {seen[d] : d \in {e \in Keyed \ {c} : c \in Keyed /\ ~At(e, "idle") /\ ActionOf(e) = ActionOf(c)}} :
          /\ c \in Confirms => what.version # 0
          /\ seen' = [seen EXCEPT ![c] = what]
          /\ repeats' = [repeats EXCEPT ![c] = \E d \in Recorded(c) : seen[d] = what]
    /\ Goto(c, FirstStep(c))
    /\ UNCHANGED <<tableVars, basis, answer, reply>>

(* An existing row answers a call that asks for the same thing. *)
Replay(c, d) ==
    IF SameRequest(c, d)
    THEN /\ Goto(c, "answer")
         /\ answer' = [answer EXCEPT ![c] = d]
         /\ UNCHANGED <<tableVars, seen, basis, reply, repeats>>
    ELSE Refuse(c, "refused")

\* Mutant: the candidate is validated whether or not the key has a row.
MutantValidateFirst(c) ==
    /\ At(c, "probe")
    /\ Proceed(c, "validate")

(* CandidateAcceptancePending: only a key without a row has its candidate  *)
(* validated before the replay.                                            *)
Probe(c) ==
    /\ At(c, "probe")
    /\ \/ Recorded(c) = {} /\ Proceed(c, "validate")
       \/ \E d \in Recorded(c) : IF SameRequest(c, d) THEN Proceed(c, "lookup") ELSE Refuse(c, "refused")

(* The declared specification and version are the current ones, and a      *)
(* candidate was generated on them (validateCandidate).                    *)
Fresh(c) ==
    /\ project.spec = seen[c].spec
    /\ current = seen[c].version
    /\ c \in Adoptions => seen[c].candidate = [spec |-> seen[c].spec, version |-> seen[c].version]

(* The read outside the write transaction. *)
Validate(c) ==
    /\ At(c, "validate")
    /\ IF Fresh(c) THEN Proceed(c, IF c \in Adoptions THEN "lookup" ELSE "read")
                   ELSE Refuse(c, "moved")

(* ReplayCandidateAcceptance and ReplayConfirmation.  A confirmation looks *)
(* up its row before it reads anything that can change.                    *)
LookUp(c) ==
    /\ At(c, "lookup")
    /\ \/ \E d \in Recorded(c) : Replay(c, d)
       \/ Recorded(c) = {} /\ Proceed(c, IF c \in Adoptions THEN "read" ELSE "validate")

-----------------------------------------------------------------------------
(* The write transaction: its reads *)

(* The draft is the one the client saw, on the current version and         *)
(* specification.                                                          *)
DraftDeclared(c) ==
    /\ draft.base = seen[c].version
    /\ draft.spec = seen[c].spec
    /\ draft.revision = seen[c].revision

(* cleanWorkingCopy: nothing in the draft is uncommitted. *)
Clean == draft.base = current /\ draft.text = TextOf(current)

(* What the operation compares with the declaration.  SaveChapter has no   *)
(* working-copy revision to compare.                                       *)
Declared(c) ==
    /\ Fresh(c)
    /\ c \in DraftWriters \cup Commits => DraftDeclared(c)
    /\ c \in Adopts => draft.revision = seen[c].revision /\ Clean

TakeBasis(c, label) ==
    /\ Goto(c, label)
    /\ basis' = [basis EXCEPT ![c] = [project |-> project, current |-> current, draft |-> draft]]
    /\ UNCHANGED <<tableVars, seen, answer, reply, repeats>>

Read(c) ==
    /\ At(c, "read") /\ c \notin Opens
    /\ \/ \E d \in Recorded(c) : Replay(c, d)
       \/ Recorded(c) = {} /\ Declared(c) /\ TakeBasis(c, "write")
       \/ Recorded(c) = {} /\ ~Declared(c) /\ Refuse(c, "moved")

-----------------------------------------------------------------------------
(* The write transaction: its updates *)

\* Mutant: the project row is updated by its id alone.
MutantProjectById(c) == TRUE

ProjectUnmoved(c) == project = basis[c].project

PointerUnmoved(c) == current = basis[c].current

\* Mutant: the working copy is updated by its key alone.
MutantDraftByKey(c) == TRUE

DraftUnmoved(c) ==
    /\ draft.base = basis[c].draft.base
    /\ draft.spec = basis[c].draft.spec
    /\ draft.revision = basis[c].draft.revision

(* The WHERE clauses of the updates an operation makes.  SaveChapter reads *)
(* the draft only after its project update: an edit committed before that  *)
(* read is replaced, one committed after it refuses the call (Fail).       *)
Unmoved(c) ==
    /\ c \notin DraftWriters => ProjectUnmoved(c)
    /\ c \in Commits \cup Saves \cup Adopts => PointerUnmoved(c)
    /\ c \notin Confirms \cup Saves => DraftUnmoved(c)

(* UNIQUE (project, chapter, actor, key). *)
KeyFree(c) == Recorded(c) = {}

Committed(c) ==
    /\ Goto(c, "answer")
    /\ rows' = IF c \in Keyed THEN rows \cup {c} ELSE rows
    /\ answer' = [answer EXCEPT ![c] = IF c \in Keyed THEN c ELSE None]
    /\ basis' = [basis EXCEPT ![c] = None]
    /\ UNCHANGED <<candidate, changes, seen, reply, repeats>>

(* SaveWorkingCopy, ApplyRewrite, writeWorkingCopy. *)
WriteDraft(c, text) ==
    /\ draft' = [draft EXCEPT !.revision = @ + 1, !.text = text]
    /\ UNCHANGED <<project, current, versions>>

\* Mutant: the new version leaves the working copy on the old one.
MutantLeaveDraftBehind(c, text) ==
    /\ versions' = Append(versions, [parent |-> basis[c].current, text |-> text,
                                     spec |-> seen[c].spec, confirmed |-> FALSE])
    /\ current' = Len(versions) + 1
    /\ project' = [project EXCEPT !.version = @ + 1]
    /\ UNCHANGED draft

(* AppendChapter, and the acceptance's own insert: a new unconfirmed       *)
(* version, the pointer, the project version and the draft on top of it.   *)
AppendVersion(c, text) ==
    LET id == Len(versions) + 1 IN
    /\ versions' = Append(versions, [parent |-> basis[c].current, text |-> text,
                                     spec |-> seen[c].spec, confirmed |-> FALSE])
    /\ current' = id
    /\ project' = [project EXCEPT !.version = @ + 1]
    /\ draft' = [base |-> id, spec |-> seen[c].spec, revision |-> draft.revision + 1, text |-> text]

\* Mutant: the flag receives the confirmation's identity.
MutantConfirmedBy(c) ==
    /\ versions' = [versions EXCEPT ![seen[c].version].confirmed = c]
    /\ project' = [project EXCEPT !.version = @ + 1]
    /\ UNCHANGED <<current, draft>>

ConfirmVersion(c) ==
    /\ versions' = [versions EXCEPT ![seen[c].version].confirmed = TRUE]
    /\ project' = [project EXCEPT !.version = @ + 1]
    /\ UNCHANGED <<current, draft>>

Effect(c) ==
    \/ c \in Edits \cup Inserts /\ WriteDraft(c, c)
    \/ c \in Restores /\ \E v \in 1 .. Len(versions) : WriteDraft(c, versions[v].text)
    \/ c \in Commits /\ AppendVersion(c, basis[c].draft.text)
    \/ c \in Saves \cup Adopts /\ AppendVersion(c, c)
    \/ c \in Confirms /\ ConfirmVersion(c)

Write(c) ==
    /\ At(c, "write")
    /\ IF ~Unmoved(c) THEN Refuse(c, "moved")
       ELSE IF ~KeyFree(c) THEN Refuse(c, "refused")
       ELSE Effect(c) /\ Committed(c)

-----------------------------------------------------------------------------
(* Reopening the draft *)

(* GetWorkingCopy's read: a draft left behind by a new version may only be *)
(* replaced if it is its old base untouched; one left behind by a new      *)
(* specification keeps its text.                                           *)
ReadDraft(c) ==
    /\ At(c, "read") /\ c \in Opens
    /\ IF draft.base = current /\ draft.spec = project.spec THEN Proceed(c, "answer")
       ELSE IF draft.spec > project.spec \/ (draft.base # current /\ draft.text # TextOf(draft.base))
       THEN Refuse(c, "moved")
       ELSE TakeBasis(c, "recover")

(* Its second transaction, after the source policy was asked. *)
RecoverDraft(c) ==
    /\ At(c, "recover")
    /\ IF project.spec = basis[c].project.spec /\ PointerUnmoved(c) /\ DraftUnmoved(c)
       THEN /\ draft' = [base |-> current, spec |-> project.spec, revision |-> draft.revision + 1,
                         text |-> IF draft.base = current THEN draft.text ELSE TextOf(current)]
            /\ Committed(c)
            /\ UNCHANGED <<project, current, versions>>
       ELSE Refuse(c, "moved")

-----------------------------------------------------------------------------
(* The answer, failures and everybody else *)

(* An acceptance rechecks the access of its caller first; a recheck that   *)
(* fails is Fail.                                                          *)
Answer(c) ==
    /\ At(c, "answer")
    /\ Return(c, "ok", answer[c])

(* Authorization, the source policy, a validation of the request, the      *)
(* storage or the process fails.  A committed transaction stays.           *)
Fail(c) ==
    /\ pc[c] \notin {"idle", "done"}
    /\ Refuse(c, "refused")

Around ==
    /\ changes < MaxChanges
    /\ changes' = changes + 1
    /\ UNCHANGED <<current, draft, rows, pc, seen, basis, answer, reply, repeats>>

(* ApplyChangeSet: a new specification revision, which may take the        *)
(* confirmation of the current version with it.  No draft is touched.      *)
ChangeSpec(invalidates) ==
    /\ project' = [version |-> project.version + 1, spec |-> project.spec + 1]
    /\ versions' = IF invalidates /\ current # 0
                   THEN [versions EXCEPT ![current].confirmed = FALSE] ELSE versions
    /\ Around
    /\ UNCHANGED candidate

(* A write of another chapter. *)
MoveProject ==
    /\ project' = [project EXCEPT !.version = @ + 1]
    /\ Around
    /\ UNCHANGED <<versions, candidate>>

(* A candidate is generated on what the chapter is now. *)
Generate ==
    /\ candidate' = [spec |-> project.spec, version |-> current]
    /\ Around
    /\ UNCHANGED <<project, versions>>

-----------------------------------------------------------------------------
Init ==
    /\ project = [version |-> 1, spec |-> 1]
    /\ current = 0 /\ versions = <<>>
    /\ draft = [base |-> 0, spec |-> 1, revision |-> 1, text |-> None]
    /\ candidate = [spec |-> 1, version |-> 0]
    /\ changes = 0 /\ rows = {}
    /\ pc = [c \in Calls |-> "idle"]
    /\ seen = [c \in Calls |-> None] /\ basis = [c \in Calls |-> None]
    /\ answer = [c \in Calls |-> None] /\ reply = [c \in Calls |-> "none"]
    /\ repeats = [c \in Calls |-> FALSE]

CallStep(c) ==
    \/ Send(c) \/ Probe(c) \/ Validate(c) \/ LookUp(c) \/ Read(c) \/ Write(c)
    \/ ReadDraft(c) \/ RecoverDraft(c) \/ Answer(c) \/ Fail(c)

Environment ==
    \/ \E invalidates \in BOOLEAN : ChangeSpec(invalidates)
    \/ MoveProject
    \/ Generate

Next == (\E c \in Calls : CallStep(c)) \/ Environment

Spec == Init /\ [][Next]_vars

-----------------------------------------------------------------------------
(* Properties *)

Texts == Calls \cup {None}
Labels == {"idle", "probe", "validate", "lookup", "read", "write", "recover", "answer", "done"}
ProjectRow == [version : Nat, spec : Nat]
DraftRow == [base : Nat, spec : Nat, revision : Nat, text : Texts]
VersionRow == [parent : Nat, text : Texts, spec : Nat, confirmed : BOOLEAN]
CandidateBasis == [spec : Nat, version : Nat]
Declaration == [spec : Nat, version : Nat, revision : Nat, candidate : CandidateBasis \cup {None}]
BasisRow == [project : ProjectRow, current : Nat, draft : DraftRow]

(* Rows and calls hold values of their columns' types, a call that was     *)
(* sent has declared something and one about to write has read its basis.  *)
TypeOK ==
    /\ project \in ProjectRow /\ current \in Nat /\ versions \in Seq(VersionRow)
    /\ draft \in DraftRow /\ candidate \in CandidateBasis /\ changes \in Nat
    /\ rows \subseteq Keyed
    /\ pc \in [Calls -> Labels]
    /\ seen \in [Calls -> Declaration \cup {None}]
    /\ basis \in [Calls -> BasisRow \cup {None}]
    /\ answer \in [Calls -> Keyed \cup {None}]
    /\ reply \in [Calls -> {"none", "ok", "moved", "refused"}]
    /\ repeats \in [Calls -> BOOLEAN]
    /\ \A c \in Calls : pc[c] # "idle" => seen[c] \in Declaration
    /\ \A c \in Calls : pc[c] \in {"write", "recover"} => basis[c] \in BasisRow

(* Three operations append versions, from readings that can be outdated,   *)
(* and two keep the working copy in step with them.  The history of the    *)
(* chapter stays one chain that ends at the current version, and the draft *)
(* stays based on that version (AppendChapter, advanceAdoptedWorkingCopy): *)
(* no branch, no lost version, no draft left behind.                       *)
HistoryIsLinear ==
    /\ current = Len(versions)
    /\ \A v \in 1 .. Len(versions) : versions[v].parent = v - 1
    /\ draft.base = current

Wrote(c) == pc[c] \in {"write", "recover"} /\ pc'[c] = "answer"

(* Whatever was committed since the client looked, a formal write takes    *)
(* effect only on the specification and the chapter version it declared,   *)
(* and an adopted candidate only on the basis it was generated from        *)
(* (UpdateProject, the project_version updates of ConfirmChapter and       *)
(* AcceptCandidate).                                                       *)
FormalWritesHoldAtCommit ==
    [][\A c \in Calls : Wrote(c) /\ project'.version # project.version =>
          /\ project.spec = seen[c].spec
          /\ current = seen[c].version
          /\ c \in Adopts => seen[c].candidate = [spec |-> project.spec, version |-> current]]_vars

(* A call that replaces the text of the draft has seen that text, or the   *)
(* text is the draft's untouched base.                                     *)
ReplacesKnowingly(c) ==
    Wrote(c) /\ draft'.text # draft.text =>
        draft.text = TextOf(draft.base) \/ seen[c].revision = draft.revision

(* Two writers of one draft: nobody's uncommitted edits are replaced by an *)
(* edit, a restore, an acceptance, a commit or a recovery that has not     *)
(* seen them (the conditions of SaveWorkingCopy and writeWorkingCopy,      *)
(* cleanWorkingCopy).  SaveChapter is the exception, below.                *)
DraftsAreReplacedKnowingly ==
    [][\A c \in Calls \ Saves : ReplacesKnowingly(c)]_vars

(* The same for every operation: saving, adopting and committing "must not *)
(* overwrite newer input of the user" (plan of the writing release).       *)
DraftEditsAreNotLost ==
    [][\A c \in Calls : ReplacesKnowingly(c)]_vars

(* A request that is sent again after it took effect is never told that    *)
(* the project moved, however far it did move: the answer is its row, or   *)
(* an error of access or of the sources (ReplayConfirmation before mutable *)
(* state is read, the probe before a candidate is validated).              *)
RetriesAreNotOutdated ==
    \A c \in Keyed : repeats[c] => reply[c] # "moved"

(* However many requests carry one key, they take effect once, and each is *)
(* answered from the row of the one that did, if it asked for the same     *)
(* thing (the lookups outside and inside the write transaction, and the    *)
(* unique key), although other calls commit between lookup and update.     *)
OneEffectPerKey ==
    /\ \A c, d \in rows : ActionOf(c) = ActionOf(d) => c = d
    /\ \A c \in Keyed : answer[c] # None =>
          answer[c] \in rows /\ ActionOf(answer[c]) = ActionOf(c) /\ seen[answer[c]] = seen[c]
=============================================================================
