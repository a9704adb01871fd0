------------------------ MODULE ChapterDraftProofs ------------------------
(***************************************************************************)
(* Proofs about ChapterDraft for every set of calls and every bound.       *)
(*                                                                         *)
(* The invariant is built up in three layers.  TypeOK stands alone.        *)
(* HistoryIsLinear is inductive with it.  The action properties need, in   *)
(* addition, what a call that is about to write knows: its basis is what   *)
(* it declared, and as long as the project version has not moved neither   *)
(* has the chapter's pointer.                                              *)
(***************************************************************************)
EXTENDS ChapterDraft, SequenceTheorems, TLAPS

-----------------------------------------------------------------------------
(* Type correctness *)

(* Updating one element keeps a sequence a sequence of its length.         *)
LEMMA UpdateKeepsSeq ==
    ASSUME NEW S, NEW s \in Seq(S), NEW i, NEW e, i \in 1 .. Len(s) => e \in S
    PROVE  /\ [s EXCEPT ![i] = e] \in Seq(S)
           /\ Len([s EXCEPT ![i] = e]) = Len(s)
<1>1. CASE i \in 1 .. Len(s)
  BY <1>1, ExceptSeq
<1>2. CASE i \notin 1 .. Len(s)
  <2>1. s = [j \in 1 .. Len(s) |-> s[j]]
    BY LenProperties
  <2>2. [s EXCEPT ![i] = e] = s
    BY <1>2, <2>1
  <2>3. QED
    BY <2>2
<1>3. QED
  BY <1>1, <1>2

(* Setting the flag of one version keeps the rows typed.                   *)
LEMMA FlagKeepsRows ==
    ASSUME versions \in Seq(VersionRow), NEW i, NEW b \in BOOLEAN
    PROVE  /\ [versions EXCEPT ![i].confirmed = b] \in Seq(VersionRow)
           /\ Len([versions EXCEPT ![i].confirmed = b]) = Len(versions)
           /\ \A v \in 1 .. Len(versions) :
                 [versions EXCEPT ![i].confirmed = b][v].parent = versions[v].parent
<1> DEFINE row == [versions[i] EXCEPT !.confirmed = b]
<1>1. [versions EXCEPT ![i].confirmed = b] = [versions EXCEPT ![i] = row]
  OBVIOUS
<1>2. i \in 1 .. Len(versions) => row \in VersionRow /\ row.parent = versions[i].parent
  <2>1. SUFFICES ASSUME i \in 1 .. Len(versions)
                 PROVE  row \in VersionRow /\ row.parent = versions[i].parent
    OBVIOUS
  <2>2. versions[i] \in VersionRow
    BY <2>1, ElementOfSeq
  <2>3. QED
    BY <2>2 DEF VersionRow
<1>3. DOMAIN versions = 1 .. Len(versions)
  BY LenProperties
<1> HIDE DEF row
<1>4. \A v \in 1 .. Len(versions) : [versions EXCEPT ![i] = row][v].parent = versions[v].parent
  BY <1>2, <1>3
<1>5. QED
  BY <1>1, <1>2, <1>4, UpdateKeepsSeq

(* What the unions of call sets mean, for the provers.                     *)
LEMMA KeyedAreCalls == Keyed \subseteq Calls
BY DEF Keyed, Adoptions, Calls, DraftWriters

(* A new chapter's rows are typed (InsertChapter).                         *)
LEMMA InitTypeOK == Init => TypeOK
<1> SUFFICES ASSUME Init PROVE TypeOK
  OBVIOUS
<1>1. project \in ProjectRow /\ draft \in DraftRow /\ candidate \in CandidateBasis
  BY DEF Init, ProjectRow, DraftRow, CandidateBasis, Texts
<1>2. versions \in Seq(VersionRow)
  BY DEF Init
<1>3. QED
  BY <1>1, <1>2 DEF Init, TypeOK, Labels

(* A step that only moves a call between labels before its write.          *)
LEMMA ProceedTypeOK ==
    ASSUME TypeOK, NEW c \in Calls, pc[c] # "idle",
           NEW label \in Labels \ {"write", "recover"}, Proceed(c, label)
    PROVE  TypeOK'
BY DEF TypeOK, Proceed, Goto, tableVars

(* A call that returns or rolls back keeps the rows typed.                 *)
LEMMA ReturnTypeOK ==
    ASSUME TypeOK, NEW c \in Calls, pc[c] # "idle", NEW why \in {"ok", "moved", "refused"},
           NEW row \in Keyed \cup {None}, Return(c, why, row)
    PROVE  TypeOK'
BY DEF TypeOK, Return, Goto, tableVars, Labels

(* Answering from a recorded row keeps the rows typed.                     *)
LEMMA ReplayTypeOK ==
    ASSUME TypeOK, NEW c \in Calls, pc[c] # "idle", NEW d \in Recorded(c), Replay(c, d)
    PROVE  TypeOK'
<1>1. d \in Keyed
  BY DEF TypeOK, Recorded
<1>2. CASE SameRequest(c, d)
  BY <1>1, <1>2 DEF TypeOK, Replay, Goto, tableVars, Labels
<1>3. CASE ~SameRequest(c, d)
  BY <1>3, ReturnTypeOK DEF Replay, Refuse
<1>4. QED
  BY <1>2, <1>3

(* What a transaction read is a typed basis.                               *)
LEMMA TakeBasisTypeOK ==
    ASSUME TypeOK, NEW c \in Calls, pc[c] # "idle", NEW label \in {"write", "recover"},
           TakeBasis(c, label)
    PROVE  TypeOK'
<1>1. [project |-> project, current |-> current, draft |-> draft] \in BasisRow
  BY DEF TypeOK, BasisRow
<1>2. basis' \in [Calls -> BasisRow \cup {None}] /\ basis'[c] \in BasisRow
      /\ \A e \in Calls \ {c} : basis'[e] = basis[e]
  BY <1>1 DEF TypeOK, TakeBasis
<1>3. pc' \in [Calls -> Labels] /\ \A e \in Calls \ {c} : pc'[e] = pc[e]
  BY DEF TypeOK, TakeBasis, Goto, Labels
<1>4. QED
  BY <1>2, <1>3 DEF TypeOK, TakeBasis, tableVars

(* What a client saw, or sent before, is a typed declaration.              *)
LEMMA SendTypeOK ==
    ASSUME TypeOK, NEW c \in Calls, Send(c)
    PROVE  TypeOK'
<1>1. Observation(c) \in Declaration
  <2>1. (IF c \in Adoptions THEN candidate ELSE None) \in CandidateBasis \cup {None}
    BY DEF TypeOK
  <2>2. project.spec \in Nat /\ current \in Nat /\ draft.revision \in Nat
    BY DEF TypeOK, ProjectRow, DraftRow
  <2>3. QED
    BY <2>1, <2>2 DEF Observation, Declaration
<1>2. PICK what : /\ what \in Declaration
                  /\ seen' = [seen EXCEPT ![c] = what]
                  /\ repeats' = [repeats EXCEPT ![c] = \E d \in Recorded(c) : seen[d] = what]
  <2>1. PICK what \in {Observation(c)} \cup
                   {seen[d] : d \in {e \in Keyed \ {c} : c \in Keyed /\ ~At(e, "idle") /\ ActionOf(e) = ActionOf(c)}} :
             /\ seen' = [seen EXCEPT ![c] = what]
             /\ repeats' = [repeats EXCEPT ![c] = \E d \in Recorded(c) : seen[d] = what]
    BY Zenon DEF Send
  <2>2. what \in Declaration
    BY <1>1, KeyedAreCalls DEF TypeOK, At
  <2>3. QED
    BY <2>1, <2>2
<1>3. seen' \in [Calls -> Declaration \cup {None}] /\ seen'[c] \in Declaration
      /\ \A e \in Calls \ {c} : seen'[e] = seen[e]
  BY <1>2 DEF TypeOK
<1>4. repeats' \in [Calls -> BOOLEAN]
  BY <1>2 DEF TypeOK
<1>5. pc' \in [Calls -> Labels] /\ pc'[c] \notin {"write", "recover"}
      /\ \A e \in Calls \ {c} : pc'[e] = pc[e]
  BY DEF TypeOK, Send, Goto, FirstStep, Labels
<1>6. UNCHANGED <<tableVars, basis, answer, reply>>
  BY DEF Send
<1>7. QED
  BY <1>3, <1>4, <1>5, <1>6 DEF TypeOK, tableVars

(* The common part of a commit. *)
LEMMA CommittedTypes ==
    ASSUME TypeOK, NEW c \in Calls, pc[c] # "idle", Committed(c)
    PROVE  /\ rows' \subseteq Keyed
           /\ pc' \in [Calls -> Labels] /\ pc'[c] = "answer"
           /\ \A e \in Calls \ {c} : pc'[e] = pc[e] /\ basis'[e] = basis[e]
           /\ basis' \in [Calls -> BasisRow \cup {None}]
           /\ answer' \in [Calls -> Keyed \cup {None}]
           /\ UNCHANGED <<candidate, changes, seen, reply, repeats>>
BY DEF TypeOK, Committed, Goto, Labels

(* A commit of typed rows leaves typed rows.                               *)
LEMMA CommittedTypeOK ==
    ASSUME TypeOK, NEW c \in Calls, pc[c] # "idle", Committed(c),
           project' \in ProjectRow, current' \in Nat, versions' \in Seq(VersionRow),
           draft' \in DraftRow
    PROVE  TypeOK'
BY CommittedTypes DEF TypeOK

(* The working-copy row, field by field.                                   *)
LEMMA DraftRowOf ==
    ASSUME NEW base \in Nat, NEW spec \in Nat, NEW revision \in Nat, NEW text \in Texts
    PROVE  [base |-> base, spec |-> spec, revision |-> revision, text |-> text] \in DraftRow
BY DEF DraftRow

(* A draft write leaves a typed working copy and the rest alone.           *)
LEMMA WriteDraftTypes ==
    ASSUME TypeOK, NEW text \in Texts, NEW c, WriteDraft(c, text)
    PROVE  /\ draft' \in DraftRow
           /\ UNCHANGED <<project, current, versions>>
<1>1. draft.base \in Nat /\ draft.spec \in Nat /\ draft.revision + 1 \in Nat
  BY DEF TypeOK, DraftRow
<1>2. draft' = [base |-> draft.base, spec |-> draft.spec, revision |-> draft.revision + 1, text |-> text]
  BY DEF TypeOK, WriteDraft, DraftRow
<1>3. draft' \in DraftRow
  BY <1>1, <1>2, DraftRowOf
<1>4. QED
  BY <1>3 DEF WriteDraft

(* AppendChapter leaves typed rows.                                        *)
LEMMA AppendVersionTypes ==
    ASSUME TypeOK, NEW text \in Texts, NEW c \in Calls, pc[c] = "write", AppendVersion(c, text)
    PROVE  /\ project' \in ProjectRow /\ current' \in Nat
           /\ versions' \in Seq(VersionRow) /\ draft' \in DraftRow
<1>1. seen[c].spec \in Nat
  BY DEF TypeOK, Declaration
<1>2. basis[c].current \in Nat
  BY DEF TypeOK, BasisRow
<1>3. [parent |-> basis[c].current, text |-> text, spec |-> seen[c].spec, confirmed |-> FALSE] \in VersionRow
  BY <1>1, <1>2 DEF VersionRow
<1>4. versions' \in Seq(VersionRow)
  BY <1>3, AppendProperties DEF TypeOK, AppendVersion
<1>5. Len(versions) + 1 \in Nat
  BY LenProperties DEF TypeOK
<1>6. draft.revision + 1 \in Nat
  BY DEF TypeOK, DraftRow
<1>7. draft' \in DraftRow
  BY <1>1, <1>5, <1>6, DraftRowOf DEF AppendVersion
<1>8. project' \in ProjectRow
  BY DEF TypeOK, AppendVersion, ProjectRow
<1>9. QED
  BY <1>4, <1>5, <1>7, <1>8 DEF AppendVersion

(* The effect of every operation leaves typed rows.                        *)
LEMMA EffectTypes ==
    ASSUME TypeOK, NEW c \in Calls, pc[c] = "write", Effect(c)
    PROVE  /\ project' \in ProjectRow /\ current' \in Nat
           /\ versions' \in Seq(VersionRow) /\ draft' \in DraftRow
<1>1. c \in Texts
  BY DEF Texts
<1>2. project \in ProjectRow /\ current \in Nat /\ versions \in Seq(VersionRow) /\ draft \in DraftRow
  BY DEF TypeOK
<1>3. CASE c \in Edits \cup Inserts /\ WriteDraft(c, c)
  BY <1>1, <1>2, <1>3, WriteDraftTypes
<1>4. CASE c \in Restores /\ \E v \in 1 .. Len(versions) : WriteDraft(c, versions[v].text)
  <2>1. PICK v \in 1 .. Len(versions) : WriteDraft(c, versions[v].text)
    BY <1>4
  <2>2. versions[v] \in VersionRow
    BY <1>2, ElementOfSeq
  <2>3. versions[v].text \in Texts
    BY <2>2 DEF VersionRow
  <2>4. QED
    BY <1>2, <2>1, <2>3, WriteDraftTypes
<1>5. CASE c \in Commits /\ AppendVersion(c, basis[c].draft.text)
  <2>1. basis[c].draft.text \in Texts
    BY DEF TypeOK, BasisRow, DraftRow
  <2>2. QED
    BY <1>5, <2>1, AppendVersionTypes
<1>6. CASE c \in Saves \cup Adopts /\ AppendVersion(c, c)
  BY <1>1, <1>6, AppendVersionTypes
<1>7. CASE c \in Confirms /\ ConfirmVersion(c)
  <2>1. versions' \in Seq(VersionRow)
    BY <1>2, <1>7, FlagKeepsRows DEF ConfirmVersion
  <2>2. project' \in ProjectRow
    BY <1>2, <1>7 DEF ConfirmVersion, ProjectRow
  <2>3. QED
    BY <1>2, <1>7, <2>1, <2>2 DEF ConfirmVersion
<1>8. QED
  BY <1>3, <1>4, <1>5, <1>6, <1>7 DEF Effect

(* The update half of a write transaction keeps the rows typed.            *)
LEMMA WriteTypeOK ==
    ASSUME TypeOK, NEW c \in Calls, Write(c)
    PROVE  TypeOK'
<1>1. pc[c] = "write"
  BY DEF Write, At
<1>2. CASE Effect(c) /\ Committed(c)
  BY <1>1, <1>2, EffectTypes, CommittedTypeOK
<1>3. CASE \E why \in {"moved", "refused"} : Refuse(c, why)
  BY <1>1, <1>3, ReturnTypeOK DEF Refuse
<1>4. QED
  BY <1>2, <1>3, Zenon DEF Write

(* The texts a recovery may write exist, once the draft's base does.       *)
LEMMA RecoverDraftTypeOK ==
    ASSUME TypeOK, HistoryIsLinear, NEW c \in Calls, RecoverDraft(c)
    PROVE  TypeOK'
<1>1. pc[c] = "recover"
  BY DEF RecoverDraft, At
<1>2. CASE Refuse(c, "moved")
  BY <1>1, <1>2, ReturnTypeOK DEF Refuse
<1>3. CASE /\ draft' = [base |-> current, spec |-> project.spec, revision |-> draft.revision + 1,
                        text |-> IF draft.base = current THEN draft.text ELSE TextOf(current)]
           /\ Committed(c)
           /\ UNCHANGED <<project, current, versions>>
  <2>1. draft.text \in Texts /\ draft.revision + 1 \in Nat
    BY DEF TypeOK, DraftRow
  <2>2. project.spec \in Nat /\ current \in Nat
    BY DEF TypeOK, ProjectRow
  <2>3. (IF draft.base = current THEN draft.text ELSE TextOf(current)) = draft.text
    BY DEF HistoryIsLinear
  <2>4. draft' \in DraftRow
    BY <1>3, <2>1, <2>2, <2>3, DraftRowOf
  <2>5. project' \in ProjectRow /\ current' \in Nat /\ versions' \in Seq(VersionRow)
    BY <1>3 DEF TypeOK
  <2>6. QED
    BY <1>1, <1>3, <2>4, <2>5, CommittedTypeOK
<1>4. QED
  BY <1>2, <1>3, Zenon DEF RecoverDraft

(* What happens around the chapter keeps the rows typed.                   *)
LEMMA EnvironmentTypeOK ==
    ASSUME TypeOK, Environment
    PROVE  TypeOK'
<1>1. CASE \E invalidates \in BOOLEAN : ChangeSpec(invalidates)
  <2>1. PICK invalidates \in BOOLEAN : ChangeSpec(invalidates)
    BY <1>1
  <2>2. versions' \in Seq(VersionRow)
    BY <2>1, FlagKeepsRows DEF ChangeSpec, TypeOK
  <2>3. project' \in ProjectRow
    BY <2>1 DEF ChangeSpec, TypeOK, ProjectRow
  <2>4. QED
    BY <2>1, <2>2, <2>3 DEF ChangeSpec, Around, TypeOK
<1>2. CASE MoveProject
  <2>1. project' \in ProjectRow
    BY <1>2 DEF MoveProject, TypeOK, ProjectRow
  <2>2. QED
    BY <1>2, <2>1 DEF MoveProject, Around, TypeOK
<1>3. CASE Generate
  <2>1. candidate' \in CandidateBasis
    BY <1>3 DEF Generate, TypeOK, CandidateBasis, ProjectRow
  <2>2. QED
    BY <1>3, <2>1 DEF Generate, Around, TypeOK
<1>4. QED
  BY <1>1, <1>2, <1>3 DEF Environment

(* Every step of a call keeps the rows typed.                              *)
LEMMA CallStepTypeOK ==
    ASSUME TypeOK, HistoryIsLinear, NEW c \in Calls, CallStep(c)
    PROVE  TypeOK'
<1> USE DEF At
<1>1. CASE Send(c)
  BY <1>1, SendTypeOK
<1>2. CASE Probe(c)
  <2>1. pc[c] # "idle"
    BY <1>2 DEF Probe
  <2>2. CASE \E label \in {"validate", "lookup"} : Proceed(c, label)
    BY <2>1, <2>2, ProceedTypeOK DEF Labels
  <2>3. CASE Refuse(c, "refused")
    BY <2>1, <2>3, ReturnTypeOK DEF Refuse
  <2>4. QED
    BY <1>2, <2>2, <2>3, Zenon DEF Probe
<1>3. CASE Validate(c)
  <2>1. pc[c] # "idle"
    BY <1>3 DEF Validate
  <2>2. CASE \E label \in {"lookup", "read"} : Proceed(c, label)
    BY <2>1, <2>2, ProceedTypeOK DEF Labels
  <2>3. CASE Refuse(c, "moved")
    BY <2>1, <2>3, ReturnTypeOK DEF Refuse
  <2>4. QED
    BY <1>3, <2>2, <2>3 DEF Validate
<1>4. CASE LookUp(c)
  <2>1. pc[c] # "idle"
    BY <1>4 DEF LookUp
  <2>2. CASE \E d \in Recorded(c) : Replay(c, d)
    BY <2>1, <2>2, ReplayTypeOK
  <2>3. CASE \E label \in {"validate", "read"} : Proceed(c, label)
    BY <2>1, <2>3, ProceedTypeOK DEF Labels
  <2>4. QED
    BY <1>4, <2>2, <2>3 DEF LookUp
<1>5. CASE Read(c)
  <2>1. pc[c] # "idle"
    BY <1>5 DEF Read
  <2>2. CASE \E d \in Recorded(c) : Replay(c, d)
    BY <2>1, <2>2, ReplayTypeOK
  <2>3. CASE TakeBasis(c, "write")
    BY <2>1, <2>3, TakeBasisTypeOK
  <2>4. CASE Refuse(c, "moved")
    BY <2>1, <2>4, ReturnTypeOK DEF Refuse
  <2>5. QED
    BY <1>5, <2>2, <2>3, <2>4 DEF Read
<1>6. CASE Write(c)
  BY <1>6, WriteTypeOK
<1>7. CASE ReadDraft(c)
  <2>1. pc[c] # "idle"
    BY <1>7 DEF ReadDraft
  <2>2. CASE Proceed(c, "answer")
    BY <2>1, <2>2, ProceedTypeOK DEF Labels
  <2>3. CASE TakeBasis(c, "recover")
    BY <2>1, <2>3, TakeBasisTypeOK
  <2>4. CASE Refuse(c, "moved")
    BY <2>1, <2>4, ReturnTypeOK DEF Refuse
  <2>5. QED
    BY <1>7, <2>2, <2>3, <2>4 DEF ReadDraft
<1>8. CASE RecoverDraft(c)
  BY <1>8, RecoverDraftTypeOK
<1>9. CASE Answer(c)
  <2>1. pc[c] # "idle" /\ answer[c] \in Keyed \cup {None}
    BY <1>9 DEF Answer, TypeOK
  <2>2. QED
    BY <1>9, <2>1, ReturnTypeOK DEF Answer
<1>10. CASE Fail(c)
  BY <1>10, ReturnTypeOK DEF Fail, Refuse
<1>11. QED
  BY <1>1, <1>2, <1>3, <1>4, <1>5, <1>6, <1>7, <1>8, <1>9, <1>10, Zenon DEF CallStep

(* Types are inductive relative to the chain of versions.                  *)
LEMMA NextTypeOK ==
    ASSUME TypeOK, HistoryIsLinear, [Next]_vars
    PROVE  TypeOK'
<1>1. CASE \E c \in Calls : CallStep(c)
  BY <1>1, CallStepTypeOK
<1>2. CASE Environment
  BY <1>2, EnvironmentTypeOK
<1>3. CASE UNCHANGED vars
  BY <1>3 DEF TypeOK, vars, tableVars
<1>4. QED
  BY <1>1, <1>2, <1>3 DEF Next

-----------------------------------------------------------------------------
(* The chain of versions *)

(* What a step of a call does to the chapter: nothing, a write of its      *)
(* transaction that found everything unmoved, or a recovery.               *)
LEMMA CallStepKinds ==
    ASSUME TypeOK, NEW c \in Calls, CallStep(c)
    PROVE  \/ UNCHANGED tableVars /\ ~Wrote(c)
           \/ /\ pc[c] = "write" /\ Unmoved(c) /\ KeyFree(c)
              /\ Effect(c) /\ Committed(c)
           \/ /\ pc[c] = "recover" /\ PointerUnmoved(c) /\ DraftUnmoved(c)
              /\ draft' = [base |-> current, spec |-> project.spec, revision |-> draft.revision + 1,
                           text |-> IF draft.base = current THEN draft.text ELSE TextOf(current)]
              /\ Committed(c) /\ UNCHANGED <<project, current, versions>>
<1> DEFINE Quiet == UNCHANGED tableVars /\ ~Wrote(c)
<1>1. ASSUME NEW why, NEW row, Return(c, why, row) PROVE Quiet
  BY <1>1 DEF Return, Goto, Wrote, TypeOK
<1>2. ASSUME NEW why, Refuse(c, why) PROVE Quiet
  BY <1>1, <1>2 DEF Refuse
<1>3. ASSUME NEW label, Proceed(c, label), pc[c] \notin {"write", "recover"} PROVE Quiet
  BY <1>3 DEF Proceed, Wrote
<1>4. ASSUME NEW d, Replay(c, d), pc[c] \notin {"write", "recover"} PROVE Quiet
  BY <1>2, <1>4 DEF Replay, Wrote
<1>5. ASSUME NEW label, TakeBasis(c, label), pc[c] \notin {"write", "recover"} PROVE Quiet
  BY <1>5 DEF TakeBasis, Wrote
<1> USE DEF At
<1>6. ASSUME Send(c) PROVE Quiet
  BY <1>6 DEF Send, Wrote
<1> HIDE DEF Quiet
<1>7. ASSUME Probe(c) PROVE Quiet
  BY <1>2, <1>3, <1>7 DEF Probe
<1>8. ASSUME Validate(c) PROVE Quiet
  BY <1>2, <1>3, <1>8 DEF Validate
<1>9. ASSUME LookUp(c) PROVE Quiet
  BY <1>3, <1>4, <1>9 DEF LookUp
<1>10. ASSUME Read(c) PROVE Quiet
  BY <1>2, <1>4, <1>5, <1>10 DEF Read
<1>11. CASE Write(c)
  BY <1>2, <1>11, Zenon DEF Write, Quiet
<1>12. ASSUME ReadDraft(c) PROVE Quiet
  BY <1>2, <1>3, <1>5, <1>12 DEF ReadDraft
<1>13. CASE RecoverDraft(c)
  BY <1>2, <1>13, Zenon DEF RecoverDraft, Quiet
<1>14. ASSUME Answer(c) PROVE Quiet
  BY <1>1, <1>14 DEF Answer
<1>15. ASSUME Fail(c) PROVE Quiet
  BY <1>2, <1>15 DEF Fail
<1>16. QED
  BY <1>6, <1>7, <1>8, <1>9, <1>10, <1>11, <1>12, <1>13, <1>14, <1>15, Zenon DEF CallStep, Quiet

(* Only operations that append a version move the chapter.                 *)
LEMMA EffectCases ==
    ASSUME NEW c \in Calls, Effect(c)
    PROVE  \/ /\ c \in DraftWriters
              /\ \E text : WriteDraft(c, text)
           \/ /\ c \in Commits \cup Saves \cup Adopts
              /\ \E text : AppendVersion(c, text)
           \/ c \in Confirms /\ ConfirmVersion(c)
BY Zenon DEF Effect, DraftWriters

(* A new version on an unmoved pointer prolongs the chain.                 *)
LEMMA AppendKeepsChain ==
    ASSUME TypeOK, HistoryIsLinear, NEW c \in Calls, pc[c] = "write", PointerUnmoved(c),
           NEW text, AppendVersion(c, text)
    PROVE  HistoryIsLinear'
<1> DEFINE row == [parent |-> basis[c].current, text |-> text, spec |-> seen[c].spec, confirmed |-> FALSE]
<1>1. versions' = Append(versions, row) /\ current' = Len(versions) + 1 /\ draft'.base = Len(versions) + 1
  BY DEF AppendVersion
<1>2. row.parent = Len(versions)
  BY DEF PointerUnmoved, HistoryIsLinear
<1> HIDE DEF row
<1>3. versions \in Seq(VersionRow) /\ Len(versions) \in Nat
  BY LenProperties DEF TypeOK
<1>4. /\ Len(versions') = Len(versions) + 1
      /\ \A v \in 1 .. Len(versions) : versions'[v] = versions[v]
      /\ versions'[Len(versions) + 1] = row
  BY <1>1, <1>3
<1>5. \A v \in 1 .. Len(versions') : versions'[v].parent = v - 1
  <2>1. SUFFICES ASSUME NEW v \in 1 .. Len(versions') PROVE versions'[v].parent = v - 1
    OBVIOUS
  <2>2. CASE v \in 1 .. Len(versions)
    BY <1>4, <2>2 DEF HistoryIsLinear
  <2>3. CASE v = Len(versions) + 1
    BY <1>2, <1>3, <1>4, <2>3
  <2>4. QED
    BY <1>3, <1>4, <2>1, <2>2, <2>3
<1>6. QED
  BY <1>1, <1>4, <1>5 DEF HistoryIsLinear

(* Every step keeps the chain of versions and the draft on its end.        *)
LEMMA NextKeepsChain ==
    ASSUME TypeOK, HistoryIsLinear, [Next]_vars
    PROVE  HistoryIsLinear'
<1>1. CASE UNCHANGED <<current, versions, draft>>
  BY <1>1 DEF HistoryIsLinear
<1>2. ASSUME NEW c \in Calls, CallStep(c) PROVE HistoryIsLinear'
  <2>1. CASE UNCHANGED tableVars
    BY <1>1, <2>1 DEF tableVars
  <2>2. CASE pc[c] = "write" /\ Unmoved(c) /\ Effect(c)
    <3>1. CASE \E text : WriteDraft(c, text)
      BY <3>1 DEF WriteDraft, HistoryIsLinear, TypeOK, DraftRow
    <3>2. CASE c \in Commits \cup Saves \cup Adopts /\ \E text : AppendVersion(c, text)
      BY <2>2, <3>2, AppendKeepsChain DEF Unmoved
    <3>3. CASE ConfirmVersion(c)
      BY <3>3, FlagKeepsRows DEF ConfirmVersion, HistoryIsLinear, TypeOK
    <3>4. QED
      BY <2>2, <3>1, <3>2, <3>3, EffectCases
  <2>3. CASE /\ draft' = [base |-> current, spec |-> project.spec, revision |-> draft.revision + 1,
                          text |-> IF draft.base = current THEN draft.text ELSE TextOf(current)]
             /\ UNCHANGED <<project, current, versions>>
    BY <2>3 DEF HistoryIsLinear
  <2>4. QED
    BY <1>2, <2>1, <2>2, <2>3, CallStepKinds
<1>3. CASE Environment
  <2>1. CASE \E invalidates \in BOOLEAN : ChangeSpec(invalidates)
    <3>1. PICK invalidates \in BOOLEAN : ChangeSpec(invalidates)
      BY <2>1
    <3>2. UNCHANGED <<current, draft>>
      BY <3>1 DEF ChangeSpec, Around
    <3>3. CASE versions' = [versions EXCEPT ![current].confirmed = FALSE]
      BY <3>2, <3>3, FlagKeepsRows DEF HistoryIsLinear, TypeOK
    <3>4. CASE UNCHANGED versions
      BY <1>1, <3>2, <3>4
    <3>5. QED
      BY <3>1, <3>3, <3>4 DEF ChangeSpec
  <2>2. CASE MoveProject \/ Generate
    BY <1>1, <2>2 DEF MoveProject, Generate, Around
  <2>3. QED
    BY <1>3, <2>1, <2>2 DEF Environment
<1>4. CASE UNCHANGED vars
  BY <1>1, <1>4 DEF vars, tableVars
<1>5. QED
  BY <1>2, <1>3, <1>4 DEF Next

(* The empty history is a chain.                                           *)
LEMMA InitChain == Init => HistoryIsLinear
BY DEF Init, HistoryIsLinear

(* Every row, declaration and answer keeps its type (the columns of the    *)
(* chapter, version, working-copy and idempotency tables).                 *)
THEOREM TypeCorrect == Spec => []TypeOK
<1>1. Init => TypeOK /\ HistoryIsLinear
  BY InitTypeOK, InitChain
<1>2. TypeOK /\ HistoryIsLinear /\ [Next]_vars => (TypeOK /\ HistoryIsLinear)'
  BY NextTypeOK, NextKeepsChain
<1>3. QED
  BY <1>1, <1>2, PTL DEF Spec

(* The versions of the chapter stay one chain with the current version at  *)
(* its end and the draft on top of it, for any number of calls of          *)
(* AppendChapter, AcceptCandidate and GetWorkingCopy in any order.         *)
THEOREM HistoryStaysLinear == Spec => []HistoryIsLinear
<1>1. Init => TypeOK /\ HistoryIsLinear
  BY InitTypeOK, InitChain
<1>2. TypeOK /\ HistoryIsLinear /\ [Next]_vars => (TypeOK /\ HistoryIsLinear)'
  BY NextTypeOK, NextKeepsChain
<1>3. QED
  BY <1>1, <1>2, PTL DEF Spec

-----------------------------------------------------------------------------
(* What a call that is about to write knows *)

(* The basis of a write is what the call declared.                         *)
ReadIsDeclared ==
    \A c \in Calls : pc[c] = "write" =>
        /\ c \notin Opens
        /\ basis[c].project.spec = seen[c].spec
        /\ basis[c].current = seen[c].version
        /\ c \in Adopts => seen[c].candidate = [spec |-> seen[c].spec, version |-> seen[c].version]
        /\ c \in DraftWriters \cup Commits \cup Adopts => basis[c].draft.revision = seen[c].revision

(* The project version guards the pointer of the chapter.                  *)
VersionGuardsPointer ==
    \A c \in Calls : pc[c] = "write" =>
        /\ basis[c].project.version <= project.version
        /\ basis[c].project.version = project.version => basis[c].current = current

WriterInv == TypeOK /\ HistoryIsLinear /\ ReadIsDeclared /\ VersionGuardsPointer

(* A step of a call leaves the other calls alone.                          *)
LEMMA OthersKeep ==
    ASSUME TypeOK, NEW c \in Calls, CallStep(c), NEW e \in Calls \ {c}
    PROVE  /\ pc'[e] = pc[e] /\ basis'[e] = basis[e] /\ seen'[e] = seen[e]
           /\ answer'[e] = answer[e] /\ reply'[e] = reply[e] /\ repeats'[e] = repeats[e]
<1> DEFINE Alone == /\ pc'[e] = pc[e] /\ basis'[e] = basis[e] /\ seen'[e] = seen[e]
                    /\ answer'[e] = answer[e] /\ reply'[e] = reply[e] /\ repeats'[e] = repeats[e]
<1>1. ASSUME NEW why, NEW row, Return(c, why, row) PROVE Alone
  BY <1>1 DEF Return, Goto, TypeOK
<1>2. ASSUME NEW why, Refuse(c, why) PROVE Alone
  BY <1>1, <1>2 DEF Refuse
<1>3. ASSUME NEW label, Proceed(c, label) PROVE Alone
  BY <1>3 DEF Proceed, Goto, TypeOK
<1>4. ASSUME NEW d, Replay(c, d) PROVE Alone
  BY <1>2, <1>4 DEF Replay, Goto, TypeOK
<1>5. ASSUME NEW label, TakeBasis(c, label) PROVE Alone
  BY <1>5 DEF TakeBasis, Goto, TypeOK
<1>6. ASSUME Committed(c) PROVE Alone
  BY <1>6 DEF Committed, Goto, TypeOK
<1>7. ASSUME Send(c) PROVE Alone
  BY <1>7 DEF Send, Goto, TypeOK
<1> HIDE DEF Alone
<1>8. ASSUME Probe(c) PROVE Alone
  BY <1>2, <1>3, <1>8 DEF Probe
<1>9. ASSUME Validate(c) PROVE Alone
  BY <1>2, <1>3, <1>9 DEF Validate
<1>10. ASSUME LookUp(c) PROVE Alone
  BY <1>3, <1>4, <1>10 DEF LookUp
<1>11. ASSUME Read(c) PROVE Alone
  BY <1>2, <1>4, <1>5, <1>11 DEF Read
<1>12. ASSUME Write(c) PROVE Alone
  BY <1>2, <1>6, <1>12 DEF Write
<1>13. ASSUME ReadDraft(c) PROVE Alone
  BY <1>2, <1>3, <1>5, <1>13 DEF ReadDraft
<1>14. ASSUME RecoverDraft(c) PROVE Alone
  BY <1>2, <1>6, <1>14 DEF RecoverDraft
<1>15. ASSUME Answer(c) PROVE Alone
  BY <1>1, <1>15 DEF Answer
<1>16. ASSUME Fail(c) PROVE Alone
  BY <1>2, <1>16 DEF Fail
<1>17. QED
  BY <1>7, <1>8, <1>9, <1>10, <1>11, <1>12, <1>13, <1>14, <1>15, <1>16, Zenon DEF CallStep, Alone

(* A call is about to write only after it read what it declared.           *)
LEMMA EnterWrite ==
    ASSUME TypeOK, NEW c \in Calls, CallStep(c), pc'[c] = "write"
    PROVE  c \notin Opens /\ Declared(c) /\ Recorded(c) = {} /\ pc[c] = "read" /\ TakeBasis(c, "write")
<1>1. ASSUME NEW why, NEW row, Return(c, why, row) PROVE FALSE
  BY <1>1 DEF Return, Goto, TypeOK
<1>2. ASSUME NEW why, Refuse(c, why) PROVE FALSE
  BY <1>1, <1>2 DEF Refuse
<1>3. ASSUME NEW label, Proceed(c, label), label # "write" PROVE FALSE
  BY <1>3 DEF Proceed, Goto, TypeOK
<1>4. ASSUME NEW d, Replay(c, d) PROVE FALSE
  BY <1>2, <1>4 DEF Replay, Goto, TypeOK
<1>5. ASSUME TakeBasis(c, "recover") PROVE FALSE
  BY <1>5 DEF TakeBasis, Goto, TypeOK
<1>6. ASSUME Committed(c) PROVE FALSE
  BY <1>6 DEF Committed, Goto, TypeOK
<1>7. ASSUME Send(c) PROVE FALSE
  BY <1>7 DEF Send, Goto, FirstStep, TypeOK
<1>8. ASSUME Probe(c) PROVE FALSE
  BY <1>2, <1>3, <1>8 DEF Probe
<1>9. ASSUME Validate(c) PROVE FALSE
  BY <1>2, <1>3, <1>9 DEF Validate
<1>10. ASSUME LookUp(c) PROVE FALSE
  BY <1>3, <1>4, <1>10 DEF LookUp
<1>11. CASE Read(c)
  BY <1>2, <1>4, <1>11 DEF Read, At
<1>12. ASSUME Write(c) PROVE FALSE
  BY <1>2, <1>6, <1>12 DEF Write
<1>13. ASSUME ReadDraft(c) PROVE FALSE
  BY <1>2, <1>3, <1>5, <1>13 DEF ReadDraft
<1>14. ASSUME RecoverDraft(c) PROVE FALSE
  BY <1>2, <1>6, <1>14 DEF RecoverDraft
<1>15. ASSUME Answer(c) PROVE FALSE
  BY <1>1, <1>15 DEF Answer
<1>16. ASSUME Fail(c) PROVE FALSE
  BY <1>2, <1>16 DEF Fail
<1>17. QED
  BY <1>7, <1>8, <1>9, <1>10, <1>11, <1>12, <1>13, <1>14, <1>15, <1>16, Zenon DEF CallStep

(* A call keeps its declaration and its basis while it stays at a write.   *)
LEMMA WriterKeeps ==
    ASSUME TypeOK, [Next]_vars, NEW e \in Calls, pc'[e] = "write"
    PROVE  \/ pc[e] = "write" /\ basis'[e] = basis[e] /\ seen'[e] = seen[e]
           \/ /\ e \notin Opens /\ Declared(e) /\ TakeBasis(e, "write")
<1>1. ASSUME NEW c \in Calls, CallStep(c)
      PROVE  \/ pc[e] = "write" /\ basis'[e] = basis[e] /\ seen'[e] = seen[e]
             \/ /\ e \notin Opens /\ Declared(e) /\ TakeBasis(e, "write")
  <2>1. CASE c = e
    BY <1>1, <2>1, EnterWrite
  <2>2. CASE c # e
    BY <1>1, <2>2, OthersKeep
  <2>3. QED
    BY <2>1, <2>2
<1>2. CASE Environment
  BY <1>2 DEF Environment, ChangeSpec, MoveProject, Generate, Around
<1>3. CASE UNCHANGED vars
  BY <1>3 DEF vars
<1>4. QED
  BY <1>1, <1>2, <1>3 DEF Next

(* The pointer moves only together with the project version, which never   *)
(* falls.                                                                  *)
LEMMA PointerMovesWithProject ==
    ASSUME TypeOK, [Next]_vars
    PROVE  /\ project.version \in Nat
           /\ project.version <= project'.version
           /\ project.version = project'.version => current' = current
<1>1. project.version \in Nat
  BY DEF TypeOK, ProjectRow
<1>2. ASSUME project' = [project EXCEPT !.version = @ + 1]
      PROVE  project'.version = project.version + 1
  BY <1>2 DEF TypeOK, ProjectRow
<1>3. CASE UNCHANGED <<project, current>>
  BY <1>1, <1>3
<1>4. ASSUME NEW c \in Calls, CallStep(c)
      PROVE  UNCHANGED <<project, current>> \/ project'.version = project.version + 1
  <2>1. CASE UNCHANGED tableVars
    BY <2>1 DEF tableVars
  <2>2. CASE Effect(c)
    <3>1. CASE \E text : WriteDraft(c, text)
      BY <3>1 DEF WriteDraft
    <3>2. CASE \E text : AppendVersion(c, text)
      BY <1>2, <3>2 DEF AppendVersion
    <3>3. CASE ConfirmVersion(c)
      BY <1>2, <3>3 DEF ConfirmVersion
    <3>4. QED
      BY <2>2, <3>1, <3>2, <3>3, EffectCases
  <2>3. QED
    BY <1>4, <2>1, <2>2, CallStepKinds
<1>5. CASE Environment
  BY <1>1, <1>2, <1>5 DEF Environment, ChangeSpec, MoveProject, Generate, Around
<1>6. CASE UNCHANGED vars
  BY <1>3, <1>6 DEF vars, tableVars
<1>7. QED
  BY <1>1, <1>3, <1>4, <1>5, <1>6 DEF Next

(* The invariant of writers holds initially.                               *)
LEMMA InitWriterInv == Init => WriterInv
BY InitTypeOK, InitChain DEF Init, WriterInv, ReadIsDeclared, VersionGuardsPointer

(* The invariant of writers is inductive.                                  *)
LEMMA NextWriterInv ==
    ASSUME WriterInv, [Next]_vars
    PROVE  WriterInv'
<1>1. TypeOK' /\ HistoryIsLinear'
  BY NextTypeOK, NextKeepsChain DEF WriterInv
<1>2. ASSUME NEW e \in Calls, Declared(e), TakeBasis(e, "write")
      PROVE  /\ basis'[e].project = project /\ basis'[e].current = current
             /\ basis'[e].draft = draft
             /\ UNCHANGED <<project, current, draft, seen>>
  BY <1>2 DEF TakeBasis, tableVars, WriterInv, TypeOK
<1>3. ReadIsDeclared'
  <2>1. SUFFICES ASSUME NEW e \in Calls, pc'[e] = "write"
                 PROVE  /\ e \notin Opens
                        /\ basis'[e].project.spec = seen'[e].spec
                        /\ basis'[e].current = seen'[e].version
                        /\ e \in Adopts => seen'[e].candidate = [spec |-> seen'[e].spec, version |-> seen'[e].version]
                        /\ e \in DraftWriters \cup Commits \cup Adopts => basis'[e].draft.revision = seen'[e].revision
    BY DEF ReadIsDeclared
  <2>2. CASE pc[e] = "write" /\ basis'[e] = basis[e] /\ seen'[e] = seen[e]
    BY <2>2 DEF WriterInv, ReadIsDeclared
  <2>3. CASE e \notin Opens /\ Declared(e) /\ TakeBasis(e, "write")
    BY <1>2, <2>3 DEF Declared, Fresh, DraftDeclared, Adoptions
  <2>4. QED
    BY <2>1, <2>2, <2>3, WriterKeeps DEF WriterInv
<1>4. VersionGuardsPointer'
  <2>1. SUFFICES ASSUME NEW e \in Calls, pc'[e] = "write"
                 PROVE  /\ basis'[e].project.version <= project'.version
                        /\ basis'[e].project.version = project'.version => basis'[e].current = current'
    BY DEF VersionGuardsPointer
  <2>2. CASE pc[e] = "write" /\ basis'[e] = basis[e]
    <3>1. basis[e].project.version \in Nat /\ project.version \in Nat /\ project'.version \in Nat
      BY <1>1, <2>2 DEF WriterInv, TypeOK, BasisRow, ProjectRow
    <3>2. QED
      BY <2>2, <3>1, PointerMovesWithProject DEF WriterInv, VersionGuardsPointer
  <2>3. CASE Declared(e) /\ TakeBasis(e, "write")
    BY <1>2, <2>3, PointerMovesWithProject DEF WriterInv
  <2>4. QED
    BY <2>1, <2>2, <2>3, WriterKeeps DEF WriterInv
<1>5. QED
  BY <1>1, <1>3, <1>4 DEF WriterInv

(* A call can only write in a step of its own.                             *)
LEMMA WroteIsOwnStep ==
    ASSUME TypeOK, [Next]_vars, NEW c \in Calls, Wrote(c)
    PROVE  CallStep(c)
<1>1. ASSUME NEW d \in Calls, CallStep(d) PROVE d = c
  BY <1>1, OthersKeep DEF Wrote
<1>2. CASE Environment
  BY <1>2 DEF Environment, ChangeSpec, MoveProject, Generate, Around, Wrote
<1>3. CASE UNCHANGED vars
  BY <1>3 DEF vars, Wrote
<1>4. QED
  BY <1>1, <1>2, <1>3 DEF Next

(* A step that commits a formal write commits it on what was declared.     *)
LEMMA FormalWriteHolds ==
    ASSUME WriterInv, [Next]_vars, NEW c \in Calls, Wrote(c), project'.version # project.version
    PROVE  /\ project.spec = seen[c].spec
           /\ current = seen[c].version
           /\ c \in Adopts => seen[c].candidate = [spec |-> project.spec, version |-> current]
<1>1. pc[c] = "write" /\ Unmoved(c) /\ Effect(c)
  BY WroteIsOwnStep, CallStepKinds DEF WriterInv
<1>2. c \notin DraftWriters
  <2>1. SUFFICES ASSUME c \in DraftWriters PROVE FALSE
    OBVIOUS
  <2>2. c \notin Commits \cup Saves \cup Adopts \cup Confirms
    BY <2>1, CallsAssumption DEF DraftWriters, Keyed, Adoptions
  <2>3. PICK text : WriteDraft(c, text)
    BY <1>1, <2>2, EffectCases
  <2>4. QED
    BY <2>3 DEF WriteDraft
<1>3. project = basis[c].project
  BY <1>1, <1>2 DEF Unmoved, ProjectUnmoved
<1>4. project.spec = seen[c].spec /\ current = seen[c].version
  BY <1>1, <1>3 DEF WriterInv, ReadIsDeclared, VersionGuardsPointer
<1>5. QED
  BY <1>1, <1>4 DEF WriterInv, ReadIsDeclared

(* Confirmations, commits, saves and adoptions take effect only on the     *)
(* specification and version they declared, whatever committed in between  *)
(* (the project_version condition of every formal write).                  *)
THEOREM FormalWritesHold == Spec => FormalWritesHoldAtCommit
<1>1. WriterInv /\ [Next]_vars =>
        [\A c \in Calls : Wrote(c) /\ project'.version # project.version =>
            /\ project.spec = seen[c].spec
            /\ current = seen[c].version
            /\ c \in Adopts => seen[c].candidate = [spec |-> project.spec, version |-> current]]_vars
  BY FormalWriteHolds
<1>2. QED
  BY <1>1, InitWriterInv, NextWriterInv, PTL DEF Spec, FormalWritesHoldAtCommit

(* A step that replaces a draft's text has seen it.                        *)
LEMMA WriterReplacesKnowingly ==
    ASSUME WriterInv, [Next]_vars, NEW c \in Calls \ Saves, Wrote(c), draft'.text # draft.text
    PROVE  draft.text = TextOf(draft.base) \/ seen[c].revision = draft.revision
<1>1. CASE pc[c] = "write" /\ Unmoved(c) /\ Effect(c)
  <2>1. c \notin Confirms
    <3>1. SUFFICES ASSUME c \in Confirms PROVE FALSE
      OBVIOUS
    <3>2. c \notin DraftWriters /\ c \notin Commits \cup Saves \cup Adopts
      BY <3>1, CallsAssumption DEF DraftWriters, Keyed, Adoptions
    <3>3. ConfirmVersion(c)
      BY <1>1, <3>2, EffectCases
    <3>4. QED
      BY <3>3 DEF ConfirmVersion
  <2>2. c \in DraftWriters \cup Commits \cup Adopts
    BY <1>1, <2>1, EffectCases
  <2>3. draft.revision = basis[c].draft.revision
    BY <1>1, <2>1 DEF Unmoved, DraftUnmoved
  <2>4. QED
    BY <1>1, <2>2, <2>3 DEF WriterInv, ReadIsDeclared
<1>2. CASE draft' = [base |-> current, spec |-> project.spec, revision |-> draft.revision + 1,
                     text |-> IF draft.base = current THEN draft.text ELSE TextOf(current)]
  BY <1>2 DEF WriterInv, HistoryIsLinear
<1>3. QED
  BY <1>1, <1>2, WroteIsOwnStep, CallStepKinds DEF WriterInv

(* No edit, restore, acceptance, commit or recovery replaces uncommitted   *)
(* text its caller has not seen (the working-copy conditions of            *)
(* SaveWorkingCopy, writeWorkingCopy and advanceAdoptedWorkingCopy).       *)
THEOREM DraftsReplacedKnowingly == Spec => DraftsAreReplacedKnowingly
<1>1. WriterInv /\ [Next]_vars => [\A c \in Calls \ Saves : ReplacesKnowingly(c)]_vars
  BY WriterReplacesKnowingly DEF ReplacesKnowingly
<1>2. QED
  BY <1>1, InitWriterInv, NextWriterInv, PTL DEF Spec, DraftsAreReplacedKnowingly

-----------------------------------------------------------------------------
(* Acceptances and confirmations under one key *)

(* A call that was not sent has no row, no answer and no reply.            *)
UnsentIsSilent ==
    \A c \in Calls : pc[c] = "idle" => c \notin rows /\ answer[c] = None /\ reply[c] = "none"

(* A retry of a recorded request never gets as far as reading the project. *)
RetryStaysOnReplay ==
    \A c \in Keyed : repeats[c] =>
        /\ \E d \in Recorded(c) : seen[d] = seen[c]
        /\ pc[c] \in {"probe", "lookup", "answer", "done"}
        /\ reply[c] # "moved"

(* Only GetWorkingCopy has a recovery. *)
RecoversAreOpens == \A c \in Calls : pc[c] = "recover" => c \in Opens

KeyInv ==
    /\ TypeOK /\ HistoryIsLinear /\ RecoversAreOpens /\ UnsentIsSilent
    /\ OneEffectPerKey /\ RetryStaysOnReplay

(* What a step of a call does to its own row, declaration and answer.      *)
RowStep(c) ==
    /\ pc'[c] # "idle"
    /\ pc'[c] = "recover" => c \in Opens
    /\ pc[c] # "idle" => UNCHANGED <<seen, repeats>>
    /\ \/ rows' = rows /\ answer'[c] \in {None, answer[c]}
       \/ rows' = rows /\ pc[c] # "idle" /\ answer'[c] \in Recorded(c) /\ SameRequest(c, answer'[c])
       \/ pc[c] # "idle" /\ c \in Keyed /\ KeyFree(c) /\ rows' = rows \cup {c} /\ answer'[c] = c

(* What a step of a call may do to the idempotency rows and answers.       *)
LEMMA CallStepRow ==
    ASSUME TypeOK, RecoversAreOpens, NEW c \in Calls, CallStep(c)
    PROVE  RowStep(c)
<1>1. ASSUME NEW why, NEW row \in {None, answer[c]}, Return(c, why, row) PROVE RowStep(c)
  BY <1>1 DEF Return, Goto, TypeOK, RowStep, tableVars
<1>2. ASSUME NEW why, Refuse(c, why) PROVE RowStep(c)
  BY <1>1, <1>2 DEF Refuse
<1>3. ASSUME NEW label, label \notin {"idle", "recover"}, Proceed(c, label) PROVE RowStep(c)
  BY <1>3 DEF Proceed, Goto, TypeOK, RowStep, tableVars
<1>4. ASSUME NEW d \in Recorded(c), pc[c] # "idle", Replay(c, d) PROVE RowStep(c)
  <2>1. CASE SameRequest(c, d)
    <3>1. answer'[c] = d /\ pc'[c] = "answer" /\ UNCHANGED <<rows, seen, repeats>>
      BY <1>4, <2>1 DEF Replay, Goto, TypeOK, tableVars
    <3>2. QED
      BY <1>4, <2>1, <3>1 DEF RowStep
  <2>2. QED
    BY <1>2, <1>4, <2>1 DEF Replay
<1>5. ASSUME NEW label, label # "idle", label = "recover" => c \in Opens, TakeBasis(c, label) PROVE RowStep(c)
  BY <1>5 DEF TakeBasis, Goto, TypeOK, RowStep, tableVars
<1>6. ASSUME Committed(c), pc[c] # "idle", KeyFree(c) \/ c \notin Keyed PROVE RowStep(c)
  <2>1. pc'[c] = "answer" /\ answer'[c] = IF c \in Keyed THEN c ELSE None
    BY <1>6 DEF Committed, Goto, TypeOK
  <2>2. QED
    BY <1>6, <2>1 DEF Committed, RowStep
<1>7. ASSUME Send(c) PROVE RowStep(c)
  BY <1>7 DEF Send, At, Goto, FirstStep, TypeOK, RowStep, tableVars
<1> USE DEF At
<1>8. ASSUME Probe(c) PROVE RowStep(c)
  BY <1>2, <1>3, <1>8 DEF Probe
<1>9. ASSUME Validate(c) PROVE RowStep(c)
  BY <1>2, <1>3, <1>9 DEF Validate
<1>10. ASSUME LookUp(c) PROVE RowStep(c)
  BY <1>3, <1>4, <1>10 DEF LookUp
<1>11. ASSUME Read(c) PROVE RowStep(c)
  BY <1>2, <1>4, <1>5, <1>11 DEF Read
<1>12. ASSUME Write(c) PROVE RowStep(c)
  BY <1>2, <1>6, <1>12 DEF Write
<1>13. ASSUME ReadDraft(c) PROVE RowStep(c)
  BY <1>2, <1>3, <1>5, <1>13 DEF ReadDraft
<1>14. ASSUME RecoverDraft(c) PROVE RowStep(c)
  <2>1. CASE Refuse(c, "moved")
    BY <1>2, <2>1
  <2>2. CASE Committed(c)
    <3>1. c \notin Keyed \/ KeyFree(c)
      BY <1>14, CallsAssumption DEF RecoverDraft, RecoversAreOpens
    <3>2. QED
      BY <1>6, <1>14, <2>2, <3>1 DEF RecoverDraft
  <2>3. QED
    BY <1>14, <2>1, <2>2 DEF RecoverDraft
<1>15. ASSUME Answer(c) PROVE RowStep(c)
  BY <1>1, <1>15 DEF Answer
<1>16. ASSUME Fail(c) PROVE RowStep(c)
  BY <1>2, <1>16 DEF Fail
<1>17. QED
  BY <1>7, <1>8, <1>9, <1>10, <1>11, <1>12, <1>13, <1>14, <1>15, <1>16, Zenon DEF CallStep

(* Rows are never removed, and what their calls declared stays.            *)
LEMMA RowsStay ==
    ASSUME KeyInv, NEW c \in Calls, CallStep(c)
    PROVE  /\ rows \subseteq rows' /\ rows' \subseteq rows \cup {c}
           /\ \A d \in rows : seen'[d] = seen[d]
<1>1. RowStep(c)
  BY CallStepRow DEF KeyInv
<1>2. rows \subseteq rows' /\ rows' \subseteq rows \cup {c}
  BY <1>1 DEF RowStep
<1>3. ASSUME NEW d \in rows PROVE seen'[d] = seen[d]
  <2>1. d \in Calls
    BY <1>3, KeyedAreCalls DEF KeyInv, TypeOK
  <2>2. CASE d = c
    BY <1>1, <1>3, <2>2 DEF RowStep, KeyInv, UnsentIsSilent
  <2>3. CASE d # c
    BY <2>1, <2>3, OthersKeep DEF KeyInv
  <2>4. QED
    BY <2>2, <2>3
<1>4. QED
  BY <1>2, <1>3

(* No step of a call records a key twice.                                  *)
LEMMA StepKeepsOneEffect ==
    ASSUME KeyInv, NEW c \in Calls, CallStep(c)
    PROVE  OneEffectPerKey'
<1>1. RowStep(c)
  BY CallStepRow DEF KeyInv
<1>2. ASSUME NEW d \in rows', NEW e \in rows', ActionOf(d) = ActionOf(e) PROVE d = e
  <2>1. CASE rows' = rows
    BY <1>2, <2>1 DEF KeyInv, OneEffectPerKey
  <2>2. CASE c \in Keyed /\ KeyFree(c) /\ rows' = rows \cup {c}
    <3>1. \A r \in rows : ActionOf(r) # ActionOf(c)
      BY <2>2 DEF KeyFree, Recorded
    <3>2. \A q, r \in rows : ActionOf(q) = ActionOf(r) => q = r
      BY DEF KeyInv, OneEffectPerKey
    <3>3. QED
      BY <1>2, <2>2, <3>1, <3>2
  <2>3. QED
    BY <1>1, <2>1, <2>2 DEF RowStep
<1>3. ASSUME NEW e \in Keyed, answer'[e] # None
      PROVE  answer'[e] \in rows' /\ ActionOf(answer'[e]) = ActionOf(e) /\ seen'[answer'[e]] = seen'[e]
  <2>1. e \in Calls
    BY <1>3, KeyedAreCalls
  <2>2. ASSUME answer'[e] = answer[e], seen'[e] = seen[e]
        PROVE  answer'[e] \in rows' /\ ActionOf(answer'[e]) = ActionOf(e) /\ seen'[answer'[e]] = seen'[e]
    <3>1. answer[e] \in rows /\ ActionOf(answer[e]) = ActionOf(e) /\ seen[answer[e]] = seen[e]
      BY <1>3, <2>2 DEF KeyInv, OneEffectPerKey
    <3>2. QED
      BY <2>2, <3>1, RowsStay
  <2>3. CASE e # c
    BY <2>1, <2>2, <2>3, OthersKeep DEF KeyInv
  <2>4. CASE e = c
    <3>1. CASE answer'[c] = answer[c]
      <4>1. pc[c] # "idle"
        BY <1>3, <2>4, <3>1 DEF KeyInv, UnsentIsSilent
      <4>2. QED
        BY <1>1, <2>2, <2>4, <3>1, <4>1 DEF RowStep
    <3>2. CASE rows' = rows /\ pc[c] # "idle" /\ answer'[c] \in Recorded(c) /\ SameRequest(c, answer'[c])
      <4>1. answer'[c] \in rows /\ ActionOf(answer'[c]) = ActionOf(c) /\ seen[c] = seen[answer'[c]]
        BY <1>3, <2>4, <3>2 DEF Recorded, SameRequest
      <4>2. UNCHANGED seen
        BY <1>1, <3>2 DEF RowStep
      <4>3. QED
        BY <2>4, <3>2, <4>1, <4>2
    <3>3. CASE rows' = rows \cup {c} /\ answer'[c] = c
      BY <2>4, <3>3
    <3>4. QED
      BY <1>1, <1>3, <2>4, <3>1, <3>2, <3>3 DEF RowStep
  <2>5. QED
    BY <2>3, <2>4
<1>4. QED
  BY <1>2, <1>3 DEF OneEffectPerKey

(* The steps a retry can take.                                             *)
LEMMA RetryStep ==
    ASSUME KeyInv, NEW c \in Keyed, repeats[c], CallStep(c)
    PROVE  pc'[c] \in {"probe", "lookup", "answer", "done"} /\ reply'[c] # "moved"
<1> DEFINE Kept == pc'[c] \in {"probe", "lookup", "answer", "done"} /\ reply'[c] # "moved"
<1>1. c \in Calls
  BY KeyedAreCalls
<1>2. pc[c] \in {"probe", "lookup", "answer", "done"} /\ reply[c] # "moved" /\ Recorded(c) # {}
  BY DEF KeyInv, RetryStaysOnReplay
<1>3. pc \in [Calls -> Labels] /\ reply \in [Calls -> {"none", "ok", "moved", "refused"}]
  BY DEF KeyInv, TypeOK
<1>4. ASSUME NEW why \in {"ok", "refused"}, NEW row, Return(c, why, row) PROVE Kept
  BY <1>1, <1>3, <1>4 DEF Return, Goto
<1>5. ASSUME Refuse(c, "refused") PROVE Kept
  BY <1>4, <1>5 DEF Refuse
<1>6. ASSUME NEW d, Replay(c, d) PROVE Kept
  BY <1>1, <1>2, <1>3, <1>5, <1>6 DEF Replay, Goto
<1>7. ASSUME Probe(c) PROVE Kept
  <2>1. CASE Proceed(c, "lookup")
    BY <1>1, <1>2, <1>3, <2>1 DEF Proceed, Goto
  <2>2. QED
    BY <1>2, <1>5, <1>7, <2>1 DEF Probe
<1> HIDE DEF Kept
<1>8. ASSUME LookUp(c) PROVE Kept
  BY <1>2, <1>6, <1>8 DEF LookUp
<1>9. ASSUME Answer(c) PROVE Kept
  BY <1>4, <1>9 DEF Answer
<1>10. ASSUME Fail(c) PROVE Kept
  BY <1>5, <1>10 DEF Fail
<1>11. ~Send(c) /\ ~Validate(c) /\ ~Read(c) /\ ~Write(c) /\ ~ReadDraft(c) /\ ~RecoverDraft(c)
  BY <1>2 DEF Send, Validate, Read, Write, ReadDraft, RecoverDraft, At
<1>12. QED
  BY <1>7, <1>8, <1>9, <1>10, <1>11, Zenon DEF CallStep, Kept

(* No step takes a retry off the path of replay.                           *)
LEMMA StepKeepsRetry ==
    ASSUME KeyInv, NEW c \in Calls, CallStep(c)
    PROVE  RetryStaysOnReplay'
<1>1. SUFFICES ASSUME NEW e \in Keyed, repeats'[e]
               PROVE  /\ \E d \in Recorded(e)' : seen'[d] = seen'[e]
                      /\ pc'[e] \in {"probe", "lookup", "answer", "done"}
                      /\ reply'[e] # "moved"
  BY DEF RetryStaysOnReplay
<1>2. e \in Calls
  BY KeyedAreCalls
<1>3. ASSUME NEW what, NEW d \in Recorded(e), seen[d] = what, seen'[e] = what
      PROVE  \E r \in Recorded(e)' : seen'[r] = seen'[e]
  <2>1. d \in rows /\ ActionOf(d) = ActionOf(e)
    BY <1>3 DEF Recorded
  <2>2. d \in rows' /\ seen'[d] = seen[d]
    BY <2>1, RowsStay
  <2>3. d \in Recorded(e)'
    BY <2>1, <2>2 DEF Recorded
  <2>4. QED
    BY <1>3, <2>2, <2>3
<1>4. CASE repeats[e] /\ UNCHANGED <<seen[e]>>
  <2>1. PICK d \in Recorded(e) : seen[d] = seen[e]
    BY <1>4 DEF KeyInv, RetryStaysOnReplay
  <2>2. \E r \in Recorded(e)' : seen'[r] = seen'[e]
    BY <1>3, <1>4, <2>1
  <2>3. CASE e = c
    BY <1>4, <2>2, <2>3, RetryStep
  <2>4. CASE e # c
    <3>1. pc'[e] = pc[e] /\ reply'[e] = reply[e]
      BY <1>2, <2>4, OthersKeep DEF KeyInv
    <3>2. QED
      BY <1>4, <2>2, <3>1 DEF KeyInv, RetryStaysOnReplay
  <2>5. QED
    BY <2>3, <2>4
<1>5. CASE e = c /\ pc[c] = "idle"
  <2>1. Send(c)
    BY <1>5 DEF CallStep, Probe, Validate, LookUp, Read, Write, ReadDraft, RecoverDraft, Answer, Fail, At
  <2>2. PICK what : /\ seen' = [seen EXCEPT ![c] = what]
                    /\ repeats' = [repeats EXCEPT ![c] = \E d \in Recorded(c) : seen[d] = what]
    BY <2>1, Zenon DEF Send
  <2>3. seen'[c] = what /\ \E d \in Recorded(c) : seen[d] = what
    BY <1>1, <1>5, <2>2 DEF KeyInv, TypeOK
  <2>4. \E r \in Recorded(e)' : seen'[r] = seen'[e]
    BY <1>3, <1>5, <2>3
  <2>5. pc'[c] \in {"probe", "lookup"}
    BY <1>5, <2>1 DEF Send, Goto, FirstStep, Keyed, KeyInv, TypeOK
  <2>6. reply'[c] = "none"
    BY <1>5, <2>1 DEF Send, KeyInv, UnsentIsSilent
  <2>7. QED
    BY <1>5, <2>4, <2>5, <2>6
<1>6. QED
  <2>1. CASE e # c
    BY <1>1, <1>2, <1>4, <2>1, OthersKeep DEF KeyInv
  <2>2. CASE e = c /\ pc[c] # "idle"
    <3>1. RowStep(c)
      BY CallStepRow DEF KeyInv
    <3>2. QED
      BY <1>1, <1>4, <2>2, <3>1 DEF RowStep
  <2>3. QED
    BY <1>5, <2>1, <2>2

(* Only reopening recovers a draft, and unsent calls have no effects.      *)
LEMMA StepKeepsLabels ==
    ASSUME KeyInv, NEW c \in Calls, CallStep(c)
    PROVE  RecoversAreOpens' /\ UnsentIsSilent'
<1>1. RowStep(c)
  BY CallStepRow DEF KeyInv
<1>2. SUFFICES ASSUME NEW e \in Calls
               PROVE  /\ pc'[e] = "recover" => e \in Opens
                      /\ pc'[e] = "idle" => e \notin rows' /\ answer'[e] = None /\ reply'[e] = "none"
  BY DEF RecoversAreOpens, UnsentIsSilent
<1>3. CASE e = c
  BY <1>1, <1>3 DEF RowStep
<1>4. CASE e # c
  <2>1. pc'[e] = pc[e] /\ answer'[e] = answer[e] /\ reply'[e] = reply[e]
    BY <1>4, OthersKeep DEF KeyInv
  <2>2. e \in rows' => e \in rows
    BY <1>4, RowsStay
  <2>3. QED
    BY <2>1, <2>2 DEF KeyInv, RecoversAreOpens, UnsentIsSilent
<1>5. QED
  BY <1>3, <1>4

(* The invariant of keys is inductive.                                     *)
LEMMA NextKeyInv ==
    ASSUME KeyInv, [Next]_vars
    PROVE  KeyInv'
<1>1. TypeOK' /\ HistoryIsLinear'
  BY NextTypeOK, NextKeepsChain DEF KeyInv
<1>2. CASE \E c \in Calls : CallStep(c)
  BY <1>1, <1>2, StepKeepsOneEffect, StepKeepsRetry, StepKeepsLabels DEF KeyInv
<1>3. CASE UNCHANGED <<rows, pc, seen, answer, reply, repeats>>
  <2>1. OneEffectPerKey'
    BY <1>3 DEF KeyInv, OneEffectPerKey
  <2>2. RecoversAreOpens' /\ UnsentIsSilent'
    BY <1>3 DEF KeyInv, RecoversAreOpens, UnsentIsSilent
  <2>3. RetryStaysOnReplay'
    BY <1>3 DEF KeyInv, RetryStaysOnReplay, Recorded
  <2>4. QED
    BY <1>1, <2>1, <2>2, <2>3 DEF KeyInv
<1>4. CASE Environment
  BY <1>3, <1>4 DEF Environment, ChangeSpec, MoveProject, Generate, Around
<1>5. CASE UNCHANGED vars
  BY <1>3, <1>5 DEF vars, tableVars
<1>6. QED
  BY <1>2, <1>4, <1>5 DEF Next

(* The invariant of keys holds initially.                                  *)
LEMMA InitKeyInv == Init => KeyInv
<1> SUFFICES ASSUME Init PROVE KeyInv
  OBVIOUS
<1>1. TypeOK /\ HistoryIsLinear
  BY InitTypeOK, InitChain
<1>2. RecoversAreOpens /\ UnsentIsSilent
  BY DEF Init, RecoversAreOpens, UnsentIsSilent
<1>3. OneEffectPerKey
  BY KeyedAreCalls DEF Init, OneEffectPerKey
<1>4. RetryStaysOnReplay
  BY KeyedAreCalls DEF Init, RetryStaysOnReplay
<1>5. QED
  BY <1>1, <1>2, <1>3, <1>4 DEF KeyInv

(* Requests under one key take effect once and are answered from the one   *)
(* row (the idempotency tables of AcceptCandidate and ConfirmChapter).     *)
THEOREM EffectsAreSingle == Spec => []OneEffectPerKey
<1>1. KeyInv => OneEffectPerKey
  BY DEF KeyInv
<1>2. QED
  BY <1>1, InitKeyInv, NextKeyInv, PTL DEF Spec

(* A retry of what already took effect is not told that the project moved  *)
(* (CandidateAcceptancePending, ReplayConfirmation).                       *)
THEOREM RetriesNotOutdated == Spec => []RetriesAreNotOutdated
<1>1. KeyInv => RetriesAreNotOutdated
  BY DEF KeyInv, RetryStaysOnReplay, RetriesAreNotOutdated
<1>2. QED
  BY <1>1, InitKeyInv, NextKeyInv, PTL DEF Spec
=============================================================================
