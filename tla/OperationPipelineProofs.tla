----------------------- MODULE OperationPipelineProofs -----------------------
(***************************************************************************)
(* Proofs about OperationPipeline, for every set of calls, identities,     *)
(* bodies and sources and for both stores: the type invariant, at most one *)
(* effect per identity, the atomic boundary of the write transaction, that *)
(* every served body is the stored one and every conflict a real one, and  *)
(* that what was checked before the write still holds when it commits.     *)
(***************************************************************************)
EXTENDS OperationPipeline, TLAPS

\* The reply constructors produce replies.
LEMMA RepliesTyped ==
    /\ NoReply \in Replies
    /\ \A kind \in Refusals : Refused(kind) \in Replies
    /\ \A kind \in Answers, r \in Row : Answered(kind, r) \in Replies
BY DEF Replies, NoReply, Refused, Answered

\* RowOf builds a row, and a current view is a view.
LEMMA ValuesTyped ==
    ASSUME TypeOK, NEW c \in Calls
    PROVE  RowOf(c) \in Row /\ CurrentView(c) \in View /\ NoView \in View
<1>1. RowOf(c) \in Row
  BY DEF TypeOK, RowOf, Row
<1>2. SourceIDs(id[c]) \subseteq Sources
  BY DEF TypeOK, SourceIDs, Lookup, Found, Row
<1>3. Found(id[c]) \in BOOLEAN
  BY DEF Found
<1>4. CurrentView(c) \in View
  BY <1>2, <1>3 DEF TypeOK, CurrentView, View
<1>5. NoView \in View
  BY DEF NoView, View
<1> QED BY <1>1, <1>4, <1>5

\* A refusal keeps every variable in its type.
LEMMA RefuseTyped ==
    ASSUME TypeOK, NEW c \in Calls, NEW kind \in Refusals, Refuse(c, kind)
    PROVE  TypeOK'
<1>1. Refused(kind) \in Replies /\ NoView \in View
  BY RepliesTyped, ValuesTyped
<1> QED
  BY <1>1 DEF TypeOK, Refuse, Goto, DropLocals, dbVars, Steps

\* The type invariant of the pipeline: ledger rows, views, replies and program
\* points of every call keep their types.
THEOREM TypeCorrect == Spec => []TypeOK
<1>1. Init => TypeOK
  <2> SUFFICES ASSUME Init PROVE TypeOK
    OBVIOUS
  <2>1. NoView \in View /\ NoReply \in Replies
    BY RepliesTyped DEF NoView, View
  <2> QED
    BY <2>1 DEF Init, TypeOK, Steps
<1>2. TypeOK /\ [Next]_vars => TypeOK'
  <2> SUFFICES ASSUME TypeOK, [Next]_vars PROVE TypeOK'
    OBVIOUS
  <2>1. ASSUME NEW c \in Calls, Enter(c) PROVE TypeOK'
    <3>1. CASE Refuse(c, "refused")
      BY <3>1, RefuseTyped DEF Refusals
    <3>2. CASE ~Refuse(c, "refused")
      BY <2>1, <3>2 DEF Enter, Goto, TypeOK, dbVars, Steps
    <3> QED BY <3>1, <3>2
  <2>2. ASSUME NEW c \in Calls, Prepare(c) PROVE TypeOK'
    <3>1. CASE \E kind \in Refusals : Refuse(c, kind)
      BY <3>1, RefuseTyped
    <3>2. CASE ~\E kind \in Refusals : Refuse(c, kind)
      BY <2>2, <3>2 DEF Prepare, Refusals, Goto, TypeOK, dbVars, Steps
    <3> QED BY <3>1, <3>2
  <2>3. ASSUME NEW c \in Calls, CheckBasis(c) PROVE TypeOK'
    <3>1. CASE \E kind \in Refusals : Refuse(c, kind)
      BY <3>1, RefuseTyped
    <3>2. CASE ~\E kind \in Refusals : Refuse(c, kind)
      BY <2>3, <3>2, ValuesTyped
         DEF CheckBasis, Refusals, Goto, TypeOK, dbVars, Steps
    <3> QED BY <3>1, <3>2
  <2>4. ASSUME NEW c \in Calls, CheckSources(c) PROVE TypeOK'
    <3>1. CASE Refuse(c, "denied")
      BY <3>1, RefuseTyped DEF Refusals
    <3>2. CASE ~Refuse(c, "denied")
      BY <2>4, <3>2 DEF CheckSources, Goto, TypeOK, dbVars, Steps
    <3> QED BY <3>1, <3>2
  <2>5. ASSUME NEW c \in Calls, BeginWrite(c) PROVE TypeOK'
    <3>1. CASE \E kind \in Refusals : Refuse(c, kind)
      BY <3>1, RefuseTyped
    <3>2. CASE ~\E kind \in Refusals : Refuse(c, kind)
      <4>1. /\ seen' = [seen EXCEPT ![c] = CurrentView(c)]
            /\ stale' = [stale EXCEPT ![c] = FALSE]
            /\ CountAttempt(c)
            /\ Goto(c, "write")
            /\ UNCHANGED <<dbVars, id, body, checked, reply>>
        BY <2>5, <3>2 DEF BeginWrite, Refusals
      <4>2. CurrentView(c) \in View
        BY ValuesTyped
      <4> QED
        BY <4>1, <4>2 DEF CountAttempt, Goto, TypeOK, dbVars, Steps
    <3> QED BY <3>1, <3>2
  <2>6. ASSUME NEW c \in Calls, RetryBusy(c) PROVE TypeOK'
    BY <2>6 DEF RetryBusy, Goto, TypeOK, dbVars, Steps
  <2>7. ASSUME NEW c \in Calls, GiveUpBusy(c) PROVE TypeOK'
    BY <2>7, RefuseTyped DEF GiveUpBusy, Refusals
  <2>8. ASSUME NEW c \in Calls, CommitReplay(c) PROVE TypeOK'
    <3>1. PICK r \in Lookup(id[c]) :
             reply' = [reply EXCEPT ![c] = Answered("replayed", r)]
      BY <2>8 DEF CommitReplay
    <3>2. r \in Row
      BY DEF Lookup, TypeOK
    <3>3. Answered("replayed", r) \in Replies
      BY <3>2, RepliesTyped DEF Answers
    <3>4. stale' \in [Calls -> BOOLEAN]
      BY <2>8, PipelineAssumption DEF CommitReplay, Overtake, TypeOK
    <3> QED
      BY <2>8, <3>1, <3>3, <3>4 DEF CommitReplay, AuditRow, Goto, TypeOK, Steps
  <2>9. ASSUME NEW c \in Calls, CommitWrite(c) PROVE TypeOK'
    <3>1. RowOf(c) \in Row
      BY ValuesTyped
    <3>2. Answered("written", RowOf(c)) \in Replies
      BY <3>1, RepliesTyped DEF Answers
    <3>3. stale' \in [Calls -> BOOLEAN]
      BY <2>9, PipelineAssumption DEF CommitWrite, Overtake, TypeOK
    <3>4. basis' \in Nat
      BY <2>9 DEF CommitWrite, TypeOK
    <3>5. ledger' \subseteq Row
      BY <2>9, <3>1 DEF CommitWrite, TypeOK
    <3>6. reply' \in [Calls -> Replies] /\ pc' \in [Calls -> Steps]
      BY <2>9, <3>2 DEF CommitWrite, Goto, TypeOK, Steps
    <3>7. audits' \subseteq Calls /\ effects' \subseteq Calls
      BY <2>9 DEF CommitWrite, AuditRow, TypeOK
    <3> QED
      BY <2>9, <3>3, <3>4, <3>5, <3>6, <3>7 DEF CommitWrite, TypeOK
  <2>10. ASSUME NEW c \in Calls, FailWrite(c) PROVE TypeOK'
    BY <2>10, RefuseTyped DEF FailWrite, Refusals
  <2>11. ASSUME NEW c \in Calls, Project(c) PROVE TypeOK'
    <3>1. Refused("failed") \in Replies /\ NoView \in View
      BY RepliesTyped, ValuesTyped DEF Refusals
    <3> QED
      BY <2>11, <3>1 DEF Project, Goto, DropLocals, TypeOK, dbVars, Steps
  <2>12. ASSUME NEW c \in Calls, Crash(c) PROVE TypeOK'
    BY <2>12, RefuseTyped DEF Crash, Refusals
  <2>13. CASE Environment
    <3>1. CASE \E i \in Ids : ChangeGrant(i)
      BY <3>1, PipelineAssumption DEF ChangeGrant, OtherCommit, TypeOK
    <3>2. CASE TogglePause
      BY <3>2, PipelineAssumption DEF TogglePause, OtherCommit, TypeOK
    <3>3. CASE MoveProject
      BY <3>3, PipelineAssumption DEF MoveProject, OtherCommit, TypeOK
    <3>4. CASE EditTarget
      BY <3>4, PipelineAssumption DEF EditTarget, OtherCommit, TypeOK
    <3>5. CASE \E s \in Sources : ChangeSourceGrant(s)
      BY <3>5 DEF ChangeSourceGrant, callVars, TypeOK
    <3> QED BY <2>13, <3>1, <3>2, <3>3, <3>4, <3>5 DEF Environment
  <2>14. CASE UNCHANGED vars
    BY <2>14 DEF vars, dbVars, callVars, TypeOK
  <2> QED
    BY <2>1, <2>2, <2>3, <2>4, <2>5, <2>6, <2>7, <2>8, <2>9, <2>10, <2>11,
       <2>12, <2>13, <2>14 DEF Next, CallStep
<1> QED BY <1>1, <1>2, PTL DEF Spec

-----------------------------------------------------------------------------
(* The inductive invariant *)

\* One row per identity: what the unique index of the operation table enforces.
UniqueRows == \A r, s \in ledger : r.id = s.id => r = s

\* A row records the request of the call that wrote it.
RowsNameWriters ==
    \A r \in ledger : /\ r.writer \in effects
                      /\ r.id = id[r.writer]
                      /\ r.body = body[r.writer]

\* An effect has its row and, when its operation is audited, its audit row, and
\* belongs to a call that is past its write transaction.
EffectsRecorded ==
    \A c \in effects : /\ \E r \in ledger : r.writer = c
                       /\ id[c] \in Audited => c \in audits
                       /\ pc[c] \in {"project", "done"}

\* An open write transaction that found a row found one for its own request.
FoundForRequest ==
    \A c \in Calls : pc[c] = "write" /\ seen[c].found =>
        \E r \in ledger : r.id = id[c] /\ r.body = body[c]

\* An answered call of an audited operation has its audit row, and an answered
\* call is past its write transaction.
AnswersAudited ==
    \A c \in Calls : HasAnswer(c) =>
        /\ id[c] \in Audited => c \in audits
        /\ pc[c] \in {"project", "done"}

IInv ==
    /\ TypeOK
    /\ UniqueRows
    /\ RowsNameWriters
    /\ EffectsRecorded
    /\ FoundForRequest
    /\ AnswersAudited
    /\ AnswersAreStored

\* A refused reply and the absence of a reply are not answers.
LEMMA RefusalIsNoAnswer ==
    /\ NoReply.kind \notin Answers
    /\ \A kind \in Refusals : Refused(kind).kind = kind /\ kind \notin Answers
BY DEF NoReply, Refused, Refusals, Answers

\* A step that keeps the ledger, the effects, the audits and the requests, that
\* opens no transaction that found a row, and that gives no answer, keeps the
\* invariant.
LEMMA QuietStep ==
    ASSUME IInv, TypeOK',
           UNCHANGED <<ledger, effects, audits, id, body>>,
           \A c \in Calls :
              /\ pc[c] \in {"project", "done"} => pc'[c] \in {"project", "done"}
              /\ HasAnswer(c)' => HasAnswer(c) /\ reply'[c] = reply[c]
              /\ pc'[c] = "write" /\ seen'[c].found =>
                    pc[c] = "write" /\ seen[c].found
    PROVE  IInv'
<1>1. UniqueRows' /\ RowsNameWriters'
  BY DEF IInv, UniqueRows, RowsNameWriters
<1>2. EffectsRecorded'
  BY DEF IInv, EffectsRecorded, TypeOK
<1>3. FoundForRequest'
  BY DEF IInv, FoundForRequest
<1>4. AnswersAudited'
  BY DEF IInv, AnswersAudited
<1>5. AnswersAreStored'
  BY DEF IInv, AnswersAreStored
<1> QED BY <1>1, <1>2, <1>3, <1>4, <1>5 DEF IInv

\* A refusal is a quiet step.
LEMMA RefuseQuiet ==
    ASSUME IInv, TypeOK', NEW c \in Calls, NEW kind \in Refusals, Refuse(c, kind)
    PROVE  IInv'
<1>1. UNCHANGED <<ledger, effects, audits, id, body>>
  BY DEF Refuse, dbVars
<1>2. ASSUME NEW d \in Calls
      PROVE  /\ pc[d] \in {"project", "done"} => pc'[d] \in {"project", "done"}
             /\ HasAnswer(d)' => HasAnswer(d) /\ reply'[d] = reply[d]
             /\ pc'[d] = "write" /\ seen'[d].found =>
                   pc[d] = "write" /\ seen[d].found
  <2>1. CASE d = c
    BY <2>1, RefusalIsNoAnswer DEF IInv, TypeOK, Refuse, Goto, HasAnswer
  <2>2. CASE d # c
    BY <2>2 DEF IInv, TypeOK, Refuse, Goto, DropLocals, HasAnswer
  <2> QED BY <2>1, <2>2
<1> QED BY <1>1, <1>2, QuietStep

\* Every step of the pipeline and of the rest of the system keeps the invariant.
LEMMA Inductive ==
    ASSUME IInv, TypeOK', [Next]_vars
    PROVE  IInv'
<1>1. ASSUME NEW c \in Calls, NEW kind \in Refusals, Refuse(c, kind) PROVE IInv'
  BY <1>1, RefuseQuiet
<1>2. ASSUME NEW c \in Calls, Goto(c, "prepare") \/ Goto(c, "check")
                              \/ Goto(c, "sources") \/ Goto(c, "begin"),
             pc[c] \notin {"project", "done"},
             UNCHANGED <<ledger, effects, audits, id, body, seen, reply>>
      PROVE  IInv'
  <2>1. ASSUME NEW d \in Calls
        PROVE  /\ pc[d] \in {"project", "done"} => pc'[d] \in {"project", "done"}
               /\ HasAnswer(d)' => HasAnswer(d) /\ reply'[d] = reply[d]
               /\ pc'[d] = "write" /\ seen'[d].found =>
                     pc[d] = "write" /\ seen[d].found
    BY <1>2 DEF IInv, TypeOK, Goto, HasAnswer
  <2> QED BY <1>2, <2>1, QuietStep
<1>3. ASSUME NEW c \in Calls, Enter(c) PROVE IInv'
  BY <1>1, <1>2, <1>3 DEF Enter, Refusals, dbVars
<1>4. ASSUME NEW c \in Calls, Prepare(c) PROVE IInv'
  BY <1>1, <1>2, <1>4 DEF Prepare, Refusals, dbVars
<1>5. ASSUME NEW c \in Calls, CheckBasis(c) PROVE IInv'
  BY <1>1, <1>2, <1>5 DEF CheckBasis, Refusals, dbVars
<1>6. ASSUME NEW c \in Calls, CheckSources(c) PROVE IInv'
  BY <1>1, <1>2, <1>6 DEF CheckSources, Refusals, dbVars
<1>7. ASSUME NEW c \in Calls, BeginWrite(c) PROVE IInv'
  <2>1. CASE \E kind \in Refusals : Refuse(c, kind)
    BY <2>1, <1>1
  <2>2. CASE ~\E kind \in Refusals : Refuse(c, kind)
    <3>1. /\ pc[c] = "begin"
          /\ ~Conflicting(c)
          /\ seen' = [seen EXCEPT ![c] = CurrentView(c)]
          /\ pc' = [pc EXCEPT ![c] = "write"]
          /\ UNCHANGED <<ledger, effects, audits, id, body, reply>>
      BY <1>7, <2>2 DEF BeginWrite, Refusals, Goto, dbVars
    <3>2. CurrentView(c).found => \E r \in ledger : r.id = id[c] /\ r.body = body[c]
      BY <3>1 DEF CurrentView, Found, Lookup, Conflicting
    <3>3. FoundForRequest'
      BY <3>1, <3>2 DEF IInv, TypeOK, FoundForRequest
    <3>4. UniqueRows' /\ RowsNameWriters' /\ AnswersAreStored'
      BY <3>1 DEF IInv, UniqueRows, RowsNameWriters, AnswersAreStored, HasAnswer
    <3>5. EffectsRecorded' /\ AnswersAudited'
      BY <3>1 DEF IInv, TypeOK, EffectsRecorded, AnswersAudited, HasAnswer
    <3> QED BY <3>3, <3>4, <3>5 DEF IInv
  <2> QED BY <2>1, <2>2
<1>8. ASSUME NEW c \in Calls, RetryBusy(c) PROVE IInv'
  BY <1>2, <1>8 DEF RetryBusy, dbVars
<1>9. ASSUME NEW c \in Calls, GiveUpBusy(c) PROVE IInv'
  BY <1>1, <1>9 DEF GiveUpBusy, Refusals
<1>10. ASSUME NEW c \in Calls, CommitReplay(c) PROVE IInv'
  <2>1. PICK r \in Lookup(id[c]) :
           reply' = [reply EXCEPT ![c] = Answered("replayed", r)]
    BY <1>10 DEF CommitReplay
  <2>2. r \in ledger /\ r.id = id[c]
    BY DEF Lookup
  <2>3. r.body = body[c]
    BY <1>10, <2>2 DEF CommitReplay, IInv, FoundForRequest, UniqueRows
  <2>4. r.writer # c
    BY <1>10, <2>2 DEF CommitReplay, IInv, RowsNameWriters, EffectsRecorded
  <2>5. /\ Answered("replayed", r).kind = "replayed"
        /\ Answered("replayed", r).row = r
    BY DEF Answered
  <2>6. /\ pc' = [pc EXCEPT ![c] = "project"]
        /\ audits' = IF id[c] \in Audited THEN audits \cup {c} ELSE audits
        /\ UNCHANGED <<ledger, effects, id, body, seen>>
    BY <1>10 DEF CommitReplay, AuditRow, Goto
  <2>7. UniqueRows' /\ RowsNameWriters'
    BY <2>6 DEF IInv, UniqueRows, RowsNameWriters
  <2>8. EffectsRecorded' /\ FoundForRequest'
    BY <2>6 DEF IInv, TypeOK, EffectsRecorded, FoundForRequest
  <2>9. AnswersAudited'
    BY <2>1, <2>6 DEF IInv, TypeOK, AnswersAudited, HasAnswer
  <2>10. AnswersAreStored'
    BY <2>1, <2>2, <2>3, <2>4, <2>5, <2>6
       DEF IInv, TypeOK, AnswersAreStored, HasAnswer
  <2> QED BY <2>7, <2>8, <2>9, <2>10 DEF IInv
<1>11. ASSUME NEW c \in Calls, CommitWrite(c) PROVE IInv'
  <2>1. /\ \A r \in ledger : r.id # id[c]
        /\ ledger' = ledger \cup {RowOf(c)}
        /\ effects' = effects \cup {c}
        /\ audits' = IF id[c] \in Audited THEN audits \cup {c} ELSE audits
        /\ pc' = [pc EXCEPT ![c] = "project"]
        /\ reply' = [reply EXCEPT ![c] = Answered("written", RowOf(c))]
        /\ UNCHANGED <<id, body, seen>>
    BY <1>11 DEF CommitWrite, Savable, Found, Lookup, AuditRow, Goto
  <2>2. /\ RowOf(c).id = id[c]
        /\ RowOf(c).body = body[c]
        /\ RowOf(c).writer = c
    BY DEF RowOf
  <2>3. /\ Answered("written", RowOf(c)).kind = "written"
        /\ Answered("written", RowOf(c)).row = RowOf(c)
    BY DEF Answered
  <2>4. UniqueRows' /\ RowsNameWriters'
    BY <2>1, <2>2 DEF IInv, UniqueRows, RowsNameWriters
  <2>5. EffectsRecorded'
    BY <2>1, <2>2 DEF IInv, TypeOK, EffectsRecorded
  <2>6. FoundForRequest' /\ AnswersAudited'
    BY <2>1 DEF IInv, TypeOK, FoundForRequest, AnswersAudited, HasAnswer
  <2>7. AnswersAreStored'
    BY <2>1, <2>2, <2>3 DEF IInv, TypeOK, AnswersAreStored, HasAnswer
  <2> QED BY <2>4, <2>5, <2>6, <2>7 DEF IInv
<1>12. ASSUME NEW c \in Calls, FailWrite(c) PROVE IInv'
  BY <1>1, <1>12 DEF FailWrite, Refusals
<1>13. ASSUME NEW c \in Calls, Project(c) PROVE IInv'
  <2>1. UNCHANGED <<ledger, effects, audits, id, body>>
    BY <1>13 DEF Project, dbVars
  <2>2. ASSUME NEW d \in Calls
        PROVE  /\ pc[d] \in {"project", "done"} => pc'[d] \in {"project", "done"}
               /\ HasAnswer(d)' => HasAnswer(d) /\ reply'[d] = reply[d]
               /\ pc'[d] = "write" /\ seen'[d].found =>
                     pc[d] = "write" /\ seen[d].found
    <3>1. Refused("failed").kind \notin Answers
      BY RefusalIsNoAnswer DEF Refusals
    <3> QED
      BY <1>13, <3>1 DEF Project, IInv, TypeOK, Goto, DropLocals, HasAnswer
  <2> QED BY <2>1, <2>2, QuietStep
<1>14. ASSUME NEW c \in Calls, Crash(c) PROVE IInv'
  BY <1>1, <1>14 DEF Crash, Refusals
<1>15. ASSUME UNCHANGED <<ledger, effects, audits, pc, id, body, seen, reply>>
       PROVE  IInv'
  BY <1>15, QuietStep DEF HasAnswer
<1>16. CASE Environment
  BY <1>15, <1>16 DEF Environment, ChangeGrant, TogglePause, MoveProject,
     EditTarget, ChangeSourceGrant, OtherCommit, callVars
<1>17. CASE UNCHANGED vars
  BY <1>15, <1>17 DEF vars, dbVars, callVars
<1> QED
  BY <1>3, <1>4, <1>5, <1>6, <1>7, <1>8, <1>9, <1>10, <1>11, <1>12, <1>13,
     <1>14, <1>16, <1>17 DEF Next, CallStep

\* The inductive invariant holds in every reachable state of the pipeline.
LEMMA InvariantHolds == Spec => []IInv
<1>1. Init /\ TypeOK => IInv
  BY RefusalIsNoAnswer DEF Init, IInv, UniqueRows, RowsNameWriters,
     EffectsRecorded, FoundForRequest, AnswersAudited, AnswersAreStored, HasAnswer
<1>2. IInv /\ TypeOK' /\ [Next]_vars => IInv'
  BY Inductive
<1> QED BY <1>1, <1>2, TypeCorrect, PTL DEF Spec

-----------------------------------------------------------------------------
(* The results *)

\* At most one call per idempotency identity takes effect, for any number of
\* concurrent and repeated calls, on either store.
THEOREM AtMostOnceTheorem == Spec => []AtMostOnce
<1>1. IInv => AtMostOnce
  BY DEF IInv, UniqueRows, RowsNameWriters, EffectsRecorded, AtMostOnce
<1> QED BY <1>1, InvariantHolds, PTL

\* Effect, ledger row and audit row commit together.
THEOREM AtomicBoundaryTheorem == Spec => []AtomicBoundary
<1>1. IInv => AtomicBoundary
  BY DEF IInv, RowsNameWriters, EffectsRecorded, AnswersAudited, AtomicBoundary
<1> QED BY <1>1, InvariantHolds, PTL

\* Every body a caller reads is the stored result of its own request.
THEOREM AnswersAreStoredTheorem == Spec => []AnswersAreStored
<1>1. IInv => AnswersAreStored
  BY DEF IInv
<1> QED BY <1>1, InvariantHolds, PTL

-----------------------------------------------------------------------------
(* Conflicts *)

\* What a step may do to the ledger and to a conflict: rows stay, requests stay,
\* and a conflict is told only to a call whose key another body has taken.
ConflictStep(c) ==
    /\ ledger \subseteq ledger'
    /\ UNCHANGED <<id, body>>
    /\ \A d \in Calls \ {c} : reply'[d] = reply[d]
    /\ reply'[c].kind = "conflict" => reply[c].kind = "conflict" \/ Conflicting(c)

\* A refusal that is not a conflict, or is told to a call in conflict.
LEMMA RefuseConflict ==
    ASSUME TypeOK, NEW c \in Calls, NEW kind \in Refusals, Refuse(c, kind),
           kind = "conflict" => Conflicting(c)
    PROVE  ConflictStep(c)
BY RefusalIsNoAnswer DEF TypeOK, Refuse, dbVars, ConflictStep

\* Every step of a call is such a step.
LEMMA CallConflict ==
    ASSUME TypeOK, NEW c \in Calls, CallStep(c) \/ Crash(c)
    PROVE  ConflictStep(c)
<1>1. ASSUME NEW kind \in Refusals, kind # "conflict", Refuse(c, kind)
      PROVE  ConflictStep(c)
  BY <1>1, RefuseConflict
<1>2. ASSUME Conflicting(c), Refuse(c, "conflict") PROVE ConflictStep(c)
  BY <1>2, RefuseConflict DEF Refusals
<1>3. ASSUME UNCHANGED <<ledger, id, body, reply>> PROVE ConflictStep(c)
  BY <1>3 DEF ConflictStep
<1>4. CASE Enter(c)
  BY <1>1, <1>3, <1>4 DEF Enter, Refusals, dbVars
<1>5. CASE Prepare(c)
  BY <1>1, <1>2, <1>3, <1>5 DEF Prepare, Refusals, dbVars
<1>6. CASE CheckBasis(c)
  BY <1>1, <1>2, <1>3, <1>6 DEF CheckBasis, Refusals, dbVars
<1>7. CASE CheckSources(c)
  BY <1>1, <1>3, <1>7 DEF CheckSources, Refusals, dbVars
<1>8. CASE BeginWrite(c)
  BY <1>1, <1>2, <1>3, <1>8 DEF BeginWrite, Refusals, dbVars
<1>9. CASE RetryBusy(c)
  BY <1>3, <1>9 DEF RetryBusy, dbVars
<1>10. CASE GiveUpBusy(c)
  BY <1>1, <1>10 DEF GiveUpBusy, Refusals
<1>11. CASE CommitReplay(c)
  BY <1>11 DEF CommitReplay, Answered, ConflictStep, TypeOK
<1>12. CASE CommitWrite(c)
  BY <1>12 DEF CommitWrite, Answered, ConflictStep, TypeOK
<1>13. CASE FailWrite(c)
  BY <1>1, <1>13 DEF FailWrite, Refusals
<1>14. CASE Project(c)
  <2>1. Refused("failed").kind # "conflict"
    BY DEF Refused
  <2> QED
    BY <1>14, <2>1 DEF Project, ConflictStep, TypeOK, dbVars
<1>15. CASE Crash(c)
  BY <1>1, <1>15 DEF Crash, Refusals
<1> QED
  BY <1>4, <1>5, <1>6, <1>7, <1>8, <1>9, <1>10, <1>11, <1>12, <1>13, <1>14, <1>15
     DEF CallStep

\* The idempotency conflict of Run is only told about a key that another body has
\* really taken, and it stays true.
THEOREM ConflictIsRealTheorem == Spec => []ConflictIsReal
<1>1. Init => ConflictIsReal
  BY DEF Init, ConflictIsReal, NoReply
<1>2. TypeOK /\ ConflictIsReal /\ [Next]_vars => ConflictIsReal'
  <2> SUFFICES ASSUME TypeOK, ConflictIsReal, [Next]_vars PROVE ConflictIsReal'
    OBVIOUS
  <2>1. ASSUME NEW c \in Calls, CallStep(c) \/ Crash(c) PROVE ConflictIsReal'
    <3>1. ConflictStep(c)
      BY <2>1, CallConflict
    <3> QED
      BY <3>1 DEF ConflictStep, Conflicting, Lookup, ConflictIsReal
  <2>2. ASSUME UNCHANGED <<ledger, id, body, reply>> PROVE ConflictIsReal'
    BY <2>2 DEF ConflictIsReal
  <2>3. CASE Environment
    BY <2>2, <2>3 DEF Environment, ChangeGrant, TogglePause, MoveProject,
       EditTarget, ChangeSourceGrant, OtherCommit, callVars
  <2>4. CASE UNCHANGED vars
    BY <2>2, <2>4 DEF vars, dbVars, callVars
  <2> QED BY <2>1, <2>3, <2>4 DEF Next
<1> QED BY <1>1, <1>2, TypeCorrect, PTL DEF Spec

-----------------------------------------------------------------------------
(* What was checked still holds *)

\* An open write transaction read what the source recheck had read.
SeenWasChecked ==
    \A c \in Calls : pc[c] = "write" /\ id[c] \in SourceSensitive => seen[c] = checked[c]

\* A stored result that the source recheck found is still there, with its sources.
CheckedRowsStay ==
    \A c \in Calls : checked[c].found =>
        \E r \in ledger : r.id = id[c] /\ r.sources = checked[c].sources

\* On a snapshot store an open write transaction that nobody has overtaken still
\* sees the current project, permissions and pause.
SnapshotsAreCurrent ==
    \A c \in Calls : Snapshot /\ pc[c] = "write" /\ ~stale[c] =>
        basis = seen[c].basis /\ id[c] \in granted /\ ~paused

CheckInv ==
    /\ IInv
    /\ SeenWasChecked
    /\ CheckedRowsStay
    /\ SnapshotsAreCurrent
    /\ ServedSourcesWereChecked

\* A step that leaves the database and the views of every call alone, opens no
\* write transaction and gives no answer keeps what was checked.
LEMMA UncheckedStep ==
    ASSUME CheckInv, IInv',
           UNCHANGED <<granted, paused, basis, ledger, id>>,
           \A c \in Calls :
              /\ checked'[c].found => checked'[c] = checked[c]
              /\ pc'[c] = "write" => /\ pc[c] = "write" /\ stale'[c] = stale[c]
                                     /\ seen'[c] = seen[c] /\ checked'[c] = checked[c]
              /\ HasAnswer(c)' => /\ HasAnswer(c) /\ reply'[c] = reply[c]
                                  /\ checked'[c] = checked[c]
    PROVE  CheckInv'
<1>1. SeenWasChecked'
  BY DEF CheckInv, SeenWasChecked
<1>2. CheckedRowsStay'
  BY DEF CheckInv, CheckedRowsStay
<1>3. SnapshotsAreCurrent'
  BY DEF CheckInv, SnapshotsAreCurrent
<1>4. ServedSourcesWereChecked'
  BY DEF CheckInv, ServedSourcesWereChecked
<1> QED BY <1>1, <1>2, <1>3, <1>4 DEF CheckInv

\* A refusal is such a step.
LEMMA RefuseUnchecked ==
    ASSUME CheckInv, IInv', NEW c \in Calls, NEW kind \in Refusals, Refuse(c, kind)
    PROVE  CheckInv'
<1>1. UNCHANGED <<granted, paused, basis, ledger, id>>
  BY DEF Refuse, dbVars
<1>2. ASSUME NEW d \in Calls
      PROVE  /\ checked'[d].found => checked'[d] = checked[d]
             /\ pc'[d] = "write" => /\ pc[d] = "write" /\ stale'[d] = stale[d]
                                    /\ seen'[d] = seen[d] /\ checked'[d] = checked[d]
             /\ HasAnswer(d)' => /\ HasAnswer(d) /\ reply'[d] = reply[d]
                                 /\ checked'[d] = checked[d]
  <2>1. CASE d = c
    BY <2>1, RefusalIsNoAnswer DEF CheckInv, IInv, TypeOK, Refuse, Goto, HasAnswer, NoView
  <2>2. CASE d # c
    BY <2>2 DEF CheckInv, IInv, TypeOK, Refuse, Goto, DropLocals, HasAnswer
  <2> QED BY <2>1, <2>2
<1> QED BY <1>1, <1>2, UncheckedStep

\* Moving a call towards its write transaction is such a step.
LEMMA GotoUnchecked ==
    ASSUME CheckInv, IInv', NEW c \in Calls, NEW step, step # "write", Goto(c, step),
           UNCHANGED <<dbVars, id, body, checked, seen, stale, attempts, reply>>
    PROVE  CheckInv'
<1>1. ASSUME NEW d \in Calls
      PROVE  /\ checked'[d].found => checked'[d] = checked[d]
             /\ pc'[d] = "write" => /\ pc[d] = "write" /\ stale'[d] = stale[d]
                                    /\ seen'[d] = seen[d] /\ checked'[d] = checked[d]
             /\ HasAnswer(d)' => /\ HasAnswer(d) /\ reply'[d] = reply[d]
                                 /\ checked'[d] = checked[d]
  BY DEF CheckInv, IInv, TypeOK, Goto, HasAnswer
<1> QED BY <1>1, UncheckedStep DEF dbVars

\* The row an identity has is its only one: its sources are the sources read.
LEMMA FoundSources ==
    ASSUME IInv, NEW i, NEW r \in ledger, r.id = i
    PROVE  Found(i) /\ SourceIDs(i) = r.sources
<1>1. Lookup(i) = {r}
  BY DEF IInv, UniqueRows, Lookup
<1>2. Found(i)
  BY <1>1 DEF Found
<1>3. UNION {s.sources : s \in Lookup(i)} = r.sources
  BY <1>1
<1> QED BY <1>2, <1>3 DEF SourceIDs

\* The source recheck keeps the invariant.
LEMMA CheckBasisKeeps ==
    ASSUME CheckInv, IInv', NEW c \in Calls, CheckBasis(c)
    PROVE  CheckInv'
<1>1. CASE \E kind \in Refusals : Refuse(c, kind)
  BY <1>1, RefuseUnchecked
<1>2. CASE ~\E kind \in Refusals : Refuse(c, kind)
  <2>1. /\ pc[c] = "check"
        /\ checked' = [checked EXCEPT ![c] = CurrentView(c)]
        /\ pc' = [pc EXCEPT ![c] = "sources"]
        /\ UNCHANGED <<granted, paused, basis, ledger, id, seen, stale, reply>>
    BY <1>2, CheckBasis(c) DEF CheckBasis, Refusals, Goto, dbVars
  <2>2. ASSUME CurrentView(c).found
        PROVE  \E r \in ledger : r.id = id[c] /\ r.sources = CurrentView(c).sources
    <3>1. PICK r \in ledger : r.id = id[c]
      BY <2>2 DEF CurrentView, Found, Lookup
    <3> QED BY <3>1, FoundSources DEF CurrentView, CheckInv
  <2>3. CheckedRowsStay'
    BY <2>1, <2>2 DEF CheckInv, IInv, TypeOK, CheckedRowsStay
  <2>4. SeenWasChecked' /\ SnapshotsAreCurrent'
    BY <2>1 DEF CheckInv, IInv, TypeOK, SeenWasChecked, SnapshotsAreCurrent
  <2>5. ~HasAnswer(c)
    BY <2>1 DEF CheckInv, IInv, AnswersAudited
  <2>6. ServedSourcesWereChecked'
    BY <2>1, <2>5 DEF CheckInv, IInv, TypeOK, ServedSourcesWereChecked, HasAnswer
  <2> QED BY <2>3, <2>4, <2>6 DEF CheckInv
<1> QED BY <1>1, <1>2

\* Opening the write transaction reads what was checked, and is current.
LEMMA BeginWriteKeeps ==
    ASSUME CheckInv, IInv', NEW c \in Calls, BeginWrite(c)
    PROVE  CheckInv'
<1>1. CASE \E kind \in Refusals : Refuse(c, kind)
  BY <1>1, RefuseUnchecked
<1>2. CASE ~\E kind \in Refusals : Refuse(c, kind)
  <2>1. /\ Admitted(c) /\ BasisHolds(c)
        /\ seen' = [seen EXCEPT ![c] = CurrentView(c)]
        /\ stale' = [stale EXCEPT ![c] = FALSE]
        /\ pc' = [pc EXCEPT ![c] = "write"]
        /\ UNCHANGED <<granted, paused, basis, ledger, id, checked, reply>>
    BY <1>2, BeginWrite(c) DEF BeginWrite, Refusals, Goto, dbVars
  <2>2. SeenWasChecked'
    BY <2>1 DEF CheckInv, IInv, TypeOK, SeenWasChecked, BasisHolds
  <2>3. CurrentView(c).basis = basis /\ id[c] \in granted /\ ~paused
    BY <2>1 DEF CurrentView, Admitted
  <2>4. SnapshotsAreCurrent'
    BY <2>1, <2>3 DEF CheckInv, IInv, TypeOK, SnapshotsAreCurrent
  <2>5. CheckedRowsStay' /\ ServedSourcesWereChecked'
    BY <2>1 DEF CheckInv, CheckedRowsStay, ServedSourcesWereChecked, HasAnswer
  <2> QED BY <2>2, <2>4, <2>5 DEF CheckInv
<1> QED BY <1>1, <1>2

\* Committing a replay serves the one row of the identity, which is the row whose
\* sources were checked.
LEMMA CommitReplayKeeps ==
    ASSUME CheckInv, IInv', NEW c \in Calls, CommitReplay(c)
    PROVE  CheckInv'
<1>1. PICK r \in Lookup(id[c]) :
         reply' = [reply EXCEPT ![c] = Answered("replayed", r)]
  BY DEF CommitReplay
<1>2. /\ pc[c] = "write" /\ seen[c].found
      /\ pc' = [pc EXCEPT ![c] = "project"]
      /\ stale' = [d \in Calls |-> stale[d] \/ (Snapshot /\ d # c /\ pc[d] = "write")]
      /\ UNCHANGED <<granted, paused, basis, ledger, id, checked, seen>>
  BY DEF CommitReplay, Overtake, Goto
<1>3. ASSUME id[c] \in SourceSensitive PROVE r.sources = checked[c].sources
  <2>1. checked[c].found
    BY <1>2, <1>3 DEF CheckInv, SeenWasChecked
  <2>2. PICK s \in ledger : s.id = id[c] /\ s.sources = checked[c].sources
    BY <2>1 DEF CheckInv, CheckedRowsStay
  <2> QED BY <2>2 DEF CheckInv, IInv, UniqueRows, Lookup
<1>4. Answered("replayed", r).row = r
  BY DEF Answered
<1>5. ServedSourcesWereChecked'
  BY <1>1, <1>2, <1>3, <1>4
     DEF CheckInv, IInv, TypeOK, ServedSourcesWereChecked, HasAnswer
<1>6. SeenWasChecked' /\ CheckedRowsStay'
  BY <1>2 DEF CheckInv, IInv, TypeOK, SeenWasChecked, CheckedRowsStay
<1>7. SnapshotsAreCurrent'
  BY <1>2 DEF CheckInv, IInv, TypeOK, SnapshotsAreCurrent
<1> QED BY <1>5, <1>6, <1>7 DEF CheckInv

\* Committing a write saves the sources it was checked for, and overtakes every
\* other open snapshot before it moves the project.
LEMMA CommitWriteKeeps ==
    ASSUME CheckInv, IInv', NEW c \in Calls, CommitWrite(c)
    PROVE  CheckInv'
<1>1. /\ pc[c] = "write" /\ WriteCAS(c)
      /\ ledger \subseteq ledger'
      /\ reply' = [reply EXCEPT ![c] = Answered("written", RowOf(c))]
      /\ pc' = [pc EXCEPT ![c] = "project"]
      /\ stale' = [d \in Calls |-> stale[d] \/ (Snapshot /\ d # c /\ pc[d] = "write")]
      /\ UNCHANGED <<granted, paused, id, checked, seen>>
  BY DEF CommitWrite, Overtake, Goto
<1>2. id[c] \in SourceSensitive => RowOf(c).sources = checked[c].sources
  BY <1>1 DEF WriteCAS, RowOf, CheckInv, SeenWasChecked
<1>3. Answered("written", RowOf(c)).row = RowOf(c)
  BY DEF Answered
<1>4. ServedSourcesWereChecked'
  BY <1>1, <1>2, <1>3
     DEF CheckInv, IInv, TypeOK, ServedSourcesWereChecked, HasAnswer
<1>5. SeenWasChecked'
  BY <1>1 DEF CheckInv, IInv, TypeOK, SeenWasChecked
<1>6. CheckedRowsStay'
  BY <1>1 DEF CheckInv, CheckedRowsStay
<1>7. SnapshotsAreCurrent'
  BY <1>1 DEF CheckInv, IInv, TypeOK, SnapshotsAreCurrent
<1> QED BY <1>4, <1>5, <1>6, <1>7 DEF CheckInv

\* Projecting a result opens no transaction and gives no new answer.
LEMMA ProjectKeeps ==
    ASSUME CheckInv, IInv', NEW c \in Calls, Project(c)
    PROVE  CheckInv'
<1>1. UNCHANGED <<granted, paused, basis, ledger, id>>
  BY DEF Project, dbVars
<1>2. Refused("failed").kind \notin Answers
  BY RefusalIsNoAnswer DEF Refusals
<1>3. ASSUME NEW d \in Calls
      PROVE  /\ checked'[d].found => checked'[d] = checked[d]
             /\ pc'[d] = "write" => /\ pc[d] = "write" /\ stale'[d] = stale[d]
                                    /\ seen'[d] = seen[d] /\ checked'[d] = checked[d]
             /\ HasAnswer(d)' => /\ HasAnswer(d) /\ reply'[d] = reply[d]
                                 /\ checked'[d] = checked[d]
  BY <1>2 DEF CheckInv, IInv, TypeOK, Project, Goto, DropLocals, HasAnswer
<1> QED BY <1>1, <1>3, UncheckedStep

\* A commit of another transaction makes every open snapshot stale; nothing else
\* that was checked depends on what it changes.
LEMMA EnvironmentKeeps ==
    ASSUME CheckInv, IInv', Environment
    PROVE  CheckInv'
<1>1. ASSUME OtherCommit PROVE CheckInv'
  <2>1. SeenWasChecked' /\ CheckedRowsStay' /\ ServedSourcesWereChecked'
    BY <1>1 DEF OtherCommit, CheckInv, SeenWasChecked, CheckedRowsStay,
       ServedSourcesWereChecked, HasAnswer
  <2>2. SnapshotsAreCurrent'
    BY <1>1 DEF OtherCommit, SnapshotsAreCurrent
  <2> QED BY <2>1, <2>2 DEF CheckInv
<1>2. ASSUME NEW s \in Sources, ChangeSourceGrant(s) PROVE CheckInv'
  BY <1>2, UncheckedStep DEF ChangeSourceGrant, callVars, HasAnswer
<1> QED
  BY <1>1, <1>2 DEF Environment, ChangeGrant, TogglePause, MoveProject, EditTarget

\* Every step keeps what was checked.
LEMMA CheckInductive ==
    ASSUME CheckInv, IInv', [Next]_vars
    PROVE  CheckInv'
<1>1. ASSUME NEW c \in Calls, NEW kind \in Refusals, Refuse(c, kind) PROVE CheckInv'
  BY <1>1, RefuseUnchecked
<1>2. ASSUME NEW c \in Calls,
             Goto(c, "prepare") \/ Goto(c, "check") \/ Goto(c, "begin"),
             UNCHANGED <<dbVars, id, body, checked, seen, stale, attempts, reply>>
      PROVE  CheckInv'
  BY <1>2, GotoUnchecked
<1>3. ASSUME NEW c \in Calls, Enter(c) PROVE CheckInv'
  BY <1>1, <1>2, <1>3 DEF Enter, Refusals
<1>4. ASSUME NEW c \in Calls, Prepare(c) PROVE CheckInv'
  BY <1>1, <1>2, <1>4 DEF Prepare, Refusals
<1>5. ASSUME NEW c \in Calls, CheckSources(c) PROVE CheckInv'
  BY <1>1, <1>2, <1>5 DEF CheckSources, Refusals
<1>6. ASSUME NEW c \in Calls, RetryBusy(c) PROVE CheckInv'
  BY <1>2, <1>6 DEF RetryBusy
<1>7. ASSUME NEW c \in Calls, GiveUpBusy(c) \/ FailWrite(c) \/ Crash(c) PROVE CheckInv'
  BY <1>1, <1>7 DEF GiveUpBusy, FailWrite, Crash, Refusals
<1>8. ASSUME NEW c \in Calls, CallStep(c) \/ Crash(c) PROVE CheckInv'
  BY <1>3, <1>4, <1>5, <1>6, <1>7, <1>8, CheckBasisKeeps, BeginWriteKeeps,
     CommitReplayKeeps, CommitWriteKeeps, ProjectKeeps DEF CallStep
<1>9. CASE UNCHANGED vars
  BY <1>9, UncheckedStep DEF vars, dbVars, callVars, HasAnswer
<1> QED BY <1>8, <1>9, EnvironmentKeeps DEF Next

\* What was checked holds in every reachable state of the pipeline.
LEMMA CheckInvariantHolds == Spec => []CheckInv
<1>1. Init /\ IInv => CheckInv
  BY RefusalIsNoAnswer DEF Init, NoView, CheckInv, SeenWasChecked, CheckedRowsStay,
     SnapshotsAreCurrent, ServedSourcesWereChecked, HasAnswer
<1>2. CheckInv /\ IInv' /\ [Next]_vars => CheckInv'
  BY CheckInductive
<1> QED BY <1>1, <1>2, InvariantHolds, PTL DEF Spec

\* A source-sensitive call of Run only serves sources its own source recheck
\* looked at, whoever rewrites the target or saves the row in between.
THEOREM ServedSourcesTheorem == Spec => []ServedSourcesWereChecked
<1>1. CheckInv => ServedSourcesWereChecked
  BY DEF CheckInv
<1> QED BY <1>1, CheckInvariantHolds, PTL

\* A step takes a call from its write transaction to its projection only by
\* committing a replay or a write.
LEMMA CommitSteps ==
    ASSUME TypeOK, [Next]_vars, NEW c \in Calls, Commits(c)
    PROVE  CommitReplay(c) \/ CommitWrite(c)
<1>1. ASSUME NEW d \in Calls, NEW step, step # "project", Goto(d, step) PROVE FALSE
  BY <1>1 DEF Commits, Goto, TypeOK
<1>2. ASSUME NEW d \in Calls, NEW kind, Refuse(d, kind) PROVE FALSE
  BY <1>1, <1>2 DEF Refuse
<1>3. ASSUME UNCHANGED pc PROVE FALSE
  BY <1>3 DEF Commits
<1>4. ~Environment /\ ~UNCHANGED vars
  BY <1>3 DEF Environment, ChangeGrant, TogglePause, MoveProject, EditTarget,
     ChangeSourceGrant, OtherCommit, vars, callVars
<1>5. ASSUME NEW d \in Calls, CallStep(d) \/ Crash(d)
      PROVE  CommitReplay(d) \/ CommitWrite(d)
  <2>1. ~Enter(d) /\ ~CheckBasis(d) /\ ~CheckSources(d) /\ ~RetryBusy(d)
    BY <1>1, <1>2 DEF Enter, CheckBasis, CheckSources, RetryBusy
  <2>2. ~Prepare(d)
    BY <1>1, <1>2 DEF Prepare
  <2>3. ~BeginWrite(d) /\ ~GiveUpBusy(d) /\ ~FailWrite(d) /\ ~Project(d) /\ ~Crash(d)
    BY <1>1, <1>2 DEF BeginWrite, GiveUpBusy, FailWrite, Project, Crash
  <2> QED BY <1>5, <2>1, <2>2, <2>3 DEF CallStep
<1>6. PICK d \in Calls : CommitReplay(d) \/ CommitWrite(d)
  BY <1>4, <1>5 DEF Next
<1>7. pc' = [pc EXCEPT ![d] = "project"]
  BY <1>6 DEF CommitReplay, CommitWrite, Goto
<1>8. d = c
  BY <1>7 DEF Commits, TypeOK
<1> QED BY <1>6, <1>8

\* On a snapshot store nobody whose permission was revoked, and no paused scope,
\* gets a write or a replay through, although the decision was taken when the
\* transaction began.
THEOREM AuthorizedTheorem == ASSUME Snapshot PROVE Spec => AuthorizedAtCommit
<1>1. CheckInv /\ [Next]_vars =>
        [\A c \in Calls : Commits(c) => id[c] \in granted /\ ~paused]_vars
  <2> SUFFICES ASSUME CheckInv, [Next]_vars, NEW c \in Calls, Commits(c)
               PROVE  id[c] \in granted /\ ~paused
    OBVIOUS
  <2>1. CommitReplay(c) \/ CommitWrite(c)
    BY CommitSteps DEF CheckInv, IInv
  <2>2. pc[c] = "write" /\ ~stale[c]
    BY <2>1 DEF CommitReplay, CommitWrite, Busy
  <2> QED BY <2>2 DEF CheckInv, SnapshotsAreCurrent
<1> QED BY <1>1, CheckInvariantHolds, PTL DEF Spec, AuthorizedAtCommit

\* The project a source-sensitive operation writes to is the one its sources were
\* checked for: on a snapshot store because nothing overtook the transaction, on
\* the other because UpdateProject compares the version it advances.
THEOREM BasisHeldTheorem == Spec => BasisHeldAtCommit
<1>1. CheckInv /\ [Next]_vars =>
        [\A c \in Calls :
           Commits(c) /\ id[c] \in SourceSensitive
           /\ (Snapshot \/ id[c] \in MovesBasis) /\ ~seen[c].found
           => basis = checked[c].basis]_vars
  <2> SUFFICES ASSUME CheckInv, [Next]_vars, NEW c \in Calls, Commits(c),
                      id[c] \in SourceSensitive, Snapshot \/ id[c] \in MovesBasis,
                      ~seen[c].found
               PROVE  basis = checked[c].basis
    OBVIOUS
  <2>1. CommitWrite(c)
    BY CommitSteps DEF CheckInv, IInv, CommitReplay
  <2>2. pc[c] = "write" /\ ~Busy(c) /\ WriteCAS(c)
    BY <2>1 DEF CommitWrite
  <2>3. basis = seen[c].basis
    BY <2>2 DEF Busy, WriteCAS, CheckInv, SnapshotsAreCurrent
  <2>4. seen[c] = checked[c]
    BY <2>2 DEF CheckInv, SeenWasChecked
  <2> QED BY <2>3, <2>4
<1> QED BY <1>1, CheckInvariantHolds, PTL DEF Spec, BasisHeldAtCommit
=============================================================================
