--------------------- MODULE OperationPipelineRefinement ---------------------
(***************************************************************************)
(* The proof that operationcore.Run with its ledger implements the         *)
(* abstract idempotent operation: every commit is a performance or a       *)
(* replay of it, every refusal a refusal, and every other step of a call   *)
(* or of the rest of the system is invisible to it.                        *)
(***************************************************************************)
EXTENDS OperationPipelineProofs

\* A call has no reply before its write transaction commits, and projects only an
\* answer.
ReplyAtStep ==
    \A c \in Calls : /\ pc[c] \notin {"project", "done"} => reply[c] = NoReply
                     /\ pc[c] = "project" => HasAnswer(c)

RefineInv == IInv /\ ReplyAtStep

\* A step before the commit that is no refusal: the call moves to another step
\* before its commit, and nothing its caller can observe changes.
Advances(c) ==
    /\ pc[c] \notin {"project", "done"}
    /\ \E step \in Steps \ {"project", "done"} : Goto(c, step)
    /\ UNCHANGED <<effects, id, body, reply>>

\* A refusal of a call that has not ended.
Refuses(c) == pc[c] # "done" /\ \E kind \in Refusals : Refuse(c, kind)

\* Every step of a call advances it, refuses it, commits it or projects it.
LEMMA StepKinds ==
    ASSUME NEW c \in Calls, CallStep(c) \/ Crash(c)
    PROVE  Advances(c) \/ Refuses(c) \/ CommitReplay(c) \/ CommitWrite(c) \/ Project(c)
<1>1. ASSUME NEW step \in {"prepare", "check", "sources", "begin", "write"},
             pc[c] \notin {"project", "done"}, Goto(c, step),
             UNCHANGED <<effects, id, body, reply>>
      PROVE  Advances(c)
  BY <1>1 DEF Advances, Steps
<1>2. ASSUME NEW kind \in Refusals, pc[c] # "done", Refuse(c, kind) PROVE Refuses(c)
  BY <1>2 DEF Refuses
<1>3. Enter(c) => Advances(c) \/ Refuses(c)
  BY <1>1, <1>2 DEF Enter, Refusals, dbVars
<1>4. Prepare(c) => Advances(c) \/ Refuses(c)
  BY <1>1, <1>2 DEF Prepare, Refusals, dbVars
<1>5. CheckBasis(c) => Advances(c) \/ Refuses(c)
  BY <1>1, <1>2 DEF CheckBasis, Refusals, dbVars
<1>6. CheckSources(c) => Advances(c) \/ Refuses(c)
  BY <1>1, <1>2 DEF CheckSources, Refusals, dbVars
<1>7. BeginWrite(c) => Advances(c) \/ Refuses(c)
  BY <1>1, <1>2 DEF BeginWrite, Refusals, dbVars
<1>8. RetryBusy(c) => Advances(c)
  BY <1>1 DEF RetryBusy, dbVars
<1>9. GiveUpBusy(c) \/ FailWrite(c) \/ Crash(c) => Refuses(c)
  BY <1>2 DEF GiveUpBusy, FailWrite, Crash, Refusals
<1> QED BY <1>3, <1>4, <1>5, <1>6, <1>7, <1>8, <1>9 DEF CallStep

\* The rest of the system changes nothing a caller observes.
LEMMA EnvironmentInvisible ==
    ASSUME Environment
    PROVE  UNCHANGED <<effects, pc, id, body, reply>>
BY DEF Environment, ChangeGrant, TogglePause, MoveProject, EditTarget,
   ChangeSourceGrant, OtherCommit, callVars

\* Replies stay in step with the program point of their call.
LEMMA ReplyAtStepKept ==
    ASSUME RefineInv, TypeOK', [Next]_vars
    PROVE  ReplyAtStep'
<1>1. ASSUME NEW c \in Calls, Advances(c) PROVE ReplyAtStep'
  BY <1>1 DEF Advances, Goto, RefineInv, IInv, TypeOK, ReplyAtStep, HasAnswer
<1>2. ASSUME NEW c \in Calls, Refuses(c) PROVE ReplyAtStep'
  <2>1. /\ pc' = [pc EXCEPT ![c] = "done"]
        /\ \A d \in Calls \ {c} : reply'[d] = reply[d]
    BY <1>2 DEF Refuses, Refuse, Goto, RefineInv, IInv, TypeOK
  <2> QED BY <2>1 DEF RefineInv, IInv, TypeOK, ReplyAtStep, HasAnswer
<1>3. ASSUME NEW c \in Calls, CommitReplay(c) \/ CommitWrite(c) PROVE ReplyAtStep'
  <2>1. /\ pc' = [pc EXCEPT ![c] = "project"]
        /\ \A d \in Calls \ {c} : reply'[d] = reply[d]
        /\ reply'[c].kind \in Answers
    BY <1>3 DEF CommitReplay, CommitWrite, Goto, Answered, Answers, RefineInv, IInv, TypeOK
  <2> QED BY <2>1 DEF RefineInv, IInv, TypeOK, ReplyAtStep, HasAnswer
<1>4. ASSUME NEW c \in Calls, Project(c) PROVE ReplyAtStep'
  <2>1. /\ pc' = [pc EXCEPT ![c] = "done"]
        /\ \A d \in Calls \ {c} : reply'[d] = reply[d]
    BY <1>4 DEF Project, Goto, RefineInv, IInv, TypeOK
  <2> QED BY <2>1 DEF RefineInv, IInv, TypeOK, ReplyAtStep, HasAnswer
<1>5. ASSUME UNCHANGED <<pc, reply>> PROVE ReplyAtStep'
  BY <1>5 DEF RefineInv, ReplyAtStep, HasAnswer
<1>6. ASSUME NEW c \in Calls, CallStep(c) \/ Crash(c) PROVE ReplyAtStep'
  BY <1>1, <1>2, <1>3, <1>4, <1>6, StepKinds
<1>7. CASE Environment
  BY <1>5, <1>7, EnvironmentInvisible
<1>8. CASE UNCHANGED vars
  BY <1>5, <1>8 DEF vars, callVars
<1> QED BY <1>6, <1>7, <1>8 DEF Next

\* Replies are in step with program points in every reachable state.
LEMMA RefineInvHolds == Spec => []RefineInv
<1>1. Init => ReplyAtStep
  BY DEF Init, ReplyAtStep
<1>2. IInv /\ ReplyAtStep /\ TypeOK' /\ [Next]_vars => ReplyAtStep'
  BY ReplyAtStepKept DEF RefineInv
<1>3. IInv => TypeOK
  BY DEF IInv
<1>4. IInv /\ ReplyAtStep => RefineInv
  BY DEF RefineInv
<1> QED BY <1>1, <1>2, <1>3, <1>4, InvariantHolds, PTL DEF Spec

-----------------------------------------------------------------------------
(* The refinement mapping *)

OutcomeBar == [c \in Calls |-> Outcome(c)]
FromBar == [c \in Calls |-> From(c)]

\* A step that changes one call's reply changes that call's outcome only.
LEMMA OneReply ==
    ASSUME NEW c \in Calls, \A d \in Calls \ {c} : reply'[d] = reply[d]
    PROVE  /\ OutcomeBar' = [OutcomeBar EXCEPT ![c] = Outcome(c)']
           /\ FromBar' = [FromBar EXCEPT ![c] = From(c)']
<1>1. \A d \in Calls \ {c} : Outcome(d)' = Outcome(d) /\ From(d)' = From(d)
  BY DEF Outcome, From, HasAnswer
<1> QED BY <1>1 DEF OutcomeBar, FromBar

\* A refused call is refused in the abstract operation.
LEMMA RefusalRefines ==
    ASSUME RefineInv, NEW c \in Calls, pc[c] # "done",
           reply'[c].kind \in Refusals,
           \A d \in Calls \ {c} : reply'[d] = reply[d],
           UNCHANGED <<effects, id, body>>
    PROVE  Abstract!Refuse(c)
<1>1. Outcome(c) # "refused"
  BY DEF RefineInv, IInv, TypeOK, ReplyAtStep, Outcome, Steps, NoReply
<1>2. Outcome(c)' = "refused" /\ From(c)' = c
  BY DEF Outcome, From, HasAnswer, Refusals, Answers
<1>3. OutcomeBar[c] = Outcome(c)
  BY DEF OutcomeBar
<1>4. /\ OutcomeBar[c] # "refused"
      /\ OutcomeBar' = [OutcomeBar EXCEPT ![c] = "refused"]
      /\ FromBar' = [FromBar EXCEPT ![c] = c]
  BY <1>1, <1>2, <1>3, OneReply
<1> QED BY <1>4 DEF OutcomeBar, FromBar, Abstract!Refuse

\* A commit answers a pending call, in the abstract operation too.
LEMMA CommitAnswers ==
    ASSUME RefineInv, NEW c \in Calls, pc[c] = "write",
           NEW kind \in Answers, NEW r,
           reply' = [reply EXCEPT ![c] = Answered(kind, r)],
           UNCHANGED <<id, body>>
    PROVE  Abstract!Answer(c, r.writer)
<1>1. reply'[c] = Answered(kind, r) /\ \A d \in Calls \ {c} : reply'[d] = reply[d]
  BY DEF RefineInv, IInv, TypeOK
<1>2. Answered(kind, r).kind = kind /\ Answered(kind, r).row = r
  BY DEF Answered
<1>3. Outcome(c)' = "answered" /\ From(c)' = r.writer
  BY <1>1, <1>2 DEF Outcome, From, HasAnswer, Answers
<1>4. Outcome(c) = "pending"
  BY DEF RefineInv, ReplyAtStep, Outcome, NoReply
<1>5. /\ OutcomeBar[c] = "pending"
      /\ OutcomeBar' = [OutcomeBar EXCEPT ![c] = "answered"]
      /\ FromBar' = [FromBar EXCEPT ![c] = r.writer]
  BY <1>1, <1>3, <1>4, OneReply DEF OutcomeBar
<1> QED BY <1>5 DEF OutcomeBar, FromBar, Abstract!Answer

\* A committed write performs the operation: no call of its identity did before.
LEMMA WriteRefines ==
    ASSUME RefineInv, NEW c \in Calls, CommitWrite(c)
    PROVE  Abstract!Perform(c)
<1>1. \A d \in effects : id[d] # id[c]
  BY DEF CommitWrite, Savable, Found, Lookup, RefineInv, IInv, EffectsRecorded,
     RowsNameWriters
<1>2. effects' = effects \cup {c}
  BY DEF CommitWrite
<1>3. RowOf(c).writer = c
  BY DEF RowOf
<1>4. Abstract!Answer(c, RowOf(c).writer)
  BY CommitAnswers DEF CommitWrite, Answers
<1> QED BY <1>1, <1>2, <1>3, <1>4 DEF Abstract!Perform

\* A committed replay gives the result of the call that performed the operation,
\* which asked for the same body.
LEMMA ReplayRefines ==
    ASSUME RefineInv, NEW c \in Calls, CommitReplay(c)
    PROVE  \E d \in Calls : Abstract!Replay(c, d)
<1>1. PICK r \in Lookup(id[c]) :
         reply' = [reply EXCEPT ![c] = Answered("replayed", r)]
  BY DEF CommitReplay
<1>2. r \in ledger /\ r.id = id[c]
  BY DEF Lookup
<1>3. r.body = body[c]
  BY <1>2 DEF CommitReplay, RefineInv, IInv, FoundForRequest, UniqueRows
<1>4. /\ r.writer \in effects /\ r.writer \in Calls
      /\ id[r.writer] = id[c] /\ body[r.writer] = body[c]
  BY <1>2, <1>3 DEF RefineInv, IInv, TypeOK, RowsNameWriters
<1>5. Abstract!Answer(c, r.writer)
  BY <1>1, CommitAnswers DEF CommitReplay, Answers
<1>6. UNCHANGED effects
  BY DEF CommitReplay
<1>7. Abstract!Replay(c, r.writer)
  BY <1>4, <1>5, <1>6 DEF Abstract!Replay
<1> QED BY <1>4, <1>7

\* A step that leaves effects, requests and replies alone is a stutter.
LEMMA InvisibleStep ==
    ASSUME UNCHANGED <<effects, id, body, reply>>
    PROVE  UNCHANGED Abstract!vars
<1>1. OutcomeBar' = OutcomeBar /\ FromBar' = FromBar
  BY DEF OutcomeBar, FromBar, Outcome, From, HasAnswer
<1> QED BY <1>1 DEF OutcomeBar, FromBar, Abstract!vars

\* Every step of the pipeline is a step of the abstract operation or a stutter.
LEMMA StepRefines ==
    ASSUME RefineInv, [Next]_vars
    PROVE  [Abstract!Next]_Abstract!vars
<1>1. ASSUME NEW c \in Calls, Advances(c) PROVE [Abstract!Next]_Abstract!vars
  BY <1>1, InvisibleStep DEF Advances
<1>2. ASSUME NEW c \in Calls, Refuses(c) PROVE [Abstract!Next]_Abstract!vars
  <2>1. /\ pc[c] # "done" /\ reply'[c].kind \in Refusals
        /\ \A d \in Calls \ {c} : reply'[d] = reply[d]
        /\ UNCHANGED <<effects, id, body>>
    BY <1>2, RefusalIsNoAnswer DEF Refuses, Refuse, dbVars, RefineInv, IInv, TypeOK
  <2>2. Abstract!Refuse(c)
    BY <2>1, RefusalRefines
  <2> QED BY <2>2 DEF Abstract!Next
<1>3. ASSUME NEW c \in Calls, Project(c) PROVE [Abstract!Next]_Abstract!vars
  <2>1. CASE UNCHANGED reply
    BY <1>3, <2>1, InvisibleStep DEF Project, dbVars
  <2>2. CASE reply' = [reply EXCEPT ![c] = Refused("failed")]
    <3>1. /\ pc[c] # "done" /\ reply'[c].kind \in Refusals
          /\ \A d \in Calls \ {c} : reply'[d] = reply[d]
          /\ UNCHANGED <<effects, id, body>>
      BY <1>3, <2>2 DEF Project, dbVars, Refused, Refusals, RefineInv, IInv, TypeOK
    <3>2. Abstract!Refuse(c)
      BY <3>1, RefusalRefines
    <3> QED BY <3>2 DEF Abstract!Next
  <2> QED BY <1>3, <2>1, <2>2 DEF Project
<1>4. ASSUME NEW c \in Calls, CallStep(c) \/ Crash(c)
      PROVE  [Abstract!Next]_Abstract!vars
  BY <1>1, <1>2, <1>3, <1>4, StepKinds, WriteRefines, ReplayRefines DEF Abstract!Next
<1>5. CASE Environment
  BY <1>5, EnvironmentInvisible, InvisibleStep
<1>6. CASE UNCHANGED vars
  BY <1>6, InvisibleStep DEF vars, dbVars, callVars
<1> QED BY <1>4, <1>5, <1>6 DEF Next

\* The initial states of the pipeline are initial states of the abstract operation.
LEMMA InitRefines == Init => Abstract!Init
<1> SUFFICES ASSUME Init PROVE Abstract!Init
  OBVIOUS
<1>1. \A c \in Calls : Outcome(c) = "pending" /\ From(c) = c
  BY DEF Init, Outcome, From, HasAnswer, NoReply, Answers
<1>2. OutcomeBar = [c \in Calls |-> "pending"] /\ FromBar = [c \in Calls |-> c]
  BY <1>1 DEF OutcomeBar, FromBar
<1> QED BY <1>2 DEF Init, OutcomeBar, FromBar, Abstract!Init

\* operationcore.Run with its ledger implements the idempotent operation its
\* callers are promised, for every number of calls, retries and identities, on
\* either store, with crashes and lost replies.
THEOREM RefinesIdempotentOperation == Spec => ImplementsIdempotentOperation
<1>1. RefineInv /\ [Next]_vars => [Abstract!Next]_Abstract!vars
  BY StepRefines
<1> QED
  BY <1>1, InitRefines, RefineInvHolds, PTL
     DEF Spec, ImplementsIdempotentOperation, Abstract!Spec
=============================================================================
