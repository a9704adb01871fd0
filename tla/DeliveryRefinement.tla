------------------------- MODULE DeliveryRefinement -------------------------
(***************************************************************************)
(* The proof that freezing and exporting, which do without the operation   *)
(* pipeline, implement the same abstract idempotent operation: the insert  *)
(* of a row performs it, an answer from the action index replays it, and   *)
(* the transactions in between are invisible to it.                        *)
(***************************************************************************)
EXTENDS DeliveryProofs

-----------------------------------------------------------------------------
(* The kinds of steps *)

\* The call moves on, and neither a row nor its answer changes.
Advances(c) ==
    /\ pc[c] # "done" /\ pc'[c] # "done"
    /\ UNCHANGED <<snapshots, artifacts, answer>>

\* The call ends with an error.
Refuses(c) == pc[c] # "done" /\ \E why \in {"moved", "refused"} : Refuse(c, why)

\* The call is given the recorded row of its action and request.
Replays(c) ==
    /\ pc[c] \in {"lookup", "record"}
    /\ \E d \in Recorded(c), label \in {"get", "confirm"} :
          SameRequest(c, d) /\ AnswerWith(c, d, label)

\* The call records the first row of its action.
Inserts(c) ==
    /\ pc[c] \in {"record", "commit"} /\ Recorded(c) = {}
    /\ Stored(c)'
    /\ answer' = [answer EXCEPT ![c] = c]

\* The call ends with the answer it holds.
Delivers(c) == pc[c] \in {"get", "confirm"} /\ Succeed(c)

\* A replay answers the call or refuses it.
LEMMA ReplayKind ==
    ASSUME NEW c, NEW d \in Recorded(c), NEW label \in {"get", "confirm"},
           pc[c] \in {"lookup", "record"}, Replay(c, d, label)
    PROVE  Replays(c) \/ Refuses(c)
BY DEF Replay, Replays, Refuses

\* The action index holds no committed row beside one that waits for its COMMIT.
LEMMA OpenInsertAlone ==
    ASSUME IInv, NEW c \in Exports, pc[c] = "commit"
    PROVE  Recorded(c) = {}
<1>1. c \in Keyed /\ c \in Calls
  BY Kinds DEF Keyed
<1>2. ~Stored(c)
  BY <1>1, NotYetRecorded
<1>3. ASSUME NEW d \in Recorded(c) PROVE FALSE
  BY <1>1, <1>2 DEF Recorded, IInv, UniqueRows, Claimed
<1> QED BY <1>3

\* Storing an artifact performs the export.
LEMMA StoreInserts ==
    ASSUME IInv, NEW c \in Exports, pc[c] \in {"record", "commit"}, Recorded(c) = {},
           StoreExport(c)
    PROVE  Inserts(c)
<1>1. made[c] # None /\ artifacts'[c] = made[c]
  BY CallsAssumption DEF StoreExport, IInv, TypeInv, TypeOK
<1> QED BY <1>1, Kinds DEF StoreExport, Inserts, Stored

\* Every step of a freeze or an export is of one of these kinds.
LEMMA StepKinds ==
    ASSUME IInv, NEW c \in Keyed, CallStep(c)
    PROVE  Advances(c) \/ Refuses(c) \/ Replays(c) \/ Inserts(c) \/ Delivers(c)
<1>1. c \in Calls /\ c \notin Downloads
  BY Kinds
<1>2. ASSUME NEW label \in Labels \ {"done"}, pc[c] # "done", Goto(c, label),
             UNCHANGED <<rowVars, answer>>
      PROVE  Advances(c)
  BY <1>1, <1>2 DEF Advances, Goto, rowVars, IInv, TypeInv, TypeOK
<1>3. ASSUME NEW why \in {"moved", "refused"}, pc[c] # "done", Refuse(c, why)
      PROVE  Refuses(c)
  BY <1>3 DEF Refuses
<1>4. ASSUME NEW label \in Labels \ {"done"}, pc[c] # "done", Proceed(c, label)
      PROVE  Advances(c)
  BY <1>2, <1>4 DEF Proceed
<1>5. ASSUME NEW label \in Labels \ {"done"}, NEW thing, pc[c] # "done", Build(c, label, thing)
      PROVE  Advances(c)
  BY <1>2, <1>5 DEF Build
<1> DEFINE Goal == Advances(c) \/ Refuses(c) \/ Replays(c) \/ Inserts(c) \/ Delivers(c)
<1>6. ASSUME NEW d \in Recorded(c), NEW label \in {"get", "confirm"},
             pc[c] \in {"lookup", "record"}, Replay(c, d, label)
      PROVE  Goal
  BY <1>6, ReplayKind
<1>7. Advances(c) \/ Refuses(c) => Goal
  OBVIOUS
<1>8. Begin(c) => Goal
  BY <1>2, <1>7 DEF Begin, At, Labels
<1>9. Admit(c) => Goal
  BY <1>3, <1>4, <1>7 DEF Admit, At, Labels
<1>10. GateRead(c) => Goal
  BY <1>2, <1>3, <1>7 DEF GateRead, At, Labels
<1>11. GateRecheck(c) => Goal
  BY <1>3, <1>4, <1>7 DEF GateRecheck, AfterGate, At, Labels
<1>12. LookUp(c) => Goal
  <2> SUFFICES ASSUME LookUp(c) PROVE Goal
    OBVIOUS
  <2> HIDE DEF Goal
  <2>1. pc[c] = "lookup"
    BY DEF LookUp, At
  <2>2. PICK label \in {"get", "confirm"} : label = IF c \in Freezes THEN "get" ELSE "confirm"
    OBVIOUS
  <2>3. CASE \E d \in Recorded(c) : Replay(c, d, label)
    BY <1>6, <2>1, <2>3
  <2>4. CASE Refuse(c, "refused")
    BY <1>3, <1>7, <2>1, <2>4
  <2>5. CASE \E next \in {"assemble", "produce"} : Proceed(c, next)
    BY <1>4, <1>7, <2>1, <2>5 DEF Labels
  <2> QED BY <2>2, <2>3, <2>4, <2>5 DEF LookUp
<1>13. Assemble(c) => Goal
  BY <1>3, <1>5, <1>7 DEF Assemble, At, Labels
<1>14. Freeze(c) => Goal
  BY <1>3, <1>5, <1>7 DEF Freeze, At, Labels
<1>15. RecordFreeze(c) => Goal
  <2> SUFFICES ASSUME RecordFreeze(c) PROVE Goal
    OBVIOUS
  <2>1. c \in Freezes /\ pc[c] = "record"
    BY DEF RecordFreeze, At
  <2>2. CASE LoseInsert(c, "get")
    BY <1>6, <2>1, <2>2 DEF LoseInsert
  <2>3. CASE /\ Recorded(c) = {}
             /\ snapshots' = [snapshots EXCEPT ![c] = made[c]]
             /\ answer' = [answer EXCEPT ![c] = c]
    <3>1. made[c] # None /\ snapshots'[c] = made[c]
      BY <2>1, <2>3, CallsAssumption DEF IInv, TypeInv, TypeOK
    <3>2. Inserts(c)
      BY <2>1, <2>3, <3>1 DEF Inserts, Stored
    <3> QED BY <3>2
  <2> QED BY <2>2, <2>3 DEF RecordFreeze
<1>16. RecordExport(c) => Goal
  <2> SUFFICES ASSUME RecordExport(c) PROVE Goal
    OBVIOUS
  <2>1. c \in Exports /\ c \notin Freezes /\ pc[c] = "record"
    BY Kinds DEF RecordExport, At
  <2>2. CASE LoseInsert(c, "confirm")
    BY <1>6, <2>1, <2>2 DEF LoseInsert
  <2>3. CASE Refuse(c, "moved")
    BY <1>3, <1>7, <2>1, <2>3
  <2>4. CASE Recorded(c) = {} /\ StoreExport(c)
    BY <2>1, <2>4, StoreInserts
  <2>5. CASE Proceed(c, "commit")
    BY <1>4, <1>7, <2>1, <2>5 DEF Labels
  <2> HIDE DEF Goal
  <2> QED BY <2>2, <2>3, <2>4, <2>5 DEF RecordExport
<1>17. CommitExport(c) => Goal
  <2> SUFFICES ASSUME CommitExport(c) PROVE Goal
    OBVIOUS
  <2>1. c \in Exports /\ pc[c] = "commit" /\ StoreExport(c)
    BY <1>1, LabelKinds DEF CommitExport, At, IInv
  <2>2. Recorded(c) = {}
    BY <2>1, OpenInsertAlone
  <2> QED BY <2>1, <2>2, StoreInserts
<1>18. GetSnapshot(c) \/ ConfirmExport(c) => Goal
  BY <1>3, <1>7 DEF GetSnapshot, ConfirmExport, At, Delivers
<1>19. Produce(c) => Goal
  BY <1>3, <1>4, <1>7 DEF Produce, At, Labels
<1>20. Render(c) => Goal
  BY <1>3, <1>5, <1>7 DEF Render, At, Labels
<1>21. PrepareBasis(c) => Goal
  BY <1>2, <1>3, <1>7 DEF PrepareBasis, At, Labels
<1>22. ~OpenArtifact(c) /\ ~SendArtifact(c)
  BY <1>1, LabelKinds DEF OpenArtifact, SendArtifact, At, IInv
<1>23. Fail(c) => Goal
  BY <1>3, <1>7 DEF Fail
<1> HIDE DEF Goal
<1>24. Goal
  BY <1>8, <1>9, <1>10, <1>11, <1>12, <1>13, <1>14, <1>15, <1>16, <1>17, <1>18, <1>19,
     <1>20, <1>21, <1>22, <1>23 DEF CallStep
<1> QED BY <1>24 DEF Goal

-----------------------------------------------------------------------------
(* The refinement mapping *)

IdBar == [c \in Keyed |-> ActionOf(c)]
BodyBar == [c \in Keyed |-> asked[c]]
PerformedBar == {c \in Keyed : Stored(c)}
OutcomeBar == [c \in Keyed |-> Outcome(c)]
FromBar == [c \in Keyed |-> IF answer[c] # None THEN answer[c] ELSE c]

\* A step of one call changes the outcome of that call only, and no request.
LEMMA OneOutcome ==
    ASSUME NEW c \in Keyed, CallFrame(c)
    PROVE  /\ IdBar' = IdBar /\ BodyBar' = BodyBar
           /\ OutcomeBar' = [OutcomeBar EXCEPT ![c] = Outcome(c)']
           /\ FromBar' = [FromBar EXCEPT ![c] = IF answer'[c] # None THEN answer'[c] ELSE c]
           /\ (Stored(c)' <=> Stored(c)) => PerformedBar' = PerformedBar
           /\ Stored(c)' => PerformedBar' = PerformedBar \cup {c}
<1>1. \A d \in Keyed \ {c} : pc'[d] = pc[d] /\ answer'[d] = answer[d]
  BY Kinds DEF CallFrame
<1>2. \A d \in Keyed \ {c} : Outcome(d)' = Outcome(d) /\ (Stored(d)' <=> Stored(d))
  BY <1>1, Kinds DEF Outcome, CallFrame, Stored
<1>3. asked' = asked
  BY DEF CallFrame
<1>4. IdBar' = IdBar
  BY DEF IdBar, ActionOf, KindOf
<1>5. BodyBar' = BodyBar
  BY <1>3 DEF BodyBar
<1>6. OutcomeBar' = [OutcomeBar EXCEPT ![c] = Outcome(c)']
  BY <1>2 DEF OutcomeBar
<1>7. FromBar' = [FromBar EXCEPT ![c] = IF answer'[c] # None THEN answer'[c] ELSE c]
  BY <1>1 DEF FromBar
<1>8. /\ (Stored(c)' <=> Stored(c)) => PerformedBar' = PerformedBar
      /\ Stored(c)' => PerformedBar' = PerformedBar \cup {c}
  BY <1>2 DEF PerformedBar
<1> QED BY <1>4, <1>5, <1>6, <1>7, <1>8

\* A call under way is not refused, and pending until it holds an answer.
LEMMA PendingUntilAnswer ==
    ASSUME IInv, NEW c \in Keyed, pc[c] # "done"
    PROVE  /\ Outcome(c) # "refused"
           /\ pc[c] \notin {"get", "confirm"} => Outcome(c) = "pending"
<1>1. AnswerInOrder(c)
  BY Kinds DEF IInv, CallInv
<1> QED BY <1>1 DEF AnswerInOrder, Outcome

\* A step that changes nothing the abstract operation shows is a stutter.
LEMMA InvisibleStep ==
    ASSUME IdBar' = IdBar, BodyBar' = BodyBar, PerformedBar' = PerformedBar,
           OutcomeBar' = OutcomeBar, FromBar' = FromBar
    PROVE  UNCHANGED Abstract!vars
BY DEF IdBar, BodyBar, PerformedBar, OutcomeBar, FromBar, Abstract!vars

\* A call that moves on, or delivers the answer it holds, shows nothing.
LEMMA AdvanceRefines ==
    ASSUME IInv, NEW c \in Keyed, CallFrame(c), Advances(c) \/ Delivers(c)
    PROVE  UNCHANGED Abstract!vars
<1>1. UNCHANGED <<snapshots, artifacts, answer>>
  BY DEF Advances, Delivers, Succeed, Return, rowVars
<1>2. Outcome(c)' = Outcome(c)
  <2>1. CASE Advances(c)
    BY <1>1, <2>1 DEF Advances, Outcome
  <2>2. CASE Delivers(c)
    <3>1. answer[c] # None
      BY <2>2, Kinds DEF Delivers, IInv, CallInv, AnswerInOrder
    <3> QED BY <1>1, <3>1 DEF Outcome
  <2> QED BY <2>1, <2>2
<1>3. Stored(c)' <=> Stored(c)
  BY <1>1 DEF Stored
<1>4. OutcomeBar' = OutcomeBar
  BY <1>2, OneOutcome DEF OutcomeBar
<1>5. FromBar' = FromBar
  BY <1>1 DEF FromBar
<1> QED BY <1>3, <1>4, <1>5, OneOutcome, InvisibleStep

\* A refusal is a refusal.
LEMMA RefusalRefines ==
    ASSUME IInv, NEW c \in Keyed, CallFrame(c), Refuses(c)
    PROVE  Abstract!Refuse(c)
<1>1. /\ answer'[c] = None /\ pc'[c] = "done"
      /\ UNCHANGED <<snapshots, artifacts>>
  BY Kinds DEF Refuses, Refuse, Return, Goto, rowVars, IInv, TypeInv, TypeOK
<1>2. Outcome(c)' = "refused" /\ (Stored(c)' <=> Stored(c))
  BY <1>1 DEF Outcome, Stored
<1>3. OutcomeBar[c] # "refused"
  BY PendingUntilAnswer DEF Refuses, OutcomeBar
<1>4. /\ OutcomeBar' = [OutcomeBar EXCEPT ![c] = "refused"]
      /\ FromBar' = [FromBar EXCEPT ![c] = c]
      /\ PerformedBar' = PerformedBar /\ IdBar' = IdBar /\ BodyBar' = BodyBar
  BY <1>1, <1>2, OneOutcome
<1> QED BY <1>3, <1>4
  DEF IdBar, BodyBar, PerformedBar, OutcomeBar, FromBar, Abstract!Refuse

\* A call that is given a row answers, in the abstract operation too.
LEMMA AnswerRefines ==
    ASSUME IInv, NEW c \in Keyed, CallFrame(c), pc[c] \in {"lookup", "record", "commit"},
           NEW d \in Keyed, answer' = [answer EXCEPT ![c] = d]
    PROVE  Abstract!Answer(c, d)
<1>1. answer'[c] = d /\ d # None
  BY Kinds, CallsAssumption DEF IInv, TypeInv, TypeOK
<1>2. Outcome(c)' = "answered"
  BY <1>1 DEF Outcome
<1>3. OutcomeBar[c] = "pending"
  BY PendingUntilAnswer DEF OutcomeBar
<1>4. /\ OutcomeBar' = [OutcomeBar EXCEPT ![c] = "answered"]
      /\ FromBar' = [FromBar EXCEPT ![c] = d]
      /\ IdBar' = IdBar /\ BodyBar' = BodyBar
  BY <1>1, <1>2, OneOutcome
<1> QED BY <1>3, <1>4 DEF IdBar, BodyBar, OutcomeBar, FromBar, Abstract!Answer

\* An answer from the action index replays the operation of the call that recorded
\* the row, for the same request.
LEMMA ReplayRefines ==
    ASSUME IInv, NEW c \in Keyed, CallFrame(c), Replays(c)
    PROVE  \E d \in Keyed : Abstract!Replay(c, d)
<1>1. PICK d \in Recorded(c), label \in {"get", "confirm"} :
         SameRequest(c, d) /\ AnswerWith(c, d, label)
  BY DEF Replays
<1>2. d \in Keyed /\ Stored(d) /\ ActionOf(d) = ActionOf(c) /\ asked[d] = asked[c]
  BY <1>1 DEF Recorded, SameRequest
<1>3. Abstract!Answer(c, d)
  BY <1>1, <1>2, AnswerRefines DEF Replays, AnswerWith
<1>4. PerformedBar' = PerformedBar
  BY <1>1, OneOutcome DEF AnswerWith, rowVars, Stored
<1>5. d \in PerformedBar /\ IdBar[d] = IdBar[c] /\ BodyBar[d] = BodyBar[c]
  BY <1>2 DEF PerformedBar, IdBar, BodyBar
<1>6. Abstract!Replay(c, d)
  BY <1>3, <1>4, <1>5 DEF IdBar, BodyBar, PerformedBar, Abstract!Replay
<1> QED BY <1>2, <1>6

\* The insert of a row performs the operation: no call of the action did before.
LEMMA InsertRefines ==
    ASSUME IInv, NEW c \in Keyed, CallFrame(c), Inserts(c)
    PROVE  Abstract!Perform(c)
<1>1. Abstract!Answer(c, c)
  BY AnswerRefines DEF Inserts
<1>2. PerformedBar' = PerformedBar \cup {c}
  BY OneOutcome DEF Inserts
<1>3. \A d \in PerformedBar : IdBar[d] # IdBar[c]
  BY DEF Inserts, Recorded, PerformedBar, IdBar
<1> QED BY <1>1, <1>2, <1>3 DEF IdBar, PerformedBar, Abstract!Perform

\* Rows, requests, answers and program points of freezes and exports are all that
\* shows.
LEMMA OtherStepsInvisible ==
    ASSUME asked' = asked,
           \A d \in Keyed : /\ pc'[d] = pc[d] /\ answer'[d] = answer[d]
                            /\ Stored(d)' <=> Stored(d)
    PROVE  UNCHANGED Abstract!vars
<1>1. IdBar' = IdBar /\ BodyBar' = BodyBar
  BY DEF IdBar, ActionOf, KindOf, BodyBar
<1>2. PerformedBar' = PerformedBar
  BY DEF PerformedBar
<1>3. OutcomeBar' = OutcomeBar /\ FromBar' = FromBar
  BY DEF OutcomeBar, Outcome, FromBar
<1> QED BY <1>1, <1>2, <1>3, InvisibleStep

\* Every step is a step of the abstract operation or a stutter.
LEMMA StepRefines ==
    ASSUME IInv, [Next]_vars
    PROVE  [Abstract!Next]_Abstract!vars
<1>1. ASSUME NEW c \in Keyed, CallStep(c) PROVE [Abstract!Next]_Abstract!vars
  <2>1. CallFrame(c)
    BY <1>1, CallTyped, Kinds DEF IInv
  <2>2. CASE Advances(c) \/ Delivers(c)
    BY <2>1, <2>2, AdvanceRefines
  <2>3. CASE Refuses(c)
    BY <2>1, <2>3, RefusalRefines DEF Abstract!Next
  <2>4. CASE Replays(c)
    BY <2>1, <2>4, ReplayRefines DEF Abstract!Next
  <2>5. CASE Inserts(c)
    BY <2>1, <2>5, InsertRefines DEF Abstract!Next
  <2> QED BY <1>1, <2>2, <2>3, <2>4, <2>5, StepKinds
<1>2. ASSUME NEW c \in Calls \ Keyed, CallStep(c) PROVE [Abstract!Next]_Abstract!vars
  <2>1. CallFrame(c)
    BY <1>2, CallTyped DEF IInv
  <2>2. \A d \in Keyed : d # c /\ d \in Calls
    BY <1>2, Kinds
  <2>3. \A d \in Keyed : /\ pc'[d] = pc[d] /\ answer'[d] = answer[d]
                         /\ Stored(d)' <=> Stored(d)
    BY <2>1, <2>2, Kinds DEF CallFrame, Stored
  <2> QED BY <2>1, <2>3, OtherStepsInvisible DEF CallFrame
<1>3. CASE Environment
  <2>1. EnvironmentFrame
    BY <1>3, EnvironmentTyped DEF IInv
  <2>2. UNCHANGED <<snapshots, artifacts, asked>>
        /\ \A d \in Calls : pc'[d] = pc[d] /\ answer'[d] = answer[d]
    BY <2>1 DEF EnvironmentFrame
  <2> QED BY <2>2, OtherStepsInvisible, Kinds DEF Stored
<1>4. CASE UNCHANGED vars
  BY <1>4, OtherStepsInvisible DEF vars, rowVars, Stored
<1> QED BY <1>1, <1>2, <1>3, <1>4 DEF Next

\* The initial states are initial states of the abstract operation.
LEMMA InitRefines == Init => Abstract!Init
<1> SUFFICES ASSUME Init PROVE Abstract!Init
  OBVIOUS
<1> DEFINE Ids == {"freeze", "export"} \X Users \X {KeyOf[c] : c \in Keyed}
<1>1. IdBar \in [Keyed -> Ids]
  BY Kinds, CallsAssumption DEF IdBar, ActionOf, KindOf
<1>2. BodyBar \in [Keyed -> (1 .. MaxVersion) \cup Freezes]
  <2>1. ASSUME NEW c \in Keyed PROVE asked[c] \in (1 .. MaxVersion) \cup Freezes
    BY Kinds DEF Init
  <2> QED BY <2>1 DEF BodyBar
<1>3. PerformedBar = {}
  BY Kinds DEF Init, PerformedBar, Stored
<1>4. \A c \in Keyed : answer[c] = None /\ pc[c] = "idle"
  BY Kinds DEF Init
<1>5. OutcomeBar = [c \in Keyed |-> "pending"] /\ FromBar = [c \in Keyed |-> c]
  BY <1>4 DEF OutcomeBar, Outcome, FromBar
<1> QED BY <1>1, <1>2, <1>3, <1>5
  DEF IdBar, BodyBar, PerformedBar, OutcomeBar, FromBar, Abstract!Init

\* Freezing and exporting through the full-workflow guard keep the promise of the
\* operation pipeline with nothing but the action index of RecordFreeze and
\* recordExport: at most one row per action, and answers only from that row, however
\* many calls, crashes and changes of the project interleave.
THEOREM RefinesIdempotentOperation == Spec => ImplementsIdempotentOperation
<1>1. IInv /\ [Next]_vars => [Abstract!Next]_Abstract!vars
  BY StepRefines
<1> QED
  BY <1>1, InitRefines, InvariantHolds, PTL
     DEF Spec, ImplementsIdempotentOperation, Abstract!Spec
=============================================================================
