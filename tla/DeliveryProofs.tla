--------------------------- MODULE DeliveryProofs ---------------------------
(***************************************************************************)
(* Proofs about Delivery, for every set of users, freezes, exports and     *)
(* downloads and every project history: the type invariant, one row per    *)
(* action, that only what the gate passed is delivered and only to readers *)
(* of its sources, and that an export still holds when it is committed.    *)
(***************************************************************************)
EXTENDS Delivery, TLAPS

-----------------------------------------------------------------------------
(* The inductive invariant *)

FreezeLabels == {"idle", "admit", "gate", "recheck", "lookup", "assemble", "freeze",
                 "record", "get", "done"}
ExportLabels == {"idle", "admit", "gate", "recheck", "lookup", "produce", "render",
                 "prepare", "record", "commit", "confirm", "done"}
DownloadLabels == {"idle", "admit", "gate", "recheck", "open", "send", "done"}

\* What a freeze has assembled, before it is judged.
Draft == [version : Nat, source : Nat, check : {"none"}]

\* A call runs the steps of its own operation, on a request of its own kind.
Shape ==
    /\ asked \in [Calls -> (1 .. MaxVersion) \cup Keyed]
    /\ made = [c \in Calls |-> made[c]]
    /\ couldRead \in [Receivers -> BOOLEAN]
    /\ \A c \in Freezes : asked[c] \in 1 .. MaxVersion /\ pc[c] \in FreezeLabels
    /\ \A c \in Exports : asked[c] \in Freezes /\ pc[c] \in ExportLabels
    /\ \A c \in Downloads : asked[c] \in Exports /\ pc[c] \in DownloadLabels
    /\ \A c \in Freezes : pc[c] = "freeze" => made[c] \in Draft
    /\ \A c \in Exports : pc[c] = "commit" => artifacts[c] = None

TypeInv == TypeOK /\ Shape

\* The row of a call is in the action index, committed or not.
Claimed(c) == Stored(c) \/ pc[c] = "commit"

\* Two rows of one action are one row.
UniqueRows ==
    \A c, d \in Keyed : Claimed(c) /\ Claimed(d) /\ ActionOf(c) = ActionOf(d) => c = d

\* What a call was given to ask for stays known.
KnownStays(c) == pc[c] # "idle" => Known(c)

\* A row is recorded by a call that is past its record, a snapshot is not of the
\* future, and a file has its snapshot.
RowRecorded(c) ==
    /\ c \in Keyed /\ Stored(c) => pc[c] \in {"get", "confirm", "done"}
    /\ c \in Freezes /\ Stored(c) => snapshots[c].version <= project.version
    /\ c \in Exports /\ Stored(c) => snapshots[asked[c]] # None

\* A call holds an answer from its record or its replay to its end, and replies
\* only at its end.
AnswerInOrder(c) ==
    /\ pc[c] \notin {"get", "confirm", "done"} => answer[c] = None
    /\ pc[c] \in {"get", "confirm"} => answer[c] # None
    /\ reply[c] # "none" => pc[c] = "done"
    /\ c \in Freezes /\ reply[c] = "ok" => answer[c] # None

\* A call answers with the row of its own action and request.
AnsweredWithRow(c) ==
    c \in Keyed /\ answer[c] # None =>
        /\ Stored(answer[c])
        /\ ActionOf(answer[c]) = ActionOf(c)
        /\ SameRequest(answer[c], c)

\* The gate judged a version that is not of the future and, for an export, not older
\* than the snapshot.
GatedInOrder(c) ==
    pc[c] \notin {"idle", "admit", "gate", "done"} =>
        /\ gated[c] \in Basis
        /\ gated[c].version <= project.version
        /\ c \in Exports => snapshots[asked[c]].version <= gated[c].version

\* What a freeze has built is of the version it expected, which is not older than
\* the one the gate passed and not of the future.
BuiltAsGated(c) ==
    c \in Freezes /\ pc[c] \in {"freeze", "record"} =>
        /\ made[c].version = asked[c]
        /\ gated[c].version <= asked[c]
        /\ asked[c] <= project.version

\* An export renders a passed snapshot of the version the gate passed, its proof is
\* about the sources of that snapshot, and its COMMIT is a step of its own only where
\* the store leaves room for others.
ExportAsGated(c) ==
    c \in Exports =>
        /\ pc[c] = "commit" => ~SnapshotStore
        /\ pc[c] \in {"render", "prepare", "record", "commit"} =>
              /\ snapshots[asked[c]].version = gated[c].version
              /\ snapshots[asked[c]].check = "passed"
        /\ pc[c] = "record" =>
              /\ proof[c] \in Basis
              /\ proof[c].source = snapshots[asked[c]].source
              /\ made[c] = "verified" => proof[c].version = snapshots[asked[c]].version

\* A snapshot carries the version that was expected, which is not older than the one
\* the gate passed; a verified file is of the version the gate passed.
RowAsGated(c) ==
    /\ c \in Freezes /\ Stored(c) =>
          /\ gated[c] \in Basis
          /\ snapshots[c].version = asked[c]
          /\ gated[c].version <= asked[c]
    /\ c \in Exports /\ artifacts[c] = "verified" =>
          /\ snapshots[asked[c]].version = gated[c].version
          /\ snapshots[asked[c]].check = "passed"

\* A call under way that may read the source has been seen to, and so has a download
\* that is about to send a text that quotes it.
ReaderNoted(c) ==
    /\ c \in Receivers /\ pc[c] \notin {"idle", "done"} /\ UserOf[c] \in access => couldRead[c]
    /\ c \in Downloads /\ pc[c] = "send" /\ SnapshotOf(c).source # 0 => couldRead[c]

\* A receiver of a text that quotes the source has been seen to read it.
ContentRead(c) ==
    c \in Receivers /\ reply[c] = "ok" /\ SnapshotOf(c).source # 0 => couldRead[c]

CallInv(c) ==
    /\ KnownStays(c)
    /\ RowRecorded(c)
    /\ AnswerInOrder(c)
    /\ AnsweredWithRow(c)
    /\ GatedInOrder(c)
    /\ BuiltAsGated(c)
    /\ ExportAsGated(c)
    /\ RowAsGated(c)
    /\ ReaderNoted(c)
    /\ ContentRead(c)

IInv ==
    /\ TypeInv
    /\ UniqueRows
    /\ \A c \in Calls : CallInv(c)

-----------------------------------------------------------------------------
(* Types *)

\* Calls of different kinds are different.
LEMMA Kinds ==
    /\ Freezes \subseteq Calls /\ Exports \subseteq Calls /\ Downloads \subseteq Calls
    /\ Keyed \subseteq Calls /\ Receivers \subseteq Calls
    /\ \A c \in Freezes : c \notin Exports /\ c \notin Downloads
    /\ \A c \in Exports : c \notin Downloads
    /\ \A c \in Calls : c \in Freezes \/ c \in Exports \/ c \in Downloads
    /\ \A c \in Keyed : c \in Freezes \/ c \in Exports
BY CallsAssumption DEF Calls, Keyed, Receivers

\* The project's fields, and what is read of it.
LEMMA ProjectTyped ==
    ASSUME TypeOK
    PROVE  /\ project.version \in Nat /\ Quoted \in Nat
           /\ GateBasis \in Basis
           /\ Input("none") \in Draft
           /\ CheckStatus \in Verdicts /\ Input(CheckStatus) \in Snapshot
<1>1. /\ project.version \in Nat /\ project.quotes \in BOOLEAN
      /\ project.verdict \in Verdicts /\ source \in Nat
  BY DEF TypeOK
<1>2. Quoted \in Nat
  BY <1>1 DEF Quoted
<1>3. CheckStatus \in Verdicts
  BY <1>1 DEF CheckStatus, Verdicts
<1> QED BY <1>1, <1>2, <1>3 DEF GateBasis, Basis, Input, Draft, Snapshot

\* What a step of a call leaves alone: the project and its people, what was asked,
\* the locals of the other calls, and every row that is there.
CallFrame(c) ==
    /\ UNCHANGED <<worldVars, asked>>
    /\ \A d \in Calls \ {c} : /\ pc'[d] = pc[d] /\ reply'[d] = reply[d]
                              /\ answer'[d] = answer[d] /\ gated'[d] = gated[d]
                              /\ made'[d] = made[d] /\ proof'[d] = proof[d]
    /\ \A f \in Freezes : f # c \/ snapshots[f] # None => snapshots'[f] = snapshots[f]
    /\ \A e \in Exports : e # c \/ artifacts[e] # None => artifacts'[e] = artifacts[e]
    /\ \A d \in Receivers : /\ couldRead[d] => couldRead'[d]
                            /\ d # c => couldRead'[d] = couldRead[d]

\* A frame and well-typed locals of the call that steps make a well-typed state.
LEMMA FrameTyped ==
    ASSUME TypeInv, NEW c \in Calls, CallFrame(c),
           pc' \in [Calls -> Labels], reply' \in [Calls -> Replies],
           answer' \in [Calls -> Keyed \cup {None}],
           gated' \in [Calls -> Basis \cup {None}],
           proof' \in [Calls -> Basis \cup {None}],
           made' = [d \in Calls |-> made'[d]],
           snapshots' \in [Freezes -> Snapshot \cup {None}],
           artifacts' \in [Exports -> FileStates \cup {None}],
           couldRead' \in [Receivers -> BOOLEAN],
           c \in Freezes => /\ pc'[c] \in FreezeLabels
                            /\ pc'[c] = "freeze" => made'[c] \in Draft
                            /\ pc'[c] = "record" => made'[c] \in Snapshot,
           c \in Exports => /\ pc'[c] \in ExportLabels
                            /\ pc'[c] \in {"prepare", "record", "commit"} => made'[c] \in FileStates
                            /\ pc'[c] = "commit" => artifacts'[c] = None,
           c \in Downloads => pc'[c] \in DownloadLabels
    PROVE  TypeInv'
<1>1. UNCHANGED <<project, members, owner, paused, source, access, changes, asked>>
  BY DEF CallFrame, worldVars
<1>2. \A d \in Calls \ {c} : made'[d] = made[d] /\ pc'[d] = pc[d]
  BY DEF CallFrame
<1>3. /\ \A f \in Freezes : /\ pc'[f] = "record" => made'[f] \in Snapshot
                            /\ pc'[f] = "freeze" => made'[f] \in Draft
      /\ \A e \in Exports : /\ pc'[e] \in {"prepare", "record", "commit"} => made'[e] \in FileStates
                            /\ pc'[e] = "commit" => artifacts'[e] = None
  <2>1. ASSUME NEW f \in Freezes
        PROVE  /\ pc'[f] = "record" => made'[f] \in Snapshot
               /\ pc'[f] = "freeze" => made'[f] \in Draft
    <3>1. CASE f = c
      BY <3>1
    <3>2. CASE f # c
      BY <1>2, <3>2, Kinds DEF TypeInv, TypeOK, Shape
    <3> QED BY <3>1, <3>2
  <2>2. ASSUME NEW e \in Exports
        PROVE  /\ pc'[e] \in {"prepare", "record", "commit"} => made'[e] \in FileStates
               /\ pc'[e] = "commit" => artifacts'[e] = None
    <3>1. CASE e = c
      BY <3>1
    <3>2. CASE e # c
      <4>1. artifacts'[e] = artifacts[e]
        BY <3>2 DEF CallFrame
      <4> QED BY <1>2, <3>2, <4>1, Kinds DEF TypeInv, TypeOK, Shape
    <3> QED BY <3>1, <3>2
  <2> QED BY <2>1, <2>2
<1>4. TypeOK'
  BY <1>1, <1>3 DEF TypeInv, TypeOK
<1>5. Shape'
  BY <1>1, <1>2, <1>3, Kinds DEF TypeInv, Shape
<1> QED BY <1>4, <1>5 DEF TypeInv

\* A refusal and a success end a call, in a well-typed state.
LEMMA ReturnTyped ==
    ASSUME TypeInv, NEW c \in Calls, NEW why \in Replies, Return(c, why),
           answer' = answer \/ answer' = [answer EXCEPT ![c] = None]
    PROVE  CallFrame(c) /\ TypeInv'
<1>1. CallFrame(c)
  BY DEF Return, Goto, CallFrame, rowVars, TypeInv, TypeOK, Shape
<1>2. /\ pc' \in [Calls -> Labels] /\ reply' \in [Calls -> Replies]
      /\ answer' \in [Calls -> Keyed \cup {None}]
      /\ proof' \in [Calls -> Basis \cup {None}] /\ pc'[c] = "done"
  BY DEF Return, Goto, TypeInv, TypeOK, Labels
<1>3. made' = [d \in Calls |-> made'[d]]
  BY DEF Return, TypeInv, Shape
<1>4. UNCHANGED <<snapshots, artifacts, gated, couldRead>>
  BY DEF Return, rowVars
<1>5. "done" \in FreezeLabels /\ "done" \in ExportLabels /\ "done" \in DownloadLabels
  BY DEF FreezeLabels, ExportLabels, DownloadLabels
<1> QED BY <1>1, <1>2, <1>3, <1>4, <1>5, FrameTyped DEF TypeInv, TypeOK, Shape

\* A step that builds nothing moves a call to a label of its operation.
LEMMA MoveTyped ==
    ASSUME TypeInv, NEW c \in Calls, NEW label \in Labels \ {"freeze", "prepare", "record", "commit"},
           Goto(c, label),
           answer' \in [Calls -> Keyed \cup {None}],
           \A d \in Calls \ {c} : answer'[d] = answer[d],
           UNCHANGED <<worldVars, rowVars, asked, reply, localVars, couldRead>>,
           c \in Freezes => label \in FreezeLabels,
           c \in Exports => label \in ExportLabels,
           c \in Downloads => label \in DownloadLabels
    PROVE  CallFrame(c) /\ TypeInv'
<1>1. CallFrame(c)
  BY DEF Goto, CallFrame, rowVars, localVars, TypeInv, TypeOK
<1>2. pc' \in [Calls -> Labels] /\ pc'[c] = label
  BY DEF Goto, TypeInv, TypeOK
<1>3. UNCHANGED <<snapshots, artifacts, reply, gated, made, proof, couldRead>>
  BY DEF rowVars, localVars
<1> QED BY <1>1, <1>2, <1>3, FrameTyped DEF TypeInv, TypeOK, Shape

\* So does a step that builds what the label asks for.
LEMMA BuildTyped ==
    ASSUME TypeInv, NEW c \in Calls, NEW label \in Labels \ {"commit"}, NEW thing,
           Build(c, label, thing),
           c \in Freezes => /\ label \in FreezeLabels
                            /\ label = "freeze" => thing \in Draft
                            /\ label = "record" => thing \in Snapshot,
           c \in Exports => /\ label \in ExportLabels
                            /\ label \in {"prepare", "record"} => thing \in FileStates,
           c \in Downloads => label \in DownloadLabels
    PROVE  CallFrame(c) /\ TypeInv'
<1>1. CallFrame(c)
  BY DEF Build, Goto, CallFrame, rowVars, TypeInv, TypeOK, Shape
<1>2. pc' \in [Calls -> Labels] /\ pc'[c] = label
  BY DEF Build, Goto, TypeInv, TypeOK
<1>3. made' = [d \in Calls |-> made'[d]] /\ made'[c] = thing
  BY DEF Build, TypeInv, Shape
<1>4. UNCHANGED <<snapshots, artifacts, reply, answer, gated, proof, couldRead>>
  BY DEF Build, rowVars
<1> QED BY <1>1, <1>2, <1>3, <1>4, FrameTyped DEF TypeInv, TypeOK, Shape

\* A label tells the operation.
LEMMA LabelKinds ==
    ASSUME TypeInv, NEW c \in Calls
    PROVE  /\ pc[c] \in {"assemble", "freeze", "get"} => c \in Freezes
           /\ pc[c] \in {"produce", "render", "prepare", "commit", "confirm"} => c \in Exports
           /\ pc[c] \in {"open", "send"} => c \in Downloads
           /\ pc[c] \in {"lookup", "record"} => c \in Keyed
<1>1. CASE c \in Freezes
  BY <1>1, Kinds DEF TypeInv, Shape, FreezeLabels, Keyed
<1>2. CASE c \in Exports
  BY <1>2, Kinds DEF TypeInv, Shape, ExportLabels, Keyed
<1>3. CASE c \in Downloads
  BY <1>3, Kinds DEF TypeInv, Shape, DownloadLabels
<1> QED BY <1>1, <1>2, <1>3, Kinds

\* A replay ends the call or gives it the recorded row.
LEMMA ReplayTyped ==
    ASSUME TypeInv, NEW c \in Keyed, NEW d \in Keyed, NEW label,
           label = IF c \in Freezes THEN "get" ELSE "confirm", Replay(c, d, label)
    PROVE  CallFrame(c) /\ TypeInv'
<1>1. CASE Refuse(c, "refused")
  BY <1>1, ReturnTyped, Kinds DEF Refuse, Replies
<1>2. CASE AnswerWith(c, d, label)
  <2>1. answer' \in [Calls -> Keyed \cup {None}] /\ \A e \in Calls \ {c} : answer'[e] = answer[e]
    BY <1>2, Kinds DEF AnswerWith, TypeInv, TypeOK
  <2>2. label \in Labels \ {"freeze", "prepare", "record", "commit"}
    BY DEF Labels
  <2>3. /\ c \in Freezes => label \in FreezeLabels
        /\ c \in Exports => label \in ExportLabels
        /\ c \in Downloads => label \in DownloadLabels
    BY Kinds DEF FreezeLabels, ExportLabels
  <2> QED BY <1>2, <2>1, <2>2, <2>3, MoveTyped, Kinds DEF AnswerWith
<1> QED BY <1>1, <1>2 DEF Replay

\* Moving on, in the terms of MoveTyped.
LEMMA ProceedTyped ==
    ASSUME TypeInv, NEW c \in Calls, NEW label \in Labels \ {"freeze", "prepare", "record", "commit"},
           Proceed(c, label),
           c \in Freezes => label \in FreezeLabels,
           c \in Exports => label \in ExportLabels,
           c \in Downloads => label \in DownloadLabels
    PROVE  CallFrame(c) /\ TypeInv'
BY MoveTyped DEF Proceed, TypeInv, TypeOK

\* Every step of a call leaves its frame alone and ends in a well-typed state.
LEMMA CallTyped ==
    ASSUME TypeInv, NEW c \in Calls, CallStep(c)
    PROVE  CallFrame(c) /\ TypeInv'
<1> DEFINE Goal == CallFrame(c) /\ TypeInv'
<1>1. ASSUME NEW why \in {"moved", "refused"}, Refuse(c, why) PROVE Goal
  BY <1>1, ReturnTyped DEF Refuse, Replies
<1>2. Succeed(c) => Goal
  BY ReturnTyped DEF Succeed, Replies
<1> HIDE DEF Goal
<1>3. Begin(c) => Goal
  <2> SUFFICES ASSUME Begin(c) PROVE CallFrame(c) /\ TypeInv'
    BY DEF Goal
  <2>1. couldRead' \in [Receivers -> BOOLEAN]
        /\ \A d \in Receivers : /\ couldRead[d] => couldRead'[d]
                                /\ d # c => couldRead'[d] = couldRead[d]
    BY DEF Begin, TypeInv, Shape
  <2>2. /\ pc' = [pc EXCEPT ![c] = "admit"]
        /\ UNCHANGED <<worldVars, snapshots, artifacts, asked, reply, answer, gated, made, proof>>
    BY DEF Begin, Goto, rowVars, localVars
  <2>3. CallFrame(c)
    BY <2>1, <2>2 DEF CallFrame, TypeInv, TypeOK
  <2>4. /\ "admit" \in Labels /\ "admit" \in FreezeLabels /\ "admit" \in ExportLabels
        /\ "admit" \in DownloadLabels
    BY DEF Labels, FreezeLabels, ExportLabels, DownloadLabels
  <2>5. pc' \in [Calls -> Labels] /\ pc'[c] = "admit"
    BY <2>2, <2>4 DEF TypeInv, TypeOK
  <2> QED BY <2>1, <2>2, <2>3, <2>4, <2>5, FrameTyped DEF TypeInv, TypeOK, Shape
<1>4. Admit(c) => Goal
  <2>1. Proceed(c, "gate") => Goal
    BY ProceedTyped DEF Goal, Labels, FreezeLabels, ExportLabels, DownloadLabels
  <2> QED BY <1>1, <2>1 DEF Admit
<1>5. GateRead(c) => Goal
  <2> SUFFICES ASSUME Goto(c, "recheck"), gated' = [gated EXCEPT ![c] = GateBasis],
                      UNCHANGED <<worldVars, rowVars, asked, reply, answer, made, proof, couldRead>>
               PROVE  CallFrame(c) /\ TypeInv'
    BY <1>1 DEF GateRead, Goal
  <2>1. CallFrame(c)
    BY DEF CallFrame, Goto, rowVars, TypeInv, TypeOK
  <2>2. /\ "recheck" \in Labels /\ "recheck" \in FreezeLabels /\ "recheck" \in ExportLabels
        /\ "recheck" \in DownloadLabels
    BY DEF Labels, FreezeLabels, ExportLabels, DownloadLabels
  <2>3. pc' \in [Calls -> Labels] /\ pc'[c] = "recheck"
    BY <2>2 DEF Goto, TypeInv, TypeOK
  <2>4. gated' \in [Calls -> Basis \cup {None}]
    BY ProjectTyped DEF TypeInv, TypeOK
  <2> QED BY <2>1, <2>2, <2>3, <2>4, FrameTyped DEF rowVars, TypeInv, TypeOK, Shape
<1>6. GateRecheck(c) => Goal
  <2>1. Proceed(c, AfterGate(c)) => Goal
    <3>1. CASE c \in Keyed
      BY <3>1, ProceedTyped, Kinds
         DEF Goal, AfterGate, Labels, FreezeLabels, ExportLabels
    <3>2. CASE c \notin Keyed
      BY <3>2, ProceedTyped, Kinds DEF Goal, AfterGate, Labels, DownloadLabels, Keyed
    <3> QED BY <3>1, <3>2
  <2> QED BY <1>1, <2>1 DEF GateRecheck
<1>7. LookUp(c) => Goal
  <2> SUFFICES ASSUME LookUp(c) PROVE Goal
    OBVIOUS
  <2>1. c \in Keyed
    BY LabelKinds DEF LookUp, At
  <2>2. CASE c \in Freezes
    <3>1. Proceed(c, "assemble") => Goal
      BY <2>2, ProceedTyped, Kinds DEF Goal, Labels, FreezeLabels
    <3>2. ASSUME NEW d \in Keyed, Replay(c, d, "get") PROVE Goal
      BY <2>1, <2>2, <3>2, ReplayTyped DEF Goal
    <3> QED BY <1>1, <2>2, <3>1, <3>2 DEF LookUp, Recorded
  <2>3. CASE c \notin Freezes
    <3>1. c \in Exports
      BY <2>1, <2>3, Kinds
    <3>2. Proceed(c, "produce") => Goal
      BY <3>1, ProceedTyped, Kinds DEF Goal, Labels, ExportLabels
    <3>3. ASSUME NEW d \in Keyed, Replay(c, d, "confirm") PROVE Goal
      BY <2>1, <2>3, <3>3, ReplayTyped DEF Goal
    <3> QED BY <1>1, <2>3, <3>2, <3>3 DEF LookUp, Recorded
  <2> QED BY <2>2, <2>3
<1>8. Assemble(c) => Goal
  <2> SUFFICES ASSUME c \in Freezes, Build(c, "freeze", Input("none")) PROVE Goal
    BY <1>1, LabelKinds DEF Assemble, At
  <2>1. Input("none") \in Draft
    BY ProjectTyped DEF TypeInv
  <2> QED BY <2>1, BuildTyped, Kinds DEF Goal, Labels, FreezeLabels
<1>9. Freeze(c) => Goal
  <2> SUFFICES ASSUME c \in Freezes, Build(c, "record", Input(CheckStatus)) PROVE Goal
    BY <1>1, LabelKinds DEF Freeze, At
  <2>1. Input(CheckStatus) \in Snapshot
    BY ProjectTyped DEF TypeInv
  <2> QED BY <2>1, BuildTyped, Kinds DEF Goal, Labels, FreezeLabels
<1>10. RecordFreeze(c) => Goal
  <2> SUFFICES ASSUME RecordFreeze(c) PROVE Goal
    OBVIOUS
  <2>1. c \in Freezes /\ pc[c] = "record"
    BY DEF RecordFreeze, At
  <2>2. CASE LoseInsert(c, "get")
    <3>1. PICK d \in Keyed : Replay(c, d, "get")
      BY <2>2 DEF LoseInsert, Recorded
    <3> QED BY <2>1, <3>1, ReplayTyped DEF Keyed, Goal
  <2>3. CASE ~LoseInsert(c, "get")
    <3>1. /\ Recorded(c) = {}
          /\ snapshots' = [snapshots EXCEPT ![c] = made[c]]
          /\ answer' = [answer EXCEPT ![c] = c]
          /\ pc' = [pc EXCEPT ![c] = "get"]
          /\ UNCHANGED <<worldVars, artifacts, asked, reply, gated, made, proof, couldRead>>
      BY <2>3 DEF RecordFreeze, Goto, localVars
    <3>2. snapshots[c] = None
      BY <2>1, <3>1 DEF Recorded, Stored, Keyed
    <3>3. CallFrame(c)
      BY <2>1, <3>1, <3>2 DEF CallFrame, TypeInv, TypeOK
    <3>4. snapshots' \in [Freezes -> Snapshot \cup {None}]
      BY <2>1, <3>1 DEF TypeInv, TypeOK
    <3>5. "get" \in Labels /\ "get" \in FreezeLabels
      BY DEF Labels, FreezeLabels
    <3>6. /\ pc' \in [Calls -> Labels] /\ pc'[c] = "get"
          /\ answer' \in [Calls -> Keyed \cup {None}]
      BY <2>1, <3>1, <3>5 DEF TypeInv, TypeOK, Keyed
    <3>7. /\ reply' \in [Calls -> Replies] /\ gated' \in [Calls -> Basis \cup {None}]
          /\ proof' \in [Calls -> Basis \cup {None}] /\ made' = [d \in Calls |-> made'[d]]
          /\ couldRead' \in [Receivers -> BOOLEAN]
          /\ snapshots \in [Freezes -> Snapshot \cup {None}]
          /\ artifacts \in [Exports -> FileStates \cup {None}]
      BY <3>1 DEF TypeInv, TypeOK, Shape
    <3> QED BY <2>1, <3>1, <3>3, <3>4, <3>5, <3>6, <3>7, FrameTyped, Kinds DEF Goal
  <2> QED BY <2>2, <2>3
<1>11. GetSnapshot(c) => Goal
  BY <1>1, <1>2 DEF GetSnapshot
<1>12. Produce(c) => Goal
  <2>1. ASSUME c \in Exports, Proceed(c, "render") PROVE Goal
    BY <2>1, ProceedTyped, Kinds DEF Goal, Labels, ExportLabels
  <2> QED BY <1>1, <2>1, LabelKinds DEF Produce, At
<1>13. Render(c) => Goal
  <2>1. ASSUME c \in Exports, NEW file \in FileStates, Build(c, "prepare", file) PROVE Goal
    BY <2>1, BuildTyped, Kinds DEF Goal, Labels, ExportLabels
  <2> QED BY <1>1, <2>1, LabelKinds DEF Render, At, FileStates
<1>14. PrepareBasis(c) => Goal
  <2> SUFFICES ASSUME pc[c] = "prepare", c \in Exports, Goto(c, "record"),
                      ExportBasis(c).source = SnapshotOf(c).source,
                      proof' = [proof EXCEPT ![c] = ExportBasis(c)],
                      UNCHANGED <<worldVars, rowVars, asked, reply, answer, gated, made, couldRead>>
               PROVE  CallFrame(c) /\ TypeInv'
    BY <1>1, LabelKinds DEF PrepareBasis, At, Goal
  <2>1. CallFrame(c)
    BY DEF CallFrame, Goto, rowVars, TypeInv, TypeOK
  <2>2. ExportBasis(c) \in Basis
    BY ProjectTyped DEF ExportBasis, Basis, TypeInv, TypeOK
  <2>3. proof' \in [Calls -> Basis \cup {None}]
    BY <2>2 DEF TypeInv, TypeOK
  <2>4. pc' \in [Calls -> Labels] /\ pc'[c] = "record" /\ "record" \in ExportLabels
    BY DEF Goto, TypeInv, TypeOK, Labels, ExportLabels
  <2>5. made[c] \in FileStates /\ made' = made
    BY DEF TypeInv, TypeOK
  <2>6. /\ reply' \in [Calls -> Replies] /\ gated' \in [Calls -> Basis \cup {None}]
        /\ answer' \in [Calls -> Keyed \cup {None}] /\ made' = [d \in Calls |-> made'[d]]
        /\ couldRead' \in [Receivers -> BOOLEAN]
        /\ snapshots' \in [Freezes -> Snapshot \cup {None}]
        /\ artifacts' \in [Exports -> FileStates \cup {None}]
    BY DEF rowVars, TypeInv, TypeOK, Shape
  <2> QED BY <2>1, <2>3, <2>4, <2>5, <2>6, FrameTyped, Kinds
<1>15. ASSUME c \in Exports, artifacts[c] = None, made[c] \in FileStates, StoreExport(c)
       PROVE  Goal
  <2>1. /\ artifacts' = [artifacts EXCEPT ![c] = made[c]]
        /\ answer' = [answer EXCEPT ![c] = c]
        /\ pc' = [pc EXCEPT ![c] = "confirm"]
        /\ UNCHANGED <<worldVars, snapshots, asked, reply, gated, made, proof, couldRead>>
    BY <1>15 DEF StoreExport, Goto, localVars
  <2>2. CallFrame(c)
    BY <1>15, <2>1 DEF CallFrame, TypeInv, TypeOK
  <2>3. artifacts' \in [Exports -> FileStates \cup {None}]
    BY <1>15, <2>1 DEF TypeInv, TypeOK
  <2>4. "confirm" \in Labels /\ "confirm" \in ExportLabels
    BY DEF Labels, ExportLabels
  <2>5. /\ pc' \in [Calls -> Labels] /\ pc'[c] = "confirm"
        /\ answer' \in [Calls -> Keyed \cup {None}]
    BY <1>15, <2>1, <2>4 DEF TypeInv, TypeOK, Keyed
  <2>6. /\ reply' \in [Calls -> Replies] /\ gated' \in [Calls -> Basis \cup {None}]
        /\ proof' \in [Calls -> Basis \cup {None}] /\ made' = [d \in Calls |-> made'[d]]
        /\ couldRead' \in [Receivers -> BOOLEAN]
        /\ snapshots' \in [Freezes -> Snapshot \cup {None}]
    BY <2>1 DEF TypeInv, TypeOK, Shape
  <2> QED BY <1>15, <2>2, <2>3, <2>4, <2>5, <2>6, FrameTyped, Kinds DEF Goal
<1>16. ASSUME c \in Exports, artifacts[c] = None, made[c] \in FileStates, Proceed(c, "commit") PROVE Goal
  <2>1. CallFrame(c)
    BY <1>16 DEF Proceed, Goto, CallFrame, rowVars, localVars, TypeInv, TypeOK
  <2>2. /\ pc' \in [Calls -> Labels] /\ pc'[c] = "commit" /\ "commit" \in ExportLabels
    BY <1>16 DEF Proceed, Goto, TypeInv, TypeOK, Labels, ExportLabels
  <2>3. UNCHANGED <<snapshots, artifacts, reply, answer, gated, made, proof, couldRead>>
    BY <1>16 DEF Proceed, rowVars, localVars
  <2>4. /\ reply' \in [Calls -> Replies] /\ gated' \in [Calls -> Basis \cup {None}]
        /\ answer' \in [Calls -> Keyed \cup {None}] /\ made' = [d \in Calls |-> made'[d]]
        /\ proof' \in [Calls -> Basis \cup {None}] /\ couldRead' \in [Receivers -> BOOLEAN]
        /\ snapshots' \in [Freezes -> Snapshot \cup {None}]
        /\ artifacts' \in [Exports -> FileStates \cup {None}]
    BY <2>3 DEF TypeInv, TypeOK, Shape
  <2> QED BY <1>16, <2>1, <2>2, <2>3, <2>4, FrameTyped, Kinds DEF Goal
<1>17. RecordExport(c) => Goal
  <2> SUFFICES ASSUME RecordExport(c) PROVE Goal
    OBVIOUS
  <2>1. c \in Exports /\ pc[c] = "record" /\ made[c] \in FileStates
    BY DEF RecordExport, At, TypeInv, TypeOK
  <2>2. CASE LoseInsert(c, "confirm")
    <3>1. PICK d \in Keyed : Replay(c, d, "confirm")
      BY <2>2 DEF LoseInsert, Recorded
    <3> QED BY <2>1, <3>1, ReplayTyped, Kinds DEF Keyed, Goal
  <2>3. CASE Refuse(c, "moved")
    BY <1>1, <2>3
  <2>4. CASE Recorded(c) = {} /\ (StoreExport(c) \/ Proceed(c, "commit"))
    <3>1. artifacts[c] = None
      BY <2>1, <2>4, Kinds DEF Recorded, Stored, Keyed
    <3> QED BY <1>15, <1>16, <2>1, <2>4, <3>1
  <2> QED BY <2>2, <2>3, <2>4 DEF RecordExport
<1>18. CommitExport(c) => Goal
  <2> SUFFICES ASSUME CommitExport(c) PROVE Goal
    OBVIOUS
  <2>1. c \in Exports /\ artifacts[c] = None /\ made[c] \in FileStates
    BY LabelKinds DEF CommitExport, At, TypeInv, TypeOK, Shape
  <2> QED BY <1>15, <2>1 DEF CommitExport
<1>19. ConfirmExport(c) => Goal
  BY <1>1, <1>2 DEF ConfirmExport
<1>20. OpenArtifact(c) => Goal
  <2>1. ASSUME c \in Downloads, Proceed(c, "send") PROVE Goal
    BY <2>1, ProceedTyped, Kinds DEF Goal, Labels, DownloadLabels
  <2> QED BY <1>1, <2>1, LabelKinds DEF OpenArtifact, At
<1>21. SendArtifact(c) => Goal
  BY <1>1, <1>2 DEF SendArtifact
<1>22. Fail(c) => Goal
  BY <1>1 DEF Fail
<1>23. Goal
  BY <1>3, <1>4, <1>5, <1>6, <1>7, <1>8, <1>9, <1>10, <1>11, <1>12, <1>13, <1>14,
     <1>17, <1>18, <1>19, <1>20, <1>21, <1>22 DEF CallStep
<1> QED BY <1>23 DEF Goal

\* What other people do leaves the rows and the calls alone.
EnvironmentFrame ==
    /\ UNCHANGED <<snapshots, artifacts, asked, pc, reply, answer, gated, made, proof>>
    /\ project.version <= project'.version
    /\ \A d \in Receivers : /\ couldRead[d] => couldRead'[d]
                            /\ UserOf[d] \in access' /\ UserOf[d] \notin access => couldRead'[d]

\* Every step of the environment is such a step, and ends in a well-typed state.
LEMMA EnvironmentTyped ==
    ASSUME TypeInv, Environment
    PROVE  EnvironmentFrame /\ TypeInv'
<1>1. /\ project.version \in Nat /\ source \in Nat /\ changes \in Nat
      /\ project \in [version : Nat, stable : BOOLEAN, verdict : Verdicts,
                      disposition : {"none", "dismiss", "resolve"}, quotes : BOOLEAN]
      /\ couldRead \in [Receivers -> BOOLEAN]
  BY DEF TypeInv, TypeOK, Shape
<1>2. ASSUME project' \in [version : Nat, stable : BOOLEAN, verdict : Verdicts,
                           disposition : {"none", "dismiss", "resolve"}, quotes : BOOLEAN],
             members' \subseteq Users, owner' \in Users, paused' \in BOOLEAN,
             access' \subseteq Users, source' \in Nat,
             couldRead' \in [Receivers -> BOOLEAN], Change
      PROVE  TypeInv'
  <2>1. UNCHANGED <<snapshots, artifacts, asked, pc, reply, answer, gated, made, proof>>
    BY <1>2 DEF Change, rowVars, localVars
  <2>2. changes' \in Nat
    BY <1>1, <1>2 DEF Change
  <2>3. TypeOK'
    BY <1>2, <2>1, <2>2 DEF TypeInv, TypeOK
  <2>4. Shape'
    BY <1>2, <2>1 DEF TypeInv, Shape
  <2> QED BY <2>3, <2>4 DEF TypeInv
<1>3. ASSUME Change, project.version <= project'.version,
             \A d \in Receivers : /\ couldRead[d] => couldRead'[d]
                                  /\ UserOf[d] \in access' /\ UserOf[d] \notin access => couldRead'[d]
      PROVE  EnvironmentFrame
  BY <1>3 DEF Change, rowVars, localVars, EnvironmentFrame
<1>4. members \subseteq Users /\ owner \in Users /\ paused \in BOOLEAN /\ access \subseteq Users
  BY DEF TypeInv, TypeOK
<1>5. ASSUME NEW stable \in BOOLEAN, NEW quotes \in BOOLEAN, NEW verdict \in Verdicts,
             MoveProject(stable, verdict, quotes)
      PROVE  EnvironmentFrame /\ TypeInv'
  <2>1. /\ project' \in [version : Nat, stable : BOOLEAN, verdict : Verdicts,
                         disposition : {"none", "dismiss", "resolve"}, quotes : BOOLEAN]
        /\ project.version <= project'.version
    BY <1>1, <1>5 DEF MoveProject
  <2> QED BY <1>1, <1>2, <1>3, <1>4, <1>5, <2>1 DEF MoveProject
<1>6. CASE MoveGate
  <2>1. /\ project' \in [version : Nat, stable : BOOLEAN, verdict : Verdicts,
                         disposition : {"none", "dismiss", "resolve"}, quotes : BOOLEAN]
        /\ project.version <= project'.version
    <3>1. PICK stable \in BOOLEAN : project' = [project EXCEPT !.stable = stable]
      BY <1>6 DEF MoveGate
    <3> QED BY <1>1, <3>1
  <2> QED BY <1>1, <1>2, <1>3, <1>4, <1>6, <2>1 DEF MoveGate
<1>7. ASSUME NEW action \in {"dismiss", "resolve"}, SetIssueDisposition(action)
      PROVE  EnvironmentFrame /\ TypeInv'
  <2>1. /\ project' \in [version : Nat, stable : BOOLEAN, verdict : Verdicts,
                         disposition : {"none", "dismiss", "resolve"}, quotes : BOOLEAN]
        /\ project.version <= project'.version
    <3>1. project' = [project EXCEPT !.disposition = action]
      BY <1>7 DEF SetIssueDisposition
    <3> QED BY <1>1, <3>1
  <2> QED BY <1>1, <1>2, <1>3, <1>4, <1>7, <2>1 DEF SetIssueDisposition
<1>8. ASSUME NEW u \in Users, ChangeMember(u) PROVE EnvironmentFrame /\ TypeInv'
  BY <1>1, <1>2, <1>3, <1>4, <1>8 DEF ChangeMember
<1>9. ASSUME NEW u \in Users, TransferOwner(u) PROVE EnvironmentFrame /\ TypeInv'
  BY <1>1, <1>2, <1>3, <1>4, <1>9 DEF TransferOwner
<1>10. ASSUME NEW u \in Users, ChangeAccess(u) PROVE EnvironmentFrame /\ TypeInv'
  <2>1. couldRead' \in [Receivers -> BOOLEAN] /\ access' \subseteq Users
    BY <1>1, <1>4, <1>10 DEF ChangeAccess
  <2>2. \A d \in Receivers : /\ couldRead[d] => couldRead'[d]
                             /\ UserOf[d] \in access' /\ UserOf[d] \notin access => couldRead'[d]
    BY <1>10 DEF ChangeAccess
  <2> QED BY <1>1, <1>2, <1>3, <1>4, <1>10, <2>1, <2>2 DEF ChangeAccess
<1>11. CASE TogglePause
  BY <1>1, <1>2, <1>3, <1>4, <1>11 DEF TogglePause
<1>12. CASE ReviseSource
  BY <1>1, <1>2, <1>3, <1>4, <1>12 DEF ReviseSource
<1> QED BY <1>5, <1>6, <1>7, <1>8, <1>9, <1>10, <1>11, <1>12 DEF Environment

\* Calls run the steps of their operation in every reachable state.
LEMMA TypeInvHolds == Spec => []TypeInv
<1>1. Init => TypeInv
  <2> SUFFICES ASSUME Init PROVE TypeInv
    OBVIOUS
  <2>1. TypeOK
    <3>1. project \in [version : Nat, stable : BOOLEAN, verdict : Verdicts,
                      disposition : {"none", "dismiss", "resolve"}, quotes : BOOLEAN]
      <4>1. 1 \in Nat /\ TRUE \in BOOLEAN
        OBVIOUS
      <4> QED BY <4>1, Zenon DEF Init
    <3>2. /\ members \subseteq Users /\ owner \in Users /\ paused \in BOOLEAN
          /\ access \subseteq Users /\ source \in Nat /\ changes \in Nat
      BY CallsAssumption DEF Init
    <3>3. /\ snapshots \in [Freezes -> Snapshot \cup {None}]
          /\ artifacts \in [Exports -> FileStates \cup {None}]
          /\ pc \in [Calls -> Labels] /\ reply \in [Calls -> Replies]
          /\ answer \in [Calls -> Keyed \cup {None}]
          /\ gated \in [Calls -> Basis \cup {None}] /\ proof \in [Calls -> Basis \cup {None}]
      BY DEF Init, Labels, Replies
    <3>4. \A c \in Calls : pc[c] = "idle"
      BY DEF Init
    <3> QED BY <3>1, <3>2, <3>3, <3>4, Kinds DEF TypeOK
  <2>2. \A c \in Calls : asked[c] \in (CASE c \in Freezes -> 1 .. MaxVersion
                                         [] c \in Exports -> Freezes
                                         [] OTHER         -> Exports)
    BY DEF Init
  <2>3. Shape
    BY <2>2, Kinds DEF Init, Shape, FreezeLabels, ExportLabels, DownloadLabels
  <2> QED BY <2>1, <2>3 DEF TypeInv
<1>2. TypeInv /\ [Next]_vars => TypeInv'
  <2> SUFFICES ASSUME TypeInv, [Next]_vars PROVE TypeInv'
    OBVIOUS
  <2>1. CASE UNCHANGED vars
    BY <2>1 DEF vars, worldVars, rowVars, localVars, TypeInv, TypeOK, Shape
  <2> QED BY <2>1, CallTyped, EnvironmentTyped DEF Next
<1> QED BY <1>1, <1>2, PTL DEF Spec

\* The type invariant of freezing, exporting and downloading: rows and calls hold
\* values of their columns' vocabulary, and a call builds what its operation builds.
THEOREM TypeCorrect == Spec => []TypeOK
<1>1. TypeInv => TypeOK
  BY DEF TypeInv
<1> QED BY <1>1, TypeInvHolds, PTL

-----------------------------------------------------------------------------
(* History: rows stay, the project version grows, requests stay *)

History ==
    /\ asked' = asked
    /\ project.version <= project'.version
    /\ \A f \in Freezes : snapshots[f] # None => snapshots'[f] = snapshots[f]
    /\ \A e \in Exports : artifacts[e] # None => artifacts'[e] = artifacts[e]

\* The snapshot of a call, by its kind.
LEMMA SnapshotOfKind ==
    /\ \A c \in Freezes : SnapshotOf(c) = snapshots[answer[c]]
    /\ \A c \in Exports : SnapshotOf(c) = snapshots[asked[c]]
    /\ \A c \in Downloads : SnapshotOf(c) = snapshots[asked[asked[c]]]
BY Kinds DEF SnapshotOf

\* The same in the next state.
LEMMA SnapshotOfKindNext ==
    /\ \A c \in Freezes : SnapshotOf(c)' = snapshots'[answer'[c]]
    /\ \A c \in Exports : SnapshotOf(c)' = snapshots'[asked'[c]]
    /\ \A c \in Downloads : SnapshotOf(c)' = snapshots'[asked'[asked'[c]]]
BY Kinds DEF SnapshotOf

\* What a client was shown it may go on naming.
LEMMA KnownGrows ==
    ASSUME TypeInv, TypeInv', History, NEW c \in Calls, Known(c)
    PROVE  Known(c)'
<1>1. CASE c \in Freezes
  BY <1>1, Kinds DEF Known
<1>2. CASE c \in Exports
  BY <1>2, Kinds DEF Known, History, TypeInv, Shape
<1>3. CASE c \in Downloads
  BY <1>3, Kinds DEF Known, History, TypeInv, Shape
<1> QED BY <1>1, <1>2, <1>3, Kinds

\* The row a call answers with is of the call's kind, and there.
LEMMA AnswerRow ==
    ASSUME TypeInv, NEW c \in Keyed, answer[c] # None, AnsweredWithRow(c)
    PROVE  /\ answer[c] \in Keyed /\ Stored(answer[c])
           /\ c \in Freezes => answer[c] \in Freezes /\ snapshots[answer[c]] # None
<1>1. answer[c] \in Keyed
  BY Kinds DEF TypeInv, TypeOK
<1>2. ActionOf(answer[c]) = ActionOf(c) /\ Stored(answer[c])
  BY DEF AnsweredWithRow
<1>3. KindOf(answer[c]) = KindOf(c)
  BY <1>2 DEF ActionOf
<1>4. c \in Freezes => answer[c] \in Freezes
  BY <1>3 DEF KindOf
<1> QED BY <1>1, <1>2, <1>4 DEF Stored

\* A call that has begun has its snapshot.
LEMMA SnapshotThere ==
    ASSUME IInv, NEW c \in Calls, pc[c] # "idle"
    PROVE  /\ c \in Exports => snapshots[asked[c]] # None /\ snapshots[asked[c]] \in Snapshot
           /\ c \in Downloads => /\ asked[asked[c]] \in Freezes
                                 /\ snapshots[asked[asked[c]]] # None
<1>1. Known(c)
  BY DEF IInv, CallInv, KnownStays
<1>2. CASE c \in Exports
  BY <1>1, <1>2, Kinds DEF Known, IInv, TypeInv, TypeOK, Shape
<1>3. CASE c \in Downloads
  <2>1. asked[c] \in Exports /\ artifacts[asked[c]] # None
    BY <1>1, <1>3, Kinds DEF Known, IInv, TypeInv, Shape
  <2>2. RowRecorded(asked[c]) /\ asked[asked[c]] \in Freezes
    BY <2>1, Kinds DEF IInv, CallInv, TypeInv, Shape
  <2>3. Stored(asked[c])
    BY <2>1, Kinds DEF Stored
  <2>4. snapshots[asked[asked[c]]] # None
    BY <2>1, <2>2, <2>3 DEF RowRecorded
  <2> QED BY <1>3, <2>2, <2>4, Kinds
<1> QED BY <1>2, <1>3

\* The snapshot a call works on or returns stays the same.
LEMMA SnapshotStays ==
    ASSUME IInv, TypeInv', History, NEW c \in Calls, pc[c] # "idle"
    PROVE  /\ c \in Exports => /\ SnapshotOf(c)' = SnapshotOf(c)
                               /\ snapshots'[asked'[c]] = snapshots[asked[c]]
           /\ c \in Downloads => SnapshotOf(c)' = SnapshotOf(c)
           /\ c \in Freezes /\ answer[c] # None /\ answer'[c] = answer[c] =>
                 SnapshotOf(c)' = SnapshotOf(c)
<1>1. CASE c \in Exports
  <2>1. asked[c] \in Freezes /\ snapshots[asked[c]] # None
    BY <1>1, SnapshotThere DEF IInv, TypeInv, Shape
  <2>2. snapshots'[asked'[c]] = snapshots[asked[c]]
    BY <2>1 DEF History
  <2> QED BY <1>1, <2>2, SnapshotOfKind, SnapshotOfKindNext, Kinds
<1>2. CASE c \in Downloads
  <2>1. asked[asked[c]] \in Freezes /\ snapshots[asked[asked[c]]] # None
    BY <1>2, SnapshotThere
  <2>2. snapshots'[asked'[asked'[c]]] = snapshots[asked[asked[c]]]
    BY <2>1 DEF History
  <2> QED BY <1>2, <2>2, SnapshotOfKind, SnapshotOfKindNext, Kinds
<1>3. CASE c \in Freezes /\ answer[c] # None /\ answer'[c] = answer[c]
  <2>1. answer[c] \in Freezes /\ snapshots[answer[c]] # None
    BY <1>3, AnswerRow DEF IInv, CallInv, Keyed, Calls
  <2>2. snapshots'[answer'[c]] = snapshots[answer[c]]
    BY <1>3, <2>1 DEF History
  <2> QED BY <1>3, <2>2, SnapshotOfKind, SnapshotOfKindNext, Kinds
<1> QED BY <1>1, <1>2, <1>3

-----------------------------------------------------------------------------
(* What a step keeps *)

\* The row of a call, if it records one, is the same in both states.
SameRow(c) ==
    /\ c \in Freezes => snapshots'[c] = snapshots[c]
    /\ c \in Exports => artifacts'[c] = artifacts[c]

\* A step that begins no call, records no row of this one, gives it no success and
\* gates it only at its gate, keeps most of what is known of it.
LEMMA Kept ==
    ASSUME IInv, TypeInv', History, NEW c \in Calls, SameRow(c),
           pc'[c] # "idle" => pc[c] # "idle",
           c \in Keyed /\ Stored(c) => pc'[c] \in {"get", "confirm", "done"},
           gated'[c] = gated[c] \/ pc[c] = "gate",
           reply'[c] = "ok" => reply[c] = "ok" /\ answer'[c] = answer[c],
           c \in Receivers => (couldRead[c] => couldRead'[c])
    PROVE  /\ KnownStays(c)' /\ RowRecorded(c)' /\ RowAsGated(c)' /\ ContentRead(c)'
<1>1. KnownStays(c)'
  BY KnownGrows DEF IInv, CallInv, KnownStays
<1>2. c \in Keyed => (Stored(c)' <=> Stored(c))
  BY Kinds DEF SameRow, Stored
<1>3. RowRecorded(c) /\ RowAsGated(c) /\ AnswerInOrder(c) /\ ContentRead(c)
  BY DEF IInv, CallInv
<1>4. RowRecorded(c)'
  <2>1. CASE c \in Freezes
    <3>1. Stored(c) => snapshots[c] \in Snapshot /\ snapshots'[c] = snapshots[c]
      BY <2>1 DEF SameRow, Stored, IInv, TypeInv, TypeOK
    <3>2. Stored(c) => snapshots[c].version \in Nat
      BY <3>1 DEF Snapshot
    <3>3. project.version \in Nat /\ project'.version \in Nat
      BY DEF IInv, TypeInv, TypeOK
    <3> QED
      BY <1>2, <1>3, <2>1, <3>1, <3>2, <3>3, Kinds DEF RowRecorded, History, Keyed
  <2>2. CASE c \in Exports
    <3>1. asked[c] \in Freezes
      BY <2>2 DEF IInv, TypeInv, Shape
    <3> QED BY <1>2, <1>3, <2>2, <3>1, Kinds DEF RowRecorded, History, Keyed
  <2>3. CASE c \in Downloads
    BY <2>3, Kinds DEF RowRecorded, Keyed
  <2> QED BY <2>1, <2>2, <2>3, Kinds
<1>5. RowAsGated(c)'
  <2>1. c \in Keyed /\ Stored(c) => gated'[c] = gated[c]
    BY <1>3 DEF RowRecorded
  <2>2. CASE c \in Freezes
    BY <1>2, <1>3, <2>1, <2>2, Kinds DEF RowAsGated, SameRow, Keyed, History
  <2>3. CASE c \in Exports
    <3> SUFFICES ASSUME artifacts'[c] = "verified"
                 PROVE  (/\ snapshots[asked[c]].version = gated[c].version
                         /\ snapshots[asked[c]].check = "passed")'
      BY <2>3, Kinds DEF RowAsGated
    <3>1. artifacts[c] = "verified" /\ Stored(c)
      BY <2>3, CallsAssumption, Kinds DEF SameRow, Stored, FileStates
    <3>2. asked[c] \in Freezes /\ snapshots[asked[c]] # None
      BY <1>3, <2>3, <3>1 DEF RowRecorded, IInv, TypeInv, Shape
    <3>3. snapshots'[asked'[c]] = snapshots[asked[c]]
      BY <3>2 DEF History
    <3> QED BY <1>3, <2>1, <2>3, <3>1, <3>3 DEF RowAsGated, Keyed
  <2>4. CASE c \in Downloads
    BY <2>4, Kinds DEF RowAsGated
  <2> QED BY <2>2, <2>3, <2>4, Kinds
<1>6. ContentRead(c)'
  <2> SUFFICES ASSUME c \in Receivers, reply'[c] = "ok", SnapshotOf(c)'.source # 0
               PROVE  couldRead'[c]
    BY DEF ContentRead
  <2>1. reply[c] = "ok" /\ answer'[c] = answer[c]
    OBVIOUS
  <2>2. pc[c] = "done" /\ (c \in Freezes => answer[c] # None)
    BY <1>3, <2>1 DEF AnswerInOrder
  <2>3. SnapshotOf(c)' = SnapshotOf(c)
    BY <2>1, <2>2, SnapshotStays, Kinds DEF Receivers
  <2> QED BY <1>3, <2>1, <2>3 DEF ContentRead
<1> QED BY <1>1, <1>4, <1>5, <1>5, <1>6

\* A call keeps the row it answers with.
LEMMA AnswerKept ==
    ASSUME IInv, History, NEW c \in Calls, answer'[c] \in {answer[c], None}
    PROVE  AnsweredWithRow(c)'
<1> SUFFICES ASSUME c \in Keyed, answer'[c] # None
             PROVE  (Stored(answer[c]) /\ ActionOf(answer[c]) = ActionOf(c)
                     /\ SameRequest(answer[c], c))'
  BY DEF AnsweredWithRow
<1>1. answer'[c] = answer[c] /\ answer[c] # None
  OBVIOUS
<1>2. /\ answer[c] \in Keyed /\ Stored(answer[c])
      /\ ActionOf(answer[c]) = ActionOf(c) /\ asked[answer[c]] = asked[c]
  BY <1>1, AnswerRow DEF IInv, CallInv, AnsweredWithRow, SameRequest
<1>3. Stored(answer[c])'
  BY <1>1, <1>2, Kinds DEF History, Stored
<1>4. ActionOf(answer'[c]) = ActionOf(c)
  BY <1>1, <1>2
<1> QED BY <1>1, <1>2, <1>3, <1>4 DEF SameRequest, History, ActionOf, KindOf

\* The gate's judgement stays in order as the project moves on.
LEMMA GatedKept ==
    ASSUME IInv, TypeInv', History, NEW c \in Calls, gated'[c] = gated[c],
           pc'[c] \notin {"idle", "admit", "gate", "done"} =>
               pc[c] \notin {"idle", "admit", "gate", "done"}
    PROVE  GatedInOrder(c)'
<1> SUFFICES ASSUME pc'[c] \notin {"idle", "admit", "gate", "done"}
             PROVE  (/\ gated[c] \in Basis
                     /\ gated[c].version <= project.version
                     /\ c \in Exports => snapshots[asked[c]].version <= gated[c].version)'
  BY DEF GatedInOrder
<1>1. /\ gated[c] \in Basis
      /\ gated[c].version <= project.version
      /\ c \in Exports => snapshots[asked[c]].version <= gated[c].version
  BY DEF IInv, CallInv, GatedInOrder
<1>2. gated[c].version \in Nat /\ project.version \in Nat /\ project'.version \in Nat
  BY <1>1 DEF Basis, IInv, TypeInv, TypeOK
<1>3. c \in Exports => snapshots'[asked'[c]] = snapshots[asked[c]]
  BY SnapshotStays
<1> QED BY <1>1, <1>2, <1>3 DEF History

\* A call whose locals and row a step leaves alone stays as it is.
LEMMA UntouchedCall ==
    ASSUME IInv, TypeInv', History, NEW c \in Calls, SameRow(c),
           pc'[c] = pc[c], reply'[c] = reply[c], answer'[c] = answer[c],
           gated'[c] = gated[c], made'[c] = made[c], proof'[c] = proof[c],
           c \in Receivers => /\ couldRead[c] => couldRead'[c]
                              /\ UserOf[c] \in access' /\ UserOf[c] \notin access => couldRead'[c]
    PROVE  CallInv(c)'
<1>1. CallInv(c)
  BY DEF IInv
<1>2. c \in Keyed /\ Stored(c) => pc'[c] \in {"get", "confirm", "done"}
  BY <1>1 DEF CallInv, RowRecorded
<1>3. /\ KnownStays(c)' /\ RowRecorded(c)' /\ AnsweredWithRow(c)'
      /\ RowAsGated(c)' /\ ContentRead(c)'
  BY <1>2, Kept, AnswerKept
<1>4. GatedInOrder(c)'
  BY GatedKept
<1>5. AnswerInOrder(c)' /\ BuiltAsGated(c)'
  <2>1. AnswerInOrder(c)'
    BY <1>1 DEF CallInv, AnswerInOrder
  <2>2. c \in Freezes => asked[c] \in Nat
    BY CallsAssumption DEF IInv, TypeInv, Shape
  <2>3. project.version \in Nat /\ project'.version \in Nat
    BY DEF IInv, TypeInv, TypeOK
  <2>4. BuiltAsGated(c)'
    BY <1>1, <2>2, <2>3 DEF CallInv, BuiltAsGated, History
  <2> QED BY <2>1, <2>4
<1>6. ExportAsGated(c)'
  <2>1. c \in Exports /\ pc[c] # "idle" => snapshots'[asked'[c]] = snapshots[asked[c]]
    BY SnapshotStays
  <2> QED BY <1>1, <2>1 DEF CallInv, ExportAsGated
<1>7. ReaderNoted(c)'
  <2>1. c \in Downloads /\ pc[c] = "send" => SnapshotOf(c)' = SnapshotOf(c)
    BY SnapshotStays
  <2>2. ReaderNoted(c) /\ (c \in Downloads => c \in Receivers)
    BY <1>1 DEF CallInv, Receivers
  <2> QED BY <2>1, <2>2 DEF ReaderNoted
<1> QED BY <1>3, <1>4, <1>5, <1>6, <1>7 DEF CallInv

\* The frame of a call's step keeps the history and every other call.
LEMMA OthersKept ==
    ASSUME IInv, TypeInv', NEW c \in Calls, CallFrame(c)
    PROVE  History /\ \A d \in Calls \ {c} : CallInv(d)'
<1>1. project' = project /\ access' = access /\ project.version \in Nat
  BY DEF CallFrame, worldVars, IInv, TypeInv, TypeOK
<1>2. History
  BY <1>1 DEF CallFrame, History
<1>3. ASSUME NEW d \in Calls \ {c} PROVE CallInv(d)'
  <2>1. SameRow(d)
    BY DEF CallFrame, SameRow
  <2>2. d \in Receivers => couldRead'[d] = couldRead[d]
    BY DEF CallFrame
  <2> QED BY <1>1, <1>2, <2>1, <2>2, UntouchedCall DEF CallFrame
<1> QED BY <1>2, <1>3

\* Rows stay unique when a step inserts none.
LEMMA UniqueKept ==
    ASSUME IInv, \A d \in Calls : SameRow(d) /\ (pc'[d] = "commit" => pc[d] = "commit")
    PROVE  UniqueRows'
<1>1. \A d \in Keyed : Claimed(d)' => Claimed(d)
  BY Kinds DEF SameRow, Stored, Claimed
<1> QED BY <1>1 DEF IInv, UniqueRows, ActionOf, KindOf

\* A step in the frame of a call that is not about to commit inserts no other row.
LEMMA NoInsert ==
    ASSUME NEW c \in Calls, CallFrame(c), pc'[c] # "commit"
    PROVE  \A d \in Calls : pc'[d] = "commit" => pc[d] = "commit"
BY DEF CallFrame

\* A step in the frame of a call keeps the invariant if it keeps it for that call.
LEMMA FrameKeeps ==
    ASSUME IInv, TypeInv', NEW c \in Calls, CallFrame(c), CallInv(c)', UniqueRows'
    PROVE  IInv'
BY OthersKept DEF IInv

\* What other people do keeps the invariant.
LEMMA EnvironmentKeeps ==
    ASSUME IInv, Environment
    PROVE  IInv'
<1>1. EnvironmentFrame /\ TypeInv'
  BY EnvironmentTyped DEF IInv
<1>2. History
  BY <1>1 DEF EnvironmentFrame, History
<1>3. \A d \in Calls : SameRow(d)
  BY <1>1 DEF EnvironmentFrame, SameRow
<1>4. ASSUME NEW d \in Calls PROVE CallInv(d)'
  BY <1>1, <1>2, <1>3, UntouchedCall DEF EnvironmentFrame
<1>5. \A d \in Calls : pc'[d] = "commit" => pc[d] = "commit"
  BY <1>1 DEF EnvironmentFrame
<1> QED BY <1>1, <1>3, <1>4, <1>5, UniqueKept DEF IInv

-----------------------------------------------------------------------------
(* The steps of a call keep the invariant *)

\* Whatever a step does to a call, its readers stay noted: access is not its own to
\* change.
LEMMA ReadersKept ==
    ASSUME IInv, NEW c \in Calls, CallFrame(c), pc[c] # "idle", pc[c] # "done",
           pc'[c] = "send" => c \in Downloads /\ (SnapshotOf(c)'.source # 0 => couldRead'[c])
    PROVE  ReaderNoted(c)'
<1>1. ReaderNoted(c) /\ access' = access
  BY DEF IInv, CallInv, CallFrame, worldVars
<1>2. c \in Receivers => (couldRead[c] => couldRead'[c])
  BY DEF CallFrame
<1> QED BY <1>1, <1>2 DEF ReaderNoted

\* A refusal keeps the invariant.
LEMMA RefuseKeeps ==
    ASSUME IInv, TypeInv', NEW c \in Calls, CallFrame(c), NEW why \in {"moved", "refused"},
           Refuse(c, why), pc[c] \notin {"idle", "done"}
    PROVE  IInv'
<1>1. History
  BY OthersKept
<1>2. /\ pc'[c] = "done" /\ reply'[c] = why /\ answer'[c] = None
      /\ UNCHANGED <<snapshots, artifacts, gated, couldRead>>
  BY DEF Refuse, Return, Goto, rowVars, IInv, TypeInv, TypeOK
<1>3. \A d \in Calls : SameRow(d)
  BY <1>2 DEF SameRow
<1>4. /\ KnownStays(c)' /\ RowRecorded(c)' /\ AnsweredWithRow(c)'
      /\ RowAsGated(c)' /\ ContentRead(c)'
  BY <1>1, <1>2, <1>3, Kept, AnswerKept
<1>5. AnswerInOrder(c)' /\ GatedInOrder(c)' /\ BuiltAsGated(c)' /\ ExportAsGated(c)'
  BY <1>2 DEF AnswerInOrder, GatedInOrder, BuiltAsGated, ExportAsGated
<1>6. ReaderNoted(c)'
  BY <1>2, ReadersKept
<1> QED BY <1>2, <1>3, <1>4, <1>5, <1>6, FrameKeeps, UniqueKept, NoInsert DEF CallInv

\* A success keeps the invariant, if its content was read.
LEMMA SucceedKeeps ==
    ASSUME IInv, TypeInv', NEW c \in Calls, CallFrame(c), Succeed(c),
           pc[c] \notin {"idle", "done"},
           c \in Freezes => pc[c] = "get",
           c \in Receivers /\ SnapshotOf(c).source # 0 => couldRead[c]
    PROVE  IInv'
<1>1. History
  BY OthersKept
<1>2. /\ pc'[c] = "done" /\ reply'[c] = "ok" /\ answer'[c] = answer[c]
      /\ UNCHANGED <<snapshots, artifacts, gated, couldRead>>
  BY DEF Succeed, Return, Goto, rowVars, IInv, TypeInv, TypeOK
<1>3. \A d \in Calls : SameRow(d)
  BY <1>2 DEF SameRow
<1>4. CallInv(c)
  BY DEF IInv
<1>5. c \in Freezes => answer[c] # None
  BY <1>4 DEF CallInv, AnswerInOrder
<1>6. ContentRead(c)'
  <2>1. c \in Receivers => SnapshotOf(c)' = SnapshotOf(c)
    BY <1>1, <1>2, <1>5, SnapshotStays, Kinds DEF Receivers
  <2> QED BY <1>2, <2>1 DEF ContentRead
<1>7. KnownStays(c)' /\ RowRecorded(c)' /\ RowAsGated(c)'
  <2>1. KnownStays(c)'
    BY <1>1, <1>4, KnownGrows DEF IInv, CallInv, KnownStays
  <2>2. UNCHANGED <<project, asked>> /\ \A d \in Keyed : Stored(d)' <=> Stored(d)
    BY <1>2 DEF CallFrame, worldVars, Stored
  <2>3. RowRecorded(c)'
    BY <1>2, <1>4, <2>2, Kinds DEF CallInv, RowRecorded, Keyed
  <2>4. RowAsGated(c)'
    BY <1>2, <1>4, <2>2, Kinds DEF CallInv, RowAsGated, Keyed
  <2> QED BY <2>1, <2>3, <2>4
<1>8. AnsweredWithRow(c)'
  BY <1>1, <1>2, AnswerKept
<1>9. AnswerInOrder(c)' /\ GatedInOrder(c)' /\ BuiltAsGated(c)' /\ ExportAsGated(c)'
  BY <1>2, <1>5 DEF AnswerInOrder, GatedInOrder, BuiltAsGated, ExportAsGated
<1>10. ReaderNoted(c)'
  BY <1>2, ReadersKept
<1> QED
  BY <1>2, <1>3, <1>6, <1>7, <1>8, <1>9, <1>10, FrameKeeps, UniqueKept, NoInsert DEF CallInv

\* A call that has not recorded yet has no row and no answer.
LEMMA NotYetRecorded ==
    ASSUME IInv, NEW c \in Calls, pc[c] \notin {"get", "confirm", "done"}
    PROVE  /\ c \in Keyed => ~Stored(c)
           /\ answer[c] = None /\ reply[c] = "none"
BY DEF IInv, CallInv, RowRecorded, AnswerInOrder

\* A step that moves a call on before its record keeps the invariant, if it keeps
\* what the gate, the builder and the renderer established.
LEMMA MoveKeeps ==
    ASSUME IInv, TypeInv', NEW c \in Calls, CallFrame(c), UNCHANGED <<snapshots, artifacts>>,
           pc[c] \notin {"idle", "get", "confirm", "done"},
           pc'[c] \notin {"idle", "commit", "get", "confirm", "done"},
           reply'[c] = reply[c], answer'[c] = answer[c],
           gated'[c] = gated[c] \/ pc[c] = "gate",
           GatedInOrder(c)', BuiltAsGated(c)', ExportAsGated(c)',
           pc'[c] = "send" => c \in Downloads /\ (SnapshotOf(c)'.source # 0 => couldRead'[c])
    PROVE  IInv'
<1>1. History
  BY OthersKept
<1>2. \A d \in Calls : SameRow(d)
  BY DEF SameRow
<1>3. c \in Receivers => (couldRead[c] => couldRead'[c])
  BY DEF CallFrame
<1>4. KnownStays(c)' /\ RowRecorded(c)' /\ RowAsGated(c)' /\ ContentRead(c)'
  BY <1>1, <1>2, <1>3, Kept, NotYetRecorded
<1>5. AnsweredWithRow(c)'
  BY <1>1, AnswerKept
<1>6. AnswerInOrder(c)'
  BY NotYetRecorded DEF AnswerInOrder
<1>7. ReaderNoted(c)'
  BY ReadersKept
<1> QED BY <1>2, <1>4, <1>5, <1>6, <1>7, FrameKeeps, UniqueKept, NoInsert DEF CallInv

\* Beginning a call keeps the invariant: it names what it was shown, and whether its
\* caller may read the source is noted from now on.
LEMMA BeginKeeps ==
    ASSUME IInv, TypeInv', NEW c \in Calls, CallFrame(c), Begin(c)
    PROVE  IInv'
<1>1. History
  BY OthersKept
<1>2. /\ pc[c] = "idle" /\ pc'[c] = "admit" /\ Known(c)
      /\ UNCHANGED <<snapshots, artifacts, reply, answer, gated, made, proof, access>>
  BY DEF Begin, At, Goto, worldVars, rowVars, localVars, IInv, TypeInv, TypeOK
<1>3. \A d \in Calls : SameRow(d)
  BY <1>2 DEF SameRow
<1>4. /\ c \in Keyed => ~Stored(c)
      /\ answer[c] = None /\ reply[c] = "none"
  BY <1>2, NotYetRecorded
<1>5. KnownStays(c)'
  BY <1>1, <1>2, KnownGrows DEF IInv, KnownStays
<1>6. c \in Keyed => ~Stored(c)'
  BY <1>2, <1>4 DEF Stored
<1>7. RowRecorded(c)' /\ RowAsGated(c)'
  <2>1. c \in Exports => artifacts'[c] = None /\ None # "verified"
    BY <1>2, <1>4, CallsAssumption, Kinds DEF Stored, Keyed, FileStates
  <2> QED BY <1>6, <2>1 DEF RowRecorded, RowAsGated, Keyed
<1>8. /\ AnswerInOrder(c)' /\ AnsweredWithRow(c)' /\ GatedInOrder(c)' /\ BuiltAsGated(c)'
      /\ ExportAsGated(c)' /\ ContentRead(c)'
  BY <1>2, <1>4 DEF AnswerInOrder, AnsweredWithRow, GatedInOrder, BuiltAsGated,
     ExportAsGated, ContentRead
<1>9. ReaderNoted(c)'
  <2>1. c \in Receivers /\ UserOf[c] \in access => couldRead'[c]
    BY DEF Begin
  <2> QED BY <1>2, <2>1 DEF ReaderNoted
<1> QED BY <1>2, <1>3, <1>5, <1>7, <1>8, <1>9, FrameKeeps, UniqueKept, NoInsert DEF CallInv

\* A replay keeps the invariant: the row was recorded for the same request.
LEMMA ReplayKeeps ==
    ASSUME IInv, TypeInv', NEW c \in Keyed, CallFrame(c), NEW d \in Recorded(c), NEW label,
           label = IF c \in Freezes THEN "get" ELSE "confirm",
           pc[c] \in {"lookup", "record"}, Replay(c, d, label)
    PROVE  IInv'
<1>1. c \in Calls /\ d \in Keyed /\ Stored(d) /\ ActionOf(d) = ActionOf(c)
  BY Kinds DEF Recorded
<1>2. CASE Refuse(c, "refused")
  BY <1>1, <1>2, RefuseKeeps
<1>3. CASE SameRequest(c, d) /\ AnswerWith(c, d, label)
  <2>1. History
    BY <1>1, OthersKept
  <2>2. /\ pc'[c] = label /\ answer'[c] = d
        /\ UNCHANGED <<snapshots, artifacts, asked, reply, gated, couldRead>>
    BY <1>1, <1>3 DEF AnswerWith, Goto, rowVars, localVars, IInv, TypeInv, TypeOK
  <2>3. \A e \in Calls : SameRow(e)
    BY <2>2 DEF SameRow
  <2>4. reply[c] = "none" /\ ~Stored(c)
    BY <1>1, NotYetRecorded
  <2>5. KnownStays(c)' /\ RowRecorded(c)' /\ RowAsGated(c)' /\ ContentRead(c)'
    BY <1>1, <2>1, <2>2, <2>3, <2>4, Kept
  <2>6. d # None
    BY <1>1, CallsAssumption DEF Calls
  <2>7. AnswerInOrder(c)'
    BY <2>2, <2>4, <2>6 DEF AnswerInOrder
  <2>8. AnsweredWithRow(c)'
    <3>1. Stored(answer[c])'
      BY <1>1, <2>2 DEF Stored
    <3>2. ActionOf(answer'[c]) = ActionOf(c) /\ asked'[answer'[c]] = asked'[c]
      BY <1>1, <1>3, <2>2 DEF SameRequest
    <3> QED BY <3>1, <3>2 DEF AnsweredWithRow, SameRequest, ActionOf, KindOf
  <2>9. GatedInOrder(c)'
    BY <1>1, <2>1, <2>2, GatedKept
  <2>10. BuiltAsGated(c)' /\ ExportAsGated(c)'
    BY <2>2 DEF BuiltAsGated, ExportAsGated
  <2>11. ReaderNoted(c)'
    BY <1>1, <2>2, ReadersKept
  <2> QED
    BY <1>1, <2>2, <2>3, <2>5, <2>7, <2>8, <2>9, <2>10, <2>11, FrameKeeps, UniqueKept, NoInsert
       DEF CallInv
<1> QED BY <1>2, <1>3 DEF Replay

\* Passing the gate keeps the invariant: the version judged is the present one.
LEMMA GateReadKeeps ==
    ASSUME IInv, TypeInv', NEW c \in Calls, CallFrame(c), GateRead(c)
    PROVE  IInv'
<1>1. pc[c] = "gate" /\ c \in Calls
  BY DEF GateRead, At
<1>2. CASE \E why \in {"moved", "refused"} : Refuse(c, why)
  BY <1>1, <1>2, RefuseKeeps
<1>3. CASE ~\E why \in {"moved", "refused"} : Refuse(c, why)
  <2>1. /\ Goto(c, "recheck")
        /\ gated' = [gated EXCEPT ![c] = GateBasis]
        /\ UNCHANGED <<worldVars, rowVars, asked, reply, answer, made, proof, couldRead>>
    BY <1>3 DEF GateRead
  <2>2. /\ pc'[c] = "recheck" /\ gated'[c] = GateBasis
        /\ UNCHANGED <<project, snapshots, artifacts, asked, reply, answer>>
    BY <2>1 DEF Goto, worldVars, rowVars, IInv, TypeInv, TypeOK
  <2>3. /\ GateBasis \in Basis /\ GateBasis.version = project.version /\ project.version \in Nat
    BY ProjectTyped DEF IInv, TypeInv, GateBasis
  <2>4. ASSUME c \in Exports PROVE snapshots[asked[c]].version <= project.version
    <3>1. asked[c] \in Freezes /\ snapshots[asked[c]] # None
      BY <1>1, <2>4, SnapshotThere DEF IInv, TypeInv, Shape
    <3>2. RowRecorded(asked[c]) /\ Stored(asked[c])
      BY <3>1, Kinds DEF IInv, CallInv, Stored
    <3> QED BY <3>1, <3>2 DEF RowRecorded
  <2>7. GatedInOrder(c)'
    BY <2>2, <2>3, <2>4 DEF GatedInOrder
  <2>8. BuiltAsGated(c)' /\ ExportAsGated(c)'
    BY <2>2 DEF BuiltAsGated, ExportAsGated
  <2> QED BY <1>1, <2>2, <2>7, <2>8, MoveKeeps
<1> QED BY <1>2, <1>3

\* Moving on without building anything keeps the invariant.
LEMMA ProceedKeeps ==
    ASSUME IInv, TypeInv', NEW c \in Calls, CallFrame(c),
           NEW label \in {"gate", "lookup", "open", "assemble", "produce", "send"},
           Proceed(c, label),
           pc[c] \notin {"idle", "get", "confirm", "done"},
           label = "gate" \/ pc[c] \notin {"admit", "gate"},
           label = "send" => c \in Downloads /\ (SnapshotOf(c).source # 0 => couldRead[c])
    PROVE  IInv'
<1>1. History
  BY OthersKept
<1>2. /\ pc'[c] = label
      /\ UNCHANGED <<snapshots, artifacts, reply, answer, gated, couldRead>>
  BY DEF Proceed, Goto, rowVars, localVars, IInv, TypeInv, TypeOK
<1>3. GatedInOrder(c)'
  <2>1. CASE label = "gate"
    BY <1>2, <2>1 DEF GatedInOrder
  <2>2. CASE label # "gate"
    BY <1>1, <1>2, <2>2, GatedKept
  <2> QED BY <2>1, <2>2
<1>4. BuiltAsGated(c)' /\ ExportAsGated(c)'
  BY <1>2 DEF BuiltAsGated, ExportAsGated
<1>5. c \in Downloads => SnapshotOf(c)' = SnapshotOf(c)
  BY <1>1, SnapshotStays
<1> QED BY <1>2, <1>3, <1>4, <1>5, MoveKeeps

\* Building something moves the call on, and leaves the rest as it is.
LEMMA BuildMoves ==
    ASSUME IInv, NEW c \in Calls, NEW label, NEW thing, Build(c, label, thing)
    PROVE  /\ pc'[c] = label /\ made'[c] = thing
           /\ UNCHANGED <<project, snapshots, artifacts, asked, reply, answer, gated, proof>>
<1>1. made = [d \in Calls |-> made[d]]
  BY DEF IInv, TypeInv, Shape
<1>2. made'[c] = thing
  BY <1>1 DEF Build
<1> QED BY <1>2 DEF Build, Goto, worldVars, rowVars, IInv, TypeInv, TypeOK

\* Building something keeps the invariant, if it is as the gate passed it.
LEMMA BuildKeeps ==
    ASSUME IInv, TypeInv', NEW c \in Calls, CallFrame(c),
           NEW label \in {"freeze", "record", "prepare"}, NEW thing, Build(c, label, thing),
           pc[c] \in {"assemble", "freeze", "render"},
           BuiltAsGated(c)', ExportAsGated(c)'
    PROVE  IInv'
<1>1. History
  BY OthersKept
<1>2. /\ pc'[c] = label
      /\ UNCHANGED <<snapshots, artifacts, reply, answer, gated>>
  BY BuildMoves
<1>3. GatedInOrder(c)'
  BY <1>1, <1>2, GatedKept
<1> QED BY <1>2, <1>3, MoveKeeps

\* Assembling keeps the invariant: the version is the one that was expected, and the
\* gate passed it or an earlier one.
LEMMA AssembleKeeps ==
    ASSUME IInv, TypeInv', NEW c \in Calls, CallFrame(c), Assemble(c)
    PROVE  IInv'
<1>1. pc[c] = "assemble" /\ c \in Freezes
  BY LabelKinds DEF Assemble, At, IInv
<1>2. CASE Refuse(c, "moved")
  BY <1>1, <1>2, RefuseKeeps
<1>3. CASE project.version = asked[c] /\ Build(c, "freeze", Input("none"))
  <2>1. gated[c].version <= project.version
    BY <1>1 DEF IInv, CallInv, GatedInOrder
  <2>2. PICK thing : thing = Input("none")
    OBVIOUS
  <2>3. Build(c, "freeze", thing) /\ thing.version = project.version
    BY <1>3, <2>2 DEF Input
  <2>4. project.version <= project.version
    BY DEF IInv, TypeInv, TypeOK
  <2>5. BuiltAsGated(c)' /\ ExportAsGated(c)'
    BY <1>1, <1>3, <2>1, <2>3, <2>4, BuildMoves, Kinds DEF BuiltAsGated, ExportAsGated
  <2> QED BY <1>1, <2>3, <2>5, BuildKeeps
<1> QED BY <1>2, <1>3 DEF Assemble

\* Freezing keeps the invariant: the version is still the one that was assembled.
LEMMA FreezeKeeps ==
    ASSUME IInv, TypeInv', NEW c \in Calls, CallFrame(c), Freeze(c)
    PROVE  IInv'
<1>1. pc[c] = "freeze" /\ c \in Freezes
  BY LabelKinds DEF Freeze, At, IInv
<1>2. CASE Refuse(c, "moved")
  BY <1>1, <1>2, RefuseKeeps
<1>3. CASE Input("none") = made[c] /\ Build(c, "record", Input(CheckStatus))
  <2>1. /\ made[c].version = asked[c] /\ gated[c].version <= asked[c]
        /\ asked[c] <= project.version
    BY <1>1 DEF IInv, CallInv, BuiltAsGated
  <2>2. asked[c] = project.version
    BY <1>3, <2>1 DEF Input
  <2>3. PICK thing : thing = Input(CheckStatus)
    OBVIOUS
  <2>4. Build(c, "record", thing) /\ thing.version = project.version
    BY <1>3, <2>3 DEF Input
  <2>5. BuiltAsGated(c)' /\ ExportAsGated(c)'
    BY <1>1, <2>1, <2>2, <2>4, BuildMoves, Kinds DEF BuiltAsGated, ExportAsGated
  <2> QED BY <1>1, <2>4, <2>5, BuildKeeps
<1> QED BY <1>2, <1>3 DEF Freeze

\* Beginning to render keeps the invariant: the gate passed a version between the
\* frozen one and the present one, and they are the same.
LEMMA ProduceKeeps ==
    ASSUME IInv, TypeInv', NEW c \in Calls, CallFrame(c), Produce(c)
    PROVE  IInv'
<1>1. pc[c] = "produce" /\ c \in Exports
  BY LabelKinds DEF Produce, At, IInv
<1>2. CASE \E why \in {"moved", "refused"} : Refuse(c, why)
  BY <1>1, <1>2, RefuseKeeps
<1>3. CASE SnapshotOf(c).check = "passed" /\ Current(c) /\ Proceed(c, "render")
  <2>1. History
    BY OthersKept
  <2>2. /\ pc'[c] = "render"
        /\ UNCHANGED <<snapshots, artifacts, asked, reply, answer, gated>>
    BY <1>3 DEF Proceed, Goto, rowVars, localVars, IInv, TypeInv, TypeOK
  <2>3. SnapshotOf(c) = snapshots[asked[c]]
    BY <1>1, SnapshotOfKind, Kinds
  <2>4. /\ gated[c] \in Basis /\ gated[c].version <= project.version
        /\ snapshots[asked[c]].version <= gated[c].version
    BY <1>1, Kinds DEF IInv, CallInv, GatedInOrder
  <2>5. gated[c].version \in Nat /\ project.version \in Nat
    BY <2>4 DEF Basis, IInv, TypeInv, TypeOK
  <2>6. snapshots[asked[c]].version = gated[c].version
    BY <1>3, <2>3, <2>4, <2>5 DEF Current
  <2>7. BuiltAsGated(c)' /\ ExportAsGated(c)'
    BY <1>1, <1>3, <2>2, <2>3, <2>6, Kinds DEF BuiltAsGated, ExportAsGated
  <2>8. GatedInOrder(c)'
    BY <1>1, <2>1, <2>2, GatedKept
  <2> QED BY <1>1, <2>2, <2>7, <2>8, MoveKeeps
<1> QED BY <1>2, <1>3 DEF Produce

\* Rendering keeps the invariant.
LEMMA RenderKeeps ==
    ASSUME IInv, TypeInv', NEW c \in Calls, CallFrame(c), Render(c)
    PROVE  IInv'
<1>1. pc[c] = "render" /\ c \in Exports
  BY LabelKinds DEF Render, At, IInv
<1>2. CASE Refuse(c, "moved")
  BY <1>1, <1>2, RefuseKeeps
<1>3. CASE \E file \in FileStates : Build(c, "prepare", file)
  <2>1. PICK file \in FileStates : Build(c, "prepare", file)
    BY <1>3
  <2>2. ExportAsGated(c)
    BY DEF IInv, CallInv
  <2>3. BuiltAsGated(c)' /\ ExportAsGated(c)'
    BY <1>1, <2>1, <2>2, BuildMoves, Kinds DEF BuiltAsGated, ExportAsGated
  <2> QED BY <1>1, <2>1, <2>3, BuildKeeps
<1> QED BY <1>2, <1>3 DEF Render, FileStates

\* Preparing the record keeps the invariant: the basis is about the frozen sources
\* and, for a verified file, about the frozen version.
LEMMA PrepareKeeps ==
    ASSUME IInv, TypeInv', NEW c \in Calls, CallFrame(c), PrepareBasis(c)
    PROVE  IInv'
<1>1. pc[c] = "prepare" /\ c \in Exports
  BY LabelKinds DEF PrepareBasis, At, IInv
<1>2. CASE \E why \in {"moved", "refused"} : Refuse(c, why)
  BY <1>1, <1>2, RefuseKeeps
<1>3. CASE ~\E why \in {"moved", "refused"} : Refuse(c, why)
  <2>1. /\ ExportBasis(c).source = SnapshotOf(c).source
        /\ made[c] = "verified" => SnapshotOf(c).version = project.version
        /\ Goto(c, "record")
        /\ proof' = [proof EXCEPT ![c] = ExportBasis(c)]
        /\ UNCHANGED <<worldVars, rowVars, asked, reply, answer, gated, made, couldRead>>
    BY <1>3 DEF PrepareBasis
  <2>2. /\ pc'[c] = "record" /\ proof'[c] = ExportBasis(c)
        /\ UNCHANGED <<snapshots, artifacts, asked, reply, answer, gated, made>>
    BY <2>1 DEF Goto, rowVars, IInv, TypeInv, TypeOK
  <2>3. History
    BY OthersKept
  <2>4. SnapshotOf(c) = snapshots[asked[c]]
    BY <1>1, SnapshotOfKind, Kinds
  <2>5. ExportBasis(c).version = project.version /\ ExportBasis(c) \in Basis
    BY DEF ExportBasis, Basis, IInv, TypeInv, TypeOK
  <2>6. ExportAsGated(c)
    BY DEF IInv, CallInv
  <2>7. BuiltAsGated(c)' /\ ExportAsGated(c)'
    BY <1>1, <2>1, <2>2, <2>4, <2>5, <2>6, Kinds DEF BuiltAsGated, ExportAsGated
  <2>8. GatedInOrder(c)'
    BY <1>1, <2>2, <2>3, GatedKept
  <2> QED BY <1>1, <2>2, <2>7, <2>8, MoveKeeps
<1> QED BY <1>2, <1>3

\* The insert of a row keeps the invariant: the action index had none for the action.
LEMMA InsertKeeps ==
    ASSUME IInv, TypeInv', NEW c \in Keyed, CallFrame(c), pc[c] \in {"record", "commit"},
           \A d \in Keyed \ {c} : Claimed(d) => ActionOf(d) # ActionOf(c),
           NEW label, label = IF c \in Freezes THEN "get" ELSE "confirm", pc'[c] = label,
           answer'[c] = c, reply'[c] = reply[c], gated'[c] = gated[c],
           Stored(c)', RowRecorded(c)', RowAsGated(c)'
    PROVE  IInv'
<1>1. c \in Calls
  BY Kinds
<1>2. History
  BY <1>1, OthersKept
<1>3. reply[c] = "none" /\ c # None
  BY <1>1, NotYetRecorded, CallsAssumption
<1>4. KnownStays(c)'
  BY <1>1, <1>2, KnownGrows DEF IInv, CallInv, KnownStays
<1>5. AnswerInOrder(c)' /\ BuiltAsGated(c)' /\ ExportAsGated(c)' /\ ContentRead(c)'
  BY <1>3 DEF AnswerInOrder, BuiltAsGated, ExportAsGated, ContentRead
<1>6. AnsweredWithRow(c)'
  <2>1. Stored(answer[c])' /\ ActionOf(answer'[c]) = ActionOf(c) /\ asked'[answer'[c]] = asked'[c]
    BY DEF Stored
  <2> QED BY <2>1 DEF AnsweredWithRow, SameRequest, ActionOf, KindOf
<1>7. GatedInOrder(c)'
  BY <1>1, <1>2, GatedKept
<1>8. ReaderNoted(c)'
  BY <1>1, ReadersKept
<1>9. UniqueRows'
  <2>1. \A d \in Keyed \ {c} : Claimed(d)' <=> Claimed(d)
    BY Kinds DEF CallFrame, Stored, Claimed
  <2>2. \A d, e \in Keyed : Claimed(d)' /\ Claimed(e)' /\ ActionOf(d) = ActionOf(e) => d = e
    BY <2>1 DEF IInv, UniqueRows
  <2> QED BY <2>2 DEF UniqueRows, ActionOf, KindOf
<1> QED BY <1>1, <1>4, <1>5, <1>6, <1>7, <1>8, <1>9, FrameKeeps DEF CallInv

\* A freeze that loses the insert, and one that wins it, keep the invariant.
LEMMA RecordFreezeKeeps ==
    ASSUME IInv, TypeInv', NEW c \in Calls, CallFrame(c), RecordFreeze(c)
    PROVE  IInv'
<1>1. c \in Freezes /\ c \in Keyed /\ pc[c] = "record"
  BY DEF RecordFreeze, At, Keyed
<1>2. CASE LoseInsert(c, "get")
  <2>1. PICK d \in Recorded(c) : Replay(c, d, "get")
    BY <1>2 DEF LoseInsert
  <2> QED BY <1>1, <2>1, ReplayKeeps
<1>3. CASE ~LoseInsert(c, "get")
  <2>1. /\ Recorded(c) = {}
        /\ snapshots' = [snapshots EXCEPT ![c] = made[c]]
        /\ answer' = [answer EXCEPT ![c] = c]
        /\ Goto(c, "get")
        /\ UNCHANGED <<worldVars, artifacts, asked, reply, localVars, couldRead>>
    BY <1>3 DEF RecordFreeze
  <2>2. /\ pc'[c] = "get" /\ answer'[c] = c /\ snapshots'[c] = made[c]
        /\ UNCHANGED <<project, asked, reply, gated>>
    BY <1>1, <2>1 DEF Goto, worldVars, localVars, IInv, TypeInv, TypeOK
  <2>3. made[c] \in Snapshot /\ made[c] # None
    BY <1>1, CallsAssumption DEF IInv, TypeInv, TypeOK
  <2>4. Stored(c)'
    BY <1>1, <2>2, <2>3 DEF Stored
  <2>5. /\ made[c].version = asked[c] /\ gated[c].version <= asked[c]
        /\ asked[c] <= project.version /\ gated[c] \in Basis
    BY <1>1 DEF IInv, CallInv, BuiltAsGated, GatedInOrder
  <2>6. RowRecorded(c)'
    BY <1>1, <2>2, <2>5, Kinds DEF RowRecorded
  <2>7. RowAsGated(c)'
    BY <1>1, <2>2, <2>5, Kinds DEF RowAsGated
  <2>8. ASSUME NEW d \in Keyed \ {c}, Claimed(d) PROVE ActionOf(d) # ActionOf(c)
    <3>1. CASE Stored(d)
      BY <2>1, <3>1 DEF Recorded
    <3>2. CASE pc[d] = "commit"
      <4>1. d \in Exports /\ d \notin Freezes
        BY <3>2, LabelKinds, Kinds DEF IInv
      <4> QED BY <1>1, <4>1 DEF ActionOf, KindOf
    <3> QED BY <2>8, <3>1, <3>2 DEF Claimed
  <2> QED BY <1>1, <2>1, <2>2, <2>4, <2>6, <2>7, <2>8, InsertKeeps
<1> QED BY <1>2, <1>3

\* Storing an artifact keeps the invariant, if no other row of the action is there.
LEMMA StoreExportKeeps ==
    ASSUME IInv, TypeInv', NEW c \in Exports, CallFrame(c), StoreExport(c),
           pc[c] \in {"record", "commit"},
           \A d \in Keyed \ {c} : Claimed(d) => ActionOf(d) # ActionOf(c)
    PROVE  IInv'
<1>1. c \in Keyed /\ c \notin Freezes /\ c \in Calls
  BY Kinds DEF Keyed
<1>2. /\ pc'[c] = "confirm" /\ answer'[c] = c /\ artifacts'[c] = made[c]
      /\ UNCHANGED <<snapshots, asked, reply, gated>>
  BY <1>1 DEF StoreExport, Goto, localVars, IInv, TypeInv, TypeOK
<1>3. made[c] \in FileStates /\ made[c] # None
  BY CallsAssumption DEF IInv, TypeInv, TypeOK
<1>4. Stored(c)'
  BY <1>1, <1>2, <1>3 DEF Stored
<1>5. /\ snapshots[asked[c]] # None
      /\ snapshots[asked[c]].version = gated[c].version
      /\ snapshots[asked[c]].check = "passed"
  BY <1>1, SnapshotThere DEF IInv, CallInv, ExportAsGated
<1>6. RowRecorded(c)'
  BY <1>1, <1>2, <1>5, Kinds DEF RowRecorded
<1>7. RowAsGated(c)'
  BY <1>1, <1>2, <1>5, Kinds DEF RowAsGated
<1> QED BY <1>1, <1>2, <1>4, <1>6, <1>7, InsertKeeps

\* An insert that waits for its COMMIT keeps the invariant: the action index had no
\* row of the action, committed or not.
LEMMA OpenInsertKeeps ==
    ASSUME IInv, TypeInv', NEW c \in Exports, CallFrame(c), Proceed(c, "commit"),
           pc[c] = "record", ~SnapshotStore,
           \A d \in Keyed \ {c} : Claimed(d) => ActionOf(d) # ActionOf(c)
    PROVE  IInv'
<1>1. c \in Keyed /\ c \notin Freezes /\ c \in Calls /\ c \notin Receivers
  BY Kinds DEF Keyed, Receivers
<1>2. History
  BY <1>1, OthersKept
<1>3. /\ pc'[c] = "commit"
      /\ UNCHANGED <<snapshots, artifacts, asked, reply, answer, gated>>
  BY <1>1 DEF Proceed, Goto, rowVars, localVars, IInv, TypeInv, TypeOK
<1>4. \A d \in Calls : SameRow(d)
  BY <1>3 DEF SameRow
<1>5. ~Stored(c) /\ answer[c] = None /\ reply[c] = "none"
  BY <1>1, NotYetRecorded
<1>6. KnownStays(c)' /\ RowRecorded(c)' /\ RowAsGated(c)' /\ ContentRead(c)'
  BY <1>1, <1>2, <1>3, <1>4, <1>5, Kept
<1>7. AnsweredWithRow(c)'
  BY <1>1, <1>2, <1>3, AnswerKept
<1>8. AnswerInOrder(c)'
  BY <1>3, <1>5 DEF AnswerInOrder
<1>9. GatedInOrder(c)'
  BY <1>1, <1>2, <1>3, GatedKept
<1>10. BuiltAsGated(c)' /\ ExportAsGated(c)'
  BY <1>1, <1>3 DEF BuiltAsGated, ExportAsGated, IInv, CallInv
<1>11. ReaderNoted(c)'
  BY <1>1, <1>3, ReadersKept
<1>12. UniqueRows'
  <2>1. \A d \in Keyed \ {c} : Claimed(d)' <=> Claimed(d)
    BY Kinds DEF CallFrame, Stored, Claimed
  <2>2. \A d, e \in Keyed : Claimed(d)' /\ Claimed(e)' /\ ActionOf(d) = ActionOf(e) => d = e
    BY <2>1 DEF IInv, UniqueRows
  <2> QED BY <2>2 DEF UniqueRows, ActionOf, KindOf
<1> QED BY <1>1, <1>6, <1>7, <1>8, <1>9, <1>10, <1>11, <1>12, FrameKeeps DEF CallInv

\* The record and the COMMIT of an export keep the invariant.
LEMMA RecordExportKeeps ==
    ASSUME IInv, TypeInv', NEW c \in Calls, CallFrame(c), RecordExport(c) \/ CommitExport(c)
    PROVE  IInv'
<1>1. c \in Exports /\ c \in Keyed /\ c \notin Freezes
  BY LabelKinds, Kinds DEF RecordExport, CommitExport, At, Keyed, IInv
<1>2. CASE RecordExport(c) /\ Refuse(c, "moved")
  BY <1>2, RefuseKeeps DEF RecordExport, At
<1>3. CASE RecordExport(c) /\ LoseInsert(c, "confirm")
  <2>1. PICK d \in Recorded(c) : Replay(c, d, "confirm")
    BY <1>3 DEF LoseInsert
  <2> QED BY <1>1, <1>3, <2>1, ReplayKeeps DEF RecordExport, At
<1>4. CASE RecordExport(c) /\ ~Refuse(c, "moved") /\ ~LoseInsert(c, "confirm")
  <2>1. /\ pc[c] = "record" /\ Recorded(c) = {} /\ ~InsertOpen(c)
        /\ IF SnapshotStore THEN StoreExport(c) ELSE Proceed(c, "commit")
    BY <1>4 DEF RecordExport, At
  <2>2. ASSUME NEW d \in Keyed \ {c}, Claimed(d) PROVE ActionOf(d) # ActionOf(c)
    <3>1. CASE Stored(d)
      BY <2>1, <3>1 DEF Recorded
    <3>2. CASE pc[d] = "commit"
      <4>1. d \in Exports
        BY <3>2, LabelKinds, Kinds DEF IInv
      <4> QED BY <2>1, <3>2, <4>1 DEF InsertOpen, At
    <3> QED BY <2>2, <3>1, <3>2 DEF Claimed
  <2> QED BY <1>1, <2>1, <2>2, StoreExportKeeps, OpenInsertKeeps
<1>5. CASE CommitExport(c)
  <2>1. pc[c] = "commit" /\ StoreExport(c)
    BY <1>5 DEF CommitExport, At
  <2>2. \A d \in Keyed \ {c} : Claimed(d) => ActionOf(d) # ActionOf(c)
    BY <1>1, <2>1 DEF IInv, UniqueRows, Claimed
  <2> QED BY <1>1, <2>1, <2>2, StoreExportKeeps
<1> QED BY <1>2, <1>3, <1>4, <1>5

\* A caller who may read the source is noted, so what quotes it may be returned.
LEMMA ReadIsNoted ==
    ASSUME IInv, NEW c \in Receivers, pc[c] \notin {"idle", "done"},
           MayRead(c, SnapshotOf(c).source)
    PROVE  SnapshotOf(c).source # 0 => couldRead[c]
<1>1. ReaderNoted(c)
  BY Kinds DEF IInv, CallInv
<1> QED BY <1>1 DEF ReaderNoted, MayRead

\* The ends of the three operations keep the invariant.
LEMMA EndKeeps ==
    ASSUME IInv, TypeInv', NEW c \in Calls, CallFrame(c),
           GetSnapshot(c) \/ ConfirmExport(c) \/ SendArtifact(c)
    PROVE  IInv'
<1>1. pc[c] \notin {"idle", "done"}
  BY DEF GetSnapshot, ConfirmExport, SendArtifact, At
<1>2. CASE Refuse(c, "refused")
  BY <1>1, <1>2, RefuseKeeps
<1>3. CASE GetSnapshot(c) /\ Succeed(c)
  <2>1. c \in Freezes /\ c \in Receivers /\ pc[c] = "get"
    BY <1>3, LabelKinds DEF GetSnapshot, At, IInv, Receivers
  <2>2. CASE MayRead(c, SnapshotOf(c).source)
    BY <1>1, <1>3, <2>1, <2>2, ReadIsNoted, SucceedKeeps
  <2> QED BY <1>1, <1>2, <1>3, <2>2 DEF GetSnapshot
<1>4. CASE ConfirmExport(c) /\ Succeed(c)
  <2>1. c \in Exports /\ c \notin Freezes /\ c \notin Receivers
    BY <1>4, LabelKinds, Kinds DEF ConfirmExport, At, IInv, Receivers
  <2> QED BY <1>1, <1>4, <2>1, SucceedKeeps
<1>5. CASE SendArtifact(c) /\ Succeed(c)
  <2>1. c \in Downloads /\ c \notin Freezes /\ pc[c] = "send"
    BY <1>5, LabelKinds, Kinds DEF SendArtifact, At, IInv
  <2>2. SnapshotOf(c).source # 0 => couldRead[c]
    BY <2>1 DEF IInv, CallInv, ReaderNoted
  <2> QED BY <1>1, <1>5, <2>1, <2>2, SucceedKeeps
<1> QED BY <1>2, <1>3, <1>4, <1>5 DEF GetSnapshot, ConfirmExport, SendArtifact

\* Moving on through the gate, the replay and the opening of a file keeps it.
LEMMA PassKeeps ==
    ASSUME IInv, TypeInv', NEW c \in Calls, CallFrame(c),
           Admit(c) \/ GateRecheck(c) \/ LookUp(c) \/ OpenArtifact(c)
    PROVE  IInv'
<1>1. pc[c] \in {"admit", "recheck", "lookup", "open"}
  BY DEF Admit, GateRecheck, LookUp, OpenArtifact, At
<1>2. CASE \E why \in {"moved", "refused"} : Refuse(c, why)
  BY <1>1, <1>2, RefuseKeeps
<1>3. CASE Admit(c) /\ Proceed(c, "gate")
  BY <1>1, <1>3, ProceedKeeps
<1>4. CASE GateRecheck(c) /\ Proceed(c, AfterGate(c))
  <2>1. PICK label \in {"lookup", "open"} : label = AfterGate(c)
    BY DEF AfterGate
  <2>2. Proceed(c, label) /\ pc[c] = "recheck"
    BY <1>4, <2>1 DEF GateRecheck, At
  <2> QED BY <2>2, ProceedKeeps
<1>5. CASE LookUp(c) /\ ~\E why \in {"moved", "refused"} : Refuse(c, why)
  <2>1. c \in Keyed /\ pc[c] = "lookup"
    BY <1>5, LabelKinds DEF LookUp, At, IInv
  <2>2. PICK label \in {"get", "confirm"} : label = IF c \in Freezes THEN "get" ELSE "confirm"
    OBVIOUS
  <2>3. CASE \E d \in Recorded(c) : Replay(c, d, label)
    BY <2>1, <2>2, <2>3, ReplayKeeps
  <2>4. CASE \E next \in {"assemble", "produce"} : Proceed(c, next)
    BY <2>1, <2>4, ProceedKeeps
  <2> QED BY <1>5, <2>2, <2>3, <2>4 DEF LookUp
<1>6. CASE OpenArtifact(c) /\ Proceed(c, "send")
  <2>1. c \in Downloads /\ c \in Receivers /\ pc[c] = "open"
    BY <1>6, LabelKinds DEF OpenArtifact, At, IInv, Receivers
  <2>2. CASE MayRead(c, SnapshotOf(c).source)
    BY <1>6, <2>1, <2>2, ReadIsNoted, ProceedKeeps
  <2>3. CASE Refuse(c, "refused")
    BY <1>2, <2>3
  <2> QED BY <1>6, <2>2, <2>3 DEF OpenArtifact
<1> QED BY <1>2, <1>3, <1>4, <1>5, <1>6 DEF Admit, GateRecheck, OpenArtifact

\* Every step of a call keeps the invariant.
LEMMA CallKeeps ==
    ASSUME IInv, NEW c \in Calls, CallStep(c)
    PROVE  IInv'
<1>1. CallFrame(c) /\ TypeInv'
  BY CallTyped DEF IInv
<1>2. Fail(c) => IInv'
  BY <1>1, RefuseKeeps DEF Fail
<1>3. Begin(c) => IInv'
  BY <1>1, BeginKeeps
<1>4. Admit(c) \/ GateRecheck(c) \/ LookUp(c) \/ OpenArtifact(c) => IInv'
  BY <1>1, PassKeeps
<1>5. GateRead(c) => IInv'
  BY <1>1, GateReadKeeps
<1>6. Assemble(c) \/ Freeze(c) \/ RecordFreeze(c) => IInv'
  BY <1>1, AssembleKeeps, FreezeKeeps, RecordFreezeKeeps
<1>7. (Produce(c) \/ Render(c) \/ PrepareBasis(c) \/ RecordExport(c) \/ CommitExport(c))
        => IInv'
  BY <1>1, ProduceKeeps, RenderKeeps, PrepareKeeps, RecordExportKeeps
<1>8. GetSnapshot(c) \/ ConfirmExport(c) \/ SendArtifact(c) => IInv'
  BY <1>1, EndKeeps
<1> QED BY <1>2, <1>3, <1>4, <1>5, <1>6, <1>7, <1>8 DEF CallStep

\* Nothing changes, and the invariant stays.
LEMMA StutterKeeps ==
    ASSUME IInv, UNCHANGED vars
    PROVE  IInv'
<1>1. /\ UNCHANGED <<project, members, owner, paused, source, access, changes>>
      /\ UNCHANGED <<snapshots, artifacts, asked, pc, reply, answer, gated, made, proof, couldRead>>
  BY DEF vars, worldVars, rowVars, localVars
<1>2. TypeInv'
  BY <1>1 DEF IInv, TypeInv, TypeOK, Shape
<1>3. project.version \in Nat
  BY DEF IInv, TypeInv, TypeOK
<1>4. History /\ \A d \in Calls : SameRow(d)
  BY <1>1, <1>3 DEF History, SameRow
<1>5. ASSUME NEW d \in Calls PROVE CallInv(d)'
  BY <1>1, <1>2, <1>4, UntouchedCall
<1> QED BY <1>1, <1>2, <1>4, <1>5, UniqueKept DEF IInv

\* In the beginning nothing is recorded and no call is under way.
LEMMA InitHolds ==
    ASSUME Init, TypeInv
    PROVE  IInv
<1>1. \A c \in Keyed : ~Stored(c)
  BY Kinds DEF Init, Stored
<1>2. ASSUME NEW c \in Calls PROVE CallInv(c)
  <2>1. pc[c] = "idle" /\ reply[c] = "none" /\ answer[c] = None
    BY DEF Init
  <2>2. c \in Exports => artifacts[c] # "verified"
    BY CallsAssumption DEF Init, FileStates
  <2>3. RowRecorded(c) /\ RowAsGated(c)
    BY <1>1, <2>2 DEF RowRecorded, RowAsGated, Keyed
  <2> QED
    BY <2>1, <2>3 DEF CallInv, KnownStays, AnswerInOrder, AnsweredWithRow, GatedInOrder,
       BuiltAsGated, ExportAsGated, ReaderNoted, ContentRead
<1>3. \A c \in Keyed : ~Claimed(c)
  BY <1>1, Kinds DEF Init, Claimed
<1> QED BY <1>2, <1>3 DEF IInv, UniqueRows

\* The inductive invariant holds throughout.
LEMMA InvariantHolds == Spec => []IInv
<1>1. Init /\ TypeInv => IInv
  BY InitHolds
<1>2. IInv /\ [Next]_vars => IInv'
  BY CallKeeps, EnvironmentKeeps, StutterKeeps DEF Next
<1> QED BY <1>1, <1>2, TypeInvHolds, PTL DEF Spec

-----------------------------------------------------------------------------
(* The theorems *)

(* One row is recorded for each action of a user under a key, and a call   *)
(* answers only with that row and only for the same request: the losers of *)
(* the insert race in RecordFreeze and recordExport get the winner's row.  *)
THEOREM OneRowPerActionTheorem == Spec => []OneRowPerAction
<1>1. IInv => OneRowPerAction
  <2> SUFFICES ASSUME IInv PROVE OneRowPerAction
    OBVIOUS
  <2>1. \A c \in Keyed : AnsweredWithRow(c)
    BY Kinds DEF IInv, CallInv
  <2> QED BY <2>1 DEF IInv, UniqueRows, Claimed, OneRowPerAction, AnsweredWithRow
<1> QED BY <1>1, InvariantHolds, PTL

(* A freeze for a version that existed when the full-workflow gate judged  *)
(* it freezes the version that was judged, no freeze goes back behind it,  *)
(* and a verified file carries the version the gate passed for that very   *)
(* export, though the gate and the record are separate transactions.       *)
THEOREM DeliveredAsGatedTheorem == Spec => []DeliveredAsGated
<1>1. IInv => DeliveredAsGated
  <2> SUFFICES ASSUME IInv PROVE DeliveredAsGated
    OBVIOUS
  <2>1. \A c \in Calls : RowAsGated(c)
    BY DEF IInv, CallInv
  <2>2. ASSUME NEW c \in Freezes, snapshots[c] # None
        PROVE  /\ gated[c].version <= snapshots[c].version
               /\ asked[c] <= gated[c].version => snapshots[c].version = gated[c].version
    <3>1. gated[c] \in Basis /\ snapshots[c].version = asked[c] /\ gated[c].version <= asked[c]
      BY <2>1, <2>2, Kinds DEF RowAsGated, Stored
    <3>2. gated[c].version \in Nat /\ asked[c] \in Nat
      BY <3>1, CallsAssumption DEF Basis, IInv, TypeInv, Shape
    <3> QED BY <3>1, <3>2
  <2>3. \A c \in Exports : artifacts[c] = "verified" =>
            /\ snapshots[asked[c]].version = gated[c].version
            /\ snapshots[asked[c]].check = "passed"
    BY <2>1, Kinds DEF RowAsGated
  <2> QED BY <2>2, <2>3 DEF DeliveredAsGated
<1> QED BY <1>1, InvariantHolds, PTL

(* Frozen text and file bytes that quote the source go only to a caller    *)
(* whom the source policy let read it during the call (Get after a replay, *)
(* authorizeSnapshotSources before a download).                            *)
THEOREM ContentOnlyToReadersTheorem == Spec => []ContentOnlyToReaders
<1>1. IInv => ContentOnlyToReaders
  <2> SUFFICES ASSUME IInv PROVE ContentOnlyToReaders
    OBVIOUS
  <2>1. \A c \in Receivers : ContentRead(c)
    BY Kinds DEF IInv, CallInv
  <2> QED BY <2>1 DEF ContentOnlyToReaders, ContentRead
<1> QED BY <1>1, InvariantHolds, PTL

\* Only the record of an export makes its artifact, where a write that was overtaken
\* is refused.
LEMMA ExportedByRecord ==
    ASSUME SnapshotStore, IInv, [Next]_vars, NEW c \in Exports, Exported(c)
    PROVE  RecordExport(c) /\ ProofHolds(c) /\ artifacts'[c] = made[c] /\ pc[c] = "record"
<1>1. artifacts'[c] # artifacts[c] /\ c \in Calls
  BY Kinds DEF Exported
<1>2. ~UNCHANGED vars
  BY <1>1 DEF vars, rowVars
<1>3. ~Environment
  <2>1. Environment => UNCHANGED artifacts
    BY EnvironmentTyped DEF IInv, EnvironmentFrame
  <2> QED BY <1>1, <2>1
<1>4. PICK d \in Calls : CallStep(d)
  BY <1>2, <1>3 DEF Next
<1>5. d = c
  BY <1>1, <1>4, CallTyped DEF IInv, CallFrame
<1>6. \A why : Refuse(c, why) => UNCHANGED artifacts
  BY DEF Refuse, Return, rowVars
<1>7. \A e, label : Replay(c, e, label) => UNCHANGED artifacts
  BY <1>6 DEF Replay, AnswerWith, rowVars
<1>8. /\ \A label : Proceed(c, label) => UNCHANGED artifacts
      /\ \A label, thing : Build(c, label, thing) => UNCHANGED artifacts
      /\ Succeed(c) => UNCHANGED artifacts
  BY DEF Proceed, Build, Succeed, Return, rowVars
<1>9. /\ Begin(c) \/ Admit(c) \/ GateRead(c) \/ GateRecheck(c) => UNCHANGED artifacts
      /\ LookUp(c) => UNCHANGED artifacts
  BY <1>6, <1>7, <1>8 DEF Begin, Admit, GateRead, GateRecheck, LookUp, rowVars
<1>10. /\ Assemble(c) \/ Freeze(c) \/ GetSnapshot(c) => UNCHANGED artifacts
       /\ RecordFreeze(c) => UNCHANGED artifacts
  BY <1>6, <1>7, <1>8 DEF Assemble, Freeze, GetSnapshot, RecordFreeze, LoseInsert
<1>11. /\ Produce(c) \/ Render(c) \/ PrepareBasis(c) \/ ConfirmExport(c) => UNCHANGED artifacts
       /\ OpenArtifact(c) \/ SendArtifact(c) \/ Fail(c) => UNCHANGED artifacts
  BY <1>6, <1>8 DEF Produce, Render, PrepareBasis, ConfirmExport, OpenArtifact, SendArtifact,
     Fail, rowVars
<1>12. ~CommitExport(c)
  BY <1>1 DEF CommitExport, At, IInv, CallInv, ExportAsGated
<1>13. RecordExport(c)
  BY <1>1, <1>4, <1>5, <1>9, <1>10, <1>11, <1>12 DEF CallStep
<1>14. ProofHolds(c) /\ artifacts' = [artifacts EXCEPT ![c] = made[c]]
  BY <1>1, <1>6, <1>7, <1>13 DEF RecordExport, LoseInsert, StoreExport
<1>15. artifacts'[c] = made[c]
  BY <1>14 DEF IInv, TypeInv, TypeOK
<1> QED BY <1>13, <1>14, <1>15 DEF RecordExport, At

\* What is inserted has been validated by the record of its own export.
LEMMA InsertedByRecord ==
    ASSUME IInv, [Next]_vars, NEW c \in Exports, Inserted(c)
    PROVE  ProofHolds(c) /\ pc[c] = "record"
<1>1. /\ pc[c] = "record" /\ c \in Calls /\ c \notin Freezes
      /\ artifacts'[c] # artifacts[c] \/ pc'[c] = "commit"
  BY Kinds DEF Inserted, Exported
<1>2. ~UNCHANGED vars
  BY <1>1 DEF vars, rowVars
<1>3. ~Environment
  <2>1. Environment => UNCHANGED <<artifacts, pc>>
    BY EnvironmentTyped DEF IInv, EnvironmentFrame
  <2> QED BY <1>1, <2>1
<1>4. PICK d \in Calls : CallStep(d)
  BY <1>2, <1>3 DEF Next
<1>5. d = c
  BY <1>1, <1>4, CallTyped DEF IInv, CallFrame
<1>6. RecordExport(c) \/ Fail(c)
  BY <1>1, <1>4, <1>5 DEF CallStep, At, Begin, Admit, GateRead, GateRecheck, LookUp, Assemble,
     Freeze, GetSnapshot, RecordFreeze, Produce, Render, PrepareBasis, CommitExport,
     ConfirmExport, OpenArtifact, SendArtifact
<1>7. /\ \A why : Refuse(c, why) => UNCHANGED artifacts /\ pc'[c] = "done"
      /\ \A e : Replay(c, e, "confirm") =>
            UNCHANGED artifacts /\ pc'[c] \in {"confirm", "done"}
  <2>1. pc \in [Calls -> Labels]
    BY DEF IInv, TypeInv, TypeOK
  <2>2. \A why : Refuse(c, why) => UNCHANGED artifacts /\ pc'[c] = "done"
    BY <1>1, <2>1 DEF Refuse, Return, Goto, rowVars
  <2>3. \A e : AnswerWith(c, e, "confirm") => UNCHANGED artifacts /\ pc'[c] = "confirm"
    BY <1>1, <2>1 DEF AnswerWith, Goto, rowVars
  <2> QED BY <2>2, <2>3 DEF Replay
<1>8. RecordExport(c)
  BY <1>1, <1>6, <1>7 DEF Fail
<1> QED BY <1>1, <1>7, <1>8 DEF RecordExport, LoseInsert

(* Whichever store is used, when the row of an artifact has been inserted  *)
(* and validated a last time its maker still owns the project and may      *)
(* export, the frozen source revision is still the current one, and a      *)
(* verified file still describes the project: recordExport validates the   *)
(* prepared basis in the transaction of the insert.                        *)
THEOREM RecordHoldsTheorem == Spec => ExportHoldsAtRecord
<1> DEFINE Holds(c) ==
        /\ UserOf[c] = owner /\ owner \in members /\ ~paused
        /\ SnapshotOf(c).source \in {0, source}
        /\ made[c] = "verified" => SnapshotOf(c).version = project.version
<1>1. ASSUME IInv, [Next]_vars, NEW c \in Exports, Inserted(c)
      PROVE  Holds(c)
  <2>1. ProofHolds(c) /\ pc[c] = "record" /\ c \in Calls
    BY <1>1, InsertedByRecord, Kinds
  <2>2. SnapshotOf(c) = snapshots[asked[c]]
    BY SnapshotOfKind
  <2>3. /\ proof[c].source = SnapshotOf(c).source
        /\ made[c] = "verified" => proof[c].version = SnapshotOf(c).version
    BY <1>1, <2>1, <2>2 DEF IInv, CallInv, ExportAsGated
  <2>4. /\ proof[c].version = project.version
        /\ proof[c].source = IF SnapshotOf(c).source = 0 THEN 0 ELSE source
    BY <2>1 DEF ProofHolds, ExportBasis
  <2>5. UserOf[c] = owner /\ owner \in members /\ ~paused
    BY <2>1 DEF ProofHolds, MayExport, IsMember
  <2> QED BY <2>1, <2>3, <2>4, <2>5
<1>2. IInv /\ [Next]_vars => [\A c \in Exports : Inserted(c) => Holds(c)]_vars
  BY <1>1
<1> QED BY <1>2, InvariantHolds, PTL DEF Spec, ExportHoldsAtRecord

(* On a store that refuses a write that was overtaken (SQLite), when an    *)
(* artifact is committed its maker still owns the project and may          *)
(* export, the frozen source revision is still the current one, and a      *)
(* verified file still describes the project (recordExport validates the   *)
(* prepared basis in the transaction of the insert).                       *)
THEOREM ExportHoldsTheorem == ASSUME SnapshotStore PROVE Spec => ExportHoldsAtCommit
<1> DEFINE Holds(c) ==
        /\ UserOf[c] = owner /\ owner \in members /\ ~paused
        /\ SnapshotOf(c).source \in {0, source}
        /\ artifacts'[c] = "verified" => SnapshotOf(c).version = project.version
<1>1. ASSUME IInv, [Next]_vars, NEW c \in Exports, Exported(c)
      PROVE  Holds(c)
  <2>1. ProofHolds(c) /\ artifacts'[c] = made[c] /\ pc[c] = "record" /\ c \in Calls
    BY <1>1, ExportedByRecord, Kinds
  <2>2. SnapshotOf(c) = snapshots[asked[c]]
    BY SnapshotOfKind
  <2>3. /\ proof[c].source = SnapshotOf(c).source
        /\ made[c] = "verified" => proof[c].version = SnapshotOf(c).version
    BY <1>1, <2>1, <2>2 DEF IInv, CallInv, ExportAsGated
  <2>4. /\ proof[c].version = project.version
        /\ proof[c].source = IF SnapshotOf(c).source = 0 THEN 0 ELSE source
    BY <2>1 DEF ProofHolds, ExportBasis
  <2>5. UserOf[c] = owner /\ owner \in members /\ ~paused
    BY <2>1 DEF ProofHolds, MayExport, IsMember
  <2> QED BY <2>1, <2>3, <2>4, <2>5
<1>2. IInv /\ [Next]_vars => [\A c \in Exports : Exported(c) => Holds(c)]_vars
  BY <1>1
<1> QED BY <1>2, InvariantHolds, PTL DEF Spec, ExportHoldsAtCommit
=============================================================================
