------------------------- MODULE ApprovalGateProofs -------------------------
(***************************************************************************)
(* Proofs about ApprovalGate, for every set of tool calls, decisions and   *)
(* instances, any number of crashes and either failure policy: the type    *)
(* invariant, that "ok" is told to the decision the tool call acts on and  *)
(* to no other, that refusals are true, and that a tool that asks for      *)
(* approval runs only with the consent of its own user.                    *)
(***************************************************************************)
EXTENDS ApprovalGate, TLAPS

-----------------------------------------------------------------------------
(* The inductive invariant *)

\* A waiter has fired when it holds a decision, and holds it in one place.
OneDecision ==
    \A w \in Waits : /\ w \in fired <=> Decided(w) # None
                     /\ verdict[w] # None => slot[w] = None

\* A wait is decided by the clock or by a decision about it, of its own user.
DecidedByRight ==
    \A w \in Waits : Decided(w) \in Resolves =>
        Decided(w) \notin Strangers /\ TargetOf[Decided(w)] = w

\* A decision is offered to its waiter at most once: while it can still be
\* offered, locally or by the subscriber of the waiter's instance, it has not been.
OfferedOnce ==
    \A r \in Resolves :
        /\ step[r] \in {"idle", "lookup", "deliver", "publish"} =>
              /\ Decided(TargetOf[r]) # r
              /\ \A i \in Instances : r \notin inbox[i] /\ handling[i] # r
        /\ step[r] = "deliver" => Entitled(r)
        /\ r \in inbox[HomeOf[TargetOf[r]]] =>
              /\ Decided(TargetOf[r]) # r
              /\ \A i \in Instances : handling[i] # r
        /\ \A i \in Instances : handling[i] = r =>
              /\ i = HomeOf[TargetOf[r]]
              /\ Entitled(r)
              /\ Decided(TargetOf[r]) # r

\* What a status says about the decision it acknowledges.
StatusIsTrue(r, status) ==
    /\ status = "ok" => Decided(TargetOf[r]) = r
    /\ status = "already" => Decided(TargetOf[r]) \notin {None} \cup ({r} \ Resent)
    /\ status = "mismatch" => r \in Strangers

\* Acknowledgements on their way are true, whoever reads them.
AcksAreTrue ==
    \A c \in Resolves : \A ack \in acks[c] : StatusIsTrue(ack[1], ack[2])

\* Replies are true.
RepliesAreTrue == \A r \in Resolves : StatusIsTrue(r, reply[r])

\* A tool is called without approval only when it is exempt.
CalledWithApproval ==
    \A w \in Waits : stage[w] = "call" \/ w \in called =>
        w \in exempt \/ verdict[w] \in Approvals

IInv ==
    /\ TypeOK
    /\ OneDecision
    /\ DecidedByRight
    /\ OfferedOnce
    /\ AcksAreTrue
    /\ RepliesAreTrue
    /\ CalledWithApproval

-----------------------------------------------------------------------------
(* Types *)

\* The sets of waits, one by one.
LEMMA TypeParts ==
    TypeOK <=>
      /\ stage \in [Waits -> Stages]
      /\ exempt \subseteq Waits /\ pending \subseteq Waits /\ shown \subseteq Waits
      /\ fired \subseteq Waits /\ called \subseteq Waits
      /\ slot \in [Waits -> Decisions \cup {None}]
      /\ verdict \in [Waits -> Decisions \cup {None}]
      /\ step \in [Resolves -> Steps] /\ at \in [Resolves -> Instances \cup {None}]
      /\ reply \in [Resolves -> {"none", "not_found", "error"} \cup Statuses]
      /\ inbox \in [Instances -> SUBSET Resolves]
      /\ handling \in [Instances -> Resolves \cup {None}]
      /\ acks \in [Resolves -> SUBSET (Resolves \X Statuses)]
      /\ crashes \in Nat
BY Zenon DEF TypeOK

\* The same of the next state.
LEMMA TypePartsNext ==
    (/\ stage' \in [Waits -> Stages]
     /\ exempt' \subseteq Waits /\ pending' \subseteq Waits /\ shown' \subseteq Waits
     /\ fired' \subseteq Waits /\ called' \subseteq Waits
     /\ slot' \in [Waits -> Decisions \cup {None}]
     /\ verdict' \in [Waits -> Decisions \cup {None}]
     /\ step' \in [Resolves -> Steps] /\ at' \in [Resolves -> Instances \cup {None}]
     /\ reply' \in [Resolves -> {"none", "not_found", "error"} \cup Statuses]
     /\ inbox' \in [Instances -> SUBSET Resolves]
     /\ handling' \in [Instances -> Resolves \cup {None}]
     /\ acks' \in [Resolves -> SUBSET (Resolves \X Statuses)]
     /\ crashes' \in Nat) => TypeOK'
BY Zenon DEF TypeOK

\* The result of a delivery is a status.
LEMMA ResultTyped ==
    \A r \in Resolves : Result(r) \in {"ok", "already"} /\ Outcomes(r) \subseteq {"ok", "already"}
BY DEF Result, Outcomes

\* Delivering a decision keeps the channel and the fired waiters in their types.
LEMMA DeliverTyped ==
    ASSUME TypeOK, NEW w \in Waits, NEW d \in Decisions, Deliver(w, d)
    PROVE  fired' \subseteq Waits /\ slot' \in [Waits -> Decisions \cup {None}]
BY TypeParts DEF Deliver

\* So do the replies of a Resolve with its locals.
LEMMA ReplyTyped ==
    ASSUME TypeOK, NEW r \in Resolves,
           NEW why \in {"none", "not_found", "error"} \cup Statuses, Reply(r, why)
    PROVE  /\ step' \in [Resolves -> Steps] /\ at' \in [Resolves -> Instances \cup {None}]
           /\ reply' \in [Resolves -> {"none", "not_found", "error"} \cup Statuses]
           /\ acks' \in [Resolves -> SUBSET (Resolves \X Statuses)]
           /\ UNCHANGED <<stage, exempt, shown, verdict, called, crashes>>
<1>1. step' = [step EXCEPT ![r] = "done"] /\ "done" \in Steps
  BY DEF Reply, GotoStep, Steps
<1>2. acks' = [acks EXCEPT ![r] = {}] /\ {} \in SUBSET (Resolves \X Statuses)
  BY DEF Reply
<1> QED
  BY <1>1, <1>2, TypeParts DEF Reply, waitVars

\* And the acknowledgements.
LEMMA AcknowledgeTyped ==
    ASSUME TypeOK, NEW r \in Resolves, NEW status \in Statuses, Acknowledge(r, status)
    PROVE  acks' \in [Resolves -> SUBSET (Resolves \X Statuses)]
<1>1. <<r, status>> \in Resolves \X Statuses
  OBVIOUS
<1>2. PICK lost \in BOOLEAN :
        acks' = [c \in Resolves |->
            IF ~lost /\ AtStep(c, "await") /\ TargetOf[c] = TargetOf[r]
            THEN acks[c] \cup {<<r, status>>} ELSE acks[c]]
  BY DEF Acknowledge
<1>3. acks \in [Resolves -> SUBSET (Resolves \X Statuses)]
  BY TypeParts
<1> QED BY <1>1, <1>2, <1>3

\* The steps of a tool execution keep the types.
LEMMA WaitTyped ==
    ASSUME TypeOK, NEW w \in Waits, WaitStep(w)
    PROVE  TypeOK'
<1>1. CASE Execute(w)
  BY <1>1, TypeParts, TypePartsNext
     DEF Execute, Goto, Stages, waiterVars, callVars, busVars
<1>2. CASE Register(w)
  BY <1>2, TypeParts, TypePartsNext DEF Register, Goto, Stages, callVars, busVars
<1>3. CASE \E why \in Expiries : Expire(w, why)
  <2>1. PICK why \in Expiries : Expire(w, why)
    BY <1>3
  <2>2. fired' \subseteq Waits /\ slot' \in [Waits -> Decisions \cup {None}]
    BY <2>1, DeliverTyped DEF Expire, Decisions
  <2> QED
    BY <2>1, <2>2, TypeParts, TypePartsNext DEF Expire, Goto, Stages, callVars, busVars
<1>4. CASE Receive(w)
  BY <1>4, TypeParts, TypePartsNext DEF Receive, Goto, Stages, callVars, busVars
<1>5. CASE Unregister(w)
  BY <1>5, TypeParts, TypePartsNext DEF Unregister, Goto, Stages, callVars, busVars
<1>6. CASE CallTool(w)
  BY <1>6, TypeParts, TypePartsNext
     DEF CallTool, Goto, Stages, waiterVars, callVars, busVars
<1> QED BY <1>1, <1>2, <1>3, <1>4, <1>5, <1>6 DEF WaitStep

\* The steps of a Resolve keep the types.
LEMMA CallTyped ==
    ASSUME TypeOK, NEW r \in Resolves, CallStep(r)
    PROVE  TypeOK'
<1>1. ASSUME NEW why \in {"none", "not_found", "error"} \cup Statuses, Reply(r, why),
             UNCHANGED <<waiterVars, busVars>>
      PROVE  TypeOK'
  BY <1>1, ReplyTyped, TypeParts, TypePartsNext DEF waiterVars, busVars
<1>2. ASSUME NEW label \in Steps, Proceed(r, label) PROVE TypeOK'
  BY <1>2, TypeParts, TypePartsNext
     DEF Proceed, GotoStep, waitVars, waiterVars, busVars
<1>3. CASE Begin(r)
  BY <1>3, TypeParts, TypePartsNext
     DEF Begin, GotoStep, Steps, waitVars, waiterVars, busVars
<1>4. CASE LookUp(r)
  BY <1>1, <1>2, <1>4 DEF LookUp, Steps, Statuses
<1>5. CASE DeliverLocal(r)
  <2>1. fired' \subseteq Waits /\ slot' \in [Waits -> Decisions \cup {None}]
    BY <1>5, DeliverTyped, GateAssumption DEF DeliverLocal, Decisions
  <2>2. Result(r) \in Statuses
    BY ResultTyped DEF Statuses
  <2> QED
    BY <1>5, <2>1, <2>2, ReplyTyped, TypeParts, TypePartsNext
       DEF DeliverLocal, busVars
<1>6. CASE Publish(r)
  <2>1. inbox' \in [Instances -> SUBSET Resolves]
    BY <1>6, TypeParts DEF Publish, Broadcast
  <2>2. CASE Reply(r, "error")
    BY <1>6, <2>1, <2>2, ReplyTyped, TypeParts, TypePartsNext DEF Publish, waiterVars
  <2>3. CASE ~Reply(r, "error")
    BY <1>6, <2>1, <2>3, TypeParts, TypePartsNext
       DEF Publish, GotoStep, Steps, waitVars, waiterVars
  <2> QED BY <2>2, <2>3
<1>7. CASE ReadAck(r)
  <2>1. PICK ack \in acks[r] :
          \/ ack[1] = r /\ Reply(r, ack[2])
          \/ /\ acks' = [acks EXCEPT ![r] = @ \ {ack}]
             /\ UNCHANGED <<waitVars, step, at, reply, crashes>>
    BY <1>7 DEF ReadAck
  <2>2. ack[2] \in Statuses
    BY TypeParts
  <2>3. UNCHANGED <<waiterVars, busVars>>
    BY <1>7 DEF ReadAck
  <2>4. CASE Reply(r, ack[2])
    BY <1>1, <2>2, <2>3, <2>4
  <2>5. CASE ~Reply(r, ack[2])
    <3>1. acks' \in [Resolves -> SUBSET (Resolves \X Statuses)]
      BY <2>1, <2>5, TypeParts
    <3> QED
      BY <2>1, <2>3, <2>5, <3>1, TypeParts, TypePartsNext
         DEF waitVars, waiterVars, busVars
  <2> QED BY <2>4, <2>5
<1>8. CASE AckTimeout(r)
  BY <1>1, <1>8 DEF AckTimeout
<1> QED BY <1>3, <1>4, <1>5, <1>6, <1>7, <1>8 DEF CallStep

\* The steps of a subscriber keep the types.
LEMMA SubscriberTyped ==
    ASSUME TypeOK, NEW i \in Instances, Subscriber(i)
    PROVE  TypeOK'
<1>1. PICK r \in Resolves : TakeMessage(i, r) \/ DeliverMessage(i, r)
  BY DEF Subscriber
<1>2. CASE TakeMessage(i, r)
  <2>1. acks' \in [Resolves -> SUBSET (Resolves \X Statuses)]
    <3>1. CASE UNCHANGED acks
      BY <3>1, TypeParts
    <3>2. CASE Acknowledge(r, "mismatch")
      BY <3>2, AcknowledgeTyped DEF Statuses
    <3> QED BY <1>2, <3>1, <3>2 DEF TakeMessage
  <2>2. /\ inbox' \in [Instances -> SUBSET Resolves]
        /\ handling' \in [Instances -> Resolves \cup {None}]
    BY <1>2, TypeParts DEF TakeMessage
  <2> QED
    BY <1>2, <2>1, <2>2, TypeParts, TypePartsNext DEF TakeMessage, waitVars, waiterVars
<1>3. CASE DeliverMessage(i, r)
  <2>1. fired' \subseteq Waits /\ slot' \in [Waits -> Decisions \cup {None}]
    BY <1>3, DeliverTyped, GateAssumption DEF DeliverMessage, Decisions
  <2>2. acks' \in [Resolves -> SUBSET (Resolves \X Statuses)]
    BY <1>3, AcknowledgeTyped, ResultTyped DEF DeliverMessage, Statuses
  <2>3. handling' \in [Instances -> Resolves \cup {None}]
    BY <1>3, TypeParts DEF DeliverMessage
  <2> QED
    BY <1>3, <2>1, <2>2, <2>3, TypeParts, TypePartsNext DEF DeliverMessage, waitVars
<1> QED BY <1>1, <1>2, <1>3

\* The type invariant of the approval gate, crashes and lost messages included.
THEOREM TypeCorrect == Spec => []TypeOK
<1>1. Init => TypeOK
  BY DEF Init, TypeOK, Stages, Steps
<1>2. TypeOK /\ [Next]_vars => TypeOK'
  <2> SUFFICES ASSUME TypeOK, [Next]_vars PROVE TypeOK'
    OBVIOUS
  <2>1. ASSUME NEW i \in Instances, Crash(i) PROVE TypeOK'
    <3>1. stage' \in [Waits -> Stages] /\ step' \in [Resolves -> Steps]
      BY <2>1, TypeParts DEF Crash, Stages, Steps
    <3>2. /\ inbox' \in [Instances -> SUBSET Resolves]
          /\ handling' \in [Instances -> Resolves \cup {None}]
      BY <2>1, TypeParts DEF Crash
    <3>3. pending' \subseteq Waits /\ crashes' \in Nat
      BY <2>1, TypeParts DEF Crash
    <3> QED
      BY <2>1, <3>1, <3>2, <3>3, TypeParts, TypePartsNext DEF Crash
  <2>2. CASE UNCHANGED vars
    BY <2>2, TypeParts, TypePartsNext
       DEF vars, waitVars, waiterVars, callVars, busVars
  <2> QED BY <2>1, <2>2, WaitTyped, CallTyped, SubscriberTyped DEF Next
<1> QED BY <1>1, <1>2, PTL DEF Spec

-----------------------------------------------------------------------------
(* Decisions *)

\* A decision is final.
DecisionsStay == \A w \in Waits : Decided(w) # None => Decided(w)' = Decided(w)

\* A step that leaves the waiters and the verdicts alone decides nothing.
LEMMA NoDecision ==
    ASSUME IInv, UNCHANGED <<slot, fired, verdict>>
    PROVE  /\ OneDecision' /\ DecidedByRight'
           /\ \A w \in Waits : Decided(w)' = Decided(w)
<1>1. \A w \in Waits : Decided(w)' = Decided(w)
  BY DEF Decided
<1>2. OneDecision'
  BY <1>1 DEF IInv, OneDecision
<1>3. DecidedByRight'
  BY <1>1 DEF IInv, DecidedByRight
<1> QED BY <1>1, <1>2, <1>3

\* Receiving a decision moves it from the channel to the verdict.
LEMMA ReceiveDecision ==
    ASSUME IInv, NEW v \in Waits, Receive(v)
    PROVE  /\ OneDecision' /\ DecidedByRight'
           /\ \A w \in Waits : Decided(w)' = Decided(w)
           /\ verdict[v] = None
<1>1. /\ slot[v] # None
      /\ verdict' = [verdict EXCEPT ![v] = slot[v]]
      /\ slot' = [slot EXCEPT ![v] = None]
      /\ fired' = fired
  BY DEF Receive
<1>2. slot \in [Waits -> Decisions \cup {None}] /\ verdict \in [Waits -> Decisions \cup {None}]
  BY TypeParts DEF IInv
<1>3. verdict[v] = None
  BY <1>1 DEF IInv, OneDecision
<1>4. \A w \in Waits : Decided(w)' = Decided(w)
  BY <1>1, <1>2, <1>3 DEF Decided
<1>5. OneDecision'
  BY <1>1, <1>2, <1>4 DEF IInv, OneDecision
<1>6. DecidedByRight'
  BY <1>4 DEF IInv, DecidedByRight
<1> QED BY <1>3, <1>4, <1>5, <1>6

\* Delivering a decision, of the clock or of the wait's own user, decides a wait
\* that is not decided yet and no other.
LEMMA DeliverDecision ==
    ASSUME IInv, NEW v \in Waits, NEW d \in Decisions, Deliver(v, d), UNCHANGED verdict,
           d \in Resolves => d \notin Strangers /\ TargetOf[d] = v
    PROVE  /\ OneDecision' /\ DecidedByRight'
           /\ \A w \in Waits : w # v \/ v \in fired => Decided(w)' = Decided(w)
           /\ v \notin fired => Decided(v)' = d
<1>1. slot \in [Waits -> Decisions \cup {None}] /\ d # None
  BY TypeParts, GateAssumption DEF IInv, Decisions
<1>2. \A w \in Waits : w # v \/ v \in fired => Decided(w)' = Decided(w)
  BY <1>1 DEF Deliver, Decided
<1>3. v \notin fired => verdict[v] = None
  BY DEF IInv, OneDecision, Decided
<1>4. v \notin fired => Decided(v)' = d
  BY <1>1, <1>3 DEF Deliver, Decided
<1>5. OneDecision'
  BY <1>1, <1>2, <1>3, <1>4 DEF IInv, OneDecision, Deliver
<1>6. DecidedByRight'
  BY <1>2, <1>4 DEF IInv, DecidedByRight
<1> QED BY <1>2, <1>4, <1>5, <1>6

\* What a status says stays true when decisions stay.
LEMMA TrueStatusStays ==
    ASSUME DecisionsStay, NEW r \in Resolves, NEW status, StatusIsTrue(r, status)
    PROVE  /\ status = "ok" => Decided(TargetOf[r])' = r
           /\ status = "already" => Decided(TargetOf[r])' \notin {None} \cup ({r} \ Resent)
           /\ status = "mismatch" => r \in Strangers
BY GateAssumption DEF DecisionsStay, StatusIsTrue

\* Replies and acknowledgements stay true when decisions stay and none is added.
LEMMA StatusesStay ==
    ASSUME IInv, DecisionsStay
    PROVE  /\ (\A c \in Resolves : acks'[c] \subseteq acks[c]) => AcksAreTrue'
           /\ UNCHANGED reply => RepliesAreTrue'
<1>1. ASSUME \A c \in Resolves : acks'[c] \subseteq acks[c] PROVE AcksAreTrue'
  <2> SUFFICES ASSUME NEW c \in Resolves, NEW ack \in acks'[c]
               PROVE  StatusIsTrue(ack[1], ack[2])'
    BY DEF AcksAreTrue
  <2>1. ack \in acks[c] /\ ack[1] \in Resolves
    BY <1>1, TypeParts DEF IInv
  <2>2. StatusIsTrue(ack[1], ack[2])
    BY <2>1 DEF IInv, AcksAreTrue
  <2> QED BY <2>1, <2>2, TrueStatusStays DEF StatusIsTrue
<1>2. ASSUME UNCHANGED reply PROVE RepliesAreTrue'
  <2> SUFFICES ASSUME NEW r \in Resolves PROVE StatusIsTrue(r, reply[r])'
    BY DEF RepliesAreTrue
  <2>1. StatusIsTrue(r, reply[r])
    BY DEF IInv, RepliesAreTrue
  <2> QED BY <1>2, <2>1, TrueStatusStays DEF StatusIsTrue
<1> QED BY <1>1, <1>2

\* A reply that is true of the next state keeps replies and acknowledgements true.
LEMMA ReplyStays ==
    ASSUME IInv, DecisionsStay, NEW r \in Resolves, NEW why, Reply(r, why),
           StatusIsTrue(r, why)'
    PROVE  AcksAreTrue' /\ RepliesAreTrue'
<1>1. reply' = [reply EXCEPT ![r] = why] /\ acks' = [acks EXCEPT ![r] = {}]
  BY DEF Reply
<1>2. AcksAreTrue'
  BY <1>1, StatusesStay, TypeParts DEF IInv
<1>3. RepliesAreTrue'
  <2> SUFFICES ASSUME NEW c \in Resolves PROVE StatusIsTrue(c, reply[c])'
    BY DEF RepliesAreTrue
  <2>1. CASE c = r
    BY <1>1, <2>1, TypeParts DEF IInv, StatusIsTrue
  <2>2. CASE c # r
    <3>1. StatusIsTrue(c, reply[c]) /\ reply'[c] = reply[c]
      BY <1>1, <2>2, TypeParts DEF IInv, RepliesAreTrue
    <3> QED BY <3>1, TrueStatusStays DEF StatusIsTrue
  <2> QED BY <2>1, <2>2
<1> QED BY <1>2, <1>3

\* So does an acknowledgement that is true of the next state.
LEMMA AcknowledgeStays ==
    ASSUME IInv, DecisionsStay, NEW r \in Resolves, NEW status,
           Acknowledge(r, status), UNCHANGED reply,
           StatusIsTrue(r, status)'
    PROVE  AcksAreTrue' /\ RepliesAreTrue'
<1>1. \A c \in Resolves : acks'[c] \subseteq acks[c] \cup {<<r, status>>}
  BY DEF Acknowledge
<1>2. AcksAreTrue'
  <2> SUFFICES ASSUME NEW c \in Resolves, NEW ack \in acks'[c]
               PROVE  StatusIsTrue(ack[1], ack[2])'
    BY DEF AcksAreTrue
  <2>1. CASE ack = <<r, status>>
    BY <2>1 DEF StatusIsTrue
  <2>2. CASE ack \in acks[c]
    <3>1. ack[1] \in Resolves /\ StatusIsTrue(ack[1], ack[2])
      BY <2>2, TypeParts DEF IInv, AcksAreTrue
    <3> QED BY <3>1, TrueStatusStays DEF StatusIsTrue
  <2> QED BY <1>1, <2>1, <2>2
<1> QED BY <1>2, StatusesStay

\* A decision is offered once: d is the decision this step delivers, if any.
LEMMA OfferedOnceKept ==
    ASSUME IInv, NEW d,
           \A w \in Waits : Decided(w)' \in {Decided(w), d},
           \A r \in Resolves :
              /\ step'[r] \in {"idle", "lookup", "deliver", "publish"} =>
                    step[r] \in {"idle", "lookup", "deliver", "publish"}
              /\ step'[r] = "deliver" => Entitled(r)
              /\ \A i \in Instances :
                    /\ r \in inbox'[i] =>
                          \/ r \in inbox[i]
                          \/ /\ step[r] = "publish"
                             /\ step'[r] \notin {"idle", "lookup", "deliver", "publish"}
                    /\ handling'[i] = r =>
                          \/ handling[i] = r
                          \/ /\ r \in inbox[i] /\ r \notin inbox'[i]
                             /\ i = HomeOf[TargetOf[r]] /\ Entitled(r)
              /\ r = d => /\ step'[r] \notin {"idle", "lookup", "deliver", "publish"}
                          /\ r \notin inbox'[HomeOf[TargetOf[r]]]
                          /\ \A i \in Instances : handling'[i] # r
    PROVE  OfferedOnce'
<1> SUFFICES ASSUME NEW r \in Resolves
             PROVE  (/\ step[r] \in {"idle", "lookup", "deliver", "publish"} =>
                           /\ Decided(TargetOf[r]) # r
                           /\ \A i \in Instances : r \notin inbox[i] /\ handling[i] # r
                     /\ step[r] = "deliver" => Entitled(r)
                     /\ r \in inbox[HomeOf[TargetOf[r]]] =>
                           /\ Decided(TargetOf[r]) # r
                           /\ \A i \in Instances : handling[i] # r
                     /\ \A i \in Instances : handling[i] = r =>
                           /\ i = HomeOf[TargetOf[r]]
                           /\ Entitled(r)
                           /\ Decided(TargetOf[r]) # r)'
  BY DEF OfferedOnce
<1>1. TargetOf[r] \in Waits /\ HomeOf[TargetOf[r]] \in Instances
  BY GateAssumption
<1>2. Decided(TargetOf[r])' = r => Decided(TargetOf[r]) = r \/ r = d
  BY <1>1
<1>3. ASSUME step'[r] \in {"idle", "lookup", "deliver", "publish"}
      PROVE  /\ Decided(TargetOf[r])' # r
             /\ \A i \in Instances : r \notin inbox'[i] /\ handling'[i] # r
  BY <1>2, <1>3 DEF IInv, OfferedOnce
<1>4. ASSUME r \in inbox'[HomeOf[TargetOf[r]]]
      PROVE  /\ Decided(TargetOf[r])' # r
             /\ \A i \in Instances : handling'[i] # r
  BY <1>1, <1>2, <1>4 DEF IInv, OfferedOnce
<1>5. ASSUME NEW i \in Instances, handling'[i] = r
      PROVE  i = HomeOf[TargetOf[r]] /\ Entitled(r) /\ Decided(TargetOf[r])' # r
  BY <1>1, <1>2, <1>5 DEF IInv, OfferedOnce
<1> QED BY <1>3, <1>4, <1>5 DEF Entitled

-----------------------------------------------------------------------------
(* The steps keep the invariant *)

\* A step that leaves the calls and the bus alone and decides with d at most keeps
\* what concerns them.
LEMMA CallsUntouched ==
    ASSUME IInv, NEW d, d \notin Resolves,
           \A w \in Waits : Decided(w)' \in {Decided(w), d},
           DecisionsStay, UNCHANGED <<callVars, busVars>>
    PROVE  OfferedOnce' /\ AcksAreTrue' /\ RepliesAreTrue'
<1>1. UNCHANGED <<step, at, reply, acks, inbox, handling>>
  BY DEF callVars, busVars
<1>2. \A r \in Resolves : step[r] = "deliver" => Entitled(r)
  BY DEF IInv, OfferedOnce
<1>3. OfferedOnce'
  BY <1>1, <1>2, OfferedOnceKept
<1>4. AcksAreTrue' /\ RepliesAreTrue'
  BY <1>1, StatusesStay
<1> QED BY <1>3, <1>4

\* The steps of a tool execution keep the invariant.
LEMMA WaitKeeps ==
    ASSUME IInv, TypeOK', NEW w \in Waits, WaitStep(w)
    PROVE  IInv'
<1>1. stage \in [Waits -> Stages] /\ verdict \in [Waits -> Decisions \cup {None}]
  BY TypeParts DEF IInv
<1>2. ASSUME UNCHANGED <<slot, fired, verdict>>, UNCHANGED <<callVars, busVars>>,
             CalledWithApproval'
      PROVE  IInv'
  <2>1. /\ OneDecision' /\ DecidedByRight'
        /\ \A v \in Waits : Decided(v)' = Decided(v)
    BY <1>2, NoDecision
  <2>2. DecisionsStay /\ None \notin Resolves
    BY <2>1, GateAssumption DEF DecisionsStay
  <2>3. OfferedOnce' /\ AcksAreTrue' /\ RepliesAreTrue'
    BY <1>2, <2>1, <2>2, CallsUntouched
  <2> QED BY <1>2, <2>1, <2>3 DEF IInv
<1>3. CASE Execute(w)
  <2>1. CalledWithApproval'
    BY <1>1, <1>3 DEF Execute, Goto, NeedsApproval, IInv, CalledWithApproval
  <2> QED BY <1>2, <1>3, <2>1 DEF Execute, waiterVars
<1>4. CASE Register(w)
  <2>1. CalledWithApproval'
    BY <1>1, <1>4 DEF Register, Goto, IInv, CalledWithApproval
  <2> QED BY <1>2, <1>4, <2>1 DEF Register
<1>5. CASE \E why \in Expiries : Expire(w, why)
  <2>1. PICK why \in Expiries : Expire(w, why)
    BY <1>5
  <2>2. why \in Decisions /\ why \notin Resolves
    BY GateAssumption DEF Decisions
  <2>3. /\ OneDecision' /\ DecidedByRight'
        /\ \A v \in Waits : v # w \/ w \in fired => Decided(v)' = Decided(v)
        /\ w \notin fired => Decided(w)' = why
    BY <2>1, <2>2, DeliverDecision DEF Expire
  <2>4. DecisionsStay
    BY <2>3 DEF DecisionsStay, IInv, OneDecision
  <2>5. OfferedOnce' /\ AcksAreTrue' /\ RepliesAreTrue'
    BY <2>1, <2>2, <2>3, <2>4, CallsUntouched DEF Expire
  <2>6. CalledWithApproval'
    BY <1>1, <2>1 DEF Expire, Goto, IInv, CalledWithApproval
  <2> QED BY <2>3, <2>5, <2>6 DEF IInv
<1>6. CASE Receive(w)
  <2>1. /\ OneDecision' /\ DecidedByRight'
        /\ \A v \in Waits : Decided(v)' = Decided(v)
        /\ verdict[w] = None
    BY <1>6, ReceiveDecision
  <2>2. DecisionsStay /\ None \notin Resolves /\ None \notin Approvals
    BY <2>1, GateAssumption DEF DecisionsStay
  <2>3. OfferedOnce' /\ AcksAreTrue' /\ RepliesAreTrue'
    BY <1>6, <2>1, <2>2, CallsUntouched DEF Receive
  <2>4. CalledWithApproval'
    BY <1>1, <1>6, <2>1, <2>2 DEF Receive, Goto, IInv, CalledWithApproval
  <2> QED BY <2>1, <2>3, <2>4 DEF IInv
<1>7. CASE Unregister(w)
  <2>1. CalledWithApproval'
    BY <1>1, <1>7 DEF Unregister, Goto, IInv, CalledWithApproval
  <2> QED BY <1>2, <1>7, <2>1 DEF Unregister
<1>8. CASE CallTool(w)
  <2>1. CalledWithApproval'
    BY <1>1, <1>8 DEF CallTool, At, Goto, IInv, CalledWithApproval
  <2> QED BY <1>2, <1>8, <2>1 DEF CallTool, waiterVars
<1> QED BY <1>3, <1>4, <1>5, <1>6, <1>7, <1>8 DEF WaitStep

\* A step of a Resolve or a subscriber does not touch the tool executions.
LEMMA WaitsUntouched ==
    ASSUME IInv, UNCHANGED waitVars
    PROVE  CalledWithApproval'
BY DEF waitVars, IInv, CalledWithApproval

\* The outcome of delivering a decision that was never offered before is true.
LEMMA ResultIsTrue ==
    ASSUME IInv, NEW r \in Resolves, Entitled(r), Decided(TargetOf[r]) # r,
           Deliver(TargetOf[r], r), UNCHANGED waitVars
    PROVE  /\ OneDecision' /\ DecidedByRight' /\ DecisionsStay
           /\ \A w \in Waits : Decided(w)' \in {Decided(w), r}
           /\ Result(r) = "ok" => Decided(TargetOf[r])' = r
           /\ Result(r) = "already" => Decided(TargetOf[r])' \notin {None, r}
           /\ Result(r) \in {"ok", "already"} /\ Decided(TargetOf[r])' # None
<1>1. TargetOf[r] \in Waits /\ r \in Decisions
  BY GateAssumption DEF Decisions
<1>2. /\ OneDecision' /\ DecidedByRight'
      /\ \A w \in Waits : w # TargetOf[r] \/ TargetOf[r] \in fired => Decided(w)' = Decided(w)
      /\ TargetOf[r] \notin fired => Decided(TargetOf[r])' = r
  BY <1>1, DeliverDecision DEF Entitled, waitVars
<1>3. TargetOf[r] \in fired <=> Decided(TargetOf[r]) # None
  BY <1>1 DEF IInv, OneDecision
<1>4. DecisionsStay
  BY <1>2, <1>3 DEF DecisionsStay
<1>5. Decided(TargetOf[r])' # None
  BY <1>1, <1>2, <1>3, GateAssumption
<1> QED BY <1>1, <1>2, <1>3, <1>4, <1>5 DEF Result

\* The steps of a Resolve keep the invariant.
LEMMA CallKeeps ==
    ASSUME IInv, TypeOK', NEW r \in Resolves, CallStep(r)
    PROVE  IInv'
<1>1. /\ step \in [Resolves -> Steps]
      /\ reply \in [Resolves -> {"none", "not_found", "error"} \cup Statuses]
      /\ acks \in [Resolves -> SUBSET (Resolves \X Statuses)]
      /\ inbox \in [Instances -> SUBSET Resolves]
  BY TypeParts DEF IInv
<1>2. None \notin Resolves /\ \A c \in Resolves : step[c] = "deliver" => Entitled(c)
  BY GateAssumption DEF IInv, OfferedOnce
<1>3. ASSUME UNCHANGED <<waitVars, waiterVars>>, OfferedOnce', AcksAreTrue', RepliesAreTrue'
      PROVE  IInv'
  BY <1>3, NoDecision, WaitsUntouched DEF waitVars, waiterVars, IInv
<1>4. ASSUME UNCHANGED <<waitVars, waiterVars>>
      PROVE  DecisionsStay /\ \A w \in Waits : Decided(w)' \in {Decided(w), None}
  BY <1>4, NoDecision DEF waitVars, waiterVars, DecisionsStay
<1>5. ASSUME NEW why \in {"none", "not_found", "error", "mismatch", "ok", "already"},
             Reply(r, why), StatusIsTrue(r, why), UNCHANGED <<waiterVars, busVars>>
      PROVE  IInv'
  <2>1. UNCHANGED waitVars /\ step' = [step EXCEPT ![r] = "done"]
    BY <1>5 DEF Reply, GotoStep
  <2>2. OfferedOnce'
    BY <1>1, <1>2, <1>4, <1>5, <2>1, OfferedOnceKept DEF busVars
  <2>3. StatusIsTrue(r, why)'
    BY <1>4, <1>5, <2>1, TrueStatusStays DEF StatusIsTrue
  <2>4. AcksAreTrue' /\ RepliesAreTrue'
    BY <1>4, <1>5, <2>1, <2>3, ReplyStays
  <2> QED BY <1>3, <1>5, <2>1, <2>2, <2>4
<1>6. ASSUME NEW label \in {"lookup", "publish", "deliver"}, Proceed(r, label),
             label = "deliver" => Entitled(r), AtStep(r, "idle") \/ AtStep(r, "lookup")
      PROVE  IInv'
  <2>1. /\ step' = [step EXCEPT ![r] = label]
        /\ UNCHANGED <<waitVars, waiterVars, reply, acks, busVars>>
    BY <1>6 DEF Proceed, GotoStep
  <2>2. OfferedOnce'
    BY <1>1, <1>2, <1>4, <1>6, <2>1, OfferedOnceKept DEF busVars, AtStep
  <2>3. AcksAreTrue' /\ RepliesAreTrue'
    BY <1>4, <2>1, StatusesStay
  <2> QED BY <1>3, <2>1, <2>2, <2>3
<1>7. CASE Begin(r)
  <2>1. /\ step' = [step EXCEPT ![r] = "lookup"] /\ step[r] = "idle"
        /\ UNCHANGED <<waitVars, waiterVars, reply, acks, busVars>>
    BY <1>7 DEF Begin, GotoStep, AtStep
  <2>2. OfferedOnce'
    BY <1>1, <1>2, <1>4, <2>1, OfferedOnceKept DEF busVars
  <2>3. AcksAreTrue' /\ RepliesAreTrue'
    BY <1>4, <2>1, StatusesStay
  <2> QED BY <1>3, <2>1, <2>2, <2>3
<1>8. CASE LookUp(r)
  <2>1. ~Entitled(r) => StatusIsTrue(r, "mismatch")
    BY DEF Entitled, StatusIsTrue
  <2> QED BY <1>5, <1>6, <1>8, <2>1 DEF LookUp
<1>9. CASE DeliverLocal(r)
  <2>1. /\ step[r] = "deliver" /\ Deliver(TargetOf[r], r)
        /\ Reply(r, Result(r)) /\ UNCHANGED <<pending, busVars>>
    BY <1>9 DEF DeliverLocal, AtStep
  <2>2. /\ Entitled(r) /\ Decided(TargetOf[r]) # r
        /\ \A i \in Instances : r \notin inbox[i] /\ handling[i] # r
    BY <2>1 DEF IInv, OfferedOnce
  <2>3. UNCHANGED waitVars /\ step' = [step EXCEPT ![r] = "done"]
    BY <2>1 DEF Reply, GotoStep
  <2>4. /\ OneDecision' /\ DecidedByRight' /\ DecisionsStay
        /\ \A w \in Waits : Decided(w)' \in {Decided(w), r}
        /\ Result(r) = "ok" => Decided(TargetOf[r])' = r
        /\ Result(r) = "already" => Decided(TargetOf[r])' \notin {None, r}
        /\ Result(r) \in {"ok", "already"}
    BY <2>1, <2>2, <2>3, ResultIsTrue
  <2>5. PICK status \in {"ok", "already"} : status = Result(r)
    BY <2>4
  <2>6. StatusIsTrue(r, status)'
    BY <2>4, <2>5 DEF StatusIsTrue
  <2>7. AcksAreTrue' /\ RepliesAreTrue'
    BY <2>1, <2>4, <2>5, <2>6, ReplyStays
  <2>8. HomeOf[TargetOf[r]] \in Instances
    BY GateAssumption
  <2>9. OfferedOnce'
    BY <1>1, <1>2, <2>1, <2>2, <2>3, <2>4, <2>8, OfferedOnceKept DEF busVars
  <2> QED BY <2>3, <2>4, <2>7, <2>9, WaitsUntouched DEF IInv
<1>10. CASE Publish(r)
  <2>1. PICK label \in {"await", "done"} : step' = [step EXCEPT ![r] = label]
    BY <1>10 DEF Publish, Reply, GotoStep
  <2>2. /\ step[r] = "publish" /\ UNCHANGED <<waitVars, waiterVars, handling>>
        /\ \A i \in Instances : inbox'[i] \subseteq inbox[i] \cup {r}
    BY <1>10 DEF Publish, Broadcast, AtStep, Reply
  <2>3. OfferedOnce'
    BY <1>1, <1>2, <1>4, <2>1, <2>2, OfferedOnceKept
  <2>4. CASE UNCHANGED <<reply, acks>>
    BY <1>3, <1>4, <2>2, <2>3, <2>4, StatusesStay
  <2>5. CASE Reply(r, "error")
    <3>1. StatusIsTrue(r, "error")'
      BY DEF StatusIsTrue
    <3> QED BY <1>3, <1>4, <2>2, <2>3, <2>5, <3>1, ReplyStays
  <2> QED BY <1>10, <2>4, <2>5 DEF Publish
<1>11. CASE ReadAck(r)
  <2>1. PICK ack \in acks[r] :
          \/ ack[1] = r /\ Reply(r, ack[2])
          \/ /\ acks' = [acks EXCEPT ![r] = @ \ {ack}]
             /\ UNCHANGED <<waitVars, step, at, reply, crashes>>
    BY <1>11 DEF ReadAck
  <2>2. UNCHANGED <<waiterVars, busVars>>
    BY <1>11 DEF ReadAck
  <2>3. CASE ack[1] = r /\ Reply(r, ack[2])
    <3>1. StatusIsTrue(r, ack[2])
      BY <2>3 DEF IInv, AcksAreTrue
    <3>2. ack[2] \in {"ok", "already", "mismatch"}
      BY <1>1 DEF Statuses
    <3> QED BY <1>5, <2>2, <2>3, <3>1, <3>2
  <2>4. CASE ~(ack[1] = r /\ Reply(r, ack[2]))
    <3>1. OfferedOnce'
      BY <1>2, <1>4, <2>1, <2>2, <2>4, OfferedOnceKept DEF busVars
    <3>2. \A c \in Resolves : acks'[c] \subseteq acks[c]
      BY <1>1, <2>1, <2>4
    <3> QED BY <1>3, <1>4, <2>1, <2>2, <2>4, <3>1, <3>2, StatusesStay
  <2> QED BY <2>3, <2>4
<1>12. CASE AckTimeout(r)
  <2>1. StatusIsTrue(r, "not_found")
    BY DEF StatusIsTrue
  <2> QED BY <1>5, <1>12, <2>1 DEF AckTimeout
<1> QED BY <1>7, <1>8, <1>9, <1>10, <1>11, <1>12 DEF CallStep

\* The steps of a subscriber keep the invariant.
LEMMA SubscriberKeeps ==
    ASSUME IInv, TypeOK', NEW i \in Instances, Subscriber(i)
    PROVE  IInv'
<1>1. PICK r \in Resolves : TakeMessage(i, r) \/ DeliverMessage(i, r)
  BY DEF Subscriber
<1>2. /\ inbox \in [Instances -> SUBSET Resolves]
      /\ handling \in [Instances -> Resolves \cup {None}]
  BY TypeParts DEF IInv
<1>3. None \notin Resolves /\ \A c \in Resolves : step[c] = "deliver" => Entitled(c)
  BY GateAssumption DEF IInv, OfferedOnce
<1>4. CASE TakeMessage(i, r)
  <2>1. /\ r \in inbox[i] /\ handling[i] = None
        /\ inbox' = [inbox EXCEPT ![i] = @ \ {r}]
        /\ \/ UNCHANGED handling
           \/ /\ i = HomeOf[TargetOf[r]] /\ Entitled(r)
              /\ handling' = [handling EXCEPT ![i] = r]
        /\ UNCHANGED <<waitVars, waiterVars, step, reply>>
    BY <1>4 DEF TakeMessage, Known
  <2>2. /\ OneDecision' /\ DecidedByRight'
        /\ \A w \in Waits : Decided(w)' = Decided(w)
    BY <2>1, NoDecision DEF waitVars, waiterVars
  <2>3. DecisionsStay
    BY <2>2 DEF DecisionsStay
  <2>4. OfferedOnce'
    <3>1. \A j \in Instances : inbox'[j] \subseteq inbox[j]
      BY <1>2, <2>1
    <3>2. r \notin inbox'[i]
      BY <1>2, <2>1
    <3>3. ASSUME NEW c \in Resolves, NEW j \in Instances, handling'[j] = c
          PROVE  \/ handling[j] = c
                 \/ /\ c \in inbox[j] /\ c \notin inbox'[j]
                    /\ j = HomeOf[TargetOf[c]] /\ Entitled(c)
      <4>1. CASE handling' = handling
        BY <3>3, <4>1
      <4>2. CASE handling' # handling
        BY <1>2, <2>1, <3>2, <3>3, <4>2
      <4> QED BY <4>1, <4>2
    <3>4. step' = step /\ \A w \in Waits : Decided(w)' \in {Decided(w), None}
      BY <2>1, <2>2
    <3> QED BY <1>3, <3>1, <3>3, <3>4, OfferedOnceKept
  <2>5. CASE UNCHANGED acks
    <3>1. AcksAreTrue' /\ RepliesAreTrue'
      BY <2>1, <2>3, <2>5, StatusesStay
    <3> QED BY <2>1, <2>2, <2>4, <3>1, WaitsUntouched DEF IInv
  <2>6. CASE ~Entitled(r) /\ Acknowledge(r, "mismatch")
    <3>1. StatusIsTrue(r, "mismatch")'
      BY <2>6 DEF StatusIsTrue, Entitled
    <3>2. AcksAreTrue' /\ RepliesAreTrue'
      BY <2>1, <2>3, <2>6, <3>1, AcknowledgeStays
    <3> QED BY <2>1, <2>2, <2>4, <3>2, WaitsUntouched DEF IInv
  <2> QED BY <1>4, <2>5, <2>6 DEF TakeMessage
<1>5. CASE DeliverMessage(i, r)
  <2>1. /\ handling[i] = r /\ Deliver(TargetOf[r], r)
        /\ \E status \in Outcomes(r) : Acknowledge(r, status)
        /\ handling' = [handling EXCEPT ![i] = None]
        /\ UNCHANGED <<waitVars, step, reply, inbox>>
    BY <1>5 DEF DeliverMessage
  <2>2. /\ Entitled(r) /\ Decided(TargetOf[r]) # r /\ i = HomeOf[TargetOf[r]]
        /\ step[r] \notin {"idle", "lookup", "deliver", "publish"}
        /\ r \notin inbox[HomeOf[TargetOf[r]]]
    BY <2>1 DEF IInv, OfferedOnce
  <2>3. \A j \in Instances : handling'[j] # r
    BY <1>2, <1>3, <2>1 DEF IInv, OfferedOnce
  <2>4. /\ OneDecision' /\ DecidedByRight' /\ DecisionsStay
        /\ \A w \in Waits : Decided(w)' \in {Decided(w), r}
        /\ Result(r) = "ok" => Decided(TargetOf[r])' = r
        /\ Result(r) = "already" => Decided(TargetOf[r])' \notin {None, r}
        /\ Decided(TargetOf[r])' # None
    BY <2>1, <2>2, ResultIsTrue
  <2>5. PICK status \in {"ok", "already"} : status \in Outcomes(r) /\ Acknowledge(r, status)
    BY <2>1, ResultTyped
  <2>6. StatusIsTrue(r, status)'
    BY <2>4, <2>5 DEF StatusIsTrue, Outcomes
  <2>7. AcksAreTrue' /\ RepliesAreTrue'
    BY <2>1, <2>4, <2>5, <2>6, AcknowledgeStays
  <2>8. \A j \in Instances : \A c \in Resolves : handling'[j] = c => handling[j] = c
    BY <1>2, <1>3, <2>1
  <2>9. OfferedOnce'
    BY <1>3, <2>1, <2>2, <2>3, <2>4, <2>8, OfferedOnceKept
  <2> QED BY <2>1, <2>4, <2>7, <2>9, WaitsUntouched DEF IInv
<1> QED BY <1>1, <1>4, <1>5

\* A crash decides nothing and offers nothing: it only forgets.
LEMMA CrashKeeps ==
    ASSUME IInv, TypeOK', NEW i \in Instances, Crash(i)
    PROVE  IInv'
<1>1. /\ inbox \in [Instances -> SUBSET Resolves]
      /\ handling \in [Instances -> Resolves \cup {None}]
  BY TypeParts DEF IInv
<1>2. None \notin Resolves /\ \A c \in Resolves : step[c] = "deliver" => Entitled(c)
  BY GateAssumption DEF IInv, OfferedOnce
<1>3. UNCHANGED <<exempt, slot, fired, verdict, called, reply, acks>>
  BY DEF Crash
<1>4. /\ OneDecision' /\ DecidedByRight'
      /\ \A w \in Waits : Decided(w)' = Decided(w)
  BY <1>3, NoDecision
<1>5. DecisionsStay
  BY <1>4 DEF DecisionsStay
<1>6. AcksAreTrue' /\ RepliesAreTrue'
  BY <1>3, <1>5, StatusesStay
<1>7. \A r \in Resolves : step'[r] \in {step[r], "lost"}
  BY DEF Crash
<1>8. \A j \in Instances : /\ inbox'[j] \subseteq inbox[j]
                           /\ \A r \in Resolves : handling'[j] = r => handling[j] = r
  BY <1>1, <1>2 DEF Crash
<1>9. OfferedOnce'
  BY <1>2, <1>4, <1>7, <1>8, OfferedOnceKept
<1>10. \A w \in Waits : stage'[w] = "call" => stage[w] = "call"
  BY DEF Crash
<1>11. CalledWithApproval'
  BY <1>3, <1>10 DEF IInv, CalledWithApproval
<1> QED BY <1>4, <1>6, <1>9, <1>11 DEF IInv

\* The inductive invariant holds in every reachable state of the gate.
LEMMA InvariantHolds == Spec => []IInv
<1>1. Init /\ TypeOK => IInv
  <2> SUFFICES ASSUME Init, TypeOK PROVE IInv
    OBVIOUS
  <2>1. \A w \in Waits : Decided(w) = None
    BY DEF Init, Decided
  <2>2. OneDecision /\ DecidedByRight
    BY <2>1, GateAssumption DEF Init, OneDecision, DecidedByRight
  <2>3. OfferedOnce
    <3>1. \A r \in Resolves : r # None /\ TargetOf[r] \in Waits
                             /\ HomeOf[TargetOf[r]] \in Instances
      BY GateAssumption
    <3>2. \A i \in Instances : inbox[i] = {} /\ handling[i] = None
      BY DEF Init
    <3>3. \A r \in Resolves : step[r] = "idle"
      BY DEF Init
    <3> QED BY <2>1, <3>1, <3>2, <3>3 DEF OfferedOnce
  <2>4. AcksAreTrue /\ RepliesAreTrue /\ CalledWithApproval
    BY DEF Init, AcksAreTrue, RepliesAreTrue, StatusIsTrue, CalledWithApproval
  <2> QED BY <2>2, <2>3, <2>4 DEF IInv
<1>2. IInv /\ TypeOK' /\ [Next]_vars => IInv'
  <2> SUFFICES ASSUME IInv, TypeOK', [Next]_vars PROVE IInv'
    OBVIOUS
  <2>1. CASE UNCHANGED vars
    <3>1. UNCHANGED <<waitVars, callVars, busVars>> /\ UNCHANGED <<slot, fired, verdict>>
      BY <2>1 DEF vars, waitVars, waiterVars
    <3>2. /\ OneDecision' /\ DecidedByRight'
          /\ \A w \in Waits : Decided(w)' = Decided(w)
      BY <3>1, NoDecision
    <3>3. DecisionsStay /\ None \notin Resolves
      BY <3>2, GateAssumption DEF DecisionsStay
    <3>4. OfferedOnce' /\ AcksAreTrue' /\ RepliesAreTrue'
      BY <3>1, <3>2, <3>3, CallsUntouched
    <3> QED BY <3>1, <3>2, <3>4, WaitsUntouched DEF IInv
  <2> QED BY <2>1, WaitKeeps, CallKeeps, SubscriberKeeps, CrashKeeps DEF Next
<1> QED BY <1>1, <1>2, TypeCorrect, PTL DEF Spec

-----------------------------------------------------------------------------
(* The results *)

\* Whoever is told "ok", by the waiter's own instance or by an acknowledgement that
\* crossed Redis, made the decision the tool call acts on.
THEOREM OkMeansDecidedTheorem == Spec => []OkMeansDecided
<1>1. IInv => OkMeansDecided
  BY DEF IInv, RepliesAreTrue, StatusIsTrue, OkMeansDecided
<1> QED BY <1>1, InvariantHolds, PTL

\* Whoever is refused did not decide, unless the Redis client sent its message twice:
\* "already" means that another decision stands, "mismatch" that the call is another
\* tenant's or another user's.
THEOREM RefusalsAreTrueTheorem == Spec => []RefusalsAreTrue
<1>1. IInv => RefusalsAreTrue
  BY DEF IInv, RepliesAreTrue, StatusIsTrue, RefusalsAreTrue
<1> QED BY <1>1, InvariantHolds, PTL

\* A tool whose policy asks for approval, or whose policy could not be read, is
\* called only on the approval of the session's own user.
THEOREM RunsWithConsentTheorem == Spec => []RunsWithConsent
<1>1. IInv => RunsWithConsent
  <2> SUFFICES ASSUME IInv, NEW w \in Waits, w \in called \ exempt
               PROVE  verdict[w] \in Approvals \ Strangers /\ TargetOf[verdict[w]] = w
    BY DEF RunsWithConsent
  <2>1. verdict[w] \in Approvals
    BY DEF IInv, CalledWithApproval
  <2>2. Decided(w) = verdict[w] /\ verdict[w] \in Resolves
    BY <2>1, GateAssumption DEF Decided
  <2> QED BY <2>1, <2>2 DEF IInv, DecidedByRight
<1> QED BY <1>1, InvariantHolds, PTL
=============================================================================
