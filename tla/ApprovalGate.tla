---------------------------- MODULE ApprovalGate ----------------------------
(***************************************************************************)
(* Human approval of tool calls (internal/agent/approval/gate.go) and the  *)
(* tool execution that waits for it (internal/agent/tools/mcp_tool.go).    *)
(*                                                                         *)
(* A tool call waits in the memory of the instance that runs it.  The      *)
(* decision is an HTTP call that may reach any instance; one that does not *)
(* know the wait publishes the decision over Redis Pub/Sub and hopes for   *)
(* an acknowledgement within three seconds.  Published messages and        *)
(* acknowledgements may be lost, late or overtaken by a timeout, and an    *)
(* instance may die with everything it keeps in memory.                    *)
(*                                                                         *)
(* A decision is named by the call that made it.                           *)
(***************************************************************************)
EXTENDS Integers, FiniteSets

CONSTANTS
    Waits,       \* executions of a tool
    Resolves,    \* calls of Resolve
    Instances,
    HomeOf,      \* the instance that executes a tool
    TargetOf,    \* the wait a Resolve is about
    Approvals,   \* the Resolves that approve
    Strangers,   \* the Resolves of another tenant or another user
    FailClose,   \* FALSE: WEKNORA_AGENT_TOOL_APPROVAL_FAIL_OPEN
    Resent,      \* the Resolves whose PUBLISH the Redis client repeats by itself
    MaxCrashes,  \* bound on the crashes of an instance
    None

Expiries == {"timeout", "canceled"}  \* the decisions of the timer and the context

ASSUME GateAssumption ==
    /\ HomeOf \in [Waits -> Instances]
    /\ TargetOf \in [Resolves -> Waits]
    /\ Approvals \subseteq Resolves /\ Strangers \subseteq Resolves
    /\ Resent \subseteq Resolves
    /\ FailClose \in BOOLEAN /\ MaxCrashes \in Nat
    /\ None \notin Resolves \cup Expiries /\ Resolves \cap Expiries = {}

VARIABLES
    stage,     \* of a wait
    exempt,    \* the waits that pass without approval
    pending,   \* the waiters in the maps of the instances
    shown,     \* the waits whose prompt reached the user's stream
    slot,      \* the buffered channel of a waiter
    fired,     \* the waiters whose once has run
    verdict,   \* the decision a wait received
    called,    \* the waits whose tool was called
    step,      \* of a Resolve
    at,        \* the instance it runs on
    reply,     \* what it returned
    inbox,     \* the published Resolves on their way to an instance
    handling,  \* the Resolve the subscriber of an instance is working on
    acks,      \* the acknowledgements on their way to a Resolve
    crashes

waitVars == <<stage, exempt, shown, verdict, called>>
waiterVars == <<pending, slot, fired>>
callVars == <<step, at, reply, acks>>
busVars == <<inbox, handling>>
vars == <<waitVars, waiterVars, callVars, busVars, crashes>>

-----------------------------------------------------------------------------
(* The waiter *)

(* waiter.deliver: the first decision enters the channel, a later one is   *)
(* told that it lost.                                                      *)
Deliver(w, d) ==
    /\ fired' = fired \cup {w}
    /\ slot' = IF w \in fired THEN slot ELSE [slot EXCEPT ![w] = d]

Known(r, i) == TargetOf[r] \in pending /\ HomeOf[TargetOf[r]] = i

\* Mutant: only the pending identity is compared.
MutantAnyCaller(r) == TRUE

(* deliverLocal: the tenant and the user of the session.  A waiter without *)
(* a user, which the code lets every user of the tenant resolve, does not  *)
(* occur: an execution always has its session's principal.                 *)
Entitled(r) == r \notin Strangers

(* What the second half of deliverLocal, outside the lock, returns. *)
Result(r) == IF TargetOf[r] \in fired THEN "already" ELSE "ok"

-----------------------------------------------------------------------------
(* A tool execution *)

At(w, label) == stage[w] = label
Goto(w, label) == stage' = [stage EXCEPT ![w] = label]

NeedsApproval(answer) == answer = "required" \/ (answer = "error" /\ FailClose)

(* Execute: a disabled tool is not called; the policy is asked, unless the *)
(* call comes without an event bus to ask the user over.                   *)
Execute(w) ==
    /\ At(w, "new")
    /\ \/ Goto(w, "done") /\ UNCHANGED exempt
       \/ \E answer \in {"required", "free", "error", "unasked"} :
             /\ exempt' = IF answer \in {"free", "unasked"} \/ (answer = "error" /\ ~FailClose)
                          THEN exempt \cup {w} ELSE exempt
             /\ Goto(w, IF NeedsApproval(answer) THEN "register" ELSE "call")
    /\ UNCHANGED <<shown, verdict, called, waiterVars, callVars, busVars, crashes>>

(* RequestAndWait: the waiter enters the map, then the prompt is emitted;  *)
(* the stream may lose it, which its handler only logs, and an error of    *)
(* the event bus ends the wait without a decision.                         *)
Register(w) ==
    /\ At(w, "register")
    /\ pending' = pending \cup {w}
    /\ shown' \in {shown, shown \cup {w}}
    /\ \/ Goto(w, "select")
       \/ Goto(w, "unregister")
    /\ UNCHANGED <<exempt, verdict, called, slot, fired, callVars, busVars, crashes>>

\* Mutant: the expired branch waits for a decision without offering its own.
MutantExpireSilently(w, why) ==
    /\ At(w, "select")
    /\ Goto(w, "receive")
    /\ UNCHANGED <<exempt, shown, verdict, called, waiterVars, callVars, busVars, crashes>>

(* The select takes the timer or the cancelled context, possibly although  *)
(* a decision is waiting: the refusal it delivers then loses.              *)
Expire(w, why) ==
    /\ At(w, "select")
    /\ Deliver(w, why)
    /\ Goto(w, "receive")
    /\ UNCHANGED <<exempt, shown, verdict, called, pending, callVars, busVars, crashes>>

Receive(w) ==
    /\ stage[w] \in {"select", "receive"} /\ slot[w] # None
    /\ verdict' = [verdict EXCEPT ![w] = slot[w]]
    /\ slot' = [slot EXCEPT ![w] = None]
    /\ Goto(w, "unregister")
    /\ UNCHANGED <<exempt, shown, called, pending, fired, callVars, busVars, crashes>>

(* The deferred delete, and what Execute makes of the decision; modified   *)
(* arguments that do not validate end the call.                            *)
Unregister(w) ==
    /\ At(w, "unregister")
    /\ pending' = pending \ {w}
    /\ \/ verdict[w] \in Approvals /\ Goto(w, "call")
       \/ Goto(w, "done")
    /\ UNCHANGED <<exempt, shown, verdict, called, slot, fired, callVars, busVars, crashes>>

(* connectAndCall: the connection may fail before the tool is called; a    *)
(* call that failed on its connection is made once more.                   *)
CallTool(w) ==
    /\ At(w, "call")
    /\ called' \in {called, called \cup {w}}
    /\ Goto(w, "done")
    /\ UNCHANGED <<exempt, shown, verdict, waiterVars, callVars, busVars, crashes>>

-----------------------------------------------------------------------------
(* A Resolve *)

AtStep(r, label) == step[r] = label
GotoStep(r, label) == step' = [step EXCEPT ![r] = label]

Reply(r, why) ==
    /\ GotoStep(r, "done")
    /\ reply' = [reply EXCEPT ![r] = why]
    /\ at' = [at EXCEPT ![r] = None]
    /\ acks' = [acks EXCEPT ![r] = {}]
    /\ UNCHANGED <<waitVars, crashes>>

Proceed(r, label) ==
    /\ GotoStep(r, label)
    /\ UNCHANGED <<waitVars, waiterVars, at, reply, acks, busVars, crashes>>

(* The user answers a prompt, perhaps one that is long over. *)
Begin(r) ==
    /\ AtStep(r, "idle") /\ TargetOf[r] \in shown
    /\ at' \in {[at EXCEPT ![r] = i] : i \in Instances}
    /\ GotoStep(r, "lookup")
    /\ UNCHANGED <<waitVars, waiterVars, reply, acks, busVars, crashes>>

(* deliverLocal under the lock. *)
LookUp(r) ==
    /\ AtStep(r, "lookup")
    /\ \/ ~Known(r, at[r]) /\ Proceed(r, "publish")
       \/ Known(r, at[r]) /\ Entitled(r) /\ Proceed(r, "deliver")
       \/ Known(r, at[r]) /\ ~Entitled(r) /\ Reply(r, "mismatch") /\ UNCHANGED <<waiterVars, busVars>>

DeliverLocal(r) ==
    /\ AtStep(r, "deliver")
    /\ Deliver(TargetOf[r], r)
    /\ Reply(r, Result(r))
    /\ UNCHANGED <<pending, busVars>>

\* The subscribers that are connected receive the message.
Broadcast(r) ==
    \E reached \in SUBSET (Instances \ {at[r]}) :
        inbox' = [i \in Instances |-> IF i \in reached THEN inbox[i] \cup {r} ELSE inbox[i]]

\* Mutant: a publish that fails is repeated.
MutantRepublish(r) ==
    /\ AtStep(r, "publish")
    /\ Broadcast(r)
    /\ \/ GotoStep(r, "await")
       \/ UNCHANGED step
    /\ UNCHANGED <<waitVars, waiterVars, at, reply, acks, handling, crashes>>

(* resolveCrossInstance: the reply channel is subscribed before anything   *)
(* is published, so an acknowledgement cannot come too early.  Either may  *)
(* fail, and a publish that times out may have been sent all the same.     *)
Publish(r) ==
    /\ AtStep(r, "publish")
    /\ Broadcast(r)
    /\ \/ GotoStep(r, "await") /\ UNCHANGED <<waitVars, at, reply, acks, crashes>>
       \/ Reply(r, "error")
    /\ UNCHANGED <<waiterVars, handling>>

\* Mutant: whatever arrives on the reply channel is the answer.
MutantAnyAck(r) ==
    /\ AtStep(r, "await")
    /\ \E ack \in acks[r] : Reply(r, ack[2])
    /\ UNCHANGED <<waiterVars, busVars>>

(* The reply channel belongs to the wait; the nonce tells whose            *)
(* acknowledgement it is.                                                  *)
ReadAck(r) ==
    /\ AtStep(r, "await")
    /\ \E ack \in acks[r] :
          \/ ack[1] = r /\ Reply(r, ack[2])
          \/ /\ ack[1] # r
             /\ acks' = [acks EXCEPT ![r] = @ \ {ack}]
             /\ UNCHANGED <<waitVars, step, at, reply, crashes>>
    /\ UNCHANGED <<waiterVars, busVars>>

\* Mutant: the caller waits as long as it takes.
MutantNoAckWindow(r) == FALSE /\ UNCHANGED vars

AckTimeout(r) ==
    /\ AtStep(r, "await")
    /\ Reply(r, "not_found")
    /\ UNCHANGED <<waiterVars, busVars>>

-----------------------------------------------------------------------------
(* The subscriber of an instance, one message at a time *)

(* The acknowledgement reaches the callers that wait on the reply channel  *)
(* of the same wait, unless it is lost.                                    *)
Acknowledge(r, status) ==
    \E lost \in BOOLEAN :
        acks' = [c \in Resolves |->
            IF ~lost /\ AtStep(c, "await") /\ TargetOf[c] = TargetOf[r]
            THEN acks[c] \cup {<<r, status>>} ELSE acks[c]]

\* Mutant: an instance that does not know the wait says so.
MutantDenyUnknown(i, r) ==
    /\ handling[i] = None /\ r \in inbox[i]
    /\ inbox' = [inbox EXCEPT ![i] = @ \ {r}]
    /\ ~Known(r, i) /\ Acknowledge(r, "not_found")
    /\ UNCHANGED <<waitVars, waiterVars, step, at, reply, handling, crashes>>

(* runSubscriber, first half of deliverLocal: whoever does not know the    *)
(* wait stays silent.                                                      *)
TakeMessage(i, r) ==
    /\ handling[i] = None /\ r \in inbox[i]
    /\ inbox' = [inbox EXCEPT ![i] = @ \ {r}]
    /\ \/ ~Known(r, i) /\ UNCHANGED <<handling, acks>>
       \/ Known(r, i) /\ ~Entitled(r) /\ Acknowledge(r, "mismatch") /\ UNCHANGED handling
       \/ /\ Known(r, i) /\ Entitled(r)
          /\ handling' = [handling EXCEPT ![i] = r]
          /\ UNCHANGED acks
    /\ UNCHANGED <<waitVars, waiterVars, step, at, reply, crashes>>

(* What a delivery is acknowledged with.  A copy of the message, sent      *)
(* again by the client library when it missed an answer, finds the waiter  *)
(* fired, and its acknowledgement may be the one that arrives.             *)
Outcomes(r) == {Result(r)} \cup (IF r \in Resent THEN {"already"} ELSE {})

DeliverMessage(i, r) ==
    /\ handling[i] = r
    /\ Deliver(TargetOf[r], r)
    /\ \E status \in Outcomes(r) : Acknowledge(r, status)
    /\ handling' = [handling EXCEPT ![i] = None]
    /\ UNCHANGED <<waitVars, pending, step, at, reply, inbox, crashes>>

-----------------------------------------------------------------------------
(* An instance dies and starts again with empty memory. *)
Crash(i) ==
    /\ crashes < MaxCrashes
    /\ crashes' = crashes + 1
    /\ stage' = [w \in Waits |-> IF HomeOf[w] = i /\ ~At(w, "done") /\ ~At(w, "new")
                                 THEN "lost" ELSE stage[w]]
    /\ pending' = {w \in pending : HomeOf[w] # i}
    /\ step' = [r \in Resolves |-> IF at[r] = i /\ ~AtStep(r, "idle") /\ ~AtStep(r, "done")
                                   THEN "lost" ELSE step[r]]
    /\ inbox' = [inbox EXCEPT ![i] = {}]
    /\ handling' = [handling EXCEPT ![i] = None]
    /\ UNCHANGED <<exempt, shown, slot, fired, verdict, called, at, reply, acks>>

Init ==
    /\ stage = [w \in Waits |-> "new"] /\ exempt = {}
    /\ pending = {} /\ shown = {} /\ slot = [w \in Waits |-> None] /\ fired = {}
    /\ verdict = [w \in Waits |-> None] /\ called = {}
    /\ step = [r \in Resolves |-> "idle"] /\ reply = [r \in Resolves |-> "none"]
    /\ at = [r \in Resolves |-> None]
    /\ inbox = [i \in Instances |-> {}] /\ handling = [i \in Instances |-> None]
    /\ acks = [r \in Resolves |-> {}]
    /\ crashes = 0

WaitStep(w) ==
    \/ Execute(w) \/ Register(w)
    \/ (\E why \in Expiries : Expire(w, why))
    \/ Receive(w) \/ Unregister(w) \/ CallTool(w)

CallStep(r) ==
    \/ Begin(r) \/ LookUp(r) \/ DeliverLocal(r) \/ Publish(r)
    \/ ReadAck(r) \/ AckTimeout(r)

Subscriber(i) ==
    \E r \in Resolves : TakeMessage(i, r) \/ DeliverMessage(i, r)

Next ==
    \/ \E w \in Waits : WaitStep(w)
    \/ \E r \in Resolves : CallStep(r)
    \/ \E i \in Instances : Subscriber(i) \/ Crash(i)

Spec == Init /\ [][Next]_vars

(* A goroutine that is running goes on when it can, and timers fire.  No   *)
(* user has to answer, and Redis promises nothing.                         *)
FairSpec ==
    /\ Spec
    /\ \A w \in Waits : WF_vars(~At(w, "new") /\ WaitStep(w))
    /\ \A r \in Resolves : WF_vars(~AtStep(r, "idle") /\ CallStep(r))

-----------------------------------------------------------------------------
(* Properties *)

Decisions == Resolves \cup Expiries
Stages == {"new", "register", "select", "receive", "unregister", "call", "done", "lost"}
Steps == {"idle", "lookup", "deliver", "publish", "await", "done", "lost"}
Statuses == {"ok", "already", "mismatch"}

(* Every variable holds values of the vocabulary the code gives it.        *)
TypeOK ==
    /\ stage \in [Waits -> Stages]
    /\ \A waits \in {exempt, pending, shown, fired, called} : waits \subseteq Waits
    /\ slot \in [Waits -> Decisions \cup {None}] /\ verdict \in [Waits -> Decisions \cup {None}]
    /\ step \in [Resolves -> Steps] /\ at \in [Resolves -> Instances \cup {None}]
    /\ reply \in [Resolves -> {"none", "not_found", "error"} \cup Statuses]
    /\ inbox \in [Instances -> SUBSET Resolves]
    /\ handling \in [Instances -> Resolves \cup {None}]
    /\ acks \in [Resolves -> SUBSET (Resolves \X Statuses)]
    /\ crashes \in Nat

Decided(w) == IF verdict[w] # None THEN verdict[w] ELSE slot[w]

(* A caller that was told "ok", directly or by an acknowledgement from     *)
(* another instance, made the decision: it is the one the tool call acts   *)
(* on, however it raced the timer, a cancellation and the other callers    *)
(* (deliver, the nonce of the acknowledgements).                           *)
OkMeansDecided ==
    \A r \in Resolves : reply[r] = "ok" => Decided(TargetOf[r]) = r

(* A caller that was refused did not decide: "already" means that somebody *)
(* else or the clock did, "mismatch" that the call had no right to.  Only  *)
(* a call whose PUBLISH was sent twice can be told "already" of its own    *)
(* decision.                                                               *)
RefusalsAreTrue ==
    \A r \in Resolves :
        /\ reply[r] = "already" => Decided(TargetOf[r]) \notin {None} \cup ({r} \ Resent)
        /\ reply[r] = "mismatch" => r \in Strangers

(* A tool whose policy asks for approval, or whose policy could not be     *)
(* read, is called only on the approval of the session's own user, never   *)
(* on a timeout, a cancellation or anybody else's decision.                *)
RunsWithConsent ==
    \A w \in Waits :
        w \in called \ exempt =>
            verdict[w] \in Approvals \ Strangers /\ TargetOf[verdict[w]] = w

(* Every tool call that began ends, whatever happens to prompts, decisions *)
(* and Redis: the expired branch never waits for a decision that nobody    *)
(* will make.                                                              *)
WaitsEnd == \A w \in Waits : (stage[w] # "new") ~> (stage[w] \in {"done", "lost"})

(* Every caller gets an answer, whether or not an instance knows the wait. *)
CallersAreAnswered ==
    \A r \in Resolves : (step[r] # "idle") ~> (step[r] \in {"done", "lost"})
=============================================================================
