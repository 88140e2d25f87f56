---------------------------- MODULE Negotiation ----------------------------
(***************************************************************************)
(* A poster and a worker that settle tasks over XMTP: the transport of     *)
(* src/agents/src/sdk/xmtp/transport.ts and the NegotiationHandlers of     *)
(* handlers.ts, with the registry they settle on.                          *)
(*                                                                         *)
(* The transport hands every message to its handlers twice, from the       *)
(* onValue callback and from the loop over the stream, and the two run     *)
(* side by side: a handler stops at each await, and other handlers, the    *)
(* chain and the counterparty take their steps in between.  A contract     *)
(* call returns when its transaction is broadcast, after a dry run; mining *)
(* comes later and may revert it.                                          *)
(***************************************************************************)
EXTENDS Integers, FiniteSets

CONSTANTS
    Negotiations,   \* negotiation ids
    Tasks,          \* tasks on the market of both agents
    OurTasks,       \* those between this poster and this worker
    Routes,         \* the ways a message is dispatched: onValue and the loop
    Envelopes,      \* messages the worker may send, each at most once
    None,           \* an id that is not there
    Funded          \* what every task is funded with

ASSUME OursAssumption == OurTasks \subseteq Tasks
ASSUME NoneAssumption == None \notin Negotiations \union Tasks
ASSUME FundedAssumption == Funded \in Nat \ {0}

Kinds == {"DeliveryNotice", "PaymentFull", "PaymentPartial", "TaskAcceptance"}

ASSUME EnvelopeAssumption ==
    Envelopes \subseteq [kind : Kinds, negotiation : Negotiations, task : Tasks,
                         amount : 0..Funded]

VARIABLES
    task,           \* the registry: state, deliveredAt > 0, released
    boundTask,      \* negotiationTaskMap of the poster's transport
    boundNegotiation, \* its taskNegotiationMap
    accepted,       \* negotiations with an accepted TaskAcceptance
    autoAccept,     \* the poster's opt-in, fixed at its start
    handler,        \* the poster's handler of an envelope, per route
    pool,           \* transactions broadcast and not mined; equal ones are one
    sent,           \* envelopes the worker has sent
    answers         \* AcceptDelivery messages of the poster, by the notice

bindingVars == <<boundTask, boundNegotiation>>
vars == <<task, bindingVars, accepted, autoAccept, handler, pool, sent,
          answers>>

States == {"CLAIMED", "ACTIVE", "COMPLETED", "CLOSED"}

\* offered: the application holds a decision, which it may take at any time.
Steps == {"idle", "reading", "automatic", "offered", "done", "rejected"}

Transaction(kind, e, automatic) ==
    [kind |-> kind, envelope |-> e, automatic |-> automatic]

TypeOK ==
    /\ task \in [Tasks -> [state : States, delivered : BOOLEAN,
                           released : 0..Funded]]
    /\ boundTask \in [Negotiations -> Tasks \union {None}]
    /\ boundNegotiation \in [Tasks -> Negotiations \union {None}]
    /\ accepted \subseteq Negotiations
    /\ autoAccept \in BOOLEAN
    /\ handler \in [Routes -> [Envelopes -> Steps]]
    /\ pool \subseteq [kind : {"markDelivered", "complete", "release"},
                       envelope : Envelopes, automatic : BOOLEAN]
    /\ sent \subseteq Envelopes
    /\ answers \subseteq sent

Init ==
    /\ task = [t \in Tasks |->
                 [state |-> "CLAIMED", delivered |-> FALSE, released |-> 0]]
    /\ boundTask = [n \in Negotiations |-> None]
    /\ boundNegotiation = [t \in Tasks |-> None]
    /\ accepted = {}
    /\ autoAccept \in BOOLEAN
    /\ handler = [r \in Routes |-> [e \in Envelopes |-> "idle"]]
    /\ pool = {}
    /\ sent = {}
    /\ answers = {}

-----------------------------------------------------------------------------
(* The registry.                                                           *)

TaskMoves(t, from, to) ==
    /\ task[t].state \in from
    /\ task' = [task EXCEPT ![t].state = to]
    /\ UNCHANGED <<bindingVars, accepted, autoAccept, handler, pool, sent,
                   answers>>

PosterFunds(t) == TaskMoves(t, {"CLAIMED"}, "ACTIVE")

\* A dispute or an expiry takes the task out of the parties' hands.
TaskCloses(t) == TaskMoves(t, {"CLAIMED", "ACTIVE"}, "CLOSED")

\* What the registry requires of a transaction, at the dry run and when mined.
Accepts(tx) ==
    LET row == task[tx.envelope.task]
    IN  /\ row.state = "ACTIVE"
        /\ tx.kind = "markDelivered" => ~row.delivered
        /\ tx.kind = "release" => row.released + tx.envelope.amount <= Funded

Applied(tx) ==
    LET row == task[tx.envelope.task]
        paid == IF tx.kind = "complete" THEN Funded
                ELSE row.released + tx.envelope.amount
    IN  IF tx.kind = "markDelivered"
        THEN [row EXCEPT !.delivered = TRUE]
        ELSE [row EXCEPT !.released = paid,
                         !.state = IF paid = Funded THEN "COMPLETED" ELSE @]

Mine(tx) ==
    /\ tx \in pool
    /\ pool' = pool \ {tx}
    /\ task' = IF Accepts(tx)
               THEN [task EXCEPT ![tx.envelope.task] = Applied(tx)] ELSE task
    /\ UNCHANGED <<bindingVars, accepted, autoAccept, handler, sent, answers>>

-----------------------------------------------------------------------------
(* The bindings.                                                           *)

\* bindTaskId refuses to bind either side twice, and repeats silently.
CanBind(n, t) ==
    /\ boundTask[n] \in {None, t}
    /\ boundNegotiation[t] \in {None, n}

Bind(n, t) ==
    /\ CanBind(n, t)
    /\ boundTask' = [boundTask EXCEPT ![n] = t]
    /\ boundNegotiation' = [boundNegotiation EXCEPT ![t] = n]

\* The application binds a negotiation to a task, whoever works on that task.
PosterBinds(n, t) ==
    /\ Bind(n, t)
    /\ UNCHANGED <<task, accepted, autoAccept, handler, pool, sent, answers>>

-----------------------------------------------------------------------------
(* The worker, and the workers of other tasks.                             *)

OtherDelivers(t) ==
    /\ t \notin OurTasks
    /\ task[t].state = "ACTIVE" /\ ~task[t].delivered
    /\ task' = [task EXCEPT ![t].delivered = TRUE]
    /\ UNCHANGED <<bindingVars, accepted, autoAccept, handler, pool, sent,
                   answers>>

\* sendDeliveryNotice broadcasts markDelivered and sends the notice at once.
WorkerDelivers(e) ==
    LET tx == Transaction("markDelivered", e, FALSE)
    IN  /\ e.kind = "DeliveryNotice"
        /\ e.task \in OurTasks
        /\ e \notin sent
        /\ Accepts(tx)
        /\ pool' = pool \union {tx}
        /\ sent' = sent \union {e}
        /\ UNCHANGED <<task, bindingVars, accepted, autoAccept, handler,
                       answers>>

\* sendPaymentRequest and sendTaskAcceptance.
WorkerSends(e) ==
    /\ e.kind # "DeliveryNotice"
    /\ e \notin sent
    /\ sent' = sent \union {e}
    /\ UNCHANGED <<task, bindingVars, accepted, autoAccept, handler, pool,
                   answers>>

-----------------------------------------------------------------------------
(* The poster's handlers, one action from each await to the next.  Who the *)
(* parties of a claimed task are never changes, and neither does a binding *)
(* once made: what only reads them is no step of its own.                  *)

Step(r, e, from, to) ==
    /\ handler[r][e] = from
    /\ handler' = [handler EXCEPT ![r][e] = to]

Quiet == UNCHANGED <<task, bindingVars, accepted, autoAccept, pool, sent,
                     answers>>

(* Mutant: the negotiation is bound, to whatever task.                       *)
BoundToAnything(e) == boundTask[e.negotiation] # None

\* requireBoundSettlementTask.
IsBound(e) == boundTask[e.negotiation] = e.task

(* Mutant: who works on the task is not looked up.                          *)
AnyParties(e) == e.task \in Tasks

\* requireSettlementParties.
OurParties(e) == e.task \in OurTasks

\* dispatchMessage and handle: a request to settle an unbound task is rejected,
\* and one for the wrong task or for one that is not between the two.
Dispatch(r, e) ==
    /\ e \in sent /\ e.kind # "TaskAcceptance"
    /\ Step(r, e, "idle",
            IF IsBound(e) /\ OurParties(e) THEN "reading" ELSE "rejected")
    /\ Quiet

\* onTaskAcceptance with both signatures: it binds what is bound already.
TakeAcceptance(r, e) ==
    LET matches == IsBound(e) /\ OurParties(e)
    IN  /\ e \in sent /\ e.kind = "TaskAcceptance"
        /\ Step(r, e, "idle", IF matches THEN "done" ELSE "rejected")
        /\ IF matches
           THEN /\ Bind(e.negotiation, e.task)
                /\ accepted' = accepted \union {e.negotiation}
           ELSE UNCHANGED <<bindingVars, accepted>>
        /\ UNCHANGED <<task, autoAccept, pool, sent, answers>>

(* Mutant: an ACTIVE task is taken for a delivered one.                      *)
ActiveIsVerified(t) == task[t].state = "ACTIVE"

\* The delivery is verified against the chain.
Verified(t) == task[t].state = "ACTIVE" /\ task[t].delivered

\* With the opt-in a verified delivery is settled at once.  Any other is handed
\* to the application as a decision, which it can take all the same.
Verify(r, e) ==
    /\ Step(r, e, "reading",
            IF autoAccept /\ Verified(e.task) THEN "automatic" ELSE "offered")
    /\ Quiet

Settlement(e, automatic) ==
    Transaction(IF e.kind = "PaymentPartial" THEN "release" ELSE "complete",
                e, automatic)

CanSettle(e) ==
    /\ e.kind = "PaymentPartial" => e.amount > 0
    /\ Accepts(Settlement(e, FALSE))

\* accept and approve: complete or release is broadcast if its dry run
\* succeeds, and a notice is answered as soon as that returns.
Settle(e, automatic) ==
    /\ CanSettle(e)
    /\ pool' = pool \union {Settlement(e, automatic)}
    /\ answers' = IF e.kind = "DeliveryNotice" THEN answers \union {e}
                                               ELSE answers
    /\ UNCHANGED <<task, bindingVars, accepted, autoAccept, sent>>

\* The handler settles by itself and hands the decision on even so, ...
SettleAutomatically(r, e) ==
    /\ Step(r, e, "automatic", "offered")
    /\ Settle(e, TRUE)

\* ... unless the call throws.
CannotSettle(r, e) ==
    /\ ~CanSettle(e)
    /\ Step(r, e, "automatic", "rejected")
    /\ Quiet

\* The application takes a decision it was given, with or without the opt-in,
\* verified or not, and as often as it likes; a call that throws changes nothing.
Accept(r, e) ==
    /\ handler[r][e] = "offered"
    /\ Settle(e, FALSE)
    /\ UNCHANGED handler

HandlerStep(r, e) ==
    \/ Dispatch(r, e)
    \/ TakeAcceptance(r, e)
    \/ Verify(r, e)
    \/ SettleAutomatically(r, e)
    \/ CannotSettle(r, e)
    \/ Accept(r, e)

Next ==
    \/ \E t \in Tasks : PosterFunds(t) \/ TaskCloses(t) \/ OtherDelivers(t)
    \/ \E tx \in pool : Mine(tx)
    \/ \E n \in Negotiations, t \in Tasks : PosterBinds(n, t)
    \/ \E e \in Envelopes : WorkerDelivers(e) \/ WorkerSends(e)
    \/ \E r \in Routes, e \in Envelopes : HandlerStep(r, e)

Spec == Init /\ [][Next]_vars

-----------------------------------------------------------------------------
(* What makes the negotiation correct.                                     *)

Settlements == {tx \in pool : tx.kind \in {"complete", "release"}}

\* A message of one negotiation never pays for the task of another, nor for a
\* task of the poster on which another worker works: whatever the worker names
\* in its envelopes, whatever negotiations are bound to whatever tasks while a
\* handler waits, and whatever the application decides, what the poster
\* broadcasts is for the one task bound to the negotiation, and that task is
\* between the two of them.
PaysBoundTaskOnly ==
    \A tx \in Settlements :
        /\ boundTask[tx.envelope.negotiation] = tx.envelope.task
        /\ boundNegotiation[tx.envelope.task] = tx.envelope.negotiation
        /\ tx.envelope.task \in OurTasks

\* What a handler settles by itself was delivered on chain before, although a
\* notice may arrive before markDelivered is mined and another handler may
\* settle first; and it settles by itself with the opt-in only.  An application
\* that accepts an unverified notice may pay for less: that is its decision.
SettlesOnlyDelivered ==
    \A tx \in Settlements :
        tx.automatic => autoAccept /\ task[tx.envelope.task].delivered

=============================================================================
