----------------------------- MODULE LiveWorker -----------------------------
(***************************************************************************)
(* LiveWorkerService of src/agents/src/reference/live-worker.ts: an agent  *)
(* that reads proposals from its XMTP conversations, claims the task each  *)
(* one names, waits until the poster has funded it, marks it delivered on  *)
(* chain and sends a DeliveryNotice.                                       *)
(*                                                                         *)
(* A message reaches the service by three routes: the catch-up of start(), *)
(* the agent's stream and the poll of every three seconds.  A handler runs *)
(* from one await to the next; between its steps the other handlers, the   *)
(* chain and the poster take theirs.  All the service knows is in memory:  *)
(* a crash forgets the handlers and the set of seen messages, but not the  *)
(* transactions already sent.                                              *)
(***************************************************************************)
EXTENDS Naturals

CONSTANTS
    Tasks,          \* tasks on the market the worker serves
    Messages,       \* messages peers may send to the worker
    Subject,        \* the task a message proposes
    Pings,          \* messages whose text contains the word "ping"
    MaxFaults       \* bound on crashes and failed calls together

ASSUME SubjectAssumption == Subject \in [Messages -> Tasks]
ASSUME PingAssumption == Pings \subseteq Messages
ASSUME FaultAssumption == MaxFaults \in Nat

VARIABLES
    task,           \* what the registry says of each task
    delivered,      \* tasks this worker has marked delivered on chain
    inbox,          \* messages stored in the conversations
    phase,          \* the service: down, catching up, or live
    seen,           \* seenMessageIds
    handler,        \* where the handler of a message stands, per route
    sent,           \* transactions sent and not mined yet
    notices,        \* DeliveryNotices sent for each task
    faults          \* crashes and failed calls so far

chainVars == <<task, delivered>>
vars == <<task, delivered, inbox, phase, seen, handler, sent, notices, faults>>

Routes == {"catchup", "stream", "poll"}

\* The registry's states as the worker tells them apart: claimed and active
\* tasks are its own or another worker's.
TaskStates == {"POSTED", "CLAIMED", "ACTIVE", "RIVAL", "CLOSED"}

\* The await a handler stopped at.  The last five are ends.
Steps == {"idle", "opening", "reading", "claiming", "claimSent", "waiting",
          "delivering", "deliverySent", "noticing",
          "done", "ignored", "refused", "timedOut", "failed"}
Ends == {"done", "ignored", "refused", "timedOut", "failed"}

Transactions == [kind : {"claim", "deliver"}, route : Routes \union {"lost"},
                 message : Messages]

TypeOK ==
    /\ task \in [Tasks -> TaskStates]
    /\ delivered \subseteq Tasks
    /\ inbox \subseteq Messages
    /\ phase \in {"down", "catchup", "live"}
    /\ seen \subseteq Messages
    /\ handler \in [Routes -> [Messages -> Steps]]
    /\ sent \subseteq Transactions
    /\ notices \in [Tasks -> Nat]
    /\ faults \in 0..MaxFaults

NoHandlers == [r \in Routes |-> [m \in Messages |-> "idle"]]

Init ==
    /\ task = [t \in Tasks |-> "POSTED"]
    /\ delivered = {}
    /\ inbox = {}
    /\ phase = "down"
    /\ seen = {}
    /\ handler = NoHandlers
    /\ sent = {}
    /\ notices = [t \in Tasks |-> 0]
    /\ faults = 0

Busy(r, m) == handler[r][m] \notin Ends \union {"idle"}
At(r, m, step) == handler[r][m] = step
Goes(r, m, step) == handler' = [handler EXCEPT ![r][m] = step]

-----------------------------------------------------------------------------
(* The world around the service.                                           *)

\* A peer sends a message; XMTP keeps it in the conversation.
PeerSends(m) ==
    /\ m \notin inbox
    /\ inbox' = inbox \union {m}
    /\ UNCHANGED <<chainVars, phase, seen, handler, sent, notices, faults>>

\* Another worker claims; the poster funds in full; a task ends by cancel,
\* expire, complete or a dispute.
TaskMoves(t, from, to) ==
    /\ task[t] \in from
    /\ task' = [task EXCEPT ![t] = to]
    /\ UNCHANGED <<delivered, inbox, phase, seen, handler, sent, notices, faults>>

RivalClaims(t) == TaskMoves(t, {"POSTED"}, "RIVAL")
PosterFunds(t) == TaskMoves(t, {"CLAIMED"}, "ACTIVE")
TaskEnds(t) == TaskMoves(t, TaskStates \ {"CLOSED"}, "CLOSED")

\* A transaction is mined: claim needs a POSTED task, markDelivered an ACTIVE
\* one of this worker not delivered yet; otherwise it reverts.  wait() tells
\* the handler which sent it, unless a crash has taken that one away.
Mine(tx) ==
    LET t == Subject[tx.message]
        succeeds == IF tx.kind = "claim"
                    THEN task[t] = "POSTED"
                    ELSE task[t] = "ACTIVE" /\ t \notin delivered
        next == IF tx.kind = "claim"
                THEN IF succeeds THEN "waiting" ELSE "refused"
                ELSE IF succeeds THEN "noticing" ELSE "failed"
    IN  /\ tx \in sent
        /\ sent' = sent \ {tx}
        /\ task' = IF succeeds /\ tx.kind = "claim"
                   THEN [task EXCEPT ![t] = "CLAIMED"] ELSE task
        /\ delivered' = IF succeeds /\ tx.kind = "deliver"
                        THEN delivered \union {t} ELSE delivered
        /\ IF tx.route = "lost" THEN UNCHANGED handler
                                ELSE Goes(tx.route, tx.message, next)
        /\ UNCHANGED <<inbox, phase, seen, notices, faults>>

-----------------------------------------------------------------------------
(* start, stop and crash.                                                  *)

Start ==
    /\ phase = "down"
    /\ phase' = "catchup"
    /\ UNCHANGED <<chainVars, inbox, seen, handler, sent, notices, faults>>

\* catchUpExistingMessages awaits each handler before the next message and
\* before the stream and the poll are set up.  It goes through the messages
\* it fetched: one that is sent meanwhile is left to the poll.
CaughtUp ==
    /\ phase = "catchup"
    /\ \A m \in Messages : ~Busy("catchup", m)
    /\ phase' = "live"
    /\ UNCHANGED <<chainVars, inbox, seen, handler, sent, notices, faults>>

\* What the process had in memory is gone; what it sent may still be mined.
Stopped ==
    /\ phase' = "down"
    /\ seen' = {}
    /\ handler' = NoHandlers
    /\ sent' = {[tx EXCEPT !.route = "lost"] : tx \in sent}

Crash ==
    /\ phase # "down"
    /\ faults < MaxFaults
    /\ faults' = faults + 1
    /\ Stopped
    /\ UNCHANGED <<chainVars, inbox, notices>>

-----------------------------------------------------------------------------
(* The handler of one message.                                             *)

\* handleInboundMessage and onTextLike: a message that is not in the set of
\* seen ones enters it before the first await.
Unseen(m) == m \notin seen

(* Mutant: a message enters the set only when its handler is through.        *)
SeenWhenDone(m) == seen' = seen \union {x \in Messages :
                                \E r \in Routes : handler[r][x] \in Ends}

MarkSeen(m) == seen' = seen \union {m}

RouteOpen(r) ==
    IF r = "catchup"
    THEN phase = "catchup" /\ \A m \in Messages : ~Busy("catchup", m)
    ELSE phase = "live"

Receive(r, m) ==
    /\ m \in inbox
    /\ RouteOpen(r)
    /\ Unseen(m)
    /\ MarkSeen(m)
    /\ Goes(r, m, IF r = "stream" THEN "reading" ELSE "opening")
    /\ UNCHANGED <<chainVars, inbox, phase, sent, notices, faults>>

\* The catch-up and the poll set the peer's consent and fetch the
\* conversation before they look at the text.
Open(r, m) ==
    /\ At(r, m, "opening")
    /\ Goes(r, m, "reading")
    /\ UNCHANGED <<chainVars, inbox, phase, seen, sent, notices, faults>>

(* Mutant: a claimed task is taken for one's own.                            *)
ReadWithoutCheck(r, m) ==
    /\ At(r, m, "reading")
    /\ Goes(r, m, IF m \in Pings THEN "done"
                  ELSE IF task[Subject[m]] = "POSTED" THEN "claiming"
                  ELSE "waiting")
    /\ UNCHANGED <<chainVars, inbox, phase, seen, sent, notices, faults>>

\* handleTextMessage and handleTaskProposal up to the claim: a text with the
\* word "ping" in it is answered with a pong, and a proposal is dropped
\* unless its task is POSTED when it is read.
Read(r, m) ==
    /\ At(r, m, "reading")
    /\ Goes(r, m, IF m \in Pings THEN "done"
                  ELSE IF task[Subject[m]] = "POSTED" THEN "claiming"
                  ELSE "ignored")
    /\ UNCHANGED <<chainVars, inbox, phase, seen, sent, notices, faults>>

\* claim and markDelivered are sent, then awaited.
Submit(r, m, step, kind, next) ==
    /\ At(r, m, step)
    /\ sent' = sent \union {[kind |-> kind, route |-> r, message |-> m]}
    /\ Goes(r, m, next)
    /\ UNCHANGED <<chainVars, inbox, phase, seen, notices, faults>>

SubmitClaim(r, m) == Submit(r, m, "claiming", "claim", "claimSent")
SubmitDelivery(r, m) ==
    Submit(r, m, "delivering", "deliver", "deliverySent")

\* waitForActive: a look that finds the task ACTIVE and fully funded ends the
\* wait; the timeout ends it with a message that asks for the proposal again.
FundingSeen(t) == task[t] = "ACTIVE"

SeeActive(r, m) ==
    /\ At(r, m, "waiting")
    /\ FundingSeen(Subject[m])
    /\ Goes(r, m, "delivering")
    /\ UNCHANGED <<chainVars, inbox, phase, seen, sent, notices, faults>>

(* Mutant: the wait ends only when the task is ACTIVE.                       *)
NeverTimesOut(r, m) ==
    /\ At(r, m, "waiting") /\ FundingSeen(Subject[m])
    /\ Goes(r, m, "timedOut")
    /\ UNCHANGED <<chainVars, inbox, phase, seen, sent, notices, faults>>

WaitTimesOut(r, m) ==
    /\ At(r, m, "waiting")
    /\ Goes(r, m, "timedOut")
    /\ UNCHANGED <<chainVars, inbox, phase, seen, sent, notices, faults>>

SendNotice(r, m) ==
    /\ At(r, m, "noticing")
    /\ notices' = [notices EXCEPT ![Subject[m]] = @ + 1]
    /\ Goes(r, m, "done")
    /\ UNCHANGED <<chainVars, inbox, phase, seen, sent, faults>>

\* What was sent by a handler that no longer awaits it.
LostFrom(r, m) ==
    {IF tx.route = r /\ tx.message = m THEN [tx EXCEPT !.route = "lost"] ELSE tx :
        tx \in sent}

\* A call fails, or the wait for a transaction that may still be mined does.
\* A failed claim is reported to the peer and a failed delivery logged; an
\* error of any other call leaves the handler, and in the catch-up it leaves
\* start(), which stops the process.
Caught == {"claiming", "claimSent", "delivering", "deliverySent"}

CallFails(r, m) ==
    /\ Busy(r, m)
    /\ faults < MaxFaults
    /\ faults' = faults + 1
    /\ IF r = "catchup" /\ handler[r][m] \notin Caught
       THEN Stopped
       ELSE /\ Goes(r, m, IF handler[r][m] \in {"claiming", "claimSent"}
                          THEN "refused" ELSE "failed")
            /\ sent' = LostFrom(r, m)
            /\ UNCHANGED <<phase, seen>>
    /\ UNCHANGED <<chainVars, inbox, notices>>

-----------------------------------------------------------------------------
HandlerStep(r, m) ==
    \/ Open(r, m)
    \/ Read(r, m)
    \/ SubmitClaim(r, m)
    \/ SeeActive(r, m)
    \/ WaitTimesOut(r, m)
    \/ SubmitDelivery(r, m)
    \/ SendNotice(r, m)

Next ==
    \/ \E m \in Messages : PeerSends(m)
    \/ \E t \in Tasks : RivalClaims(t) \/ PosterFunds(t) \/ TaskEnds(t)
    \/ \E tx \in sent : Mine(tx)
    \/ Start
    \/ CaughtUp
    \/ Crash
    \/ \E r \in Routes, m \in Messages :
        Receive(r, m) \/ HandlerStep(r, m) \/ CallFails(r, m)

\* The event loop runs every handler that can go on, the poll runs every three
\* seconds over all that the conversations hold, sent transactions are mined,
\* and the service is started again when it is down.
Fairness ==
    /\ WF_vars(Start)
    /\ WF_vars(CaughtUp)
    /\ \A m \in Messages :
        /\ WF_vars(Receive("poll", m))
        /\ WF_vars(\E r \in Routes : HandlerStep(r, m))
    /\ WF_vars(\E tx \in sent : Mine(tx))

Spec == Init /\ [][Next]_vars /\ Fairness

-----------------------------------------------------------------------------
(* What makes the service correct.                                         *)

\* A message is handled at most once in a run of the service, whichever of the
\* three routes bring it: the check of seenMessageIds and the entry are one
\* step, before the handler first waits.
HandledOncePerRun ==
    \A m \in Messages : \A r, q \in Routes :
        handler[r][m] # "idle" /\ handler[q][m] # "idle" => r = q

\* At most one handler holds a claim the worker won, so a task is delivered
\* and announced at most once, and only when the delivery is on chain: across
\* two proposals for one task, crashes, and claims mined after the crash of
\* the handler that sent them.
HoldsClaim(r, m) ==
    handler[r][m] \in {"waiting", "delivering", "deliverySent", "noticing"}

OneNoticePerDelivery ==
    /\ \A r, q \in Routes : \A m, n \in Messages :
          HoldsClaim(r, m) /\ HoldsClaim(q, n) /\ Subject[m] = Subject[n]
             => r = q /\ m = n
    /\ \A t \in Tasks : notices[t] <= (IF t \in delivered THEN 1 ELSE 0)

\* Whatever the posters do, a service that no longer crashes gets through its
\* catch-up and every message it received comes to an end: a claimed task that
\* is never funded does not block the messages behind it.
EveryMessageEnds ==
    \A m \in Messages :
        m \in inbox ~> \E r \in Routes : handler[r][m] \in Ends

=============================================================================
