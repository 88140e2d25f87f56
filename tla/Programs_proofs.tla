---------------------------- MODULE Programs_proofs ----------------------------
(***************************************************************************)
(* Proofs about three programs around the contracts: the poster's side of    *)
(* the negotiation over messages (Negotiation), for any negotiations, tasks   *)
(* and envelopes and any number of times the transport dispatches a message;  *)
(* the page that posts a task (OpenPosting), for every set of wallets, clicks *)
(* and texts, any number of strangers and every schedule of the chain; and    *)
(* the outreach engine's graph store (GraphStore), for every size of graph    *)
(* and any number of saves, kills and failing writes.                        *)
(***************************************************************************)
EXTENDS Negotiation, OpenPosting, GraphStore, Integers, SequenceTheorems, TLAPS

Assumptions == OursAssumption /\ NoneAssumption /\ FundedAssumption /\ EnvelopeAssumption

(* The two maps of bindings are inverse to each other.                         *)
BindingsMatch ==
    \A n \in Negotiations, t \in Tasks : boundTask[n] = t <=> boundNegotiation[t] = n

(* A handler past the checks of dispatchMessage works on the bound task.       *)
HandlersBound ==
    \A r \in Routes, e \in Envelopes :
       handler[r][e] \in {"reading", "automatic", "offered"} =>
          /\ e.kind # "TaskAcceptance"
          /\ IsBound(e) /\ OurParties(e)

(* A handler that settles by itself has the opt-in and has seen a delivery.     *)
SettlingDelivered ==
    \A r \in Routes, e \in Envelopes :
       handler[r][e] = "automatic" => autoAccept /\ task[e.task].delivered

(* An envelope at a handler was sent.                                         *)
HandledSent == \A r \in Routes, e \in Envelopes : handler[r][e] # "idle" => e \in sent

Inv ==
    /\ TypeOK
    /\ HandledSent /\ BindingsMatch /\ HandlersBound /\ SettlingDelivered
    /\ PaysBoundTaskOnly /\ SettlesOnlyDelivered

(* What no step undoes: a binding and a delivery.                             *)
Lasts ==
    /\ \A n \in Negotiations : boundTask[n] # None => boundTask'[n] = boundTask[n]
    /\ \A t \in Tasks : boundNegotiation[t] # None => boundNegotiation'[t] = boundNegotiation[t]
    /\ \A t \in Tasks : task[t].delivered => task'[t].delivered
    /\ autoAccept' = autoAccept

-------------------------------------------------------------------------------
(* What an envelope consists of.                                             *)
LEMMA EnvelopeFacts ==
    ASSUME Assumptions, NEW e \in Envelopes
    PROVE  /\ e.kind \in Kinds /\ e.negotiation \in Negotiations /\ e.task \in Tasks
           /\ e.amount \in 0..Funded
           /\ e.negotiation # None /\ e.task # None
  BY DEF Assumptions, EnvelopeAssumption, NoneAssumption

(* One handler moves on and no other does.                                   *)
LEMMA StepFacts ==
    ASSUME TypeOK, NEW r \in Routes, NEW e \in Envelopes, NEW from, NEW to \in Steps,
           Step(r, e, from, to)
    PROVE  /\ handler' \in [Routes -> [Envelopes -> Steps]]
           /\ handler[r][e] = from
           /\ handler'[r][e] = to
           /\ \A q \in Routes, x \in Envelopes :
                 q # r \/ x # e => handler'[q][x] = handler[q][x]
  BY DEF TypeOK, Step

(* A binding is added to both maps or to neither, and replaces none.           *)
LEMMA BindFacts ==
    ASSUME Assumptions, TypeOK, BindingsMatch, NEW n \in Negotiations, NEW t \in Tasks, Bind(n, t)
    PROVE  /\ boundTask' \in [Negotiations -> Tasks \union {None}]
           /\ boundNegotiation' \in [Tasks -> Negotiations \union {None}]
           /\ \A m \in Negotiations : boundTask[m] # None => boundTask'[m] = boundTask[m]
           /\ \A u \in Tasks : boundNegotiation[u] # None => boundNegotiation'[u] = boundNegotiation[u]
           /\ BindingsMatch'
<1>1. /\ boundTask' = [boundTask EXCEPT ![n] = t]
      /\ boundNegotiation' = [boundNegotiation EXCEPT ![t] = n]
      /\ boundTask[n] \in {None, t} /\ boundNegotiation[t] \in {None, n}
  BY DEF Bind, CanBind
<1>2. n # None /\ t # None /\ None \notin Tasks /\ None \notin Negotiations
  BY DEF Assumptions, NoneAssumption
<1> QED
  BY <1>1, <1>2 DEF TypeOK, BindingsMatch

(* The registry's record of a task after a transaction it accepts.             *)
LEMMA AppliedFacts ==
    ASSUME Assumptions, TypeOK, NEW tr \in pool, Accepts(tr)
    PROVE  /\ tr.envelope.task \in Tasks
           /\ Applied(tr) \in [state : States, delivered : BOOLEAN, released : 0..Funded]
           /\ task[tr.envelope.task].delivered => Applied(tr).delivered
<1>1. /\ tr.envelope \in Envelopes
      /\ tr.kind \in {"markDelivered", "complete", "release"}
  BY DEF TypeOK
<1>2. tr.envelope.task \in Tasks /\ tr.envelope.amount \in 0..Funded /\ Funded \in Nat
  BY <1>1, EnvelopeFacts DEF Assumptions, FundedAssumption
<1> DEFINE row == task[tr.envelope.task]
           paid == IF tr.kind = "complete" THEN Funded ELSE row.released + tr.envelope.amount
<1>3. row \in [state : States, delivered : BOOLEAN, released : 0..Funded]
  BY <1>2 DEF TypeOK
<1>4. tr.kind # "markDelivered" => paid \in 0..Funded
  BY <1>1, <1>2, <1>3 DEF Accepts
<1>5. CASE tr.kind = "markDelivered"
  <2>1. Applied(tr) = [row EXCEPT !.delivered = TRUE]
    BY <1>5 DEF Applied
  <2> QED
    BY <1>2, <1>3, <2>1
<1>6. CASE tr.kind # "markDelivered"
  <2>1. PICK s \in States :
           Applied(tr) = [row EXCEPT !.released = paid, !.state = s]
    BY <1>3, <1>6 DEF Applied, States
  <2> HIDE DEF row, paid
  <2>2. /\ Applied(tr) \in [state : States, delivered : BOOLEAN, released : 0..Funded]
        /\ Applied(tr).delivered = row.delivered
    BY <1>3, <1>4, <1>6, <2>1
  <2> QED
    BY <1>2, <2>2 DEF row
<1> QED
  BY <1>5, <1>6

(* What holds of every handler and transaction outlasts a step that moves no   *)
(* handler and broadcasts no settlement.                                      *)
LEMMA QuietSound ==
    ASSUME Assumptions, Inv, TypeOK', Lasts, BindingsMatch', handler' = handler,
           sent \subseteq sent', Settlements' \subseteq Settlements
    PROVE  Inv'
<1>1. HandledSent'
  BY DEF Inv, HandledSent
<1>2. \A e \in Envelopes : IsBound(e) => IsBound(e)'
  BY EnvelopeFacts DEF IsBound, Lasts
<1>3. HandlersBound'
  BY <1>2 DEF Inv, HandlersBound, OurParties
<1>4. SettlingDelivered'
  BY EnvelopeFacts DEF Inv, SettlingDelivered, Lasts
<1>5. \A tr \in Settlements : tr.envelope \in Envelopes
  BY DEF Inv, TypeOK, Settlements
<1>6. PaysBoundTaskOnly' /\ SettlesOnlyDelivered'
  BY <1>5, EnvelopeFacts DEF Inv, PaysBoundTaskOnly, SettlesOnlyDelivered, Lasts
<1> QED
  BY <1>1, <1>3, <1>4, <1>6 DEF Inv

(* New settlements are those of an envelope past its checks, and automatic ones *)
(* of a delivered task.                                                        *)
SettlesFor(e) ==
    \A tr \in Settlements' \ Settlements :
       /\ tr.envelope = e
       /\ IsBound(e) /\ OurParties(e)
       /\ tr.automatic => autoAccept /\ task[e.task].delivered

(* So every settlement still pays for the bound task.                          *)
LEMMA SettlementsSound ==
    ASSUME Assumptions, Inv, Lasts, BindingsMatch', NEW e \in Envelopes, SettlesFor(e)
    PROVE  PaysBoundTaskOnly' /\ SettlesOnlyDelivered'
<1>1. IsBound(e) => IsBound(e)'
  BY EnvelopeFacts DEF IsBound, Lasts
<1>2. \A tr \in Settlements : tr.envelope \in Envelopes
  BY DEF Inv, TypeOK, Settlements
<1>3. PaysBoundTaskOnly'
  <2> SUFFICES ASSUME NEW tr \in Settlements'
               PROVE  /\ boundTask'[tr.envelope.negotiation] = tr.envelope.task
                      /\ boundNegotiation'[tr.envelope.task] = tr.envelope.negotiation
                      /\ tr.envelope.task \in OurTasks
    BY DEF PaysBoundTaskOnly
  <2>1. CASE tr \in Settlements
    BY <1>2, <2>1, EnvelopeFacts DEF Inv, PaysBoundTaskOnly, Lasts
  <2>2. CASE tr \notin Settlements
    BY <1>1, <2>2, EnvelopeFacts DEF SettlesFor, IsBound, OurParties, BindingsMatch
  <2> QED
    BY <2>1, <2>2
<1>4. SettlesOnlyDelivered'
  <2> SUFFICES ASSUME NEW tr \in Settlements', tr.automatic
               PROVE  autoAccept' /\ task'[tr.envelope.task].delivered
    BY DEF SettlesOnlyDelivered
  <2>1. CASE tr \in Settlements
    BY <1>2, <2>1, EnvelopeFacts DEF Inv, SettlesOnlyDelivered, Lasts
  <2>2. CASE tr \notin Settlements
    BY <2>2, EnvelopeFacts DEF SettlesFor, Lasts
  <2> QED
    BY <2>1, <2>2
<1> QED
  BY <1>3, <1>4

(* The application takes a decision it was offered: no handler moves.          *)
LEMMA AcceptSound ==
    ASSUME Assumptions, Inv, TypeOK', Lasts, BindingsMatch', handler' = handler,
           sent' = sent, NEW e \in Envelopes, SettlesFor(e)
    PROVE  Inv'
<1>1. HandledSent'
  BY DEF Inv, HandledSent
<1>2. \A x \in Envelopes : IsBound(x) => IsBound(x)'
  BY EnvelopeFacts DEF IsBound, Lasts
<1>3. HandlersBound'
  BY <1>2 DEF Inv, HandlersBound, OurParties
<1>4. SettlingDelivered'
  BY EnvelopeFacts DEF Inv, SettlingDelivered, Lasts
<1> QED
  BY <1>1, <1>3, <1>4, SettlementsSound DEF Inv

(* A handler moves, and may broadcast the settlement it was allowed to.        *)
LEMMA MoveSound ==
    ASSUME Assumptions, Inv, TypeOK', Lasts, BindingsMatch', sent' = sent,
           NEW r \in Routes, NEW e \in Envelopes, NEW from, NEW to \in Steps,
           Step(r, e, from, to),
           from # "idle" \/ e \in sent,
           to \in {"reading", "automatic", "offered"} =>
              e.kind # "TaskAcceptance" /\ IsBound(e) /\ OurParties(e),
           to = "automatic" => autoAccept /\ task[e.task].delivered,
           SettlesFor(e)
    PROVE  Inv'
<1>1. /\ handler[r][e] = from /\ handler'[r][e] = to
      /\ \A q \in Routes, x \in Envelopes :
            q # r \/ x # e => handler'[q][x] = handler[q][x]
  BY StepFacts DEF Inv
<1>2. HandledSent'
  BY <1>1 DEF Inv, HandledSent
<1>3. \A x \in Envelopes : IsBound(x) => IsBound(x)'
  BY EnvelopeFacts DEF IsBound, Lasts
<1>4. HandlersBound'
  BY <1>1, <1>3 DEF Inv, HandlersBound, OurParties
<1>5. SettlingDelivered'
  BY <1>1, EnvelopeFacts DEF Inv, SettlingDelivered, Lasts
<1> QED
  BY <1>2, <1>4, <1>5, SettlementsSound DEF Inv

(* Every step keeps the types.                                               *)
LEMMA TypeStep ==
    ASSUME Assumptions, Inv, [Next]_vars
    PROVE  TypeOK'
<1>0. TypeOK
  BY DEF Inv
<1>1. ASSUME NEW t \in Tasks, PosterFunds(t) \/ TaskCloses(t) \/ OtherDelivers(t)
      PROVE  TypeOK'
  <2>1. UNCHANGED <<boundTask, boundNegotiation, accepted, autoAccept, handler, pool, sent, answers>>
    BY <1>1 DEF PosterFunds, TaskCloses, TaskMoves, OtherDelivers, bindingVars
  <2>2. CASE PosterFunds(t) \/ TaskCloses(t)
    <3>1. PICK s \in States : task' = [task EXCEPT ![t].state = s]
      BY <2>2 DEF PosterFunds, TaskCloses, TaskMoves, States
    <3> QED
      BY <1>0, <2>1, <3>1 DEF TypeOK
  <2>3. CASE OtherDelivers(t)
    <3>1. task' = [task EXCEPT ![t].delivered = TRUE]
      BY <2>3 DEF OtherDelivers
    <3> QED
      BY <1>0, <2>1, <3>1 DEF TypeOK
  <2> QED
    BY <1>1, <2>2, <2>3
<1>2. ASSUME NEW tr \in pool, Mine(tr)
      PROVE  TypeOK'
  <2>1. task' \in [Tasks -> [state : States, delivered : BOOLEAN, released : 0..Funded]]
    BY <1>0, <1>2, AppliedFacts DEF Mine, TypeOK
  <2> QED
    BY <1>0, <1>2, <2>1 DEF Mine, TypeOK, bindingVars
<1>3. ASSUME NEW n \in Negotiations, NEW t \in Tasks, PosterBinds(n, t)
      PROVE  TypeOK'
  <2>1. Bind(n, t) /\ BindingsMatch
    BY <1>3 DEF PosterBinds, Inv
  <2>2. /\ boundTask' \in [Negotiations -> Tasks \union {None}]
        /\ boundNegotiation' \in [Tasks -> Negotiations \union {None}]
    BY <1>0, <2>1, BindFacts
  <2> QED
    BY <1>0, <1>3, <2>2 DEF PosterBinds, TypeOK
<1>4. ASSUME NEW e \in Envelopes, WorkerDelivers(e) \/ WorkerSends(e)
      PROVE  TypeOK'
  <2>1. UNCHANGED <<task, boundTask, boundNegotiation, accepted, autoAccept, handler, answers>>
    BY <1>4 DEF WorkerDelivers, WorkerSends, bindingVars
  <2>2. sent' \subseteq Envelopes /\ sent \subseteq sent'
    BY <1>0, <1>4 DEF WorkerDelivers, WorkerSends, TypeOK
  <2>3. pool' \subseteq [kind : {"markDelivered", "complete", "release"},
                        envelope : Envelopes, automatic : BOOLEAN]
    <3> DEFINE Pool == [kind : {"markDelivered", "complete", "release"},
                        envelope : Envelopes, automatic : BOOLEAN]
               delivery == Transaction("markDelivered", e, FALSE)
    <3>1. pool' = pool \/ pool' = pool \union {delivery}
      BY <1>4 DEF WorkerDelivers, WorkerSends
    <3>2. delivery \in Pool
      BY DEF Transaction
    <3>3. pool \subseteq Pool
      BY <1>0 DEF TypeOK
    <3> QED
      BY <3>1, <3>2, <3>3
  <2> QED
    BY <1>0, <2>1, <2>2, <2>3 DEF TypeOK
<1>5. ASSUME NEW r \in Routes, NEW e \in Envelopes, HandlerStep(r, e)
      PROVE  TypeOK'
  <2>1. handler' \in [Routes -> [Envelopes -> Steps]]
    <3>1. CASE Accept(r, e)
      BY <1>0, <3>1 DEF Accept, TypeOK
    <3>2. CASE ~Accept(r, e)
      <4>1. \E from, to \in Steps : Step(r, e, from, to)
        BY <1>5, <3>2 DEF HandlerStep, Dispatch, TakeAcceptance, Verify, SettleAutomatically,
                          CannotSettle, Steps
      <4> QED
        BY <1>0, <4>1, StepFacts
    <3> QED
      BY <3>1, <3>2
  <2>2. CASE SettleAutomatically(r, e) \/ Accept(r, e)
    <3>1. PICK automatic \in BOOLEAN : Settle(e, automatic)
      BY <2>2 DEF SettleAutomatically, Accept
    <3>2. pool' \subseteq [kind : {"markDelivered", "complete", "release"},
                          envelope : Envelopes, automatic : BOOLEAN]
      BY <1>0, <3>1 DEF Settle, Settlement, Transaction, TypeOK
    <3>3. e \in sent
      BY <2>2 DEF SettleAutomatically, Accept, Step, Inv, HandledSent
    <3>4. answers' \subseteq sent'
      BY <1>0, <3>1, <3>3 DEF Settle, TypeOK
    <3> QED
      BY <1>0, <2>1, <3>1, <3>2, <3>4 DEF Settle, TypeOK, bindingVars
  <2>3. CASE TakeAcceptance(r, e)
    <3>1. /\ boundTask' \in [Negotiations -> Tasks \union {None}]
          /\ boundNegotiation' \in [Tasks -> Negotiations \union {None}]
          /\ accepted' \subseteq Negotiations
      BY <1>0, <2>3, BindFacts, EnvelopeFacts DEF TakeAcceptance, TypeOK, Inv, bindingVars
    <3> QED
      BY <1>0, <2>1, <2>3, <3>1 DEF TakeAcceptance, TypeOK
  <2>4. CASE Dispatch(r, e) \/ Verify(r, e) \/ CannotSettle(r, e)
    BY <1>0, <2>1, <2>4 DEF Dispatch, Verify, CannotSettle, Quiet, TypeOK, bindingVars
  <2> QED
    BY <1>5, <2>2, <2>3, <2>4 DEF HandlerStep
<1>6. CASE UNCHANGED vars
  BY <1>0, <1>6 DEF vars, bindingVars, TypeOK
<1> QED
  BY <1>1, <1>2, <1>3, <1>4, <1>5, <1>6 DEF Next

(* A step of a handler keeps the invariant.                                  *)
LEMMA HandlerSound ==
    ASSUME Assumptions, Inv, TypeOK', NEW r \in Routes, NEW e \in Envelopes, HandlerStep(r, e)
    PROVE  Inv'
<1>1. ASSUME UNCHANGED <<task, boundTask, boundNegotiation, autoAccept>>
      PROVE  Lasts /\ BindingsMatch'
  BY <1>1 DEF Lasts, Inv, BindingsMatch
<1>2. ASSUME pool' = pool
      PROVE  SettlesFor(e)
  BY <1>2 DEF SettlesFor, Settlements
<1>3. CASE Dispatch(r, e)
  <2>1. PICK to \in {"rejected", "reading"} :
           /\ Step(r, e, "idle", to)
           /\ to = "reading" => IsBound(e) /\ OurParties(e)
    BY <1>3 DEF Dispatch
  <2>2. e \in sent /\ e.kind # "TaskAcceptance" /\ to \in Steps
    BY <1>3 DEF Dispatch, Steps
  <2>3. UNCHANGED <<task, boundTask, boundNegotiation, autoAccept, sent, pool>>
    BY <1>3 DEF Dispatch, Quiet, bindingVars
  <2> QED
    BY <1>1, <1>2, <2>1, <2>2, <2>3, MoveSound
<1>4. CASE TakeAcceptance(r, e)
  <2>1. PICK to \in {"done", "rejected"} : Step(r, e, "idle", to)
    BY <1>4 DEF TakeAcceptance
  <2>2. UNCHANGED <<task, autoAccept, sent, pool>> /\ to \in Steps /\ e \in sent
    BY <1>4 DEF TakeAcceptance, Steps
  <2>3. Lasts /\ BindingsMatch'
    <3>1. CASE Bind(e.negotiation, e.task)
      BY <2>2, <3>1, BindFacts, EnvelopeFacts DEF Inv, Lasts
    <3>2. CASE UNCHANGED bindingVars
      BY <1>1, <2>2, <3>2 DEF bindingVars
    <3> QED
      BY <1>4, <3>1, <3>2 DEF TakeAcceptance
  <2> QED
    BY <1>2, <2>1, <2>2, <2>3, MoveSound
<1>5. CASE Verify(r, e) \/ CannotSettle(r, e)
  <2>1. PICK from, to :
           /\ Step(r, e, from, to)
           /\ from \in {"reading", "automatic"}
           /\ to \in {"automatic", "offered", "rejected"}
           /\ to = "automatic" => autoAccept /\ task[e.task].delivered
    BY <1>5 DEF Verify, CannotSettle, Verified
  <2>2. e.kind # "TaskAcceptance" /\ IsBound(e) /\ OurParties(e) /\ to \in Steps
    BY <2>1 DEF Step, Inv, HandlersBound, Steps
  <2>3. UNCHANGED <<task, boundTask, boundNegotiation, autoAccept, sent, pool>>
    BY <1>5 DEF Verify, CannotSettle, Quiet, bindingVars
  <2> QED
    BY <1>1, <1>2, <2>1, <2>2, <2>3, MoveSound
<1>6. ASSUME NEW automatic \in BOOLEAN, Settle(e, automatic), IsBound(e), OurParties(e),
             automatic => autoAccept /\ task[e.task].delivered
      PROVE  /\ Lasts /\ BindingsMatch' /\ SettlesFor(e)
             /\ sent' = sent
  <2>1. UNCHANGED <<task, boundTask, boundNegotiation, autoAccept, sent>>
    BY <1>6 DEF Settle, bindingVars
  <2>2. \A tr \in Settlements' \ Settlements :
           tr.envelope = e /\ tr.automatic = automatic
    BY <1>6 DEF Settle, Settlements, Settlement, Transaction
  <2> QED
    BY <1>1, <1>6, <2>1, <2>2 DEF SettlesFor
<1>7. CASE SettleAutomatically(r, e)
  <2>1. /\ Step(r, e, "automatic", "offered") /\ Settle(e, TRUE)
        /\ "offered" \in Steps
    BY <1>7 DEF SettleAutomatically, Steps
  <2>2. /\ e.kind # "TaskAcceptance" /\ IsBound(e) /\ OurParties(e)
        /\ autoAccept /\ task[e.task].delivered
    BY <2>1 DEF Step, Inv, HandlersBound, SettlingDelivered
  <2> QED
    BY <1>6, <2>1, <2>2, MoveSound
<1>8. CASE Accept(r, e)
  <2>1. Settle(e, FALSE) /\ handler' = handler
    BY <1>8 DEF Accept
  <2>2. IsBound(e) /\ OurParties(e)
    BY <1>8 DEF Accept, Inv, HandlersBound
  <2> QED
    BY <1>6, <2>1, <2>2, AcceptSound
<1> QED
  BY <1>3, <1>4, <1>5, <1>7, <1>8 DEF HandlerStep

(* Every step keeps the invariant.                                           *)
LEMMA NextSound ==
    ASSUME Assumptions, Inv, [Next]_vars
    PROVE  Inv'
<1>1. TypeOK'
  BY TypeStep
<1>2. ASSUME NEW t \in Tasks, PosterFunds(t) \/ TaskCloses(t) \/ OtherDelivers(t)
      PROVE  Inv'
  <2>1. UNCHANGED <<boundTask, boundNegotiation, autoAccept, handler, pool, sent>>
    BY <1>2 DEF PosterFunds, TaskCloses, TaskMoves, OtherDelivers, bindingVars
  <2>2. \A u \in Tasks : task[u].delivered => task'[u].delivered
    BY <1>2 DEF PosterFunds, TaskCloses, TaskMoves, OtherDelivers, Inv, TypeOK
  <2>3. Lasts /\ BindingsMatch' /\ Settlements' = Settlements
    BY <2>1, <2>2 DEF Lasts, Inv, BindingsMatch, Settlements
  <2> QED
    BY <1>1, <2>1, <2>3, QuietSound
<1>3. ASSUME NEW tr \in pool, Mine(tr)
      PROVE  Inv'
  <2>1. /\ UNCHANGED <<boundTask, boundNegotiation, autoAccept, handler, sent>>
        /\ pool' \subseteq pool
    BY <1>3 DEF Mine, bindingVars
  <2>2. \A u \in Tasks : task[u].delivered => task'[u].delivered
    BY <1>3, AppliedFacts DEF Mine, Inv, TypeOK
  <2>3. Lasts /\ BindingsMatch' /\ Settlements' \subseteq Settlements
    BY <2>1, <2>2 DEF Lasts, Inv, BindingsMatch, Settlements
  <2> QED
    BY <1>1, <2>1, <2>3, QuietSound
<1>4. ASSUME NEW n \in Negotiations, NEW t \in Tasks, PosterBinds(n, t)
      PROVE  Inv'
  <2>1. UNCHANGED <<task, autoAccept, handler, pool, sent>>
    BY <1>4 DEF PosterBinds
  <2>2. Lasts /\ BindingsMatch' /\ Settlements' = Settlements
    BY <1>4, <2>1, BindFacts DEF PosterBinds, Lasts, Inv, Settlements
  <2> QED
    BY <1>1, <2>1, <2>2, QuietSound
<1>5. ASSUME NEW e \in Envelopes, WorkerDelivers(e) \/ WorkerSends(e)
      PROVE  Inv'
  <2>1. /\ UNCHANGED <<task, boundTask, boundNegotiation, autoAccept, handler>>
        /\ sent \subseteq sent'
    BY <1>5 DEF WorkerDelivers, WorkerSends, bindingVars
  <2>2. Settlements' \subseteq Settlements
    BY <1>5 DEF WorkerDelivers, WorkerSends, Settlements, Transaction
  <2>3. Lasts /\ BindingsMatch'
    BY <2>1 DEF Lasts, Inv, BindingsMatch
  <2> QED
    BY <1>1, <2>1, <2>2, <2>3, QuietSound
<1>6. CASE UNCHANGED vars
  <2>1. UNCHANGED <<task, boundTask, boundNegotiation, autoAccept, handler, pool, sent>>
    BY <1>6 DEF vars, bindingVars
  <2>2. Lasts /\ BindingsMatch' /\ Settlements' = Settlements
    BY <2>1 DEF Lasts, Inv, BindingsMatch, Settlements
  <2> QED
    BY <1>1, <2>1, <2>2, QuietSound
<1> QED
  BY <1>1, <1>2, <1>3, <1>4, <1>5, <1>6, HandlerSound DEF Next

-------------------------------------------------------------------------------
(* The invariant holds at the start.                                         *)
LEMMA InitSound ==
    ASSUME Assumptions, Init
    PROVE  Inv
<1>1. TypeOK
  BY DEF Assumptions, FundedAssumption, Init, TypeOK, States, Steps
<1>2. BindingsMatch
  BY DEF Assumptions, NoneAssumption, Init, BindingsMatch
<1> QED
  BY <1>1, <1>2
     DEF Init, Inv, HandledSent, HandlersBound, SettlingDelivered, PaysBoundTaskOnly,
         SettlesOnlyDelivered, Settlements

(* The inductive invariant: handlers past their checks work on bound tasks.    *)
THEOREM NegotiationSound == Spec => []Inv
<1>0. Assumptions
  BY OursAssumption, NoneAssumption, FundedAssumption, EnvelopeAssumption DEF Assumptions
<1>1. Init => Inv
  BY <1>0, InitSound
<1>2. Inv /\ [Next]_vars => Inv'
  BY <1>0, NextSound
<1> QED
  BY <1>1, <1>2, PTL DEF Spec

(* What the poster broadcasts pays the one task bound to the negotiation.      *)
THEOREM NegotiationPaysBound == Spec => []PaysBoundTaskOnly
<1>1. Inv => PaysBoundTaskOnly
  BY DEF Inv
<1> QED
  BY <1>1, NegotiationSound, PTL

(* What a handler settles by itself was delivered on chain, and is settled with *)
(* the opt-in only; what the application accepts is its own decision.           *)
THEOREM NegotiationSettlesDelivered == Spec => []SettlesOnlyDelivered
<1>1. Inv => SettlesOnlyDelivered
  BY DEF Inv
<1> QED
  BY <1>1, NegotiationSound, PTL

-------------------------------------------------------------------------------
(* The posting page.                                                          *)

Owns(f, id) == id \in DOMAIN tasks /\ tasks[id].poster = OwnerOf[f]

(* What is known of one flow.  The first part counts the tasks its            *)
(* transactions created; the second says when they can have been sent; the     *)
(* third that the ids it holds are those of its wallet's tasks.               *)
Counted(f) ==
    created[f] = (IF tx[f].batch = "landed" THEN 1 ELSE 0)
                   + (IF tx[f].plain = "landed" THEN 1 ELSE 0)

SentInOrder(f) ==
    /\ flow[f].at \in {"idle", "check", "count", "send"} => tx[f].batch = "none"
    /\ flow[f].at \in {"idle", "check", "count", "send", "poll", "lookup", "post"}
          => tx[f].plain = "none"
    /\ (tx[f].plain # "none" \/ flow[f].at = "post") /\ ~flow[f].blind
          => tx[f].batch \in {"none", "reverted"}

KnownTasks(f) ==
    /\ tx[f].batch = "landed" => Owns(f, flow[f].next)
    /\ tx[f].plain = "landed" => Owns(f, tx[f].plainId)
    /\ flow[f].at \in {"read", "publish", "await", "reread"} => Owns(f, flow[f].id)
    /\ flow[f].posted => /\ flow[f].at \in {"closing", "ended"}
                         /\ Owns(f, flow[f].id)
                         /\ Scope(f) = TextOf[f]

Sound(f) == Counted(f) /\ SentInOrder(f) /\ KnownTasks(f)

(* The tasks have their type, and the other variables their keys and fields.   *)
Shape ==
    /\ tasks \in Seq(TaskType)
    /\ DOMAIN tx = Flows /\ DOMAIN flow = Flows
    /\ DOMAIN created = Flows /\ DOMAIN busy = Wallets
    /\ \A f \in Flows :
          /\ {"batch", "plain", "publish", "plainId"} \subseteq DOMAIN tx[f]
          /\ tx[f].batch \in {"none", "pending", "landed", "reverted"}
          /\ {"at", "next", "id", "tries", "blind", "posted"} \subseteq DOMAIN flow[f]

PageInv == Shape /\ \A f \in Flows : Sound(f)

(* Tasks keep their ids, their posters and their scopes.                      *)
Grows ==
    \A id \in DOMAIN tasks :
       /\ id \in DOMAIN tasks'
       /\ tasks'[id].poster = tasks[id].poster
       /\ tasks[id].scope # NoText => tasks'[id].scope = tasks[id].scope

-------------------------------------------------------------------------------
(* Appending a task.                                                          *)
LEMMA AppendFacts ==
    ASSUME NEW ts \in Seq(TaskType), NEW e \in TaskType
    PROVE  /\ Append(ts, e) \in Seq(TaskType)
           /\ DOMAIN ts = 1..Len(ts) /\ Len(ts) \in Nat
           /\ DOMAIN Append(ts, e) = 1..(Len(ts) + 1)
           /\ \A id \in DOMAIN ts : Append(ts, e)[id] = ts[id]
           /\ Append(ts, e)[Len(ts) + 1] = e
  OBVIOUS

(* Writing the scope of a task.                                              *)
LEMMA WithScopeFacts ==
    ASSUME NEW ts \in Seq(TaskType), NEW id \in DOMAIN ts, NEW text \in Texts
    PROVE  /\ WithScope(ts, id, text) \in Seq(TaskType)
           /\ DOMAIN WithScope(ts, id, text) = DOMAIN ts
           /\ \A i \in DOMAIN ts :
                 /\ WithScope(ts, id, text)[i].poster = ts[i].poster
                 /\ WithScope(ts, id, text)[i].scope = IF i = id THEN text ELSE ts[i].scope
<1> DEFINE e == [ts[id] EXCEPT !.scope = text]
<1>1. DOMAIN ts = 1..Len(ts)
  BY LenProperties
<1>2. ts[id] \in TaskType
  BY <1>1, ElementOfSeq
<1>3. e \in TaskType /\ e.poster = ts[id].poster /\ e.scope = text
  BY <1>2 DEF TaskType
<1>4. WithScope(ts, id, text) = [ts EXCEPT ![id] = e]
  BY DEF WithScope
<1>5. /\ WithScope(ts, id, text) \in Seq(TaskType)
      /\ Len(WithScope(ts, id, text)) = Len(ts)
      /\ \A j \in 1..Len(ts) : WithScope(ts, id, text)[j] = IF j = id THEN e ELSE ts[j]
  <2> HIDE DEF e
  <2> QED
    BY <1>1, <1>3, <1>4, ExceptSeq
<1>6. DOMAIN WithScope(ts, id, text) = DOMAIN ts
  BY <1>1, <1>5, LenProperties
<1> QED
  BY <1>1, <1>3, <1>5, <1>6

(* The chain's part of a step: the task list keeps its type and grows.        *)
LEMMA TasksGrow ==
    ASSUME PostingAssumption, Shape, [PageNext]_pageVars
    PROVE  tasks' \in Seq(TaskType) /\ Grows
<1> USE DEF Shape
<1>0. tasks \in Seq(TaskType) /\ NoText \notin Texts
  BY DEF TaskType, PostingAssumption
<1>1. ASSUME NEW e \in TaskType, tasks' = Append(tasks, e)
      PROVE  tasks' \in Seq(TaskType) /\ Grows
  BY <1>0, <1>1, AppendFacts DEF Grows
<1>2. ASSUME tasks' = tasks
      PROVE  tasks' \in Seq(TaskType) /\ Grows
  BY <1>0, <1>2 DEF Grows
<1>3. CASE StrangerPosts
  <2>1. [poster |-> Stranger, scope |-> NoText] \in TaskType
    BY DEF TaskType
  <2> QED
    BY <1>1, <1>3, <2>1 DEF StrangerPosts
<1>4. ASSUME NEW f \in Flows
      PROVE  [poster |-> OwnerOf[f], scope |-> NoText] \in TaskType /\ TextOf[f] \in Texts
  BY DEF TaskType, PostingAssumption
<1>5. ASSUME NEW f \in Flows, BatchSettles(f)
      PROVE  tasks' \in Seq(TaskType) /\ Grows
  <2>1. CASE /\ CanPublish(Posted(f), OwnerOf[f], flow[f].next)
             /\ tasks' = WithScope(Posted(f), flow[f].next, TextOf[f])
    <3>1. /\ Posted(f) \in Seq(TaskType)
          /\ \A id \in DOMAIN tasks : id \in DOMAIN Posted(f) /\ Posted(f)[id] = tasks[id]
      BY <1>0, <1>4, AppendFacts DEF Posted
    <3>2. flow[f].next \in DOMAIN Posted(f) /\ Posted(f)[flow[f].next].scope = NoText
      BY <2>1 DEF CanPublish
    <3>3. /\ tasks' \in Seq(TaskType) /\ DOMAIN tasks' = DOMAIN Posted(f)
          /\ \A i \in DOMAIN Posted(f) :
                /\ tasks'[i].poster = Posted(f)[i].poster
                /\ tasks'[i].scope = IF i = flow[f].next THEN TextOf[f] ELSE Posted(f)[i].scope
      BY <1>4, <2>1, <3>1, <3>2, WithScopeFacts
    <3> QED
      BY <3>1, <3>2, <3>3 DEF Grows
  <2> QED
    BY <1>2, <1>5, <2>1 DEF BatchSettles
<1>6. ASSUME NEW f \in Flows, PlainSettles(f)
      PROVE  tasks' \in Seq(TaskType) /\ Grows
  BY <1>1, <1>2, <1>4, <1>6 DEF PlainSettles, Posted
<1>7. ASSUME NEW f \in Flows, PublishSettles(f)
      PROVE  tasks' \in Seq(TaskType) /\ Grows
  <2>1. CASE CanPublish(tasks, OwnerOf[f], flow[f].id)
    <3>1. flow[f].id \in DOMAIN tasks /\ tasks[flow[f].id].scope = NoText
      BY <2>1 DEF CanPublish
    <3>2. tasks' = WithScope(tasks, flow[f].id, TextOf[f])
      BY <1>7, <2>1 DEF PublishSettles
    <3> QED
      BY <1>0, <1>4, <3>1, <3>2, WithScopeFacts DEF Grows
  <2> QED
    BY <1>2, <1>7, <2>1 DEF PublishSettles
<1>8. ASSUME NEW f \in Flows, Click(f) \/ FlowStep(f)
      PROVE  tasks' = tasks
  BY <1>8 DEF Click, FlowStep, CheckAnswers, Throws, ReadCount, SendBatch, PollBatch, LookUp,
              SendPost, Receipt, ReadScope, SendPublish, AwaitPublish, ReadAgain, Finish
<1> QED
  BY <1>2, <1>3, <1>5, <1>6, <1>7, <1>8 DEF PageNext, pageVars

-------------------------------------------------------------------------------
(* The page's part: the steps of runPost, which leave the chain alone.         *)

(* Every step keeps the types.                                               *)
LEMMA ShapeStep ==
    ASSUME PostingAssumption, Shape, [PageNext]_pageVars
    PROVE  Shape'
<1>1. tasks' \in Seq(TaskType)
  BY TasksGrow
<1> USE DEF Shape
<1> SUFFICES /\ DOMAIN tx' = Flows /\ DOMAIN flow' = Flows
             /\ DOMAIN created' = Flows /\ DOMAIN busy' = Wallets
             /\ \A f \in Flows :
                  /\ {"batch", "plain", "publish", "plainId"} \subseteq DOMAIN tx'[f]
                  /\ tx'[f].batch \in {"none", "pending", "landed", "reverted"}
                  /\ {"at", "next", "id", "tries", "blind", "posted"} \subseteq DOMAIN flow'[f]
  BY <1>1
<1>2. ASSUME NEW f \in Flows, Click(f)
      PROVE  Shape'
  BY <1>1, <1>2 DEF Click, Goes
<1>3. ASSUME NEW f \in Flows, CheckAnswers(f)
      PROVE  Shape'
  BY <1>1, <1>3 DEF CheckAnswers, Goes
<1>4. ASSUME NEW f \in Flows, Throws(f)
      PROVE  Shape'
  BY <1>1, <1>4 DEF Throws, Goes
<1>5. ASSUME NEW f \in Flows, ReadCount(f)
      PROVE  Shape'
  BY <1>1, <1>5 DEF ReadCount
<1>6. ASSUME NEW f \in Flows, SendBatch(f)
      PROVE  Shape'
  BY <1>1, <1>6 DEF SendBatch, Goes, Sent
<1>7. ASSUME NEW f \in Flows, PollBatch(f)
      PROVE  Shape'
  BY ZenonT(30), <1>1, <1>7 DEF PollBatch, Goes, Found
<1>8. ASSUME NEW f \in Flows, LookUp(f)
      PROVE  Shape'
  BY <1>1, <1>8 DEF LookUp, Found, PostInstead
<1>9. ASSUME NEW f \in Flows, SendPost(f)
      PROVE  Shape'
  BY <1>1, <1>9 DEF SendPost, Goes, Sent
<1>10. ASSUME NEW f \in Flows, Receipt(f)
      PROVE  Shape'
  BY <1>1, <1>10 DEF Receipt, Goes, Found
<1>11. ASSUME NEW f \in Flows, ReadScope(f)
      PROVE  Shape'
  BY <1>1, <1>11 DEF ReadScope, Goes, Succeeds
<1>12. ASSUME NEW f \in Flows, SendPublish(f)
      PROVE  Shape'
  BY SMTT(30), <1>1, <1>12 DEF SendPublish, Goes, ThrowPublish, Sent
<1>13. ASSUME NEW f \in Flows, AwaitPublish(f)
      PROVE  Shape'
  BY SMTT(30), <1>1, <1>13 DEF AwaitPublish, Goes, ThrowPublish
<1>14. ASSUME NEW f \in Flows, ReadAgain(f)
      PROVE  Shape'
  BY <1>1, <1>14 DEF ReadAgain, Goes, Succeeds
<1>15. ASSUME NEW f \in Flows, Finish(f)
      PROVE  Shape'
  BY <1>1, <1>15 DEF Finish, Goes
<1>16. ASSUME NEW f \in Flows, BatchSettles(f) \/ PlainSettles(f) \/ PublishSettles(f)
      PROVE  Shape'
  BY <1>1, <1>16 DEF BatchSettles, PlainSettles, PublishSettles, Sent
<1>17. CASE StrangerPosts \/ UNCHANGED pageVars
  BY <1>1, <1>17 DEF StrangerPosts, pageVars
<1> QED
  BY <1>2, <1>3, <1>4, <1>5, <1>6, <1>7, <1>8, <1>9, <1>10,
     <1>11, <1>12, <1>13, <1>14, <1>15, <1>16, <1>17 DEF PageNext, FlowStep

(* What is known of a flow stays known while others act.                      *)
LEMMA Stable ==
    ASSUME PostingAssumption, Shape, Grows, NEW g \in Flows, Sound(g),
           tx'[g] = tx[g], flow'[g] = flow[g], created'[g] = created[g]
    PROVE  Sound(g)'
<1>1. ASSUME NEW id, Owns(g, id)
      PROVE  Owns(g, id)'
  BY <1>1 DEF Owns, Grows
<1>2. TextOf[g] # NoText
  BY DEF PostingAssumption
<1>3. flow[g].posted => Scope(g)' = TextOf[g]
  BY <1>2 DEF Sound, KnownTasks, Owns, Scope, Grows
<1> QED
  BY <1>1, <1>3 DEF Sound, Counted, SentInOrder, KnownTasks

(* A step of the page by its own flow.                                        *)
LEMMA PageSound ==
    ASSUME PostingAssumption, Shape, NEW f \in Flows, Sound(f), Click(f) \/ FlowStep(f)
    PROVE  Sound(f)'
<1> USE DEF Sound, Counted, SentInOrder, KnownTasks, At, Goes, Owns, Scope, Shape
<1>2. CASE Click(f)
  BY <1>2 DEF Click
<1>3. CASE CheckAnswers(f)
  BY <1>3 DEF CheckAnswers
<1>4. CASE Throws(f)
  BY <1>4 DEF Throws
<1>5. CASE ReadCount(f)
  <2>1. PICK n : n = Len(tasks) + 1
    OBVIOUS
  <2>2. flow' = [flow EXCEPT ![f].at = "send", ![f].next = n]
    BY <1>5, <2>1 DEF ReadCount
  <2> QED
    BY <1>5, <2>2 DEF ReadCount
<1>6. CASE SendBatch(f)
  BY <1>6 DEF SendBatch, Sent
<1>7. CASE PollBatch(f)
  BY <1>7 DEF PollBatch, Found
<1>8. CASE LookUp(f)
  <2>1. CASE OwnsNext(f) /\ Found(f, flow[f].next)
    BY <1>8, <2>1 DEF LookUp, OwnsNext, Found
  <2>2. CASE ~OwnsNext(f) /\ PostInstead(f, tx[f].batch = "pending")
    <3>1. tx[f].batch # "landed"
      BY <2>2 DEF OwnsNext
    <3> QED
      BY <1>8, <2>2, <3>1 DEF LookUp, PostInstead
  <2>3. CASE PostInstead(f, TRUE)
    BY <1>8, <2>3 DEF LookUp, PostInstead
  <2> QED
    BY <1>8, <2>1, <2>2, <2>3 DEF LookUp
<1>9. CASE SendPost(f)
  BY <1>9 DEF SendPost, Sent
<1>10. CASE Receipt(f)
  <2>1. CASE tx[f].plain = "landed" /\ Found(f, tx[f].plainId)
    BY <1>10, <2>1 DEF Receipt, Found
  <2>2. CASE Goes(f, "closing")
    BY <1>10, <2>2 DEF Receipt
  <2> QED
    BY <1>10, <2>1, <2>2 DEF Receipt
<1>11. CASE ReadScope(f)
  BY <1>11 DEF ReadScope, Succeeds
<1>12. CASE SendPublish(f)
  <2>1. CASE Goes(f, "await") /\ Sent(f, "publish", "pending")
    BY <1>12, <2>1 DEF SendPublish, Sent
  <2>2. CASE (Goes(f, "reread") \/ Goes(f, "closing")) /\ UNCHANGED tx
    BY SMTT(30), <1>12, <2>2 DEF SendPublish
  <2> QED
    BY <1>12, <2>1, <2>2 DEF SendPublish, ThrowPublish
<1>13. CASE AwaitPublish(f)
  <2>1. (Goes(f, "reread") \/ Goes(f, "closing")) /\ UNCHANGED <<tasks, tx, created>>
    BY <1>13 DEF AwaitPublish, ThrowPublish
  <2> QED
    BY <1>13, <2>1 DEF AwaitPublish
<1>14. CASE ReadAgain(f)
  BY SMTT(30), <1>14 DEF ReadAgain, Succeeds
<1>15. CASE Finish(f)
  BY <1>15 DEF Finish
<1> QED
  BY <1>2, <1>3, <1>4, <1>5, <1>6, <1>7, <1>8, <1>9, <1>10, <1>11, <1>12, <1>13, <1>14, <1>15 DEF FlowStep

(* A transaction of a flow lands or reverts.                                  *)
LEMMA ChainSound ==
    ASSUME PostingAssumption, Shape, Grows, NEW f \in Flows, Sound(f),
           BatchSettles(f) \/ PlainSettles(f) \/ PublishSettles(f)
    PROVE  Sound(f)'
<1>1. /\ \A id : Owns(f, id) => Owns(f, id)'
      /\ flow' = flow
      /\ flow[f].posted => Scope(f)' = TextOf[f]
  <2>1. flow' = flow
    BY DEF BatchSettles, PlainSettles, PublishSettles
  <2>2. \A id : Owns(f, id) => Owns(f, id)'
    BY DEF Owns, Grows
  <2>3. TextOf[f] # NoText
    BY DEF PostingAssumption
  <2> QED
    BY <2>1, <2>2, <2>3 DEF Sound, KnownTasks, Owns, Scope, Grows
<1>2. CASE PublishSettles(f)
  <2>1. /\ created'[f] = created[f] /\ tx'[f].batch = tx[f].batch
        /\ tx'[f].plain = tx[f].plain /\ tx'[f].plainId = tx[f].plainId
    BY <1>2 DEF PublishSettles, Sent, Shape
  <2> QED
    BY <1>1, <2>1 DEF Sound, Counted, SentInOrder, KnownTasks
<1>3. ASSUME tx' = [tx EXCEPT ![f].batch = "reverted"] /\ tx[f].batch = "pending",
             created' = created
      PROVE  Sound(f)'
  BY <1>1, <1>3 DEF Shape, Sound, Counted, SentInOrder, KnownTasks
<1>4. ASSUME tx' = [tx EXCEPT ![f].plain = "reverted"] /\ tx[f].plain = "pending",
             created' = created
      PROVE  Sound(f)'
  BY <1>1, <1>4 DEF Shape, Sound, Counted, SentInOrder, KnownTasks
<1>5. Posted(f) \in Seq(TaskType) /\ Len(tasks) + 1 \in DOMAIN Posted(f)
      /\ Posted(f)[Len(tasks) + 1].poster = OwnerOf[f]
  <2>1. [poster |-> OwnerOf[f], scope |-> NoText] \in TaskType /\ tasks \in Seq(TaskType)
    BY DEF TaskType, PostingAssumption, Shape
  <2> QED
    BY <2>1, AppendFacts DEF Posted
<1>6. ASSUME CanPublish(Posted(f), OwnerOf[f], flow[f].next),
             tasks' = WithScope(Posted(f), flow[f].next, TextOf[f]),
             tx' = [tx EXCEPT ![f].batch = "landed"], tx[f].batch = "pending",
             created' = [created EXCEPT ![f] = @ + 1]
      PROVE  Sound(f)'
  <2>1. Owns(f, flow[f].next)'
    <3>1. TextOf[f] \in Texts
      BY DEF PostingAssumption
    <3> QED
      BY <1>1, <1>5, <1>6, <3>1, WithScopeFacts DEF CanPublish, Owns
  <2> QED
    BY <1>1, <1>6, <2>1 DEF Shape, Sound, Counted, SentInOrder, KnownTasks
<1>7. ASSUME tasks' = Posted(f),
             tx' = [tx EXCEPT ![f].plain = "landed", ![f].plainId = Len(tasks) + 1],
             tx[f].plain = "pending",
             created' = [created EXCEPT ![f] = @ + 1]
      PROVE  Sound(f)'
  <2>1. PICK n : n = Len(tasks) + 1
    OBVIOUS
  <2>2. Owns(f, n)'
    BY <1>5, <1>7, <2>1 DEF Owns
  <2>3. tx' = [tx EXCEPT ![f].plain = "landed", ![f].plainId = n]
    BY <1>7, <2>1
  <2> QED
    BY <1>1, <1>7, <2>2, <2>3 DEF Shape, Sound, Counted, SentInOrder, KnownTasks
<1> QED
  BY <1>2, <1>3, <1>4, <1>6, <1>7 DEF BatchSettles, PlainSettles, Sent

-------------------------------------------------------------------------------
(* The invariant holds at the start.                                         *)
LEMMA PageInitSound ==
    ASSUME PostingAssumption, PageInit
    PROVE  PageInv
<1>1. <<>> \in Seq(TaskType)
  OBVIOUS
<1> QED
  BY <1>1 DEF PageInit, PageInv, Shape, Sound, Counted, SentInOrder, KnownTasks

(* Every step keeps the invariant.                                           *)
LEMMA PageNextSound ==
    ASSUME PostingAssumption, PageInv, [PageNext]_pageVars
    PROVE  PageInv'
<1>1. Shape' /\ Grows
  BY ShapeStep, TasksGrow DEF PageInv
<1>2. ASSUME NEW f \in Flows,
             \A g \in Flows \ {f} : tx'[g] = tx[g] /\ flow'[g] = flow[g]
                                   /\ created'[g] = created[g],
             Sound(f)'
      PROVE  PageInv'
  BY <1>1, <1>2, Stable DEF PageInv
<1>3. ASSUME NEW f \in Flows, Click(f) \/ FlowStep(f)
      PROVE  PageInv'
  <2>1. \A g \in Flows \ {f} : tx'[g] = tx[g] /\ flow'[g] = flow[g] /\ created'[g] = created[g]
    BY <1>3 DEF PageInv, Shape, FlowStep, Click, CheckAnswers, Throws, ReadCount, SendBatch, PollBatch,
                LookUp, SendPost, Receipt, ReadScope, SendPublish, AwaitPublish, ReadAgain,
                Finish, Goes, Sent, Found, PostInstead, ThrowPublish, Succeeds
  <2> QED
    BY <1>2, <1>3, <2>1, PageSound DEF PageInv
<1>4. ASSUME NEW f \in Flows, BatchSettles(f) \/ PlainSettles(f) \/ PublishSettles(f)
      PROVE  PageInv'
  <2>1. \A g \in Flows \ {f} : tx'[g] = tx[g] /\ flow'[g] = flow[g] /\ created'[g] = created[g]
    BY <1>4 DEF PageInv, Shape, BatchSettles, PlainSettles, PublishSettles, Sent
  <2> QED
    BY <1>1, <1>2, <1>4, <2>1, ChainSound DEF PageInv
<1>5. CASE StrangerPosts \/ UNCHANGED pageVars
  <2>1. UNCHANGED <<tx, flow, created>>
    BY <1>5 DEF StrangerPosts, pageVars
  <2> QED
    BY <1>1, <2>1, Stable DEF PageInv
<1> QED
  BY <1>3, <1>4, <1>5 DEF PageNext

(* The inductive invariant: tasks are counted where they were created, sent     *)
(* in an order that tells a blind retry, and held by ids that stay valid.      *)
THEOREM PostingSound == PageSpec => []PageInv
<1>1. PageInit => PageInv
  BY PageInitSound, PostingAssumption
<1>2. PageInv /\ [PageNext]_pageVars => PageInv'
  BY PageNextSound, PostingAssumption
<1> QED
  BY <1>1, <1>2, PTL DEF PageSpec

(* The task a page shows as posted belongs to its wallet and carries its scope. *)
THEOREM PostingShowsListed == PageSpec => []ShownTaskIsListed
<1>1. PageInv => ShownTaskIsListed
  BY DEF PageInv, Sound, KnownTasks, Owns, ShownTaskIsListed
<1> QED
  BY <1>1, PostingSound, PTL

(* One click never pays for two tasks unless its lookup could not tell.         *)
THEOREM PostingTwiceOnlyBlind == PageSpec => []PostedTwiceOnlyBlind
<1>1. PageInv => PostedTwiceOnlyBlind
  BY DEF PageInv, Sound, Counted, SentInOrder, PostedTwiceOnlyBlind
<1> QED
  BY <1>1, PostingSound, PTL

-------------------------------------------------------------------------------
(* A busy page is freed: the argument needs no other invariant, for a page     *)
(* becomes busy in the step that starts a post, and every way for a post to    *)
(* end frees it.                                                              *)
THEOREM PostingBusyIsFreed == PageSpec => []BusyIsFreed
<1>1. PageInit => BusyIsFreed
  BY DEF PageInit, BusyIsFreed
<1>2. PageInv /\ BusyIsFreed /\ [PageNext]_pageVars => BusyIsFreed'
  <2> SUFFICES ASSUME Shape, BusyIsFreed, [PageNext]_pageVars,
                      NEW w \in Wallets, busy'[w]
               PROVE  \E f \in Flows : OwnerOf[f] = w
                                    /\ flow'[f].at \notin {"idle", "check", "ended"}
    BY DEF PageInv, BusyIsFreed
  <2> DEFINE Working(f) == OwnerOf[f] = w /\ flow[f].at \notin {"idle", "check", "ended"}
  <2> USE DEF Shape
  <2>1. ASSUME NEW f \in Flows, CheckAnswers(f)
        PROVE  \/ Working(f)'
               \/ busy[w] /\ \A g \in Flows : Working(g) => Working(g)'
    BY <2>1 DEF CheckAnswers, Goes, At
  <2>2. ASSUME NEW f \in Flows, Finish(f)
        PROVE  OwnerOf[f] # w /\ busy[w] /\ \A g \in Flows : Working(g) => Working(g)'
    BY <2>2 DEF Finish, Goes, At
  <2>3. ASSUME NEW f \in Flows, Click(f) \/ Throws(f) \/ ReadCount(f) \/ SendBatch(f)
                                \/ PollBatch(f) \/ LookUp(f) \/ SendPost(f)
        PROVE  busy[w] /\ \A g \in Flows : Working(g) => Working(g)'
    BY <2>3 DEF Click, Throws, ReadCount, SendBatch, PollBatch, LookUp, SendPost,
                At, Goes, Found, PostInstead
  <2>4. ASSUME NEW f \in Flows, Receipt(f) \/ ReadScope(f) \/ SendPublish(f)
                                \/ AwaitPublish(f) \/ ReadAgain(f)
        PROVE  busy[w] /\ \A g \in Flows : Working(g) => Working(g)'
    BY <2>4 DEF Receipt, ReadScope, SendPublish, AwaitPublish, ReadAgain, ThrowPublish,
                Succeeds, At, Goes, Found
  <2>5. ASSUME \/ StrangerPosts \/ UNCHANGED pageVars
               \/ \E f \in Flows : BatchSettles(f) \/ PlainSettles(f) \/ PublishSettles(f)
        PROVE  busy' = busy /\ flow' = flow
    BY <2>5 DEF StrangerPosts, pageVars, BatchSettles, PlainSettles, PublishSettles
  <2> QED
    BY <2>1, <2>2, <2>3, <2>4, <2>5 DEF BusyIsFreed, PageNext, FlowStep
<1> QED
  BY <1>1, <1>2, PostingSound, PTL DEF PageSpec


-------------------------------------------------------------------------------
(* The graph store.                                                           *)

Content == Graph \cup {Absent, Corrupt}

(* A graph that leaves out nothing that was saved.                            *)
Covers(g) == g.entities >= saved.entities /\ g.version >= saved.version

Holds(n) == Readable(files[n]) /\ Covers(files[n])

(* No file has more entities than the graph in memory, which leaves out        *)
(* nothing saved.                                                             *)
MemoryLeads ==
    step # "down" =>
       /\ saved.entities > 0 => Covers(memory)
       /\ \A n \in Names : EntityCount(files[n]) <= memory.entities
       /\ EntityCount(archive) <= memory.entities

(* What a save has already written.                                           *)
Past == {"archive", "bak", "rename", "direct", "unlink"}

Progressed ==
    /\ step \in Past => files["snapshot"] = memory
    /\ step \in Past \cup {"snapshot"} => files["tmp"] = memory
    /\ step = "unlink" => files["main"] = memory
    /\ step \in {"direct", "failed"} => faults = 1

(* A file with more entities than were saved is not older, nor is a snapshot   *)
(* with as many.                                                              *)
LargerIsNewer ==
    /\ \A n \in Names : EntityCount(files[n]) > saved.entities => files[n].version >= saved.version
    /\ EntityCount(archive) > saved.entities => archive.version >= saved.version
    /\ EntityCount(files["snapshot"]) >= saved.entities
          => files["snapshot"].version >= saved.version

(* main holds what was saved, or was cut short in a save that came after the    *)
(* one refused rename and after .bak had been copied.                         *)
MainOrBak ==
    /\ \/ Holds("main")
       \/ /\ files["main"] = Corrupt /\ Holds("bak") /\ faults = 1
          /\ step \in {"down", "tmp", "snapshot", "archive", "bak", "rename"}
    /\ step = "rename" /\ faults = 0 => Holds("bak")
    /\ step = "direct" => Holds("bak")

StoreInv ==
    /\ StoreTypeOK
    /\ faults <= 1 => /\ MemoryLeads /\ Progressed
                      /\ saved.entities > 0 => LargerIsNewer /\ MainOrBak

(* A graph is readable; no entities are counted in what is not.                *)
LEMMA CountFacts ==
    /\ \A g \in Graph : Readable(g) /\ EntityCount(g) = g.entities
                        /\ g.entities \in Nat /\ g.version \in Nat
    /\ EntityCount(Absent) = 0 /\ EntityCount(Corrupt) = 0
    /\ ~Readable(Absent) /\ ~Readable(Corrupt) /\ Absent # Corrupt
<1>1. ASSUME NEW g \in Graph
      PROVE  g # Absent /\ g # Corrupt
  <2>1. "version" \in DOMAIN g
    BY <1>1 DEF Graph
  <2>2. "version" \notin DOMAIN Absent /\ "version" \notin DOMAIN Corrupt
    BY DEF Absent, Corrupt
  <2> QED BY <2>1, <2>2
<1>2. \A g \in Graph : g.entities \in Nat /\ g.version \in Nat
  BY DEF Graph
<1>3. Absent # Corrupt
  BY DEF Absent, Corrupt
<1> QED BY <1>1, <1>2, <1>3 DEF Readable, EntityCount

(* What a file's content is.                                                  *)
LEMMA ContentFacts ==
    ASSUME NEW f \in Content
    PROVE  /\ EntityCount(f) \in Nat
           /\ EntityCount(f) > 0 => f \in Graph
           /\ Readable(f) => f \in Graph
           /\ f \in Graph => Readable(f) /\ EntityCount(f) = f.entities /\ f.version \in Nat
BY CountFacts DEF Content, Readable

(* Of five numbers, not all zero, one is the first of the largest.             *)
LEMMA FirstOfLargest ==
    ASSUME NEW c \in [1..5 -> Nat], NEW k \in 1..5, c[k] > 0
    PROVE  \E i \in 1..5 : /\ c[i] > 0
                           /\ \A j \in 1..5 : c[j] <= c[i]
                           /\ \A j \in 1..(i - 1) : c[j] < c[i]
<1> DEFINE First(i) == /\ c[i] > 0
                       /\ c[1] <= c[i] /\ c[2] <= c[i] /\ c[3] <= c[i]
                       /\ c[4] <= c[i] /\ c[5] <= c[i]
                       /\ 1 < i => c[1] < c[i]
                       /\ 2 < i => c[2] < c[i]
                       /\ 3 < i => c[3] < c[i]
                       /\ 4 < i => c[4] < c[i]
<1>1. /\ c[1] \in Nat /\ c[2] \in Nat /\ c[3] \in Nat /\ c[4] \in Nat /\ c[5] \in Nat
      /\ c[1] > 0 \/ c[2] > 0 \/ c[3] > 0 \/ c[4] > 0 \/ c[5] > 0
  OBVIOUS
<1>2. First(1) \/ First(2) \/ First(3) \/ First(4) \/ First(5)
  BY <1>1
<1>3. PICK i \in 1..5 : First(i)
  BY <1>2
<1>4. \A j \in 1..5 : j = 1 \/ j = 2 \/ j = 3 \/ j = 4 \/ j = 5
  OBVIOUS
<1>5. \A j \in 1..5 : c[j] <= c[i]
  BY <1>3, <1>4
<1>6. \A j \in 1..(i - 1) : c[j] < c[i]
  <2> SUFFICES ASSUME NEW j \in 1..(i - 1) PROVE c[j] < c[i]
    OBVIOUS
  <2>1. j \in 1..5 /\ j < i
    OBVIOUS
  <2> QED BY <1>3, <1>4, <2>1
<1> QED BY <1>3, <1>5, <1>6

(* load takes a file with most entities, or an empty graph when none has any.  *)
LEMMA LoadedFacts ==
    ASSUME StoreTypeOK
    PROVE  \/ /\ Loaded = Empty
              /\ \A i \in 1..5 : EntityCount(Candidates[i]) = 0
           \/ \E i \in MostEntities : Loaded = Candidates[i]
<1> DEFINE c == [i \in 1..5 |-> EntityCount(Candidates[i])]
<1>1. \A i \in 1..5 : Candidates[i] \in Content
  <2>1. \A n \in Names : files[n] \in Content
    BY DEF StoreTypeOK, Content
  <2>2. archive \in Content
    BY DEF StoreTypeOK, Content
  <2> QED BY <2>1, <2>2 DEF Candidates, Names
<1>2. c \in [1..5 -> Nat]
  BY <1>1, ContentFacts
<1>3. CASE \A i \in 1..5 : EntityCount(Candidates[i]) = 0
  <2>1. MostEntities = {}
    BY <1>3 DEF MostEntities
  <2> QED BY <1>3, <2>1 DEF Loaded
<1>4. CASE \E k \in 1..5 : EntityCount(Candidates[k]) # 0
  <2>1. PICK k \in 1..5 : c[k] > 0
    BY <1>2, <1>4
  <2>2. \E i \in 1..5 : /\ c[i] > 0
                        /\ \A j \in 1..5 : c[j] <= c[i]
                        /\ \A j \in 1..(i - 1) : c[j] < c[i]
    BY <1>2, <2>1, FirstOfLargest
  <2>3. \A i \in 1..5 : \A j \in 1..(i - 1) : j \in 1..5
    OBVIOUS
  <2>4. MostEntities # {}
    BY <2>2, <2>3 DEF MostEntities
  <2> QED BY <2>4 DEF Loaded
<1> QED BY <1>3, <1>4

(* What load finds leaves out nothing saved, and no file has more entities.    *)
LEMMA LoadedLeads ==
    ASSUME StoreTypeOK
    PROVE  /\ Loaded \in Graph
           /\ \A n \in Names : EntityCount(files[n]) <= Loaded.entities
           /\ EntityCount(archive) <= Loaded.entities
           /\ faults <= 1 /\ saved.entities > 0 /\ LargerIsNewer /\ MainOrBak
                => Covers(Loaded) /\ Loaded.entities > 0
<1>1. \A n \in Names : files[n] \in Content
  BY DEF StoreTypeOK, Content
<1>2. archive \in Content /\ saved \in Graph
  BY DEF StoreTypeOK, Content
<1>3. /\ Candidates[1] = files["main"] /\ Candidates[2] = files["snapshot"]
      /\ Candidates[3] = files["bak"] /\ Candidates[4] = files["tmp"]
      /\ Candidates[5] = archive
  BY DEF Candidates
<1>4. Names = {"main", "snapshot", "bak", "tmp"}
  BY DEF Names
<1>5. saved.entities \in Nat /\ saved.version \in Nat
  BY <1>2, CountFacts
<1>6. Corrupt \notin Graph
  BY CountFacts
<1>7. CASE /\ Loaded = Empty
           /\ \A i \in 1..5 : EntityCount(Candidates[i]) = 0
  <2>1. /\ \A n \in Names : EntityCount(files[n]) = 0
        /\ EntityCount(archive) = 0
    BY <1>3, <1>4, <1>7
  <2>2. Loaded.entities = 0
    BY <1>7 DEF Empty
  <2>3. Loaded \in Graph
    BY <1>7, StoreAssumption DEF Empty, Graph
  <2>4. ASSUME saved.entities > 0, MainOrBak
        PROVE  FALSE
    <3>1. PICK n \in Names : Holds(n)
      BY <1>4, <2>4 DEF MainOrBak
    <3>2. files[n] \in Graph /\ EntityCount(files[n]) = files[n].entities
      BY <1>1, <3>1, ContentFacts DEF Holds
    <3> QED BY <1>5, <2>1, <2>4, <3>1, <3>2 DEF Holds, Covers
  <2> QED BY <1>7, <2>1, <2>2, <2>3, <2>4
<1>8. CASE \E i \in MostEntities : Loaded = Candidates[i]
  <2>1. PICK i \in MostEntities : Loaded = Candidates[i]
    BY <1>8
  <2>2. /\ i \in 1..5 /\ EntityCount(Loaded) > 0
        /\ \A j \in 1..5 : EntityCount(Candidates[j]) <= EntityCount(Loaded)
        /\ \A j \in 1..(i - 1) : EntityCount(Candidates[j]) < EntityCount(Loaded)
    BY <2>1 DEF MostEntities
  <2>3. i = 1 \/ i = 2 \/ i = 3 \/ i = 4 \/ i = 5
    BY <2>2
  <2>4. Loaded \in Content
    BY <1>1, <1>2, <1>3, <1>4, <2>1, <2>3
  <2>5. Loaded \in Graph /\ EntityCount(Loaded) = Loaded.entities /\ Loaded.entities \in Nat
    BY <2>2, <2>4, ContentFacts
  <2>6. /\ \A n \in Names : EntityCount(files[n]) <= Loaded.entities
        /\ EntityCount(archive) <= Loaded.entities
    BY <1>3, <1>4, <2>2, <2>5
  <2>7. ASSUME faults <= 1, saved.entities > 0, LargerIsNewer, MainOrBak
        PROVE  Covers(Loaded)
    <3>1. PICK n \in {"main", "bak"} : Holds(n) /\ (n = "bak" => files["main"] = Corrupt)
      BY <2>7 DEF MainOrBak
    <3>2. /\ EntityCount(files[n]) = files[n].entities
          /\ EntityCount(files[n]) >= saved.entities
      BY <1>1, <1>4, <3>1, ContentFacts DEF Holds, Covers
    <3>3. Loaded.entities >= saved.entities
      BY <1>1, <1>4, <1>5, <2>5, <2>6, <3>2, ContentFacts
    <3>4. CASE Loaded.entities > saved.entities
      <4>1. Loaded.version >= saved.version
        BY <1>3, <1>4, <2>1, <2>3, <2>5, <2>7, <3>4 DEF LargerIsNewer
      <4> QED BY <3>3, <4>1 DEF Covers
    <3>5. CASE Loaded.entities = saved.entities
      <4>1. CASE i = 1
        <5>1. n = "main"
          BY <1>3, <1>6, <2>1, <2>5, <3>1, <4>1
        <5> QED BY <1>3, <2>1, <3>1, <4>1, <5>1 DEF Holds
      <4>2. CASE i = 2
        <5>1. Loaded.version >= saved.version
          BY <1>3, <1>5, <2>1, <2>5, <2>7, <3>3, <4>2 DEF LargerIsNewer
        <5> QED BY <3>3, <5>1 DEF Covers
      <4>3. CASE i = 3
        <5>1. EntityCount(files["main"]) < saved.entities
          BY <1>3, <2>2, <2>5, <3>5, <4>3
        <5>2. n = "bak"
          BY <1>1, <1>4, <1>5, <3>1, <3>2, <5>1, ContentFacts
        <5> QED BY <1>3, <2>1, <3>1, <4>3, <5>2 DEF Holds
      <4>4. CASE i \in {4, 5}
        <5>1. /\ EntityCount(files["main"]) < saved.entities
              /\ EntityCount(files["bak"]) < saved.entities
          BY <1>3, <2>2, <2>5, <3>5, <4>4
        <5> QED BY <1>1, <1>4, <1>5, <3>1, <3>2, <5>1, ContentFacts
      <4> QED BY <2>3, <4>1, <4>2, <4>3, <4>4
    <3> QED BY <1>5, <2>5, <3>3, <3>4, <3>5
  <2> QED BY <2>2, <2>4, <2>5, <2>6, <2>7
<1> QED BY <1>7, <1>8, LoadedFacts

(* What a step of the process may put into the files.                         *)
Rewritten ==
    /\ files' \in [Names -> Content]
    /\ \A n \in Names : \/ files'[n] \in {files[n], memory, Absent, Corrupt}
                        \/ n = "bak" /\ files'[n] = files["main"]
    /\ archive' \in {archive, memory}
    /\ memory' = memory

(* It keeps the files behind memory, and a larger one newer.                    *)
LEMMA RewriteKeeps ==
    ASSUME StoreTypeOK, MemoryLeads, step # "down", Rewritten
    PROVE  /\ \A n \in Names : EntityCount(files'[n]) <= memory'.entities
           /\ EntityCount(archive') <= memory'.entities
           /\ archive' \in Content
           /\ saved' = saved /\ saved.entities > 0 /\ LargerIsNewer => LargerIsNewer'
<1>1. \A n \in Names : files[n] \in Content
  BY DEF StoreTypeOK, Content
<1>2. archive \in Content /\ memory \in Graph /\ memory \in Content /\ saved \in Graph
  BY DEF StoreTypeOK, Content
<1>3. {"main", "snapshot", "bak"} \subseteq Names
  BY DEF Names
<1>4. /\ EntityCount(memory) = memory.entities /\ memory.entities \in Nat
      /\ EntityCount(Absent) = 0 /\ EntityCount(Corrupt) = 0
      /\ saved.entities \in Nat
  BY <1>2, CountFacts
<1>5. ASSUME NEW n \in Names
      PROVE  \/ EntityCount(files'[n]) = 0
             \/ files'[n] = memory
             \/ \E m \in Names : files'[n] = files[m] /\ (m # n => n = "bak")
  BY <1>3, <1>4 DEF Rewritten
<1>6. \A n \in Names : EntityCount(files'[n]) <= memory'.entities
  BY <1>4, <1>5 DEF MemoryLeads, Rewritten
<1>7. EntityCount(archive') <= memory'.entities /\ archive' \in Content
  BY <1>2, <1>4 DEF MemoryLeads, Rewritten
<1>8. ASSUME saved' = saved, saved.entities > 0, LargerIsNewer
      PROVE  LargerIsNewer'
  <2>1. memory.version >= saved.version
    BY <1>8 DEF MemoryLeads, Covers
  <2>2. ASSUME NEW n \in Names, EntityCount(files'[n]) > saved.entities
        PROVE  files'[n].version >= saved.version
    BY <1>4, <1>5, <1>8, <2>1, <2>2 DEF LargerIsNewer
  <2>3. EntityCount(archive') > saved.entities => archive'.version >= saved.version
    BY <1>8, <2>1 DEF LargerIsNewer, Rewritten
  <2>4. ASSUME EntityCount(files'["snapshot"]) >= saved.entities
        PROVE  files'["snapshot"].version >= saved.version
    <3>1. "snapshot" # "bak"
      OBVIOUS
    <3>2. files'["snapshot"] = memory \/ files'["snapshot"] = files["snapshot"]
      BY <1>3, <1>4, <1>5, <1>8, <2>4, <3>1
    <3> QED BY <1>8, <2>1, <2>4, <3>2 DEF LargerIsNewer
  <2> QED BY <1>8, <2>2, <2>3, <2>4 DEF LargerIsNewer
<1> QED BY <1>6, <1>7, <1>8

(* Writing one file.                                                          *)
LEMMA WriteFacts ==
    ASSUME StoreTypeOK, NEW n \in Names, NEW x \in Content, Write(n, x)
    PROVE  /\ files' \in [Names -> Content]
           /\ files'[n] = x
           /\ \A m \in Names : m # n => files'[m] = files[m]
BY DEF StoreTypeOK, Write, Content

(* A step that rewrites the files within a run keeps the invariant when it      *)
(* keeps the progress of the save and a good main or .bak.                      *)
LEMMA RewriteSound ==
    ASSUME StoreInv, step # "down", Rewritten, saved' = saved,
           step' \in SaveSteps, closing' \in BOOLEAN, lastWritten' \in 0..MaxVersion,
           faults' \in 0..MaxFaults, restarts' \in 0..MaxRestarts, faults <= faults',
           faults' <= 1 /\ MemoryLeads /\ Progressed => Progressed',
           faults' <= 1 /\ MemoryLeads /\ Progressed /\ saved.entities > 0 /\ MainOrBak => MainOrBak'
    PROVE  StoreInv'
<1>1. StoreTypeOK /\ faults \in Nat /\ faults' \in Nat
  BY StoreAssumption DEF StoreInv, StoreTypeOK
<1>2. Content = Graph \cup {Absent, Corrupt}
  BY DEF Content
<1>3. StoreTypeOK'
  <2>1. archive' \in Graph \cup {Absent} /\ memory' \in Graph /\ saved' \in Graph
    BY <1>1 DEF StoreTypeOK, Rewritten
  <2> QED BY <1>2, <2>1 DEF StoreTypeOK, Rewritten
<1>4. ASSUME faults' <= 1
      PROVE  /\ MemoryLeads' /\ Progressed'
             /\ saved'.entities > 0 => LargerIsNewer' /\ MainOrBak'
  <2>1. /\ MemoryLeads /\ Progressed
        /\ saved.entities > 0 => LargerIsNewer /\ MainOrBak
    BY <1>1, <1>4 DEF StoreInv
  <2>2. MemoryLeads'
    BY <1>1, <2>1, RewriteKeeps DEF MemoryLeads, Covers, Rewritten
  <2> QED BY <1>1, <1>4, <2>1, <2>2, RewriteKeeps
<1> QED BY <1>3, <1>4 DEF StoreInv

(* The bounds are natural.                                                    *)
LEMMA Bounds ==
    /\ MaxVersion \in Nat \ {0} /\ MaxEntities \in Nat
    /\ MaxFaults \in Nat /\ MaxRestarts \in Nat
    /\ 0 \in 0..MaxVersion /\ 0 \in 0..MaxFaults /\ 0 \in 0..MaxRestarts
BY StoreAssumption

(* A write that fails costs one fault, leaves one file at most cut short,    *)
(* and goes on.                                                              *)
LEMMA FailFacts ==
    ASSUME StoreInv, NEW n \in Names, NEW next, Fails(n, next)
    PROVE  /\ Rewritten /\ saved' = saved /\ step' = next
           /\ closing' = closing /\ lastWritten' = lastWritten /\ restarts' = restarts
           /\ faults' = faults + 1 /\ faults' \in 0..MaxFaults
           /\ archive' = archive
           /\ \A m \in Names : m # n => files'[m] = files[m]
<1>1. StoreTypeOK /\ Corrupt \in Content
  BY DEF StoreInv, Content
<1>2. files' \in [Names -> Content] /\ (files'[n] = Corrupt \/ files'[n] = files[n])
      /\ \A m \in Names : m # n => files'[m] = files[m]
  BY <1>1, WriteFacts DEF Fails, StoreTypeOK, Content
<1>3. faults' \in 0..MaxFaults
  BY <1>1, StoreAssumption DEF Fails, StoreTypeOK
<1>4. \A m \in Names : files'[m] \in {files[m], memory, Absent, Corrupt}
  BY <1>2
<1>5. /\ archive' = archive /\ memory' = memory /\ saved' = saved /\ step' = next
      /\ closing' = closing /\ lastWritten' = lastWritten /\ restarts' = restarts
      /\ faults' = faults + 1
  BY DEF Fails
<1>6. Rewritten
  BY <1>2, <1>4, <1>5 DEF Rewritten
<1> QED BY <1>2, <1>3, <1>5, <1>6

(* The invariant holds at the start.                                         *)
LEMMA InitStored == StoreInit => StoreInv
<1> SUFFICES ASSUME StoreInit PROVE StoreInv
  OBVIOUS
<1>1. Empty \in Graph /\ Empty.entities = 0
  BY StoreAssumption DEF Empty, Graph
<1>2. StoreTypeOK
  <2>1. memory \in Graph /\ saved \in Graph /\ files \in [Names -> Graph \cup {Absent, Corrupt}]
    BY <1>1 DEF StoreInit
  <2>2. /\ lastWritten \in 0..MaxVersion /\ faults \in 0..MaxFaults
        /\ restarts \in 0..MaxRestarts /\ closing \in BOOLEAN
        /\ archive \in Graph \cup {Absent} /\ step \in SaveSteps
    BY Bounds DEF StoreInit, SaveSteps
  <2> QED BY <2>1, <2>2 DEF StoreTypeOK
<1>3. MemoryLeads /\ Progressed
  BY DEF StoreInit, MemoryLeads, Progressed, Past
<1> QED BY <1>1, <1>2, <1>3 DEF StoreInit, StoreInv

(* A start, whichever file it loads.                                         *)
LEMMA StartKeeps == StoreInv /\ Start => StoreInv'
<1> SUFFICES ASSUME StoreInv, Start PROVE StoreInv'
  OBVIOUS
<1>1. StoreTypeOK /\ Loaded \in Graph
  BY LoadedLeads DEF StoreInv
<1>2. StoreTypeOK'
  <2>1. /\ memory' \in Graph /\ lastWritten' = 0 /\ closing' = FALSE /\ step' \in {"tmp", "idle"}
        /\ files' = files /\ archive' = archive /\ saved' = saved
        /\ faults' = faults /\ restarts' = restarts
    BY <1>1 DEF Start
  <2>2. lastWritten' \in 0..MaxVersion /\ closing' \in BOOLEAN /\ step' \in SaveSteps
    BY <2>1, Bounds DEF SaveSteps
  <2> QED BY <1>1, <2>1, <2>2 DEF StoreTypeOK
<1>3. ASSUME faults' <= 1
      PROVE  /\ MemoryLeads' /\ Progressed'
             /\ saved'.entities > 0 => LargerIsNewer' /\ MainOrBak'
  <2>1. saved.entities > 0 => LargerIsNewer /\ MainOrBak /\ Covers(Loaded) /\ Loaded.entities > 0
    BY <1>1, <1>3, LoadedLeads DEF StoreInv, Start
  <2>2. MemoryLeads'
    BY <1>1, <2>1, LoadedLeads DEF Start, MemoryLeads, Covers
  <2>3. Progressed'
    BY DEF Start, Progressed, Past
  <2>4. saved'.entities > 0 => LargerIsNewer'
    BY <2>1 DEF Start, LargerIsNewer
  <2>5. ASSUME saved'.entities > 0 PROVE MainOrBak'
    <3>1. step' = "tmp" /\ step = "down" /\ MainOrBak
      BY <2>1, <2>5 DEF Start
    <3> QED BY <3>1 DEF Start, MainOrBak, Holds, Covers
  <2> QED BY <2>2, <2>3, <2>4, <2>5
<1> QED BY <1>2, <1>3 DEF StoreInv

(* A change of the graph.                                                    *)
LEMMA ChangeKeeps == StoreInv /\ Change => StoreInv'
<1> SUFFICES ASSUME StoreInv, Change PROVE StoreInv'
  OBVIOUS
<1>1. PICK n \in {memory.entities, memory.entities + 1} :
         n <= MaxEntities /\ memory' = [entities |-> n, version |-> memory.version + 1]
  BY DEF Change
<1>2. StoreTypeOK /\ memory \in Graph
  BY DEF StoreInv, StoreTypeOK
<1>3. memory' \in Graph /\ memory'.entities >= memory.entities
      /\ memory'.version >= memory.version /\ memory'.entities \in Nat
  BY <1>1, <1>2, StoreAssumption DEF Change, Graph
<1>4. StoreTypeOK'
  BY <1>2, <1>3 DEF Change, StoreTypeOK
<1>5. ASSUME faults' <= 1
      PROVE  /\ MemoryLeads' /\ Progressed'
             /\ saved'.entities > 0 => LargerIsNewer' /\ MainOrBak'
  <2>1. /\ MemoryLeads /\ Progressed
        /\ saved.entities > 0 => LargerIsNewer /\ MainOrBak
    BY <1>5 DEF StoreInv, Change
  <2>2. /\ \A m \in Names : EntityCount(files[m]) \in Nat
        /\ EntityCount(archive) \in Nat /\ memory.entities \in Nat /\ memory.version \in Nat
        /\ saved.entities \in Nat /\ saved.version \in Nat /\ memory'.version \in Nat
    BY <1>2, <1>3, ContentFacts, CountFacts DEF StoreTypeOK, Content
  <2>3. MemoryLeads'
    BY <1>3, <2>1, <2>2 DEF Change, MemoryLeads, Covers
  <2>4. Progressed'
    BY <2>1 DEF Change, Progressed, Past
  <2>5. saved'.entities > 0 => LargerIsNewer' /\ MainOrBak'
    BY <2>1 DEF Change, LargerIsNewer, MainOrBak, Holds, Covers
  <2> QED BY <2>3, <2>4, <2>5
<1> QED BY <1>4, <1>5 DEF StoreInv

(* The beginning of a save, by the timer or by closing.                      *)
LEMMA CloseKeeps == StoreInv /\ (SaveDue \/ Close) => StoreInv'
<1> SUFFICES ASSUME StoreInv, SaveDue \/ Close PROVE StoreInv'
  OBVIOUS
<1>1. StoreTypeOK /\ step = "idle" /\ faults' = faults /\ files' = files
      /\ step' \in {"tmp", "down", "backup"}
      /\ memory' = memory /\ archive' = archive /\ saved' = saved
  BY DEF StoreInv, SaveDue, Close, AfterBackup
<1>2. Rewritten
  <2>1. files \in [Names -> Content]
    BY <1>1 DEF StoreTypeOK, Content
  <2> QED BY <1>1, <2>1 DEF Rewritten
<1>3. /\ closing' \in BOOLEAN /\ lastWritten' \in 0..MaxVersion
      /\ restarts' \in 0..MaxRestarts /\ faults' \in 0..MaxFaults
  <2>1. /\ closing \in BOOLEAN /\ lastWritten' = lastWritten /\ lastWritten \in 0..MaxVersion
        /\ restarts \in 0..MaxRestarts /\ faults \in 0..MaxFaults
    BY <1>1 DEF SaveDue, Close, StoreTypeOK
  <2>2. CASE SaveDue
    BY <1>1, <2>1, <2>2 DEF SaveDue
  <2>3. CASE Close
    <3>1. restarts' \in 0..MaxRestarts
      BY <2>1, <2>3, Bounds DEF Close
    <3> QED BY <1>1, <2>1, <2>3, <3>1 DEF Close
  <2> QED BY <2>2, <2>3
<1>4. step' \in SaveSteps /\ step # "down" /\ faults <= faults'
  BY <1>1, StoreAssumption DEF SaveSteps, StoreTypeOK
<1>5. Progressed => Progressed'
  BY <1>1 DEF Progressed, Past
<1>6. MainOrBak => MainOrBak'
  BY <1>1 DEF MainOrBak, Holds, Covers
<1> QED BY <1>1, <1>2, <1>3, <1>4, <1>5, <1>6, RewriteSound

(* The four files of the store.                                              *)
LEMMA NamesAre ==
    /\ "main" \in Names /\ "snapshot" \in Names /\ "bak" \in Names /\ "tmp" \in Names
    /\ \A n \in Names : n = "main" \/ n = "snapshot" \/ n = "bak" \/ n = "tmp"
BY DEF Names

(* What does not change in a step within a save.                              *)
LEMMA StepFrame ==
    ASSUME StoreInv, lastWritten' = lastWritten, closing' = closing, restarts' = restarts,
           faults' = faults
    PROVE  /\ closing' \in BOOLEAN /\ lastWritten' \in 0..MaxVersion
           /\ restarts' \in 0..MaxRestarts /\ faults' \in 0..MaxFaults /\ faults <= faults'
BY StoreAssumption DEF StoreInv, StoreTypeOK

(* A write that fails keeps the invariant if it keeps what is said of the    *)
(* files.                                                                    *)
LEMMA FailSound ==
    ASSUME StoreInv, step # "down", NEW n \in Names, NEW next \in SaveSteps, Fails(n, next),
           faults' <= 1 /\ MemoryLeads /\ Progressed => Progressed',
           faults' <= 1 /\ MemoryLeads /\ Progressed /\ saved.entities > 0 /\ MainOrBak => MainOrBak'
    PROVE  StoreInv'
<1>1. /\ Rewritten /\ saved' = saved /\ step' = next
      /\ closing' = closing /\ lastWritten' = lastWritten /\ restarts' = restarts
      /\ faults' = faults + 1 /\ faults' \in 0..MaxFaults
  BY FailFacts
<1>2. /\ closing' \in BOOLEAN /\ lastWritten' \in 0..MaxVersion
      /\ restarts' \in 0..MaxRestarts /\ faults <= faults'
  BY <1>1, StoreAssumption DEF StoreInv, StoreTypeOK
<1> QED BY <1>1, <1>2, RewriteSound

(* A write of one file that succeeds, within a save.                          *)
LEMMA WriteSound ==
    ASSUME StoreInv, step # "down", NEW n \in Names, NEW x, NEW next \in SaveSteps,
           Write(n, x), Proceeds(next), archive' = archive,
           x \in {memory, Absent} \/ (n = "bak" /\ x = files["main"]),
           MemoryLeads /\ Progressed => Progressed',
           MemoryLeads /\ Progressed /\ saved.entities > 0 /\ MainOrBak => MainOrBak'
    PROVE  StoreInv'
<1>1. StoreTypeOK /\ x \in Content
  BY NamesAre DEF StoreInv, StoreTypeOK, Content
<1>2. /\ files' \in [Names -> Content] /\ files'[n] = x
      /\ \A m \in Names : m # n => files'[m] = files[m]
  BY <1>1, WriteFacts
<1>3. /\ memory' = memory /\ saved' = saved /\ step' = next
      /\ lastWritten' = lastWritten /\ closing' = closing /\ restarts' = restarts
      /\ faults' = faults
  BY DEF Proceeds
<1>4. ASSUME NEW m \in Names
      PROVE  \/ files'[m] \in {files[m], memory, Absent, Corrupt}
             \/ m = "bak" /\ files'[m] = files["main"]
  BY <1>2
<1>5. Rewritten
  BY <1>2, <1>3, <1>4 DEF Rewritten
<1> QED BY <1>3, <1>5, StepFrame, RewriteSound

(* A step that writes nothing.                                                *)
LEMMA PassSound ==
    ASSUME StoreInv, step # "down", NEW next \in SaveSteps, Proceeds(next),
           files' = files, archive' \in {archive, memory},
           MemoryLeads /\ Progressed => Progressed',
           MemoryLeads /\ Progressed /\ saved.entities > 0 /\ MainOrBak => MainOrBak'
    PROVE  StoreInv'
<1>1. /\ memory' = memory /\ saved' = saved /\ step' = next
      /\ lastWritten' = lastWritten /\ closing' = closing /\ restarts' = restarts
      /\ faults' = faults
  BY DEF Proceeds
<1>2. files' \in [Names -> Content]
  BY DEF StoreInv, StoreTypeOK, Content
<1>3. Rewritten
  BY <1>1, <1>2 DEF Rewritten
<1> QED BY <1>1, <1>3, StepFrame, RewriteSound

(* close copies main over .bak only between saves, when main is good.           *)
LEMMA BackupKeeps == StoreInv /\ Backup => StoreInv'
<1> SUFFICES ASSUME StoreInv, Backup PROVE StoreInv'
  OBVIOUS
<1>1. /\ step = "backup" /\ AfterBackup \in {"down", "tmp"} /\ AfterBackup \in SaveSteps
  BY DEF Backup, AfterBackup, SaveSteps
<1>2. CASE Write("bak", files["main"]) /\ Proceeds(AfterBackup) /\ UNCHANGED archive
  <2>1. files'["main"] = files["main"]
    BY <1>2, NamesAre, WriteFacts DEF StoreInv, StoreTypeOK, Content
  <2>2. step' = AfterBackup /\ memory' = memory /\ saved' = saved /\ faults' = faults
    BY <1>2 DEF Proceeds
  <2>3. Progressed => Progressed'
    BY <1>1, <2>2 DEF Progressed, Past
  <2>4. MainOrBak => MainOrBak'
    BY <1>1, <2>1, <2>2 DEF MainOrBak, Holds, Covers
  <2> QED BY <1>1, <1>2, <2>3, <2>4, NamesAre, WriteSound
<1>3. CASE Fails("bak", AfterBackup)
  <2>1. /\ files'["main"] = files["main"] /\ step' = AfterBackup /\ saved' = saved
        /\ faults' = faults + 1
    BY <1>3, NamesAre, FailFacts
  <2>3. Progressed => Progressed'
    BY <1>1, <2>1 DEF Progressed, Past
  <2>4. MainOrBak => MainOrBak'
    BY <1>1, <2>1 DEF MainOrBak, Holds, Covers
  <2> QED BY <1>1, <1>3, <2>3, <2>4, NamesAre, FailSound
<1> QED BY <1>2, <1>3 DEF Backup

(* Writing the temporary file.                                               *)
LEMMA WriteTmpKeeps == StoreInv /\ WriteTmp => StoreInv'
<1> SUFFICES ASSUME StoreInv, WriteTmp PROVE StoreInv'
  OBVIOUS
<1>1. step = "tmp" /\ "snapshot" \in SaveSteps /\ "failed" \in SaveSteps
  BY DEF WriteTmp, SaveSteps
<1>2. CASE Write("tmp", memory) /\ Proceeds("snapshot") /\ UNCHANGED archive
  <2>1. /\ files'["tmp"] = memory /\ files'["main"] = files["main"]
        /\ files'["bak"] = files["bak"]
    BY <1>2, NamesAre, WriteFacts DEF StoreInv, StoreTypeOK, Content
  <2>2. step' = "snapshot" /\ memory' = memory /\ saved' = saved /\ faults' = faults
    BY <1>2 DEF Proceeds
  <2>3. Progressed => Progressed'
    BY <1>1, <2>1, <2>2 DEF Progressed, Past
  <2>4. MainOrBak => MainOrBak'
    BY <1>1, <2>1, <2>2 DEF MainOrBak, Holds, Covers
  <2> QED BY <1>1, <1>2, <2>3, <2>4, NamesAre, WriteSound
<1>3. CASE Fails("tmp", "failed")
  <2>1. /\ files'["main"] = files["main"] /\ files'["bak"] = files["bak"]
        /\ step' = "failed" /\ saved' = saved /\ faults' = faults + 1
    BY <1>3, NamesAre, FailFacts
  <2>2. faults \in Nat
    BY StoreAssumption DEF StoreInv, StoreTypeOK
  <2>3. faults' <= 1 /\ Progressed => Progressed'
    BY <1>1, <2>1, <2>2 DEF Progressed, Past
  <2>4. faults' <= 1 /\ MainOrBak => MainOrBak'
    BY <1>1, <2>1, <2>2 DEF MainOrBak, Holds, Covers
  <2> QED BY <1>1, <1>3, <2>3, <2>4, NamesAre, FailSound
<1> QED BY <1>2, <1>3 DEF WriteTmp

(* Writing the snapshot, unless the one there holds more.                    *)
LEMMA SnapshotKeeps == StoreInv /\ WriteSnapshot => StoreInv'
<1> SUFFICES ASSUME StoreInv, WriteSnapshot PROVE StoreInv'
  OBVIOUS
<1>1. step = "snapshot" /\ {"archive", "failed", "bak"} \subseteq SaveSteps
  BY DEF WriteSnapshot, SaveSteps
<1>2. CASE Write("snapshot", memory) /\ Proceeds("archive") /\ UNCHANGED archive
  <2>1. /\ files'["snapshot"] = memory /\ files'["main"] = files["main"]
        /\ files'["bak"] = files["bak"] /\ files'["tmp"] = files["tmp"]
    BY <1>2, NamesAre, WriteFacts DEF StoreInv, StoreTypeOK, Content
  <2>2. step' = "archive" /\ memory' = memory /\ saved' = saved /\ faults' = faults
    BY <1>2 DEF Proceeds
  <2>3. Progressed => Progressed'
    BY <1>1, <2>1, <2>2 DEF Progressed, Past
  <2>4. MainOrBak => MainOrBak'
    BY <1>1, <2>1, <2>2 DEF MainOrBak, Holds, Covers
  <2> QED BY <1>1, <1>2, <2>3, <2>4, NamesAre, WriteSound
<1>3. CASE Fails("snapshot", "failed")
  <2>1. /\ files'["main"] = files["main"] /\ files'["bak"] = files["bak"]
        /\ step' = "failed" /\ saved' = saved /\ faults' = faults + 1
    BY <1>3, NamesAre, FailFacts
  <2>2. faults \in Nat
    BY StoreAssumption DEF StoreInv, StoreTypeOK
  <2>3. faults' <= 1 /\ Progressed => Progressed'
    BY <1>1, <2>1, <2>2 DEF Progressed, Past
  <2>4. faults' <= 1 /\ MainOrBak => MainOrBak'
    BY <1>1, <2>1, <2>2 DEF MainOrBak, Holds, Covers
  <2> QED BY <1>1, <1>3, <2>3, <2>4, NamesAre, FailSound
<1>4. CASE ~SnapshotTakes /\ Proceeds("bak") /\ UNCHANGED <<files, archive>>
  <2>1. faults' = faults /\ files' = files /\ archive' = archive
    BY <1>4 DEF Proceeds
  <2>2. ~(MemoryLeads /\ step # "down")
    <3>1. EntityCount(files["snapshot"]) \in Nat /\ memory.entities \in Nat
      BY NamesAre, ContentFacts, CountFacts DEF StoreInv, StoreTypeOK, Content
    <3> QED BY <1>4, <3>1, NamesAre DEF MemoryLeads, SnapshotTakes
  <2> QED BY <1>1, <1>4, <2>1, <2>2, PassSound
<1> QED BY <1>2, <1>3, <1>4 DEF WriteSnapshot

(* Writing the archive.                                                      *)
LEMMA ArchiveKeeps == StoreInv /\ Archive => StoreInv'
<1> SUFFICES ASSUME StoreInv, Archive PROVE StoreInv'
  OBVIOUS
<1>1. step = "archive" /\ "bak" \in SaveSteps /\ "failed" \in SaveSteps
  BY DEF Archive, SaveSteps
<1>2. CASE Proceeds("bak") /\ UNCHANGED files /\ archive' \in {archive, memory}
  <2>1. step' = "bak" /\ memory' = memory /\ saved' = saved /\ faults' = faults /\ files' = files
    BY <1>2 DEF Proceeds
  <2>2. Progressed => Progressed'
    BY <1>1, <2>1 DEF Progressed, Past
  <2>3. MainOrBak => MainOrBak'
    BY <1>1, <2>1 DEF MainOrBak, Holds, Covers
  <2> QED BY <1>1, <1>2, <2>2, <2>3, PassSound
<1>3. CASE /\ faults < MaxFaults /\ faults' = faults + 1 /\ step' = "failed"
           /\ UNCHANGED <<memory, lastWritten, files, archive, closing, saved, restarts>>
  <2>1. faults \in Nat /\ faults' \in 0..MaxFaults /\ faults <= faults'
    BY <1>3, StoreAssumption DEF StoreInv, StoreTypeOK
  <2>2. /\ closing' \in BOOLEAN /\ lastWritten' \in 0..MaxVersion /\ restarts' \in 0..MaxRestarts
    BY <1>3 DEF StoreInv, StoreTypeOK
  <2>3. Rewritten
    <3>1. files' \in [Names -> Content]
      BY <1>3 DEF StoreInv, StoreTypeOK, Content
    <3> QED BY <1>3, <3>1 DEF Rewritten
  <2>4. faults' <= 1 /\ Progressed => Progressed'
    BY <1>1, <1>3, <2>1 DEF Progressed, Past
  <2>5. faults' <= 1 /\ MainOrBak => MainOrBak'
    BY <1>1, <1>3, <2>1 DEF MainOrBak, Holds, Covers
  <2> QED BY <1>1, <1>3, <2>1, <2>2, <2>3, <2>4, <2>5, RewriteSound
<1> QED BY <1>2, <1>3 DEF Archive

(* .bak takes a good main; a main that was cut short leaves it alone.           *)
LEMMA CopyBakKeeps == StoreInv /\ CopyBak => StoreInv'
<1> SUFFICES ASSUME StoreInv, CopyBak PROVE StoreInv'
  OBVIOUS
<1>1. step = "bak" /\ "rename" \in SaveSteps
  BY DEF CopyBak, SaveSteps
<1>2. CASE BakTakes /\ Write("bak", files["main"]) /\ Proceeds("rename") /\ UNCHANGED archive
  <2>1. /\ files'["bak"] = files["main"] /\ files'["main"] = files["main"]
        /\ files'["snapshot"] = files["snapshot"] /\ files'["tmp"] = files["tmp"]
    BY <1>2, NamesAre, WriteFacts DEF StoreInv, StoreTypeOK, Content
  <2>2. step' = "rename" /\ memory' = memory /\ saved' = saved /\ faults' = faults
    BY <1>2 DEF Proceeds
  <2>3. Progressed => Progressed'
    BY <1>1, <2>1, <2>2 DEF Progressed, Past
  <2>4. MainOrBak => MainOrBak'
    BY <1>1, <1>2, <2>1, <2>2 DEF MainOrBak, Holds, Covers, BakTakes, Readable
  <2> QED BY <1>1, <1>2, <2>3, <2>4, NamesAre, WriteSound
<1>3. CASE BakTakes /\ Fails("bak", "rename")
  <2>1. /\ files'["main"] = files["main"] /\ files'["snapshot"] = files["snapshot"]
        /\ files'["tmp"] = files["tmp"] /\ memory' = memory
        /\ step' = "rename" /\ saved' = saved /\ faults' = faults + 1
    BY <1>3, NamesAre, FailFacts DEF Rewritten
  <2>2. faults \in Nat
    BY StoreAssumption DEF StoreInv, StoreTypeOK
  <2>3. Progressed => Progressed'
    BY <1>1, <2>1 DEF Progressed, Past
  <2>4. MainOrBak => MainOrBak'
    BY <1>1, <1>3, <2>1, <2>2 DEF MainOrBak, Holds, Covers, BakTakes, Readable
  <2> QED BY <1>1, <1>3, <2>3, <2>4, NamesAre, FailSound
<1>4. CASE ~BakTakes /\ Proceeds("rename") /\ UNCHANGED <<files, archive>>
  <2>1. /\ step' = "rename" /\ memory' = memory /\ saved' = saved /\ faults' = faults
        /\ files' = files /\ archive' = archive
    BY <1>4 DEF Proceeds
  <2>2. Progressed => Progressed'
    BY <1>1, <2>1 DEF Progressed, Past
  <2>3. MemoryLeads => ~Readable(files["main"])
    BY <1>1, <1>4, NamesAre DEF MemoryLeads, BakTakes
  <2>4. MemoryLeads /\ MainOrBak => MainOrBak'
    BY <1>1, <2>1, <2>3 DEF MainOrBak, Holds, Covers
  <2> QED BY <1>1, <1>4, <2>1, <2>2, <2>4, PassSound
<1> QED BY <1>2, <1>3, <1>4 DEF CopyBak

(* The end of a save that went through.                                       *)
LEMMA WrittenSound ==
    ASSUME StoreInv, step \in {"rename", "unlink"}, Written, UNCHANGED faults,
           files' \in [Names -> Content],
           faults <= 1 => files'["main"] = memory,
           \A n \in Names : n # "main" => files'[n] \in {files[n], Absent},
           files'["snapshot"] = files["snapshot"]
    PROVE  StoreInv'
<1>1. StoreTypeOK
  BY DEF StoreInv
<1>2. /\ step' \in {"down", "idle"} /\ lastWritten' = memory.version /\ saved' = memory
      /\ memory' = memory /\ archive' = archive /\ closing' = closing /\ restarts' = restarts
      /\ faults' = faults
  BY DEF Written, Resting
<1>3. memory \in Graph /\ memory.version \in 0..MaxVersion
  BY <1>1, StoreAssumption DEF StoreTypeOK, Graph
<1>4. StoreTypeOK'
  <2>1. step' \in SaveSteps
    BY <1>2 DEF SaveSteps
  <2> QED BY <1>1, <1>2, <1>3, <2>1 DEF StoreTypeOK, Content
<1>5. /\ \A n \in Names : files'[n] \in Content
      /\ archive \in Content
  BY <1>1 DEF StoreTypeOK, Content
<1>6. ASSUME faults' <= 1
      PROVE  /\ MemoryLeads' /\ Progressed'
             /\ saved'.entities > 0 => LargerIsNewer' /\ MainOrBak'
  <2>1. MemoryLeads /\ Progressed /\ files'["main"] = memory
    BY <1>2, <1>6 DEF StoreInv
  <2>2. /\ EntityCount(memory) = memory.entities /\ Readable(memory)
        /\ EntityCount(Absent) = 0 /\ memory.entities \in Nat /\ memory.version \in Nat
    BY <1>3, CountFacts
  <2>3. /\ \A n \in Names : EntityCount(files'[n]) <= memory.entities
        /\ EntityCount(archive') <= memory.entities
    BY <1>2, <2>1, <2>2 DEF MemoryLeads
  <2>4. MemoryLeads'
    BY <1>2, <2>2, <2>3 DEF MemoryLeads, Covers
  <2>5. Progressed'
    BY <1>2 DEF Progressed, Past
  <2>6. LargerIsNewer'
    <3>1. /\ \A n \in Names : EntityCount(files'[n]) \in Nat
          /\ EntityCount(archive') \in Nat
      BY <1>2, <1>5, ContentFacts
    <3>2. files'["snapshot"] = memory
      BY <2>1 DEF Progressed, Past
    <3> QED BY <1>2, <2>2, <2>3, <3>1, <3>2 DEF LargerIsNewer
  <2>7. MainOrBak'
    BY <1>2, <2>1, <2>2 DEF MainOrBak, Holds, Covers
  <2> QED BY <2>4, <2>5, <2>6, <2>7
<1> QED BY <1>4, <1>6 DEF StoreInv

(* Renaming the temporary file to main.                                      *)
LEMMA RenameKeeps == StoreInv /\ Rename => StoreInv'
<1> SUFFICES ASSUME StoreInv, Rename PROVE StoreInv'
  OBVIOUS
<1>1. step = "rename" /\ "direct" \in SaveSteps /\ StoreTypeOK
  BY DEF Rename, SaveSteps, StoreInv
<1>2. CASE /\ files' = [files EXCEPT !["main"] = files["tmp"], !["tmp"] = Absent]
           /\ Written /\ UNCHANGED faults
  <2>1. files \in [Names -> Content] /\ Absent \in Content
    BY <1>1 DEF StoreTypeOK, Content
  <2>2. /\ files' \in [Names -> Content] /\ files'["main"] = files["tmp"]
        /\ \A n \in Names : n # "main" => files'[n] \in {files[n], Absent}
        /\ files'["snapshot"] = files["snapshot"]
    BY <1>2, <2>1, NamesAre
  <2>3. faults <= 1 => files["tmp"] = memory
    BY <1>1 DEF StoreInv, Progressed, Past
  <2> QED BY <1>1, <1>2, <2>2, <2>3, WrittenSound
<1>3. CASE /\ faults < MaxFaults /\ faults' = faults + 1 /\ step' = "direct"
           /\ UNCHANGED <<memory, lastWritten, files, archive, closing, saved, restarts>>
  <2>1. faults \in Nat /\ faults' \in 0..MaxFaults /\ faults <= faults'
    BY <1>1, <1>3, StoreAssumption DEF StoreTypeOK
  <2>2. /\ closing' \in BOOLEAN /\ lastWritten' \in 0..MaxVersion /\ restarts' \in 0..MaxRestarts
    BY <1>1, <1>3 DEF StoreTypeOK
  <2>3. Rewritten
    <3>1. files' \in [Names -> Content]
      BY <1>1, <1>3 DEF StoreTypeOK, Content
    <3> QED BY <1>3, <3>1 DEF Rewritten
  <2>4. faults' <= 1 /\ Progressed => Progressed'
    BY <1>1, <1>3, <2>1 DEF Progressed, Past
  <2>5. faults' <= 1 /\ MainOrBak => MainOrBak'
    BY <1>1, <1>3, <2>1 DEF MainOrBak, Holds, Covers
  <2> QED BY <1>1, <1>3, <2>1, <2>2, <2>3, <2>4, <2>5, RewriteSound
<1> QED BY <1>2, <1>3 DEF Rename

(* Writing main directly.                                                    *)
LEMMA DirectKeeps == StoreInv /\ WriteDirect => StoreInv'
<1> SUFFICES ASSUME StoreInv, WriteDirect PROVE StoreInv'
  OBVIOUS
<1>1. step = "direct" /\ {"unlink", "failed"} \subseteq SaveSteps
  BY DEF WriteDirect, SaveSteps
<1>2. CASE Write("main", memory) /\ Proceeds("unlink") /\ UNCHANGED archive
  <2>1. /\ files'["main"] = memory /\ files'["snapshot"] = files["snapshot"]
        /\ files'["tmp"] = files["tmp"]
    BY <1>2, NamesAre, WriteFacts DEF StoreInv, StoreTypeOK, Content
  <2>2. step' = "unlink" /\ memory' = memory /\ saved' = saved /\ faults' = faults
    BY <1>2 DEF Proceeds
  <2>3. Progressed => Progressed'
    BY <1>1, <2>1, <2>2 DEF Progressed, Past
  <2>4. Readable(memory)
    BY CountFacts DEF StoreInv, StoreTypeOK
  <2>5. MemoryLeads /\ saved.entities > 0 /\ MainOrBak => MainOrBak'
    BY <1>1, <2>1, <2>2, <2>4 DEF MemoryLeads, MainOrBak, Holds, Covers
  <2> QED BY <1>1, <1>2, <2>3, <2>5, NamesAre, WriteSound
<1>3. CASE Fails("main", "failed")
  <2>1. faults' = faults + 1 /\ faults \in Nat
    BY <1>3, NamesAre, FailFacts, StoreAssumption DEF StoreInv, StoreTypeOK
  <2>2. ~(faults' <= 1 /\ Progressed)
    BY <1>1, <2>1 DEF Progressed
  <2> QED BY <1>1, <1>3, <2>2, NamesAre, FailSound
<1> QED BY <1>2, <1>3 DEF WriteDirect

(* Removing the temporary file.                                              *)
LEMMA UnlinkKeeps == StoreInv /\ UnlinkTmp => StoreInv'
<1> SUFFICES ASSUME StoreInv, UnlinkTmp PROVE StoreInv'
  OBVIOUS
<1>1. step = "unlink" /\ StoreTypeOK /\ Absent \in Content /\ Written /\ UNCHANGED faults
  BY DEF UnlinkTmp, StoreInv, Content
<1>2. files \in [Names -> Content]
  BY <1>1 DEF StoreTypeOK, Content
<1>3. Write("tmp", Absent) \/ UNCHANGED files
  BY DEF UnlinkTmp
<1>4. /\ files' \in [Names -> Content] /\ files'["main"] = files["main"]
      /\ \A n \in Names : n # "main" => files'[n] \in {files[n], Absent}
      /\ files'["snapshot"] = files["snapshot"]
  BY <1>1, <1>2, <1>3, NamesAre, WriteFacts
<1>5. faults <= 1 => files["main"] = memory
  BY <1>1 DEF StoreInv, Progressed
<1> QED BY <1>1, <1>4, <1>5, WrittenSound

(* A save that failed has spent the one fault: main is as it was.               *)
LEMMA GiveUpKeeps == StoreInv /\ GiveUpThisTime => StoreInv'
<1> SUFFICES ASSUME StoreInv, GiveUpThisTime PROVE StoreInv'
  OBVIOUS
<1>1. /\ step = "failed" /\ Resting \in SaveSteps /\ Resting \in {"down", "idle"}
      /\ Write("tmp", Absent) /\ Proceeds(Resting) /\ archive' = archive
  BY DEF GiveUpThisTime, SaveSteps, Resting
<1>2. /\ files'["main"] = files["main"] /\ files'["bak"] = files["bak"]
  BY <1>1, NamesAre, WriteFacts DEF StoreInv, StoreTypeOK, Content
<1>3. step' = Resting /\ memory' = memory /\ saved' = saved /\ faults' = faults
  BY <1>1 DEF Proceeds
<1>4. Progressed => Progressed'
  BY <1>1, <1>3 DEF Progressed, Past
<1>5. MainOrBak => MainOrBak'
  BY <1>1, <1>2, <1>3 DEF MainOrBak, Holds, Covers
<1> QED BY <1>1, <1>4, <1>5, NamesAre, WriteSound

(* A kill cuts the file short that was being written: .bak only while main is   *)
(* good, main only while .bak is.                                             *)
LEMMA CrashKeeps == StoreInv /\ Crash => StoreInv'
<1> SUFFICES ASSUME StoreInv, Crash PROVE StoreInv'
  OBVIOUS
<1>1. /\ step # "down" /\ step' = "down" /\ "down" \in SaveSteps
      /\ memory' = memory /\ lastWritten' = lastWritten /\ archive' = archive
      /\ closing' = closing /\ saved' = saved /\ faults' = faults
  BY DEF Crash, SaveSteps
<1>2. StoreTypeOK /\ Corrupt \in Content /\ files \in [Names -> Content]
  BY DEF StoreInv, StoreTypeOK, Content
<1>3. /\ closing' \in BOOLEAN /\ lastWritten' \in 0..MaxVersion
      /\ restarts' \in 0..MaxRestarts /\ faults' \in 0..MaxFaults /\ faults <= faults'
  BY <1>1, <1>2, StoreAssumption DEF Crash, StoreTypeOK
<1>4. Progressed => Progressed'
  BY <1>1 DEF Progressed, Past
<1>5. CASE UNCHANGED files
  <2>1. Rewritten
    BY <1>1, <1>2, <1>5 DEF Rewritten
  <2>2. MainOrBak => MainOrBak'
    BY <1>1, <1>5 DEF MainOrBak, Holds, Covers
  <2> QED BY <1>1, <1>3, <1>4, <2>1, <2>2, RewriteSound
<1>6. ASSUME NEW name \in Target, Write(name, Corrupt)
      PROVE  StoreInv'
  <2>1. \/ name = "bak" /\ (step = "backup" \/ (step = "bak" /\ BakTakes))
        \/ name = "tmp"
        \/ name = "snapshot"
        \/ name = "main" /\ step = "direct"
    BY <1>6 DEF Target
  <2>2. /\ name \in Names /\ files' \in [Names -> Content] /\ files'[name] = Corrupt
        /\ \A n \in Names : n # name => files'[n] = files[n]
    BY <1>2, <1>6, <2>1, NamesAre, WriteFacts
  <2>3. Rewritten
    <3>1. \A n \in Names : files'[n] \in {files[n], memory, Absent, Corrupt}
      BY <2>2
    <3> QED BY <1>1, <2>2, <3>1 DEF Rewritten
  <2>4. ASSUME faults' <= 1, MemoryLeads, Progressed, saved.entities > 0, MainOrBak
        PROVE  MainOrBak'
    <3>1. CASE name = "bak"
      <4>1. files'["main"] = files["main"]
        BY <2>2, <3>1, NamesAre
      <4>2. Holds("main")
        BY <2>1, <2>4, <3>1 DEF MainOrBak, BakTakes, Readable
      <4> QED BY <1>1, <4>1, <4>2 DEF MainOrBak, Holds, Covers
    <3>2. CASE name \in {"tmp", "snapshot"}
      <4>1. files'["main"] = files["main"] /\ files'["bak"] = files["bak"]
        BY <2>2, <3>2, NamesAre
      <4> QED BY <1>1, <2>4, <4>1 DEF MainOrBak, Holds, Covers
    <3>3. CASE name = "main"
      <4>1. files'["main"] = Corrupt /\ files'["bak"] = files["bak"] /\ step = "direct"
        BY <2>1, <2>2, <3>3, NamesAre
      <4>2. Holds("bak") /\ faults = 1
        BY <2>4, <4>1 DEF MainOrBak, Progressed
      <4> QED BY <1>1, <4>1, <4>2 DEF MainOrBak, Holds, Covers
    <3> QED BY <2>1, <3>1, <3>2, <3>3
  <2> QED BY <1>1, <1>3, <1>4, <2>3, <2>4, RewriteSound
<1> QED BY <1>5, <1>6 DEF Crash

(* Every step keeps the invariant.                                           *)
LEMMA StoreNextKeeps == StoreInv /\ [StoreNext]_storeVars => StoreInv'
<1> SUFFICES ASSUME StoreInv, [StoreNext]_storeVars PROVE StoreInv'
  OBVIOUS
<1>1. CASE StoreNext
  BY <1>1, StartKeeps, ChangeKeeps, CloseKeeps, BackupKeeps, WriteTmpKeeps, SnapshotKeeps,
     ArchiveKeeps, CopyBakKeeps, RenameKeeps, DirectKeeps, UnlinkKeeps, GiveUpKeeps, CrashKeeps
     DEF StoreNext, SaveStep
<1>2. CASE UNCHANGED storeVars
  BY <1>2 DEF storeVars, StoreInv, StoreTypeOK, MemoryLeads, Progressed, Past, LargerIsNewer,
              MainOrBak, Holds, Covers
<1> QED BY <1>1, <1>2

(* The store keeps its invariant through every kill and failed write.           *)
THEOREM StoreSound == StoreSpec => []StoreInv
<1> QED BY InitStored, StoreNextKeeps, PTL DEF StoreSpec

(* Whatever the process was killed in, and whichever one write or rename was     *)
(* refused, what load finds is no older than the last graph saved.             *)
THEOREM StoreLoadsSaved == StoreSpec => []SavedIsLoadable
<1>1. ASSUME StoreInv PROVE SavedIsLoadable
  BY <1>1, LoadedLeads DEF StoreInv, SavedIsLoadable, Covers
<1> QED BY <1>1, StoreSound, PTL
================================================================================
