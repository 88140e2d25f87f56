--------------------------- MODULE LiveWorker_proofs --------------------------
(***************************************************************************)
(* The safety properties of LiveWorker for any tasks, messages and number of  *)
(* faults.                                                                   *)
(***************************************************************************)
EXTENDS LiveWorker, TLAPS

(* A handler that runs has entered its message; a message has one handler.     *)
Entered ==
    \A r \in Routes, m \in Messages : handler[r][m] # "idle" => m \in seen

(* A transaction somebody awaits is awaited at its own step.                   *)
Awaited ==
    \A tx \in sent :
       tx.route # "lost" =>
          handler[tx.route][tx.message] =
             IF tx.kind = "claim" THEN "claimSent" ELSE "deliverySent"

(* A claim held is a claim won, and it is won once.                            *)
ClaimWon ==
    \A r \in Routes, m \in Messages : HoldsClaim(r, m) => task[Subject[m]] # "POSTED"

OneHolder ==
    \A r, q \in Routes : \A m, n \in Messages :
       HoldsClaim(r, m) /\ HoldsClaim(q, n) /\ Subject[m] = Subject[n] => r = q /\ m = n

(* A notice is about to be sent for a delivery that has none.                  *)
NoticeDue ==
    /\ \A r \in Routes, m \in Messages :
          handler[r][m] = "noticing" =>
             Subject[m] \in delivered /\ notices[Subject[m]] = 0
    /\ \A t \in Tasks : notices[t] <= (IF t \in delivered THEN 1 ELSE 0)

Inv ==
    /\ TypeOK
    /\ Entered /\ HandledOncePerRun
    /\ Awaited /\ ClaimWon /\ OneHolder /\ NoticeDue

-------------------------------------------------------------------------------
(* A handler moves and no other does.                                         *)
LEMMA GoesFacts ==
    ASSUME TypeOK, NEW r \in Routes, NEW m \in Messages, NEW step \in Steps, Goes(r, m, step)
    PROVE  /\ handler' \in [Routes -> [Messages -> Steps]]
           /\ handler'[r][m] = step
           /\ \A q \in Routes, n \in Messages :
                 q # r \/ n # m => handler'[q][n] = handler[q][n]
  BY DEF TypeOK, Goes

(* The process stops: no handler is left.                                     *)
LEMMA StopFacts ==
    ASSUME TypeOK, Stopped
    PROVE  /\ handler' \in [Routes -> [Messages -> Steps]]
           /\ seen' = {} /\ phase' = "down"
           /\ \A q \in Routes, n \in Messages : handler'[q][n] = "idle"
           /\ sent' \subseteq Transactions
           /\ \A tx \in sent' : tx.route = "lost"
<1>1. \A tx \in sent : /\ [tx EXCEPT !.route = "lost"] \in Transactions
                       /\ [tx EXCEPT !.route = "lost"].route = "lost"
  BY DEF TypeOK, Transactions
<1> QED
  BY <1>1 DEF Stopped, NoHandlers, Steps

(* What a step that ends or advances one handler keeps, when it changes no     *)
(* transaction, task or notice: a holder stays one or gives up, and nobody     *)
(* becomes one.                                                              *)
LEMMA MoveSound ==
    ASSUME Inv, TypeOK', NEW r \in Routes, NEW m \in Messages, NEW step \in Steps,
           Goes(r, m, step), seen' = seen, task' = task, delivered' = delivered,
           notices' = notices, handler[r][m] # "idle",
           step \in {"delivering", "deliverySent"} => HoldsClaim(r, m),
           step \notin {"idle", "waiting", "noticing"},
           Awaited'
    PROVE  Inv'
<1>1. /\ handler'[r][m] = step
      /\ \A q \in Routes, n \in Messages : q # r \/ n # m => handler'[q][n] = handler[q][n]
  BY GoesFacts DEF Inv
<1>2. \A q \in Routes, n \in Messages :
         /\ HoldsClaim(q, n)' => HoldsClaim(q, n)
         /\ handler'[q][n] # "idle" => handler[q][n] # "idle"
         /\ handler'[q][n] = "noticing" => handler[q][n] = "noticing"
  BY <1>1 DEF HoldsClaim
<1>3. Entered' /\ HandledOncePerRun'
  BY <1>2 DEF Inv, Entered, HandledOncePerRun
<1>4. ClaimWon' /\ OneHolder'
  BY <1>2 DEF Inv, ClaimWon, OneHolder
<1>5. NoticeDue'
  BY <1>2 DEF Inv, NoticeDue
<1> QED
  BY <1>3, <1>4, <1>5 DEF Inv

(* Every step keeps the types.                                               *)
LEMMA TypeStep ==
    ASSUME TypeOK, [Next]_vars, SubjectAssumption, FaultAssumption
    PROVE  TypeOK'
<1> USE SubjectAssumption, FaultAssumption DEF SubjectAssumption, FaultAssumption
<1>1. ASSUME NEW t \in Tasks, RivalClaims(t) \/ PosterFunds(t) \/ TaskEnds(t)
      PROVE  TypeOK'
  BY <1>1 DEF TypeOK, RivalClaims, PosterFunds, TaskEnds, TaskMoves, TaskStates
<1>2. CASE \/ \E m \in Messages : PeerSends(m)
           \/ Start \/ CaughtUp \/ UNCHANGED vars
  BY <1>2 DEF TypeOK, PeerSends, Start, CaughtUp, vars, chainVars
<1>3. ASSUME NEW tx \in sent, Mine(tx)
      PROVE  TypeOK'
  <2>1. Subject[tx.message] \in Tasks /\ tx.message \in Messages
        /\ (tx.route # "lost" => tx.route \in Routes)
    BY DEF TypeOK, Transactions
  <2>2. handler' \in [Routes -> [Messages -> Steps]]
    <3>1. CASE tx.route = "lost"
      BY <1>3, <3>1 DEF TypeOK, Mine
    <3>2. CASE tx.route # "lost"
      <4>1. \E step \in Steps : Goes(tx.route, tx.message, step)
        BY <1>3, <3>2 DEF Mine, Steps
      <4> QED
        BY <2>1, <3>2, <4>1, GoesFacts
    <3> QED
      BY <3>1, <3>2
  <2>3. task' \in [Tasks -> TaskStates] /\ delivered' \subseteq Tasks /\ sent' \subseteq Transactions
    BY <1>3, <2>1 DEF TypeOK, Mine, TaskStates
  <2> QED
    BY <1>3, <2>2, <2>3 DEF TypeOK, Mine
<1>4. CASE Crash
  BY <1>4, StopFacts DEF TypeOK, Crash, chainVars
<1>5. ASSUME NEW r \in Routes, NEW m \in Messages, Receive(r, m)
      PROVE  TypeOK'
  <2>1. \E step \in Steps : Goes(r, m, step)
    BY <1>5 DEF Receive, Steps
  <2> QED
    BY <1>5, <2>1, GoesFacts DEF TypeOK, Receive, MarkSeen, chainVars
<1>6. ASSUME NEW r \in Routes, NEW m \in Messages, HandlerStep(r, m)
      PROVE  TypeOK'
  <2>1. \E step \in Steps : Goes(r, m, step)
    BY <1>6 DEF HandlerStep, Open, Read, SubmitClaim, SubmitDelivery, Submit, SeeActive,
                WaitTimesOut, SendNotice, Steps
  <2>2. handler' \in [Routes -> [Messages -> Steps]]
    BY <2>1, GoesFacts
  <2>3. sent' \subseteq Transactions
    BY <1>6 DEF TypeOK, HandlerStep, Open, Read, SubmitClaim, SubmitDelivery, Submit, SeeActive,
                WaitTimesOut, SendNotice, Transactions
  <2>4. notices' \in [Tasks -> Nat]
    BY <1>6 DEF TypeOK, HandlerStep, Open, Read, SubmitClaim, SubmitDelivery, Submit, SeeActive,
                WaitTimesOut, SendNotice
  <2>5. UNCHANGED <<task, delivered, inbox, phase, seen, faults>>
    BY <1>6 DEF HandlerStep, Open, Read, SubmitClaim, SubmitDelivery, Submit, SeeActive,
                WaitTimesOut, SendNotice, chainVars
  <2> QED
    BY <2>2, <2>3, <2>4, <2>5 DEF TypeOK
<1>7. ASSUME NEW r \in Routes, NEW m \in Messages, CallFails(r, m)
      PROVE  TypeOK'
  <2>1. UNCHANGED <<task, delivered, inbox, notices>> /\ faults' \in 0..MaxFaults
    BY <1>7 DEF TypeOK, CallFails, chainVars
  <2>2. CASE Stopped
    BY <2>1, <2>2, StopFacts DEF TypeOK
  <2>3. CASE ~Stopped
    <3>1. /\ \E step \in Steps : Goes(r, m, step)
          /\ sent' = LostFrom(r, m) /\ UNCHANGED <<phase, seen>>
      BY <1>7, <2>3 DEF CallFails, Steps
    <3>2. LostFrom(r, m) \subseteq Transactions
      BY DEF TypeOK, LostFrom, Transactions
    <3> QED
      BY <2>1, <3>1, <3>2, GoesFacts DEF TypeOK
  <2> QED
    BY <2>2, <2>3
<1> QED
  BY <1>1, <1>2, <1>3, <1>4, <1>5, <1>6, <1>7 DEF Next

-------------------------------------------------------------------------------
(* The chain's answer to the handler that awaits it.                          *)
LEMMA MineSound ==
    ASSUME Inv, TypeOK', SubjectAssumption, NEW tx \in sent, Mine(tx)
    PROVE  Inv'
<1> DEFINE m == tx.message
           r == tx.route
           t == Subject[m]
<1>1. /\ m \in Messages /\ t \in Tasks
      /\ r # "lost" => r \in Routes
      /\ tx.kind \in {"claim", "deliver"}
  BY DEF Inv, TypeOK, Transactions, SubjectAssumption
<1>2. UNCHANGED <<seen, notices>> /\ sent' = sent \ {tx}
  BY DEF Mine
<1>3. CASE r = "lost"
  <2>1. handler' = handler
    BY <1>3 DEF Mine
  <2>2. \A u \in Tasks : task'[u] = "POSTED" => task[u] = "POSTED"
    BY <1>1 DEF Mine, Inv, TypeOK
  <2>3. delivered \subseteq delivered'
    BY DEF Mine
  <2>4. \A q \in Routes, n \in Messages : HoldsClaim(q, n)' = HoldsClaim(q, n)
    BY <2>1 DEF HoldsClaim
  <2>5. Awaited' /\ Entered' /\ HandledOncePerRun' /\ OneHolder'
    BY <1>2, <2>1, <2>4 DEF Inv, Awaited, Entered, HandledOncePerRun, OneHolder
  <2>6. ClaimWon'
    BY <2>2, <2>4, SubjectAssumption DEF Inv, ClaimWon, SubjectAssumption
  <2>7. NoticeDue'
    BY <1>2, <2>1, <2>3 DEF Inv, NoticeDue, TypeOK
  <2> QED
    BY <2>5, <2>6, <2>7 DEF Inv
<1>4. ASSUME r # "lost", NEW next \in Steps, Goes(r, m, next)
      PROVE  /\ handler'[r][m] = next
             /\ \A q \in Routes, n \in Messages :
                   q # r \/ n # m => handler'[q][n] = handler[q][n]
             /\ handler[r][m] = IF tx.kind = "claim" THEN "claimSent" ELSE "deliverySent"
             /\ next # "idle" => Entered' /\ HandledOncePerRun'
             /\ Awaited'
  <2>1. /\ handler'[r][m] = next
        /\ \A q \in Routes, n \in Messages :
              q # r \/ n # m => handler'[q][n] = handler[q][n]
    BY <1>1, <1>4, GoesFacts DEF Inv
  <2>2. handler[r][m] = IF tx.kind = "claim" THEN "claimSent" ELSE "deliverySent"
    BY <1>4 DEF Inv, Awaited
  <2>3. \A q \in Routes, n \in Messages : handler'[q][n] # "idle" => handler[q][n] # "idle"
    BY <2>1, <2>2
  <2>4. Entered' /\ HandledOncePerRun'
    BY <1>2, <2>3 DEF Inv, Entered, HandledOncePerRun
  <2>5. \A x \in sent : x.route = r /\ x.message = m => x = tx
    <3>1. \A x \in sent : x.route = r /\ x.message = m => x.kind = tx.kind
      BY <1>1, <1>4 DEF Inv, Awaited, TypeOK, Transactions
    <3> QED
      BY <3>1 DEF Inv, TypeOK, Transactions
  <2>6. \A x \in sent : x.message \in Messages /\ (x.route # "lost" => x.route \in Routes)
    BY DEF Inv, TypeOK, Transactions
  <2>7. Awaited'
    BY <1>2, <2>1, <2>5, <2>6 DEF Inv, Awaited
  <2> QED
    BY <2>1, <2>2, <2>4, <2>7
<1>5. CASE r # "lost" /\ tx.kind = "claim" /\ task[t] = "POSTED"
  <2>1. Goes(r, m, "waiting") /\ task' = [task EXCEPT ![t] = "CLAIMED"] /\ delivered' = delivered
    BY <1>5 DEF Mine
  <2>2. "waiting" \in Steps
    BY DEF Steps
  <2>3. \A q \in Routes, n \in Messages :
           HoldsClaim(q, n)' => HoldsClaim(q, n) \/ (q = r /\ n = m)
    BY <1>4, <1>5, <2>1, <2>2 DEF HoldsClaim
  <2>4. \A q \in Routes, n \in Messages : HoldsClaim(q, n) => Subject[n] # t
    BY <1>5 DEF Inv, ClaimWon
  <2>5. OneHolder'
    BY <1>1, <1>5, <2>3, <2>4 DEF Inv, OneHolder
  <2>6. ClaimWon'
    BY <1>1, <2>1, <2>3, SubjectAssumption DEF Inv, ClaimWon, TypeOK, SubjectAssumption
  <2>7. NoticeDue'
    BY <1>2, <1>4, <1>5, <2>1, <2>2 DEF Inv, NoticeDue
  <2> QED
    BY <1>4, <1>5, <2>1, <2>2, <2>5, <2>6, <2>7 DEF Inv
<1>6. CASE r # "lost" /\ tx.kind = "claim" /\ task[t] # "POSTED"
  <2>1. Goes(r, m, "refused") /\ task' = task /\ delivered' = delivered
    BY <1>6 DEF Mine
  <2>2. "refused" \in Steps
    BY DEF Steps
  <2> QED
    BY <1>1, <1>2, <1>4, <1>6, <2>1, <2>2, MoveSound
<1>7. CASE r # "lost" /\ tx.kind = "deliver" /\ task[t] = "ACTIVE" /\ t \notin delivered
  <2>1. Goes(r, m, "noticing") /\ task' = task /\ delivered' = delivered \union {t}
    BY <1>7 DEF Mine
  <2>2. "noticing" \in Steps
    BY DEF Steps
  <2>3. \A q \in Routes, n \in Messages : HoldsClaim(q, n)' = HoldsClaim(q, n)
    BY <1>4, <1>7, <2>1, <2>2 DEF HoldsClaim
  <2>4. OneHolder' /\ ClaimWon'
    BY <2>1, <2>3 DEF Inv, OneHolder, ClaimWon
  <2>5. notices[t] = 0
    BY <1>1, <1>7 DEF Inv, NoticeDue, TypeOK
  <2>6. NoticeDue'
    BY <1>1, <1>2, <1>4, <1>7, <2>1, <2>2, <2>5 DEF Inv, NoticeDue, TypeOK
  <2> QED
    BY <1>4, <1>7, <2>1, <2>2, <2>4, <2>6 DEF Inv
<1>8. CASE r # "lost" /\ tx.kind = "deliver" /\ ~(task[t] = "ACTIVE" /\ t \notin delivered)
  <2>1. Goes(r, m, "failed") /\ task' = task /\ delivered' = delivered
    BY <1>8 DEF Mine
  <2>2. "failed" \in Steps
    BY DEF Steps
  <2> QED
    BY <1>1, <1>2, <1>4, <1>8, <2>1, <2>2, MoveSound
<1> QED
  BY <1>1, <1>3, <1>5, <1>6, <1>7, <1>8

(* The service loses its handlers and everybody who awaits a transaction.      *)
LEMMA StopSound ==
    ASSUME Inv, TypeOK', Stopped, UNCHANGED <<task, delivered, notices>>
    PROVE  Inv'
<1>1. \A q \in Routes, n \in Messages : handler'[q][n] = "idle"
  BY StopFacts DEF Inv
<1>2. \A tx \in sent' : tx.route = "lost"
  BY StopFacts DEF Inv
<1>3. Entered' /\ HandledOncePerRun' /\ ClaimWon' /\ OneHolder'
  BY <1>1 DEF Entered, HandledOncePerRun, ClaimWon, OneHolder, HoldsClaim
<1>4. NoticeDue'
  BY <1>1 DEF Inv, NoticeDue
<1>5. Awaited'
  BY <1>2 DEF Awaited
<1> QED
  BY <1>3, <1>4, <1>5 DEF Inv

(* A call fails: what the handler had sent is awaited by nobody.              *)
LEMMA FailSound ==
    ASSUME Inv, TypeOK', NEW r \in Routes, NEW m \in Messages, CallFails(r, m)
    PROVE  Inv'
<1>1. CASE Stopped
  BY <1>1, StopSound DEF CallFails, chainVars
<1>2. CASE ~Stopped
  <2>1. PICK step \in {"refused", "failed"} : Goes(r, m, step)
    BY <1>2 DEF CallFails
  <2>2. sent' = LostFrom(r, m) /\ seen' = seen /\ handler[r][m] # "idle"
    BY <1>2 DEF CallFails, Busy
  <2>3. /\ handler'[r][m] = step
        /\ \A q \in Routes, n \in Messages :
              q # r \/ n # m => handler'[q][n] = handler[q][n]
    BY <2>1, GoesFacts DEF Inv, Steps
  <2>4. \A tx \in sent' :
           tx.route = "lost" \/ (tx \in sent /\ ~(tx.route = r /\ tx.message = m))
    BY <2>2 DEF LostFrom, Inv, TypeOK, Transactions
  <2>5. \A tx \in sent : tx.message \in Messages /\ (tx.route # "lost" => tx.route \in Routes)
    BY DEF Inv, TypeOK, Transactions
  <2>6. Awaited'
    BY <2>3, <2>4, <2>5 DEF Inv, Awaited
  <2>7. UNCHANGED <<task, delivered, notices>> /\ step \in Steps
    BY DEF CallFails, chainVars, Steps
  <2> QED
    BY <2>1, <2>2, <2>6, <2>7, MoveSound
<1> QED
  BY <1>1, <1>2

(* A handler's own step.                                                      *)
LEMMA HandlerSound ==
    ASSUME Inv, TypeOK', NEW r \in Routes, NEW m \in Messages, HandlerStep(r, m)
    PROVE  Inv'
<1>1. \A tx \in sent : tx.message \in Messages /\ (tx.route # "lost" => tx.route \in Routes)
  BY DEF Inv, TypeOK, Transactions
<1>2. ASSUME NEW step \in Steps, Goes(r, m, step), sent' = sent,
             handler[r][m] \notin {"claimSent", "deliverySent"}
      PROVE  Awaited'
  <2>1. \A q \in Routes, n \in Messages : q # r \/ n # m => handler'[q][n] = handler[q][n]
    BY <1>2, GoesFacts DEF Inv
  <2> QED
    BY <1>1, <1>2, <2>1 DEF Inv, Awaited
<1>3. CASE Open(r, m) \/ Read(r, m) \/ SeeActive(r, m) \/ WaitTimesOut(r, m)
  <2>1. PICK step \in {"reading", "done", "claiming", "ignored", "delivering", "timedOut"} :
           /\ Goes(r, m, step)
           /\ step = "delivering" => handler[r][m] = "waiting"
    BY <1>3 DEF Open, Read, SeeActive, WaitTimesOut, At
  <2>2. /\ UNCHANGED <<task, delivered, seen, sent, notices>> /\ step \in Steps
        /\ handler[r][m] \in {"opening", "reading", "waiting"}
    BY <1>3 DEF Open, Read, SeeActive, WaitTimesOut, At, chainVars, Steps
  <2>3. Awaited'
    BY <1>2, <2>1, <2>2
  <2> QED
    BY <2>1, <2>2, <2>3, MoveSound DEF HoldsClaim
<1>4. ASSUME NEW kind \in {"claim", "deliver"}, NEW step, NEW next,
             Submit(r, m, step, kind, next),
             \/ kind = "claim" /\ step = "claiming" /\ next = "claimSent"
             \/ kind = "deliver" /\ step = "delivering" /\ next = "deliverySent"
      PROVE  Inv'
  <2>1. /\ Goes(r, m, next) /\ next \in Steps /\ handler[r][m] = step
        /\ UNCHANGED <<task, delivered, seen, notices>>
        /\ sent' = sent \union {[kind |-> kind, route |-> r, message |-> m]}
    BY <1>4 DEF Submit, At, Steps, chainVars
  <2>2. /\ handler'[r][m] = next
        /\ \A q \in Routes, n \in Messages :
              q # r \/ n # m => handler'[q][n] = handler[q][n]
    BY <2>1, GoesFacts DEF Inv
  <2>3. Awaited'
    BY <1>1, <1>4, <2>1, <2>2 DEF Inv, Awaited
  <2> QED
    BY <1>4, <2>1, <2>3, MoveSound DEF HoldsClaim
<1>5. CASE SendNotice(r, m)
  <2>1. /\ Goes(r, m, "done") /\ "done" \in Steps /\ handler[r][m] = "noticing"
        /\ UNCHANGED <<task, delivered, seen, sent>>
        /\ notices' = [notices EXCEPT ![Subject[m]] = @ + 1]
    BY <1>5 DEF SendNotice, At, Steps, chainVars
  <2>2. /\ handler'[r][m] = "done"
        /\ \A q \in Routes, n \in Messages :
              q # r \/ n # m => handler'[q][n] = handler[q][n]
    BY <2>1, GoesFacts DEF Inv
  <2>3. Awaited'
    BY <1>2, <2>1
  <2>4. \A q \in Routes, n \in Messages : HoldsClaim(q, n)' => HoldsClaim(q, n)
    BY <2>2 DEF HoldsClaim
  <2>5. Entered' /\ HandledOncePerRun' /\ ClaimWon' /\ OneHolder'
    BY <2>1, <2>2, <2>4 DEF Inv, Entered, HandledOncePerRun, ClaimWon, OneHolder
  <2>6. \A q \in Routes, n \in Messages :
           handler'[q][n] = "noticing" =>
              handler[q][n] = "noticing" /\ Subject[n] # Subject[m]
    BY <2>1, <2>2 DEF Inv, OneHolder, HoldsClaim
  <2>7. NoticeDue'
    BY <2>1, <2>6 DEF Inv, NoticeDue, TypeOK
  <2> QED
    BY <2>3, <2>5, <2>7 DEF Inv
<1> QED
  BY <1>3, <1>4, <1>5 DEF HandlerStep, SubmitClaim, SubmitDelivery

(* Every step keeps the invariant.                                           *)
LEMMA NextSound ==
    ASSUME Inv, [Next]_vars
    PROVE  Inv'
<1>1. TypeOK'
  BY TypeStep, SubjectAssumption, FaultAssumption DEF Inv
<1>2. ASSUME NEW t \in Tasks, RivalClaims(t) \/ PosterFunds(t) \/ TaskEnds(t)
      PROVE  Inv'
  <2>1. /\ UNCHANGED <<delivered, seen, handler, sent, notices>>
        /\ \A u \in Tasks : task'[u] = "POSTED" => task[u] = "POSTED"
    BY <1>2 DEF RivalClaims, PosterFunds, TaskEnds, TaskMoves, Inv, TypeOK
  <2>2. ClaimWon'
    BY <2>1, SubjectAssumption DEF Inv, ClaimWon, HoldsClaim, SubjectAssumption
  <2> QED
    BY <1>1, <2>1, <2>2
       DEF Inv, Entered, HandledOncePerRun, Awaited, OneHolder, NoticeDue, HoldsClaim
<1>3. CASE \/ \E m \in Messages : PeerSends(m)
           \/ Start \/ CaughtUp \/ UNCHANGED vars
  <2>1. UNCHANGED <<task, delivered, seen, handler, sent, notices>>
    BY <1>3 DEF PeerSends, Start, CaughtUp, vars, chainVars
  <2> QED
    BY <1>1, <2>1
       DEF Inv, Entered, HandledOncePerRun, Awaited, ClaimWon, OneHolder, NoticeDue, HoldsClaim
<1>4. CASE Crash
  BY <1>1, <1>4, StopSound DEF Crash, chainVars
<1>5. ASSUME NEW r \in Routes, NEW m \in Messages, Receive(r, m)
      PROVE  Inv'
  <2>1. PICK step \in {"opening", "reading"} : Goes(r, m, step)
    BY <1>5 DEF Receive
  <2>2. /\ UNCHANGED <<task, delivered, sent, notices>>
        /\ m \notin seen /\ seen' = seen \union {m}
    BY <1>5 DEF Receive, Unseen, MarkSeen, chainVars
  <2>3. /\ handler'[r][m] = step
        /\ \A q \in Routes, n \in Messages :
              q # r \/ n # m => handler'[q][n] = handler[q][n]
    BY <2>1, GoesFacts DEF Inv, Steps
  <2>4. \A q \in Routes : handler[q][m] = "idle"
    BY <2>2 DEF Inv, Entered
  <2>5. Entered' /\ HandledOncePerRun'
    BY <2>2, <2>3, <2>4 DEF Inv, Entered, HandledOncePerRun
  <2>6. \A q \in Routes, n \in Messages : HoldsClaim(q, n)' => HoldsClaim(q, n)
    BY <2>3 DEF HoldsClaim
  <2>7. ClaimWon' /\ OneHolder' /\ NoticeDue'
    BY <2>2, <2>3, <2>6 DEF Inv, ClaimWon, OneHolder, NoticeDue
  <2>8. \A tx \in sent :
           /\ tx.message \in Messages
           /\ tx.route # "lost" => tx.route \in Routes
           /\ ~(tx.route = r /\ tx.message = m)
    BY <2>4 DEF Inv, Awaited, TypeOK, Transactions, Routes
  <2>9. Awaited'
    BY <2>2, <2>3, <2>4, <2>8 DEF Inv, Awaited
  <2> QED
    BY <1>1, <2>5, <2>7, <2>9 DEF Inv
<1> QED
  BY <1>1, <1>2, <1>3, <1>4, <1>5, MineSound, HandlerSound, FailSound, SubjectAssumption DEF Next

-------------------------------------------------------------------------------
(* The inductive invariant: handlers, transactions and claims in step.         *)
THEOREM WorkerSound == Spec => []Inv
<1>1. Init => Inv
  BY FaultAssumption
     DEF Init, Inv, TypeOK, Entered, HandledOncePerRun, Awaited, ClaimWon, OneHolder, NoticeDue,
         HoldsClaim, NoHandlers, Steps, TaskStates, FaultAssumption
<1>2. Inv /\ [Next]_vars => Inv'
  BY NextSound
<1> QED
  BY <1>1, <1>2, PTL DEF Spec

(* A message is handled at most once in a run, by whichever routes it comes.    *)
THEOREM WorkerHandlesOnce == Spec => []HandledOncePerRun
<1>1. Inv => HandledOncePerRun
  BY DEF Inv
<1> QED
  BY <1>1, WorkerSound, PTL

(* One handler at most holds the claim of a task, and one notice at most is     *)
(* sent for it, when the delivery is on chain.                                *)
THEOREM WorkerNotifiesOnce == Spec => []OneNoticePerDelivery
<1>1. Inv => OneNoticePerDelivery
  BY DEF Inv, OneHolder, NoticeDue, OneNoticePerDelivery
<1> QED
  BY <1>1, WorkerSound, PTL

===============================================================================
