------------------------------ MODULE Arbitration ------------------------------
(***************************************************************************)
(* ArbitrationModuleV2 with its bond vault: a curated panel, round-robin      *)
(* assignment of disputes to bonded members, the evidence and ruling windows, *)
(* the ruling, and the timeout with its slash.                                *)
(*                                                                          *)
(* Here the registry is a caller that opens a dispute once for each task and  *)
(* accepts every settlement; module Protocol joins the two.                   *)
(***************************************************************************)
EXTENDS Integers, Sequences, FiniteSets, Functions, Amounts

CONSTANTS
    Tasks, Verifiers, Nobody,
    PosterOf, WorkerOf,       \* registry.taskParties in this module's own runs
    MinimumBond, WithdrawalCooldown, SlashCapBps,
    EvidenceWindow, RulingWindow,
    StartPanel,               \* the panel the module is deployed with
    WorkerBps,                \* the workerBps values arbitrators try
    BondAmounts, MaxBonded, MaxPanel, MaxTime   \* model-checking bounds

Bonds == INSTANCE VerifierBondVault

(* What the constructors check and the registry's set-up gives.               *)
Assumed ==
    /\ IsFiniteSet(Tasks) /\ IsFiniteSet(Verifiers) /\ Nobody \notin Verifiers
    /\ MinimumBond \in Nat \ {0} /\ WithdrawalCooldown \in Nat \ {0}
    /\ EvidenceWindow \in Nat \ {0} /\ RulingWindow \in Nat \ {0}
    /\ SlashCapBps \in 0..10000 /\ BondAmounts \subseteq Nat
    /\ StartPanel \in Seq(Verifiers) /\ IsInjective(StartPanel)

ASSUME ArbitrationAssumption == Assumed

Status == {"NONE", "EVIDENCE", "RULING", "SETTLED"}
Outcomes == {"POSTER_WINS", "WORKER_WINS", "SPLIT", "MUTUAL"}

Dispute == [arbitrator : Verifiers \cup {Nobody},
            evidenceDeadline : Nat, rulingDeadline : Nat,
            status : Status, outcome : Outcomes \cup {"NONE"}, slashed : Nat]

NoDispute == [arbitrator |-> Nobody,
              evidenceDeadline |-> 0, rulingDeadline |-> 0,
              status |-> "NONE", outcome |-> "NONE", slashed |-> 0]

(* panel keeps a removed member's place, as Nobody; positions count from 0.   *)
CaseType == [panel : Seq(Verifiers \cup {Nobody}), assignmentCursor : Nat,
             authorized : [Verifiers -> BOOLEAN], disputes : [Tasks -> Dispute]]

StartCases == [panel |-> StartPanel, assignmentCursor |-> 0,
               authorized |-> [x \in Verifiers |-> x \in Range(StartPanel)],
               disputes |-> [t \in Tasks |-> NoDispute]]

-------------------------------------------------------------------------------
(* The panel.                                                                *)

HasOtherEligible(c, b, excluded) ==
    \E x \in Range(c.panel) \ {excluded, Nobody} : c.authorized[x] /\ Bonds!IsEligible(b, x)

MayLeave(c, b, x) == c.authorized[x] => HasOtherEligible(c, b, x)

CanAddPanelMember(c, x) == ~c.authorized[x]

AddPanelMember(c, x) == [c EXCEPT !.authorized[x] = TRUE, !.panel = Append(@, x)]

(* Mutant: the last eligible member may be removed.                          *)
RemoveLastMember(c, b, x) == c.authorized[x] /\ ~Bonds!CanRelease(b, x)

CanRemovePanelMember(c, b, x) ==
    /\ c.authorized[x]
    /\ ~Bonds!CanRelease(b, x)
    /\ Bonds!IsEligible(b, x) => HasOtherEligible(c, b, x)

RemovePanelMember(c, x) ==
    [c EXCEPT !.authorized[x] = FALSE,
              !.panel = [i \in DOMAIN @ |-> IF @[i] = x THEN Nobody ELSE @[i]]]

(* _nextArbitrator: the first eligible member from the cursor on who is not a *)
(* party; the cursor then points past it.                                    *)
Positions(c) == [i \in 1..Len(c.panel) |-> ((c.assignmentCursor + i - 1) % Len(c.panel)) + 1]

(* Mutant: a party of the case may be chosen.                                *)
SuitsParty(c, b, x, poster, worker) ==
    x # Nobody /\ c.authorized[x] /\ Bonds!IsEligible(b, x)

Suits(c, b, x, poster, worker) ==
    /\ x \notin {Nobody, poster, worker}
    /\ c.authorized[x] /\ Bonds!IsEligible(b, x)

Choices(c, b, poster, worker) ==
    {i \in 1..Len(c.panel) : Suits(c, b, c.panel[Positions(c)[i]], poster, worker)}

FirstChoice(c, b, poster, worker) ==
    LET is == Choices(c, b, poster, worker)
    IN  Positions(c)[CHOOSE i \in is : \A j \in is : i <= j]

NextArbitrator(c, b, poster, worker) ==
    IF Choices(c, b, poster, worker) = {} THEN Nobody
    ELSE c.panel[FirstChoice(c, b, poster, worker)]

CursorAfter(c, b, poster, worker) ==
    IF Choices(c, b, poster, worker) = {} THEN c.assignmentCursor
    ELSE FirstChoice(c, b, poster, worker) % Len(c.panel)

(* Mutant: the arbitrator is named but its bond is not reserved.             *)
NamedOnly(b, arbitrator) == b

Assigned(b, arbitrator) == IF arbitrator = Nobody THEN b ELSE Bonds!Assign(b, arbitrator)

-------------------------------------------------------------------------------
(* A dispute.  The evidence hashes it stores are read by nobody on chain and   *)
(* are left out, with submitEvidence, which only stores them.                *)

Open(d) == d.status \in {"EVIDENCE", "RULING"}

CanOpenDispute(c, b, t) == c.disputes[t].status = "NONE" /\ Len(c.panel) > 0

OpenDispute(c, b, t, poster, worker, now) ==
    [c EXCEPT
        !.assignmentCursor = CursorAfter(c, b, poster, worker),
        !.disputes[t] = [NoDispute EXCEPT
            !.arbitrator = NextArbitrator(c, b, poster, worker),
            !.evidenceDeadline = now + EvidenceWindow,
            !.status = "EVIDENCE"]]

(* assignArbitrator: its window closes with the evidence window, since a full *)
(* ruling window must still fit before the cutoff.  (Its RULING branch, which *)
(* would move rulingDeadline, therefore never runs.)                          *)
CanAssignArbitrator(c, b, t, poster, worker, now) ==
    LET d == c.disputes[t]
    IN  /\ d.arbitrator = Nobody /\ Open(d)
        /\ now + RulingWindow <= d.evidenceDeadline + RulingWindow
        /\ NextArbitrator(c, b, poster, worker) # Nobody

AssignArbitrator(c, b, t, poster, worker, now) ==
    [c EXCEPT
        !.assignmentCursor = CursorAfter(c, b, poster, worker),
        !.disputes[t].arbitrator = NextArbitrator(c, b, poster, worker),
        !.disputes[t].rulingDeadline =
            IF c.disputes[t].status = "RULING" THEN now + RulingWindow
            ELSE c.disputes[t].rulingDeadline]

(* Mutant: the ruling phase may begin inside the evidence window.            *)
BeginEarly(c, t, now) == c.disputes[t].status = "EVIDENCE"

CanBeginRuling(c, t, now) ==
    c.disputes[t].status = "EVIDENCE" /\ now > c.disputes[t].evidenceDeadline

BeginRuling(c, t) ==
    [c EXCEPT !.disputes[t].status = "RULING",
              !.disputes[t].rulingDeadline = c.disputes[t].evidenceDeadline + RulingWindow]

ValidAllocation(outcome, bps) ==
    \/ outcome = "POSTER_WINS" /\ bps = 0
    \/ outcome = "WORKER_WINS" /\ bps = 10000
    \/ outcome = "SPLIT" /\ bps >= 1000 /\ bps <= 9000
    \/ outcome = "MUTUAL" /\ bps \in {0, 5000}

(* rule: from EVIDENCE it first begins the ruling phase.                      *)
Ruling(c, t) == IF c.disputes[t].status = "EVIDENCE" THEN BeginRuling(c, t) ELSE c

CanRule(c, b, t, outcome, bps, now) ==
    LET d == c.disputes[t]
    IN  /\ d.arbitrator # Nobody
        /\ d.status = "EVIDENCE" => CanBeginRuling(c, t, now)
        /\ Ruling(c, t).disputes[t].status = "RULING"
        /\ now <= Ruling(c, t).disputes[t].rulingDeadline
        /\ ValidAllocation(outcome, bps)
        /\ Bonds!CanRelease(b, d.arbitrator)

(* Mutant: the outcome is stored and the case left open.                     *)
RuleLeavingOpen(c, t, outcome) == [Ruling(c, t) EXCEPT !.disputes[t].outcome = outcome]

Rule(c, t, outcome) ==
    [Ruling(c, t) EXCEPT !.disputes[t].status = "SETTLED", !.disputes[t].outcome = outcome]

(* timeout: after the cutoff, whether or not anybody began the ruling phase.  *)
Cutoff(d) == IF d.rulingDeadline # 0 THEN d.rulingDeadline ELSE d.evidenceDeadline + RulingWindow

(* Mutant: the whole bond is slashed, not the capped part.                   *)
SlashWholeBond(c, b, t) ==
    IF c.disputes[t].arbitrator = Nobody THEN 0 ELSE b.bonds[c.disputes[t].arbitrator]

SlashAmount(c, b, t) ==
    LET d == c.disputes[t]
        intended == Monus((MinimumBond * SlashCapBps) \div 10000, d.slashed)
    IN  IF d.arbitrator = Nobody THEN 0
        ELSE IF intended < b.bonds[d.arbitrator] THEN intended ELSE b.bonds[d.arbitrator]

(* Mutant: a case nobody was assigned to cannot time out.                     *)
TimeoutNeedsArbitrator(c, b, t, now) ==
    LET d == c.disputes[t]
    IN  /\ Open(d) /\ now > Cutoff(d) /\ d.arbitrator # Nobody
        /\ Bonds!CanSlashAndRelease(b, d.arbitrator, SlashAmount(c, b, t))

CanTimeout(c, b, t, now) ==
    LET d == c.disputes[t]
    IN  /\ Open(d) /\ now > Cutoff(d)
        /\ d.arbitrator # Nobody => Bonds!CanSlashAndRelease(b, d.arbitrator, SlashAmount(c, b, t))

Timeout(c, b, t) ==
    [c EXCEPT !.disputes[t].status = "SETTLED", !.disputes[t].outcome = "MUTUAL",
              !.disputes[t].slashed = c.disputes[t].slashed + SlashAmount(c, b, t)]

TimedOut(c, b, t, refused) ==
    LET d == c.disputes[t]
    IN  IF d.arbitrator = Nobody THEN b
        ELSE Bonds!SlashAndRelease(b, d.arbitrator, SlashAmount(c, b, t), refused)

-------------------------------------------------------------------------------
(* The module on its own.                                                    *)

VARIABLES cases, bondVault, now

vars == <<cases, bondVault, now>>

Init ==
    /\ cases = StartCases
    /\ bondVault = Bonds!EmptyBondVault
    /\ now = 1

PostBond(x, n) ==
    /\ bondVault.totalBonded + n <= MaxBonded
    /\ bondVault' = Bonds!Bond(bondVault, x, n)
    /\ UNCHANGED <<cases, now>>

VerifierSchedules(x) ==
    /\ Bonds!CanScheduleWithdrawal(bondVault, x, MayLeave(cases, bondVault, x))
    /\ bondVault' = Bonds!ScheduleWithdrawal(bondVault, x, now)
    /\ UNCHANGED <<cases, now>>

VerifierWithdraws(x, n) ==
    /\ Bonds!CanWithdrawBond(bondVault, x, n, now, MayLeave(cases, bondVault, x))
    /\ bondVault' = Bonds!WithdrawBond(bondVault, x, n)
    /\ UNCHANGED <<cases, now>>

OwnerAdds(x) ==
    /\ Len(cases.panel) < MaxPanel
    /\ CanAddPanelMember(cases, x)
    /\ cases' = AddPanelMember(cases, x)
    /\ UNCHANGED <<bondVault, now>>

OwnerRemoves(x) ==
    /\ CanRemovePanelMember(cases, bondVault, x)
    /\ cases' = RemovePanelMember(cases, x)
    /\ UNCHANGED <<bondVault, now>>

(* The parties of the case are what the registry says.  The bounded clock must *)
(* leave room for the timeout.                                               *)
RegistryOpens(t, poster, worker) ==
    /\ now + EvidenceWindow + RulingWindow < MaxTime
    /\ CanOpenDispute(cases, bondVault, t)
    /\ cases' = OpenDispute(cases, bondVault, t, poster, worker, now)
    /\ bondVault' = Assigned(bondVault, cases'.disputes[t].arbitrator)
    /\ UNCHANGED now

SomebodyAssigns(t, poster, worker) ==
    /\ CanAssignArbitrator(cases, bondVault, t, poster, worker, now)
    /\ cases' = AssignArbitrator(cases, bondVault, t, poster, worker, now)
    /\ bondVault' = Assigned(bondVault, cases'.disputes[t].arbitrator)
    /\ UNCHANGED now

SomebodyBegins(t) ==
    /\ CanBeginRuling(cases, t, now)
    /\ cases' = BeginRuling(cases, t)
    /\ UNCHANGED <<bondVault, now>>

ArbitratorRules(t, outcome, bps) ==
    /\ CanRule(cases, bondVault, t, outcome, bps, now)
    /\ cases' = Rule(cases, t, outcome)
    /\ bondVault' = Bonds!Release(bondVault, cases.disputes[t].arbitrator)
    /\ UNCHANGED now

SomebodyTimesOut(t, refused) ==
    /\ CanTimeout(cases, bondVault, t, now)
    /\ cases' = Timeout(cases, bondVault, t)
    /\ bondVault' = TimedOut(cases, bondVault, t, refused)
    /\ UNCHANGED now

TreasuryPulls ==
    /\ Bonds!CanClaimSlash(bondVault)
    /\ bondVault' = Bonds!ClaimSlash(bondVault)
    /\ UNCHANGED <<cases, now>>

Tick == now < MaxTime /\ now' = now + 1 /\ UNCHANGED <<cases, bondVault>>

Next ==
    \/ \E x \in Verifiers, n \in BondAmounts : PostBond(x, n) \/ VerifierWithdraws(x, n)
    \/ \E x \in Verifiers : VerifierSchedules(x) \/ OwnerAdds(x) \/ OwnerRemoves(x)
    \/ \E t \in Tasks :
          \/ RegistryOpens(t, PosterOf[t], WorkerOf[t])
          \/ SomebodyAssigns(t, PosterOf[t], WorkerOf[t])
          \/ SomebodyBegins(t)
          \/ \E refused \in BOOLEAN : SomebodyTimesOut(t, refused)
          \/ \E outcome \in Outcomes, bps \in WorkerBps : ArbitratorRules(t, outcome, bps)
    \/ TreasuryPulls
    \/ Tick

Spec == Init /\ [][Next]_vars

-------------------------------------------------------------------------------
TypeOK == cases \in CaseType /\ bondVault \in Bonds!BondVaultType /\ now \in Nat

OpenCases(x) == {t \in Tasks : Open(cases.disputes[t]) /\ cases.disputes[t].arbitrator = x}

(* The bond vault and the disputes agree on who serves: as many assignments   *)
(* and as much reserved bond as open cases, and the bond covers the reserve.  *)
(* So no eligibility question and no settlement can revert over a bond.       *)
BondsCoverCases ==
    \A x \in Verifiers :
        /\ bondVault.activeAssignments[x] = Cardinality(OpenCases(x))
        /\ bondVault.reservedSlash[x] = Cardinality(OpenCases(x)) * MinimumBond
        /\ bondVault.bonds[x] >= bondVault.reservedSlash[x]
        /\ OpenCases(x) # {} => cases.authorized[x] /\ bondVault.withdrawReadyAt[x] = 0

(* The vault can return every bond and pay every deferred slash.              *)
BondsSolvent ==
    /\ bondVault.totalBonded = SumFunction(bondVault.bonds)
    /\ bondVault.balance >= bondVault.totalBonded + bondVault.totalPendingPayouts

(* No arbitrator is a party to its case, whoever joined the panel meanwhile.  *)
NobodyJudgesOwnCase ==
    \A t \in Tasks : cases.disputes[t].arbitrator \notin {PosterOf[t], WorkerOf[t]} \ {Nobody}

(* The evidence window is the parties' own: no case is settled before it      *)
(* closes.  The cutoff is absolute: nothing moves it, a case settled by then  *)
(* was ruled by its arbitrator, one settled later was not.                    *)
WindowsHonoured ==
    [][\A t \in Tasks :
          LET d == cases.disputes[t]
              e == cases'.disputes[t]
          IN  Open(d) =>
                /\ e.evidenceDeadline = d.evidenceDeadline /\ Cutoff(e) = Cutoff(d)
                /\ e.status = "SETTLED" =>
                      /\ now > d.evidenceDeadline
                      /\ now <= Cutoff(d) => d.arbitrator # Nobody /\ e.slashed = 0
                      /\ now > Cutoff(d) => e.outcome = "MUTUAL"
      ]_vars

EligiblePanel == {x \in Range(cases.panel) \ {Nobody} :
                     cases.authorized[x] /\ Bonds!IsEligible(bondVault, x)}

(* Nobody leaves the panel without an eligible member: the last one stops     *)
(* being eligible only by taking a case.                                      *)
PanelNotEmptiedByExit ==
    [][EligiblePanel # {} /\ EligiblePanel' = {} =>
          \E x \in EligiblePanel :
              bondVault'.activeAssignments[x] > bondVault.activeAssignments[x]
      ]_vars

(* A bond shrinks only by its owner's withdrawal after the cooldown, or by a  *)
(* slash within one assignment's reserve when the verifier let its case lapse. *)
BondsTakenOnlyForCause ==
    [][\A x \in Verifiers :
          LET lost == bondVault.bonds[x] - bondVault'.bonds[x]
          IN  lost > 0 =>
                \/ /\ bondVault.withdrawReadyAt[x] \in 1..now
                   /\ OpenCases(x) = {}
                \/ /\ lost <= (MinimumBond * SlashCapBps) \div 10000
                   /\ \E t \in OpenCases(x) :
                         now > Cutoff(cases.disputes[t]) /\ cases'.disputes[t].slashed = lost
      ]_vars
===============================================================================
