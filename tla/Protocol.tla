------------------------------- MODULE Protocol --------------------------------
(***************************************************************************)
(* One AZZLE V2 market: the task registry with its vaults and credits, joined *)
(* to arbitration with its bonds.  A dispute is opened by the registry, which *)
(* calls arbitration, which freezes the escrow; it is settled by arbitration, *)
(* which pays the escrow, calls the registry back, records reputation and     *)
(* releases or slashes the bond.  Each is one transaction here as there.      *)
(***************************************************************************)
EXTENDS TaskRegistry, Sequences

CONSTANTS
    Verifiers, MinimumBond, WithdrawalCooldown, SlashCapBps,
    EvidenceWindow, RulingWindow, StartPanel,
    StartBond,                       \* what each panel member has bonded at the start
    BondAmounts, MaxBonded, MaxPanel \* model-checking bounds

VARIABLES cases, bondVault

(* The parties of a case are those of the registry's task here, so the         *)
(* constants PosterOf and WorkerOf of Arbitration's own runs are not used.     *)
Panel == INSTANCE Arbitration WITH
    PosterOf <- [t \in Tasks |-> Nobody],
    WorkerOf <- [t \in Tasks |-> Nobody],
    WorkerBps <- WorkerShares

ASSUME ProtocolAssumption ==
    /\ IsFiniteSet(Verifiers) /\ Nobody \notin Verifiers
    /\ MinimumBond \in Nat \ {0} /\ WithdrawalCooldown \in Nat \ {0}
    /\ EvidenceWindow \in Nat \ {0} /\ RulingWindow \in Nat \ {0}
    /\ SlashCapBps \in 0..10000 /\ BondAmounts \subseteq Nat
    /\ StartPanel \in Seq(Verifiers) /\ IsInjective(StartPanel)
    /\ StartBond \in Nat

protocolVars == <<vars, cases, bondVault>>
registryVars == vars

ProtocolInit ==
    /\ Init
    /\ cases = Panel!StartCases
    /\ LET staked == [x \in Verifiers |-> IF cases.authorized[x] THEN StartBond ELSE 0]
       IN  bondVault = [Panel!Bonds!EmptyBondVault EXCEPT
                           !.bonds = staked,
                           !.totalBonded = SumFunction(staked),
                           !.balance = SumFunction(staked)]

(* openDispute of the registry, with the call it makes.                      *)
PartyDisputes(t, party) ==
    /\ OpenDispute(t, party)
    /\ Panel!RegistryOpens(t, tasks[t].poster, tasks[t].worker)

SomebodyAssigns(t) ==
    /\ Panel!SomebodyAssigns(t, tasks[t].poster, tasks[t].worker)
    /\ UNCHANGED registryVars

(* rule and timeout of arbitration, with the calls they make.  What is slashed  *)
(* goes to the treasury.                                                     *)
ArbitratorRules(t, outcome, bps, earned, refusing) ==
    /\ Panel!ArbitratorRules(t, outcome, bps)
    /\ Rule(t, outcome, bps, earned, refusing)

CaseTimesOut(t, earned, refusing) ==
    /\ Panel!SomebodyTimesOut(t, Treasury \in refusing)
    /\ TimeoutDispute(t, earned, refusing)

(* What the registry does without arbitration.                               *)
RegistryOnly ==
    /\ \/ \E t \in Tasks : UndisputedStep(t)
       \/ AccountStep
       \/ Tick
    /\ UNCHANGED <<cases, bondVault>>

(* What arbitrators, the owner and passers-by do without the registry.       *)
PanelOnly ==
    /\ \/ \E x \in Verifiers, n \in BondAmounts :
            Panel!PostBond(x, n) \/ Panel!VerifierWithdraws(x, n)
       \/ \E x \in Verifiers :
            Panel!VerifierSchedules(x) \/ Panel!OwnerAdds(x) \/ Panel!OwnerRemoves(x)
       \/ \E t \in Tasks : Panel!SomebodyBegins(t)
       \/ Panel!TreasuryPulls
    /\ UNCHANGED registryVars

ProtocolNext ==
    \/ RegistryOnly
    \/ PanelOnly
    \/ \E t \in Tasks :
          \/ \E party \in Accounts : PartyDisputes(t, party)
          \/ SomebodyAssigns(t)
          \/ \E earned \in Earnings, refusing \in Refusals :
                \/ CaseTimesOut(t, earned, refusing)
                \/ \E outcome \in Rulings, bps \in WorkerShares :
                      ArbitratorRules(t, outcome, bps, earned, refusing)

ProtocolSpec == ProtocolInit /\ [][ProtocolNext]_protocolVars

(* Anybody may expire a task or close an overdue case, and somebody           *)
(* eventually does: the parties themselves have collateral at stake.  Time     *)
(* passes.  Nothing else is bound to happen: a poster, a worker or an          *)
(* arbitrator may stay silent for ever.                                      *)
SomebodyExpires(t) ==
    /\ \E earned \in Earnings, refusing \in Refusals : Expire(t, earned, refusing)
    /\ UNCHANGED <<cases, bondVault>>
SomebodyClosesCase(t) ==
    \E earned \in Earnings, refusing \in Refusals : CaseTimesOut(t, earned, refusing)

FairProtocolSpec ==
    /\ ProtocolSpec
    /\ WF_protocolVars(Tick /\ UNCHANGED <<cases, bondVault>>)
    /\ \A t \in Tasks :
          WF_protocolVars(SomebodyExpires(t)) /\ WF_protocolVars(SomebodyClosesCase(t))

-------------------------------------------------------------------------------
(* Registry, escrow and arbitration agree on which tasks are in dispute, and  *)
(* a task is resolved with the outcome its dispute was given.                 *)
DisputeFollowsTask ==
    \A t \in Tasks :
        LET d == cases.disputes[t]
        IN  /\ Panel!Open(d) <=> tasks[t].state = "DISPUTED"
            /\ d.status = "SETTLED" <=> tasks[t].state = "RESOLVED"
            /\ d.status = "SETTLED" => d.outcome = tasks[t].resolution
            /\ d.arbitrator \notin Parties(tasks[t])

(* Every open dispute can be ended in every contract it involves at once: an  *)
(* arbitrator in time can give any outcome, and after the cutoff anybody can  *)
(* close it.  A refusal anywhere would freeze the escrow for good.            *)
DisputesCanEnd ==
    \A t \in Tasks :
        LET d == cases.disputes[t]
        IN  Panel!Open(d) =>
              \A outcome \in Rulings :
                /\ SettleRequires(t, outcome) /\ ResolveAccepted(t, outcome)
                /\ now > Panel!Cutoff(d) => Panel!CanTimeout(cases, bondVault, t, now)
                /\ d.arbitrator # Nobody => Panel!Bonds!CanRelease(bondVault, d.arbitrator)

(* Every posted task ends, and its escrow with it, even if its poster, worker *)
(* and arbitrator never act again.                                           *)
EveryTaskEnds ==
    \A t \in Tasks : tasks[t].state = "POSTED" ~> tasks[t].state \in Terminal
===============================================================================
