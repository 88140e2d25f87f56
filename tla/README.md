# AZZLE V2: a TLA+ model of the task market and of the programs around it

AZZLE is a market where agents post tasks, claim them and are paid in AZL on Base. Its core
is `contracts/src/v2`: a task state machine (`TaskRegistryV2`) that moves collateral, escrow,
Action Credits and reputation held by other contracts, and an arbitration module that settles
disputes. Around it are the programs agents run: a worker that serves proposals sent over XMTP,
the handlers of a negotiation, a page that posts tasks, an outreach engine with its own store.
This directory models both sides, checks them with TLC and proves part of them with TLAPS.
Paths are relative to the repository, or to `contracts/src/v2` for a bare `.sol` name.

## 1. Inventory

### Contracts

| Component | State it keeps | Operations that change it | Who calls it |
|---|---|---|---|
| `TaskRegistryV2` | task records, parties, deadlines, credit flags, `openTaskTotalUsd6` and its per-poster part | `post claim fund markDelivered release complete cancel expire openDispute resolveDispute` | posters, workers, anybody (`expire`), arbitration (`resolveDispute`) |
| `AgentDepositVaultV2` | deposits, reserved collateral, one latched entry floor per agent, quotes and reservations per task, deferred payouts, three totals | `credit withdraw reserveTask releaseTask debitExitFee debitAccessFeeTo claimPayout rescueSurplus` | registry, gateway, agents, owner |
| `EscrowVaultV2` | one escrow per task, deferred payouts, `totalLiabilities` | `createEscrow fundEscrow freeze releaseEscrow closeEscrow settleEscrow refundEscrow claimPayout rescueSurplus` | registry, arbitration, payees, owner |
| `ArbitrationModuleV2` | the panel with its cursor, one dispute per task | `addPanelMember removePanelMember openDispute submitEvidence assignArbitrator beginRuling rule timeout` | owner, registry, parties, arbitrators, anybody |
| `VerifierBondVaultV2` | bonds, assignments, reserved slashes, scheduled withdrawals, deferred slashes | `bond scheduleWithdrawal withdraw assign release slashAndRelease claimPayout` | verifiers, arbitration, treasury |
| `ReputationRegistryV2` | counters per agent, a recorded flag per task | `recordCompletion recordDispute recordPosterExpiry recordUnresolved` | registry, arbitration |
| `UnionStakingVaultV2` | stakes, reward and credit accumulators with their dust, an emission schedule, banked Action Credits, credit slots per task | `stake unstake claim notifyReward activateStaking checkpoint claimPayout trySpendCredit settleSpentCredit` and two rescues | stakers, treasury, registry, owner |
| `AzlPricingPolicy`, `AzlUsdOracle`, TWAP adapter, `AzlV4ObservationOracle` | quote parameters; observations and epochs | `quoteTask`, valuations; `observe`, reference changes | deposit vault, registry, keepers |
| `AzlPaymentGatewayV2`, executors, `AzlHopV2` | pause flag, per-input limits | deposits in other currencies, swapped and credited | agents |
| `TreasuryRouterV2` | revenue buckets | recording and distributing revenue, `claimBondSlashPayout` | deposit vault fees, owner |
| `AzzleSuiteV2Factory` and micro factory, `TaskScopeRegistryV2`, `V2Ownable2Step` | deployment, task texts, ownership | one-time; `publish` once per task | deployer, posters |
| `contracts/src/crowdfund` | members, contributions, quorum | join, leave, approve, refund, claim | members |
| `archive/contracts-legacy` | the retired V1 suite | | nobody |

How they interact. Every operation is one transaction: it calls the other contracts
synchronously and all of it reverts together. Interleaving happens between transactions:
posters, workers, bystanders, arbitrators, the owner and payees act in any order, time passes,
and the price moves. Within a transaction one thing may fail without reverting the rest: an
outgoing token transfer, which the vaults then owe (`_payOrDefer`) instead of paying.

What is hard here:

- *Endings that must never revert.* A task's escrow leaves only by `complete`, `cancel`,
  `expire` or a settled dispute. Each calls up to five contracts; a checked subtraction or a
  `require` failing in one of them, because of something an earlier transaction did, locks the
  escrow for good.
- *The same fact in several contracts.* Task state, escrow state, collateral, credit slots and
  dispute status are updated by separate contracts and must agree after every transaction.
- *One number for many tasks.* The entry floor, `reserved`, and the exposure totals are shared
  by all of an agent's live tasks, quoted at different prices.
- *Clocks that race.* Delivery, grace, dispute window, funding window and deadline decide who
  may end a task and who is charged; evidence window and cutoff decide who may settle a dispute.
- *Panels that change under open cases.* Verifiers bond, schedule, withdraw and are slashed while
  the owner adds and removes members and disputes wait for an arbitrator.
- *Accumulators that round.* Rewards and credits are shares of the whole stake, divided with
  rounding at every emission and at every change of a stake, with some of the dust counted.

What makes each component correct: the deposit vault covers its reservations, floors and debts;
the escrow vault pays each escrow exactly once and never while frozen; the staking vault backs
every stake, and neither rewards nor credits appear or vanish beyond rounding; a credit is spent
and settled once; the registry agrees with all of them, respects its exposure caps and charges a
party only for its own fault; arbitration keeps its windows, its bonds and its panel, and every
dispute ends; a quote of the policy is one the vault accepts; the whole lets every posted task
end whoever stays silent.

### Programs around the contracts

| Component | State it keeps | What it does | What is hard |
|---|---|---|---|
| Live worker, `agents/src/reference/live-worker.ts` | `seenMessageIds`, the handlers running, all in memory | catches up, streams and polls XMTP messages; for a `TaskProposal`: claims the task, waits for funding, delivers, notifies | one message by three routes; awaits of minutes; crash and restart with an empty memory but transactions in flight |
| Agent messaging, `agents/src/sdk/xmtp/` | bindings of negotiations to tasks, agreed terms | dispatches every message twice to the handlers, which read the chain and settle | handlers interleave at each await; messages duplicated and out of order; a call returns before it is mined |
| Posting page, `src/azzle-chain.js`, `site/post-checkout.js` | `checkoutBusy`, the flow of each click | posts a task and publishes its scope in one batch that predicts the task id; falls back to plain transactions | others post in between; a batch may land after it was given up |
| Graph store, `azzle-force/src/lite/store.ts` | a graph in memory, four files and archives | debounced saves of the whole graph, backups, loading at start | kill between or inside writes; failed writes and renames |
| Outreach orchestration, rest of `azzle-force/` | the graph above | discovery, message writing, sending, follow-ups | the order of reads, sends and saves |
| Posting quotas, `api/lib/posting-*.js` | JSON stores of quotes and use counts | create and consume a quote | whole-file read, edit, write back by concurrent requests |
| Chain watching, `lifecycle-watcher.ts`, `chain-event-indexer.ts` | a block cursor | polls events and calls back | |
| SDK, MCP server, gateways (`agents/`) | none | build and send transactions | |
| Arbitrator agent, `azzle-arbitrator/` | none | rules on its cases | |
| Read API, site, templates, build scripts | caches | show the chain | |

What makes them correct: a message is handled once and comes to an end; a delivery is announced
once; what a negotiation settles is its own task, and what it settles by itself was delivered on
chain; a page shows only a task of its wallet listed under its scope, pays twice only when it could not
know better and never locks itself; a graph once saved can be loaded, and a change is saved in
the end.

To the contracts these programs are callers, and the contract models let anybody send any
transaction in any order. To the programs the contracts are what `LiveWorker`, `Negotiation` and
`OpenPosting` keep of them: a task's state as far as the program tells it apart, changed by others
whenever the chain allows.

## 2. Modules

| Module | Models | Form |
|---|---|---|
| `Amounts` | checked and clamped arithmetic, updates of balances | operators |
| `DepositVault` | `AgentDepositVaultV2` | operators on a record, and a specification of its own |
| `EscrowVault` | `EscrowVaultV2` | the same |
| `PricingPolicy` | `quoteTask` of `AzlPricingPolicy`, and the vault's check of a quote | operators |
| `ActionCredits` | the credit ledger as the registry sees it | operators on a record, and an abstract specification |
| `Staking` | `UnionStakingVaultV2` whole | state machine; implements `ActionCredits` |
| `ReputationRegistry` | `ReputationRegistryV2` | operators |
| `TaskRegistry` | `TaskRegistryV2` with the two vaults, the ledger and reputation | state machine, one action per transaction |
| `TaskLifecycle` | nothing: the abstract life of a task | abstract specification `TaskRegistry` implements |
| `VerifierBondVault` | `VerifierBondVaultV2` | operators |
| `Arbitration` | `ArbitrationModuleV2` with the bond vault | operators on a record, and a state machine |
| `Protocol` | registry and arbitration joined | state machine, with fairness |
| `DocumentedClaims` | what a comment of the registry says | a property the code refutes |
| `LiveWorker` | `LiveWorkerService` on a chain of other workers and posters | state machine, with fairness |
| `Negotiation` | `transport.ts` and `NegotiationHandlers` of the poster | state machine |
| `OpenPosting` | `runPost` and `postV2` for open tasks, `TaskScopeRegistryV2.publish` | state machine |
| `GraphStore` | `LiteStore` | state machine, with fairness |
| `SumTheorems` | | theorems about sums of functions and totals, for every proof module that needs them |
| `DepositVault_proofs`, `EscrowVault_proofs`, `Staking_proofs`, `Arbitration_proofs`, `LiveWorker_proofs` | | theorems about the module each is named after |
| `Protocol_proofs` | | theorems about `TaskRegistry`, the quotes of `PricingPolicy` and `Protocol`; instantiates the proofs of the two vaults and of arbitration |
| `Programs_proofs` | | theorems about `Negotiation`, `OpenPosting` and `GraphStore` |
| `MC*` | | values for TLC |

Conventions of the contract modules. A contract's storage is a record (`vault`, `escrowVault`, `ledger`, `tally`,
`cases`, `bondVault`, `v` in `Staking`) whose fields have the names of the Solidity variables. An
external function `f` is a pair: `CanF` is the conjunction of its `require`s and of the checked
subtractions that would revert, `F` the storage it leaves. A vault's own specification lets its
authorised callers call them in any order with any arguments. `TaskRegistry` composes them: a
transaction calls several in sequence, each on the storage the one before it left, and the whole
is one step.

For the endings the guard is written in two parts, `<Tx>Requires` (the registry's own conditions)
and `<Tx>Accepted` (what every callee requires). The transaction needs both; the property
`EndingsNeverRevert` says the first implies the second, so that a revert deep in a callee is a
violation rather than a step silently missing from the model.

Correspondence in `TaskRegistry`: `Post`, `Claim`, `Fund`, `MarkDelivered`, `ReleasePart`,
`Complete` (also a `release` of the whole rest), `Cancel`, `Expire`, `OpenDispute`, and `Settle`
for `ArbitrationModuleV2._settle` with `resolveDispute` inside it, used by `Rule` and
`TimeoutDispute`. `AgentWithdraw`, `GatewayCredit`, `ClaimDepositPayout` and `ClaimEscrowPayout`
are what agents do to the vaults meanwhile, `Tick` is the passing of time. In `TaskRegistry`
arbitration is an outside caller that may settle a disputed task in any way it is allowed to, at
any time; `Protocol` replaces that by the real module.

`Protocol` extends `TaskRegistry` and instantiates `Arbitration`. A call across the two is one
step that conjoins the action of each side: `PartyDisputes` is `OpenDispute` of the registry with
`RegistryOpens` of arbitration, `ArbitratorRules` and `CaseTimesOut` are the actions of those names
with `Settle`. The parties of a case are arguments of `RegistryOpens` and `SomebodyAssigns`: here the
registry's poster and worker of the task, in `Arbitration` alone the constants `PosterOf` and
`WorkerOf`. What only one side does is `RegistryOnly` or `PanelOnly`.

`Staking` stands under the registry's ledger: its property `ImplementsLedger` is the specification
of `ActionCredits` with `bankedCredits`, the slots and `outstandingTaskCredits` read from the real
vault, and the issued credits taken as those that some account has banked. `TaskRegistry` may
therefore use the ledger without any of the accrual arithmetic, with what an account has earned
since its last update as an input.

Conventions of the program modules. A handler is split at its awaits: the step of a handler is the
code from one await to the next, and everybody else acts in between. `handler` (`flow` in
`OpenPosting`, `step` in `GraphStore`) names the await each one stopped at. A call that may fail
is an alternative of the step that makes it (`CallFails`, `Throws`, `Fails`). What a program keeps
in memory is lost by `Crash`; what it has sent stays in `sent`, `pool` or `tx` until the chain
takes or refuses it.

- `LiveWorker`: `Start` and `CaughtUp` are `start()`; `Receive(route, m)` is `handleIncoming`
  up to its first await, with the check and the entry of `seenMessageIds` in one step; `Open`,
  `Read`, `SubmitClaim`, `SeeActive`, `WaitTimesOut`, `SubmitDelivery`, `SendNotice` are the rest
  of the path of a proposal; `Mine` is the chain, where a claim of a task that is no longer posted
  reverts. `RivalClaims`, `PosterFunds`, `TaskEnds` are what others do to the task.
- `Negotiation`: `Dispatch(route, e)` is the transport handing a message to the handlers, once by
  `onValue` and once by the loop; `TakeAcceptance`, `Verify`, `SettleAutomatically`, `CannotSettle` are
  the poster's handlers, and `Accept` is the application calling `accept()` or `approve()` of a decision it
  was handed: verified or not, with or without the opt-in, as often as it likes. `PosterBinds` binds a
  negotiation to any task, also to one on which another worker works (`OtherDelivers`). A
  transaction is put in `pool` after its dry run succeeds, and may revert when it is mined; it remembers
  whether a handler or the application sent it.
- `OpenPosting`: `Click` to `Finish` follow one click through quota check, count, batch, polling,
  lookup, plain post, receipt, scope read, up to `Attempts` publications, and the `finally`.
  `StrangerPosts` takes an id in between; `BatchSettles`, `PlainSettles`, `PublishSettles` are the
  chain, at any time after the sending, also when nobody waits any more.
- `GraphStore`: `Backup` to `UnlinkTmp` are the writes of `saveNow` in their order, each of which
  may be cut short by `Crash` or, within `MaxFaults`, fail; `Start` is `load()` with its choice
  among the files; `SaveDue` the debounce timer and the autosave. A kill may tear the one file the
  present step writes (`Target`), and none if the step would have skipped its write (`SnapshotTakes`,
  `BakTakes`).

### Abstractions

- Amounts are small integers. `AzlUnit` stands for 10^18, USD6 values are small numbers, and the
  price is an input of each transaction that reads it, so it may be different every time. The
  oracle rounds a valuation up in two divisions; the model rounds up once, and only the rounding
  direction matters to the properties. A stale oracle makes a transaction revert, which is a step
  not taken.
- `PolicyQuote` gives the quote at each price, computed by `PricingPolicy` from scaled-down
  targets. That the real targets pass `reserveTask`'s check is a theorem (section 4).
- In `Staking` the scales `ACC`, `CREDIT_ACC` and `CREDIT_UNIT` are constants. TLC uses 2 for each,
  so that every division rounds; the proofs hold for all.
- A transfer moves the exact amount or fails. Which recipients refuse in a transaction is chosen
  freely (`refusing`). Incoming transfers that fail revert, and are steps not taken.
- Left out of the contracts because nothing reads them: hashes, evidence and `submitEvidence`,
  `totalCreditsSpent`, events, the text of a task. `activate` of the registry changes no storage.
- One-shot `configure` functions and the deployment are taken as done. The suite is wired as its
  factory wires it.
- Two pieces of code that cannot run are visible in the model: `assignArbitrator`'s `RULING` branch
  (its window has closed by then; the branch is there and disabled by the guard) and `fund` of an
  ACTIVE task (nothing is left to fund).
- `PayeeClaim` in the deposit vault's own specification lets the treasury claim too. The contract
  allows it; `TreasuryRouterV2` has no function that does it (section 8).
- A message is a record of what the code reads of it, validated already. Signatures, encryption,
  the hash chain and the wording of replies are left out. Polling intervals and time limits are
  not counted: a wait may end in time-out as soon as it has begun.
- A graph is the number of its entities, which is all that `load()` compares, and a version that
  every change raises. A file is absent, corrupt, or holds a graph.

## 3. What TLC checks

| Run | Question | Instance |
|---|---|---|
| `deposit_vault` | Is collateral always covered, do the books balance, can every reservation be settled? | 2 tasks, 2 agents, 2 quotes of one policy, 13 AZL; every set of refusing payees |
| `escrow_vault` | Is every escrow paid out once, in full, and never while frozen? | 2 tasks, 2 agents, 5 AZL, splits of 0, 33, 50 and 100 % |
| `staking` | Are principal, rewards and credits conserved under rounding, and is the vault the ledger the registry assumes? | 2 agents, 1 task, all scales 2, cap of 1 credit, 3 AZL staked, 3 changes of stake, 2 time units |
| `task` | Do registry, vaults, credits and reputation agree, and is every ending accepted? | 1 task of 2 units, 2 agents who may refuse, 2 prices, 1 credit, deposits and withdrawals of 4, 5 time units |
| `task_two` | Do shared deposits and caps hold, and does the registry implement `TaskLifecycle`? | 2 tasks, caps of 3 and 2 USD6, 2 prices |
| `arbitration` | Do bonds, panel and windows hold? | 2 disputes, 3 verifiers, panel of 2 to 3, an owner changing it |
| `protocol` | Do both sides agree on a dispute, can it be ended in all contracts, does every task end? | 1 task, an agent who is also on the panel, a treasury that may refuse, with fairness |
| `live_worker` | Is a message handled once, a delivery announced once, and does every message come to an end? | 1 task, 3 messages by 3 routes, 1 crash or failed call, with fairness |
| `negotiation` | Does the poster settle only its bound task, and by itself only what was delivered? | 2 tasks, one of them another worker's, 2 negotiations, 4 messages dispatched by 2 routes, 3 AZL |
| `graph_store` | Can what was saved be loaded after any kill, and is what changed saved? | 2 entities, 4 versions, 2 faults, 3 ends of the process, with fairness |
| `posting` | Is a shown task the wallet's and listed, a second one only paid blindly, the page always freed? | 2 clicks of one wallet, 1 stranger, 2 attempts to publish |
| `claim_cancel` | A comment of the registry the code refutes | 1 task, 2 prices |

The properties:

- `DepositVault`: `ReservationsBacked` (deposit covers collateral and floor), `FloorOnlyWhileActive`,
  `Solvent`, `BooksBalance` (totals and counters are sums), `SettlementNeverReverts` (a reservation
  can be released or charged either fee, whatever happened since).
- `EscrowVault`: `EscrowSolvent`, `SettledIsEmpty`, `LiabilitiesExact`, `DisputedFundsStay`.
- `Staking`: `StakesBacked`, `RewardsConserved` (what is owed equals what was notified and not paid,
  up to less than a unit for each emission and change of stake), `CreditsConserved` (every issued
  credit is banked, a counted fraction, locked in a task or burned, exactly), `ImplementsLedger`
  (refinement).
- `TaskRegistry`: `EscrowFollowsTask`, `CollateralFollowsTask`, `CreditsFollowTask` (four contracts
  agree), `ExposureWithinCaps`, `EndingsNeverRevert`, `DeliveryNotExpiredForFree`,
  `ChargedOnlyForFault` (a deposit shrinks only by its owner's withdrawal, a fee on entering a task, or
  for its owner's fault: a lost ruling, a claimed task withdrawn or left unfunded, a timely delivery left
  unpaid; and then by no more than the collateral of that task), `ImplementsLifecycle` (refinement).
- `Arbitration`: `BondsCoverCases`, `BondsSolvent`, `NobodyJudgesOwnCase`,
  `WindowsHonoured`, `PanelNotEmptiedByExit`, `BondsTakenOnlyForCause`.
- `Protocol`: `DisputeFollowsTask`, `DisputesCanEnd`, `EveryTaskEnds`.
- `LiveWorker`: `HandledOncePerRun`, `OneNoticePerDelivery`, `EveryMessageEnds`.
- `Negotiation`: `PaysBoundTaskOnly`, `SettlesOnlyDelivered` (of what a handler settles by itself; an
  application that accepts an unverified notice pays for what it decided to pay for).
- `GraphStore`: `SavedIsLoadable`, `ChangesGetSaved`.
- `OpenPosting`: `ShownTaskIsListed`, `PostedTwiceOnlyBlind`, `BusyIsFreed`.

Each property has a mutant of a definition it depends on (in `PROJECT.json`), a bug the code could
have had, which the run refutes. They stand beside the definitions they change, marked *Mutant*.

Bounds, and why they are enough:

- *Two agents and two tasks.* Interactions are pairwise: poster and worker, a task and another
  that shares a deposit or a cap. With two agents, each may be poster of one task and worker of
  the other.
- *Two quotes, one twice the other*, so that a floor latched for one task differs from the quote of
  the next in both orders. 13 AZL lets an agent reserve at both prices and pay every fee.
- *A task of two units* can be half funded and half released, where the roundings bite.
- *Caps.* In `task` the caps leave room. In `task_two` the global cap is 3 and the per-poster
  share 70 % (2 of 3), so either may bind first; with the code's 20 % the global cap would need
  five posters to be reached.
- *Scales of 2 in `staking`*, rewards of 3 over a duration of 2, stakes of 1 to 3 and 3 units of
  stake times time for a credit: no division comes out even, and the cap of one credit is reached
  within the two time units.
- *Time* is a counter to `MaxTime`. Windows are one or two units, different where the code needs
  them to be (dispute window shorter than the delivery grace), and `MaxTime` leaves room for the
  last of them after the latest deadline, including evidence and ruling windows where disputes
  are timed (`RegistryOpens` and `PartyDisputes` bound the opening for that reason).
- *Three verifiers*, two on the panel at the start: one may be a party, one busy, one added late.
- *One task in `live_worker`*: a second only doubles what the worker does, for handlers meet at a
  task. Three messages let two be handled and a third arrive, one of them a greeting as well; one
  fault is a crash or a failed call at any await.
- *Two negotiations and two tasks in `negotiation`* let a message of one name the task of the
  other; the second task belongs to another worker. The four messages are an acceptance and a
  delivery notice about the first task in one negotiation, and in the other a payment in part for that
  same task and one in full for the second, which the poster may have bound to either.
- *Two faults and three ends in `graph_store`*: `SavedIsLoadable` speaks of one fault, the second
  lets `ChangesGetSaved` meet a save that fails after another; a process may end, start from what it
  left, end again within the next save, and start once more.
- *Two clicks and one stranger in `posting`* let the predicted id go to the stranger or to the other
  click, before or after the batch was given up.
- Symmetry is used for safety runs only, over values that start alike; a run with a liveness
  property has none.
- `CHECK_DEADLOCK FALSE` is set where the system stops: when every task is over and the bounded
  clock has run out, or every message is handled, nothing is left to do. The two vaults alone run
  with deadlock checking.
- `MaxBalance`, `MaxEscrowBalance`, `MaxDeposit`, `MaxBonded`, `MaxPanel`, `MaxVaultBalance`,
  `MaxDeadline`, `MaxStaked`, `MaxRestakes`, `MaxLiability`, `MaxSurplus`, `MaxTime`, `MaxFaults`,
  `MaxRestarts`, `MaxVersion`, `MaxEntities` and `MaxStrangers` are bounds of the check, not of the
  code.

Fairness:

- `FairProtocolSpec`: weak fairness of the clock, of `expire` for each task and of
  `timeout` for each dispute, and of nothing else. Both functions are open to everybody, and a party
  always wants one of them: its own collateral stays reserved until the task ends. No poster, worker,
  arbitrator or payee is assumed to act. `EveryTaskEnds` depends on `EndingsNeverRevert` and
  `DisputesCanEnd`: weak fairness of `expire` is worth something only because its callees accept.
- `LiveWorker`: weak fairness of starting the service when it is down (its supervisor), of the end of
  the catch-up, of the poll of each message (it runs every three seconds over all conversations), of
  the handler of each message (the event loop resumes it) and of mining. Peers, posters and rivals owe
  nothing: `EveryMessageEnds` holds for a task nobody ever funds because the wait has a limit.
- `GraphStore`: weak fairness of the save timers and of each step of a save, which is synchronous
  code. Nobody has to change the graph, close it or start it again; `ChangesGetSaved` therefore
  allows the process to end first.

## 4. What is proved

Eight modules hold proofs. The statements are for every value of the constants, within the named
assumptions, which every run evaluates. Accounts, tasks and verifiers are finite sets, as they are on
a chain; the invariants that are sums need it. The bounds of the models (section 3) occur in guards
only: the proofs use that they are natural numbers, and hold for every one of them.

**Sums.** `SumTheorems` states what the rest needs of `SumFunction` and `SumFunctionOnSet`: a sum of
naturals is natural, changing one summand by `d` changes the sum by `d` (`TotalChange`), a summand is
at most the sum, the sum of a constant. The library's induction theorem for finite sets cannot be
instantiated by the provers used, so they are proved from a least counterexample: among the subsets of a finite set for
which a fact fails there is one of least cardinality, and it has an element to take away
(`SubsetInduction`, stated for a set of subsets, not for an operator).

`DepositVault_proofs` (`VaultAssumption`: the treasury is no agent, quotes are records of naturals
and charge for leaving):

| Theorem | Statement |
|---|---|
| `VaultSound` | `Spec => []IInv`, where `IInv` is `Sound(vault, 0)`, the inductive invariant |
| `VaultTypeCorrect` | `Spec => []TypeOK` |
| `VaultBacked` | `Spec => []ReservationsBacked` |
| `VaultFloors` | `Spec => []FloorOnlyWhileActive` |
| `VaultSolvent` | `Spec => []Solvent` |
| `VaultBooksKept` | `Spec => [](IInv /\ BooksInv)`, the invariant with the sums |
| `VaultBooks` | `Spec => []BooksBalance` |
| `VaultSettles` | `Spec => []SettlementNeverReverts` |

`reserveTask` checks of a quote what `Sound` needs. `Sound(v, m)` says that
`v` has its type, every deposit covers collateral plus floor, a floor is positive exactly while its
account has a live reservation, and the balance exceeds the liabilities by at least `m`. None of the
four is inductive alone. That a fee leaves the deposit above the collateral needs the reservation to
be released first *and* the fee to be at most what it held. That a floor is dropped with the last
reservation needs the counter. That a deposit stays a natural number (`TypeOK`) needs the checks in
`CanDebit`; solvency needs the type of the payouts. The parameter `m` carries an amount that has left
the deposits and not yet been paid: an exit fee is debited once (`m` becomes compensation plus share)
and paid in two parts, each of which may be deferred. The lemmas follow the operators: `PayFacts`,
`DebitFacts` and `ReleaseFacts` say what a step does to each field; `PaySound`, `ReleaseSound` and
`ChargeSound` that it keeps `Sound`; the inductive step has one case for each action.

`Books` adds the sums: totals of deposits, payouts and collateral (`DepositBooks`, `PayoutBooks`,
`CollateralBooks`, the last with the number of live reservations of each account), that the fees
latched with a reservation fit into it (`FeesFit`), and that a quote in use charges for leaving
(`QuotesCharge`). `SettlementNeverReverts` follows from both halves: the subtractions of a release are
covered because a summand is at most its sum, those of a fee because the fee fits the reservation
and the reservation the deposit.

`EscrowVault_proofs` (`EscrowAssumption`: the zero address is no account, a ruling awards at most
10000 basis points):

| Theorem | Statement |
|---|---|
| `EscrowSound` | `Spec => []IInv`, the inductive invariant |
| `EscrowTypeCorrect` | `Spec => []TypeOK` |
| `EscrowSolvency` | `Spec => []EscrowSolvent` |
| `EscrowLiabilitiesExact` | `Spec => []LiabilitiesExact` |
| `EscrowSettledIsEmpty` | `Spec => []SettledIsEmpty` |
| `EscrowDisputedFundsStay` | `Spec => DisputedFundsStay`, an action property |

The invariant adds to the checked properties that an escrow that exists names two parties: without it
a payment could go to the zero address, for which the vault keeps no account, and the type would be
lost. `m` is, as above, what has left an escrow and has not been paid yet; `PaySound` says a payment
uses up exactly its part and touches no escrow, so a step moves escrows as its one change does
(`WithMoves`), and `ShareWithin` that the worker's rounded share never exceeds what is left. The
liabilities are the sum of what the escrows hold and what is owed, plus `m`.

`Protocol_proofs`, the registry (`RegistryAssumption`: quotes of naturals that charge for leaving, a dispute
grace shorter than the delivery grace, a cap of one task at most the global one):

| Theorem | Statement |
|---|---|
| `RegistryKept` | `Spec => []RegistryInv`, the inductive invariant |
| `RegistryTypeCorrect` | `Spec => []TypeOK` |
| `EscrowFollows` | `Spec => []EscrowFollowsTask` |
| `CollateralFollows` | `Spec => []CollateralFollowsTask` |
| `CreditsFollow` | `Spec => []CreditsFollowTask` |
| `ExposureCapped` | `Spec => []ExposureWithinCaps` |
| `EndingsAccepted` | `Spec => []EndingsNeverRevert` |
| `ChargedForFaultOnly` | `Spec => ChargedOnlyForFault`, an action property |
| `NoFreeExpiry` | `Spec => DeliveryNotExpiredForFree`, an action property |
| `RegistryImplements` | `Spec => ImplementsLifecycle`: every step is a step of `TaskLifecycle` or a stutter |
| `QuoteReservable`, `MarketsReservable` | see below |

`RegistryInv` has six parts. The two vaults are in order (`KeptDeposits`, `KeptEscrows`: the
invariants above), the ledger counts one outstanding credit for each payer it remembers
(`KeptLedger`), the running totals are the sums of the open amounts, within the caps (`Exposure`),
and every task is linked to what the contracts hold of it (`LinkedAt`): its record is sound by itself
(`SoundTask`: a party exists when the state says so, nothing is delivered before it is claimed, what
is over has no open amount and no credit), its escrow exists from the claim on with the same amounts
and parties (`EscrowLink`), collateral is reserved exactly for the parties of a live task
(`CollateralLink`), a credit slot is held by the party whose flag is set (`CreditLink`), and an outcome is recorded of
ended tasks only (`RecordLink`). Why all of it at once: that `complete` is accepted needs the
escrow to hold what the registry thinks, the reservation to exist, and the credit to be counted; that
they do is what the *earlier* transactions of the same task left, so none of the three properties is
inductive without the others, and the exposure totals can be subtracted only because they are sums.

The proof does not repeat the vaults' arguments. `DP` and `EP` are the proof modules of the vaults,
instantiated with the registry's constants; `VaultConstants` and `EscrowConstants` prove their
assumptions, the `Same...` lemmas that an operator seen through `DP` is the one the registry calls, and
one lemma per call (`SettleEscrowStep`, `ExitFeeStep`, ...) gives its guard, its invariant and what it
changes. A transaction then has one lemma (`PostKept`, `ClaimKept`, ..., `SettleKept`), which says that the
invariant is kept, that one task moves and how far (`OnlyTask`, `Progress`). The action properties and the
refinement reuse those lemmas. `ChargedForFaultOnly` goes through every transaction that touches a deposit:
`PostCharges`, `ClaimCharges`, `EndingCharges` and `AccountCharges` name who pays and why, and that the
charge of an ending is within the collateral is what `CanDebitAccessFee` and `CanDebitExitFee`
require of a reservation that `CollateralLink` says is there. `EndingsAccepted` shows `<Tx>Accepted` from `<Tx>Requires`
call by call, on the storage the call before it left.

`ScaleFacts` bounds a scaled target of the pricing policy between the exact quotient and one more.
Three roundings could break `compensation + share <= reserve`; `QuoteReservable` proves that they do
not if the difference of the targets is worth one unit of AZL, at every price, and `MarketsReservable`
that the standard targets of the contract meet this at every price and those of the micro market as
soon as a dollar buys two units (10^-18 AZL each).

`Protocol_proofs`, the market (`ProtocolAssumption` besides: the assumption of arbitration, of the
constants `Protocol` gives it, and a starting bond that is natural):

| Theorem | Statement |
|---|---|
| `ProtocolSound` | `ProtocolSpec => []ProtocolInv`, the joint inductive invariant |
| `JointDisputes` | `ProtocolSpec => []DisputeFollowsTask` |
| `JointEndings` | `ProtocolSpec => []DisputesCanEnd` |
| `JointImplements` | `ProtocolSpec => Spec`: the market implements the registry with arbitration left open |
| `JointRegistry` | `EscrowFollowsTask`, `CollateralFollowsTask`, `EndingsNeverRevert` and `ImplementsLifecycle` of the market |
| `JointArbitration` | `BondsCoverCases`, `BondsSolvent`, `WindowsHonoured`, `BondsTakenOnlyForCause` and `PanelNotEmptiedByExit` of the market |

Every step of `Protocol` is a step of `TaskRegistry` or leaves it alone (`RegistrySteps`), and a step of
`Arbitration` or leaves that alone (`PanelSteps`). So the two invariants carry over as they are. For
that, `Arbitration_proofs` is stated of `Step`: the transactions of arbitration with any two
parties whatever, of which both `Arbitration.Next` and the joined market are instances.
`AP` is that module with the market's constants; as for the vaults, `Same...` lemmas identify the
operators. What the market uses of it is collected there in `PanelLaws`: what each call about a case
does, that an expired case can be timed out, and that a step keeps `Inv` and `Totalled`.

What belongs to neither side is `AllAgree`: a dispute is open exactly when its task is in dispute, settled
exactly when it is resolved, with the same outcome; no party is the arbitrator; and nobody is
before a dispute exists. The last conjunct is not in `DisputeFollowsTask`, and makes it
inductive: a task that is not in dispute may still change its parties, by a post or a claim, and the
arbitrator of its case must not become one. `UndisputedCalm` shows that no transaction of the
parties enters or leaves DISPUTED and RESOLVED, `SettledAgrees` that a settlement moves both sides to
the same outcome in one step. `JointEndings` then needs all three parts: the callees of a
settlement accept by `RegistryInv` (`RulingAlways`), the bond can be released or slashed by
`AP!Inv` and `Totalled` (a verifier with an open case has an assignment, and its bond is within the
total), and `AllAgree` connects the open case to the disputed task.

`Staking_proofs` (`StakingAssumption`: positive scales, a cap of whole credits):

| Theorem | Statement |
|---|---|
| `StakingSound` | `Spec => []Inv`, the inductive invariant |
| `StakingBacked` | `Spec => []StakesBacked` |
| `StakingConserves` | `Spec => []Conserved`, the invariant with the balances |
| `StakingRewardsConserved` | `Spec => []RewardsConserved` |
| `StakingCreditsConserved` | `Spec => []CreditsConserved` |
| `StakingImplementsLedger` | `Spec => ImplementsLedger`: every transaction is a step of `ActionCredits` or a stutter |

`Inv` is `now \in Nat`, `Good(v)` and `StakesBacked`, where `Good` says that every field is natural,
that what an account has settled (`rewardDebt`, `creditDebt`) is not ahead of what its stake has
earned, that no emission is later than the clock, and that issued credits respect the cap. Each
checked subtraction of the contract is covered by one of them: `RewardShare` only grows, so the
difference of an account's share and its debt is natural; a partial exit sets the debt to the smaller
share; the liability falls only by what an account had accrued, and by no more than it is.

`Conserved` adds `Books(v, n)`. `RewardBalance` says that what is owed, scaled (accrued, pending,
scheduled and undistributed rewards, and what each stake has earned since its last update), differs from
the recorded liability by less than one unit for each emission and each change of a stake, the two
operations that round. `CreditBalance` is exact: issued credits are banked, outstanding, burned, or
counted fractions, and `n` of them in transit, for a settlement takes a credit out of its slot before
it is banked or burned. Both need the total stake to be the sum of the stakes, rewards to be
accounted for up to the present at most, and none scheduled before staking is active (`Kept`).

The refinement rests on the exact half. The ledger's `issued` is the number of credits that some account
has ever banked: those banked now, in slots, and burned (`Banked`). `CreditBalance` bounds it by the cap, since the
rest is fractions (`BankedWithinCap`). An update of one or two accounts banks what is the difference of
their balances (`Earned`), which is the ledger's own update with that as its input (`BankedIsUpdate`);
a spend or a settlement updates first and then does to the slots what the ledger does
(`SpendSteps`, `SettleSteps`); everything else is at most an update (`AccountSteps`, `OtherSteps`).

`Arbitration_proofs` (`ArbitrationAssumption`: finitely many tasks and verifiers, positive windows, bond and
cooldown, a slash of at most the whole bond, a starting panel without repetition):

| Theorem | Statement |
|---|---|
| `ArbitrationSound` | `Spec => []Inv`, the inductive invariant |
| `ArbitrationBondsCover` | `Spec => []BondsCoverCases` |
| `ArbitrationBondsSolvent` | `Spec => []BondsSolvent` |
| `ArbitrationImpartial` | `Spec => []NobodyJudgesOwnCase` |
| `ArbitrationWindows` | `Spec => WindowsHonoured`, an action property |
| `ArbitrationBondsForCause` | `Spec => BondsTakenOnlyForCause`, an action property |
| `ArbitrationPanelStays` | `Spec => PanelNotEmptiedByExit`, an action property |

`Inv` joins the types of the fields, a vault that can pay bonds and owed slashes, cover of open
cases, impartiality, and deadlines in order. Cover is inductive only with the cardinality of a
verifier's open cases: opening and assigning add one case to one verifier, ruling and timing out take
one away, and nothing else changes the set. The round robin returns an eligible stranger or nobody
because the cursor is a position of a panel without repetition. `BondsSolvent` adds that the recorded
total is the sum of the bonds (`Totalled`). The action properties rest on `Inv`
and one lemma per action. For the windows: an open case's cutoff is its evidence deadline plus the
ruling window (`CutoffFixed`), so no action that starts a phase can move it. For the panel: the slash
of one case is at most what was reserved for it, so a verifier that was eligible before a timeout is
eligible after it, and a withdrawal passes the exit guard, which counts the eligible members without
the one that leaves.

`LiveWorker_proofs` (`SubjectAssumption`, `PingAssumption`, `FaultAssumption`: types of the
constants): `WorkerSound` proves the invariant, `WorkerHandlesOnce` and `WorkerNotifiesOnce` the two
safety properties, for any tasks, messages and number of faults. `Entered` (a handler runs only for a
seen message) makes `HandledOncePerRun` inductive. For notices: `Awaited` ties each handler waiting for
a transaction to that transaction, `ClaimWon` says a handler past its claim works on a task the
registry gave this worker, `OneHolder` that a claim is with one handler or with one unmined
transaction or nowhere, and `NoticeDue` counts: a notice sent or about to be sent, for a delivered
task, is at most one. A crash drops handlers but not transactions, which is why the claim must be
tracked through both.

`Programs_proofs` holds the other three programs.

- The negotiation (types of the constants; a task's funding is positive): `NegotiationSound`,
  `NegotiationPaysBound`, `NegotiationSettlesDelivered`. `BindingsMatch` says that the two maps are
  inverse to each other; `HandlersBound` and `SettlingDelivered` that a handler past its checks works
  on a bound task of the two parties, and on a delivered one, with the opt-in, if it is about to settle by
  itself. They survive the awaits, and the application's decisions after them, because bindings and
  deliveries are never undone (`Lasts`).
- The posting page (`PostingAssumption`): `PostingSound`, `PostingShowsListed`,
  `PostingTwiceOnlyBlind`, `PostingBusyIsFreed`. `Sound(f)` is said of each flow: the tasks it created
  are those its landed transactions posted (`Counted`), the plain transaction is sent after the batch
  was seen to fail or was given up blindly (`SentInOrder`), and the id it knows is a task of its wallet
  (`KnownTasks`). What the rest of the world does preserves it because tasks are only appended and a
  scope once published stays (`Grows`, `Stable`). `BusyIsFreed` is inductive alone.
- The graph store (`StoreAssumption`: bounds are natural): `StoreSound` and `StoreLoadsSaved`
  (`StoreSpec => []SavedIsLoadable`), for any number of saves and kills. `MemoryLeads` says that no file
  holds more entities than the memory, and the memory nothing less than what was saved; `Progressed`
  what a save has already written at each of its steps, and that the direct write is reached only after
  a failure; `LargerIsNewer` that a file with more entities than were saved is not older than what was
  saved, nor a snapshot with as many; `MainOrBak` that main holds what was saved, or was cut short by
  the direct write that follows the one refused rename, when `.bak` holds it. `.bak` is overwritten only
  from a readable main, and main is otherwise replaced by a rename; both are lost together only with a
  second failure.

## 5. What is only model-checked

Liveness: `EveryTaskEnds`, `EveryMessageEnds`, `ChangesGetSaved`. Fairness and ENABLED are beyond the
provers used. `JointEndings` is the safety half of the first: what the fair actions need of their
callees is always granted.

Every other property of a passing run is a theorem of section 4.

## 6. Plan

Done: vaults, ledger and registry; arbitration and its composition with the registry; the staking
vault under the ledger; quotes; the worker, the negotiation, the posting page and the graph store; the
proofs of section 4.

Left, in order of importance:

1. A treasury module: fees from the deposit vault to the router, revenue and distribution, joined to
   `Staking.NotifyReward`.
2. The observation oracle: observations, epochs, gaps and `consult`; it never averages across a gap.
3. The payment gateway: pause, limits and the execution guard around an arbitrary executor.
4. The crowdfund: a Safe whose members pool AZL to post one task.

## 7. Not modelled, and why

- Oracles, the gateway's guards, the treasury's distribution and crowdfunding: planned, as above. A price
  is an input that may be different in every transaction, which covers what an oracle may answer.
- The posting quota service: every change reads a whole JSON file, edits it and writes it back, with no
  lock. Two overlapping requests lose one update, whatever the order of the rest, so no property about
  concurrent requests holds that would not be about the file system.
- Swap executors, factories and ownership transfer: stateless, one-time or independent.
- Gas, reentrancy through a malicious token, and the ERC-20 itself: AZL is a standard token, and the
  contracts that receive calls are the suite's own.
- The rest of the programs: SDK, MCP server and gateways, read API, site, templates and build scripts
  build transactions or show the chain and keep no protocol state; the arbitrator agent sends
  transactions `Arbitration` allows anybody; chain watchers call back and keep a cursor. The
  orchestration of the outreach engine depends on external services and a language model for its every
  decision; its store is modelled.
- Of modelled components: the worker's answers to greetings, its group joining and its wake-up
  endpoint; envelope validation and the correlation index of messaging; private posts of the page; queries
  and the content of entities in the graph store. None of them reads or changes the state the
  properties are about.
- Two limits that do bear on them: a poll reads the last 50 messages of a conversation and the catch-up
  the last 100 (`live-worker.ts:609`, 498), and an older message that no route delivered is never handled;
  `EveryMessageEnds` speaks of messages that were taken. And every read of the page is current in the
  model: a fallback RPC that lags behind (`azzle-chain.js:1401-1420`) could hide a landed batch from the
  lookup, which the page would not notice and `PostedTwiceOnlyBlind` does not count.
- The retired contracts under `archive/`.

## 8. Where code and documentation differ, and hazards no property covers

One statement of the repository is refuted by a run:

- `claim_cancel`: cancelling a claimed task charges the poster's access fee depending on whether the
  *worker* used an Action Credit (`TaskRegistryV2.sol:350`); the comment at 338 says "unless poster
  used Action Credit". A poster who paid with a credit loses the credit and the fee.

Others were met in the contracts and have no run:

- A credit settled to the zero address leaves circulation for good (`UnionStakingVaultV2.sol:272`),
  where `docs/V2_SOURCE_OF_TRUTH.md:37` and the comment at `TaskRegistryV2.sol:530` say it returns to the pool.
- A dispute still unassigned when its evidence window closes cannot be assigned any more
  (`ArbitrationModuleV2.sol:230`); `docs/V2_SOURCE_OF_TRUTH.md:51` says it can, within the fixed
  resolution horizon. Such a dispute can only time out.
- `addPanelMember` works while a dispute waits for an arbitrator, and the added member may be the one
  it gets (`ArbitrationModuleV2.sol:150`); the comment at 77 says no owner can pick one.
- After SPLIT and MUTUAL the poster's credit goes to nobody (`TaskRegistryV2.sol:489`), where the
  comment at 456 says it may go to the worker.
- `post` checks the global ceilings only (`TaskRegistryV2.sol:225`), where
  `docs/V2_SOURCE_OF_TRUTH.md:33` adds the per-poster cap, so a task can be posted and claimed that its
  poster can never fund.
- `expire` also waits for the deadline (`TaskRegistryV2.sol:376`), where `docs/FAILURE_MODES.md:6` says a
  delivered task can be expired after the grace.
- The reward liability is treated as covering everything owed (`contracts/src/audit/audit_.md:1517`), but each emission and
  each change of a stake may round in the stakers' favour by less than one unit. `RewardsConserved`
  states the exact bound; the last claim of all may revert for want of a unit.
- A fee deferred to the treasury stays in the deposit vault: its `claimPayout` pays only its caller, and
  `TreasuryRouterV2` has no function that calls it (`claimBondSlashPayout` at line 103 claims from the
  bond vault).
- With the micro market's targets, at a price of one unit of AZL to the dollar, the reserve rounds to 1
  and the two exit shares to 1 each: `reserveTask` would revert. `MarketsReservable` gives the price from
  which it does not; real prices are far above.

In the programs:

- When funding comes after the worker's wait has ended, its error asks for the proposal again
  (`live-worker.ts:909-910`), but a proposal for a task that is no longer POSTED is ignored (767). The
  task stays claimed and is never delivered.
- Messages of one stream are dispatched without waiting (`transport.ts:193-199`), and nothing remembers
  a handled payment request (`handlers.ts:655`): one that arrives twice releases its part twice, up to
  what is escrowed.
- `xmtp-spec/README.md:51` and 69 say that AcceptDelivery is sent after `complete`; `handlers.ts:464`
  sends it when the transaction has been broadcast, and it may still revert.
- A delivery notice that arrives before `markDelivered` is mined is offered to the application even
  with automatic acceptance, and not looked at again when the delivery is on chain. An application that
  accepts it, or any unverified request, broadcasts the settlement (`handlers.ts:622`, 665): nothing but its
  own decision stands between an undelivered task and its payment.
- The hash chain of messages (`ENCRYPTION.md:32-35`) takes the hash of the previous one; two overlapping
  sends name the same predecessor.
- `SavedIsLoadable` holds with at most one write or rename that fails, whatever the number of kills.
  With two it does not: a refused copy to `.bak` (`store.ts:294`) leaves that file cut short, and a
  refused rename makes the same save write `main` directly (303), which a kill or the failure cuts short
  too; only an older snapshot is left. A graph without entities is never loaded.
- Two processes on one store directory each write the graph they hold, and the later save drops the
  other's entities, although the comment at `store.ts:267` says the count never regresses on disk.
- A batch given up after a minute, or whose lookup failed, may land after the plain transaction: two
  tasks and two access fees for one click. `PostedTwiceOnlyBlind` says that this is the only way.
- A second click passes the test of `checkoutBusy` while the first waits for the quotas, and the
  `finally` of one flow frees the page while the other still runs. The market may be switched between
  check, post and record of one flow.
- `payUpgrade` throws in every case (`azzle-chain.js:2115`); `site/post-checkout.js:1934` still calls it.
- In outreach: the follow-up cadence takes any message of the whole history for a pending one; the
  writer's list of states to skip lacks "replied"; a messenger restarted between sending and saving
  sends again (`docs/AZZLE_FORCE.md:289`), and so does a crash within the two seconds a save is delayed.
