# Stock Profiler: a TLA+ verification project

Stock Profiler runs *frozen decision cases*: a request freezes its evidence
into a snapshot, an agent Run (the external M-Agent library) produces a
result, deterministic code validates the result, the decision is committed as
an immutable event, and a formal report is published from that event. Users
read reports, get reminders, append facts and ask for follow-up cases
(confirmation, allocation, execution, monitoring). All state is in one SQLite
ledger, except the Runs, which live in the M-Agent store. The two stores share
no transaction.

This directory holds TLA+ modules translated from that code, TLC runs over
small instances, and TLAPS proofs for every value of the constants.
`PROJECT.json` maps each definition to its source lines.

Paths below are relative to `src/src/stock_profiler/`; documents are under
`src/docs/`.

## 1. The system and its modules

A pattern repeats throughout the code. Nothing is updated: a command is
adjudicated against the retained history inside the `BEGIN IMMEDIATE`
transaction that appends its outcome, and what is true *now* (an open claim, a
current qualification, a standing release) is computed again from the history
each time. What a command carries was frozen earlier, so it may be older than
the history it meets. The modules follow this: an append is one action, its
inputs range over stale values too, and the derived notions are operators. Only
where the code spreads one request over several transactions
(`DecisionJourney`, `ResearchJourney`, `WorkspaceCommands`, migrations) does a
module cut it into steps.

| Component | State | Operations | What is hard | Module |
|---|---|---|---|---|
| Decision journey, `modules/decision_cases/service.py` | none of its own; drives the two stores | run, replay, correct, notify | two stores, several processes, commits that fail, are lost or succeed unheard | `DecisionJourney`, `FormalRecord` |
| Decision ledger, `adapters/persistence/decision_ledger.py` | mappings, stage rows, events, reports, attempts | commit, publish, reconcile, history readers | transactions that commit in the middle; reads outside the write lock | `DecisionJourney`; readers in every module |
| M-Agent Run adapter, `adapters/m_agent` | Runs and leases (external) | create, resume, converge, adopt | a dead owner's lease; lost Runs | `DecisionJourney`, `ResearchJourney` |
| Candidate release gate, `modules/candidate_selection/calibrated_candidates.py` | frozen release, window, qualification | freeze, finalise, publish | the clock passes the window between two checks | `DecisionJourney` |
| Research and risk, `modules/research` and the service | member Runs, raw scores, risk Run | run one cohort | a crash between Runs; one risk verdict for exactly one cohort | `ResearchJourney` |
| Confirmation, allocation, execution, `modules/decision_cases/candidate_*.py` | claims on cash and issuers, derived | replan, submit, withdraw, declare, reconcile | stale plans; uncertain commits | `CandidateCommitments` |
| Qualification governance, `modules/qualification` | qualification lineages, handoffs, frozen tasks | grant, alert, check, suspend, revoke, restore, requalify, activate, freeze, use | long sequences; aliases of one version; two expiry clocks | `QualificationGovernance` |
| Capital epochs, `modules/portfolio/drawdown*.py` | units, peak, risk state, epoch | open, observe, close, reauthorize | flows interleaved with market moves; recovery and cooling counts | `DrawdownEpochs` |
| Authorization and stress, `modules/portfolio/service.py`, `stress.py` | authorizations, stress obligations | confirm, use, assess | knowledge cutoffs that hide later history | `PortfolioProtection` |
| Position management, `modules/position_management` | retained snapshots | reconcile | a feed that omits, repeats or alters; cutoffs out of order | `PositionSnapshots` |
| Monitoring, `modules/decision_cases/monitoring*.py`, `modules/delivery/monitoring_*.py` | assessments and their review cases | plan, act, assess, correct, notify, report, confirm | targets handed from assessment to assessment; two readers that select differently | `MonitoringCases` |
| Candidate workspace, `modules/delivery/candidate_*.py` | reminder attempts | show, remind | answers lost by a channel; withdrawals | `CandidateReminders` |
| Workspace commands, `modules/delivery/candidate_commands.py`, `bootstrap/candidate_workspace.py` | registered cases | resolve, register, decide, answer | repeated, concurrent and interrupted requests | `WorkspaceCommands` |
| Migrations, `src/migrations`, `adapters/persistence/runtime_ownership.py` | tables, revision | 0003 to 0007, both ways | SQLite keeps DDL of an interrupted migration | `SchemaMigrations` |

How they interact: every case is committed and published the way
`DecisionJourney` describes; the other modules take a commit as one step, or as
a step with a lost acknowledgement where their code handles it
(`CandidateCommitments`). The qualification `DecisionJourney` and
`CandidateReminders` see as a status is the head that
`QualificationGovernance` computes. `WorkspaceCommands` extends
`CandidateReminders`: commands act on releases while they are corrected,
disqualified and reminded of. The stress obligations of `PortfolioProtection`
reach `MonitoringCases` as risk handoffs.

Hazards are listed with their lines and properties in `PROJECT.json`.

## 2. Runs

| Run | Instance | Properties |
|---|---|---|
| `journey_commit` | two processes, one object; run, correct, notify; unheard and lost commits, crashes, a lost Run store | `TypeOK`, `VisibleIsCommitted`, `EvidenceRestored`, `AnswersAreTrue`, `EventsAreFinal`, `RefinesFormalRecord` |
| `journey_release` | two processes, one release with a legacy Run, two payloads; run and replay; crashes, refused inserts | `PublishedInsideGate` |
| `journey_live` | fair workers, crashes, orphaned leases, lost commits, refused inserts | `EveryRequestReturns`, `PublicationIsDecided` |
| `journey_release_race` | two processes, one release | violates `PublishedIsPreserved` (section 16) |
| `commitments` | three cases: one plan with everything that can end a claim; one order over successive executions; two releases competing for cash under uncertain commits | `ClaimsLeaveByProof`, `CommittedInsideWindow`, `ConfirmedIsCovered`, `UncertainBlocks` |
| `qualification` | two cases: every qualification command over one lineage with a redefined policy; two aliases with activations, frozen tasks and uses | `TypeOK`, `OneLineage`, `AuthorityIsEarned`, `UseIsQualified` |
| `research` | two processes, a cohort of two, four commands; crashes, refused commits, lost Runs | `TypeOK`, `EvidenceIsWhole`, `RunNotReplaced`, `OnlyOwnRunBlocks` |
| `drawdown` | four horizons: transfers of cash and in kind; transfers between two accounts; a fall and a recovery; trades around closing and cooling | `UnitsAreFair`, `RecoveryIsEarned`, `CoolingIsIdle` |
| `obligations` | `PortfolioProtection` and `MonitoringCases` side by side | `ExposureIsCurrent`, `ObligationsAreKept`, `RelaxedWhenRestored`, `TargetsAreKept`, `ReviewsAreSound` |
| `positions` | six cases: wrong feeds of every kind, two accounts and two views, a purchase, a sale and a correction of the purchase | `BooksAgree`, `TruthReconciles`, `PublishedIsSupported` |
| `migrations` | two legacy events, two more; up to two interrupted migrations at a time | `NothingIsLost`, `LedgerIsWhole`, `RetriesSucceed` |
| `workspace` | eleven cases: withdrawals, routing, a month's two scopes, commands | `RemindersAreSound`, `WithdrawalIsLasting`, `CommandsHappenOnce`, `RetriesResume`, `EntryIsCurrent` |

**Bounds.** Histories grow without limit in the program; each module caps them
by named bounds. Where one set of bounds for every question would be too large
or too small, the module has a constant `Cases` (`Horizons` in
`DrawdownEpochs`): a set of records of bounds, of which a behaviour picks one at
the start (`within`, `bound`, `account.horizon`) and keeps it. One run then
checks every property under every case. `MCObligations` runs two modules that
share no variable in one state space in the same way: a behaviour is about one
of them, chosen by `half`, and leaves the other at its start. The sections say
why the bounds are enough.

`CHECK_DEADLOCK FALSE` stands where the bounds let a behaviour end: when the
histories are full nothing obliges a user to act. It is on for the journey (an
idle worker can always submit) and the migrations (one can always be started).

**Fairness** is assumed in two modules, of host threads only: `WF(Step(w))` in
`DecisionJourney` and `WF(HostStep(w))` in `ResearchJourney`. Threads are
scheduled, SQLite's busy timeout bounds the wait for the write lock, and the
convergence loop has a deadline. A thread that drives a Run waits for no model
outside the process: the adapter admits the deterministic model only
(`frozen_decision_case.py:2186-2202`). Nothing is assumed of submissions,
crashes, lease expiry, the clock or governance.

## 3. DecisionJourney

| Variable | Code |
|---|---|
| `mapping` | `decision_case_business_objects`: frozen payload and whether the mapping was saved by a recovery |
| `stage` | `decision_stage_events` without an event id; a set of tags, one per kind of row |
| `event` | `decision_events`, an original and at most one correction per object; author, payload, disposition and the stage trail it was decided on |
| `evStage` | `decision_stage_events` with an event id |
| `report`, `attempts` | `formal_reports`, `decision_notification_attempts` |
| `run`, `output`, `lease` | the M-Agent store (external), as the adapter uses it |
| `windowOpen`, `qual` | the release's five-session window and its qualification now |
| `job` | per worker: program counter and the local variables that survive from one transaction to the next |

A *worker* is a thread; `ProcessOf` says in which process it lives, because the
lock `_serialize_local_framework_execution` is per process (`LockFree`). Object
kinds select the code's branches: `plain`; `saved` (the mapping's payload
replaces the request's); `release` (a candidate release with a gate); `keyed`
(an idempotency key whose payload is compared); `shadow` (committed, never a
user report). The runs use `plain` and `release`; the theorems hold for every
`KindOf`.

Each `with ledger.serialize_case_execution()` block is a `BEGIN IMMEDIATE`
transaction and is one action. Where the block commits and begins again
(`commit_event`, `publish_report`, `reconcile_*`,
`discard_unconfirmed_publication`) it is cut there. Calls to the M-Agent store
are actions of their own. So one request is at most this path:

    validate -> lookup -> adopt -> persist -> check -> enter
      -> probe -> create/observe -> resume -> drive -> ran (or converge)
      -> commit -> [verify -> settle] -> publish -> [verifyReport] -> confirm
                                                 \-> fail

Faults, selected per instance by `Faults`: a COMMIT that succeeds `unheard`, is
`lost`, or whose INSERT is `refused`; a `crash` between two steps; `lose_run`,
the Run store replaced while nothing runs.

Bounds. Two workers in two processes are enough for every pairwise race in the
code: each transaction compares its own earlier read with what one other owner
did, and no step counts owners. Two payloads distinguish a match from a
conflict. `MaxAttempts` caps notification attempts, the only unbounded counter.
Two runs use symmetry over the workers: they differ only in their process, and
processes are only compared for equality. The liveness run uses none.

## 4. Proofs

Eight modules hold proofs. Each proves one inductive invariant of its
specification, one step per action, and reads the properties off it.

**Assumptions.** They are about the shape of constants, are stated in the
modules that declare them and are evaluated by every run:

| Assumption | Says |
|---|---|
| `ConstantsAssumption`, `NoneAssumption` (journey) | functions and subsets have their types; `None` is not a worker, a mapping or a fact |
| `ConstantsAssumption` (research) | a cohort and a stage list are not empty; commands and faults have their types |
| `GovernanceConstants`, `NoneAssumption` (qualification) | ages, months, nodes and evidence have their types; `None` is not one of the values |
| `WindowOrder`, `CasesAssumption` (reminders) | `Open <= Final <= Close`; bounds have their types |
| `CommandsAssumption` (commands) | a minted key is used for one operation (the client's key derivation, section 12) |
| `BoundsAssumption` (migrations) | the legacy history is a sequence of events and only a legacy payload may be unreadable |
| `BudgetsAssumption` (protection) | a budget's target is a number |
| `CommitmentConstants` (commitments) | finitely many securities; an order asks for at least one share; a fill costs no more than the price cap; bounds have their types |
| `PositionConstants` (positions) | finitely many securities and accounts; no security stands for cash; cash and bounds are numbers |
| `MonitoringConstants` (monitoring) | securities are numbered and held in whole units; risk handoffs are about units of them and name obligations of their own, none that a statistical conclusion states |
| `PolicyAssumption` (drawdown) | recovery and cooling ask for at least one session (`drawdown_contracts.py:21-23`) |
| `MarketAssumption` (drawdown) | prices, cash, holdings, transfers and liquidation costs are whole numbers, of either sign where that is not excluded elsewhere; a transfer moves something |

None limits the number of workers, processes, objects, members, versions,
releases, senders, payloads, legacy events, interruptions, accounts, fills,
prices, plans, orders, snapshots, sessions, assessments or notices, and none is
about faults. The theorems hold for
every such instance, the bounds of the runs among them.

**`DecisionJourneyProofs`.** The invariant is

    Inv == TypeOK /\ Rooted /\ Reported /\ Corrected /\ Notified
           /\ EvidenceRestored /\ \A w : Relies(w)

`Rooted` ties an event to its mapping and its stage trail, `Reported` a report
row and a publication row to an event of a non-shadow object, `Corrected` and
`Notified` a correction and an attempt to a readable original. None of the
properties is inductive without `Relies(w)`: what worker `w`, at its program
counter, still knows from transactions that are over (a worker at `publish`
has a committed target, one at `confirm` has a report row, one at `settle` that
saw itself as author is right). `Relies` survives the other workers' steps
because rows only accumulate; that is the lemma `StepGrows`, and it is why the
cut of a transaction in the middle is harmless. `AnswersAreTrue` needs what a
worker has been told beside it, and `PublishedInsideGate` that a publication is
written only by the transaction that asks the gate again.

**`ResearchProofs`.** `Inv` is `TypeOK`, what the two stores say of each other
(`StoreInv`: a recorded Run was left by a worker that observed it, one handoff,
scores before the risk Run, evidence restored) and, for each worker,
`WorkerInv(w)`: the drafts it collected are those of the members before its
index (`Collected`, `Position`), what it found when it took over an interrupted
case (`Recovers`), and that a Run it waits for, once lost, cannot come back
(`Unlost`).

**`GovernanceProofs`** is about two modules that share no variable.

*Qualifications.* `QInv` is `TypeOK` and, for each lineage, that every
record fits what precedes it (`RecordsSound`), is linked to the record before it
(`Linked`), that there is one head and one authority, that revocations stand in
order and are final. Every command is shown to append one of four kinds of
record (a beginning, a revision, a grant, a requalification), and one lemma
shows that a record that fits keeps `QInv`. `Ancestors` is defined as the least
set closed under the previous record, which needs no induction.

*Capital epochs.* `RecoveryIsEarned` and `CoolingIsIdle` are not inductive: a
counter is a number, and the sessions it stands for are past. `DInv` says what the numbers mean. The
last `recovery` sessions were each observed in calm in the present risk state
(`RecoveryRuns`); the last `cooling` sessions all closed after the epoch did
and, unless stock has moved since the last observation, after every stock event
(`CoolingRuns`). The lemmas `RecoveryCounts` and `CoolingCounts` show it for the
counters an observation computes; unusable evidence and new epochs reset them.

`UnitsAreFair` is about one instant, at which nothing is pending; between two
such instants any number of transfers, trades and closes lie, and the code
values them only when they are declared. `UnitsInv` says what holds in between
(`UnitsThrough`): there are units after each pending transfer, from the retained
ones to those of one who saw every transfer (`fair`), such that each transfer
changed them in the proportion of its amount to the net equity before it
(`InProportion`). It asks this only where a declaration could
still value every transfer (`Usable`): there was capital before it, and one in
kind is the latest, with nothing moved since. A move of the market leaves these
units alone (`MarketMoves`, `TradeCarries`, `CloseCarries`) and a transfer adds
units of its own (`TransferCarries`). An accepted declaration has no choice: the
entries of a snapshot tell how many transfers it holds (`KeysTell`), so the flows
are the pending transfers in order, each whole, by itself and at the snapshot
before it (`FlowsAreTransfers`); it is worth what the transfer moved
(`FlowOfTransfer`), or nothing where it was declared as internal, and leaves
exactly the next units (`FlowScales`, `UnitsAccounted`). Ratios are in lowest terms, so equal
values are equal pairs: `gcd`, a recursive function, is shown to be a common
divisor and a combination of its arguments by smallest counterexample (`GcdIs`),
and two ratios in lowest terms of one value are the same (`ReducedSame`).

**`WorkspaceProofs`.** The first half is about `CandidateReminders` alone. `RemindersInv` dates the facts, keeps
revisions linear (`Linear`), attempts chained to what they retry (`Chained`) and
a month to one intent a kind (`OneIntent`). The workspace is shown to implement
the reminders' specification (`WorkspaceKeepsReminders`: commands change nothing
reminders read), so their theorems carry over. `CommandsInv` says of each
request where it stands, which object it registered and on what it was decided
(`TasksSound`, `ObjectsSound`, `EventsSound`, `PlansRest`).

**`CommitmentProofs`.** `CInv` says that the histories are consistent: every
confirmation reserves legs of its plan in full, each security once, named after
the confirmation that accepted the leg first (`ConfsOK`); an execution leaves
claims only on reserved legs (`ExecsOK`); a snapshot of the present instant
shows the broker's orders (`BrokerOK`). Histories are only appended to, so the
claims of a plan change in two ways, by a confirmation (`AfterConfirm`) or by a
named execution of the latest one, and `ClaimsLeaveByProof` is shown for each.
`ConfirmedIsCovered` is about money: the replay in the commit transaction fits
the new legs into the margin that the claims of the *other* plans leave
(`ReplayIs`), and `CashCovers` and `ExposureGrows` carry that over to all claims
together, one security each. Nothing is assumed of the optimiser `Solve`: the
exact check of its result (`Verified`) is enough. Cash and exposure are sums,
which the community modules add up along a choice of elements; `SumAny`,
`SumGrows` and `SumJoins` show that the order does not matter, each from a
smallest set that would contradict it (`WFMin`), which needs no induction rule.

**`SchemaProofs`.** `MInv` says where the events are and which interrupted
downgrade explains a table that is missing (`Placed`), and what the running
migration has established before its next statement: 0004 (`Replacing`), 0006
(`Dropping`), 0007 upward (`Numbering`) and downward (`Unnumbering`). The copy
holds the facts of the original only at the statement that drops the original
and not before, which is why an interruption anywhere else must find the original.
`Complete`, `SequenceIsOrder` and `Untouched` are the parts of `LedgerIsWhole`
with what keeps them. `Plain` says that a table without the correction column
names no correction. Each statement is shown to be `Sound`: it keeps `MInv`, it
loses nothing (`Kept`) and it is refused for its schema only where
`RetriesSucceed` allows it (`Resumed`).

**`PortfolioProofs`** is about two more that share no variable.

*Authorizations and obligations.* `PInv` says that each authorization is the newest or has
a successor that takes effect before every later one (`Chained`), that only an
assessment is ever recorded as normal, that assessments go forward in time
(`Forwarded`), that the sales an obligation was satisfied by still stand
(`SalesStand`) and that an assessment carries what the one before it left
outstanding (`CarriedOn`). A command may be decided on evidence of the past
while fills go on arriving; the lemmas `ReportedStays` and `NetStays` show that
what was reported by a past instant never changes, so a net quantity is kept
without its sum being computed.

*Monitoring.* `ReviewInv` says of the log of `MonitoringCases`:

* `WellKept`: every event is of its kind and points back. The cases of an
  assessment are risk cases or the delivery of the conclusion of its source
  (`CasesOf`), a correction repeats its original (`Repeats`), and what a notice
  sent is among the cases it was sent for (`Sent`).
* `OneCurrent`: `Latest`, the selection of `monitoring_history`, and `Shown`,
  that of `project_workspace`, are the same event. Each takes or leaves the next
  event by a rule of its own; they agree because an assessment is refused
  exactly when a later one is retained (`Fresh`) and a correction has the cutoff
  of the original it repeats (`CurrentGrows`).
* `OneDelivery`: two originals that deliver the conclusion of one action are one
  assessment, so a conclusion has the window of that one.
* `OneChain`, `OneKey`: while a conclusion holds, the notices that told or owe
  somebody share a key. A conclusion that no longer holds never holds again
  (`CurrentBefore`), which is why the attempts made of it stay one chain.

A case is recognised by its identity: `ConclusionIs` shows that no case but the
delivery of a conclusion has that conclusion's identity. This needs that risk
cases are never named after a conclusion, which the targets of plans and actions
guarantee (`Free`, `Mixed`), and that the risk handoffs name obligations of
their own, which `MonitoringConstants` assumes: in the code the obligation of a
conclusion is the id of the decision event that states it, and those of a
handoff are ids of capital decisions, issuers and established targets. A plan
that is handed a conclusion's obligation as an established target is outside the
model.
What the recursive functions of the module compute is shown by smallest
counterexample (`StepsExist`, `StepsAgree`).

`TargetsInv` says what a chain of assessments rests on:

* `PlansPlaced`, `PlansKept`: targets are units of the securities, a correction
  repeats an original plan, and every plan that left targets says no less than
  the plans before it, at no earlier a cutoff. So a plan that is not outdated
  says all that was ever `Told` (`PlanTold`).
* `CasesKept`, while no position action states an obligation: retained cases have
  identities of their own, and each asks only for what plans told, under
  obligations that some retained case still holds. The risk cases of the latest
  assessment are among them, which is why its correction, which is merged once
  more, changes nothing (`RepeatedKept`).

`AssessedKept` then shows for each kind of assessment that it leaves kept cases
and takes the retained ones over. An incomplete request, and the delivery of a
conclusion, only repeat them (`UnplannedKept`, `RiskOfKept`). A protective event
marks every case and joins what it newly owns (`JoinKept`, `ProtectionKept`). A
plan regroups them: `AssignedToOne` finds for every obligation of a case the
first case that is given it, which is of P0 if the former is, and
`PlanCasesKept` that the latter asks for every security the obligation was
about. `RetainedGrows` carries this from event to event.

**`PositionProofs`.** `PInv` says that the broker books in order and is solvent
at every instant (`FactsOK`, `SolventOK`), that the feed captures nothing of the
future, and that every retained record is a book of the feed judged from the
records before it (`HistoryOK`). The rest is about one record and its past.

* Which snapshots were accepted does not depend on later ones. `AcceptedAmong`
  chooses a set that satisfies a condition at every snapshot; that there is one,
  and one only, is shown by smallest counterexample (`SomeAreAccepted`,
  `AcceptedSoFar`), so the history established at a record is the same whoever
  asks later.
* `BooksAgree`: the ledger of a reconciled book is wholly visible
  (`CleanIsVisible`: without a conflict every correction rests on single,
  visible entries), hence established (`BookIsEstablished`); a later reconciled
  book of the same cutoff keeps what is established, and its holdings and cash
  are the sums of its ledger.
* `PublishedIsSupported`: a quantity or exposure is published only without the
  conflicts that would tell a ledger from what is established, so the sums over
  both are sums over the ledger.
* `TruthReconciles`: none of the conflicts can be raised against an
  honest book of a solvent broker (`HonestSays`, `HonestReconciles`), provided
  what is established was booked by the broker; an established entry was then
  seen by the cutoff (`VisibleIsSeen`), so the honest book holds it.

Sums over ledgers are handled as in `CommitmentProofs`.

| Module | Theorem | States |
|---|---|---|
| `DecisionJourneyProofs` | `InvariantTheorem`, `TypeCorrect` | `Spec => []Inv`, `Spec => []TypeOK` |
| | `VisibleIsCommittedTheorem` | a readable report is a committed decision with its evidence |
| | `FollowsVisibleOriginalTheorem` | corrections and notifications follow a readable original (proved only) |
| | `EvidenceRestoredTheorem` | a failed commit keeps its evidence |
| | `EventsAreFinalTheorem` | committed events never change |
| | `Refinement` | the journey implements `FormalRecord` |
| | `AnswersAreTrueTheorem` | what a request is told is on record |
| | `PublishedInsideGateTheorem` | a release is published only inside its window and qualification |
| `ResearchProofs` | `ResearchInvariant`, `ResearchTypeCorrect` | `Spec => []Inv`, `Spec => []TypeOK` |
| | `EvidenceIsWholeTheorem` | an outcome rests on the Runs whose drafts it froze |
| | `RunNotReplacedTheorem` | a lost Run is not run again as a new one |
| `GovernanceProofs` | `QualificationInvariant`, `QualificationTypeCorrect` | `Spec => []QInv`, `Spec => []TypeOK` |
| | `OneLineageTheorem` | a substantive lineage never forks |
| | `AuthorityIsEarnedTheorem` | status is earned, and regained only by a later application |
| | `UseIsQualifiedTheorem` | a task is used only under the newest record of its lineage |
| | `DrawdownInvariant` | `EpochSpec => []DInv` |
| | `RecoveryIsEarnedTheorem` | risk falls only on consecutive sessions observed in calm |
| | `CoolingIsIdleTheorem` | an epoch is succeeded only after consecutive idle sessions |
| | `UnitsInvHolds` | `EpochSpec => []UnitsInv` |
| | `UnitsAreFairHolds` | units computed afterwards are those of one who saw each transfer |
| `WorkspaceProofs` | `RemindersInvariant` | `Spec => []RemindersInv` |
| | `RemindersAreSoundTheorem` | one intent a kind and month, retries of the last undelivered one |
| | `WithdrawalIsLastingTheorem` | the fact that withdrew a release stays |
| | `WorkspaceKeepsReminders` | the workspace implements the reminders |
| | `WorkspaceInvariant` | `RemindersInv` and `CommandsInv` of the workspace |
| | `WorkspaceRemindersAreSound`, `WorkspaceWithdrawalIsLasting` | the two reminder properties while commands run |
| | `CommandsHappenOnceTheorem` | a command repeated, raced or interrupted is decided once |
| | `RetriesResumeTheorem` | a repeated command resumes what was registered |
| | `EntryIsCurrentTheorem` | an entry is confirmed or replanned only while its release is current |
| `CommitmentProofs` | `CommitmentsInvariant` | `Spec => []CInv` |
| | `ClaimsLeaveByProofTheorem` | a claim on capital is given up only on proof |
| | `CommittedInsideWindowTheorem` | submissions and replacing plans fall inside window and qualification |
| | `ConfirmedIsCoveredTheorem` | what is submitted is paid for, and no issuer is over its entry target |
| | `UncertainBlocksTheorem` | while a commit is uncertain nothing that depends on it is decided |
| `SchemaProofs` | `MigrationsInvariant` | `Spec => []MInv` |
| | `LedgerIsWholeTheorem` | past 0004 history is complete and in order, or untouched |
| | `NothingIsLostTheorem` | no interruption, in either direction, loses a recorded fact |
| | `RetriesSucceedTheorem` | an interrupted migration, 0006 apart, can be run again |
| `PortfolioProofs` | `ProtectionInvariant` | `Spec => []PInv` |
| | `ExposureIsCurrentTheorem` | new exposure is never allowed under a superseded authorization |
| | `ObligationsAreKeptTheorem` | an obligation stays, no looser, until sales net of corrections satisfy it |
| | `RelaxedWhenRestoredTheorem` | a looser budget is confirmed only with no obligation outstanding |
| | `ReviewInvHolds` | `ReviewSpec => []ReviewInv` |
| | `ReviewsAreSoundHolds` | what may be confirmed is shown, and a conclusion has one window and one chain of reminders |
| | `TargetsInvHolds` | `ReviewSpec => []TargetsInv` |
| | `TargetsAreKeptHolds` | an assessment requires what the ones before it required, no weaker |
| `PositionProofs` | `PositionsAreInOrder` | `Spec => []PInv` |
| | `PublishedIsSupportedHolds` | quantities and exposures rest on established facts |
| | `BooksAgreeHolds` | two reconciled books of one cutoff are one book |
| | `TruthReconcilesHolds` | a true snapshot reconciles, whatever was captured before |

**Only model-checked.** `EveryRequestReturns`, `PublicationIsDecided` and
`OnlyOwnRunBlocks` are liveness under fairness, which the prover does not reach.
Every invariant and every action property of a passing run is proved.

## 5. ResearchJourney

One fixed-cohort research case. `command` is the frozen request with its
contract mode (`current`, `historical`, `legacy`); `run` the Run store, one Run
per member and one risk Run per possible handoff; `rows` the stage events by
Run identity and tag; `event` the committed outcome; `job` per worker the
program counter, member index and results so far.

A member Run is reserved in the ledger, created in the Run store, observed,
resumed and driven; only a Run that was never observed may be created again.
When every member succeeded the raw scores are saved, then the risk Run is
created under the digest of the drafts, and the outcome is committed. A refused
commit restores its evidence. Every read or write of either store is a step.

`EvidenceIsWhole` joins four facts: the committed outcome rests on exactly the
Runs whose drafts it froze, scores are durable before the risk Run exists, one
cohort is put to one risk Run, and a refused commit loses nothing.
`RunNotReplaced` is the promise that a lost Run is never run again as a new one.
`OnlyOwnRunBlocks` holds although a model may hang for ever: the poll of a
foreign Run has a deadline. The first two and `TypeOK` are proved
(`ResearchProofs`).

Abstraction: a draft stands for text, references and tool evidence together;
`DraftValid` accepts or rejects it. Publication is section 3. Bounds: a cohort
of two has a first member (whose Run is the case's own) and a later one (whose
failure is handled differently); one stage and two drafts suffice for a Run
interrupted half-way and for two handoffs that differ; two requests give one
retry after a crash.

## 6. CandidateCommitments

A *plan* divides the cash over the candidates of a release; a *confirmation*
accepts or declines its legs and reserves the accepted ones; an *execution*
reports what the broker did with a reservation and leaves the remaining claim.
What a plan claims now is computed each time from the histories: the latest
confirmation of the plan, or the latest execution of that confirmation
(`PlanClaims`).

| Variable | Code |
|---|---|
| `plans` | allocation events that count as inputs (`is_allocation_input_source`) |
| `changed`, `corrected` | plans with a `PLAN_CHANGED` confirmation, plans with a correction |
| `confs` | `CONFIRMED` confirmation events with their reservations |
| `execs` | execution events, the refused ones too: remaining claims, attribution of orders, unfinished and unresolved orders, withdrawn intents |
| `unsure` | mapped cases whose last commit stage is UNKNOWN and that have no event |
| `orders`, `snaps` | the broker (external) and the reconciled position events made from it |
| `open`, `elig`, `fresh` | what the clock decides: entry windows, qualification and authorization, whether the newest snapshot still describes the present instant |

Deciding and finalising run in one transaction and are one action. The clock is
read twice in it and may move in between: `ClockMoves` gives the second reading
(`o2`, `e2`, `f2`). `LoseCommit`, `SettleCommit` and the repeated decision of a
command in `unsure` are the uncertain commit seen from here. The optimiser is
the constant `Solve`; the code uses its result only after an exact check against
the capacities, which is `Verified`: a quantity for every row of the plan, within
cash and within every entry target.

`ClaimsLeaveByProof` states when a claim may go. An execution ends one on the
newest snapshot, with no order for it working, when it was bought in full; or,
with no order of its security in doubt, when it was withdrawn, has expired, was
corrected away or was ordered in vain (`EndedBy`). The code asks for the absence
of doubt only in the second case (`candidate_execution.py:465-513`).
`ConfirmedIsCovered` and `CommittedInsideWindow` are what a submission may rely
on; `UncertainBlocks` is what waits for an unheard commit. All four are proved
(`CommitmentProofs`).

Abstraction: one account, one security per issuer, one price cap and one fill
price, purchase costs zero; stress, liquidity, industry, correlation and Beta
capacities are left out, and with them only reasons to refuse or to shrink a
plan. PLANNED and DEVIATION attribution are one case, DECLINE and DEFER too.
Signed corrections of fills are left out. Snapshots arrive in order of cutoff.

Bounds: a conflict needs two plans, or a plan and an execution; an order needs
to be seen open once and ended once, hence three snapshots with the first. Two
units per target separate partial from full.

## 7. QualificationGovernance

`quals` is the sequence of qualification records, `apps` and `replays` the
requalification applications and alert replays, `bound` the policy bindings,
`nodes`, `acts`, `tasks`, `uses` the version handoffs, `now` the clock. Each
governance command is an action; a refused command appends nothing, except a
refused freeze, which disposes of its node. Where the code raises on two heads
the transaction is abandoned and the action is not enabled.

`OneLineage`: commands extend the lineage of all aliases of a version, uses the
history of one exact version, and the substantive lineage still never forks.
`AuthorityIsEarned`: a status is what open alerts and restrictions earn, and
after a revocation only an authorization from an application registered later
counts. `UseIsQualified`: a frozen task is used only under the newest,
unrestricted, unexpired record of its lineage. All four properties of the run
are proved (`GovernanceProofs`).

Abstraction: one scope; digests and population members match, as an honest
proposer sends them; instants are numbers, `PerMonth` to the month. Bounds: the
longest sequence that matters is grant, revoke, register, requalify with one
alert or check in between, hence four or five records; three months pass both
ages.

## 8. DrawdownEpochs

The environment is a portfolio of two accounts: cash, one holding, what
liquidating it would cost, trades while the market is open, one close a day,
transfers at any time. A transfer of cash or in kind has a ledger entry in each
account it touches, so it comes from outside, goes out, or moves between the
two. `Equity` is net of the cost, as in the code (`drawdown.py:142`,
`drawdown_flows.py:59`); the environment chooses a new cost from `Costs`, which
depends on the shares held, whenever market or holding move. `state` is the
retained `DrawdownState` (epoch, units, peak, risk, counters, closing day),
`pending` the transfers it has not processed, `snaps` the snapshots a declared
flow may be valued at, `confirmed` the number of authorizations. A command
declares entries in any grouping, as external or internal. Ratios are exact, as
the code's `Fraction` is. Two ghosts, read by no action: `fair`, the units of
one who sees each transfer as it happens, and `calm`, the closes observed in
calm.

`UnitsAreFair` compares the code's units, computed later from what a command
declares, with `fair`: issued or cancelled at the net value of a unit at the
instant of each transfer. It is not the claim that transfers never look like
performance. The code credits a transfer in kind at the gross market price
(`drawdown_flows.py:144`) while a unit is worth net equity
(`capital-protection.md:28`), so what the holding costs more or less to
liquidate afterwards moves the unit value, in `fair` as in the code. A transfer
of cash leaves it alone, and so does one between accounts, which the code
requires to sum to zero over two accounts (`drawdown_flows.py:145-147`).
`RecoveryIsEarned`
and `CoolingIsIdle` compare the session counters with `calm` and with the stock
events of the account; all three are proved (`GovernanceProofs`). Names that
`PortfolioProtection` has too are told apart by the epoch: `EpochSpec`,
`ConfirmBudget`, `RaisedRisk`.

What the environment is assumed to do, because the code takes it from its
caller: the evidence before a valuation expires with the next change of the
account, a command's cutoff is the present instant, the liquidation cost a
command declares is the one of that instant, and a transfer of cash alone does
not change it. Bounds: two transfers between observations (one valued before and
one after a move), in one horizon from outside, in the other also between the
accounts, of cash and of a share that costs one to sell; two prices, four
sessions against counts of at most two.

## 9. PortfolioProtection

`auths` are the retained authorizations, `stress` the retained assessments with
their obligations, `usage` the last recorded use; `path` and `ledger` are the
account (external): prices, fills that may be reported late, corrections. Every
command has a knowledge cutoff of its own, at or before `now`.

`ExposureIsCurrent`: new exposure is never allowed under a superseded
authorization, not even to a command whose cutoff hides the successor.
`ObligationsAreKept`: an outstanding obligation stays, no looser, until sales
after its trigger, net of corrections, are on the ledger. `RelaxedWhenRestored`:
a budget confirmed on evidence from before a breach does not relax it after.
All three are proved (`PortfolioProofs`).

Abstraction: the market-window checks of a grid change are the flag `proved`;
one holding per account; refusals that retain nothing are left out. Bounds:
three authorizations give a predecessor, a current one and a hidden successor;
three assessments raise, carry and settle.

## 10. PositionSnapshots

A broker keeps an append-only ledger (`facts`); the feed that captures it may be
wrong in the ways `bound.feed` names; `history` keeps the retained outcomes.
There is no table of positions: `Snapshot` rebuilds, for its owner, view and
cutoff, the facts that earlier reconciled outcomes established, and reconciles
the captured books against them.

The broker is solvent: at no instant does what is seen of its ledger show cash
or a holding below zero (`Solvent`). The code takes a summary below zero for a
conflict, and a broker reports none; without the assumption a purchase, a sale
and a correction of the purchase make a true snapshot that cannot reconcile. A
ledger is a function from rows to entries, so that a repeated entry is two rows.

`BooksAgree`: two reconciled outcomes of one cutoff are one book.
`TruthReconciles`: a true snapshot is refused only when an earlier falsehood no
history could contradict was taken for the first observation of a fact.
`PublishedIsSupported`: exact quantities and issuer exposures are covered by all
established facts, in the snapshot and in the history. All three are proved
(`PositionProofs`).

Abstraction: a price is one, so holdings are worth their quantity; cost basis,
annotations and conflicts of issuer identity are left out; evidence clocks are
flags of the feed. Bounds: two facts make a fill and its correction, or two
orders of reporting, three a correction that would overdraw; three snapshots let a bad one come between two good ones;
two accounts and two views show that histories do not leak.

## 11. MonitoringCases

`log` holds the committed events in order: plans, actions, protective facts,
daily and event assessments, corrections, notifications and reports; `lapsed`
those whose evidence or authority has ended. An assessment carries review cases:
required quantities per security, the obligations behind them, priority and, for
a statistical conclusion, its window. `assess_monitoring` takes over every
retained case of earlier assessments; `project_position_action` delivers a
conclusion. Confirmation is a read decision (`Confirmable`), as in the code.

`TargetsAreKept`: what earlier assessments required the next one requires too,
no weaker, and as P0 for an obligation that a P0 case holds. It excludes what
the code does not promise; section 16 says what. `ReviewsAreSound`: what may be confirmed is what
the workspace shows, although the two select the current report in different
ways; and a conclusion has one window and one chain of reminders inside it.
Both are proved in `PortfolioProofs`, so lists are built by recursive functions
(`Chosen`, `PutAll`, `RetainedCases`, `Joined`, `Delivered`), and the selections
of the two readers, `LatestOf` and `ShownOf`, tell the current assessment after
each event.

Abstraction: one owner and portfolio, two securities with `Held` units each;
evidence and calendars are flags (`whole = FALSE` also stands for a missing
position or handoff); a statistical reduction targets one unit; waterfall and
routing do not change targets and are left out. Of the retained cases that hold
one obligation the first by priority, age and `case_id` keeps it
(`monitoring.py:652-655`); where the first two tie the model takes them in the
order of insertion, the code in that of a digest. The calendar that a protective
event must name (`monitoring.py:273-277`) is part of its evidence. Bounds: two plans and two or
three assessments hand a target over twice; one fact, correction, lapse and
report interfere with one confirmation; two notices give one retry.

## 12. CandidateReminders and WorkspaceCommands

`reports` are published releases of a month, with corrections; `revisions` the
qualification lineage; `attempts` the reminder records. A release's window is
`Open <= Final <= Close` (`WindowOrder`). `Status` and `Withdrawal` derive what
a release is worth now, as `current_eligibility` does. A release is published
with candidates only under a newest revision that stands; governance revises
nothing after a revocation, and does not extend a revision that has lapsed
before it is suspended.

`RemindersAreSound`: one initial and one final intent a month, each attempt but
the first a retry of the last undelivered one; and an owner who may have read
of candidates that no longer stand can be told. `WithdrawalIsLasting`: the fact
that withdrew a release does not change with the clock, with the exception named
in `OwnLapsesLast` (section 16).

`WorkspaceCommands` adds `events` (plans, confirmations, reviews, executions),
`objects` (registered cases) and `tasks` (where each sender's request is). A
request is asked, prepared, registered, decided and answered in separate steps;
the process may die in between; the request may be repeated or raced.
`CommandsHappenOnce`, `RetriesResume` and `EntryIsCurrent` are about that. All
five properties are proved (`WorkspaceProofs`).

Abstraction: a key is minted per operation, as the client does
(`CommandsAssumption`); the adjudication is its gates on what was seen and an
outcome (section 6 has the rest), and whether a replan changed the inputs is a
Boolean. Bounds: two senders race; three reports are an original, a correction
and another scope; three attempts are a failure, a retry and a surplus one; two
deadlines let a revision lapse after a later one.

## 13. SchemaMigrations

`db` is the tables, `version` the Alembic revision, `job` the running migration
and its next statement, `left` the interrupted migrations. SQLite does not roll
DDL back, so an interruption leaves the database as it was after some statement;
each statement is a step and an interruption may follow any. The application
appends facts whenever it finds its own revision.

The three properties are proved for every legacy history (`SchemaProofs`).
`NothingIsLost`: in either direction nothing recorded is lost, altered or
reordered. `LedgerIsWhole`: legacy history is complete past 0004, sequences
follow insertion order, and unreadable payloads stop the database untouched.
`RetriesSucceed`: an interrupted migration can be run again to its end. 0006 is
the one exception, and the property says so: its two tables are created without
looking whether they exist. Bounds: two legacy events have an order; two more
show appends after a migration; two interrupted migrations at a time are an
upgrade and a downgrade. `HistoryIsComplete` asks for a stage table only where
there is a legacy stage to hold: with an empty history, a downgrade of 0003 cut
after its one statement and then an upgrade reach 0004 without that table.

## 14. FormalRecord

What a reader may rely on: an object is absent, committed, shown; a correction
only after a shown original; hidden objects are never shown. `DecisionJourney`
implements it (`RefinesFormalRecord`, checked and proved).

## 15. Mutants

Every property of every passing run has a mutant: a definition changed as a
plausible bug would change it (a dropped guard, a missing lookup), under which
TLC finds the property violated on the run's own instance. They stand beside the
definitions they replace, and are listed in `PROJECT.json`.

## 16. Known disagreements

With a run:

* `journey_release_race`. `architecture/candidate-workspace.md:16` says that the
  original commit and publication are preserved. Two processes publish one
  release; the first records `PUBLICATION SUCCEEDED` and tells its caller so;
  the second, which already holds the report row, finds the window closed and
  records the closure failure, which `_with_publication_history` ranks above
  the saved success: the report turns from published to closed.

Met while modelling, and recorded here without a run of their own:

* Key reuse, `adapters/persistence/decision_ledger.py:1092`. A key reused with
  another payload is documented as a conflict
  (`architecture/candidate-confirmation.md:31`). The comparison is made in a
  transaction before the mapping is saved, and `persist_business_mapping` does
  not compare once the original event exists: of two requests with one key that
  both pass the comparison, the second is answered with the first one's report.
* Unmet Run, `modules/decision_cases/candidate_execution.py:42-80`.
  `architecture/candidate-execution.md:58-59` asks for terminal evidence before
  a known unfinished order disappears. A Run with an unsuccessful business
  outcome commits an empty execution event, which is then the latest, so the
  next reconciliation no longer knows the order. Claims survive: allocation
  reads only executions that name a plan (`ClaimsLeaveByProof` holds).
* Withdrawn leg, `modules/decision_cases/candidate_confirmation.py:330-352`.
  `architecture/candidate-execution.md:59-60` says future requests cannot revive
  a withdrawn intent. Withdrawals are remembered per confirmation; submitting
  the plan again keeps the accepted leg's reservation, and the new confirmation
  claims it in full.
* Exact lineage, `modules/qualification/service.py:1385`. The history of one
  exact version can have two heads while the substantive lineage has one
  (`OneLineage`); a use then raises instead of being decided.
* Interrupted 0007 downgrade, `adapters/persistence/runtime_ownership.py:68`.
  The revision is stamped last, so a downgrade interrupted half-way leaves
  tables of the old shape under the new revision, and the revision check passes.
* Withdrawal identity, `modules/candidate_selection/current_eligibility.py:115`.
  `modules/delivery/candidate_workspace.py:162`: "Keep the original
  invalidating fact separate from the clock-dependent display state". A
  release's own deadline is asked before the latest one of its lineage, so a
  release withdrawn because a later revision lapsed is withdrawn again, under
  another identity, when its own revision lapses. `WithdrawalIsLasting` excepts
  this case (`OwnLapsesLast`).
* Position actions, `modules/decision_cases/statistical_monitoring.py:88-129`.
  `architecture/monitoring-workspace.md:78`: "Independent P0/P1 targets retain
  their own provenance and survive a missing or expired statistical window".
  `project_position_action` has no check against weakening and replaces the
  first case that shares an obligation, so an action about another security can
  replace a P0 exit by a weaker cap. Also, a plan's assessment drops a retained
  case whose obligations were all assigned to an earlier incomplete case, and an
  outdated plan (a correction is as old as the plan it corrects) assessed at the
  same cutoff can drop a target. Such a plan, if it is a capital plan, can also
  raise to P0 a case about a security whose own obligation a P1 case holds; the
  next plan gives the security to the P1 case. `TargetsAreKept` states what
  holds outside these.

## 17. Not modelled

* Wording, prompts, report layout, hashing and schema validation: a frozen case
  is its payload, a Run output or draft is valid or not.
* Numerical work: the calibration fit, `modules/evaluation`,
  `modules/prospective`, Beta, liquidity and concentration, the optimiser.
  It is floating-point or exact arithmetic on one frozen data set; TLC has no
  real numbers, and no other actor comes between its steps.
* Universe, screening and selection: sorts and filters of one data set.
* Waterfall and routing of an execution plan over lots and accounts.
* Passkey authentication: access control, not part of the decisions and their
  record.
* HTTP translation, access audit, user facts: one append or none per call.
* Settings, wiring, process start-up, the web client's rendering, repository
  scripts.
