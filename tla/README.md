# DNet Engine: TLA+ verification

This directory holds TLA+ models of DNet Engine - its connection core, what it
does to the machine, and the parts of the service around them - with the TLC
runs that check them on small instances and TLAPS proofs of the results that
hold for every instance. Source paths below are relative to `src/crates/`.

## 1. The system

DNet Engine is a Windows service (`dnetd`) that keeps a tunnel up over
censoring and unreliable networks. A person asks it to connect; it races
*profiles* (ways of reaching a server) against an *endpoint* (a server), brings
up the winner, watches it, and replaces the profile or the endpoint when it
stops carrying traffic. While nothing carries traffic the machine is
fail-closed.

| Component | State | Operations | Modelled in |
|---|---|---|---|
| Endpoint health (`dnet-core/src/health.rs`, `endpoint_health.rs`, `migrate.rs`) | health state and three counters per endpoint | a probe, ranking, leave or stay | `EndpointHealth` |
| Engine (`dnet-core/src/engine.rs`, `reprobe.rs`, `failure.rs`) | phase, viability of profiles, environment, reach, block detector, endpoint, raced, requested | `Engine::step`, 11 inputs; pure: asks for work, emits events | `Engine`, `EngineAlone` |
| Probe race (`dnet-core/src/probe.rs`, `dnet-probe/src/race.rs`, `runner.rs`) | a probe, a core and a file of credentials per raced profile; results, deadline, grace | start, measure, collect, decide, cancel, sweep at a start | `RaceOutcomes`, `PromisedRace`, `ProbeRace` |
| Orchestrator (`dnetd/src/orchestrator.rs`) | actor with the engine and the attempt number; mailbox; published state; `connecting` flag; work queue; race token; tasks | connect, disconnect, shutdown, retire; actor loop; executor; race and monitor tasks | `Orchestrator`, `PromisedConnection` |
| Effects (`dnetd/src/effects.rs`) | the tunnel that is up | reach, race, start, stop, move, checks | outcomes, in `Orchestrator` |
| Tunnel (`dnetd/src/tunnel.rs`, `dnet-supervisor`, `win_route.rs`) | cores, adapter, WireGuard peer, host routes, generated files | start, stop, carry over, reap strays, ordered shutdown | `MachineLife` |
| Undo journal, recovery (`dnet-netstate/src/undo.rs`, `dnetd/src/recovery.rs`) | journal in its file and in memory | record, withdraw, undo, replay; recover at a start | `UndoJournal`, `RecordedChanges`, `MachineLife` |
| Service (`dnetd/src/service_impl.rs`) | orchestrator slot, store lock | requests, retries, configuration changes that replace the orchestrator | `Service` |
| Intent and retries (`dnetd/src/intent.rs`, `keep_trying.rs`) | the wish in memory and in its file, the back-off | connect, disconnect, resume at a start, retry, network change | `ResumeAndRetry`, `Service` |
| Held changes (`dnetd/src/approval.rs`, `service_impl.rs`) | waiting changes with deadlines, the approving lock | hold, approve, reject, expire | `HeldChanges` |
| Signed feed (`dnet-core/src/feed`, `dnetd/src/feed_service.rs`, `feed_fetch.rs`) | accepted keys and feed, files, the check under way | import, fetch and offer, evict, store, restore | `SignedFeed` |
| Provisioning (`dnet-provision`) | stage of the job, ledger, resources at the provider | create, bootstrap, verify, cancel, clean up, recover | `ServerJob` |
| Network watch (`dnetd/src/netwatch.rs`, `dnet-core/src/path_monitor.rs`, `failover.rs`, `degraded.rs`) | path carrying the tunnel, failover state and its clocks, what was reported | refresh, decide, move, failed move, report | `PathWatch`, `PathBudget`, `PathReports` |
| Event stream (`dnet-ipc/src/wire.rs`, `server.rs`) | sequence numbers, backlog, subscribers | publish, subscribe, deliver, lag | `EventStream` |
| Configuration and secrets (`dnetd/src/configure.rs`, `dnet-config`) | store, file, sealed credentials | transactions, load at a start | `SavedConfig` |
| Routing rules, encrypted DNS (`dnet-core/src/rule.rs`, `rule_eval.rs`, `builtin_rules.rs`, `doh_block.rs`, `dnet-config/src/primary.rs`) | the rules with their precedences, the choice about encrypted DNS | add, remove, choose, evaluate, save, read back, tell the core | `RoutingRules` |
| Telemetry, clients, tools (`telemetry.rs`, `dnetctl`, `dnet-view`, `dnet-etw`) | counters, views | rendering, transport | not modelled |

**How they interact.** IPC requests and the retry loop take the store lock and
call the `Handle`. The handle judges a request against the published state and
the `connecting` flag and puts a message in the actor's bounded mailbox. The
actor feeds the engine, tags the work it asks for with a new attempt number and
queues it, without bound, for the executor. The executor carries out one item
at a time, spawns races, and reports into the mailbox under the attempt number
of the work; so do races, and the monitor a connection starts. The actor drops
reports whose number is not the current one, publishes the state, and after a
connect clears the flag. A start goes down to processes, a peer on the adapter
and host routes, each route through the undo journal, which the next start of
the service replays. Beside that, and touching it only through requests and
outcomes, live the held changes, the remembered wish, the feed, provisioning
jobs, the path watch, the event stream, the configuration and the rules.

**What is hard.** Nothing here is a single critical section. A client reads two
shared values while the actor writes both; a race looks at its token, then
reports; a monitor looks at the current attempt, then reports; a start runs for
seconds while the engine has already moved on; a bounded mailbox stands between
tasks that wait for each other; the slot's orchestrator is replaced while the
old one is still working. The process can die between writing a record, a file
or a credential and doing what it is for, and a save can report failure with
the new file in place. Approving and withdrawing, fetching and importing,
publishing and subscribing overlap wherever no lock is held. `PROJECT.json` lists each such hazard at its line.

**What makes each component correct.** The engine: the tunnel it has asked for
is always the one its phase names, never two, and every automatic change is
told. The orchestrator: what is shown as connected carries traffic; no accepted
request is ignored; every attempt settles; a disconnect and a shutdown leave
nothing behind. The service: what the person left on is retried, what they
turned off is not, and replacing the orchestrator does not disturb a
connection. The machine: every route of ours is on record until it is reversed,
the endpoint's route guards the peer, and the service is ready only on a
machine that is restored. The parts around: a change is applied once, nothing
older comes back into effect, every resource that costs money is accounted for,
the route is that of the path said to carry, no event is missed silently, the
saved file names no credential that does not exist, the core routes as the
rules say, and the person is told of a poor path only when it was one.

## 2. Modules

* **EndpointHealth** – pure operators: one probe (`OnProbe`), candidates,
  ranking, the decision to leave. Counters are kept up to the threshold they
  are compared with. Round-trip times only break ties between endpoints in the
  same health state, so `RankFirst` is the *set* of endpoints that some
  round-trip times put first.
* **Engine** – pure operators: one per handler of `engine.rs`, each returning
  `[eng, work, events]`, and `Step(e, in)`, the set of results an input can
  have. `replacing`, the clock and the wording of events and causes are left
  out. Work is a sequence because its order matters; events are a set of kinds.
* **EngineAlone** – the engine under any input in any order, with the history
  variable `asked`: what carrying out its work in order amounts to.
* **Orchestrator** – `Handle`, `Actor`, `execute`, race tasks and monitors with
  the engine inside. Everything between two awaits, or between two accesses to
  shared state that another task writes, is one action: `Handle::connect` is
  claim, judge, send; `Handle::disconnect` is the two reads of `snapshot` and
  the send; the actor's turn is take, publish, clear. `client` is the request
  being served: the store lock admits one. The effects appear as the outcomes
  they can have and what they do to `tunnel`.
* **PromisedConnection** – the abstract connection: sought only for an accepted
  connect, established with the tunnel it names up and nothing under way that
  could replace it, sought again or given up with the old tunnel coming down,
  and over after a shutdown. The orchestrator is shown to implement it.
* **Service** – extends `Orchestrator` with the wish, the retry loop and
  configuration changes. The variables of `Orchestrator` are the orchestrator
  in the slot; a second `INSTANCE` of the module (`Old`) is the one retired
  last, which keeps running until its executor is done.
* **RaceOutcomes** – the reports a race can give; what `Engine` takes as input
  and `ProbeRace` produces.
* **PromisedRace** – the abstract race: one answer about the profiles asked for,
  the best of those heard from, a second-tier winner only when the first tier
  has answered or the grace is over, and nothing after the deadline.
* **ProbeRace** – the probes with their cores and files, the collecting loop
  with its channel, cancellation, panics, a crash of the service and the sweep
  of the next start. It is shown to implement `PromisedRace`.
* **RecordedChanges** – the abstract journal: the machine is changed only where
  a record exists, and a record is given up only once its change is reversed.
* **UndoJournal** – `UndoRegistry` over its file and the routing table: record,
  save, change, withdraw, undo, replay, one step at a time, with saves that fail
  leaving the old file or the new one, and a crash between any two steps.
* **MachineLife** – extends `UndoJournal` with the cores, the adapter, the peer,
  the generated configuration, `Tunnels::start`, `stop`, `carry_over`, and
  start-up recovery. An operation is the sequence of its remaining steps
  (`todo`); a failing step replaces the rest by what the error path does.
* **HeldChanges** – changes that wait for an elevated client: hold, approve,
  withdraw, expire by several clients, with both locks.
* **ResumeAndRetry** – the wish in memory and in its file, the resume of a
  start, and the back-off of the retry loop, with crashes.
* **SignedFeed** – acceptance of keys documents and feeds, eviction, storage and
  restoring, imports, and checks that fetch without the lock and offer with the
  time they began at.
* **ServerJob** – a provisioning job: its stages, the ledger with torn lines and
  their repair, cancellation, cleanup, and the provider's account as a contract.
* **PathWatch** – the failover machine with its limits and clocks, the monitor
  and the loop that moves the route: the gateway kept with the tunnel and the
  rows of the table are two variables, for a rewrite may fail between its two
  steps, and touches nothing when the gateway stays the same; **PathBudget** – the moves carried out,
  counted beside the machine's own count; **PathReports** – what the person is
  told of a path that stays poor.
* **EventStream** – the bus, the backlog and live halves of a subscription,
  lagging receivers and the Lost frame.
* **SavedConfig** – configuration changes as transactions over store, file and
  sealed credentials, each write of which may fail or be the last.
* **RoutingRules** – rules and their precedences, the evaluator, what is saved
  and read back, and what the core is told about routes and lookups.
* **MCEngineAlone**, **MCOrchestrator**, **MCService**, **MCMachineLife**,
  **MCHeldChanges**, **MCPathBudget**, **MCServiceParts** – values for TLC.
* **ServiceParts** – the ten parts that share no state beside each other: `part`
  is chosen at the start, that part takes its steps and the others stay as they
  began, so the states are the sum and not the product of the parts' states.
  The run leaves out initial states that differ only in what belongs to a part
  that does not move (`MCPartsInit`); the theorems do not.
* **EngineProofs**, **EngineAloneProofs**, **OrchestratorProofs**,
  **ServiceProofs**, **UndoJournalProofs**, **MachineProofs**,
  **ServicePartsProofs** (held changes, events, configuration, feed, intent, job,
  the parts side by side, the budget of moves) and **NetworkProofs** (paths,
  races, reports, rules) – theorems.

An operator introduced with a comment `Slip:` is not part of the model. It is a
plausible mistake in the definition that follows it, and `PROJECT.json` names,
for each property, the slip that breaks it.

Correspondence worth knowing when reading the code beside the model:

* `attempt` stands for `Actor::attempt` and `current`, which are always stored
  together.
* A cancelled race is dropped from `races` unless it has already looked at its
  token; then its report still comes and has to be recognised as stale.
* A monitor of an earlier attempt that has not yet looked ends silently, so
  `Watching` removes it at the step that supersedes it; one that has looked
  (`cleared`) still sends.
* `StartFails` leaves the tunnel as it is or takes it down: `start_tunnel` can
  refuse before it reaches `Tunnels::start`, which takes an old one down first.
* In `UndoJournal` a route is its key (interface, destination, next hop), `op` is
  the call under way, and `Ours` are the routes the service made.
* History variables record what excuses an exception a property names, and are
  read by properties only: `joined` and `reused` (ServerJob), `lost` and `loose`
  (SignedFeed), `unsaid` (SavedConfig), `adrift` and `doubled` (PathWatch), `undeleted`
  (ProbeRace), `excused` and `apart` (ResumeAndRetry), `stuck` (MachineLife).
* `Retire` drops what the old engine knew of profiles and endpoints. At rest
  only a connect reads it, and `RetiredStaysAtRest` says none comes.

## 3. Runs

| Run | Instance | Properties | Shows |
|---|---|---|---|
| `engine_alone` | 2 raced + 1 direct profile in two tiers, 2 endpoints, an unknown name, thresholds 1–2 | `AskedIsPhase EndpointInUse StopThenStart ChangesAreTold` | the engine is right whatever calls it, with late and duplicated inputs |
| `orch_recovery` | `FairSpec`; 1 raced + 1 direct profile, named connects, mailbox of 1 | `TypeOK RaceWhileDown BlockedForTheAttempt AttemptSettles DisconnectTakesDown ShutdownReturns` | recovery and named connects under every interleaving, and progress with the mailbox at its limit |
| `orch_moves` | 1 raced profile, 2 endpoints, mailbox of 2 | `ConnectsAsPromised QuietMeansDown ShutdownLeavesNothing` | the tasks together are the connection `PromisedConnection` describes; relocation, folding, disconnect and shutdown at any point |
| `service_changes` | 1 profile, 1 change, mailbox of 1 | `RetiredStaysAtRest` | nothing is lost with a replaced orchestrator |
| `service_left_on` | `FairServiceSpec`; 1 profile, attempts up to 3 | `ConnectTakenUp LeftOnIsRetried NoRetryAfterOff` | the retry loop against requests, stale reports across attempts, no accepted connect ignored |
| `machine_life` | 1 address, 2 gateways, 2 records, 1 crash | `ChangesAreRecorded PeerIsGuarded OnlyStuckRemains KeepsItsPromise ReadyIsRestored` | starts, stops and moves with any step failing and a crash between any two; recovery; 1.63 million states |
| `service_parts` | ten parts, one moving at a time | `PartsTypeOK` and, by part: held changes `AppliedOnce`; intent `ConnectsAsLastAsked TriedInTime RetriesAreSpaced`; feed `NeverOlder EffectIsVouched StartKeepsEffect`; job `AccountedFor CleanReportIsTrue`; watch `RouteIsCarrying`; events `GapsAreTold`; configuration `CredentialsExist`; race `PromisedOutcome NothingLeftBehind`; rules `PartsRoutedAsRuled PartsReadBackTheSame`; reports `ToldAsSeen` | each part with the failures and crashes its code handles; 1.23 million states |
| `orch_snapshot` | 1 profile | `NotConnectedIsTrue` | **violated**, section 6 |
| `service_replaced` | 1 profile, 1 change | `OnlyOneTunnel` | **violated**, section 6 |
| `service_unreachable` | 1 profile, 1 endpoint | `UnreachableIsProbedAgain` | **violated**, section 6 |
| `change_withdrawn` | 2 elevated clients, 1 held change at a time | `WithdrawnIsNotApplied` | **violated**, section 6 |
| `path_budget` | 2 paths, 1 move per window | `MovesAreRationed` | **violated**, section 6 |

**Bounds.** `MaxAttempts` bounds the attempt number at which a connect may still
be asked (one connect takes several numbers); `MaxChanges` bounds replacements;
`MailboxCap` is 1 or 2 instead of 64, which makes a full mailbox ordinary;
`BlockAfter`, `UnreachableAfter` and the quality thresholds are 1 or 2 instead
of 3, `ProbeEvery` 1 instead of 3, so that every limit is crossed within a few
steps. Two profiles cover a winner, a loser and a substitute; two endpoints
cover a move and having nowhere to move to. The orchestrator
runs have one reading of the machine and two answers of the reach check;
`engine_alone` also has a portal appear between any two steps. Nothing
in the orchestrator depends on the identity of profiles or endpoints.

`machine_life` has one address and two gateways, so that a move rewrites the one
route; the gateways are symmetric (the run checks safety only). Two records
cover a record being withdrawn while another is made; three (11.1 million
states) were explored once without an error. The parts of `service_parts`:
held changes with one slot, so that a full list and a freed slot both happen;
three starts of the service against five keys documents and six feeds that
include a rotation, equal versions and too few roots (95,858 states); three runs of a
job; two paths that may share a router, levels unusable and good (185,000; lossy
too and longer waits, 767,000 states, were explored once); a backlog of two for
five events; three endpoint ids for two places; two profiles in two tiers, two
races, deadline 2 and grace 1, one file that cannot be removed (582,000; three
profiles in one race, and a deadline of 3 with any number of such files, were
explored once); two user rules and the built-in ones (3,105); two paths, two
reasons and waits of two looks (37,887).

**Deadlock** is checked in every run of the connection core: a request is always
possible or some task can move. `machine_life`, `service_parts` and
`path_budget` say `CHECK_DEADLOCK FALSE` because their behaviours end where the
bounds on records, crashes, ids, events and clocks are used up, and because a
start that refuses to run, a job that is done and a race that is over stop.

**Fairness.** `FairSpec` assumes weak fairness of the request being served, of
the actor, of the executor and of the races together. The runtime polls every
task that is ready, `Handle` methods do not wait, and every effect carries a
timeout (`reach_timeout`, the probe deadline, the readiness waits of the
cores). Nothing is assumed about requests or, in `FairSpec`, monitors.
`FairServiceSpec` adds weak fairness of the retry loop, which looks again after
at most its cap for as long as the service lives, and of the monitors, which
tick for as long as their connection lives.

## 4. Proofs

The theorems hold for any sets of profiles, endpoints, names, paths, routes,
documents, clients and rules, any tiers, orders, thresholds and waits, any
mailbox capacity and any number of tasks, under the named assumptions of the
modules. Those say, beside the types of the constants:

* thresholds and capacities are positive, and a non-empty set of profiles or
  endpoints has a first one in the configured order;
* the subscribers, the signers of a feed and the addresses of an endpoint are
  finitely many, and the values that stand for "none" (`NoPath`, `Absent`,
  `Nobody`, `NoProfile`) are none of the things they stand beside;
* a host route is one of the routes the journal knows (`CrashesAssumption`);
* twice the first wait is at most the cap and the least gap of a retry
  (`PaceAssumption`; the code has 15 s, 5 minutes and 60 s);
* the built-in rules fit below the block of encrypted DNS and that below the
  person's, and no endpoint is one of the local ranges (`RulesAssumption`).

* **EngineProofs** – lemmas about the operators: a probe keeps `Health`; what
  `RankFirst` offers is an endpoint or `NoEndpoint`; every handler keeps
  `Engines` and `InUse`; every handler's work leads from the tunnel the old
  phase names to the one the new phase names (`StepLeads`).
* **EngineAloneProofs** – `EngineSafety`: `Spec => [](TypeOK /\ AskedIsPhase /\
  EndpointInUse)`. The conjunction is the inductive invariant. `AskedIsPhase` is
  not inductive alone: that a relocated tunnel is the one asked for needs the
  phase to have a profile and endpoint at all, which is `EndpointInUse`, and
  that a step's result is an engine at all, which is `TypeOK`.
  `EngineAskedIsPhase` and `EngineEndpointInUse` are its parts. The second also
  says that the `expect("a race always has an endpoint")` cannot fail.
  `OneTunnelAtATime` and `NoSilentChange` are action properties: each handler is
  shown to ask for work in one of a few shapes and to emit the event that goes
  with it, seen from the tunnel before the step.
* **OrchestratorProofs** – `OrchestratorTypeOK`, from `TInv`: `TypeOK`, `InUse`
  of the engine (a monitor is started for an endpoint, never for none) and that
  a monitor about to send has a report to send. `ConnectIsTakenUp`, from `CInv`:
  the claim of a connect has one owner at a time – the request being served,
  the message, or the actor until it clears the flag (`OneOwner`); while the
  flag is claimed and judged the published state is that of an engine at rest
  (`ShownAtRest`, `RestWhenJudged`). The property alone does not say why no
  second connect can be judged in between; the owner does.
  `CarriedWhileConnected`, `DownWhenQuiet`, `RacesRunWhileDown`,
  `NothingLeftAfterShutdown` and `BlockedStaysBlocked` come from `AInv`, which
  follows an attempt through every place its work and its answers can be. What
  brings the current attempt's tunnel up is the last item of work, or the item
  under way with nothing behind it (`WorkInv`, `ItemInv`); an answer that bears
  the current attempt's number, in the executor, a race task or the mailbox,
  finds the work done and the phase it was for (`OutInv`, `MailInv`, `RaceInv`);
  a race of an earlier attempt that still runs has what cancels it in the queue;
  and an engine that uses no tunnel has a stop on its way with no start behind
  it, or none is up (`PhaseInv`). None of the five properties is inductive: each
  holds only because a stale answer is recognised by its number, and that
  number means something only with the rest.
  `ConnectionIsAsPromised` is the refinement of `PromisedConnection`: its
  `state` is read off the phase, `claims` is the tunnel the engine names when
  connected, `up` the one that is up, `busy` whether work is queued or under
  way, `asked` whether a connect is in the mailbox, `life` how far a shutdown
  has come. Every step is matched or changes nothing of it. That an
  answered race or start may settle it needs `AInv` (nothing else is under way
  when a fresh report comes), and `WholeTunnel`: a tunnel that is up has both a
  profile and an endpoint. `CarriedWhileConnected` follows from it too and is
  stated on its own because it is what a person sees.
* **ServiceProofs** – the orchestrator in its slot, with the retry loop and the
  changes that replace it. `ServiceKeepsOrchestrator` carries the orchestrator's
  properties over, because a new orchestrator begins where `TInv`, `CInv` and
  `AInv` hold and steps of the retired one leave it alone. `RetiredNeverConnects`
  needs that a replacement happens only with no connect claimed, so that the old
  mailbox has none (`RetiredInv`); the invariant of the retired one is that of
  `OrchestratorProofs`, instantiated with the variables of the old orchestrator.
  `OffMeansOff` needs `WishInv`: a wish to be connected is there only after the
  person said so. `RetiredTunnelComesDown`: the retired one has a stop on its way
  with no start behind it, or nothing is up (`ComesDown`); at rest without a
  connect nothing but the barrier is queued (`RestsDown`), so that stays true.
* **UndoJournalProofs** – `JournalSafety`: `JournalSpec => []JournalInv`, for any
  routes and any number of records. `ChangesAreRecorded` (a route of ours is in
  the file) is not inductive: a save writes what memory holds, and a withdrawal
  is about to drop an entry. `JournalInv` adds that identifiers are below the
  next one and unique (otherwise dropping one record could drop another), that
  every route of ours is named by a record that is in the file and in memory and
  is not the one the call under way will drop (`MemoryAndDisk`), and what each
  call under way has already done (`CallUnderWay`). `JournalRecordsChanges` is
  its consequence, and `JournalKeepsPromise` the refinement: the registry
  implements `RecordedChanges` with the routes of ours as `made` and the entries
  of the file as `recorded`.
* **MachineProofs** – starts, stops, moves and recovery. `TunnelUsesJournal`: the
  machine implements the journal's specification, step by step, so the journal's
  theorems hold of it (`TunnelKeepsPromise`). `PeerHasItsRoutes`,
  `TakeDownIsComplete` and `ReadyMeansRestored` come from `MachineInv`, the
  journal's invariant and `LifeInv`. The last describes the steps still to do of
  the operation under way: they are in the order the code has them (`Shaped`),
  everything that is on the machine and not `stuck` has the step that removes it
  ahead (`Cleared`), routes come before the peer they guard and go after it
  (`RoutesFirst`, `PeerHandled`), and at each point of the recovery how much of
  the earlier life is already gone (`Recovering`).
* **ServicePartsProofs** – `HeldSafety`: the copy that approving takes is used
  after the lock on the waiting changes is let go, so `AppliedOnce` needs that
  the `approving` lock has one holder and that an applied change still waiting
  is about to be dropped by it. `StreamSafety`: backlog, position and what is
  left of the session so far have no gap between them; `StreamSlots`: the
  counter is the number of those who took a slot. `ConfigSafety`: the file is
  backed by sealed credentials, and so is what the change under way will write.
  `FeedSafety`, `FeedNeverOlder`, `FeedStartsAsItEnded`: what is in memory is
  the newest, the files are not behind it and agree unless a write is
  outstanding, and accepted keys are signed by the roots. `TriedAgainInTime`,
  `TriesAreSpaced`, `ConnectsOnlyAsAsked`: the time since a look, or a try, and
  the wait ahead add up (`Paced`, `Spaced`), and memory has the person's last word. `LedgerSafety`, `NothingLeftUnsaid`: what a
  run has in memory is what the ledger says, each resource at the provider has
  its intent on record before the call, and what a clean-up has not dealt with
  is still on its list. `PartsStayTyped`, `PartsAreRouted` and `PartsAreReadBack`
  are about `PartsSpec`, which the run checks: the invariants of the parts hold
  together because one part moves at a time. The types are not all inductive by
  themselves: no result on the board of a race is later than its clock
  (`RaceKept`), a move of the path watch goes to a path that has a gateway
  (`WatchKept`), and a change that is taken back goes back to a configuration
  within the limit on endpoints (`Bounded`).
* **NetworkProofs** – `RouteFollowsCarrier`: a link that was lost is one the loop
  is about to decide on (`Steered`), and the table holds the route kept with the
  tunnel whatever failed (`Installed`). `RaceCleansUp`, and `RaceKeepsItsPromise`, the
  refinement of `PromisedRace`: the board of results, the times on it and the
  decision taken from it are related to what was heard and when.
  `ReportsAreHonest`: a clock that runs has that many looks behind it.
  `RulesAreKept`, `RulesAreReadBack`: the rules are always the built-in ones,
  the block of the choice in effect and at most `MaxUserRules` of the person's,
  all of different precedence in their bands (`RulesInv`); from that, what is
  saved is read back as it was, and the first rule that matches is the one
  `RoutedAsRuled` says.

`TInv`, `CInv`, `AInv`, `JournalInv` and `MachineInv` (without the set its steps
are drawn from, which mixes words and routes and which TLC cannot enumerate)
were checked with TLC as invariants as well.

The rule properties are evaluated by the run only in the states of that part,
as `PartsRoutedAsRuled` and `PartsReadBackTheSame`; `RulesAreKept` and
`RulesAreReadBack` state `RoutedAsRuled` and `ReadBackTheSame` of `RulesSpec`
itself, `PartsAreRouted` and `PartsAreReadBack` of the parts side by side.

**What the violated properties lack.** The violated properties of section 6 are
false of the code, so no theorem states them. For the four that are about
safety a theorem says which step is to blame: with that step left out, the
property holds of everything else the code can do, so a change that closes that
one window is enough.

| Theorem | Property | holds unless |
|---|---|---|
| `NotConnectedUnlessPublished` (OrchestratorProofs) | `NotConnectedIsTrue` | what the request read first is no longer what is shown when it reads the flag |
| `OneTunnelUnlessBusy` (ServiceProofs) | `OnlyOneTunnel` | the configuration is changed while work is queued or under way |
| `WithdrawnUnlessOverlapping` (ServicePartsProofs) | `WithdrawnIsNotApplied` | a change is being withdrawn while it is being approved |
| `RationedUnlessMovesFail` (ServicePartsProofs) | `MovesAreRationed` | a carry-over fails (or `HOLD_AFTER_FAILURE` is zero, and a failure cannot be seen) |

The first needs `ShownIdle`: what is shown as disconnected is idle, except
between taking a connect and publishing it, when the flag is up. The second
needs that the executor has caught up at the change (`QuietMeansDown`) and that
nothing is brought up afterwards (`Bare`, kept by `RestsDown`).

Only model-checked: the liveness properties `AttemptSettles`,
`DisconnectTakesDown`, `ShutdownReturns` and `LeftOnIsRetried`, because fairness
is beyond the prover. Every invariant and every action property of a passing run
is stated by a theorem.

## 5. What is not modelled, and what is assumed

The map of `PROJECT.json` covers somewhat under a tenth of the lines under
`crates/`. About half of those lines are tests and comments, and most of the
rest turns one text into another or calls the operating system: rendering and
parsing of configurations, protocol messages and answers, the script a new
server runs, the command line, views, installers and development tools. They
keep no state that another step reads, so a state machine has nothing to say of
them. What does keep state and is left out:

* `start_path_watch` of the orchestrator, which turns path readings into
  `PathChanged` and `Connectivity`; in the engine these only emit events of a
  connected session (`PathNews`).
* `session_switch.rs` and the restart limit of `restart.rs`: nothing in the
  service calls them.
* The accept and frame loops of the control pipe, versions and authorisation of
  a connection. Their requests appear in the modules of what they ask for.
* `server_setup.rs`: one slot, every use of it under the store lock, which
  `DnetService::apply` holds for its whole length.
* The gap detector (`tick_gap.rs`), which only asks for another look; the choice
  of what to probe; the reason given for staying on a path, which is any reason
  in `PathReports`.
* Telemetry counters and the sort of profiles by them.
* Rules by program, which this build refuses.
* A journal file that cannot be decoded: the service refuses to start.
* Wall-clock time: a retry, a tick and a timeout of the core can come at any
  moment. Where limits are compared (held changes, back-off, feed, paths,
  reports, races) time is a bounded clock or an age.

Assumptions the modules make about what is outside them:

* A host route is put on an adapter that can have its gateway, which of them is
  the system's choice; adapters may share gateways. Rows are what the service put
  in the table: that the system drops those of an adapter that goes is left out.
* Fresh names (of held changes, endpoints, tokens) are never given twice.
* The loop of a race turns at least once in a unit of time.
* The provider: a create call that reports an error may have taken effect, one
  that has returned takes no effect later, and a search finds what exists or
  reports an error.
* The broadcast channel is tokio's: a receiver that falls behind is told by how
  many.
* A save that reports failure leaves the old file or the new one, never part of
  one; an append to the ledger may leave part of a line.
* A fetch gives any of the documents, or fails.
* The ages of moves and waits are kept up to the limit they are compared with.

## 6. Disagreements between the code and what it says

1. **Two tunnels across a configuration change** (`service_replaced`). `reload`
   replaces an orchestrator that is idle "with nothing to undo". Idle is judged
   by the published state, and a disconnect publishes `Disconnected` before the
   executor has carried out the stop, or even finished the start that was under
   way. The new orchestrator has a `Tunnels` of its own; its tunnel can come up
   while the old one stands.
2. **An unreachable endpoint can stay so for ever** (`service_unreachable`).
   `Unreachable` is documented as never terminal, but only the monitor of a
   connection probes endpoints, and a connect refuses before it probes when no
   endpoint is a candidate. With one endpoint, every retry fails at once.
3. **NotConnected while connecting** (`orch_snapshot`). `snapshot` reads the
   state before the flag; the actor publishes before it clears. A disconnect
   that falls between is refused and the connect goes on. `is_idle` reads in
   the order that is safe.

4. **Withdrawn and applied** (`change_withdrawn`). `reject_change` looks the
   change up and removes it without the lock `approve_change` holds while it
   applies its copy. Both clients are told they succeeded; "drop the held change
   without applying it" is not what happened.
5. **The budget of moves is forgotten** (`path_budget`). After a failed
   carry-over the monitor is put back with a new failover state. The moves
   already made in the window are gone from it, although `failover.rs` says no
   more than `max_moves` may happen "however the quality fluctuates".

Observations from reading and modelling that no run claims as a finding:

* `RelocateRace` is unreachable in the composed system, because only the monitor
  of a connection probes endpoints.
* The live move of `fold_moves` needs the same endpoint and two carriers of one
  session, which no stop-and-start pair of the engine offers (a relocation
  changes the endpoint, a recovery without a race goes to a direct profile).
* `retire` uses `try_send`: with a full mailbox the old orchestrator is never
  told to stop.
* `configure.rs` says the file never names credentials that do not exist. A save
  that fails after the rename reports failure, and the add then unseals what the
  file now names (`unsaid` in `SavedConfig`).
* `win_route.rs`: a route that another program makes between the look at the
  table and the record is taken for ours.
* `effects.rs`: a preparation that fails after its write leaves the generated
  configuration until the next start.
* `feed_service.rs`: a start that cannot read the stored documents begins with
  none, and an older document can then be accepted (`lost` in `SignedFeed`).
* `feed_fetch.rs`: whether the connection is up is looked at once, before a fetch
  that "never goes over the physical network"; the time documents are judged by
  is also taken before the fetch.
* `ledger.rs`: after a failed append that left part of a line, the next append in
  the same run continues that line (`joined` in `ServerJob`).
* `netwatch.rs` says a failed move puts the monitor back on "the path the tunnel
  is still on". When the rewrite is done and the rebind fails, the host route
  is already at the new gateway and stays there; the monitor names the old path.
  `RouteIsCarrying` excuses this (`adrift`), as it does a new gateway or a move
  from no path that fails, a link lost when or while the loop is held, and a first
  look that does not find the tunnel's router.
* `host_route.rs` says that if the rewrite fails nothing changed. One that fails
  to remove the old route has installed the new one, and both stay
  (`doubled` in `PathWatch`).
* `win_route.rs`: a `HostRoute` has no interface, and a rewrite to an equal one is
  done at once. A move between two adapters with one gateway (cable and Wi-Fi on
  one LAN) is reported as done while the route stays on the old adapter; and a
  new route goes to the adapter the system reaches the gateway by, which need not
  be the one moved to. So `RouteIsCarrying` is about the gateway.
* `keep_trying.rs`: only the loop's own tries count for the gap. The resume of a
  start or a person's connect that fails can be followed at once by a try that
  its own teardown drives, once.
* `netwatch.rs`: a new gateway whose carry-over fails is not tried again until
  the next change; a move that fails also restarts the clocks of the report, so
  a poor path whose moves keep failing is never reported.
* `degraded.rs` says neither clock runs through silence; they are kept, as its
  tests expect.
* `server_setup.rs`: a setup that is issued again says it is valid for the whole
  wait although less is left, and the module's comment says an hour where the
  wait is six.
* `primary.rs`: Tunnel rules do not appear in the chain of lookups, so a name
  with a Tunnel rule ahead of a bypass is looked up locally.
* `race.rs` says nothing is left running when a race returns; a core whose probe
  has reported may still be in the grace of being stopped.
* Rules by program are matched after normalising the path and written to the core
  as they were given; only a restored file can hold one.
* `server.rs` writes answers to a client without a time limit.

## 7. Plan

What the models could still take in, in this order:

1. `PathReports` composed with `PathWatch`, with the reason for staying that
   `failover.rs` gives instead of any reason.
2. The setup by hand (`server_setup.rs`), should a use of it leave the store lock.
3. The accept and frame loops of the control pipe, with the limit on clients.
