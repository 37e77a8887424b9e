---------------------------- MODULE ServiceProofs ----------------------------
(***************************************************************************)
(* The service around the orchestrator, for any configuration and any      *)
(* number of changes to it: what the orchestrator guarantees survives its  *)
(* replacement, an orchestrator that was replaced never connects again and *)
(* takes its tunnel down, nothing is tried again after the person          *)
(* disconnected, and what it takes for two tunnels to be up.               *)
(***************************************************************************)
EXTENDS Service, OrchestratorProofs

\* The lemmas of OrchestratorProofs, of the orchestrator that was retired.
Retired == INSTANCE OrchestratorProofs WITH
    eng <- oldEng, attempt <- oldAttempt, actor <- oldActor, mailbox <- oldMailbox,
    shown <- oldShown, connecting <- oldConnecting, client <- oldClient, work <- oldWork,
    exec <- oldExec, token <- oldToken, races <- oldRaces, monitors <- oldMonitors,
    tunnel <- oldTunnel, stopping <- oldStopping

-----------------------------------------------------------------------------
(* Old of Service and Retired are the same orchestrator: their definitions *)
(* differ in nothing but the name they go by.                              *)

\* The engine's step (Engine::step).
LEMMA SameStep ==
    ASSUME NEW e, NEW in
    PROVE  Old!Step(e, in) = Retired!Step(e, in)
BY DEF Old!AnsweredProbe, Old!Asked, Old!AtRest, Old!BecameUnreachable, Old!Begin,
       Old!BestState, Old!BestTier, Old!Blocks, Old!CancelRace, Old!Candidates,
       Old!Classify, Old!Connect, Old!CountTo, Old!DirectFallback, Old!Disconnect,
       Old!EndpointProbe, Old!Fail, Old!FailedProbe, Old!FirstEndpoint,
       Old!FirstProfile, Old!Ignored, Old!LiveCheck, Old!MarkBlocked, Old!MarkWorking,
       Old!MustLeave, Old!NewAttempt, Old!NoCause, Old!NoReach, Old!Observe,
       Old!OnProbe, Old!OnlyTheNamed, Old!PathNews, Old!Probed, Old!Race,
       Old!RaceFinished, Old!Racing, Old!RankFirst, Old!RecordResults, Old!Recover,
       Old!RelocateRace, Old!RelocateTunnel, Old!ResetDetector, Old!SetPhase, Old!Start,
       Old!StartFailed, Old!StartRace, Old!StartTunnel, Old!StateAfterSuccess,
       Old!StateRank, Old!Step, Old!Stop, Old!Then, Old!TunnelUp, Old!Unblocked,
       Old!Using, Retired!AnsweredProbe, Retired!Asked, Retired!AtRest,
       Retired!BecameUnreachable, Retired!Begin, Retired!BestState, Retired!BestTier,
       Retired!Blocks, Retired!CancelRace, Retired!Candidates, Retired!Classify,
       Retired!Connect, Retired!CountTo, Retired!DirectFallback, Retired!Disconnect,
       Retired!EndpointProbe, Retired!Fail, Retired!FailedProbe, Retired!FirstEndpoint,
       Retired!FirstProfile, Retired!Ignored, Retired!LiveCheck, Retired!MarkBlocked,
       Retired!MarkWorking, Retired!MustLeave, Retired!NewAttempt, Retired!NoCause,
       Retired!NoReach, Retired!Observe, Retired!OnProbe, Retired!OnlyTheNamed,
       Retired!PathNews, Retired!Probed, Retired!Race, Retired!RaceFinished,
       Retired!Racing, Retired!RankFirst, Retired!RecordResults, Retired!Recover,
       Retired!RelocateRace, Retired!RelocateTunnel, Retired!ResetDetector,
       Retired!SetPhase, Retired!Start, Retired!StartFailed, Retired!StartRace,
       Retired!StartTunnel, Retired!StateAfterSuccess, Retired!StateRank, Retired!Step,
       Retired!Stop, Retired!Then, Retired!TunnelUp, Retired!Unblocked, Retired!Using

\* The actor (Actor::run).
LEMMA SameAct == Old!Act => Retired!Act
BY SameStep
   DEF Old!Act, Old!ActorStep, Old!AfterPublish, Old!Barrier, Old!CheckReach,
       Old!ClearConnecting, Old!DisconnectMsg, Old!FoldMoves, Old!Fresh, Old!Move,
       Old!NewMonitor, Old!Publish, Old!SnapshotOf, Old!Status, Old!Tagged,
       Old!TakeConnect, Old!TakeDisconnect, Old!TakeMessage, Old!TakeReport,
       Old!TakeShutdown, Old!Watching, Old!execVars, Retired!Act, Retired!ActorStep,
       Retired!AfterPublish, Retired!Barrier, Retired!CheckReach,
       Retired!ClearConnecting, Retired!DisconnectMsg, Retired!FoldMoves, Retired!Fresh,
       Retired!Move, Retired!NewMonitor, Retired!Publish, Retired!SnapshotOf,
       Retired!Status, Retired!Tagged, Retired!TakeConnect, Retired!TakeDisconnect,
       Retired!TakeMessage, Retired!TakeReport, Retired!TakeShutdown, Retired!Watching,
       Retired!execVars

\* The executor (execute).
LEMMA SameExecute == Old!Execute => Retired!Execute
BY DEF Old!CanMove, Old!CancelHeld, Old!Closed, Old!Deliver, Old!Done, Old!EnvReport,
       Old!Execute, Old!FailedReport, Old!Idle, Old!MoveTried, Old!NewRace,
       Old!NoReport, Old!NoTunnel, Old!NoWork, Old!ReachDone, Old!Report, Old!Room,
       Old!Running, Old!SendReport, Old!Start, Old!StartFails, Old!StartSucceeds,
       Old!StopDone, Old!TakeWork, Old!Tunnel, Old!UpReport, Old!actorVars,
       Old!handleVars, Retired!CanMove, Retired!CancelHeld, Retired!Closed,
       Retired!Deliver, Retired!Done, Retired!EnvReport, Retired!Execute,
       Retired!FailedReport, Retired!Idle, Retired!MoveTried, Retired!NewRace,
       Retired!NoReport, Retired!NoTunnel, Retired!NoWork, Retired!ReachDone,
       Retired!Report, Retired!Room, Retired!Running, Retired!SendReport, Retired!Start,
       Retired!StartFails, Retired!StartSucceeds, Retired!StopDone, Retired!TakeWork,
       Retired!Tunnel, Retired!UpReport, Retired!actorVars, Retired!handleVars

\* The races (Executor::start_race).
LEMMA SameRunRace == Old!RunRace => Retired!RunRace
BY DEF Old!Closed, Old!Deliver, Old!NoReport, Old!Outcomes, Old!RaceDone,
       Old!RaceReports, Old!Report, Old!Results, Old!Room, Old!RunRace, Old!Running,
       Old!actorVars, Old!execVars, Old!handleVars, Retired!Closed, Retired!Deliver,
       Retired!NoReport, Retired!Outcomes, Retired!RaceDone, Retired!RaceReports,
       Retired!Report, Retired!Results, Retired!Room, Retired!RunRace, Retired!Running,
       Retired!actorVars, Retired!execVars, Retired!handleVars

\* The monitors (monitor).
LEMMA SameWatch == Old!Watch => Retired!Watch
BY DEF Old!Closed, Old!Deliver, Old!EnvReport, Old!MonitorChecks, Old!MonitorLooks,
       Old!MonitorSends, Old!NoTunnel, Old!Report, Old!Room, Old!Superseded, Old!Watch,
       Old!actorVars, Old!execVars, Old!handleVars, Retired!Closed, Retired!Deliver,
       Retired!EnvReport, Retired!MonitorChecks, Retired!MonitorLooks,
       Retired!MonitorSends, Retired!NoTunnel, Retired!Report, Retired!Room,
       Retired!Superseded, Retired!Watch, Retired!actorVars, Retired!execVars,
       Retired!handleVars

\* What they are made of.
LEMMA SameSets ==
    /\ Retired!Engines = Engines /\ Retired!Messages = Messages /\ Retired!News = News
    /\ Retired!Statuses = Statuses /\ Retired!Clients = Clients
    /\ Retired!WorkItems = WorkItems /\ Retired!Reports = Reports
    /\ Retired!RaceTasks = RaceTasks /\ Retired!MonitorTasks = MonitorTasks
    /\ Retired!AtRest = AtRest
    /\ \A q : Retired!ConnectAt(q) = ConnectAt(q)
    /\ \A e : Retired!InUse(e) = InUse(e)
<1>1. Retired!Engines = Engines
  BY DEF Engines, Phases, Causes, NoCause, Health, HealthStates, Environment, ReachAnswers,
         Retired!Engines, Retired!Phases, Retired!Causes, Retired!NoCause, Retired!Health,
         Retired!HealthStates, Retired!Environment, Retired!ReachAnswers
<1>2. Retired!News = News
  BY DEF News, Inputs, Results, Retired!News, Retired!Inputs, Retired!Results
<1>3. Retired!Reports = Reports
  BY <1>2 DEF Reports, Retired!Reports
<1>4. Retired!Messages = Messages
  BY <1>3 DEF Messages, Retired!Messages
<1>5. Retired!Statuses = Statuses /\ Retired!Clients = Clients
  BY DEF Statuses, Clients, Retired!Statuses, Retired!Clients
<1>6. Retired!WorkItems = WorkItems
  BY DEF WorkItems, Retired!WorkItems
<1>7. Retired!RaceTasks = RaceTasks /\ Retired!MonitorTasks = MonitorTasks
  BY <1>2, <1>3 DEF RaceTasks, MonitorTasks, NoReport, Retired!RaceTasks,
                    Retired!MonitorTasks, Retired!NoReport
<1>8. Retired!AtRest = AtRest /\ \A q : Retired!ConnectAt(q) = ConnectAt(q)
  BY DEF AtRest, ConnectAt, Retired!AtRest, Retired!ConnectAt
<1>9. \A e : Retired!InUse(e) = InUse(e)
  BY DEF InUse, Using, Racing, Retired!InUse, Retired!Using, Retired!Racing
<1> QED BY <1>1, <1>2, <1>3, <1>4, <1>5, <1>6, <1>7, <1>8, <1>9

-----------------------------------------------------------------------------
(* The invariant.  A wish to be connected is there only after the person   *)
(* said so.  The orchestrator in the slot has the invariants of its own    *)
(* proofs.  The one that was retired has its type, is at rest, and has no  *)
(* connect on its way.                                                     *)

WishInv == /\ wish \in [on: BOOLEAN, profile: Names \cup {NoProfile}]
           /\ wish.on => said = "on"

RetiredInv == /\ Retired!TInv
              /\ oldEng.phase \in AtRest
              /\ ConnectAt(oldMailbox) = {}

SInv == TInv /\ CInv /\ AInv /\ WishInv /\ RetiredInv

\* What it takes for the retired orchestrator to have its type.
LEMMA RetiredTInv ==
    Retired!TInv <=>
        /\ oldEng \in Engines /\ oldAttempt \in Nat
        /\ oldActor \in {"recv", "publish", "publishConnect", "publishLast", "clear", "ended"}
        /\ oldMailbox \in Seq(Messages) /\ Len(oldMailbox) =< MailboxCap
        /\ oldShown.status \in Statuses
        /\ oldConnecting \in BOOLEAN
        /\ oldClient \in Clients
        /\ oldWork \in Seq([attempt: Nat, do: WorkItems])
        /\ oldExec \in [item: WorkItems, for: Nat, out: Seq(Reports)]
        /\ oldToken \in Nat
        /\ oldRaces \subseteq RaceTasks
        /\ oldMonitors \subseteq MonitorTasks
        /\ oldTunnel \in [profile: Profiles \cup {NoProfile}, endpoint: Endpoints \cup {NoEndpoint}]
        /\ oldStopping \in {"no", "asked", "done"}
        /\ InUse(oldEng)
        /\ \A m \in oldMonitors : m.cleared => m.queue # <<>>
BY SameSets DEF Retired!TInv, Retired!TypeOK, Retired!HasReport

\* At the start nothing was retired yet (Service::new).
LEMMA InitSInv == ServiceInit => SInv
<1> SUFFICES ASSUME ServiceInit PROVE SInv
  OBVIOUS
<1>1. TInv /\ CInv /\ AInv
  BY InitTInv, InitCInv, InitAInv DEF ServiceInit
<1>2. WishInv
  BY DEF ServiceInit, WishInv, Off
<1>3. NewEngine \in Engines /\ InUse(NewEngine) /\ NewEngine.phase \in AtRest
  BY NewEngineInUse DEF NewEngine, AtRest
<1>4. SnapshotOf(NewEngine).status \in Statuses /\ Unserved \in Clients
  BY DEF SnapshotOf, Status, Statuses, Unserved, Clients
<1>5. [item |-> NoWork, for |-> 0, out |-> <<>>] \in [item: WorkItems, for: Nat, out: Seq(Reports)]
  BY DEF NoWork, WorkItems
<1>6. NoTunnel \in [profile: Profiles \cup {NoProfile}, endpoint: Endpoints \cup {NoEndpoint}]
  BY DEF NoTunnel
<1>7. oldMailbox \in Seq(Messages) /\ Len(oldMailbox) =< MailboxCap /\ ConnectAt(oldMailbox) = {}
  BY OrchestratorAssumption DEF ServiceInit, ConnectAt
<1>8. oldWork \in Seq([attempt: Nat, do: WorkItems])
  BY DEF ServiceInit
<1>9. Retired!TInv
  BY <1>3, <1>4, <1>5, <1>6, <1>7, <1>8, RetiredTInv DEF ServiceInit
<1>10. RetiredInv
  BY <1>3, <1>7, <1>9 DEF RetiredInv, ServiceInit
<1> QED BY <1>1, <1>2, <1>10 DEF SInv

-----------------------------------------------------------------------------
(* The steps.                                                              *)

\* A new orchestrator starts as the first one did (Service::rebuild).
LEMMA RebuildInv == Rebuild => TInv' /\ CInv' /\ AInv'
<1>1. Rebuild => Init'
  BY DEF Rebuild, Init, NewEngine, SnapshotOf, Status, Unserved, NoWork, NoTunnel
<1>2. Init' => TInv' /\ CInv' /\ AInv'
  BY InitTInv, InitCInv, InitAInv, PTL
<1> QED BY <1>1, <1>2

\* For the orchestrator in the slot every other step is one of its own, or
\* none.
LEMMA Projection ==
    ASSUME WishInv, [ServiceNext]_serviceVars
    PROVE  [Next]_vars \/ ChangeConfiguration
<1>1. ASSUME NEW p \in Names \cup {NoProfile}, PersonConnects(p) PROVE Next
  BY <1>1 DEF PersonConnects, Next, Request
<1>2. CASE RetryIfLeftOn
  <2>1. wish.profile \in Names \cup {NoProfile} /\ AskConnect(wish.profile)
    BY <1>2 DEF RetryIfLeftOn, WishInv
  <2> QED BY <2>1 DEF Next, Request
<1>3. CASE ConnectSent
  BY <1>3 DEF ConnectSent, Next, Serve
<1>4. CASE PersonDisconnects
  BY <1>4 DEF PersonDisconnects, Next, Request
<1>5. CASE DisconnectAnswered
  BY <1>5 DEF DisconnectAnswered, Next, Serve
<1>6. CASE CurrentRuns
  BY <1>6 DEF CurrentRuns, Next, Serve
<1>7. CASE OldRuns
  BY <1>7 DEF OldRuns
<1>8. CASE UNCHANGED serviceVars
  BY <1>8 DEF serviceVars
<1> QED BY <1>1, <1>2, <1>3, <1>4, <1>5, <1>6, <1>7, <1>8 DEF ServiceNext

\* The wish follows the person's word (Intent::remember, Intent::forget).
LEMMA NextWish ==
    ASSUME TInv, WishInv, [ServiceNext]_serviceVars
    PROVE  WishInv'
<1>0. client.profile \in Names \cup {NoProfile}
  BY DEF TInv, TypeOK, Clients
<1>1. CASE UNCHANGED <<wish, said>>
  BY <1>1 DEF WishInv
<1>2. CASE ConnectSent
  <2>1. CASE Remembers
    BY <1>0, <1>2, <2>1 DEF ConnectSent, On, WishInv
  <2>2. CASE ~Remembers
    BY <1>1, <1>2, <2>2 DEF ConnectSent
  <2> QED BY <2>1, <2>2
<1>3. CASE PersonDisconnects
  BY <1>3 DEF PersonDisconnects, Off, WishInv
<1>4. ASSUME NEW p \in Names \cup {NoProfile}, PersonConnects(p) PROVE UNCHANGED <<wish, said>>
  BY <1>4 DEF PersonConnects
<1>5. CASE RetryIfLeftOn \/ DisconnectAnswered \/ ChangeConfiguration \/ CurrentRuns \/ OldRuns
  BY <1>1, <1>5 DEF RetryIfLeftOn, DisconnectAnswered, ChangeConfiguration, CurrentRuns,
                    OldRuns, wishVars
<1>6. CASE UNCHANGED serviceVars
  BY <1>1, <1>6 DEF serviceVars, wishVars
<1> QED BY <1>1, <1>2, <1>3, <1>4, <1>5, <1>6 DEF ServiceNext

\* An orchestrator that is replaced is at rest and has no connect on its way:
\* whoever saw it idle held the store lock, and nobody had claimed the flag
\* (Handle::is_idle, Handle::retire).
LEMMA RetireInv ==
    ASSUME TInv, CInv, IsIdle, Retire
    PROVE  RetiredInv'
<1>0. /\ eng \in Engines /\ mailbox \in Seq(Messages) /\ Len(mailbox) =< MailboxCap
      /\ ShutdownMsg \in Messages /\ ShutdownMsg.kind # "Connect"
  BY DEF TInv, TypeOK, ShutdownMsg, Messages
<1>1. ~Sent /\ ~Taking
  BY DEF IsIdle, CInv, OneOwner
<1>2. eng.phase \in AtRest
  BY <1>1 DEF IsIdle, CInv, ShownAtRest, Taking
<1>3. /\ oldEng' \in Engines /\ InUse(oldEng') /\ oldEng'.phase \in AtRest
  <2>1. oldEng' = [NewEngine EXCEPT !.phase = eng.phase, !.cause = eng.cause]
    BY DEF Retire
  <2>2. NewEngine \in Engines /\ NewEngine.raced = {}
    BY NewEngineInUse DEF NewEngine
  <2>3. /\ oldEng' \in Engines /\ oldEng'.phase = eng.phase /\ oldEng'.raced = {}
    BY <1>0, <2>1, <2>2 DEF Engines
  <2> QED BY <1>2, <2>3 DEF InUse, AtRest, Using, Racing
<1>4. /\ oldMailbox' \in Seq(Messages) /\ Len(oldMailbox') =< MailboxCap
      /\ ConnectAt(oldMailbox') = {}
  <2>1. ConnectAt(mailbox) = {}
    BY <1>1 DEF Sent
  <2>2. CASE Room
    <3>1. oldMailbox' = Append(mailbox, ShutdownMsg) /\ Len(mailbox) < MailboxCap
      BY <2>2 DEF Retire, Room
    <3> QED BY <1>0, <2>1, <3>1, AppendOther, OrchestratorAssumption
  <2>3. CASE ~Room
    BY <1>0, <2>1, <2>3 DEF Retire
  <2> QED BY <2>2, <2>3
<1>5. Retired!TInv'
  <2>1. /\ oldAttempt' \in Nat
        /\ oldActor' \in {"recv", "publish", "publishConnect", "publishLast", "clear", "ended"}
        /\ oldShown'.status \in Statuses /\ oldConnecting' \in BOOLEAN /\ oldClient' \in Clients
        /\ oldWork' \in Seq([attempt: Nat, do: WorkItems])
        /\ oldExec' \in [item: WorkItems, for: Nat, out: Seq(Reports)]
        /\ oldToken' \in Nat /\ oldRaces' \subseteq RaceTasks /\ oldMonitors' \subseteq MonitorTasks
        /\ oldTunnel' \in [profile: Profiles \cup {NoProfile}, endpoint: Endpoints \cup {NoEndpoint}]
        /\ oldStopping' \in {"no", "asked", "done"}
        /\ \A m \in oldMonitors' : m.cleared => m.queue # <<>>
    BY DEF Retire, TInv, TypeOK, HasReport
  <2> QED BY <1>3, <1>4, <2>1, SameSets DEF Retired!TInv, Retired!TypeOK, Retired!HasReport
<1> QED BY <1>3, <1>4, <1>5 DEF RetiredInv

\* Nobody sends a connect to an orchestrator that was replaced, so it goes on
\* resting while it comes to its end (Actor::run).
LEMMA OldRunsInv ==
    ASSUME RetiredInv, OldRuns
    PROVE  RetiredInv'
<1>1. Retired!Act \/ Retired!Execute \/ Retired!RunRace \/ Retired!Watch
  BY SameAct, SameExecute, SameRunRace, SameWatch DEF OldRuns
<1>2. Retired!TInv /\ Retired!ConnectAt(oldMailbox) = {} /\ oldEng.phase \in Retired!AtRest
  BY SameSets DEF RetiredInv
<1>3. Retired!TInv'
  <2>1. Retired!Next
    BY <1>1 DEF Retired!Next
  <2> QED BY <1>2, <2>1, Retired!NextTInv, EndpointsAssumption, ThresholdsAssumption,
             ProfilesAssumption, ReadingsAssumption, OrchestratorAssumption
          DEF Environment, ReachAnswers, Retired!Environment, Retired!ReachAnswers
<1>4. oldEng'.phase \in Retired!AtRest /\ Retired!ConnectAt(oldMailbox') = {}
  BY <1>1, <1>2, Retired!RestsWithoutConnect, EndpointsAssumption, ThresholdsAssumption,
     ProfilesAssumption, ReadingsAssumption, OrchestratorAssumption
     DEF Environment, ReachAnswers, Retired!Environment, Retired!ReachAnswers
<1> QED BY <1>3, <1>4, SameSets DEF RetiredInv

\* Every step keeps the invariant.
LEMMA NextSInv == SInv /\ [ServiceNext]_serviceVars => SInv'
<1> SUFFICES ASSUME SInv, [ServiceNext]_serviceVars PROVE SInv'
  OBVIOUS
<1>0. TInv /\ CInv /\ AInv /\ WishInv /\ RetiredInv
  BY DEF SInv
<1>1. WishInv'
  BY <1>0, NextWish
<1>2. TInv' /\ CInv' /\ AInv'
  <2>1. CASE [Next]_vars
    BY <1>0, <2>1, NextTInv, NextCInv, NextAInv
  <2>2. CASE ChangeConfiguration
    BY <2>2, RebuildInv DEF ChangeConfiguration
  <2> QED BY <1>0, <2>1, <2>2, Projection
<1>3. RetiredInv'
  <2>1. CASE ChangeConfiguration
    BY <1>0, <2>1, RetireInv DEF ChangeConfiguration
  <2>2. CASE OldRuns
    BY <1>0, <2>2, OldRunsInv
  <2>3. CASE UNCHANGED oldVars
    BY <1>0, <2>3 DEF RetiredInv, oldVars, Retired!TInv, Retired!TypeOK, Retired!HasReport,
                      Retired!InUse
  <2>4. ASSUME NEW p \in Names \cup {NoProfile}, PersonConnects(p) PROVE UNCHANGED oldVars
    BY <2>4 DEF PersonConnects
  <2>5. CASE RetryIfLeftOn \/ ConnectSent \/ PersonDisconnects \/ DisconnectAnswered
                \/ CurrentRuns
    BY <2>3, <2>5 DEF RetryIfLeftOn, ConnectSent, PersonDisconnects, DisconnectAnswered,
                      CurrentRuns
  <2>6. CASE UNCHANGED serviceVars
    BY <2>3, <2>6 DEF serviceVars
  <2> QED BY <2>1, <2>2, <2>3, <2>4, <2>5, <2>6 DEF ServiceNext
<1> QED BY <1>1, <1>2, <1>3 DEF SInv

-----------------------------------------------------------------------------
(* Theorems.                                                               *)

\* An orchestrator that was replaced never leaves rest again, whatever reports
\* and requests were still on their way to it when it was
\* (orchestrator.rs:239, Handle::is_idle; Handle::retire).
THEOREM RetiredNeverConnects == ServiceSpec => []RetiredStaysAtRest
<1>1. SInv => RetiredStaysAtRest
  BY DEF SInv, RetiredInv, RetiredStaysAtRest
<1> QED BY <1>1, InitSInv, NextSInv, PTL DEF ServiceSpec

\* The loop that tries again starts nothing once the person has disconnected,
\* whatever came of that disconnect (keep_trying.rs:12).
THEOREM OffMeansOff == ServiceSpec => NoRetryAfterOff
<1>1. ASSUME SInv, [ServiceNext]_serviceVars
      PROVE  [asker' = "retry" /\ client'.pc = "claimed" /\ client.pc = "free" =>
                 said = "on"]_serviceVars
  <2> SUFFICES ASSUME ServiceNext, asker' = "retry", client'.pc = "claimed",
                      client.pc = "free"
               PROVE  said = "on"
    BY <1>1
  <2>1. ASSUME NEW p \in Names \cup {NoProfile}, PersonConnects(p) PROVE FALSE
    BY <2>1 DEF PersonConnects
  <2>2. CASE RetryIfLeftOn
    BY <1>1, <2>2 DEF RetryIfLeftOn, SInv, WishInv
  <2>3. ~ConnectSent /\ ~DisconnectAnswered
    BY DEF ConnectSent, SendConnect, DisconnectAnswered, AnswerDisconnect, Unserved
  <2>4. ~PersonDisconnects
    BY DEF PersonDisconnects
  <2>5. ~ChangeConfiguration
    BY DEF ChangeConfiguration, Rebuild, Unserved
  <2>6. ~OldRuns
    BY DEF OldRuns, vars, handleVars
  <2>7. ~CurrentRuns
    <3> SUFFICES ASSUME CurrentRuns PROVE FALSE
      OBVIOUS
    <3>1. ~JudgeConnect
      BY DEF JudgeConnect
    <3>2. CASE Act
      BY <3>2 DEF Act, TakeMessage, Publish, ClearConnecting
    <3>3. CASE Execute
      BY <3>3 DEF Execute, TakeWork, ReachDone, StartSucceeds, StartFails, MoveTried, StopDone,
                  SendReport, handleVars
    <3>4. CASE RunRace
      BY <3>4 DEF RunRace, RaceDone, RaceReports, handleVars
    <3>5. CASE Watch
      BY <3>5 DEF Watch, MonitorChecks, MonitorLooks, MonitorSends, handleVars
    <3> QED BY <3>1, <3>2, <3>3, <3>4, <3>5 DEF CurrentRuns
  <2> QED BY <2>1, <2>2, <2>3, <2>4, <2>5, <2>6, <2>7 DEF ServiceNext
<1> QED BY <1>1, InitSInv, NextSInv, PTL DEF ServiceSpec, NoRetryAfterOff

\* What holds of an orchestrator by itself holds of the one in the slot, under
\* retries and across every replacement: an accepted connect is taken up, a
\* connection is carried by the tunnel it names, an engine that wants no tunnel
\* gets rid of it, and races run with none up (service_impl.rs, rebuild).
THEOREM ServiceKeepsOrchestrator ==
    ServiceSpec => [](/\ ConnectTakenUp /\ ConnectedIsCarried /\ QuietMeansDown
                      /\ RaceWhileDown /\ ShutdownLeavesNothing)
<1>1. SInv => /\ ConnectTakenUp /\ ConnectedIsCarried /\ QuietMeansDown
              /\ RaceWhileDown /\ ShutdownLeavesNothing
  BY CInvTakenUp, AInvCarried, AInvQuiet, AInvRaces, AInvShutdown DEF SInv
<1> QED BY <1>1, InitSInv, NextSInv, PTL DEF ServiceSpec

-----------------------------------------------------------------------------
(* Two tunnels.  A change of the configuration looks at what is shown and  *)
(* not at the executor, so the tunnel of the orchestrator it replaces may  *)
(* still be up beside the next one (the run service_replaced).  It comes   *)
(* down all the same, and it is there only when the change came before the *)
(* executor had caught up.                                                 *)

\* Once what was queued at the replaced orchestrator is done, its tunnel is down.
RetiredTakesDown == Old!Idle /\ oldWork = <<>> => oldTunnel = NoTunnel

\* The two of them in the terms of Service.
LEMMA RetiredDown ==
    /\ Retired!ComesDown <=>
        \/ \E i \in 1..Len(oldWork) :
              /\ oldWork[i].do.kind = "StopTunnel"
              /\ \A j \in 1..Len(oldWork) : j > i => oldWork[j].do.kind \notin Bringing
        \/ /\ \A j \in 1..Len(oldWork) : oldWork[j].do.kind \notin Bringing
           /\ \/ oldExec.item.kind = "StopTunnel"
              \/ oldExec.item.kind \notin Bringing /\ oldTunnel = NoTunnel
    /\ Retired!Bare <=>
        /\ \A j \in 1..Len(oldWork) : oldWork[j].do.kind \notin Bringing
        /\ oldExec.item.kind \notin Bringing
        /\ oldTunnel = NoTunnel
BY DEF Retired!ComesDown, Retired!Bare, Retired!Bringing, Bringing, Retired!NoTunnel, NoTunnel

\* An orchestrator that is replaced takes its work and its tunnel with it.
LEMMA RetireDown ==
    ASSUME TInv, CInv, AInv, IsIdle, Retire
    PROVE  /\ Retired!ComesDown'
           /\ Idle /\ work = <<>> => Retired!Bare'
<1>1. eng.phase \notin Using
  BY DEF IsIdle, CInv, OneOwner, ShownAtRest, Taking, AtRest, Using
<1>2. ComesDown
  BY <1>1 DEF AInv, PhaseInv
<1>3. oldWork' = work /\ oldExec' = exec /\ oldTunnel' = tunnel /\ NoTunnel' = NoTunnel
  BY DEF Retire, NoTunnel
<1>4. Retired!ComesDown'
  BY <1>2, <1>3 DEF ComesDown, Retired!ComesDown, Retired!Bringing, Bringing,
                    Retired!NoTunnel, NoTunnel
<1>5. ASSUME Idle, work = <<>> PROVE Retired!Bare'
  <2>1. Len(work) = 0 /\ exec.item.kind = "none" /\ tunnel = NoTunnel
    BY <1>5, <1>1, AInvQuiet DEF Idle, NoWork, QuietMeansDown
  <2> QED BY <1>3, <2>1 DEF Retired!Bare, Retired!Bringing, Retired!NoTunnel, NoTunnel
<1> QED BY <1>4, <1>5

\* What still runs of it afterwards brings nothing up (Actor::run, execute).
LEMMA OldRunsDown ==
    ASSUME RetiredInv, OldRuns
    PROVE  /\ Retired!ComesDown => Retired!ComesDown'
           /\ Retired!Bare => Retired!Bare'
<1>1. Retired!Act \/ Retired!Execute \/ Retired!RunRace \/ Retired!Watch
  BY SameAct, SameExecute, SameRunRace, SameWatch DEF OldRuns
<1>2. Retired!TInv /\ Retired!ConnectAt(oldMailbox) = {} /\ oldEng.phase \in Retired!AtRest
  BY SameSets DEF RetiredInv
<1> QED BY <1>1, <1>2, Retired!RestsDown, EndpointsAssumption, ThresholdsAssumption,
     ProfilesAssumption, ReadingsAssumption, OrchestratorAssumption
     DEF Environment, ReachAnswers, Retired!Environment, Retired!ReachAnswers

\* Nothing else touches it.
LEMMA NextDown ==
    ASSUME SInv, [ServiceNext]_serviceVars
    PROVE  /\ Retired!ComesDown => Retired!ComesDown'
           /\ Retired!Bare /\ (ChangeConfiguration => Idle /\ work = <<>>) => Retired!Bare'
<1>0. TInv /\ CInv /\ AInv /\ RetiredInv
  BY DEF SInv
<1>1. CASE ChangeConfiguration
  BY <1>0, <1>1, RetireDown DEF ChangeConfiguration
<1>2. CASE OldRuns
  BY <1>0, <1>2, OldRunsDown
<1>3. CASE UNCHANGED oldVars
  BY <1>3 DEF oldVars, Retired!ComesDown, Retired!Bare, Retired!NoTunnel
<1>4. ASSUME NEW p \in Names \cup {NoProfile}, PersonConnects(p) PROVE UNCHANGED oldVars
  BY <1>4 DEF PersonConnects
<1>5. CASE RetryIfLeftOn \/ ConnectSent \/ PersonDisconnects \/ DisconnectAnswered
              \/ CurrentRuns
  BY <1>3, <1>5 DEF RetryIfLeftOn, ConnectSent, PersonDisconnects, DisconnectAnswered,
                    CurrentRuns
<1>6. CASE UNCHANGED serviceVars
  BY <1>3, <1>6 DEF serviceVars
<1> QED BY <1>1, <1>2, <1>3, <1>4, <1>5, <1>6 DEF ServiceNext

\* At the start there is no replaced orchestrator.
LEMMA InitDown == ServiceInit => Retired!ComesDown /\ Retired!Bare
BY DEF ServiceInit, Retired!ComesDown, Retired!Bare, Retired!Bringing, Retired!NoTunnel,
       NoTunnel, NoWork

\* However busy an orchestrator was when it was replaced, and whatever reports
\* and starts were still on their way, what it has left to do ends with its
\* tunnel down (Handle::retire, execute).
THEOREM RetiredTunnelComesDown == ServiceSpec => []RetiredTakesDown
<1>1. Retired!ComesDown => RetiredTakesDown
  BY RetiredDown DEF RetiredTakesDown, Old!Idle, Old!NoWork, NoTunnel
<1>2. SInv /\ Retired!ComesDown /\ [ServiceNext]_serviceVars => Retired!ComesDown'
  BY NextDown
<1> QED BY <1>1, <1>2, InitDown, InitSInv, NextSInv, PTL DEF ServiceSpec

\* Two tunnels are never up at once as long as no change of the configuration
\* comes before the executor has caught up: the look at what is shown is the
\* only hole (tunnel.rs:13; orchestrator.rs:239, Handle::is_idle).
THEOREM OneTunnelUnlessBusy ==
    ServiceSpec /\ [][ChangeConfiguration => Idle /\ work = <<>>]_serviceVars => []OnlyOneTunnel
<1>1. Retired!Bare => OnlyOneTunnel
  BY RetiredDown DEF OnlyOneTunnel
<1>2. /\ SInv /\ Retired!Bare /\ [ServiceNext]_serviceVars
      /\ [ChangeConfiguration => Idle /\ work = <<>>]_serviceVars
      => Retired!Bare'
  <2> SUFFICES ASSUME SInv, Retired!Bare, [ServiceNext]_serviceVars,
                      [ChangeConfiguration => Idle /\ work = <<>>]_serviceVars
               PROVE  Retired!Bare'
    OBVIOUS
  <2>1. CASE UNCHANGED serviceVars
    BY <2>1 DEF serviceVars, oldVars, Retired!Bare, Retired!NoTunnel
  <2>2. CASE ChangeConfiguration => Idle /\ work = <<>>
    BY <2>2, NextDown
  <2> QED BY <2>1, <2>2
<1> QED BY <1>1, <1>2, InitDown, InitSInv, NextSInv, PTL DEF ServiceSpec
=============================================================================
