---------------------------- MODULE Orchestrator ----------------------------
(***************************************************************************)
(* dnetd/src/orchestrator.rs: the actor that owns the engine, the executor *)
(* that carries out its work, the races and monitors that report back, and *)
(* the handle the IPC layer asks through.  The effects of effects.rs and   *)
(* tunnel.rs appear as the outcomes they can have.                         *)
(*                                                                         *)
(* Everything between two awaits, or between two reads of shared state, is *)
(* one action; the tasks run on a multi-threaded runtime and interleave.   *)
(***************************************************************************)
EXTENDS Engine

CONSTANTS
    Carriers,       \* profiles that run over a session, which a live move can keep
    MailboxCap,     \* capacity of the actor's mailbox (64 in the code)
    ProbeEvery,     \* live checks per endpoint probe (3 in the code)
    MaxAttempts     \* bound: no connect is asked past this attempt number

ASSUME OrchestratorAssumption ==
    /\ Carriers \subseteq Probeable
    /\ MailboxCap \in Nat \ {0}
    /\ ProbeEvery \in Nat \ {0}
    /\ MaxAttempts \in Nat

VARIABLES
    eng,            \* Actor::engine
    attempt,        \* Actor::attempt, and `current', its copy the tasks read
    actor,          \* where the actor is in its loop
    mailbox,        \* messages to the actor
    shown,          \* Handle::state, the published snapshot
    connecting,     \* Handle::connecting
    client,         \* the request being served; the store lock admits one
    work,           \* work for the executor
    exec,           \* the executor: the item it is at, reports it has yet to send
    token,          \* attempt of the race whose token the executor holds, or 0
    races,          \* the race tasks
    monitors,       \* the monitor tasks
    tunnel,         \* the tunnel that is up (Tunnels::active)
    stopping        \* how far a shutdown has come

handleVars == <<mailbox, shown, connecting, client>>
actorVars  == <<eng, attempt, actor>>
execVars   == <<work, exec, token, tunnel, stopping>>
vars == <<handleVars, actorVars, execVars, races, monitors>>

-----------------------------------------------------------------------------
(* Messages, work, tasks.                                                  *)

Report(n, in) == [kind |-> "Report", attempt |-> n, input |-> in]
ConnectMsg(p) == [kind |-> "Connect", profile |-> p]
DisconnectMsg == [kind |-> "Disconnect"]
ShutdownMsg   == [kind |-> "Shutdown"]

NoWork    == [kind |-> "none"]
CheckReach == [kind |-> "Reach"]
Barrier   == [kind |-> "Barrier"]
Move(p, e) == [kind |-> "MoveTunnel", profile |-> p, endpoint |-> e]

NoReport == [kind |-> "none"]

\* Slip: the two are carried out in the other order.
FoldMovesSwapped(w) ==
    IF Len(w) = 2 /\ w[1].kind = "StopTunnel" /\ w[2].kind = "StartTunnel"
    THEN <<w[2], w[1]>> ELSE w

\* fold_moves: a stop followed at once by a start is one move.  No step asks
\* for more than two items of work.
FoldMoves(w) ==
    IF Len(w) = 2 /\ w[1].kind = "StopTunnel" /\ w[2].kind = "StartTunnel"
    THEN <<Move(w[2].profile, w[2].endpoint)>> ELSE w

Tagged(n, w) == [i \in 1..Len(w) |-> [attempt |-> n, do |-> w[i]]]

\* snapshot_of: what a client is shown of an engine.
Status(e) == CASE e.phase = "Idle"      -> "Disconnected"
               [] e.phase = "Failed"    -> "Failed"
               [] e.phase = "Connected" -> "Connected"
               [] OTHER                 -> "Probing"

SnapshotOf(e) ==
    [status   |-> Status(e),
     profile  |-> IF e.phase = "Connected" THEN e.profile ELSE NoProfile,
     endpoint |-> IF e.phase = "Connected" THEN e.active ELSE NoEndpoint]

Unserved == [pc |-> "free", profile |-> NoProfile, seen |-> "none"]

Init ==
    /\ eng = NewEngine /\ attempt = 0 /\ actor = "recv"
    /\ mailbox = <<>> /\ shown = SnapshotOf(NewEngine)
    /\ connecting = FALSE /\ client = Unserved
    /\ work = <<>> /\ exec = [item |-> NoWork, for |-> 0, out |-> <<>>]
    /\ token = 0 /\ races = {} /\ monitors = {}
    /\ tunnel = NoTunnel /\ stopping = "no"

\* Sending to the mailbox: the receiver is gone once the actor has ended.
Closed == actor = "ended"
Room   == Len(mailbox) < MailboxCap

\* Slip: the mailbox is not bounded.
DeliverAnyway(m) ==
    IF Closed THEN UNCHANGED mailbox ELSE mailbox' = Append(mailbox, m)

\* `send(..).await' of a background task: it waits for room, or is told that
\* nobody listens any more.
Deliver(m) ==
    IF Closed THEN UNCHANGED mailbox
    ELSE Room /\ mailbox' = Append(mailbox, m)

-----------------------------------------------------------------------------
(* The handle.  A connect claims the flag, judges the published state, and *)
(* sends; a disconnect looks at the snapshot, which is two reads, and      *)
(* sends.  try_send refuses when the mailbox is full or closed.            *)

AskConnect(p) ==
    /\ client.pc = "free" /\ attempt < MaxAttempts
    /\ ~connecting
    /\ connecting' = TRUE
    /\ client' = [client EXCEPT !.pc = "claimed", !.profile = p]
    /\ UNCHANGED <<mailbox, shown, actorVars, execVars, races, monitors>>

JudgeConnect ==
    /\ client.pc = "claimed"
    /\ IF shown.status \in {"Probing", "Connected"}
       THEN client' = Unserved /\ connecting' = FALSE
       ELSE client' = [client EXCEPT !.pc = "judged"] /\ UNCHANGED connecting
    /\ UNCHANGED <<mailbox, shown, actorVars, execVars, races, monitors>>

SendConnect ==
    /\ client.pc = "judged"
    /\ client' = Unserved
    /\ IF Room /\ ~Closed
       THEN mailbox' = Append(mailbox, ConnectMsg(client.profile)) /\ UNCHANGED connecting
       ELSE connecting' = FALSE /\ UNCHANGED mailbox
    /\ UNCHANGED <<shown, actorVars, execVars, races, monitors>>

\* The first read of Handle::snapshot: the stored state.
AskDisconnect ==
    /\ client.pc = "free"
    /\ client' = [client EXCEPT !.pc = "looked", !.seen = shown.status]
    /\ UNCHANGED <<mailbox, shown, connecting, actorVars, execVars, races, monitors>>

\* The second: the flag.  A connect that is pending reads as connecting.
Look(seen, flag) == IF flag /\ seen \in {"Disconnected", "Failed"} THEN "Probing" ELSE seen

AnswerDisconnect ==
    /\ client.pc = "looked"
    /\ client' = Unserved
    /\ IF Look(client.seen, connecting) # "Disconnected" /\ Room /\ ~Closed
       THEN mailbox' = Append(mailbox, DisconnectMsg)
       ELSE UNCHANGED mailbox
    /\ UNCHANGED <<shown, connecting, actorVars, execVars, races, monitors>>

\* Handle::shutdown, by whoever stops the service.
AskShutdown ==
    /\ stopping = "no" /\ Room
    /\ mailbox' = Append(mailbox, ShutdownMsg)
    /\ stopping' = "asked"
    /\ UNCHANGED <<shown, connecting, client, actorVars, work, exec, token, tunnel,
                   races, monitors>>

-----------------------------------------------------------------------------
(* The actor.                                                              *)

NewMonitor(n, e) == [attempt |-> n, endpoint |-> e.active,
                     tick |-> 0, queue |-> <<>>, cleared |-> FALSE]

\* The monitors under attempt n.  One of an earlier attempt that finds out
\* before its next report ends without a trace; one that has just looked
\* still sends the report in its hand.
Watching(n) == {m \in monitors : m.attempt = n \/ m.cleared}

\* Actor::step: feed the engine one input and queue what it asks under a new
\* attempt number; a step that asks for nothing keeps the number.
ActorStep(e, in, ahead, behind) ==
    \E r \in Step(e, in) :
        LET asked == FoldMoves(r.work)
            n == IF asked = <<>> THEN attempt ELSE attempt + 1
            items == IF asked = <<>> THEN behind ELSE ahead \o asked \o behind
        IN  /\ eng' = r.eng
            /\ attempt' = n
            /\ work' = work \o Tagged(n, items)
            /\ monitors' = IF e.phase # "Connected" /\ r.eng.phase = "Connected"
                           THEN Watching(n) \cup {NewMonitor(n, r.eng)} ELSE Watching(n)

TakeConnect(m) ==
    /\ m.kind = "Connect"
    /\ \E env \in Environments :
          ActorStep([eng EXCEPT !.env = env], m, <<CheckReach>>, <<>>)
    /\ actor' = "publishConnect"

TakeDisconnect(m) ==
    /\ m.kind = "Disconnect"
    /\ ActorStep(eng, m, <<>>, <<>>)
    /\ actor' = "publish"

\* Slips: the barrier is queued ahead of what the disconnect asks for; it is
\* left out.
TakeShutdownBarrierAhead(m) ==
    /\ m.kind = "Shutdown"
    /\ ActorStep(eng, DisconnectMsg, <<Barrier>>, <<>>)
    /\ actor' = "publishLast"

TakeShutdownWithoutBarrier(m) ==
    /\ m.kind = "Shutdown"
    /\ ActorStep(eng, DisconnectMsg, <<>>, <<>>)
    /\ actor' = "publishLast"

TakeShutdown(m) ==
    /\ m.kind = "Shutdown"
    /\ ActorStep(eng, DisconnectMsg, <<>>, <<Barrier>>)
    /\ actor' = "publishLast"

\* Slip: reports of earlier attempts are believed.
FreshAlways(m) == TRUE

\* A report counts only under the current attempt number.
Fresh(m) == m.attempt = attempt

TakeReport(m) ==
    /\ m.kind = "Report"
    /\ actor' = "publish"
    /\ IF Fresh(m) THEN ActorStep(eng, m.input, <<>>, <<>>)
       ELSE UNCHANGED <<eng, attempt, work, monitors>>

TakeMessage ==
    /\ actor = "recv" /\ mailbox # <<>>
    /\ mailbox' = Tail(mailbox)
    /\ LET m == Head(mailbox)
       IN  TakeConnect(m) \/ TakeDisconnect(m) \/ TakeShutdown(m) \/ TakeReport(m)
    /\ UNCHANGED <<shown, connecting, client, exec, token, tunnel, stopping, races>>

AfterPublish == CASE actor = "publish"        -> "recv"
                  [] actor = "publishConnect" -> "clear"
                  [] actor = "publishLast"    -> "ended"

\* With the actor its mailbox goes, and what was left in it.
Publish ==
    /\ actor \in {"publish", "publishConnect", "publishLast"}
    /\ shown' = SnapshotOf(eng)
    /\ actor' = AfterPublish
    /\ mailbox' = IF actor = "publishLast" THEN <<>> ELSE mailbox
    /\ UNCHANGED <<connecting, client, eng, attempt, execVars, races, monitors>>

\* Slip: the flag is cleared before the state is published.
ClearBeforePublishing ==
    /\ actor = "publishConnect"
    /\ connecting' = FALSE
    /\ actor' = "publish"
    /\ UNCHANGED <<mailbox, shown, client, eng, attempt, execVars, races, monitors>>

\* After the state is published, never before.
ClearConnecting ==
    /\ actor = "clear"
    /\ connecting' = FALSE
    /\ actor' = "recv"
    /\ UNCHANGED <<mailbox, shown, client, eng, attempt, execVars, races, monitors>>

-----------------------------------------------------------------------------
(* The executor: one item of work at a time.                               *)

Idle == exec.item = NoWork /\ exec.out = <<>>

Running(r) == r.report = NoReport

\* Slip: the token is dropped and not cancelled.
CancelNothing == races

\* Cancelling the race whose token is held.  It gives up unless it has looked
\* at the token for the last time and is about to report.
CancelHeld == {r \in races : r.attempt = token => ~Running(r)}

NewRace(n, ps) == [attempt |-> n, profiles |-> ps, report |-> NoReport]

TakeWork ==
    /\ Idle /\ work # <<>>
    /\ work' = Tail(work)
    /\ LET w == Head(work).do
           n == Head(work).attempt
           kept == w.kind \in {"Reach", "StopTunnel", "Barrier"}
       IN  /\ exec' = IF w.kind \in {"Reach", "StartTunnel", "MoveTunnel", "StopTunnel"}
                      THEN [item |-> w, for |-> n, out |-> <<>>] ELSE exec
           /\ races' = IF kept THEN races
                       ELSE IF w.kind = "StartRace"
                       THEN CancelHeld \cup {NewRace(n, w.profiles)}
                       ELSE CancelHeld
           /\ token' = IF kept THEN token ELSE IF w.kind = "StartRace" THEN n ELSE 0
           /\ stopping' = IF w.kind = "Barrier" THEN "done" ELSE stopping
    /\ UNCHANGED <<handleVars, actorVars, tunnel, monitors>>

\* Slip: the outcome is not reported.
DoneSilently(inputs) == exec' = [exec EXCEPT !.item = NoWork]

\* The item is done, with these inputs to report under its attempt.
Done(inputs) ==
    exec' = [exec EXCEPT !.item = NoWork,
                         !.out = [i \in 1..Len(inputs) |-> Report(exec.for, inputs[i])]]

UpReport == [kind |-> "TunnelUp"]
FailedReport(c) == [kind |-> "StartFailed", cause |-> c]
EnvReport(env) == [kind |-> "Environment", env |-> env]

\* The environment is read after the endpoints were looked at, and goes first.
ReachDone ==
    /\ exec.item.kind = "Reach"
    /\ \E env \in Environments, reach \in Reaches :
          Done(<<EnvReport(env), [kind |-> "Reach", reach |-> reach]>>)
    /\ UNCHANGED <<handleVars, actorVars, work, token, tunnel, stopping, races, monitors>>

\* Tunnels::start takes an old tunnel down first.
StartSucceeds ==
    /\ exec.item.kind = "StartTunnel"
    /\ tunnel' = Tunnel(exec.item.profile, exec.item.endpoint)
    /\ Done(<<UpReport>>)
    /\ UNCHANGED <<handleVars, actorVars, work, token, stopping, races, monitors>>

\* A start that fails leaves nothing of its own running; one refused before
\* it got to the tunnel (credentials, installation) has touched nothing.
StartFails ==
    /\ exec.item.kind = "StartTunnel"
    /\ tunnel' \in {NoTunnel, tunnel}
    /\ \E c \in StartCauses : Done(<<FailedReport(c)>>)
    /\ UNCHANGED <<handleVars, actorVars, work, token, stopping, races, monitors>>

\* A move keeps the connection when it stays on the endpoint and both ends are
\* carriers of its session, and the switch works.
CanMove == /\ tunnel.profile \in Carriers /\ exec.item.profile \in Carriers
           /\ tunnel.endpoint = exec.item.endpoint

\* Otherwise it is the stop and the start it stands for.
MoveTried ==
    /\ exec.item.kind = "MoveTunnel"
    /\ \E moved \in (IF CanMove THEN BOOLEAN ELSE {FALSE}) :
          IF moved
          THEN /\ tunnel' = Tunnel(exec.item.profile, exec.item.endpoint)
               /\ Done(<<UpReport>>)
          ELSE /\ tunnel' = NoTunnel
               /\ exec' = [exec EXCEPT !.item = Start(exec.item.profile, exec.item.endpoint)]
    /\ UNCHANGED <<handleVars, actorVars, work, token, stopping, races, monitors>>

StopDone ==
    /\ exec.item.kind = "StopTunnel"
    /\ tunnel' = NoTunnel
    /\ Done(<<>>)
    /\ UNCHANGED <<handleVars, actorVars, work, token, stopping, races, monitors>>

SendReport ==
    /\ exec.out # <<>>
    /\ exec' = [exec EXCEPT !.out = Tail(exec.out)]
    /\ Deliver(Head(exec.out))
    /\ UNCHANGED <<shown, connecting, client, actorVars, work, token, tunnel, stopping,
                   races, monitors>>

-----------------------------------------------------------------------------
(* The race task.                                                          *)

\* The token is looked at once, before the report is sent.
RaceDone(r) ==
    /\ Running(r)
    /\ \E in \in Outcomes(r.profiles) :
          races' = (races \ {r}) \cup {[r EXCEPT !.report = Report(r.attempt, in)]}
    /\ UNCHANGED <<handleVars, actorVars, execVars, monitors>>

RaceReports(r) ==
    /\ ~Running(r)
    /\ Deliver(r.report)
    /\ races' = races \ {r}
    /\ UNCHANGED <<shown, connecting, client, actorVars, execVars, monitors>>

-----------------------------------------------------------------------------
(* The monitor of a connection: every tick a live check, every ProbeEvery  *)
(* ticks a probe of the endpoint.  It looks at the current attempt before  *)
(* the checks and before each report, and ends when it is not its own.     *)

Superseded(m) == m.attempt # attempt

\* With no tunnel up there is no origin to check against: the check fails.
MonitorChecks(m) ==
    /\ m.queue = <<>> /\ ~Superseded(m)
    /\ \E passed \in (IF tunnel = NoTunnel THEN {FALSE} ELSE BOOLEAN),
          outcome \in (IF tunnel = NoTunnel THEN {"failed"} ELSE ProbeOutcomes),
          env \in Environments :
          LET tick == (m.tick + 1) % ProbeEvery
              checks == <<EnvReport(env), [kind |-> "LiveCheck", passed |-> passed]>>
              probe == <<[kind |-> "EndpointProbe", endpoint |-> m.endpoint,
                          outcome |-> outcome]>>
          IN  /\ tick = 0 \/ outcome = "failed"
              /\ monitors' = (monitors \ {m}) \cup
                    {[m EXCEPT !.tick = tick,
                               !.queue = IF tick = 0 THEN checks \o probe ELSE checks]}
    /\ UNCHANGED <<handleVars, actorVars, execVars, races>>

MonitorLooks(m) ==
    /\ m.queue # <<>> /\ ~m.cleared /\ ~Superseded(m)
    /\ monitors' = (monitors \ {m}) \cup {[m EXCEPT !.cleared = TRUE]}
    /\ UNCHANGED <<handleVars, actorVars, execVars, races>>

MonitorSends(m) ==
    /\ m.cleared
    /\ Deliver(Report(m.attempt, Head(m.queue)))
    /\ monitors' = (monitors \ {m}) \cup
          (IF Closed \/ Superseded(m) THEN {}
           ELSE {[m EXCEPT !.queue = Tail(m.queue), !.cleared = FALSE]})
    /\ UNCHANGED <<shown, connecting, client, actorVars, execVars, races>>

-----------------------------------------------------------------------------
Request == (\E p \in Names \cup {NoProfile} : AskConnect(p)) \/ AskDisconnect \/ AskShutdown
Serve   == JudgeConnect \/ SendConnect \/ AnswerDisconnect
Act     == TakeMessage \/ Publish \/ ClearConnecting
Execute == TakeWork \/ ReachDone \/ StartSucceeds \/ StartFails \/ MoveTried \/ StopDone
              \/ SendReport
RunRace == \E r \in races : RaceDone(r) \/ RaceReports(r)
Watch   == \E m \in monitors :
              MonitorChecks(m) \/ MonitorLooks(m) \/ MonitorSends(m)

Next == Request \/ Serve \/ Act \/ Execute \/ RunRace \/ Watch

Spec == Init /\ [][Next]_vars

\* The runtime polls every task that can make progress, each effect ends
\* within its own timeout, and a request being served is not abandoned.
Fairness == WF_vars(Serve) /\ WF_vars(Act) /\ WF_vars(Execute) /\ WF_vars(RunRace)

FairSpec == Spec /\ Fairness

-----------------------------------------------------------------------------
(* Properties.                                                             *)

\* What the tasks report: never a request.
News == {in \in Inputs : in.kind \notin {"Connect", "Disconnect"}}

Reports == [kind: {"Report"}, attempt: Nat, input: News]

Messages == [kind: {"Connect"}, profile: Names \cup {NoProfile}]
       \cup [kind: {"Disconnect", "Shutdown"}]
       \cup Reports

WorkItems == [kind: {"none", "Reach", "CancelRace", "StopTunnel", "Barrier"}]
       \cup [kind: {"StartRace"}, profiles: SUBSET Profiles, endpoint: Endpoints]
       \cup [kind: {"StartTunnel", "MoveTunnel"}, profile: Profiles, endpoint: Endpoints]

Statuses == {"Disconnected", "Probing", "Connected", "Failed"}

Clients == [pc: {"free", "claimed", "judged", "looked"},
            profile: Names \cup {NoProfile}, seen: Statuses \cup {"none"}]

RaceTasks == [attempt: Nat, profiles: SUBSET Profiles, report: Reports \cup {NoReport}]

MonitorTasks == [attempt: Nat, endpoint: Endpoints, tick: Nat, queue: Seq(News),
                 cleared: BOOLEAN]

TypeOK ==
    /\ eng \in Engines /\ attempt \in Nat
    /\ actor \in {"recv", "publish", "publishConnect", "publishLast", "clear", "ended"}
    /\ mailbox \in Seq(Messages) /\ Len(mailbox) =< MailboxCap
    /\ shown.status \in Statuses
    /\ connecting \in BOOLEAN
    /\ client \in Clients
    /\ work \in Seq([attempt: Nat, do: WorkItems])
    /\ exec \in [item: WorkItems, for: Nat, out: Seq(Reports)]
    /\ token \in Nat
    /\ races \subseteq RaceTasks
    /\ monitors \subseteq MonitorTasks
    /\ tunnel \in [profile: Profiles \cup {NoProfile}, endpoint: Endpoints \cup {NoEndpoint}]
    /\ stopping \in {"no", "asked", "done"}

\* While the engine says Connected, the tunnel that is up is the one it names,
\* whatever reports of earlier attempts are still on their way
\* (orchestrator.rs:431, stale reports are dropped).
ConnectedIsCarried ==
    eng.phase = "Connected" => tunnel = Tunnel(eng.profile, eng.active)

\* What PromisedConnection speaks of: a connect on its way, how far it is, the
\* tunnel it is said to go through, and what is left to do on the machine.
Awaited == \E i \in 1..Len(mailbox) : mailbox[i].kind = "Connect"

Course == IF eng.phase \in AtRest THEN "rest"
          ELSE IF eng.phase = "Connected" THEN "on" ELSE "seeking"

Claimed == IF eng.phase = "Connected" THEN Tunnel(eng.profile, eng.active) ELSE NoTunnel

WorkLeft == work # <<>> \/ exec.item # NoWork

Life == IF stopping = "done" THEN "over"
        ELSE IF actor \in {"publishLast", "ended"} THEN "ending" ELSE "open"

Connection == INSTANCE PromisedConnection WITH
    Tunnels <- [profile: Profiles, endpoint: Endpoints], None <- NoTunnel,
    asked <- Awaited, state <- Course, claims <- Claimed, up <- tunnel,
    busy <- WorkLeft, life <- Life

\* The actor, the executor, the races and the monitors together are a connection
\* as PromisedConnection has it, whatever reports of earlier attempts are still
\* on their way: sought only when a connect was accepted, carried by the tunnel
\* the engine names for as long as it says Connected, with nothing under way
\* that could replace it; and never sought or carried again after a shutdown
\* (orchestrator.rs:24, "Work runs in order", orchestrator.rs:431).
ConnectsAsPromised == Connection!ConnectionSpec

\* Once the executor has caught up, an engine with no tunnel in its phase has
\* none on the machine, and no race outlives the phase that wanted one.
QuietMeansDown ==
    Idle /\ work = <<>> =>
        /\ eng.phase \notin Using => tunnel = NoTunnel
        /\ eng.phase \notin Racing => \A r \in races : ~Running(r)

\* A connect that was accepted is taken up: when the actor gets to it the
\* engine is in a phase that does not ignore it, and it is the only one
\* (orchestrator.rs:260, "a request that silently did nothing would be a defect").
ConnectTakenUp ==
    \A i \in 1..Len(mailbox) : mailbox[i].kind = "Connect" =>
        /\ eng.phase \in AtRest /\ connecting
        /\ \A j \in 1..Len(mailbox) : mailbox[j].kind = "Connect" => j = i

\* A race that can still decide something runs with no tunnel up, so its
\* probes are of the bare network and nothing leaks around a dead tunnel
\* (engine.rs:501, "Stop first"), and it is the only such race.
RaceWhileDown ==
    /\ \A r \in races : r.attempt = attempt => tunnel = NoTunnel /\ eng.phase \in Racing
    /\ Cardinality({r \in races : Running(r)}) =< 1

\* When Handle::shutdown returns there is no tunnel, no work left that could
\* bring one up, and no race (orchestrator.rs:299, SUP-04).
ShutdownLeavesNothing ==
    stopping = "done" =>
        /\ tunnel = NoTunnel /\ work = <<>> /\ Idle
        /\ \A r \in races : ~Running(r)

\* A profile found blocked stays blocked until the next connect, so a recovery
\* never goes back to it and an attempt cannot go in circles (reprobe.rs:105).
BlockedForTheAttempt ==
    [][\A p \in Profiles :
          eng.via[p] = "blocked" /\ eng'.via[p] # "blocked" =>
             mailbox # <<>> /\ Head(mailbox).kind = "Connect"]_vars

\* NotConnected is answered only when nothing is connected or being connected
\* (orchestrator.rs:288).
NotConnectedIsTrue ==
    [][client.pc = "looked" /\ client'.pc = "free"
          /\ Look(client.seen, connecting) = "Disconnected" =>
             /\ eng.phase = "Idle"
             /\ \A i \in 1..Len(mailbox) : mailbox[i].kind # "Connect"]_vars

\* Every attempt comes to an end: connected, failed or disconnected, whichever
\* of its steps fail and however full the mailbox runs.
AttemptSettles ==
    eng.phase \in Racing \cup {"Starting"} ~> eng.phase \in AtRest \cup {"Connected"}

\* A disconnect that was accepted takes down the tunnel that is up, and the
\* one that was being brought up when it came (orchestrator.rs:24, "Work runs
\* in order").
DisconnectTakesDown ==
    LET bringing == exec.item.kind \in {"StartTunnel", "MoveTunnel"}
    IN  (/\ mailbox # <<>> /\ Head(mailbox).kind = "Disconnect" /\ actor = "recv"
         /\ tunnel # NoTunnel \/ bringing)
            ~> (tunnel = NoTunnel /\ ~bringing)

\* The service can always stop: the barrier is reached (orchestrator.rs:354,
\* the actor never waits for the executor).
ShutdownReturns == stopping = "asked" ~> stopping = "done"
=============================================================================
