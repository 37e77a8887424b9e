----------------------------- MODULE MachineLife -----------------------------
(***************************************************************************)
(* What one tunnel does to the machine, step by step: the cores, the host  *)
(* routes through the undo journal, the peer and the generated             *)
(* configuration (dnetd/src/tunnel.rs over dnet-supervisor and             *)
(* dnet-netstate), a crash at any step, and the recovery of the next start *)
(* (dnetd/src/recovery.rs).                                                *)
(*                                                                         *)
(* A start, stop, move or recovery is the sequence of its remaining steps  *)
(* (`todo'), which the lock on the active tunnel keeps to one at a time.   *)
(***************************************************************************)
EXTENDS UndoJournal, Sequences, SequencesExt

CONSTANTS
    Addresses,      \* what the endpoint's name resolves to
    Gateways,       \* default gateways the machine can have
    MaxCrashes      \* bound: crashes in a behaviour

Cores == {"primary", "amneziawg"}
Via(g) == {<<a, g>> : a \in Addresses}
Thing(x) == <<x, x>>     \* a core, the peer or the configuration, beside the routes

ASSUME CrashesAssumption ==
    /\ MaxCrashes \in Nat /\ IsFiniteSet(Addresses)
    /\ \A g \in Gateways : Via(g) \subseteq Routes
    /\ \A x \in Cores \cup {"peer", "config"} : Thing(x) \notin Routes

VARIABLES
    svc,        \* "down", "recovering", "ready", or "refusing" after a failed recovery
    doing,      \* the operation under way: "idle", "start", "down", "carry", "recover"
    todo,       \* its remaining steps
    err,        \* whether one of its steps reported an error it went on after
    run,        \* Running: the tunnel that is up or being brought up or down
    cores,      \* "off", "on", or "stray": alive and held by nobody
    peer,       \* whether the adapter has a peer, and so sends to the endpoint
    config,     \* whether the generated configuration is on disk
    stuck,      \* history: what a step was asked to remove and could not
    crashes

lifeVars == <<svc, doing, todo, err, run, cores, peer, config, stuck, crashes>>
machineVars == <<journalVars, lifeVars>>

NoRun == [up |-> FALSE, peered |-> FALSE, gw |-> "none", touched |-> FALSE, owned |-> {}]
NewRun(peered, g) == [up |-> TRUE, peered |-> peered, gw |-> g, touched |-> FALSE, owned |-> {}]

Step(name, arg) == [do |-> name, arg |-> arg]
Each(name, args) == SetToSeq({Step(name, x) : x \in args})

MachineInit ==
    /\ JournalInit
    /\ svc = "down" /\ doing = "idle" /\ todo = <<>> /\ err = FALSE
    /\ run = NoRun /\ cores = [c \in Cores |-> "off"] /\ peer = FALSE
    /\ config = FALSE /\ stuck = {} /\ crashes = 0

-----------------------------------------------------------------------------
(* The sequences.                                                          *)

BringUp(g) == <<Step("touch", g), Step("install", g), Step("peer", g)>>

\* tear_down: the route goes even if the peer's removal failed.
TearDown(r) == <<Step("stopPeer", r.gw), Step("remove", r.gw)>>

ShutdownAll == <<Step("kill", "primary"), Step("kill", "amneziawg"), Step("replay", "down")>>

TakeDown(r) == (IF r.touched THEN TearDown(r) ELSE <<>>) \o ShutdownAll

StartCores(peered) ==
    <<Step("reap", "start")>>
    \o (IF peered THEN <<Step("spawn", "amneziawg"), Step("adapter", "amneziawg")>> ELSE <<>>)
    \o <<Step("spawn", "primary")>>

StartSteps(peered, g) ==
    <<Step("prepare", <<peered, g>>)>>
    \o StartCores(peered) \o <<Step("discard", "start")>>
    \o (IF peered THEN BringUp(g) ELSE <<>>)

RecoverSteps ==
    <<Step("reap", "start"), Step("open", "journal"), Step("replay", "start"), Step("verdict", "start")>>

-----------------------------------------------------------------------------
(* Ways a step ends.                                                       *)

Now(name) == todo # <<>> /\ Head(todo).do = name /\ op = NoOp
Arg == Head(todo).arg
Onward == todo' = Tail(todo) /\ UNCHANGED <<doing, run, svc>>
\* The step is replaced by those it consists of.
Into(steps) == todo' = steps \o Tail(todo) /\ UNCHANGED <<doing, run, svc>>

\* The configuration is discarded before a failed start takes the cores down.
Discarding ==
    IF \E i \in DOMAIN todo : todo[i].do = "discard" THEN <<Step("discard", "start")>> ELSE <<>>

\* Slip: a start that fails keeps what it brought up.
FailKeeping ==
    /\ todo' = <<>> /\ doing' = "idle" /\ run' = NoRun
    /\ svc' = IF doing = "recover" THEN "refusing" ELSE svc

\* `?': a failed start takes down what it brought up, after it has discarded the
\* configuration;
\* a failed move leaves the tunnel as it is; a failed recovery refuses to
\* connect.  A step of a take-down never comes here.
Fail ==
    /\ todo' = IF doing = "start" THEN Discarding \o TakeDown(run) ELSE <<>>
    /\ doing' = IF doing = "start" THEN "down" ELSE "idle"
    /\ svc' = IF doing = "recover" THEN "refusing" ELSE svc
    /\ UNCHANGED run

-----------------------------------------------------------------------------
(* Operations.                                                             *)

Idle == svc = "ready" /\ doing = "idle"

\* Tunnels::start.  A tunnel still up is taken down first.
Start(peered, g) ==
    /\ Idle
    /\ doing' = "start" /\ err' = FALSE
    /\ todo' = (IF run.up THEN TakeDown(run) ELSE <<>>) \o StartSteps(peered, g)
    /\ UNCHANGED <<journalVars, svc, run, cores, peer, config, stuck, crashes>>

\* Tunnels::stop
Stop ==
    /\ Idle /\ run.up
    /\ doing' = "down" /\ err' = FALSE
    /\ todo' = TakeDown(run) \o <<Step("discard", "stop")>>
    /\ UNCHANGED <<journalVars, svc, run, cores, peer, config, stuck, crashes>>

\* Slip: the old route is removed before the new one is in place.
CarryOverRemoveFirst(g) ==
    /\ Idle /\ run.up /\ run.peered /\ g # run.gw
    /\ doing' = "carry" /\ err' = FALSE
    /\ todo' = <<Step("remove", run.gw), Step("install", g), Step("moved", g)>>
    /\ UNCHANGED <<journalVars, svc, run, cores, peer, config, stuck, crashes>>

\* Tunnels::carry_over.  The rebind of the peer after it changes nothing here,
\* and moving to the gateway in use does nothing.
CarryOver(g) ==
    /\ Idle /\ run.up /\ run.peered /\ g # run.gw
    /\ doing' = "carry" /\ err' = FALSE
    /\ todo' = <<Step("install", g), Step("remove", run.gw), Step("moved", g)>>
    /\ UNCHANGED <<journalVars, svc, run, cores, peer, config, stuck, crashes>>

\* The new route is the tunnel's only if nothing of the old one stayed.
Moved ==
    /\ Now("moved")
    /\ todo' = <<>> /\ doing' = "idle"
    /\ run' = IF err THEN run ELSE [run EXCEPT !.gw = Arg]
    /\ UNCHANGED <<journalVars, svc, err, cores, peer, config, stuck, crashes>>

\* The operation is over: after a take-down there is no tunnel.
Finish ==
    /\ doing # "idle" /\ todo = <<>> /\ op = NoOp
    /\ doing' = "idle"
    /\ run' = IF doing = "down" THEN NoRun ELSE run
    /\ UNCHANGED <<journalVars, svc, todo, err, cores, peer, config, stuck, crashes>>

-----------------------------------------------------------------------------
(* Steps on processes and files.                                           *)

\* No gateway, or nothing written: nothing to take down.  A failure after the
\* configuration was written leaves it.
Prepare ==
    /\ Now("prepare")
    /\ \/ /\ todo' = Tail(todo) /\ run' = NewRun(Arg[1], Arg[2]) /\ config' = TRUE
          /\ UNCHANGED <<doing, svc, stuck>>
       \/ /\ todo' = <<>> /\ doing' = "idle" /\ run' = NoRun
          /\ \/ UNCHANGED <<config, stuck>>
             \/ config' = TRUE /\ stuck' = stuck \cup {Thing("config")}
          /\ UNCHANGED svc
    /\ UNCHANGED <<journalVars, err, cores, peer, crashes>>

\* discard_config: a failure is logged.
Discard ==
    /\ Now("discard") /\ Onward
    /\ \/ config' = FALSE /\ stuck' = stuck \ {Thing("config")}
       \/ config /\ UNCHANGED config /\ stuck' = stuck \cup {Thing("config")}
    /\ UNCHANGED <<journalVars, err, cores, peer, crashes>>

Strays == {c \in Cores : cores[c] = "stray"}
Kill(cs) ==
    /\ cores' = [c \in Cores |-> IF c \in cs THEN "off" ELSE cores[c]]
    /\ peer' = (peer /\ "amneziawg" \notin cs)

\* orphans::reap: all are tried, the first failure is returned.
Reap ==
    /\ Now("reap")
    /\ \E killed \in SUBSET Strays :
          /\ Kill(killed)
          /\ stuck' = stuck \ {Thing(c) : c \in killed}
          /\ IF killed = Strays THEN Onward ELSE Fail
    /\ UNCHANGED <<journalVars, err, config, crashes>>

\* A core that does not come up is killed when its handle is dropped.
Spawn ==
    /\ Now("spawn")
    /\ \/ Onward /\ cores' = [cores EXCEPT ![Arg] = "on"]
       \/ Fail /\ UNCHANGED cores
    /\ UNCHANGED <<journalVars, err, peer, config, stuck, crashes>>

AwaitAdapter ==
    /\ Now("adapter")
    /\ Onward \/ Fail
    /\ UNCHANGED <<journalVars, err, cores, peer, config, stuck, crashes>>

\* kill_core: one that does not exit is no longer held by anybody.
KillCore ==
    /\ Now("kill") /\ Onward
    /\ \/ /\ cores[Arg] # "on" /\ UNCHANGED <<cores, peer, stuck, err>>
       \/ /\ cores[Arg] = "on" /\ Kill({Arg}) /\ UNCHANGED <<stuck, err>>
       \/ /\ cores[Arg] = "on" /\ cores' = [cores EXCEPT ![Arg] = "stray"]
          /\ stuck' = stuck \cup {Thing(Arg)} /\ err' = TRUE
          /\ UNCHANGED peer
    /\ UNCHANGED <<journalVars, config, crashes>>

-----------------------------------------------------------------------------
(* Steps on the peer.                                                      *)

Touch ==
    /\ Now("touch")
    /\ run' = [run EXCEPT !.touched = TRUE]
    /\ todo' = Tail(todo)
    /\ UNCHANGED <<journalVars, svc, doing, err, cores, peer, config, stuck, crashes>>

\* start_tunnel: one that times out may have taken effect.
SetPeer ==
    /\ Now("peer")
    /\ \/ Onward /\ peer' = TRUE
       \/ Fail /\ peer' \in {peer, TRUE}
    /\ UNCHANGED <<journalVars, err, cores, config, stuck, crashes>>

StopPeer ==
    /\ Now("stopPeer") /\ Onward
    /\ \/ peer' = FALSE /\ UNCHANGED <<err, stuck>>
       \/ peer /\ UNCHANGED peer /\ err' = TRUE /\ stuck' = stuck \cup {Thing("peer")}
    /\ UNCHANGED <<journalVars, cores, config, crashes>>

-----------------------------------------------------------------------------
(* Steps on the routes (WindowsRouteInstaller).                            *)

\* install: resolving the name or finding the interface may fail, before
\* anything is changed.
Install ==
    /\ Now("install")
    /\ Into(Each("check", Via(Arg))) \/ Fail
    /\ UNCHANGED <<journalVars, err, cores, peer, config, stuck, crashes>>

\* A route that is there already is used and not taken over.
CheckRoute ==
    /\ Now("check")
    /\ IF table[Arg] = "none" THEN Into(<<Step("record", Arg)>>) ELSE Onward
    /\ UNCHANGED <<journalVars, err, cores, peer, config, stuck, crashes>>

RecordRoute ==
    /\ Now("record")
    /\ \/ Record(Arg) /\ Onward
       \/ RecordFails(Arg) /\ Fail
    /\ UNCHANGED <<err, cores, peer, config, stuck, crashes>>

CreateRoute ==
    /\ CreateApplied
    /\ run' = [run EXCEPT !.owned = @ \cup {op.entry}]
    /\ UNCHANGED <<svc, doing, todo, err, cores, peer, config, stuck, crashes>>

NoRouteCreated ==
    /\ \E e \in BOOLEAN : CreateNothing(e)
    /\ UNCHANGED lifeVars

WithdrawRecord ==
    /\ \E saved \in BOOLEAN : Withdraw(saved)
    /\ IF op.err THEN Fail ELSE UNCHANGED <<todo, doing, run, svc>>
    /\ UNCHANGED <<err, cores, peer, config, stuck, crashes>>

\* remove: every route of this installer through the gateway, each tried.
RemoveRoutes ==
    /\ Now("remove")
    /\ Into(Each("undo", {e \in run.owned : e.route[2] = Arg}))
    /\ UNCHANGED <<journalVars, err, cores, peer, config, stuck, crashes>>

UndoRoute ==
    /\ Now("undo")
    /\ \/ /\ UndoReversed(Arg)
          /\ stuck' = stuck \ {Arg.route}
          /\ UNCHANGED <<svc, doing, todo, run, err>>
       \/ /\ Onward /\ err' = TRUE /\ stuck' = stuck \cup {Arg.route}
          /\ UNCHANGED journalVars
    /\ UNCHANGED <<cores, peer, config, crashes>>

ForgetRoute ==
    /\ \E saved \in BOOLEAN :
          /\ Forget(saved)
          /\ run' = IF saved THEN [run EXCEPT !.owned = @ \ {op.entry}] ELSE run
          /\ err' = (err \/ ~saved)
    /\ todo' = Tail(todo)
    /\ UNCHANGED <<svc, doing, cores, peer, config, stuck, crashes>>

-----------------------------------------------------------------------------
(* Steps on the journal as a whole.                                        *)

OpenJournal ==
    /\ Now("open")
    /\ \/ Open /\ Onward
       \/ Fail /\ UNCHANGED journalVars
    /\ UNCHANGED <<err, cores, peer, config, stuck, crashes>>

BeginReplay ==
    /\ Now("replay")
    /\ StartReplay
    /\ UNCHANGED lifeVars

ReplayRecord ==
    /\ op.do = "replay"
    /\ \E e \in op.left, reversed \in BOOLEAN :
          /\ ReplayOne(e, reversed)
          /\ err' = (err \/ ~reversed)
          /\ stuck' = IF reversed THEN stuck \ {e.route} ELSE stuck \cup {e.route}
    /\ UNCHANGED <<svc, doing, todo, run, cores, peer, config, crashes>>

ReplayDone ==
    /\ \E saved \in BOOLEAN :
          /\ EndReplay(saved)
          /\ err' = (err \/ (~saved /\ op.restored # {}))
    /\ todo' = Tail(todo)
    /\ UNCHANGED <<svc, doing, run, cores, peer, config, stuck, crashes>>

\* Slip: the service connects whatever the replay reported.
VerdictAlwaysReady ==
    /\ Now("verdict")
    /\ svc' = "ready" /\ todo' = <<>> /\ doing' = "idle"
    /\ UNCHANGED <<journalVars, err, run, cores, peer, config, stuck, crashes>>

\* recover_at_start: anything that was not restored, or not saved, and the
\* service does not connect.  The effects it is built with discard a
\* configuration left behind.
Verdict ==
    /\ Now("verdict")
    /\ svc' = IF err THEN "refusing" ELSE "ready"
    /\ todo' = <<>> /\ doing' = "idle"
    /\ IF err THEN UNCHANGED <<config, stuck>>
       ELSE \/ config' = FALSE /\ stuck' = stuck \ {Thing("config")}
            \/ config /\ UNCHANGED config /\ stuck' = stuck \cup {Thing("config")}
    /\ UNCHANGED <<journalVars, err, run, cores, peer, crashes>>

-----------------------------------------------------------------------------
(* The service ends, at any step; cores that could not be put in its job   *)
(* live on.                                                                *)

ServiceDies ==
    /\ svc # "down" /\ crashes < MaxCrashes /\ crashes' = crashes + 1
    /\ Crash
    /\ svc' = "down" /\ doing' = "idle" /\ todo' = <<>> /\ err' = FALSE /\ run' = NoRun
    /\ \E alive \in SUBSET {c \in Cores : cores[c] = "on"} :
          /\ cores' = [c \in Cores |-> IF c \in alive \/ cores[c] = "stray" THEN "stray" ELSE "off"]
          /\ peer' = (peer /\ cores'["amneziawg"] = "stray")
    /\ stuck' = stuck \cap {Thing("peer")}
    /\ UNCHANGED config

ServiceStarts ==
    /\ svc = "down" /\ svc' = "recovering"
    /\ doing' = "recover" /\ todo' = RecoverSteps
    /\ UNCHANGED <<journalVars, err, run, cores, peer, config, stuck, crashes>>

Others ==
    /\ \E r \in Routes : TheirsAppears(r)
    /\ UNCHANGED lifeVars

MachineNext ==
    \/ \E peered \in BOOLEAN, g \in Gateways : Start(peered, g)
    \/ \E g \in Gateways : CarryOver(g)
    \/ Stop \/ Moved \/ Finish
    \/ Prepare \/ Discard \/ Reap \/ Spawn \/ AwaitAdapter \/ KillCore
    \/ Touch \/ SetPeer \/ StopPeer
    \/ Install \/ CheckRoute \/ RecordRoute \/ CreateRoute \/ NoRouteCreated \/ WithdrawRecord
    \/ RemoveRoutes \/ UndoRoute \/ ForgetRoute
    \/ OpenJournal \/ BeginReplay \/ ReplayRecord \/ ReplayDone \/ Verdict
    \/ ServiceDies \/ ServiceStarts \/ Others

MachineSpec == MachineInit /\ [][MachineNext]_machineVars

-----------------------------------------------------------------------------
(* Properties.                                                             *)

Guarded == \A a \in Addresses : \E g \in Gateways : table[<<a, g>>] # "none"

\* While the adapter has a peer, the endpoint's addresses have a host route, or
\* the tunnel's own packets would go into the tunnel: from before the peer is set
\* until after it is gone, through moves to another gateway, a crash and the
\* recovery.  Only a peer that could not be removed may lose its route
\* (host_route.rs:79, host_route.rs:86).
PeerIsGuarded == peer => Guarded \/ Thing("peer") \in stuck

Left == {Thing(c) : c \in {x \in Cores : cores[x] # "off"}} \cup Ours
        \cup (IF config THEN {Thing("config")} ELSE {})

\* With no tunnel up and nothing under way, all that is left on the machine is
\* what a step was asked to remove and could not: a start that failed anywhere
\* took back the rest, and no step of a take-down was skipped because an earlier
\* one failed (tunnel.rs:8, tunnel.rs:15).
OnlyStuckRemains == svc = "ready" /\ doing = "idle" /\ ~run.up => Left \subseteq stuck

\* The service comes to connect only on a machine on which nothing of an earlier
\* life is left: no core, no route, no record of one (recovery.rs:1).
ReadyIsRestored ==
    [][svc # "ready" /\ svc' = "ready" =>
          Ours = {} /\ Strays = {} /\ ~peer /\ disk.entries = {}]_machineVars
=============================================================================
