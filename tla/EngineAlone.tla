----------------------------- MODULE EngineAlone -----------------------------
(***************************************************************************)
(* The engine driven by any input in any order, late and duplicated ones   *)
(* included.  What holds here holds of the engine whatever calls it: the   *)
(* attempt numbers of the orchestrator are not needed for it.              *)
(***************************************************************************)
EXTENDS Engine

VARIABLES
    eng,        \* the engine
    asked,      \* the tunnel the work asked so far amounts to, or NoTunnel
    last        \* what the last step asked and told

vars == <<eng, asked, last>>

Tunnels == [profile: Profiles \cup {NoProfile}, endpoint: Endpoints \cup {NoEndpoint}]

Init ==
    /\ eng = NewEngine
    /\ asked = NoTunnel
    /\ last = [work |-> <<>>, events |-> {}]

Take(in) ==
    \E r \in Step(eng, in) :
        /\ eng' = r.eng
        /\ asked' = AfterWork(asked, r.work)
        /\ last' = [work |-> r.work, events |-> r.events]

Connects == \E p \in Names \cup {NoProfile} : Take([kind |-> "Connect", profile |-> p])

Disconnects == Take([kind |-> "Disconnect"])

Races ==
    \E ps \in SUBSET Probeable \ {{}} : \E in \in Outcomes(ps) : Take(in)

Comes == Take([kind |-> "TunnelUp"])

StartFails == \E c \in StartCauses : Take([kind |-> "StartFailed", cause |-> c])

Checks == \E passed \in BOOLEAN : Take([kind |-> "LiveCheck", passed |-> passed])

Probes ==
    \E ep \in Endpoints, outcome \in ProbeOutcomes :
        Take([kind |-> "EndpointProbe", endpoint |-> ep, outcome |-> outcome])

Reads ==
    \/ \E env \in Environments : Take([kind |-> "Environment", env |-> env])
    \/ \E reach \in Reaches : Take([kind |-> "Reach", reach |-> reach])

Hears == \E kind \in {"PathChanged", "Connectivity"} : Take([kind |-> kind])

Next == Connects \/ Disconnects \/ Races \/ Comes \/ StartFails \/ Checks \/ Probes
           \/ Reads \/ Hears

Spec == Init /\ [][Next]_vars

-----------------------------------------------------------------------------
TypeOK ==
    /\ eng \in Engines
    /\ asked \in Tunnels
    /\ last.events \subseteq {"Failed", "ProbeStarted", "ProfileSelected", "ProfileBlocked",
                              "EndpointMigrated", "PathChanged", "Connectivity"}

\* Whatever order inputs come in, the tunnel the engine has asked for is the
\* one its phase names, and there is one in no other phase: a block, a
\* failure, a move and a disconnect all leave no tunnel asked for that the
\* state does not admit to (engine.rs, fail-closed policy).
AskedIsPhase == asked = Carried(eng)

\* A phase that works against an endpoint works against the one that probes
\* are compared with, so a dead endpoint is noticed in every such phase
\* (engine.rs:546, and the `expect' at engine.rs:340); only a race has raced.
EndpointInUse == InUse(eng)

\* A tunnel is never asked for on top of another: a start is asked with no
\* tunnel standing, or right after the stop of the old one in the same step,
\* and then for another profile or endpoint (engine.rs:559, "The tunnel stops
\* before the new one starts").
StopThenStart ==
    [][\A i \in 1..Len(last'.work) : last'.work[i].kind = "StartTunnel" =>
          \/ asked = NoTunnel
          \/ /\ i > 1 /\ last'.work[i - 1].kind = "StopTunnel"
             /\ asked # Tunnel(last'.work[i].profile, last'.work[i].endpoint)]_vars

\* Every automatic change says why: a step that changes the tunnel asked for
\* without the person disconnecting tells them what was selected, migrated or
\* failed (engine.rs:32).
ChangesAreTold ==
    [][asked' # asked /\ eng'.phase # "Idle" =>
          last'.events \cap {"Failed", "ProfileSelected", "EndpointMigrated",
                             "ProfileBlocked"} # {}]_vars
=============================================================================
