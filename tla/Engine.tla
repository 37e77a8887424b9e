------------------------------- MODULE Engine -------------------------------
(***************************************************************************)
(* The connection engine of dnet-core/src/engine.rs: a pure state machine. *)
(* Every handler maps an engine state and an input to the next state, the  *)
(* work asked of the daemon and the events shown to the user, as           *)
(* Engine::step does.  The clock, the wording of reasons and `replacing`   *)
(* (which only words an event) are left out.                               *)
(***************************************************************************)
EXTENDS EndpointHealth, RaceOutcomes, Sequences, FiniteSets

CONSTANTS
    Probeable,      \* the ones a race can test through a proxy (not AmneziaWG)
    ProfileOrder,   \* position of each profile in the configuration
    Names,          \* the names clients ask for, known or not
    StartCauses,    \* the causes a tunnel can fail to start for
    BlockAfter,     \* failed live checks in a row that make a block
    Environments,   \* readings of the machine that can occur
    Reaches         \* answers a direct reachability check can give

ASSUME ProfilesAssumption ==
    /\ Probeable \subseteq Profiles
    /\ NoProfile \notin Profiles \cup Names
    /\ Tier \in [Profiles -> {1, 2}]
    /\ ProfileOrder \in [Profiles -> Nat]
    /\ \A S \in SUBSET Profiles : S # {} =>
          \E x \in S : \A y \in S : ProfileOrder[x] =< ProfileOrder[y]
    /\ BlockAfter \in Nat \ {0}

ReachAnswers == {"reachable", "unreachable", "unknown"}

Environment == [privileged: BOOLEAN, configError: BOOLEAN,
                usablePath: BOOLEAN, portal: BOOLEAN]

ASSUME ReadingsAssumption ==
    /\ StartCauses \subseteq {"NoUsablePath", "ConfigurationInvalid", "CoreFailedPersistently"}
    /\ Environments \subseteq Environment
    /\ Reaches \subseteq [Endpoints -> ReachAnswers]

DefaultEnvironment == [privileged |-> TRUE, configError |-> FALSE,
                       usablePath |-> TRUE, portal |-> FALSE]

\* Reach that was never reported reads as unknown for every endpoint.
NoReach == [e \in Endpoints |-> "unknown"]

-----------------------------------------------------------------------------
(* State, inputs, work.                                                    *)

Phases == {"Idle", "Probing", "Starting", "Connected", "Recovering", "Failed"}
Racing == {"Probing", "Recovering"}
Using  == {"Starting", "Connected"}     \* the phases with a tunnel
AtRest == {"Idle", "Failed"}            \* the phases a connect is taken in

NoCause == "none"
Causes == {"InsufficientPrivilege", "ConfigurationInvalid", "NoUsablePath",
           "CaptivePortalUnsatisfied", "NoEndpointReachable", "AllProfilesBlocked",
           "CoreFailedPersistently"}

Engines == [phase: Phases,
            profile: Profiles \cup {NoProfile},     \* of Starting, Connected
            active: Endpoints \cup {NoEndpoint},    \* of Starting, Connected
            cause: Causes \cup {NoCause},           \* of Failed
            via: [Profiles -> {"untested", "working", "blocked"}],
            health: [Endpoints -> Health],
            env: Environment,
            reach: [Endpoints -> ReachAnswers],
            failures: 0..BlockAfter,                \* BlockDetector
            reported: BOOLEAN,
            endpoint: Endpoints \cup {NoEndpoint},
            raced: SUBSET Profiles,
            requested: Names \cup {NoProfile}]

NewEngine == [phase |-> "Idle", profile |-> NoProfile, active |-> NoEndpoint,
              cause |-> NoCause,
              via |-> [p \in Profiles |-> "untested"],
              health |-> [e \in Endpoints |-> NeverProbed],
              env |-> DefaultEnvironment, reach |-> NoReach,
              failures |-> 0, reported |-> FALSE,
              endpoint |-> NoEndpoint, raced |-> {}, requested |-> NoProfile]

\* winner = NoProfile is the decision NoneUsable.
Inputs == [kind: {"Connect"}, profile: Names \cup {NoProfile}]
     \cup [kind: {"Disconnect", "TunnelUp", "PathChanged", "Connectivity"}]
     \cup [kind: {"RaceFinished"}, winner: Profiles \cup {NoProfile}, results: Results]
     \cup [kind: {"StartFailed"}, cause: StartCauses]
     \cup [kind: {"LiveCheck"}, passed: BOOLEAN]
     \cup [kind: {"EndpointProbe"}, endpoint: Endpoints, outcome: ProbeOutcomes]
     \cup [kind: {"Environment"}, env: Environments]
     \cup [kind: {"Reach"}, reach: Reaches]

Race(ps, e)  == [kind |-> "StartRace", profiles |-> ps, endpoint |-> e]
CancelRace   == [kind |-> "CancelRace"]
Start(p, e)  == [kind |-> "StartTunnel", profile |-> p, endpoint |-> e]
Stop         == [kind |-> "StopTunnel"]

WorkAsked == [kind: {"CancelRace", "StopTunnel"}]
        \cup [kind: {"StartRace"}, profiles: SUBSET Profiles, endpoint: Endpoints]
        \cup [kind: {"StartTunnel"}, profile: Profiles, endpoint: Endpoints]

Asked(e, work, events) == [eng |-> e, work |-> work, events |-> events]
Ignored(e) == Asked(e, <<>>, {})

\* What the engine asked before, followed by what it asks next.
Then(work, events, r) == Asked(r.eng, work \o r.work, events \cup r.events)

-----------------------------------------------------------------------------
(* Helpers.                                                                *)

SetPhase(e, phase, p, ep, cause) ==
    [e EXCEPT !.phase = phase, !.profile = p, !.active = ep, !.cause = cause]

ResetDetector(e) == [e EXCEPT !.failures = 0, !.reported = FALSE]

MarkWorking(e, p) == [e EXCEPT !.via[p] = "working"]
MarkBlocked(e, p) == [e EXCEPT !.via[p] = "blocked"]

FirstProfile(S) ==
    CHOOSE x \in S : \A y \in S : ProfileOrder[x] =< ProfileOrder[y]

BestTier(S) == {p \in S : \A q \in S : Tier[p] =< Tier[q]}

\* Slip: blocked profiles are not filtered out.
UnblockedAll(e) == Profiles

Unblocked(e) == {p \in Profiles : e.via[p] # "blocked"}

\* failure::classify, its order included: the first thing wrong is the cause.
\* Reach counts only after a race; before one every endpoint reads unknown.
Classify(e, afterRace) ==
    IF ~e.env.privileged THEN "InsufficientPrivilege"
    ELSE IF e.env.configError \/ Endpoints = {} \/ Profiles = {}
         THEN "ConfigurationInvalid"
    ELSE IF ~e.env.usablePath THEN "NoUsablePath"
    ELSE IF e.env.portal THEN "CaptivePortalUnsatisfied"
    ELSE IF afterRace /\ \A ep \in Endpoints : e.reach[ep] = "unreachable"
         THEN "NoEndpointReachable"
    ELSE IF Unblocked(e) = {} THEN "AllProfilesBlocked" ELSE NoCause

Fail(e, cause, stopTunnel) ==
    Asked([SetPhase(e, "Failed", NoProfile, NoEndpoint, cause) EXCEPT !.raced = {}],
          IF stopTunnel THEN <<Stop>> ELSE <<>>, {"Failed"})

StartRace(e, ps, ep, phase) ==
    Asked([SetPhase(e, phase, NoProfile, NoEndpoint, NoCause) EXCEPT !.raced = ps],
          <<Race(ps, ep)>>, IF phase = "Probing" THEN {"ProbeStarted"} ELSE {})

StartTunnel(e, p, ep) ==
    Asked(SetPhase(ResetDetector(e), "Starting", p, ep, NoCause),
          <<Start(p, ep)>>, {"ProfileSelected"})

\* The last resort: a profile that can only be tried by bringing it up, once
\* every profile that could be raced is blocked.
DirectFallback(e) ==
    LET untried == {p \in Profiles \ Probeable : e.via[p] = "untested"}
    IN  IF (\A p \in Probeable : e.via[p] = "blocked") /\ untried # {}
        THEN FirstProfile(untried) ELSE NoProfile

-----------------------------------------------------------------------------
(* Connect and disconnect.  `best' is the endpoint ranked first.           *)

NewAttempt(e, requested) ==
    [ResetDetector(e) EXCEPT !.via = [p \in Profiles |-> "untested"],
                             !.raced = {}, !.reach = NoReach,
                             !.requested = requested]

\* The profile or race a connect begins with, once an endpoint is chosen.
Begin(e, requested, ep) ==
    LET direct == DirectFallback(e)
    IN  IF requested \in Probeable THEN StartRace(e, {requested}, ep, "Probing")
        ELSE IF requested # NoProfile THEN StartTunnel(e, requested, ep)
        ELSE IF Probeable # {} THEN StartRace(e, Probeable, ep, "Probing")
        ELSE IF direct # NoProfile THEN StartTunnel(e, direct, ep)
        ELSE Fail(e, "AllProfilesBlocked", FALSE)

Connect(e, requested, best) ==
    LET f == NewAttempt(e, requested)
        cause == Classify(f, FALSE)
    IN  IF e.phase \notin AtRest THEN Ignored(e)
        ELSE IF cause # NoCause THEN Fail(f, cause, FALSE)
        ELSE IF requested \notin Profiles \cup {NoProfile}
             THEN Fail(f, "ConfigurationInvalid", FALSE)
        ELSE IF best = NoEndpoint THEN Fail(f, "NoEndpointReachable", FALSE)
        ELSE Begin([f EXCEPT !.endpoint = best], requested, best)

\* Slip: a tunnel that is still starting is not stopped.
DisconnectConnectedOnly(e) ==
    Asked([SetPhase(e, "Idle", NoProfile, NoEndpoint, NoCause) EXCEPT !.raced = {}],
          CASE e.phase \in Racing      -> <<CancelRace>>
            [] e.phase = "Connected"   -> <<Stop>>
            [] OTHER                   -> <<>>,
          {})

Disconnect(e) ==
    Asked([SetPhase(e, "Idle", NoProfile, NoEndpoint, NoCause) EXCEPT !.raced = {}],
          CASE e.phase \in Racing -> <<CancelRace>>
            [] e.phase \in Using  -> <<Stop>>
            [] OTHER              -> <<>>,
          {})

-----------------------------------------------------------------------------
(* The race.                                                               *)

\* Found unusable, or, with no winner, never heard of in time.  With a winner
\* the losers were cut short and stay as they were.
Blocks(e, winner, results) ==
    {p \in Profiles : \/ results[p] = "unusable"
                      \/ /\ winner = NoProfile /\ p \in e.raced
                         /\ results[p] = "silent"}

RecordResults(e, winner, results) ==
    LET judged(p) == CASE p = winner \/ results[p] = "usable" -> "working"
                       [] p # winner /\ p \in Blocks(e, winner, results) -> "blocked"
                       [] OTHER -> e.via[p]
    IN  [e EXCEPT !.via = [p \in Profiles |-> judged(p)], !.raced = {}]

\* The first race of a connect that named its profile.
OnlyTheNamed(e) == e.phase # "Recovering" /\ e.requested # NoProfile

RaceFinished(e, winner, results) ==
    LET f == RecordResults(e, winner, results)
        told == IF Blocks(e, winner, results) # {} THEN {"ProfileBlocked"} ELSE {}
        cause == Classify(f, TRUE)
        settled ==
            IF winner # NoProfile THEN StartTunnel(f, winner, e.endpoint)
            ELSE IF cause # NoCause THEN Fail(f, cause, FALSE)
            ELSE IF OnlyTheNamed(e) THEN Fail(f, "ConfigurationInvalid", FALSE)
            ELSE IF DirectFallback(f) # NoProfile
                 THEN StartTunnel(f, DirectFallback(f), e.endpoint)
            ELSE Fail(f, "AllProfilesBlocked", FALSE)
    IN  IF e.phase \notin Racing \/ (winner # NoProfile /\ winner \notin e.raced)
        THEN Ignored(e)
        ELSE Then(<<>>, told, settled)

-----------------------------------------------------------------------------
(* The tunnel.                                                             *)

TunnelUp(e) ==
    IF e.phase = "Starting"
    THEN Asked([MarkWorking(ResetDetector(e), e.profile) EXCEPT !.phase = "Connected"], <<>>, {})
    ELSE Ignored(e)

StartFailed(e, cause) ==
    IF e.phase = "Starting" THEN Fail(e, cause, TRUE) ELSE Ignored(e)

\* path_changed and connectivity: a connection is told about, nothing else.
PathNews(e, event) ==
    IF e.phase = "Connected" THEN Asked(e, <<>>, {event}) ELSE Ignored(e)

\* BlockDetector::observe.
Observe(e, passed) ==
    IF passed THEN ResetDetector(e)
    ELSE LET n == CountTo(BlockAfter, e.failures)
         IN  [e EXCEPT !.failures = n, !.reported = e.reported \/ n >= BlockAfter]

\* Slips: the new tunnel is asked for on top of the old one; the endpoint that
\* probes are compared with stays the old one; nobody is told.
RelocateOnTop(e, p, to) ==
    IF to = NoEndpoint THEN Fail(e, "NoEndpointReachable", TRUE)
    ELSE Asked(SetPhase([ResetDetector(e) EXCEPT !.endpoint = to], "Starting", p, to, NoCause),
               <<Start(p, to)>>, {"EndpointMigrated"})

RelocateForgetsEndpoint(e, p, to) ==
    IF to = NoEndpoint THEN Fail(e, "NoEndpointReachable", TRUE)
    ELSE Asked(SetPhase(ResetDetector(e), "Starting", p, to, NoCause),
               <<Stop, Start(p, to)>>, {"EndpointMigrated"})

RelocateSilently(e, p, to) ==
    IF to = NoEndpoint THEN Fail(e, "NoEndpointReachable", TRUE)
    ELSE Asked(SetPhase([ResetDetector(e) EXCEPT !.endpoint = to], "Starting", p, to, NoCause),
               <<Stop, Start(p, to)>>, {})

\* relocate_tunnel, for an endpoint that must be left.  The stop comes first.
RelocateTunnel(e, p, to) ==
    IF to = NoEndpoint THEN Fail(e, "NoEndpointReachable", TRUE)
    ELSE Asked(SetPhase([ResetDetector(e) EXCEPT !.endpoint = to], "Starting", p, to, NoCause),
               <<Stop, Start(p, to)>>, {"EndpointMigrated"})

\* Slip: the race of the substitutes runs with the dead tunnel still up.
RecoverWithoutStop(e, p, ep) ==
    LET f == MarkBlocked(e, p)
        candidates == Unblocked(f) \ {p}
    IN  Then(<<>>, {"ProfileBlocked"},
             IF candidates = {} THEN Fail(f, "AllProfilesBlocked", FALSE)
             ELSE IF candidates \cap Probeable # {}
             THEN StartRace(f, candidates \cap Probeable, ep, "Recovering")
             ELSE StartTunnel(f, FirstProfile(BestTier(candidates)), ep))

\* What replaces profile p, which stopped carrying traffic: a race of the
\* profiles not known to be blocked, or the first that cannot be raced.
Recover(e, p, ep) ==
    LET f == MarkBlocked(e, p)
        candidates == Unblocked(f) \ {p}
    IN  Then(<<Stop>>, {"ProfileBlocked"},
             IF candidates = {} THEN Fail(f, "AllProfilesBlocked", FALSE)
             ELSE IF candidates \cap Probeable # {}
             THEN StartRace(f, candidates \cap Probeable, ep, "Recovering")
             ELSE StartTunnel(f, FirstProfile(BestTier(candidates)), ep))

\* The machine and the endpoint are ruled out before the profile is blamed.
LiveCheck(e, passed, best) ==
    LET f == Observe(e, passed)
        cause == Classify(f, FALSE)
    IN  IF e.phase # "Connected" THEN Ignored(e)
        ELSE IF ~(f.reported /\ ~e.reported) THEN Ignored(f)
        ELSE IF cause # NoCause THEN Fail(f, cause, TRUE)
        ELSE IF MustLeave(f.health, e.active) THEN RelocateTunnel(f, e.profile, best)
        ELSE Recover(f, e.profile, e.active)

RelocateRace(e, to) ==
    IF to = NoEndpoint
    THEN Then(<<CancelRace>>, {}, Fail(e, "NoEndpointReachable", FALSE))
    ELSE Asked([e EXCEPT !.endpoint = to],
               <<CancelRace, Race(e.raced, to)>>, {"EndpointMigrated"})

Probed(e, ep, outcome) == [e EXCEPT !.health[ep] = OnProbe(e.health[ep], outcome)]

\* Only the endpoint in use moves the connection, and only on the probe that
\* makes it unreachable.
EndpointProbe(e, ep, outcome, best) ==
    LET f == Probed(e, ep, outcome)
    IN  IF \/ e.endpoint # ep
           \/ ~BecameUnreachable(e.health[ep], f.health[ep])
           \/ ~MustLeave(f.health, ep)
           \/ e.phase \in AtRest
        THEN Ignored(f)
        ELSE IF e.phase \in Using THEN RelocateTunnel(f, e.profile, best)
        ELSE RelocateRace(f, best)

-----------------------------------------------------------------------------
(* Engine::step: the results one input can have.  More than one only where *)
(* the ranking depends on round-trip times.                                *)

Step(e, in) ==
    CASE in.kind = "Connect" ->
            {Connect(e, in.profile, b) : b \in RankFirst(e.health)}
      [] in.kind = "Disconnect" -> {Disconnect(e)}
      [] in.kind = "RaceFinished" -> {RaceFinished(e, in.winner, in.results)}
      [] in.kind = "TunnelUp" -> {TunnelUp(e)}
      [] in.kind = "StartFailed" -> {StartFailed(e, in.cause)}
      [] in.kind = "LiveCheck" ->
            {LiveCheck(e, in.passed, b) : b \in RankFirst(e.health)}
      [] in.kind = "EndpointProbe" ->
            {EndpointProbe(e, in.endpoint, in.outcome, b) :
                b \in RankFirst(Probed(e, in.endpoint, in.outcome).health)}
      [] in.kind = "Environment" -> {Ignored([e EXCEPT !.env = in.env])}
      [] in.kind = "Reach" -> {Ignored([e EXCEPT !.reach = in.reach])}
      [] OTHER -> {PathNews(e, in.kind)}

-----------------------------------------------------------------------------
(* What the phase of an engine says about tunnels, races and endpoints.    *)

NoTunnel == [profile |-> NoProfile, endpoint |-> NoEndpoint]
Tunnel(p, e) == [profile |-> p, endpoint |-> e]
\* Carrying out the work of one step, in order.
AfterItem(t, w) ==
    CASE w.kind = "StopTunnel"  -> NoTunnel
      [] w.kind = "StartTunnel" -> Tunnel(w.profile, w.endpoint)
      [] OTHER                  -> t

AfterWork(t, work) ==
    CASE Len(work) = 0 -> t
      [] Len(work) = 1 -> AfterItem(t, work[1])
      [] OTHER         -> AfterItem(AfterItem(t, work[1]), work[2])

\* The tunnel the phase of an engine names.
Carried(e) == IF e.phase \in Using THEN Tunnel(e.profile, e.active) ELSE NoTunnel

\* A phase with a tunnel has a profile and the endpoint of the attempt, a race
\* has that endpoint and somebody in it, and no other phase has any raced.
InUse(e) ==
    /\ e.phase \in Using  => e.profile \in Profiles /\ e.active \in Endpoints
                             /\ e.active = e.endpoint
    /\ e.phase \in Racing => e.endpoint \in Endpoints /\ e.raced # {}
    /\ e.phase \notin Racing => e.raced = {}
=============================================================================
