--------------------------- MODULE EndpointHealth ---------------------------
(***************************************************************************)
(* Endpoint health, ranking and migration: the pure decisions of           *)
(* dnet-core/src/health.rs, endpoint_health.rs and migrate.rs.             *)
(*                                                                         *)
(* The smoothed round-trip time is not modelled.  It only orders endpoints *)
(* that share a health state, so RankFirst offers every endpoint that some *)
(* choice of round-trip times could put first.                             *)
(***************************************************************************)
EXTENDS Naturals

CONSTANTS
    Endpoints,          \* the endpoints the engine was built with
    Enabled,            \* the ones that are switched on
    EndpointOrder,      \* their position in the configuration
    NoEndpoint,         \* no endpoint
    UnreachableAfter,   \* failed probes in a row that make one unreachable
    DegradedAfterBad,   \* slow or lossy probes in a row: Healthy -> Degraded
    ProbeOutcomes,      \* the outcomes a probe of an endpoint can have
    HealthyAfterGood    \* good probes in a row: Degraded -> Healthy

ASSUME EndpointsAssumption ==
    /\ Enabled \subseteq Endpoints
    /\ NoEndpoint \notin Endpoints
    /\ EndpointOrder \in [Endpoints -> Nat]
    /\ \A S \in SUBSET Endpoints : S # {} =>
          \E x \in S : \A y \in S : EndpointOrder[x] =< EndpointOrder[y]

ASSUME ThresholdsAssumption ==
    /\ UnreachableAfter \in Nat \ {0}
    /\ DegradedAfterBad \in Nat \ {0}
    /\ HealthyAfterGood \in Nat \ {0}
    \* An answer is good when fast and lossless, poor when slow or lossy; a
    \* probe can always fail.
    /\ ProbeOutcomes \subseteq {"good", "poor", "failed"} /\ "failed" \in ProbeOutcomes

HealthStates == {"Unknown", "Healthy", "Degraded", "Unreachable"}

\* The three counters of EndpointHealth.  They are compared with their
\* threshold and nothing else, so each is kept up to its threshold only.
Health == [state: HealthStates,
           failures: 0..UnreachableAfter,
           bad: 0..DegradedAfterBad,
           good: 0..HealthyAfterGood]

NeverProbed == [state |-> "Unknown", failures |-> 0, bad |-> 0, good |-> 0]

\* saturating_add, at the bound past which the counter says nothing new.
CountTo(bound, n) == IF n + 1 < bound THEN n + 1 ELSE bound

-----------------------------------------------------------------------------
(* One probe.                                                              *)

\* A failed probe is no quality sample.  The first one an endpoint ever gets
\* makes it unreachable at once, and so does any while it is unreachable.
FailedProbe(h) ==
    LET n == CountTo(UnreachableAfter, h.failures)
        gone == h.state \in {"Unknown", "Unreachable"} \/ n >= UnreachableAfter
    IN  [state |-> IF gone THEN "Unreachable" ELSE h.state,
         failures |-> n, bad |-> 0, good |-> 0]

StateAfterSuccess(prev, bad, good) ==
    IF prev = "Degraded"
    THEN IF good >= HealthyAfterGood THEN "Healthy" ELSE "Degraded"
    ELSE IF bad >= DegradedAfterBad THEN "Degraded" ELSE "Healthy"

AnsweredProbe(h, outcome) ==
    LET bad  == IF outcome = "poor" THEN CountTo(DegradedAfterBad, h.bad) ELSE 0
        good == IF outcome = "good" THEN CountTo(HealthyAfterGood, h.good) ELSE 0
    IN  [state |-> StateAfterSuccess(h.state, bad, good),
         failures |-> 0, bad |-> bad, good |-> good]

OnProbe(h, outcome) ==
    IF outcome = "failed" THEN FailedProbe(h) ELSE AnsweredProbe(h, outcome)

BecameUnreachable(before, after) ==
    before.state # "Unreachable" /\ after.state = "Unreachable"

-----------------------------------------------------------------------------
(* Ranking and migration.  health : [Endpoints -> Health]                  *)

Candidates(health) == {e \in Enabled : health[e].state # "Unreachable"}

StateRank(s) == CASE s = "Healthy"  -> 0
                  [] s = "Degraded" -> 1
                  [] s = "Unknown"  -> 2
                  [] OTHER          -> 3

BestState(health) ==
    {e \in Candidates(health) : \A f \in Candidates(health) :
        StateRank(health[e].state) =< StateRank(health[f].state)}

FirstEndpoint(S) ==
    CHOOSE x \in S : \A y \in S : EndpointOrder[x] =< EndpointOrder[y]

\* What rank(..).first() can be.  An endpoint that was never probed has no
\* round-trip time, so among those the configured order decides.
RankFirst(health) ==
    IF Candidates(health) = {} THEN {NoEndpoint}
    ELSE IF \A e \in BestState(health) : health[e].state = "Unknown"
    THEN {FirstEndpoint(BestState(health))} ELSE BestState(health)

\* plan_migration: a usable endpoint is kept, however slow.
MustLeave(health, active) == active \notin Candidates(health)
=============================================================================
