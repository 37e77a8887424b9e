---------------------------- MODULE RaceOutcomes ----------------------------
(***************************************************************************)
(* What a race of profiles can report to the engine (dnet-core/src/        *)
(* probe.rs, RaceReport of dnet-probe/src/race.rs).                        *)
(***************************************************************************)
EXTENDS Naturals

CONSTANTS
    Profiles,       \* the connection profiles
    Tier,           \* failover tier of each profile, 1 or 2
    NoProfile       \* no profile

\* What the results say of each profile; one that did not report in time, or
\* was not raced, is silent.
Results == [Profiles -> {"usable", "unusable", "silent"}]

\* What ProbeRace::decide can settle on: a usable profile with none of a
\* better tier among those that reported usable, or that none is.
Outcomes(ps) ==
    {in \in [kind: {"RaceFinished"}, winner: ps \cup {NoProfile}, results: Results] :
        /\ \A p \in Profiles \ ps : in.results[p] = "silent"
        /\ IF in.winner = NoProfile
           THEN \A p \in ps : in.results[p] # "usable"
           ELSE /\ in.results[in.winner] = "usable"
                /\ \A p \in ps : in.results[p] = "usable" => Tier[in.winner] =< Tier[p]}
=============================================================================
