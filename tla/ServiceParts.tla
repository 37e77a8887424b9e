----------------------------- MODULE ServiceParts -----------------------------
(***************************************************************************)
(* The parts of the service that share no state in the models: held        *)
(* changes, the remembered intent, the signed feed, a provisioning job,    *)
(* the path watch, the event stream, the saved configuration, a race of    *)
(* profiles, the routing rules and the reports of a poor path.  A          *)
(* behaviour is one of a single part, the others staying as they began;    *)
(* what is said of a part is what its own specification allows.            *)
(***************************************************************************)
EXTENDS HeldChanges, ResumeAndRetry, SignedFeed, ServerJob, PathWatch, EventStream, SavedConfig,
    ProbeRace, RoutingRules, PathReports

VARIABLE part

partsVars ==
    <<part, heldVars, resumeVars, feedVars, jobVars, watchVars, streamVars, configVars, raceVars, ruleVars,
      reportVars>>

PartsInit ==
    /\ part \in {"held", "resume", "feed", "job", "watch", "stream", "config", "race", "rules",
                "reports"}
    /\ HeldInit /\ ResumeInit /\ FeedInit /\ JobInit /\ WatchInit /\ StreamInit /\ ConfigInit
    /\ RaceInit /\ RulesInit /\ ReportInit

PartsNext ==
    \/ /\ part = "held" /\ HeldNext
       /\ UNCHANGED <<part, resumeVars, feedVars, jobVars, watchVars,
                      streamVars, configVars, raceVars, ruleVars, reportVars>>
    \/ /\ part = "resume" /\ ResumeNext
       /\ UNCHANGED <<part, heldVars, feedVars, jobVars, watchVars,
                      streamVars, configVars, raceVars, ruleVars, reportVars>>
    \/ /\ part = "feed" /\ FeedNext
       /\ UNCHANGED <<part, heldVars, resumeVars, jobVars, watchVars,
                      streamVars, configVars, raceVars, ruleVars, reportVars>>
    \/ /\ part = "job" /\ JobNext
       /\ UNCHANGED <<part, heldVars, resumeVars, feedVars, watchVars,
                      streamVars, configVars, raceVars, ruleVars, reportVars>>
    \/ /\ part = "watch" /\ WatchNext
       /\ UNCHANGED <<part, heldVars, resumeVars, feedVars, jobVars,
                      streamVars, configVars, raceVars, ruleVars, reportVars>>
    \/ /\ part = "stream" /\ StreamNext
       /\ UNCHANGED <<part, heldVars, resumeVars, feedVars, jobVars,
                      watchVars, configVars, raceVars, ruleVars, reportVars>>
    \/ /\ part = "config" /\ ConfigNext
       /\ UNCHANGED <<part, heldVars, resumeVars, feedVars, jobVars,
                      watchVars, streamVars, raceVars, ruleVars, reportVars>>
    \/ /\ part = "race" /\ RaceNext
       /\ UNCHANGED <<part, heldVars, resumeVars, feedVars, jobVars,
                      watchVars, streamVars, configVars, ruleVars, reportVars>>
    \/ /\ part = "rules" /\ RulesNext
       /\ UNCHANGED <<part, heldVars, resumeVars, feedVars, jobVars,
                      watchVars, streamVars, configVars, raceVars, reportVars>>
    \/ /\ part = "reports" /\ ReportNext
       /\ UNCHANGED <<part, heldVars, resumeVars, feedVars, jobVars,
                      watchVars, streamVars, configVars, raceVars, ruleVars>>

PartsSpec == PartsInit /\ [][PartsNext]_partsVars

\* Each part's own type invariant, for the part that moves: counters, ages and
\* slots stay inside their limits (among them the subscriber slots, which are
\* given back however a subscription ends, wire.rs).
PartsTypeOK ==
    /\ part = "held" => HeldTypeOK
    /\ part = "resume" => ResumeTypeOK
    /\ part = "feed" => FeedTypeOK
    /\ part = "job" => JobTypeOK
    /\ part = "watch" => WatchTypeOK
    /\ part = "stream" => StreamTypeOK
    /\ part = "config" => ConfigTypeOK
    /\ part = "race" => RaceTypeOK
    /\ part = "rules" => RuleTypeOK
    /\ part = "reports" => ReportTypeOK

\* RoutedAsRuled, looked at while the rules move: the built-in rules decide
\* before a person's, a tunnel to any endpoint can be told all of them, and a
\* name is looked up where it is routed (rule.rs:270, primary.rs:426).
PartsRoutedAsRuled == part = "rules" => RoutedAsRuled

\* ReadBackTheSame, likewise: a saved set of rules is accepted at the next start
\* and means the same (domain.rs:77).
PartsReadBackTheSame == part = "rules" => ReadBackTheSame
=============================================================================
