----------------------------- MODULE EngineProofs -----------------------------
(***************************************************************************)
(* What every step of the engine preserves, for any profiles, endpoints    *)
(* and thresholds: from an engine that satisfies InUse, each handler leads *)
(* to one that does, and the work it asks for turns the tunnel of the old  *)
(* phase into the tunnel of the new one.  One lemma for each helper and    *)
(* each handler, put together in StepLeads.                                *)
(***************************************************************************)
EXTENDS Engine, TLAPS

EventNames == {"Failed", "ProbeStarted", "ProfileSelected", "ProfileBlocked",
               "EndpointMigrated", "PathChanged", "Connectivity"}

\* No step asks for more than two things.
ShortWork(w) == w \in Seq(WorkAsked) /\ Len(w) =< 2

\* A result that is sound when the tunnel asked for before it was t.
Leads(t, r) ==
    /\ r.eng \in Engines /\ InUse(r.eng)
    /\ ShortWork(r.work)
    /\ AfterWork(t, r.work) = Carried(r.eng)
    /\ r.events \subseteq EventNames

-----------------------------------------------------------------------------
(* The ranking.                                                            *)

\* A non-empty set of endpoints has a first one in configuration order.
LEMMA FirstEndpointType ==
    ASSUME NEW S \in SUBSET Endpoints, S # {}
    PROVE  FirstEndpoint(S) \in S
BY EndpointsAssumption DEF FirstEndpoint

\* Among the candidates some are in the best state.
LEMMA BestStateType ==
    ASSUME NEW health \in [Endpoints -> Health], Candidates(health) # {}
    PROVE  BestState(health) \in SUBSET Endpoints /\ BestState(health) # {}
<1> DEFINE In(s) == {e \in Candidates(health) : health[e].state = s}
<1>1. Candidates(health) \subseteq Endpoints
  BY EndpointsAssumption DEF Candidates
<1>2. \A e \in Candidates(health) : health[e].state \in {"Unknown", "Healthy", "Degraded"}
  BY <1>1 DEF Candidates, Health, HealthStates
<1>3. \A s : StateRank(s) \in 0..3
  BY DEF StateRank
<1>4. CASE In("Healthy") # {}
  <2>1. PICK e \in Candidates(health) : health[e].state = "Healthy"
    BY <1>4
  <2>2. e \in BestState(health)
    BY <2>1, <1>3 DEF BestState, StateRank
  <2> QED BY <2>2, <1>1 DEF BestState
<1>5. CASE In("Healthy") = {} /\ In("Degraded") # {}
  <2>1. PICK e \in Candidates(health) : health[e].state = "Degraded"
    BY <1>5
  <2>2. \A f \in Candidates(health) : health[f].state \in {"Degraded", "Unknown"}
    BY <1>5, <1>2
  <2>3. e \in BestState(health)
    BY <2>1, <2>2 DEF BestState, StateRank
  <2> QED BY <2>3, <1>1 DEF BestState
<1>6. CASE In("Healthy") = {} /\ In("Degraded") = {}
  <2>1. \A f \in Candidates(health) : health[f].state = "Unknown"
    BY <1>6, <1>2
  <2>2. BestState(health) = Candidates(health)
    BY <2>1 DEF BestState, StateRank
  <2> QED BY <2>2, <1>1
<1> QED BY <1>4, <1>5, <1>6

\* What is ranked first is an endpoint that may be used, or none.
LEMMA RankFirstType ==
    ASSUME NEW health \in [Endpoints -> Health], NEW b \in RankFirst(health)
    PROVE  b \in Endpoints \cup {NoEndpoint}
<1>1. CASE Candidates(health) = {}
  BY <1>1 DEF RankFirst
<1>2. CASE Candidates(health) # {}
  <2>1. BestState(health) \in SUBSET Endpoints /\ BestState(health) # {}
    BY <1>2, BestStateType
  <2>2. FirstEndpoint(BestState(health)) \in Endpoints
    BY <2>1, FirstEndpointType
  <2>3. RankFirst(health) \in {{FirstEndpoint(BestState(health))}, BestState(health)}
    BY <1>2 DEF RankFirst
  <2> QED BY <2>1, <2>2, <2>3
<1> QED BY <1>1, <1>2

\* One probe keeps the counters within their thresholds.
LEMMA OnProbeType ==
    ASSUME NEW h \in Health, NEW outcome \in ProbeOutcomes
    PROVE  OnProbe(h, outcome) \in Health
<1>1. \A bound \in Nat \ {0}, n \in Nat : n =< bound => CountTo(bound, n) \in 0..bound
  BY DEF CountTo
<1>2. CASE outcome = "failed"
  BY <1>1, <1>2, ThresholdsAssumption DEF OnProbe, FailedProbe, Health, HealthStates
<1>3. CASE outcome # "failed"
  <2> DEFINE bad == IF outcome = "poor" THEN CountTo(DegradedAfterBad, h.bad) ELSE 0
             good == IF outcome = "good" THEN CountTo(HealthyAfterGood, h.good) ELSE 0
  <2>1. bad \in 0..DegradedAfterBad /\ good \in 0..HealthyAfterGood
    BY <1>1, ThresholdsAssumption DEF Health
  <2>2. StateAfterSuccess(h.state, bad, good) \in HealthStates
    BY DEF StateAfterSuccess, HealthStates
  <2> QED BY <1>3, <2>1, <2>2, ThresholdsAssumption DEF OnProbe, AnsweredProbe, Health
<1> QED BY <1>2, <1>3

-----------------------------------------------------------------------------
(* The helpers.                                                            *)

\* A new engine is well formed: idle, nothing raced, no counter moved
\* (Engine::new).
LEMMA NewEngineInUse == NewEngine \in Engines /\ InUse(NewEngine)
<1>1. NeverProbed \in Health
  BY ThresholdsAssumption DEF NeverProbed, Health, HealthStates
<1>2. DefaultEnvironment \in Environment
  BY DEF DefaultEnvironment, Environment
<1>3. NoReach \in [Endpoints -> ReachAnswers]
  BY DEF NoReach, ReachAnswers
<1>4. 0 \in 0..BlockAfter
  BY ProfilesAssumption
<1>5. NewEngine \in Engines
  BY <1>1, <1>2, <1>3, <1>4 DEF NewEngine, Engines, Phases
<1>6. NewEngine.phase = "Idle" /\ NewEngine.raced = {}
  BY DEF NewEngine
<1> QED BY <1>5, <1>6 DEF InUse, Using, Racing

\* Setting the phase keeps the type and touches nothing but the phase's fields.
LEMMA SetPhaseType ==
    ASSUME NEW e \in Engines, NEW phase \in Phases, NEW p \in Profiles \cup {NoProfile},
           NEW ep \in Endpoints \cup {NoEndpoint}, NEW cause \in Causes \cup {NoCause}
    PROVE  /\ SetPhase(e, phase, p, ep, cause) \in Engines
           /\ SetPhase(e, phase, p, ep, cause).phase = phase
           /\ SetPhase(e, phase, p, ep, cause).profile = p
           /\ SetPhase(e, phase, p, ep, cause).active = ep
           /\ SetPhase(e, phase, p, ep, cause).endpoint = e.endpoint
           /\ SetPhase(e, phase, p, ep, cause).raced = e.raced
BY DEF SetPhase, Engines

\* Resetting the block detector touches only its two counters.
LEMMA ResetDetectorType ==
    ASSUME NEW e \in Engines
    PROVE  /\ ResetDetector(e) \in Engines
           /\ ResetDetector(e).phase = e.phase /\ ResetDetector(e).profile = e.profile
           /\ ResetDetector(e).active = e.active
           /\ ResetDetector(e).endpoint = e.endpoint /\ ResetDetector(e).raced = e.raced
<1>1. 0 \in 0..BlockAfter
  BY ProfilesAssumption
<1> QED BY <1>1 DEF ResetDetector, Engines

\* The four kinds of work the engine can ask for (Action).
LEMMA WorkType ==
    /\ Stop \in WorkAsked /\ CancelRace \in WorkAsked
    /\ \A ps \in SUBSET Profiles, ep \in Endpoints : Race(ps, ep) \in WorkAsked
    /\ \A p \in Profiles, ep \in Endpoints : Start(p, ep) \in WorkAsked
BY DEF Stop, CancelRace, Race, Start, WorkAsked

\* Nothing, one thing or two are work a step may ask for.
LEMMA WorkSeqType ==
    /\ ShortWork(<<>>)
    /\ \A v \in WorkAsked : ShortWork(<<v>>)
    /\ \A v \in WorkAsked, w \in WorkAsked : ShortWork(<<v, w>>)
BY DEF ShortWork

\* Failing leaves no tunnel: it stops one, or there is none (Engine::fail).
LEMMA FailLeads ==
    ASSUME NEW e \in Engines, NEW cause \in Causes, NEW stop \in BOOLEAN, NEW t,
           ~stop => t = NoTunnel
    PROVE  Leads(t, Fail(e, cause, stop))
<1> DEFINE f == SetPhase(e, "Failed", NoProfile, NoEndpoint, cause)
           r == Fail(e, cause, stop)
<1>1. f \in Engines /\ f.phase = "Failed"
  BY SetPhaseType DEF Phases
<1>2. r.eng = [f EXCEPT !.raced = {}] /\ r.work = (IF stop THEN <<Stop>> ELSE <<>>)
      /\ r.events = {"Failed"}
  BY DEF Fail, Asked
<1>3. r.eng \in Engines /\ r.eng.phase = "Failed" /\ r.eng.raced = {}
  BY <1>1, <1>2 DEF Engines
<1>4. AfterWork(t, r.work) = NoTunnel
  BY <1>2 DEF AfterWork, AfterItem, Stop
<1>5. ShortWork(r.work)
  BY <1>2, WorkType, WorkSeqType
<1> QED BY <1>2, <1>3, <1>4, <1>5 DEF Leads, InUse, Carried, Using, Racing, EventNames

\* A race is started against the endpoint of the attempt, with no tunnel
\* (Engine::start_race).
LEMMA StartRaceLeads ==
    ASSUME NEW e \in Engines, NEW ps \in SUBSET Profiles, ps # {}, NEW ep \in Endpoints,
           e.endpoint = ep, NEW phase \in Racing
    PROVE  Leads(NoTunnel, StartRace(e, ps, ep, phase))
<1> DEFINE f == SetPhase(e, phase, NoProfile, NoEndpoint, NoCause)
           r == StartRace(e, ps, ep, phase)
<1>0. phase \in Phases
  BY DEF Phases, Racing
<1>1. f \in Engines /\ f.phase = phase /\ f.endpoint = ep
  BY <1>0, SetPhaseType
<1>2. r.eng = [f EXCEPT !.raced = ps] /\ r.work = <<Race(ps, ep)>>
      /\ r.events \subseteq {"ProbeStarted"}
  BY DEF StartRace, Asked
<1>3. r.eng \in Engines /\ r.eng.phase = phase /\ r.eng.raced = ps /\ r.eng.endpoint = ep
  BY <1>1, <1>2 DEF Engines
<1>4. AfterWork(NoTunnel, r.work) = NoTunnel
  BY <1>2 DEF AfterWork, AfterItem, Race
<1>5. ShortWork(r.work)
  BY <1>2, WorkType, WorkSeqType
<1> QED BY <1>2, <1>3, <1>4, <1>5 DEF Leads, InUse, Carried, Using, Racing, EventNames

\* Starting a tunnel to the endpoint of the attempt makes it the one the
\* phase names (Engine::start_tunnel).
LEMMA StartTunnelLeads ==
    ASSUME NEW e \in Engines, NEW p \in Profiles, NEW ep \in Endpoints,
           e.endpoint = ep, e.raced = {}, NEW t
    PROVE  Leads(t, StartTunnel(e, p, ep))
<1> DEFINE f == SetPhase(ResetDetector(e), "Starting", p, ep, NoCause)
           r == StartTunnel(e, p, ep)
<1>1. f \in Engines /\ f.phase = "Starting" /\ f.profile = p /\ f.active = ep
      /\ f.endpoint = ep /\ f.raced = {}
  BY SetPhaseType, ResetDetectorType DEF Phases
<1>2. r.eng = f /\ r.work = <<Start(p, ep)>> /\ r.events = {"ProfileSelected"}
  BY DEF StartTunnel, Asked
<1>3. AfterWork(t, r.work) = Tunnel(p, ep)
  BY <1>2 DEF AfterWork, AfterItem, Start
<1>4. ShortWork(r.work)
  BY <1>2, WorkType, WorkSeqType
<1> QED BY <1>1, <1>2, <1>3, <1>4 DEF Leads, InUse, Carried, Using, Racing, EventNames

\* Two requests of one step, in order.
LEMMA OneAfterAnother == ASSUME NEW v, NEW w PROVE <<v>> \o <<w>> = <<v, w>>
<1>1. <<v>> \in Seq({v, w}) /\ <<w>> \in Seq({v, w}) /\ <<v, w>> \in Seq({v, w})
  OBVIOUS
<1>2. <<v>> \o <<w>> \in Seq({v, w}) /\ Len(<<v>> \o <<w>>) = 2
  BY <1>1
<1>3. (<<v>> \o <<w>>)[1] = v /\ (<<v>> \o <<w>>)[2] = w
  BY <1>1
<1> DEFINE c == <<v>> \o <<w>>
<1> HIDE DEF c
<1>4. c \in Seq({v, w}) /\ Len(c) = 2 /\ c[1] = v /\ c[2] = w
  BY <1>2, <1>3 DEF c
<1>5. c = <<c[1], c[2]>>
  BY <1>4
<1> QED BY <1>4, <1>5 DEF c

\* Work asked before a step that leads on from no tunnel.
LEMMA StopThenLeads ==
    ASSUME NEW t, NEW r, NEW events \in SUBSET EventNames, Leads(NoTunnel, r),
           r.work = <<>> \/ \E w : r.work = <<w>>
    PROVE  Leads(t, Then(<<Stop>>, events, r))
<1> DEFINE q == Then(<<Stop>>, events, r)
<1>1. q.eng = r.eng /\ q.work = <<Stop>> \o r.work /\ q.events = events \cup r.events
  BY DEF Then, Asked
<1>2. AfterWork(t, q.work) = AfterWork(NoTunnel, r.work)
  <2>1. CASE r.work = <<>>
    <3>1. q.work = <<Stop>>
      BY <1>1, <2>1
    <3> QED BY <2>1, <3>1 DEF AfterWork, AfterItem, Stop
  <2>2. ASSUME NEW w, r.work = <<w>> PROVE AfterWork(t, q.work) = AfterWork(NoTunnel, r.work)
    <3>1. q.work = <<Stop, w>>
      BY <1>1, <2>2
    <3> QED BY <2>2, <3>1 DEF AfterWork, AfterItem, Stop
  <2> QED BY <2>1, <2>2
<1>3. ShortWork(q.work)
  <2>1. Stop \in WorkAsked /\ ShortWork(r.work)
    BY WorkType DEF Leads
  <2>2. CASE r.work = <<>>
    <3>1. q.work = <<Stop>>
      BY <1>1, <2>2
    <3> QED BY <2>1, <3>1, WorkSeqType
  <2>3. ASSUME NEW w, r.work = <<w>> PROVE ShortWork(q.work)
    <3>1. q.work = <<Stop, w>>
      BY <1>1, <2>3
    <3>2. w \in WorkAsked
      BY <2>1, <2>3 DEF ShortWork
    <3> QED BY <2>1, <3>1, <3>2, WorkSeqType
  <2> QED BY <2>2, <2>3
<1> QED BY <1>1, <1>2, <1>3 DEF Leads

\* Events told before a step change nothing of what it leads to.
LEMMA NothingThenLeads ==
    ASSUME NEW t, NEW r, NEW events \in SUBSET EventNames, Leads(t, r),
           r.work = <<>> \/ \E w : r.work = <<w>>
    PROVE  Leads(t, Then(<<>>, events, r))
<1>1. <<>> \o r.work = r.work
  OBVIOUS
<1> QED BY <1>1 DEF Then, Asked, Leads

\* The last resort is a profile or none (Engine::direct_fallback).
LEMMA DirectFallbackType ==
    ASSUME NEW e \in Engines
    PROVE  DirectFallback(e) \in Profiles \cup {NoProfile}
<1> DEFINE untried == {p \in Profiles \ Probeable : e.via[p] = "untested"}
<1>1. untried # {} => FirstProfile(untried) \in untried
  BY ProfilesAssumption DEF FirstProfile
<1> QED BY <1>1 DEF DirectFallback

\* A failure has a cause of the list (failure::classify).
LEMMA ClassifyType ==
    ASSUME NEW e \in Engines, NEW after \in BOOLEAN
    PROVE  Classify(e, after) \in Causes \cup {NoCause}
BY DEF Classify, Causes

-----------------------------------------------------------------------------
(* The handlers.                                                           *)

\* Two engines that are in the same phase on the same tunnel or race.
SameUse(e, f) ==
    /\ f \in Engines /\ f.phase = e.phase /\ f.profile = e.profile /\ f.active = e.active
    /\ f.endpoint = e.endpoint /\ f.raced = e.raced

\* A step that only tells keeps the tunnel, the race and the endpoint.
LEMMA TellLeads ==
    ASSUME NEW e \in Engines, InUse(e), NEW f, SameUse(e, f), NEW events \in SUBSET EventNames
    PROVE  Leads(Carried(e), Asked(f, <<>>, events))
<1>1. AfterWork(Carried(e), <<>>) = Carried(e)
  BY DEF AfterWork
<1>2. Carried(f) = Carried(e) /\ InUse(f)
  BY DEF SameUse, Carried, InUse
<1> QED BY <1>1, <1>2, WorkSeqType DEF Leads, Asked, SameUse

\* An input that is ignored, or only noted, does too.
LEMMA IgnoredLeads ==
    ASSUME NEW e \in Engines, InUse(e), NEW f, SameUse(e, f)
    PROVE  Leads(Carried(e), Ignored(f))
BY TellLeads DEF Ignored

\* A connect forgets the viability and the reach of the attempt before it
\* (Engine::connect).
LEMMA NewAttemptType ==
    ASSUME NEW e \in Engines, NEW requested \in Names \cup {NoProfile}
    PROVE  /\ NewAttempt(e, requested) \in Engines
           /\ NewAttempt(e, requested).raced = {}
<1>1. ResetDetector(e) \in Engines
  BY ResetDetectorType
<1>2. NoReach \in [Endpoints -> ReachAnswers]
  BY DEF NoReach, ReachAnswers
<1> QED BY <1>1, <1>2 DEF NewAttempt, Engines

\* A connect begins with a race or a tunnel to the endpoint ranked first
\* (Engine::connect).
LEMMA BeginLeads ==
    ASSUME NEW e \in Engines, NEW requested \in Profiles \cup {NoProfile},
           NEW ep \in Endpoints, e.endpoint = ep, e.raced = {}
    PROVE  Leads(NoTunnel, Begin(e, requested, ep))
<1>1. CASE requested \in Probeable
  <2>1. {requested} \in SUBSET Profiles /\ {requested} # {} /\ "Probing" \in Racing
    BY <1>1, ProfilesAssumption DEF Racing
  <2> QED BY <1>1, <2>1, StartRaceLeads DEF Begin
<1>2. CASE requested \notin Probeable /\ requested # NoProfile
  BY <1>2, StartTunnelLeads DEF Begin
<1>3. CASE requested \notin Probeable /\ requested = NoProfile /\ Probeable # {}
  <2>1. Probeable \in SUBSET Profiles /\ "Probing" \in Racing
    BY ProfilesAssumption DEF Racing
  <2> QED BY <1>3, <2>1, StartRaceLeads DEF Begin
<1>4. CASE requested \notin Probeable /\ requested = NoProfile /\ Probeable = {}
  <2>1. DirectFallback(e) \in Profiles \cup {NoProfile}
    BY DirectFallbackType
  <2>2. CASE DirectFallback(e) # NoProfile
    BY <1>4, <2>1, <2>2, StartTunnelLeads DEF Begin
  <2>3. CASE DirectFallback(e) = NoProfile
    <3>1. "AllProfilesBlocked" \in Causes
      BY DEF Causes
    <3> QED BY <1>4, <2>3, <3>1, FailLeads DEF Begin
  <2> QED BY <2>2, <2>3
<1> QED BY <1>1, <1>2, <1>3, <1>4

\* Engine::connect, early returns included.
LEMMA ConnectLeads ==
    ASSUME NEW e \in Engines, InUse(e), NEW requested \in Names \cup {NoProfile},
           NEW best \in Endpoints \cup {NoEndpoint}
    PROVE  Leads(Carried(e), Connect(e, requested, best))
<1> DEFINE f == NewAttempt(e, requested)
           g == [f EXCEPT !.endpoint = best]
           cause == Classify(f, FALSE)
<1>1. f \in Engines /\ f.raced = {}
  BY NewAttemptType
<1>2. cause \in Causes \cup {NoCause}
  BY <1>1, ClassifyType
<1>3. CASE e.phase \notin AtRest
  BY <1>3, IgnoredLeads DEF Connect, SameUse
<1>4. CASE e.phase \in AtRest
  <2>1. Carried(e) = NoTunnel
    BY <1>4 DEF Carried, AtRest, Using
  <2>2. CASE cause # NoCause
    <3>1. Connect(e, requested, best) = Fail(f, cause, FALSE)
      BY <1>4, <2>2 DEF Connect
    <3> QED BY <1>1, <1>2, <2>1, <2>2, <3>1, FailLeads
  <2>3. CASE cause = NoCause /\ requested \notin Profiles \cup {NoProfile}
    <3>1. Connect(e, requested, best) = Fail(f, "ConfigurationInvalid", FALSE)
      BY <1>4, <2>3 DEF Connect
    <3> QED BY <1>1, <2>1, <3>1, FailLeads DEF Causes
  <2>4. CASE cause = NoCause /\ requested \in Profiles \cup {NoProfile} /\ best = NoEndpoint
    <3>1. Connect(e, requested, best) = Fail(f, "NoEndpointReachable", FALSE)
      BY <1>4, <2>4 DEF Connect
    <3> QED BY <1>1, <2>1, <3>1, FailLeads DEF Causes
  <2>5. CASE cause = NoCause /\ requested \in Profiles \cup {NoProfile} /\ best # NoEndpoint
    <3>1. Connect(e, requested, best) = Begin(g, requested, best)
      BY <1>4, <2>5 DEF Connect
    <3>2. g \in Engines /\ g.endpoint = best /\ g.raced = {}
      BY <1>1 DEF Engines
    <3> HIDE DEF g
    <3> QED BY <2>1, <2>5, <3>1, <3>2, BeginLeads
  <2> QED BY <2>2, <2>3, <2>4, <2>5
<1> QED BY <1>3, <1>4

\* A disconnect leaves no tunnel and no race, in every phase
\* (Engine::disconnect).
LEMMA DisconnectLeads ==
    ASSUME NEW e \in Engines, InUse(e)
    PROVE  Leads(Carried(e), Disconnect(e))
<1> DEFINE f == SetPhase(e, "Idle", NoProfile, NoEndpoint, NoCause)
           r == Disconnect(e)
<1>1. f \in Engines /\ f.phase = "Idle"
  BY SetPhaseType DEF Phases
<1>2. r.eng = [f EXCEPT !.raced = {}] /\ r.events = {}
  BY DEF Disconnect, Asked
<1>3. r.eng \in Engines /\ r.eng.phase = "Idle" /\ r.eng.raced = {}
  BY <1>1, <1>2 DEF Engines
<1>4. AfterWork(Carried(e), r.work) = NoTunnel
  <2>1. CASE e.phase \in Using
    <3>1. r.work = <<Stop>>
      BY <2>1 DEF Disconnect, Asked, Using, Racing
    <3> QED BY <3>1 DEF AfterWork, AfterItem, Stop
  <2>2. CASE e.phase \notin Using
    <3>1. r.work = <<CancelRace>> \/ r.work = <<>>
      BY <2>2 DEF Disconnect, Asked
    <3>2. Carried(e) = NoTunnel
      BY <2>2 DEF Carried
    <3>3. AfterWork(NoTunnel, <<CancelRace>>) = NoTunnel /\ AfterWork(NoTunnel, <<>>) = NoTunnel
      BY DEF AfterWork, AfterItem, CancelRace
    <3> QED BY <3>1, <3>2, <3>3
  <2> QED BY <2>1, <2>2
<1>5. ShortWork(r.work)
  <2>1. r.work \in {<<CancelRace>>, <<Stop>>, <<>>}
    BY DEF Disconnect, Asked
  <2> QED BY <2>1, WorkType, WorkSeqType
<1> QED BY <1>2, <1>3, <1>4, <1>5 DEF Leads, InUse, Carried, Using, Racing, EventNames

\* Recording what a race found keeps the endpoint and empties `raced'
\* (Engine::record_results).
LEMMA RecordResultsType ==
    ASSUME NEW e \in Engines, NEW winner \in Profiles \cup {NoProfile}, NEW results \in Results
    PROVE  /\ RecordResults(e, winner, results) \in Engines
           /\ RecordResults(e, winner, results).endpoint = e.endpoint
           /\ RecordResults(e, winner, results).raced = {}
<1> DEFINE judged(p) == CASE p = winner \/ results[p] = "usable" -> "working"
                          [] p # winner /\ p \in Blocks(e, winner, results) -> "blocked"
                          [] OTHER -> e.via[p]
           via == [p \in Profiles |-> judged(p)]
<1>1. \A p \in Profiles : results[p] = "usable" => p \notin Blocks(e, winner, results)
  BY DEF Blocks
<1>2. \A p \in Profiles : e.via[p] \in {"untested", "working", "blocked"}
  BY DEF Engines
<1>3. \A p \in Profiles : judged(p) \in {"untested", "working", "blocked"}
  BY <1>1, <1>2
<1>4. via \in [Profiles -> {"untested", "working", "blocked"}]
  BY <1>3
<1>5. RecordResults(e, winner, results) = [e EXCEPT !.via = via, !.raced = {}]
  BY DEF RecordResults
<1> HIDE DEF via
<1> QED BY <1>4, <1>5 DEF Engines

\* The end of a race: its winner, the last resort, or a failure
\* (Engine::race_finished).
LEMMA RaceFinishedLeads ==
    ASSUME NEW e \in Engines, InUse(e),
           NEW winner \in Profiles \cup {NoProfile}, NEW results \in Results
    PROVE  Leads(Carried(e), RaceFinished(e, winner, results))
<1> DEFINE f == RecordResults(e, winner, results)
           told == IF Blocks(e, winner, results) # {} THEN {"ProfileBlocked"} ELSE {}
           cause == Classify(f, TRUE)
           settled ==
               IF winner # NoProfile THEN StartTunnel(f, winner, e.endpoint)
               ELSE IF cause # NoCause THEN Fail(f, cause, FALSE)
               ELSE IF OnlyTheNamed(e) THEN Fail(f, "ConfigurationInvalid", FALSE)
               ELSE IF DirectFallback(f) # NoProfile
                    THEN StartTunnel(f, DirectFallback(f), e.endpoint)
               ELSE Fail(f, "AllProfilesBlocked", FALSE)
<1>1. CASE e.phase \notin Racing \/ (winner # NoProfile /\ winner \notin e.raced)
  BY <1>1, IgnoredLeads DEF RaceFinished, SameUse
<1>2. CASE e.phase \in Racing /\ ~(winner # NoProfile /\ winner \notin e.raced)
  <2>1. e.endpoint \in Endpoints /\ Carried(e) = NoTunnel
    BY <1>2 DEF InUse, Carried, Using, Racing
  <2>2. f \in Engines /\ f.endpoint = e.endpoint /\ f.raced = {}
    BY RecordResultsType
  <2>3. cause \in Causes \cup {NoCause} /\ DirectFallback(f) \in Profiles \cup {NoProfile}
    BY <2>2, ClassifyType, DirectFallbackType
  <2>4. \A p \in Profiles : Leads(NoTunnel, StartTunnel(f, p, e.endpoint))
    BY <2>1, <2>2, StartTunnelLeads
  <2>5. \A c \in Causes : Leads(NoTunnel, Fail(f, c, FALSE))
    BY <2>2, FailLeads
  <2>6. Leads(NoTunnel, settled)
    <3> HIDE DEF f, cause
    <3> QED BY <2>3, <2>4, <2>5 DEF Causes
  <2>7. RaceFinished(e, winner, results) = Then(<<>>, told, settled)
    BY <1>2 DEF RaceFinished
  <2>8. Leads(NoTunnel, Then(<<>>, told, settled))
    <3>1. settled.work = <<>> \/ \E w : settled.work = <<w>>
      BY DEF StartTunnel, Fail, Asked
    <3>2. told \in SUBSET EventNames
      BY DEF EventNames
    <3> HIDE DEF settled, told
    <3> QED BY <2>6, <3>1, <3>2, NothingThenLeads
  <2> QED BY <2>1, <2>7, <2>8
<1> QED BY <1>1, <1>2

\* A tunnel that came up is the one that was started (Engine::tunnel_up).
LEMMA TunnelUpLeads ==
    ASSUME NEW e \in Engines, InUse(e)
    PROVE  Leads(Carried(e), TunnelUp(e))
<1>1. CASE e.phase = "Starting"
  <2> DEFINE d == ResetDetector(e)
             f == [MarkWorking(d, e.profile) EXCEPT !.phase = "Connected"]
  <2>1. e.profile \in Profiles
    BY <1>1 DEF InUse, Using
  <2>2. d \in Engines /\ d.profile = e.profile /\ d.active = e.active
        /\ d.endpoint = e.endpoint /\ d.raced = e.raced
    BY ResetDetectorType
  <2>3. f \in Engines /\ f.phase = "Connected" /\ f.profile = e.profile /\ f.active = e.active
        /\ f.endpoint = e.endpoint /\ f.raced = e.raced
    <3> HIDE DEF d
    <3> QED BY <2>1, <2>2 DEF MarkWorking, Engines, Phases
  <2>4. TunnelUp(e) = Asked(f, <<>>, {})
    BY <1>1 DEF TunnelUp
  <2>5. AfterWork(Carried(e), <<>>) = Carried(e)
    BY DEF AfterWork
  <2>6. InUse(f) /\ Carried(f) = Carried(e)
    <3> HIDE DEF f
    <3> QED BY <1>1, <2>3 DEF InUse, Carried, Using, Racing
  <2> HIDE DEF f
  <2> QED BY <2>3, <2>4, <2>5, <2>6, WorkSeqType DEF Leads, Asked
<1>2. CASE e.phase # "Starting"
  BY <1>2, IgnoredLeads DEF TunnelUp, SameUse
<1> QED BY <1>1, <1>2

\* A tunnel that failed to start is stopped (Engine::step, StartFailed).
LEMMA StartFailedLeads ==
    ASSUME NEW e \in Engines, InUse(e), NEW cause \in StartCauses
    PROVE  Leads(Carried(e), StartFailed(e, cause))
<1>1. cause \in Causes
  BY ReadingsAssumption DEF Causes
<1>2. CASE e.phase = "Starting"
  BY <1>1, <1>2, FailLeads DEF StartFailed
<1>3. CASE e.phase # "Starting"
  BY <1>3, IgnoredLeads DEF StartFailed, SameUse
<1> QED BY <1>2, <1>3

\* News of the path is told and changes nothing (Engine::path_changed,
\* Engine::connectivity).
LEMMA PathNewsLeads ==
    ASSUME NEW e \in Engines, InUse(e), NEW event \in {"PathChanged", "Connectivity"}
    PROVE  Leads(Carried(e), PathNews(e, event))
<1>1. {event} \in SUBSET EventNames /\ SameUse(e, e)
  BY DEF EventNames, SameUse
<1>2. CASE e.phase = "Connected"
  BY <1>1, <1>2, TellLeads DEF PathNews
<1>3. CASE e.phase # "Connected"
  BY <1>1, <1>3, IgnoredLeads DEF PathNews
<1> QED BY <1>2, <1>3

\* A live check moves only the block detector (BlockDetector::observe).
LEMMA ObserveType ==
    ASSUME NEW e \in Engines, NEW passed \in BOOLEAN
    PROVE  SameUse(e, Observe(e, passed)) /\ Observe(e, passed).health = e.health
<1>1. CASE passed
  <2>1. Observe(e, passed) = ResetDetector(e)
    BY <1>1 DEF Observe
  <2>2. ResetDetector(e).health = e.health
    BY DEF ResetDetector, Engines
  <2> QED BY <2>1, <2>2, ResetDetectorType DEF SameUse
<1>2. CASE ~passed
  <2> DEFINE n == CountTo(BlockAfter, e.failures)
  <2>1. n \in 0..BlockAfter
    BY ProfilesAssumption DEF CountTo, Engines
  <2>2. e.reported \in BOOLEAN
    BY DEF Engines
  <2> DEFINE reported == e.reported \/ n >= BlockAfter
  <2>3. reported \in BOOLEAN
    OBVIOUS
  <2>4. Observe(e, passed) = [e EXCEPT !.failures = n, !.reported = reported]
    BY <1>2 DEF Observe
  <2> HIDE DEF n, reported
  <2> QED BY <2>1, <2>3, <2>4 DEF SameUse, Engines
<1> QED BY <1>1, <1>2

\* A tunnel that moves stops before it starts, to the endpoint that probes
\* are compared with from then on (Engine::relocate_tunnel).
LEMMA RelocateTunnelLeads ==
    ASSUME NEW e \in Engines, NEW p \in Profiles, NEW to \in Endpoints \cup {NoEndpoint},
           e.raced = {}, NEW t
    PROVE  Leads(t, RelocateTunnel(e, p, to))
<1>1. CASE to = NoEndpoint
  <2>1. "NoEndpointReachable" \in Causes
    BY DEF Causes
  <2> QED BY <1>1, <2>1, FailLeads DEF RelocateTunnel
<1>2. CASE to # NoEndpoint
  <2> DEFINE d == [ResetDetector(e) EXCEPT !.endpoint = to]
             f == SetPhase(d, "Starting", p, to, NoCause)
             r == RelocateTunnel(e, p, to)
  <2>1. d \in Engines /\ d.endpoint = to /\ d.raced = {}
    <3>1. ResetDetector(e) \in Engines /\ ResetDetector(e).raced = {}
      BY ResetDetectorType
    <3> QED BY <3>1 DEF Engines
  <2>2. f \in Engines /\ f.phase = "Starting" /\ f.profile = p /\ f.active = to
        /\ f.endpoint = to /\ f.raced = {}
    <3> HIDE DEF d
    <3> QED BY <2>1, SetPhaseType DEF Phases
  <2>3. r.eng = f /\ r.work = <<Stop, Start(p, to)>> /\ r.events = {"EndpointMigrated"}
    BY <1>2 DEF RelocateTunnel, Asked
  <2>4. AfterWork(t, r.work) = Tunnel(p, to)
    BY <2>3 DEF AfterWork, AfterItem, Start
  <2>5. ShortWork(r.work)
    BY <1>2, <2>3, WorkType, WorkSeqType
  <2> HIDE DEF f
  <2> QED BY <1>2, <2>2, <2>3, <2>4, <2>5 DEF Leads, InUse, Carried, Using, Racing, EventNames
<1> QED BY <1>1, <1>2

\* A blocked profile's tunnel is stopped before its substitute is raced or
\* started (Engine::live_check).
LEMMA RecoverLeads ==
    ASSUME NEW e \in Engines, NEW p \in Profiles, NEW ep \in Endpoints,
           e.endpoint = ep, e.raced = {}, NEW t
    PROVE  Leads(t, Recover(e, p, ep))
<1> DEFINE f == MarkBlocked(e, p)
           candidates == Unblocked(f) \ {p}
           r == IF candidates = {} THEN Fail(f, "AllProfilesBlocked", FALSE)
                ELSE IF candidates \cap Probeable # {}
                THEN StartRace(f, candidates \cap Probeable, ep, "Recovering")
                ELSE StartTunnel(f, FirstProfile(BestTier(candidates)), ep)
<1>1. f \in Engines /\ f.endpoint = ep /\ f.raced = {}
  BY DEF MarkBlocked, Engines
<1>2. candidates \in SUBSET Profiles
  BY DEF Unblocked
<1>3. Leads(NoTunnel, r)
  <2> HIDE DEF f, candidates
  <2>1. CASE candidates = {}
    BY <1>1, <2>1, FailLeads DEF Causes
  <2>2. CASE candidates # {} /\ candidates \cap Probeable # {}
    <3>1. candidates \cap Probeable \in SUBSET Profiles /\ "Recovering" \in Racing
      BY <1>2 DEF Racing
    <3> QED BY <1>1, <2>2, <3>1, StartRaceLeads
  <2>3. CASE candidates # {} /\ candidates \cap Probeable = {}
    <3>1. BestTier(candidates) \in SUBSET Profiles
      BY <1>2 DEF BestTier
    <3>2. BestTier(candidates) # {}
      <4>1. \A q \in candidates : Tier[q] \in {1, 2}
        BY <1>2, ProfilesAssumption
      <4>2. PICK q \in candidates : TRUE
        BY <2>3
      <4>3. CASE \E x \in candidates : Tier[x] = 1
        BY <4>1, <4>3 DEF BestTier
      <4>4. CASE \A x \in candidates : Tier[x] = 2
        BY <4>2, <4>4 DEF BestTier
      <4> QED BY <4>1, <4>3, <4>4
    <3>3. FirstProfile(BestTier(candidates)) \in Profiles
      BY <3>1, <3>2, ProfilesAssumption DEF FirstProfile
    <3> QED BY <1>1, <2>3, <3>3, StartTunnelLeads
  <2> QED BY <2>1, <2>2, <2>3
<1>4. r.work = <<>> \/ \E w : r.work = <<w>>
  BY DEF StartTunnel, StartRace, Fail, Asked
<1>5. Recover(e, p, ep) = Then(<<Stop>>, {"ProfileBlocked"}, r)
  BY DEF Recover
<1>6. {"ProfileBlocked"} \in SUBSET EventNames
  BY DEF EventNames
<1> HIDE DEF r
<1> QED BY <1>3, <1>4, <1>5, <1>6, StopThenLeads

\* Engine::live_check: the machine, the endpoint, the profile, in that order.
LEMMA LiveCheckLeads ==
    ASSUME NEW e \in Engines, InUse(e), NEW passed \in BOOLEAN,
           NEW best \in Endpoints \cup {NoEndpoint}
    PROVE  Leads(Carried(e), LiveCheck(e, passed, best))
<1> DEFINE f == Observe(e, passed)
           cause == Classify(f, FALSE)
<1>1. SameUse(e, f) /\ SameUse(e, e)
  BY ObserveType DEF SameUse
<1>2. cause \in Causes \cup {NoCause}
  BY <1>1, ClassifyType DEF SameUse
<1>3. CASE e.phase # "Connected"
  BY <1>1, <1>3, IgnoredLeads DEF LiveCheck
<1>4. CASE e.phase = "Connected"
  <2>1. /\ e.profile \in Profiles /\ e.active \in Endpoints
        /\ f \in Engines /\ f.endpoint = e.active /\ f.raced = {}
    BY <1>1, <1>4 DEF SameUse, InUse, Using, Racing
  <2>2. Leads(Carried(e), Ignored(f))
    BY <1>1, IgnoredLeads
  <2>3. cause # NoCause => Leads(Carried(e), Fail(f, cause, TRUE))
    BY <1>2, <2>1, FailLeads
  <2>4. Leads(Carried(e), RelocateTunnel(f, e.profile, best))
    BY <2>1, RelocateTunnelLeads
  <2>5. Leads(Carried(e), Recover(f, e.profile, e.active))
    BY <2>1, RecoverLeads
  <2> QED BY <1>4, <2>2, <2>3, <2>4, <2>5 DEF LiveCheck
<1> QED BY <1>3, <1>4

\* A probe moves only the health of its endpoint.
LEMMA ProbedType ==
    ASSUME NEW e \in Engines, NEW ep \in Endpoints, NEW outcome \in ProbeOutcomes
    PROVE  SameUse(e, Probed(e, ep, outcome))
<1>1. OnProbe(e.health[ep], outcome) \in Health
  BY OnProbeType DEF Engines
<1> QED BY <1>1 DEF Probed, SameUse, Engines

\* A race that moves is cancelled and run again against the new endpoint
\* (Engine::relocate_race).
LEMMA RelocateRaceLeads ==
    ASSUME NEW e \in Engines, e.phase \in Racing, e.raced # {},
           NEW to \in Endpoints \cup {NoEndpoint}
    PROVE  Leads(NoTunnel, RelocateRace(e, to))
<1> DEFINE r == RelocateRace(e, to)
<1>1. CASE to = NoEndpoint
  <2> DEFINE q == Fail(e, "NoEndpointReachable", FALSE)
  <2>1. Leads(NoTunnel, q)
    BY FailLeads DEF Causes
  <2>2. q.work = <<>>
    BY DEF Fail, Asked
  <2>3. r.eng = q.eng /\ r.work = <<CancelRace>> \o q.work /\ r.events = q.events
    BY <1>1 DEF RelocateRace, Then, Asked
  <2>4. <<CancelRace>> \o <<>> = <<CancelRace>>
    OBVIOUS
  <2>5. AfterWork(NoTunnel, <<CancelRace>>) = NoTunnel /\ AfterWork(NoTunnel, <<>>) = NoTunnel
    BY DEF AfterWork, AfterItem, CancelRace
  <2> HIDE DEF q, r
  <2>6. r.work = <<CancelRace>>
    BY <2>2, <2>3, <2>4
  <2>7. r.eng \in Engines /\ InUse(r.eng) /\ r.events \subseteq EventNames
        /\ ShortWork(r.work)
    BY <2>1, <2>3, <2>6, WorkType, WorkSeqType DEF Leads
  <2>8. AfterWork(NoTunnel, r.work) = Carried(r.eng)
    BY <2>1, <2>2, <2>3, <2>5, <2>6 DEF Leads
  <2>9. Leads(NoTunnel, r)
    BY <2>7, <2>8 DEF Leads
  <2> QED BY <2>9 DEF r
<1>2. CASE to # NoEndpoint
  <2>1. r.eng = [e EXCEPT !.endpoint = to] /\ r.work = <<CancelRace, Race(e.raced, to)>>
        /\ r.events = {"EndpointMigrated"}
    BY <1>2 DEF RelocateRace, Asked
  <2>2. r.eng \in Engines /\ r.eng.phase = e.phase /\ r.eng.endpoint = to /\ r.eng.raced # {}
    BY <2>1 DEF Engines
  <2>3. AfterWork(NoTunnel, r.work) = NoTunnel
    BY <2>1 DEF AfterWork, AfterItem, CancelRace, Race
  <2>4. ShortWork(r.work)
    <3>1. e.raced \in SUBSET Profiles
      BY DEF Engines
    <3> QED BY <1>2, <2>1, <3>1, WorkType, WorkSeqType
  <2> QED BY <1>2, <2>1, <2>2, <2>3, <2>4 DEF Leads, InUse, Carried, Using, Racing, EventNames
<1> QED BY <1>1, <1>2

\* Engine::endpoint_probe: only the endpoint in use moves the connection.
LEMMA EndpointProbeLeads ==
    ASSUME NEW e \in Engines, InUse(e), NEW ep \in Endpoints, NEW outcome \in ProbeOutcomes,
           NEW best \in Endpoints \cup {NoEndpoint}
    PROVE  Leads(Carried(e), EndpointProbe(e, ep, outcome, best))
<1> DEFINE f == Probed(e, ep, outcome)
<1>1. SameUse(e, f)
  BY ProbedType
<1>2. Leads(Carried(e), Ignored(f))
  BY <1>1, IgnoredLeads
<1>3. CASE e.phase \in AtRest
  BY <1>2, <1>3 DEF EndpointProbe
<1>4. CASE e.phase \in Using
  <2>1. e.profile \in Profiles /\ f \in Engines /\ f.raced = {}
    BY <1>1, <1>4 DEF SameUse, InUse, Using, Racing
  <2>2. Leads(Carried(e), RelocateTunnel(f, e.profile, best))
    BY <2>1, RelocateTunnelLeads
  <2> QED BY <1>2, <1>4, <2>2 DEF EndpointProbe
<1>5. CASE e.phase \in Racing
  <2>1. f \in Engines /\ f.phase \in Racing /\ f.raced # {} /\ Carried(e) = NoTunnel
    BY <1>1, <1>5 DEF SameUse, InUse, Carried, Using, Racing
  <2>2. Leads(Carried(e), RelocateRace(f, best))
    BY <2>1, RelocateRaceLeads
  <2> QED BY <1>2, <1>5, <2>2 DEF EndpointProbe, Using, Racing
<1> QED BY <1>3, <1>4, <1>5 DEF Engines, Phases, AtRest, Using, Racing

\* Every step of the engine, whatever the input.
LEMMA StepLeads ==
    ASSUME NEW e \in Engines, InUse(e), NEW in \in Inputs, NEW r \in Step(e, in)
    PROVE  Leads(Carried(e), r)
<1>1. \A b \in RankFirst(e.health) : b \in Endpoints \cup {NoEndpoint}
  BY RankFirstType DEF Engines
<1>2. CASE in.kind = "Connect"
  <2>1. in.profile \in Names \cup {NoProfile}
    BY <1>2 DEF Inputs
  <2>2. PICK b \in RankFirst(e.health) : r = Connect(e, in.profile, b)
    BY <1>2 DEF Step
  <2> QED BY <1>1, <2>1, <2>2, ConnectLeads
<1>3. CASE in.kind = "Disconnect"
  <2>1. r = Disconnect(e)
    BY <1>3 DEF Step
  <2> QED BY <2>1, DisconnectLeads
<1>4. CASE in.kind = "RaceFinished"
  <2>1. in.winner \in Profiles \cup {NoProfile} /\ in.results \in Results
    BY <1>4 DEF Inputs
  <2>2. r = RaceFinished(e, in.winner, in.results)
    BY <1>4 DEF Step
  <2> QED BY <2>1, <2>2, RaceFinishedLeads
<1>5. CASE in.kind = "TunnelUp"
  <2>1. r = TunnelUp(e)
    BY <1>5 DEF Step
  <2> QED BY <2>1, TunnelUpLeads
<1>6. CASE in.kind = "StartFailed"
  <2>1. in.cause \in StartCauses
    BY <1>6 DEF Inputs
  <2>2. r = StartFailed(e, in.cause)
    BY <1>6 DEF Step
  <2> QED BY <2>1, <2>2, StartFailedLeads
<1>7. CASE in.kind = "LiveCheck"
  <2>1. in.passed \in BOOLEAN
    BY <1>7 DEF Inputs
  <2>2. PICK b \in RankFirst(e.health) : r = LiveCheck(e, in.passed, b)
    BY <1>7 DEF Step
  <2> QED BY <1>1, <2>1, <2>2, LiveCheckLeads
<1>8. CASE in.kind = "EndpointProbe"
  <2>1. in.endpoint \in Endpoints /\ in.outcome \in ProbeOutcomes
    BY <1>8 DEF Inputs
  <2>2. PICK b \in RankFirst(Probed(e, in.endpoint, in.outcome).health) :
            r = EndpointProbe(e, in.endpoint, in.outcome, b)
    BY <1>8 DEF Step
  <2>3. Probed(e, in.endpoint, in.outcome).health \in [Endpoints -> Health]
    BY <2>1, ProbedType DEF SameUse, Engines
  <2>4. b \in Endpoints \cup {NoEndpoint}
    BY <2>2, <2>3, RankFirstType
  <2> QED BY <2>1, <2>2, <2>4, EndpointProbeLeads
<1>9. CASE in.kind = "Environment"
  <2>1. in.env \in Environment
    BY <1>9, ReadingsAssumption DEF Inputs
  <2>2. r = Ignored([e EXCEPT !.env = in.env])
    BY <1>9 DEF Step
  <2>3. SameUse(e, [e EXCEPT !.env = in.env])
    BY <2>1 DEF SameUse, Engines
  <2> QED BY <2>2, <2>3, IgnoredLeads
<1>10. CASE in.kind = "Reach"
  <2>1. in.reach \in [Endpoints -> ReachAnswers]
    BY <1>10, ReadingsAssumption DEF Inputs
  <2>2. r = Ignored([e EXCEPT !.reach = in.reach])
    BY <1>10 DEF Step
  <2>3. SameUse(e, [e EXCEPT !.reach = in.reach])
    BY <2>1 DEF SameUse, Engines
  <2> QED BY <2>2, <2>3, IgnoredLeads
<1>11. CASE in.kind \in {"PathChanged", "Connectivity"}
  <2>1. r = PathNews(e, in.kind)
    BY <1>11 DEF Step
  <2> QED BY <1>11, <2>1, PathNewsLeads
<1> QED BY <1>2, <1>3, <1>4, <1>5, <1>6, <1>7, <1>8, <1>9, <1>10, <1>11 DEF Inputs
=============================================================================
