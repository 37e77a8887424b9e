-------------------------- MODULE EngineAloneProofs --------------------------
(***************************************************************************)
(* The invariants of the engine, for any profiles, endpoints and           *)
(* thresholds and any order of inputs.  Together they are inductive; what  *)
(* one step does to them is StepLeads of EngineProofs.                     *)
(***************************************************************************)
EXTENDS EngineAlone, EngineProofs

IInv == TypeOK /\ AskedIsPhase /\ EndpointInUse

\* A new engine, with nothing asked, satisfies it (Engine::new).
LEMMA InitIInv == Init => IInv
<1> SUFFICES ASSUME Init PROVE IInv
  OBVIOUS
<1>1. NewEngine.phase = "Idle"
  BY DEF NewEngine
<1> QED BY <1>1, NewEngineInUse
    DEF Init, IInv, TypeOK, AskedIsPhase, EndpointInUse, Carried, Using, NoTunnel, Tunnels

\* Taking any input keeps the invariant.
LEMMA TakeIInv ==
    ASSUME IInv, NEW in \in Inputs, Take(in)
    PROVE  IInv'
<1>1. PICK r \in Step(eng, in) :
          /\ eng' = r.eng
          /\ asked' = AfterWork(asked, r.work)
          /\ last' = [work |-> r.work, events |-> r.events]
  BY DEF Take
<1>2. Leads(Carried(eng), r)
  BY StepLeads DEF IInv, TypeOK, EndpointInUse
<1>3. eng' \in Engines /\ EndpointInUse' /\ AskedIsPhase'
  BY <1>1, <1>2 DEF Leads, IInv, AskedIsPhase, EndpointInUse
<1>4. asked' \in Tunnels
  <2>1. asked' = Carried(eng')
    BY <1>3 DEF AskedIsPhase
  <2> QED BY <1>3, <2>1
      DEF EndpointInUse, InUse, Carried, Tunnels, Tunnel, NoTunnel, Engines
<1>5. last'.events \subseteq EventNames
  BY <1>1, <1>2 DEF Leads
<1> QED BY <1>3, <1>4, <1>5 DEF IInv, TypeOK, EventNames

\* Every step of the driver hands the engine an input it has a case for.
LEMMA NextTakes ==
    ASSUME Next
    PROVE  \E in \in Inputs : Take(in)
<1>1. CASE Connects
  <2>1. PICK p \in Names \cup {NoProfile} : Take([kind |-> "Connect", profile |-> p])
    BY <1>1 DEF Connects
  <2>2. [kind |-> "Connect", profile |-> p] \in Inputs
    BY DEF Inputs
  <2> QED BY <2>1, <2>2
<1>2. CASE Disconnects
  <2>1. [kind |-> "Disconnect"] \in Inputs
    BY DEF Inputs
  <2> QED BY <1>2, <2>1 DEF Disconnects
<1>3. CASE Races
  <2>1. PICK ps \in SUBSET Probeable : \E in \in Outcomes(ps) : Take(in)
    BY <1>3 DEF Races
  <2>2. PICK in \in Outcomes(ps) : Take(in)
    BY <2>1
  <2>3. in \in Inputs
    BY <2>1, <2>2, ProfilesAssumption DEF Outcomes, Inputs
  <2> QED BY <2>2, <2>3
<1>4. CASE Comes
  <2>1. [kind |-> "TunnelUp"] \in Inputs
    BY DEF Inputs
  <2> QED BY <1>4, <2>1 DEF Comes
<1>5. CASE StartFails
  <2>1. PICK c \in StartCauses : Take([kind |-> "StartFailed", cause |-> c])
    BY <1>5 DEF StartFails
  <2>2. [kind |-> "StartFailed", cause |-> c] \in Inputs
    BY DEF Inputs
  <2> QED BY <2>1, <2>2
<1>6. CASE Checks
  <2>1. PICK passed \in BOOLEAN : Take([kind |-> "LiveCheck", passed |-> passed])
    BY <1>6 DEF Checks
  <2>2. [kind |-> "LiveCheck", passed |-> passed] \in Inputs
    BY DEF Inputs
  <2> QED BY <2>1, <2>2
<1>7. CASE Probes
  <2>1. PICK ep \in Endpoints, outcome \in ProbeOutcomes :
            Take([kind |-> "EndpointProbe", endpoint |-> ep, outcome |-> outcome])
    BY <1>7 DEF Probes
  <2>2. [kind |-> "EndpointProbe", endpoint |-> ep, outcome |-> outcome] \in Inputs
    BY DEF Inputs
  <2> QED BY <2>1, <2>2
<1>8. CASE \E env \in Environments : Take([kind |-> "Environment", env |-> env])
  <2>1. PICK env \in Environments : Take([kind |-> "Environment", env |-> env])
    BY <1>8
  <2>2. [kind |-> "Environment", env |-> env] \in Inputs
    BY DEF Inputs
  <2> QED BY <2>1, <2>2
<1>9. CASE \E reach \in Reaches : Take([kind |-> "Reach", reach |-> reach])
  <2>1. PICK reach \in Reaches : Take([kind |-> "Reach", reach |-> reach])
    BY <1>9
  <2>2. [kind |-> "Reach", reach |-> reach] \in Inputs
    BY DEF Inputs
  <2> QED BY <2>1, <2>2
<1>10. CASE Hears
  <2>1. PICK kind \in {"PathChanged", "Connectivity"} : Take([kind |-> kind])
    BY <1>10 DEF Hears
  <2>2. [kind |-> kind] \in Inputs
    BY DEF Inputs
  <2> QED BY <2>1, <2>2
<1> QED BY <1>1, <1>2, <1>3, <1>4, <1>5, <1>6, <1>7, <1>8, <1>9, <1>10 DEF Next, Reads

\* Whatever the inputs and their order, the engine stays in its type, asks
\* for the tunnel its phase names and for no other, and keeps the endpoint of
\* its tunnel or race the one that probes are compared with.
THEOREM EngineSafety == Spec => [](TypeOK /\ AskedIsPhase /\ EndpointInUse)
<1>1. Init => IInv
  BY InitIInv
<1>2. IInv /\ [Next]_vars => IInv'
  <2> SUFFICES ASSUME IInv, [Next]_vars PROVE IInv'
    OBVIOUS
  <2>1. CASE UNCHANGED vars
    BY <2>1 DEF vars, IInv, TypeOK, AskedIsPhase, EndpointInUse
  <2>2. CASE Next
    BY <2>2, NextTakes, TakeIInv
  <2> QED BY <2>1, <2>2
<1>3. IInv => TypeOK /\ AskedIsPhase /\ EndpointInUse
  BY DEF IInv
<1> QED BY <1>1, <1>2, <1>3, PTL DEF Spec

\* The tunnel the engine has asked for is the one its phase names, whatever
\* inputs came and in whatever order (engine.rs, Engine::step).
THEOREM EngineAskedIsPhase == Spec => []AskedIsPhase
BY EngineSafety, PTL

\* A tunnel or a race is always against the endpoint whose probes can move it
\* (engine.rs, Engine::endpoint_probe).
THEOREM EngineEndpointInUse == Spec => []EndpointInUse
BY EngineSafety, PTL

-----------------------------------------------------------------------------
(* What a step asks for and says, seen from the tunnel before it.          *)

\* A start is asked with no tunnel standing, or right after the stop of
\* another one.
Replaces(t, work) ==
    \A i \in 1..Len(work) : work[i].kind = "StartTunnel" =>
        \/ t = NoTunnel
        \/ /\ i > 1 /\ work[i - 1].kind = "StopTunnel"
           /\ t # Tunnel(work[i].profile, work[i].endpoint)

Telling == {"Failed", "ProfileSelected", "EndpointMigrated", "ProfileBlocked"}

\* A result in order when the tunnel asked for before it was t: it starts on
\* top of nothing, and it says so when it changes the tunnel unasked.
Proper(t, r) ==
    /\ Replaces(t, r.work)
    /\ AfterWork(t, r.work) # t /\ r.eng.phase # "Idle" => r.events \cap Telling # {}

\* Work that is short and starts no tunnel is in order (CancelRace, StartRace,
\* StopTunnel, or nothing).
LEMMA NoStartReplaces ==
    ASSUME NEW t, NEW work, Len(work) \in Nat,
           \A i \in 1..Len(work) : work[i].kind # "StartTunnel"
    PROVE  Replaces(t, work)
BY DEF Replaces

\* A step that asks for nothing is in order (Engine::step, ignored inputs).
LEMMA QuietProper ==
    ASSUME NEW t, NEW f, NEW events
    PROVE  Proper(t, Asked(f, <<>>, events))
BY DEF Proper, Replaces, Asked, AfterWork

\* An ignored input is in order.
LEMMA IgnoredProper == ASSUME NEW t, NEW f PROVE Proper(t, Ignored(f))
BY QuietProper DEF Ignored

\* A failure is always told (Engine::fail).
LEMMA FailProper ==
    ASSUME NEW t, NEW e, NEW cause, NEW stop \in BOOLEAN
    PROVE  Proper(t, Fail(e, cause, stop))
<1> DEFINE r == Fail(e, cause, stop)
<1>1. r.work = (IF stop THEN <<Stop>> ELSE <<>>) /\ r.events = {"Failed"}
  BY DEF Fail, Asked
<1>2. Replaces(t, <<Stop>>) /\ Replaces(t, <<>>)
  BY DEF Replaces, Stop
<1>3. Replaces(t, r.work)
  BY <1>1, <1>2
<1>4. r.events \cap Telling # {}
  BY <1>1 DEF Telling
<1> HIDE DEF r
<1>5. Proper(t, r)
  BY <1>3, <1>4 DEF Proper
<1> QED BY <1>5 DEF r

\* A race touches no tunnel (Engine::start_race).
LEMMA StartRaceProper ==
    ASSUME NEW t, NEW e, NEW ps, NEW ep, NEW phase
    PROVE  Proper(t, StartRace(e, ps, ep, phase))
<1> DEFINE r == StartRace(e, ps, ep, phase)
<1>1. r.work = <<Race(ps, ep)>>
  BY DEF StartRace, Asked
<1>2. Replaces(t, <<Race(ps, ep)>>) /\ AfterWork(t, <<Race(ps, ep)>>) = t
  BY DEF Replaces, AfterWork, AfterItem, Race
<1> QED BY <1>1, <1>2 DEF Proper

\* A tunnel started where there is none is told as the profile selected
\* (Engine::start_tunnel).
LEMMA StartTunnelProper ==
    ASSUME NEW e, NEW p, NEW ep
    PROVE  Proper(NoTunnel, StartTunnel(e, p, ep))
<1> DEFINE r == StartTunnel(e, p, ep)
<1>1. r.work = <<Start(p, ep)>> /\ r.events = {"ProfileSelected"}
  BY DEF StartTunnel, Asked
<1>2. Replaces(NoTunnel, <<Start(p, ep)>>)
  BY DEF Replaces
<1> QED BY <1>1, <1>2 DEF Proper, Telling

\* Events told before a step that is in order leave it in order.
LEMMA NothingThenProper ==
    ASSUME NEW t, NEW r, NEW events, Proper(t, r),
           r.work = <<>> \/ \E w : r.work = <<w>>
    PROVE  Proper(t, Then(<<>>, events, r))
<1> DEFINE q == Then(<<>>, events, r)
<1>1. <<>> \o r.work = r.work
  OBVIOUS
<1>2. q.eng = r.eng /\ q.work = r.work /\ q.events = events \cup r.events
  BY <1>1 DEF Then, Asked
<1> HIDE DEF q
<1>3. Proper(t, q)
  BY <1>2 DEF Proper
<1> QED BY <1>3 DEF q

\* What is ranked first is never an endpoint that must be left (health.rs,
\* rank; migrate.rs, plan_migration).
LEMMA RankedIsNotLeft ==
    ASSUME NEW health \in [Endpoints -> Health], NEW b \in RankFirst(health),
           NEW active \in Endpoints, MustLeave(health, active)
    PROVE  b # active
<1>1. CASE Candidates(health) = {}
  BY <1>1, EndpointsAssumption DEF RankFirst
<1>2. CASE Candidates(health) # {}
  <2>1. BestState(health) \in SUBSET Endpoints /\ BestState(health) # {}
    BY <1>2, BestStateType
  <2>2. FirstEndpoint(BestState(health)) \in BestState(health)
    BY <2>1, FirstEndpointType
  <2>3. b \in BestState(health)
    BY <1>2, <2>2 DEF RankFirst
  <2>4. b \in Candidates(health)
    BY <2>3 DEF BestState
  <2> QED BY <2>4 DEF MustLeave
<1> QED BY <1>1, <1>2

\* A connect is taken with no tunnel standing (Engine::connect).
LEMMA ConnectProper ==
    ASSUME NEW e \in Engines, NEW requested, NEW best
    PROVE  Proper(Carried(e), Connect(e, requested, best))
<1> DEFINE f == NewAttempt(e, requested)
           g == [f EXCEPT !.endpoint = best]
<1>1. CASE e.phase \notin AtRest
  BY <1>1, IgnoredProper DEF Connect
<1>2. CASE e.phase \in AtRest
  <2>1. Carried(e) = NoTunnel
    BY <1>2 DEF Carried, AtRest, Using
  <2>2. \A c : Proper(NoTunnel, Fail(f, c, FALSE))
    BY FailProper
  <2>3. Proper(NoTunnel, Begin(g, requested, best))
    <3> HIDE DEF g
    <3>1. \A ps : Proper(NoTunnel, StartRace(g, ps, best, "Probing"))
      BY StartRaceProper
    <3>2. \A p : Proper(NoTunnel, StartTunnel(g, p, best))
      BY StartTunnelProper
    <3>3. Proper(NoTunnel, Fail(g, "AllProfilesBlocked", FALSE))
      BY FailProper
    <3> QED BY <3>1, <3>2, <3>3 DEF Begin
  <2> HIDE DEF f, g
  <2> QED BY <1>2, <2>1, <2>2, <2>3 DEF Connect, f, g
<1> QED BY <1>1, <1>2

\* A disconnect starts nothing and is what the person asked for
\* (Engine::disconnect).
LEMMA DisconnectProper ==
    ASSUME NEW t, NEW e \in Engines
    PROVE  Proper(t, Disconnect(e))
<1> DEFINE r == Disconnect(e)
<1>1. r.work \in {<<CancelRace>>, <<Stop>>, <<>>}
  BY DEF Disconnect, Asked
<1>2. Replaces(t, <<CancelRace>>) /\ Replaces(t, <<Stop>>) /\ Replaces(t, <<>>)
  BY DEF Replaces, CancelRace, Stop
<1>3. r.eng.phase = "Idle"
  BY SetPhaseType DEF Disconnect, Asked, SetPhase, Engines
<1> HIDE DEF r
<1>4. Proper(t, r)
  BY <1>1, <1>2, <1>3 DEF Proper
<1> QED BY <1>4 DEF r

\* A race ends with no tunnel standing (Engine::race_finished).
LEMMA RaceFinishedProper ==
    ASSUME NEW e \in Engines, NEW winner, NEW results
    PROVE  Proper(Carried(e), RaceFinished(e, winner, results))
<1> DEFINE f == RecordResults(e, winner, results)
           told == IF Blocks(e, winner, results) # {} THEN {"ProfileBlocked"} ELSE {}
           cause == Classify(f, TRUE)
           settled ==
               IF winner # NoProfile THEN StartTunnel(f, winner, e.endpoint)
               ELSE IF cause # NoCause THEN Fail(f, cause, FALSE)
               ELSE IF OnlyTheNamed(e) THEN Fail(f, "ConfigurationInvalid", FALSE)
               ELSE IF DirectFallback(f) # NoProfile
                    THEN StartTunnel(f, DirectFallback(f), e.endpoint)
               ELSE Fail(f, "AllProfilesBlocked", FALSE)
<1>1. CASE e.phase \notin Racing \/ (winner # NoProfile /\ winner \notin e.raced)
  BY <1>1, IgnoredProper DEF RaceFinished
<1>2. CASE e.phase \in Racing /\ ~(winner # NoProfile /\ winner \notin e.raced)
  <2>1. Carried(e) = NoTunnel
    BY <1>2 DEF Carried, Using, Racing
  <2>2. \A p : Proper(NoTunnel, StartTunnel(f, p, e.endpoint))
    BY StartTunnelProper
  <2>3. \A c : Proper(NoTunnel, Fail(f, c, FALSE))
    BY FailProper
  <2>4. Proper(NoTunnel, settled)
    <3> HIDE DEF f, cause
    <3> QED BY <2>2, <2>3
  <2>5. settled.work = <<>> \/ \E w : settled.work = <<w>>
    BY DEF StartTunnel, Fail, Asked
  <2>6. RaceFinished(e, winner, results) = Then(<<>>, told, settled)
    BY <1>2 DEF RaceFinished
  <2> HIDE DEF settled, told
  <2> QED BY <2>1, <2>4, <2>5, <2>6, NothingThenProper
<1> QED BY <1>1, <1>2

\* A tunnel that moves stops first and goes to another endpoint
\* (Engine::relocate_tunnel).
LEMMA RelocateTunnelProper ==
    ASSUME NEW e, NEW p, NEW to, NEW active, to # active
    PROVE  Proper(Tunnel(p, active), RelocateTunnel(e, p, to))
<1> DEFINE r == RelocateTunnel(e, p, to)
           t == Tunnel(p, active)
<1>1. CASE to = NoEndpoint
  BY <1>1, FailProper DEF RelocateTunnel
<1>2. CASE to # NoEndpoint
  <2>1. r.work = <<Stop, Start(p, to)>> /\ r.events = {"EndpointMigrated"}
    BY <1>2 DEF RelocateTunnel, Asked
  <2>2. t # Tunnel(p, to)
    BY DEF Tunnel
  <2>3. Replaces(t, <<Stop, Start(p, to)>>)
    <3> HIDE DEF t
    <3> QED BY <2>2 DEF Replaces, Stop, Start
  <2> HIDE DEF r, t
  <2>4. Proper(t, r)
    BY <2>1, <2>3 DEF Proper, Telling
  <2> QED BY <2>4 DEF r, t
<1> QED BY <1>1, <1>2

\* A blocked profile's tunnel is stopped, told, and replaced by another
\* profile's (Engine::live_check).
LEMMA RecoverProper ==
    ASSUME NEW e \in Engines, NEW p \in Profiles, NEW ep
    PROVE  Proper(Tunnel(p, ep), Recover(e, p, ep))
<1> DEFINE f == MarkBlocked(e, p)
           candidates == Unblocked(f) \ {p}
           first == FirstProfile(BestTier(candidates))
           r == IF candidates = {} THEN Fail(f, "AllProfilesBlocked", FALSE)
                ELSE IF candidates \cap Probeable # {}
                THEN StartRace(f, candidates \cap Probeable, ep, "Recovering")
                ELSE StartTunnel(f, first, ep)
           q == Recover(e, p, ep)
           t == Tunnel(p, ep)
<1>1. q.work = <<Stop>> \o r.work /\ q.events = {"ProfileBlocked"} \cup r.events
  BY DEF Recover, Then, Asked
<1>2. q.events \cap Telling # {}
  BY <1>1 DEF Telling
<1>3. \/ r.work = <<>>
      \/ r.work = <<Race(candidates \cap Probeable, ep)>>
      \/ candidates # {} /\ r.work = <<Start(first, ep)>>
  BY DEF Fail, StartRace, StartTunnel, Asked
<1>4. candidates # {} => first # p
  <2> SUFFICES ASSUME candidates # {} PROVE first # p
    OBVIOUS
  <2>0. candidates \in SUBSET Profiles /\ p \notin candidates
    BY DEF Unblocked
  <2> HIDE DEF candidates
  <2>1. BestTier(candidates) \in SUBSET Profiles /\ BestTier(candidates) \subseteq candidates
    BY <2>0 DEF BestTier
  <2>2. BestTier(candidates) # {}
    <3>1. \A x \in candidates : Tier[x] \in {1, 2}
      BY <2>0, ProfilesAssumption
    <3>2. CASE \E x \in candidates : Tier[x] = 1
      BY <3>1, <3>2 DEF BestTier
    <3>3. CASE \A x \in candidates : Tier[x] = 2
      BY <3>3 DEF BestTier
    <3> QED BY <3>1, <3>2, <3>3
  <2>3. first \in BestTier(candidates)
    BY <2>1, <2>2, ProfilesAssumption DEF FirstProfile
  <2> QED BY <2>0, <2>1, <2>3
<1> HIDE DEF r, q, candidates, first
<1>5. Replaces(t, q.work)
  <2>0. ASSUME NEW w, r.work = <<w>> PROVE q.work = <<Stop, w>>
    BY <1>1, <2>0, OneAfterAnother
  <2>1. CASE r.work = <<>>
    <3>1. q.work = <<Stop>>
      BY <1>1, <2>1
    <3> QED BY <3>1 DEF Replaces, Stop
  <2>2. CASE r.work = <<Race(candidates \cap Probeable, ep)>>
    <3>1. q.work = <<Stop, Race(candidates \cap Probeable, ep)>>
      BY <2>0, <2>2
    <3> QED BY <3>1 DEF Replaces, Stop, Race
  <2>3. CASE candidates # {} /\ r.work = <<Start(first, ep)>>
    <3>1. q.work = <<Stop, Start(first, ep)>>
      BY <2>0, <2>3
    <3>2. t # Tunnel(first, ep)
      BY <1>4, <2>3 DEF Tunnel
    <3> HIDE DEF t
    <3> QED BY <3>1, <3>2 DEF Replaces, Stop, Start
  <2> QED BY <1>3, <2>1, <2>2, <2>3
<1> HIDE DEF t
<1>6. Proper(t, q)
  BY <1>2, <1>5 DEF Proper
<1> QED BY <1>6 DEF t, q

\* Engine::live_check.
LEMMA LiveCheckProper ==
    ASSUME NEW e \in Engines, InUse(e), NEW passed \in BOOLEAN, NEW best \in RankFirst(e.health)
    PROVE  Proper(Carried(e), LiveCheck(e, passed, best))
<1> DEFINE f == Observe(e, passed)
<1>1. f \in Engines /\ f.health = e.health
  BY ObserveType DEF SameUse
<1>2. CASE e.phase # "Connected"
  BY <1>2, IgnoredProper DEF LiveCheck
<1>3. CASE e.phase = "Connected"
  <2>1. e.profile \in Profiles /\ e.active \in Endpoints /\ Carried(e) = Tunnel(e.profile, e.active)
    BY <1>3 DEF InUse, Using, Carried
  <2>2. MustLeave(f.health, e.active) => best # e.active
    BY <1>1, <2>1, RankedIsNotLeft DEF Engines
  <2>3. best # e.active => Proper(Carried(e), RelocateTunnel(f, e.profile, best))
    BY <2>1, RelocateTunnelProper
  <2>4. Proper(Carried(e), Recover(f, e.profile, e.active))
    BY <1>1, <2>1, RecoverProper
  <2>5. \A c : Proper(Carried(e), Fail(f, c, TRUE))
    BY FailProper
  <2>6. Proper(Carried(e), Ignored(f))
    BY IgnoredProper
  <2> HIDE DEF f
  <2> QED BY <1>3, <2>2, <2>3, <2>4, <2>5, <2>6 DEF LiveCheck, f
<1> QED BY <1>2, <1>3

\* A race that moves asks for no tunnel (Engine::relocate_race).
LEMMA RelocateRaceProper ==
    ASSUME NEW e, NEW to
    PROVE  Proper(NoTunnel, RelocateRace(e, to))
<1> DEFINE r == RelocateRace(e, to)
<1>1. r.work = <<CancelRace>> \/ r.work = <<CancelRace, Race(e.raced, to)>>
  <2>1. <<CancelRace>> \o <<>> = <<CancelRace>>
    OBVIOUS
  <2> QED BY <2>1 DEF RelocateRace, Then, Fail, Asked
<1>2. /\ Replaces(NoTunnel, <<CancelRace>>)
      /\ Replaces(NoTunnel, <<CancelRace, Race(e.raced, to)>>)
  BY DEF Replaces
<1>3. /\ AfterWork(NoTunnel, <<CancelRace>>) = NoTunnel
      /\ AfterWork(NoTunnel, <<CancelRace, Race(e.raced, to)>>) = NoTunnel
  BY DEF AfterWork, AfterItem, CancelRace, Race
<1> HIDE DEF r
<1>4. Proper(NoTunnel, r)
  BY <1>1, <1>2, <1>3 DEF Proper
<1> QED BY <1>4 DEF r

\* Engine::endpoint_probe.
LEMMA EndpointProbeProper ==
    ASSUME NEW e \in Engines, InUse(e), NEW ep \in Endpoints, NEW outcome \in ProbeOutcomes,
           NEW best \in RankFirst(Probed(e, ep, outcome).health)
    PROVE  Proper(Carried(e), EndpointProbe(e, ep, outcome, best))
<1> DEFINE f == Probed(e, ep, outcome)
<1>1. f \in Engines
  BY ProbedType DEF SameUse
<1>2. Proper(Carried(e), Ignored(f))
  BY IgnoredProper
<1>3. CASE e.phase \in Using
  <2>1. e.active = e.endpoint /\ Carried(e) = Tunnel(e.profile, e.active)
    BY <1>3 DEF InUse, Carried
  <2>2. e.endpoint = ep /\ MustLeave(f.health, ep) => best # e.active
    BY <1>1, <2>1, RankedIsNotLeft DEF Engines
  <2>3. best # e.active => Proper(Carried(e), RelocateTunnel(f, e.profile, best))
    BY <2>1, RelocateTunnelProper
  <2> HIDE DEF f
  <2> QED BY <1>2, <1>3, <2>2, <2>3 DEF EndpointProbe, f
<1>4. CASE e.phase \notin Using
  <2>1. Carried(e) = NoTunnel
    BY <1>4 DEF Carried
  <2>2. Proper(NoTunnel, RelocateRace(f, best))
    BY RelocateRaceProper
  <2> HIDE DEF f
  <2> QED BY <1>2, <1>4, <2>1, <2>2 DEF EndpointProbe, f
<1> QED BY <1>3, <1>4

\* Every step of the engine, whatever the input.
LEMMA StepProper ==
    ASSUME NEW e \in Engines, InUse(e), NEW in \in Inputs, NEW r \in Step(e, in)
    PROVE  Proper(Carried(e), r)
<1>1. CASE in.kind = "Connect"
  <2>1. PICK b \in RankFirst(e.health) : r = Connect(e, in.profile, b)
    BY <1>1 DEF Step
  <2> QED BY <2>1, ConnectProper
<1>2. CASE in.kind = "Disconnect"
  BY <1>2, DisconnectProper DEF Step
<1>3. CASE in.kind = "RaceFinished"
  <2>1. r = RaceFinished(e, in.winner, in.results)
    BY <1>3 DEF Step
  <2> QED BY <2>1, RaceFinishedProper
<1>4. CASE in.kind = "TunnelUp"
  <2>1. r = TunnelUp(e)
    BY <1>4 DEF Step
  <2> QED BY <2>1, QuietProper, IgnoredProper DEF TunnelUp
<1>5. CASE in.kind = "StartFailed"
  <2>1. r = StartFailed(e, in.cause)
    BY <1>5 DEF Step
  <2> QED BY <2>1, FailProper, IgnoredProper DEF StartFailed
<1>6. CASE in.kind = "LiveCheck"
  <2>1. in.passed \in BOOLEAN
    BY <1>6 DEF Inputs
  <2>2. PICK b \in RankFirst(e.health) : r = LiveCheck(e, in.passed, b)
    BY <1>6 DEF Step
  <2> QED BY <2>1, <2>2, LiveCheckProper
<1>7. CASE in.kind = "EndpointProbe"
  <2>1. in.endpoint \in Endpoints /\ in.outcome \in ProbeOutcomes
    BY <1>7 DEF Inputs
  <2>2. PICK b \in RankFirst(Probed(e, in.endpoint, in.outcome).health) :
            r = EndpointProbe(e, in.endpoint, in.outcome, b)
    BY <1>7 DEF Step
  <2> QED BY <2>1, <2>2, EndpointProbeProper
<1>8. CASE in.kind = "Environment"
  <2>1. r = Ignored([e EXCEPT !.env = in.env])
    BY <1>8 DEF Step
  <2> QED BY <2>1, IgnoredProper
<1>9. CASE in.kind = "Reach"
  <2>1. r = Ignored([e EXCEPT !.reach = in.reach])
    BY <1>9 DEF Step
  <2> QED BY <2>1, IgnoredProper
<1>10. CASE in.kind \in {"PathChanged", "Connectivity"}
  <2>1. r = PathNews(e, in.kind)
    BY <1>10 DEF Step
  <2> QED BY <2>1, QuietProper, IgnoredProper DEF PathNews
<1> QED BY <1>1, <1>2, <1>3, <1>4, <1>5, <1>6, <1>7, <1>8, <1>9, <1>10 DEF Inputs

\* One step of the driver, from the invariant, is in order.
LEMMA NextProper ==
    ASSUME IInv, Next
    PROVE  /\ Replaces(asked, last'.work)
           /\ asked' # asked /\ eng'.phase # "Idle" => last'.events \cap Telling # {}
<1>1. PICK in \in Inputs : Take(in)
  BY NextTakes
<1>2. PICK r \in Step(eng, in) :
          /\ eng' = r.eng
          /\ asked' = AfterWork(asked, r.work)
          /\ last' = [work |-> r.work, events |-> r.events]
  BY <1>1 DEF Take
<1>3. Proper(asked, r)
  BY <1>2, StepProper DEF IInv, TypeOK, EndpointInUse, AskedIsPhase
<1> QED BY <1>2, <1>3 DEF Proper

\* A tunnel is never asked for on top of another, whatever inputs come and in
\* whatever order: it is started with none standing, or right after the stop
\* of the old one and then for another profile or endpoint (engine.rs,
\* Engine::relocate_tunnel and Engine::live_check).
THEOREM OneTunnelAtATime == Spec => StopThenStart
<1>1. IInv /\ [Next]_vars => [\A i \in 1..Len(last'.work) : last'.work[i].kind = "StartTunnel" =>
          \/ asked = NoTunnel
          \/ /\ i > 1 /\ last'.work[i - 1].kind = "StopTunnel"
             /\ asked # Tunnel(last'.work[i].profile, last'.work[i].endpoint)]_vars
  BY NextProper DEF Replaces
<1>2. Spec => []IInv
  BY EngineSafety, PTL DEF IInv
<1> QED BY <1>1, <1>2, PTL DEF Spec, StopThenStart

\* A step that changes the tunnel without the person disconnecting says what
\* was selected, migrated, blocked or failed (engine.rs, EngineEvent).
THEOREM NoSilentChange == Spec => ChangesAreTold
<1>1. IInv /\ [Next]_vars => [asked' # asked /\ eng'.phase # "Idle" =>
          last'.events \cap {"Failed", "ProfileSelected", "EndpointMigrated",
                             "ProfileBlocked"} # {}]_vars
  BY NextProper DEF Telling
<1>2. Spec => []IInv
  BY EngineSafety, PTL DEF IInv
<1> QED BY <1>1, <1>2, PTL DEF Spec, ChangesAreTold
=============================================================================
