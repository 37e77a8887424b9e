--------------------------- MODULE NetworkProofs ---------------------------
(***************************************************************************)
(* Proofs about the networks under the tunnel: which of them carries it    *)
(* (PathWatch), what the person is told of a poor one (PathReports), the   *)
(* race of probes that finds a profile that works over it (ProbeRace),     *)
(* which implements PromisedRace, and the rules that decide which traffic  *)
(* goes through the tunnel (RoutingRules).                                 *)
(***************************************************************************)
EXTENDS PathWatch, PathReports, ProbeRace, RoutingRules, FiniteSetTheorems,
    SequenceTheorems, WellFoundedInduction, TLAPS

-----------------------------------------------------------------------------
(* The path watch.                                                         *)

Sightings == UNION {Seen(p) : p \in Paths}

WatchTyped ==
    /\ known \in [Paths -> [seen : Sightings, level : Levels \cup {Unmeasured}]]
    /\ "carrying" \in DOMAIN fail /\ fail.carrying \in Paths \cup {NoPath}
    /\ started \in BOOLEAN /\ deciding \in BOOLEAN /\ adrift \in BOOLEAN /\ doubled \in BOOLEAN
    /\ hold \in Nat
    /\ deciding => started

\* The route and the carrying path agree through a decision too; and a link that
\* was lost is one the loop is about to decide on.
Steered ==
    started /\ ~adrift /\ fail.carrying # NoPath =>
        IF Usable(fail.carrying) THEN route = known[fail.carrying].seen.gateway
        ELSE deciding /\ hold = 0

\* The table holds the host route kept with the tunnel, whatever failed.
Installed == RowsVia(route) # {} /\ (~doubled => rows = RowsVia(route))

WInv == WatchTyped /\ Steered /\ Installed

LEMMA WatchInitInv == WatchInit => WInv
<1> SUFFICES ASSUME WatchInit PROVE WInv
  OBVIOUS
<1>1. ASSUME NEW p \in Paths PROVE [status |-> "gone", gateway |-> NoGateway] \in Sightings
  <2>1. [status |-> "gone", gateway |-> NoGateway] \in Seen(p)
    BY DEF Seen
  <2> QED BY <2>1 DEF Sightings
<1>2. known \in [Paths -> [seen : Sightings, level : Levels \cup {Unmeasured}]]
  BY <1>1 DEF WatchInit
<1>3. "carrying" \in DOMAIN fail /\ fail.carrying = NoPath
  BY DEF WatchInit, CarryingOn
<1>4. Installed
  <2>1. PICK r \in Rows : rows = {r} /\ route = r.gateway
    BY DEF WatchInit
  <2>2. RowsVia(route) = {r}
    BY <2>1 DEF RowsVia
  <2> QED BY <2>1, <2>2 DEF Installed
<1> QED BY <1>2, <1>3, <1>4 DEF WatchInit, WInv, WatchTyped, Steered

\* WindowsRouteInstaller::rewrite, done or failed.
LEMMA RewriteKeeps ==
    ASSUME Installed, NEW gateway, Rewrite(gateway), UNCHANGED doubled
    PROVE  Installed' /\ route' = gateway
<1>1. CASE gateway = route /\ UNCHANGED <<route, rows>>
  BY <1>1 DEF Installed, RowsVia
<1>2. CASE /\ gateway # route /\ route' = gateway
           /\ \E r \in Rows : r.gateway = gateway /\ rows' = (rows \ RowsVia(route)) \cup {r}
  <2>1. PICK r \in Rows : r.gateway = gateway /\ rows' = (rows \ RowsVia(route)) \cup {r}
    BY <1>2
  <2>2. RowsVia(route)' = {x \in rows' : x.gateway = gateway}
    BY <1>2 DEF RowsVia
  <2>3. r \in RowsVia(route)'
    BY <2>1, <2>2
  <2>4. ~doubled => rows' = {r}
    BY <2>1 DEF Installed
  <2> QED BY <1>2, <2>2, <2>3, <2>4, <2>1 DEF Installed
<1> QED BY <1>1, <1>2 DEF Rewrite

LEMMA RewriteFailsKeeps ==
    ASSUME Installed, doubled \in BOOLEAN, NEW gateway, RewriteFails(gateway)
    PROVE  Installed' /\ route' = route /\ doubled' \in BOOLEAN
<1>1. route' = route
  BY DEF RewriteFails
<1>2. CASE UNCHANGED <<rows, doubled>>
  BY <1>1, <1>2 DEF Installed, RowsVia
<1>3. ASSUME doubled' = TRUE, NEW r \in Rows, NEW left \in SUBSET RowsVia(route), left # {},
             rows' = (rows \ RowsVia(route)) \cup left \cup {r}
      PROVE  Installed' /\ doubled' \in BOOLEAN
  <2>1. PICK x \in left : x \in rows' /\ x.gateway = route
    BY <1>3 DEF RowsVia
  <2>2. x \in RowsVia(route)'
    BY <1>1, <2>1 DEF RowsVia
  <2> QED BY <1>3, <2>2 DEF Installed
<1> QED BY <1>1, <1>2, <1>3 DEF RewriteFails

\* A path that is moved to is one that can be used.
LEMMA TargetsAreUsable ==
    ASSUME NEW f
    PROVE  \A to \in Targets(f) : to \in Paths /\ Usable(to)
  BY DEF Targets, BestOf, Ready, Preferred

\* Tunnels::carry_over, with what it has to do with the route.
LEMMA CarryKeeps ==
    ASSUME WatchTyped, Steered, Installed, started, hold = 0,
           NEW f, "carrying" \in DOMAIN f, NEW to \in Paths, Usable(to), f.carrying = to,
           NEW from \in Paths \cup {NoPath}, from = fail.carrying,
           Carry(f, from, to), UNCHANGED <<known, started>>, deciding' = FALSE
    PROVE  WInv'
<1> DEFINE gateway == known[to].seen.gateway
           mislaid == adrift \/ Away(known[from].seen)
<1>1. /\ known' = known /\ started' = started /\ to # NoPath /\ HoldAfter \in Nat
      /\ adrift \in BOOLEAN /\ doubled \in BOOLEAN
  BY WatchAssumption DEF WatchTyped
<1>2. CASE fail' = f /\ Rewrite(gateway) /\ adrift' = FALSE /\ UNCHANGED <<hold, doubled>>
  <2>1. Installed' /\ route' = gateway
    BY <1>2, RewriteKeeps
  <2> QED BY <1>1, <1>2, <2>1 DEF WInv, WatchTyped, Steered, Usable
<1>3. ASSUME fail' = PutBack(f, from), hold' = HoldAfter, adrift' \in BOOLEAN, doubled' \in BOOLEAN,
             Installed',
             \/ route' = route /\ adrift' = (from = NoPath \/ mislaid)
             \/ route' = gateway /\ adrift' = (from # NoPath /\ (gateway # route \/ mislaid))
      PROVE  WInv'
  <2>1. CASE from = NoPath
    <3>1. fail' = f
      BY <1>3, <2>1 DEF PutBack
    <3> QED BY <1>1, <1>3, <2>1, <3>1 DEF WInv, WatchTyped, Steered, Usable
  <2>2. CASE from # NoPath
    <3>1. fail' = CarryingOn(from)
      BY <1>3, <2>2 DEF PutBack
    <3>2. "carrying" \in DOMAIN fail' /\ fail'.carrying = from
      BY <3>1 DEF CarryingOn
    <3>3. WatchTyped'
      BY <1>1, <1>3, <3>2 DEF WatchTyped
    <3>4. ~adrift' => ~adrift /\ Usable(from) /\ route' = route
      BY <1>3, <2>2 DEF Away, Usable
    <3> QED BY <1>1, <1>3, <2>2, <3>2, <3>3, <3>4 DEF WInv, Steered, Usable
  <2> QED BY <2>1, <2>2
<1>4. CASE /\ fail' = PutBack(f, from) /\ hold' = HoldAfter
           /\ RewriteFails(gateway) /\ adrift' = (from = NoPath \/ mislaid)
  <2>1. Installed' /\ route' = route /\ doubled' \in BOOLEAN
    BY <1>1, <1>4, RewriteFailsKeeps
  <2>2. adrift' \in BOOLEAN
    BY <1>4
  <2> QED BY <1>3, <1>4, <2>1, <2>2
<1>5. CASE /\ fail' = PutBack(f, from) /\ hold' = HoldAfter /\ Rewrite(gateway) /\ UNCHANGED doubled
           /\ adrift' = (from # NoPath /\ (gateway # route \/ mislaid))
  <2>1. Installed' /\ route' = gateway
    BY <1>5, RewriteKeeps
  <2>2. adrift' \in BOOLEAN /\ doubled' \in BOOLEAN
    BY <1>1, <1>5
  <2> QED BY <1>3, <1>5, <2>1, <2>2
<1> QED BY <1>2, <1>4, <1>5 DEF Carry

\* Loop::decide and FailoverState::evaluate.
LEMMA DecideKeeps == ASSUME WInv, Decide PROVE WInv'
<1> DEFINE f == GoodClocks(fail)
           cur == fail.carrying
           usable == {p \in Paths : Usable(p)}
           stay == BadClocks(f, cur)
<1>1. /\ deciding' = FALSE /\ UNCHANGED <<known, started>> /\ WatchTyped /\ Steered /\ Installed
      /\ cur \in Paths \cup {NoPath} /\ started
  BY DEF WInv, WatchTyped, Decide
<1>2. "carrying" \in DOMAIN f /\ f.carrying = cur /\ "carrying" \in DOMAIN stay /\ stay.carrying = cur
  BY <1>1 DEF GoodClocks, BadClocks, WatchTyped
<1>3. \/ hold > 0 /\ UNCHANGED <<fail, route, rows, hold, adrift, doubled>>
      \/ /\ hold = 0 /\ cur \notin usable /\ UNCHANGED <<route, rows, hold, adrift, doubled>>
         /\ fail' = [f EXCEPT !.carrying = NoPath, !.since = Never, !.below = Never, !.bad = Never]
      \/ /\ hold = 0 /\ \E to \in BestOf(usable) : Carry(MovedTo(f, to, cur # NoPath), cur, to)
      \/ hold = 0 /\ cur \in usable /\ fail' = stay /\ UNCHANGED <<route, rows, hold, adrift, doubled>>
      \/ hold = 0 /\ \E to \in Targets(stay) : Carry(MovedTo(stay, to, TRUE), cur, to)
  BY DEF Decide
<1>4. \A to \in BestOf(usable) : to \in Paths /\ Usable(to)
  BY DEF BestOf
<1>5. \A to \in Targets(stay) : to \in Paths /\ Usable(to)
  BY TargetsAreUsable
<1>6. ASSUME NEW g, "carrying" \in DOMAIN g, NEW to, NEW counts
      PROVE  "carrying" \in DOMAIN MovedTo(g, to, counts) /\ MovedTo(g, to, counts).carrying = to
  BY <1>6 DEF MovedTo
<1> HIDE DEF f, stay
<1>7. CASE hold > 0 /\ UNCHANGED <<fail, route, rows, hold, adrift, doubled>>
  <2>1. WatchTyped'
    BY <1>1, <1>7 DEF WatchTyped
  <2>2. hold # 0
    BY <1>7
  <2> QED BY <1>1, <1>7, <2>1, <2>2 DEF WInv, Steered, Usable, Installed, RowsVia
<1>8. CASE /\ hold = 0 /\ cur \notin usable /\ UNCHANGED <<route, rows, hold, adrift, doubled>>
           /\ fail' = [f EXCEPT !.carrying = NoPath, !.since = Never, !.below = Never, !.bad = Never]
  <2>1. "carrying" \in DOMAIN fail' /\ fail'.carrying = NoPath
    BY <1>2, <1>8
  <2> QED BY <1>1, <1>8, <2>1 DEF WInv, WatchTyped, Steered, Installed, RowsVia
<1>9. CASE hold = 0 /\ \E to \in BestOf(usable) : Carry(MovedTo(f, to, cur # NoPath), cur, to)
  <2>1. PICK to \in BestOf(usable) : Carry(MovedTo(f, to, cur # NoPath), cur, to)
    BY <1>9
  <2> QED BY <1>1, <1>2, <1>4, <1>6, <1>9, <2>1, CarryKeeps
<1>10. CASE hold = 0 /\ cur \in usable /\ fail' = stay /\ UNCHANGED <<route, rows, hold, adrift, doubled>>
  BY <1>1, <1>2, <1>10 DEF WInv, WatchTyped, Steered, Usable, Installed, RowsVia
<1>11. CASE hold = 0 /\ \E to \in Targets(stay) : Carry(MovedTo(stay, to, TRUE), cur, to)
  <2>1. PICK to \in Targets(stay) : Carry(MovedTo(stay, to, TRUE), cur, to)
    BY <1>11
  <2> QED BY <1>1, <1>2, <1>5, <1>6, <1>11, <2>1, CarryKeeps
<1> QED BY <1>3, <1>7, <1>8, <1>9, <1>10, <1>11

\* Loop::refresh: a carrying adapter with another router is followed to it.
LEMMA RefreshKeeps == ASSUME WInv, NEW now \in Networks, Refresh(now) PROVE WInv'
<1> DEFINE cur == fail.carrying
<1>1. /\ ~deciding /\ deciding' = TRUE /\ known' = Refreshed(now) /\ started' = TRUE
      /\ WatchTyped /\ Steered /\ Installed /\ HoldAfter \in Nat
  BY WatchAssumption DEF WInv, Refresh
<1>2. /\ now \in [Paths -> Sightings] /\ \A p \in Paths : now[p] \in Seen(p)
  BY DEF Networks, Sightings
<1>3. \A p \in Paths : known'[p].seen = now[p] /\ known'[p] \in [seen : Sightings, level : Levels \cup {Unmeasured}]
  BY <1>1, <1>2 DEF Refreshed, WatchTyped
<1>4. known' \in [Paths -> [seen : Sightings, level : Levels \cup {Unmeasured}]]
  BY <1>1, <1>3 DEF Refreshed
<1>5. CASE started
  <2> DEFINE gateway == now[cur].gateway
  <2>1. /\ FollowGateway(now) /\ fail' = fail /\ cur \in Paths \cup {NoPath}
        /\ adrift \in BOOLEAN /\ doubled \in BOOLEAN
    BY <1>1, <1>5 DEF Refresh, WatchTyped
  <2>2. ASSUME Installed', adrift' \in BOOLEAN, doubled' \in BOOLEAN, hold' \in Nat,
               ~adrift' /\ cur # NoPath =>
                   IF now[cur].status = "up" THEN route' = gateway ELSE hold' = 0
        PROVE  WInv'
    BY <1>1, <1>3, <1>4, <2>1, <2>2 DEF WInv, WatchTyped, Steered, Usable
  <2>3. CASE /\ ~NewGateway(now) /\ adrift' = (adrift \/ AwayWhileHeld(now))
             /\ UNCHANGED <<route, rows, hold, doubled>>
    <3>1. Installed' /\ adrift' \in BOOLEAN /\ doubled' \in BOOLEAN /\ hold' \in Nat
      BY <1>1, <2>1, <2>3 DEF Installed, RowsVia, WatchTyped, AwayWhileHeld
    <3>2. ASSUME ~adrift', cur # NoPath
          PROVE  IF now[cur].status = "up" THEN route' = gateway ELSE hold' = 0
      <4>1. ~adrift /\ ~AwayWhileHeld(now) /\ route' = route /\ hold' = hold
        BY <2>3, <3>2
      <4>2. known[cur].seen.status = "up" /\ route = known[cur].seen.gateway
        BY <1>1, <1>5, <3>2, <4>1 DEF Steered, Usable
      <4>3. now[cur].status = "up" => gateway = known[cur].seen.gateway
        BY <2>3, <3>2, <4>2 DEF NewGateway
      <4>4. now[cur].status # "up" => hold = 0
        BY <1>1, <3>2, <4>1 DEF AwayWhileHeld, Away, WatchTyped
      <4> QED BY <4>1, <4>2, <4>3, <4>4
    <3> QED BY <2>2, <3>1, <3>2
  <2>4. CASE /\ NewGateway(now) /\ Rewrite(gateway) /\ hold' \in {hold, HoldAfter}
             /\ adrift' = FALSE /\ UNCHANGED doubled
    <3>1. Installed' /\ route' = gateway
      BY <1>1, <2>4, RewriteKeeps
    <3>2. now[cur].status = "up" /\ hold' \in Nat
      BY <1>1, <2>4 DEF NewGateway, WatchTyped
    <3> QED BY <2>1, <2>2, <2>4, <3>1, <3>2
  <2>5. CASE /\ NewGateway(now) /\ RewriteFails(gateway) /\ hold' = HoldAfter
             /\ adrift' = (gateway # route)
    <3>1. Installed' /\ route' = route /\ doubled' \in BOOLEAN
      BY <1>1, <2>1, <2>5, RewriteFailsKeeps
    <3>2. now[cur].status = "up" /\ hold' \in Nat /\ adrift' \in BOOLEAN
      BY <1>1, <2>5 DEF NewGateway
    <3> QED BY <2>2, <2>5, <3>1, <3>2
  <2> QED BY <2>1, <2>3, <2>4, <2>5 DEF FollowGateway
<1>6. CASE ~started
  <2>1. PICK p \in CarryingNow(now) :
            /\ fail' = CarryingOn(p)
            /\ adrift' = (p # NoPath /\ route # now[p].gateway)
            /\ UNCHANGED <<route, rows, hold, doubled>>
    BY <1>6 DEF Refresh
  <2>2. (p \in Paths /\ now[p].status = "up") \/ p = NoPath
    BY DEF CarryingNow
  <2>3. "carrying" \in DOMAIN fail' /\ fail'.carrying = p
    BY <2>1 DEF CarryingOn
  <2>4. WatchTyped'
    BY <1>1, <1>4, <2>1, <2>2, <2>3 DEF WatchTyped
  <2> QED BY <1>1, <1>3, <2>1, <2>2, <2>3, <2>4 DEF WInv, Steered, Usable, Installed, RowsVia
<1> QED BY <1>1, <1>5, <1>6 DEF WatchTyped

LEMMA WNext == WInv /\ [WatchNext]_watchVars => WInv'
<1> SUFFICES ASSUME WInv, [WatchNext]_watchVars PROVE WInv'
  OBVIOUS
<1>1. CASE Decide
  BY <1>1, DecideKeeps
<1>2. CASE RefreshFails
  BY <1>2 DEF RefreshFails, WInv, WatchTyped, Steered, Usable, Installed, RowsVia
<1>3. CASE Tick
  BY <1>3 DEF Tick, WInv, WatchTyped, Steered, Usable, Installed, RowsVia
<1>4. ASSUME NEW now \in Networks, Refresh(now) PROVE WInv'
  BY <1>4, RefreshKeeps
<1>5. ASSUME NEW p \in Paths, NEW level \in Levels \cup {Unmeasured}, Observe(p, level) PROVE WInv'
  <2>1. /\ known' \in [Paths -> [seen : Sightings, level : Levels \cup {Unmeasured}]]
        /\ \A q \in Paths : known'[q].seen = known[q].seen
    BY <1>5 DEF Observe, WInv, WatchTyped
  <2> QED BY <1>5, <2>1 DEF Observe, WInv, WatchTyped, Steered, Usable, Installed, RowsVia
<1>6. CASE UNCHANGED watchVars
  BY <1>6 DEF watchVars, WInv, WatchTyped, Steered, Usable, Installed, RowsVia
<1> QED BY <1>1, <1>2, <1>3, <1>4, <1>5, <1>6 DEF WatchNext

\* For any adapters, routers (shared between adapters or not), preferences and
\* times of the failover machine: between two decisions the host route kept with
\* the tunnel is the one by the gateway of the path the monitor says is carrying,
\* and it is in the table ("a failed move is not assumed to have happened",
\* netwatch.rs); with the excuses RouteIsCarrying names.
THEOREM RouteFollowsCarrier == WatchSpec => []RouteIsCarrying
<1>1. WInv => RouteIsCarrying
  BY DEF WInv, Steered, Installed, RouteIsCarrying
<1> QED BY <1>1, WatchInitInv, WNext, PTL DEF WatchSpec

-----------------------------------------------------------------------------
(* A race of profiles: what it leaves behind.                              *)

Stages == AtWork \cup {"out", "stopping", "over"}
Untouched == {"out", "over"}

StagesTyped ==
    /\ stage \in [Probes -> Stages] /\ race \in 0 .. MaxRaces
    /\ running \subseteq Probes /\ configs \subseteq Probes

\* The probes of a race that has not begun; and the only race at work is the one
\* that has given no report.
NotBegun ==
    /\ \A x \in Probes : x[1] > race => stage[x] \in Untouched
    /\ racing = "preparing" => \A p \in Profiles : stage[<<race, p>>] \in Untouched
    /\ racing # "none" => race \in 1 .. MaxRaces /\ given = <<>>
    /\ given # <<>> => race \in 1 .. MaxRaces

LInv == StagesTyped /\ NotBegun /\ NothingLeftBehind

LEMMA ProbesAre ==
    /\ \A i \in 1 .. MaxRaces, p \in Profiles : <<i, p>> \in Probes /\ <<i, p>>[1] = i /\ <<i, p>>[2] = p
    /\ \A x \in Probes : x = <<x[1], x[2]>> /\ x[1] \in 1 .. MaxRaces /\ x[2] \in Profiles
  BY DEF Probes

LEMMA LeavesInit == RaceInit => LInv
<1> SUFFICES ASSUME RaceInit PROVE LInv
  OBVIOUS
<1>1. StagesTyped
  BY RaceAssumption DEF RaceInit, StagesTyped, Stages
<1>2. NotBegun
  BY DEF RaceInit, NotBegun, Untouched
<1>3. NothingLeftBehind
  BY DEF RaceInit, NothingLeftBehind
<1> QED BY <1>1, <1>2, <1>3 DEF LInv

\* A probe that goes from one stage to another: what its own stage has to be.
LEMMA ProbeMoves ==
    ASSUME LInv, NEW x \in Probes, NEW from \in AtWork \cup {"stopping"}, NEW to \in Stages,
           Moves(x, from, to), to # "new",
           from = "stopping" => to \notin AtWork,
           running' \subseteq running \cup {x}, configs' \subseteq configs \cup {x},
           x \in running' => to \in {"starting", "failing", "measuring", "stopping"},
           configs' \ undeleted' \subseteq (configs \ undeleted) \cup {x},
           x \in configs' \ undeleted' => to \in {"starting", "failing"}
    PROVE  LInv'
<1>1. /\ swept' = swept /\ race' = race /\ racing' = racing /\ given' = given
      /\ stage' = [stage EXCEPT ![x] = to] /\ stage[x] = from
  BY DEF Moves, loopVars
<1>2. /\ stage' \in [Probes -> Stages] /\ stage'[x] = to
      /\ \A y \in Probes : y # x => stage'[y] = stage[y]
  BY <1>1 DEF LInv, StagesTyped
<1>3. StagesTyped'
  BY <1>1, <1>2 DEF LInv, StagesTyped
<1>4. from \notin Untouched
  BY DEF AtWork, Untouched
<1>5. NotBegun'
  <2>1. \A y \in Probes : stage[y] \in Untouched => stage'[y] \in Untouched
    BY <1>1, <1>2, <1>4
  <2>2. race \in 1 .. MaxRaces => \A p \in Profiles : <<race, p>> \in Probes
    BY ProbesAre
  <2> QED BY <1>1, <2>1, <2>2 DEF LInv, NotBegun
<1>6. \A y \in running' : stage'[y] \in {"starting", "failing", "measuring", "stopping"}
  <2> SUFFICES ASSUME NEW y \in running'
               PROVE  stage'[y] \in {"starting", "failing", "measuring", "stopping"}
    OBVIOUS
  <2>1. CASE y = x
    BY <1>2, <2>1
  <2>2. CASE y # x
    BY <1>1, <2>2 DEF LInv, NothingLeftBehind, StagesTyped
  <2> QED BY <2>1, <2>2
<1>7. swept' => \A y \in configs' \ undeleted' : stage'[y] \in {"starting", "failing"}
  <2> SUFFICES ASSUME swept', NEW y \in configs' \ undeleted'
               PROVE  stage'[y] \in {"starting", "failing"}
    OBVIOUS
  <2>1. CASE y = x
    BY <1>2, <2>1
  <2>2. CASE y # x
    BY <1>1, <2>2 DEF LInv, NothingLeftBehind, StagesTyped
  <2> QED BY <2>1, <2>2
<1>8. given' # <<>> => \A p \in Profiles : stage'[<<race', p>>] \notin AtWork
  <2> SUFFICES ASSUME given # <<>>, NEW p \in Profiles PROVE stage'[<<race, p>>] \notin AtWork
    BY <1>1
  <2>1. stage[<<race, p>>] \notin AtWork /\ <<race, p>> \in Probes
    BY ProbesAre DEF LInv, NothingLeftBehind, NotBegun
  <2>2. CASE <<race, p>> = x
    BY <1>1, <1>2, <2>1, <2>2
  <2>3. CASE <<race, p>> # x
    BY <1>2, <2>1, <2>3
  <2> QED BY <2>2, <2>3
<1>9. NothingLeftBehind'
  BY <1>6, <1>7, <1>8 DEF NothingLeftBehind
<1> QED BY <1>3, <1>5, <1>9 DEF LInv

\* However a probe goes on or ends: its file and its core go as its stage says.
LEMMA ProbeLeavesNothing ==
    ASSUME LInv, NEW x \in Probes,
           \/ ProbeBegins(x) \/ ProbeCannotBegin(x) \/ CoreReady(x) \/ CoreNotReady(x)
           \/ ProbeFails(x) \/ ProbeReports(x) \/ CoreStopped(x) \/ ProbeDies(x)
    PROVE  LInv'
<1>1. /\ \A y \in running : stage[y] \in {"starting", "failing", "measuring", "stopping"}
      /\ swept => \A y \in configs \ undeleted : stage[y] \in {"starting", "failing"}
  BY DEF LInv, NothingLeftBehind
<1>2. CASE ProbeBegins(x)
  <2>1. Moves(x, "new", "starting") /\ running' = running \cup {x}
        /\ configs' = configs \cup {x} /\ undeleted' = undeleted
    BY <1>2 DEF ProbeBegins
  <2> QED BY <2>1, ProbeMoves DEF AtWork, Stages
<1>3. CASE ProbeCannotBegin(x)
  <2>1. Moves(x, "new", "over") /\ running' = running /\ swept /\ stage[x] = "new"
    BY <1>3 DEF ProbeCannotBegin, Moves
  <2>2. x \notin running /\ x \notin configs \ undeleted
    BY <1>1, <2>1
  <2>3. configs' \ undeleted' \subseteq configs \ undeleted /\ configs' \subseteq configs \cup {x}
    BY <1>3 DEF ProbeCannotBegin
  <2> QED BY <2>1, <2>2, <2>3, ProbeMoves DEF AtWork, Stages
<1>4. ASSUME Deletes(x)
      PROVE  configs' \ undeleted' \subseteq (configs \ undeleted) \ {x} /\ configs' \subseteq configs
  BY <1>4 DEF Deletes
<1>5. CASE CoreReady(x)
  <2>1. Moves(x, "starting", "measuring") /\ running' = running /\ Deletes(x)
    BY <1>5 DEF CoreReady
  <2> QED BY <1>4, <2>1, ProbeMoves DEF AtWork, Stages
<1>6. CASE CoreNotReady(x)
  <2>1. Moves(x, "starting", "failing") /\ UNCHANGED <<configs, running, undeleted>>
    BY <1>6 DEF CoreNotReady
  <2> QED BY <2>1, ProbeMoves DEF AtWork, Stages
<1>7. CASE ProbeFails(x)
  <2>1. Moves(x, "failing", "over") /\ running' = running \ {x} /\ Deletes(x)
    BY <1>7 DEF ProbeFails
  <2> QED BY <1>4, <2>1, ProbeMoves DEF AtWork, Stages
<1>8. CASE ProbeReports(x)
  <2>1. /\ Moves(x, "measuring", "stopping") /\ UNCHANGED <<configs, running, undeleted>>
        /\ swept /\ stage[x] = "measuring"
    BY <1>8 DEF ProbeReports, Moves
  <2>2. x \notin configs \ undeleted
    BY <1>1, <2>1
  <2> QED BY <2>1, <2>2, ProbeMoves DEF AtWork, Stages
<1>9. CASE CoreStopped(x)
  <2>1. /\ Moves(x, "stopping", "over") /\ UNCHANGED <<configs, undeleted>>
        /\ running' = running \ {x} /\ swept /\ stage[x] = "stopping"
    BY <1>9 DEF CoreStopped, Moves
  <2>2. x \notin configs \ undeleted
    BY <1>1, <2>1
  <2> QED BY <2>1, <2>2, ProbeMoves DEF AtWork, Stages
<1>10. CASE ProbeDies(x)
  <2>1. stage[x] \in AtWork /\ Moves(x, stage[x], "over") /\ running' = running \ {x} /\ Deletes(x)
    BY <1>10 DEF ProbeDies
  <2> QED BY <1>4, <2>1, ProbeMoves DEF AtWork, Stages
<1> QED BY <1>2, <1>3, <1>5, <1>6, <1>7, <1>8, <1>9, <1>10

\* The loop and the effect touch no probe that has begun.
LEMMA LoopLeavesNothing ==
    ASSUME LInv, UNCHANGED <<swept, race, probeVars>>,
           racing' \in {racing, "none", "running", "joining"}, racing' # "none" => racing # "none",
           racing' # "none" => given' = given,
           given' # given /\ given' # <<>> =>
               race \in 1 .. MaxRaces /\ \A p \in Profiles : stage[<<race, p>>] \notin AtWork
    PROVE  LInv'
  BY DEF LInv, StagesTyped, NotBegun, NothingLeftBehind, probeVars

LEMMA LNext == LInv /\ [RaceNext]_raceVars => LInv'
<1> SUFFICES ASSUME LInv, [RaceNext]_raceVars PROVE LInv'
  OBVIOUS
<1>0. "out" \notin AtWork /\ "over" \notin AtWork /\ Untouched \cap AtWork = {}
  BY DEF AtWork, Untouched
<1>1. ASSUME NEW ps, AskRace(ps) PROVE LInv'
  <2>1. /\ race' = race + 1 /\ race' \in 1 .. MaxRaces /\ given' = <<>> /\ swept' = swept
        /\ UNCHANGED probeVars /\ racing' = "preparing"
    BY <1>1, RaceAssumption DEF AskRace, LInv, StagesTyped
  <2>2. \A p \in Profiles : <<race', p>> \in Probes /\ <<race', p>>[1] > race
    BY <2>1, ProbesAre DEF LInv, StagesTyped
  <2>3. \A x \in Probes : x[1] > race' => x[1] > race
    BY <2>1, ProbesAre DEF LInv, StagesTyped
  <2>4. NotBegun'
    BY <2>1, <2>2, <2>3 DEF LInv, NotBegun, probeVars
  <2>5. StagesTyped'
    BY <2>1 DEF LInv, StagesTyped, probeVars
  <2> QED BY <2>1, <2>4, <2>5 DEF LInv, NothingLeftBehind, probeVars
<1>2. CASE RefuseRace
  <2>1. racing = "preparing" /\ racing' = "none" /\ UNCHANGED <<swept, race, probeVars>>
    BY <1>2 DEF RefuseRace, FutureEnds
  <2>2. race \in 1 .. MaxRaces /\ \A p \in Profiles : stage[<<race, p>>] \notin AtWork
    BY <1>0, <2>1 DEF LInv, NotBegun
  <2> QED BY <2>1, <2>2, LoopLeavesNothing
<1>3. CASE BeginRace
  <2>1. PICK jobs \in SUBSET asked :
            /\ racing = "preparing" /\ racing' = "running"
            /\ stage' = [x \in Probes |-> IF x[1] = race /\ x[2] \in jobs THEN "new" ELSE stage[x]]
            /\ UNCHANGED <<swept, race, given, configs, running, undeleted>>
    BY <1>3 DEF BeginRace
  <2>2. \A x \in Probes : stage'[x] # stage[x] => x[1] = race /\ stage[x] \in Untouched
    BY <2>1, ProbesAre DEF LInv, NotBegun
  <2>3. StagesTyped'
    <3>1. "new" \in Stages
      BY DEF Stages, AtWork
    <3> QED BY <2>1, <3>1 DEF LInv, StagesTyped
  <2>4. NotBegun'
    BY <2>1, <2>2, ProbesAre DEF LInv, NotBegun, StagesTyped
  <2>5. given' = <<>>
    BY <2>1 DEF LInv, NotBegun
  <2>6. Untouched \cap {"starting", "failing", "measuring", "stopping"} = {}
    BY DEF Untouched
  <2>7. \A x \in running' : stage'[x] \in {"starting", "failing", "measuring", "stopping"}
    <3> SUFFICES ASSUME NEW x \in running
                 PROVE  stage'[x] \in {"starting", "failing", "measuring", "stopping"}
      BY <2>1
    <3>1. stage[x] \in {"starting", "failing", "measuring", "stopping"} /\ x \in Probes
      BY DEF LInv, NothingLeftBehind, StagesTyped
    <3> QED BY <2>2, <2>6, <3>1
  <2>8. ASSUME swept', NEW x \in configs' \ undeleted' PROVE stage'[x] \in {"starting", "failing"}
    <3>1. stage[x] \in {"starting", "failing"} /\ x \in Probes
      BY <2>1, <2>8 DEF LInv, NothingLeftBehind, StagesTyped
    <3> QED BY <2>2, <2>6, <3>1
  <2> QED BY <2>3, <2>4, <2>5, <2>7, <2>8 DEF LInv, NothingLeftBehind
<1>4. CASE RaceTurn
  <2>1. /\ racing = "running" /\ racing' \in {"running", "joining"} /\ given' = given
        /\ UNCHANGED <<swept, race, probeVars>>
    BY <1>4 DEF RaceTurn
  <2> QED BY <2>1, LoopLeavesNothing
<1>5. CASE RaceReturns
  <2>1. /\ racing = "joining" /\ racing' = "none" /\ UNCHANGED <<swept, race, probeVars>>
        /\ \A p \in Profiles : stage[<<race, p>>] \notin AtWork
    BY <1>5 DEF RaceReturns, FutureEnds
  <2>2. race \in 1 .. MaxRaces
    BY <2>1 DEF LInv, NotBegun
  <2> QED BY <2>1, <2>2, LoopLeavesNothing
<1>6. CASE CallOffRace
  <2>1. racing' = "none" /\ given' = given /\ UNCHANGED <<swept, race, probeVars>>
    BY <1>6 DEF CallOffRace, FutureEnds
  <2> QED BY <2>1, LoopLeavesNothing
<1>7. CASE RaceTime
  <2>1. racing' = racing /\ given' = given /\ UNCHANGED <<swept, race, probeVars>>
    BY <1>7 DEF RaceTime
  <2> QED BY <2>1, LoopLeavesNothing
<1>8. CASE RaceServiceDies
  <2>1. /\ swept' = FALSE /\ racing' = "none" /\ stage' = [x \in Probes |-> "over"]
        /\ running' = {} /\ UNCHANGED <<race, given, configs>>
    BY <1>8 DEF RaceServiceDies, FutureEnds
  <2>2. StagesTyped'
    BY <2>1 DEF LInv, StagesTyped, Stages
  <2>3. NotBegun'
    BY <2>1 DEF LInv, NotBegun, Untouched
  <2>4. given' # <<>> => \A p \in Profiles : stage'[<<race', p>>] \notin AtWork
    BY <1>0, <2>1, ProbesAre DEF LInv, NotBegun
  <2> QED BY <2>1, <2>2, <2>3, <2>4 DEF LInv, NothingLeftBehind
<1>9. CASE SweepStale
  <2>1. /\ UNCHANGED <<loopVars, queue, stage, running>>
        /\ configs' = undeleted' /\ configs' \subseteq configs
    BY <1>9 DEF SweepStale
  <2> QED BY <2>1 DEF LInv, NothingLeftBehind, NotBegun, StagesTyped, loopVars
<1>10. ASSUME NEW x \in Probes,
              \/ ProbeBegins(x) \/ ProbeCannotBegin(x) \/ CoreReady(x) \/ CoreNotReady(x)
              \/ ProbeFails(x) \/ ProbeReports(x) \/ CoreStopped(x) \/ ProbeDies(x)
       PROVE  LInv'
  BY <1>10, ProbeLeavesNothing
<1>11. CASE UNCHANGED raceVars
  BY <1>11 DEF raceVars, loopVars, probeVars, LInv, NothingLeftBehind, NotBegun, StagesTyped
<1> QED BY <1>1, <1>2, <1>3, <1>4, <1>5, <1>6, <1>7, <1>8, <1>9, <1>10, <1>11 DEF RaceNext

\* For any profiles, number of races and failures of the files' removal: a race
\* that is over leaves no probe at work, no core and no credentials behind, but
\* for a file whose removal itself failed (runner.rs:8; race.rs:87).
THEOREM RaceCleansUp == RaceSpec => []NothingLeftBehind
<1>1. LInv => NothingLeftBehind
  BY DEF LInv
<1> QED BY <1>1, LeavesInit, LNext, PTL DEF RaceSpec

-----------------------------------------------------------------------------
(* A race of profiles: what it promises.                                   *)

Marks == {"out", "pending", "usable", "unusable"}

RaceTyped ==
    /\ racing \in {"none", "preparing", "running", "joining"}
    /\ elapsed \in Nat /\ asked \subseteq Profiles
    /\ board \in [Profiles -> [is : Marks, at : Nat]]

\* A race that has not begun has heard nothing.
AtRest ==
    /\ racing = "none" => asked = {}
    /\ racing \in {"none", "preparing"} => board = Unraced /\ elapsed = 0

\* A report is the only one of its probe, is of this instant, and is of a
\* profile the board still waits for; a probe at work is waited for.
Heard ==
    /\ \A m \in queue :
          /\ m.profile \in Profiles /\ m.is \in {"usable", "unusable"} /\ m.at = elapsed
          /\ racing = "running" /\ board[m.profile].is = "pending"
          /\ stage[<<race, m.profile>>] \notin AtWork
    /\ racing = "running" =>
          \A p \in Profiles : stage[<<race, p>>] \in AtWork => board[p].is = "pending"
    /\ \A p \in Profiles : board[p].is # "out" => p \in asked

\* The loop has decided at this instant, or has still to; and what it decided
\* stands while the probes that lost are waited for.
Timely ==
    /\ elapsed <= Deadline
    /\ racing = "running" /\ ~due => "pending" \in DecideOn(board, elapsed)
    /\ racing = "joining" => decision \in DecideOn(board, elapsed) /\ decision # "pending"

\* One of the usable profiles was the first.
HasFirst(b) == \E p \in UsableOn(b) : \A q \in UsableOn(b) : b[p].at <= b[q].at
Dated ==
    /\ \A p \in UsableOn(board) : board[p].at <= elapsed
    /\ UsableOn(board) # {} => HasFirst(board)

Promising == RaceTyped /\ AtRest /\ Heard /\ Timely /\ Dated
VInv == LInv /\ Promising

FirstOn(b) == CHOOSE t \in 0 .. Deadline :
    /\ \E p \in UsableOn(b) : b[p].at = t
    /\ \A p \in UsableOn(b) : t <= b[p].at

LEMMA FirstIs ==
    ASSUME NEW b \in [Profiles -> [is : Marks, at : Nat]], HasFirst(b),
           \A p \in UsableOn(b) : b[p].at <= Deadline
    PROVE  /\ FirstOn(b) \in 0 .. Deadline
           /\ \E p \in UsableOn(b) : b[p].at = FirstOn(b)
           /\ \A p \in UsableOn(b) : FirstOn(b) <= b[p].at
<1>1. PICK p \in UsableOn(b) : \A q \in UsableOn(b) : b[p].at <= b[q].at
  BY DEF HasFirst
<1>2. b[p].at \in 0 .. Deadline
  BY <1>1, RaceAssumption DEF UsableOn
<1>3. \E t \in 0 .. Deadline : /\ \E q \in UsableOn(b) : b[q].at = t
                               /\ \A q \in UsableOn(b) : t <= b[q].at
  BY <1>1, <1>2
<1> QED BY <1>3 DEF FirstOn

\* The rule, taken apart (probe.rs, "Winner rule").
LEMMA DecideMeans ==
    ASSUME NEW b, NEW now
    PROVE  /\ "pending" \in DecideOn(b, now) =>
                 /\ now < Deadline
                 /\ UsableOn(b) = {} \/ \E p \in BestOn(b) : HeldBack(b, p, now)
           /\ NoProfile \in DecideOn(b, now) =>
                 UsableOn(b) = {} /\ (PendingOn(b) = {} \/ ~(now < Deadline))
           /\ \A p \in Profiles : p \in DecideOn(b, now) => p \in BestOn(b) /\ ~HeldBack(b, p, now)
           /\ DecideOn(b, now) \subseteq Profiles \cup {NoProfile, "pending"}
<1>1. BestOn(b) \subseteq Profiles /\ BestOn(b) \subseteq UsableOn(b)
  BY DEF BestOn, UsableOn
<1>2. NoProfile \notin Profiles /\ "pending" \notin Profiles /\ NoProfile # "pending"
  BY RaceAssumption
<1>3. CASE UsableOn(b) = {}
  BY <1>1, <1>2, <1>3 DEF DecideOn
<1>4. CASE UsableOn(b) # {}
  <2>1. DecideOn(b, now) = {IF HeldBack(b, p, now) THEN "pending" ELSE p : p \in BestOn(b)}
    BY <1>4 DEF DecideOn
  <2>2. \A p \in BestOn(b) : HeldBack(b, p, now) => now < Deadline
    BY DEF HeldBack
  <2> QED BY <1>1, <1>2, <1>4, <2>1, <2>2
<1> QED BY <1>3, <1>4

\* A winner of the second tier is the first of all the usable ones.
LEMMA SecondTierIsFirst ==
    ASSUME NEW b, NEW p \in BestOn(b), Tier[p] = 2
    PROVE  \A q \in UsableOn(b) : b[p].at <= b[q].at
<1>1. \A q \in UsableOn(b) : q \in Profiles /\ Tier[q] \in {1, 2}
  BY RaceAssumption DEF UsableOn
<1> QED BY <1>1 DEF BestOn

LEMMA NothingUsable == UsableOn(Unraced) = {} /\ PendingOn(Unraced) = {}
  BY DEF UsableOn, PendingOn, Unraced

LEMMA PromiseInit == RaceInit => Promising
<1> SUFFICES ASSUME RaceInit PROVE Promising
  OBVIOUS
<1>1. Unraced \in [Profiles -> [is : Marks, at : Nat]] /\ \A p \in Profiles : Unraced[p].is = "out"
  BY DEF Unraced, Marks
<1>2. RaceTyped /\ AtRest /\ Heard
  BY <1>1 DEF RaceInit, RaceTyped, AtRest, Heard
<1>3. Timely
  BY RaceAssumption DEF RaceInit, Timely
<1>4. Dated
  BY NothingUsable DEF RaceInit, Dated
<1> QED BY <1>2, <1>3, <1>4 DEF Promising

\* The race's future ends, however: nothing is known any more.
LEMMA EndsAtRest == ASSUME FutureEnds PROVE Promising'
<1>1. /\ racing' = "none" /\ asked' = {} /\ elapsed' = 0 /\ queue' = {} /\ board' = Unraced
  BY DEF FutureEnds
<1>2. Unraced \in [Profiles -> [is : Marks, at : Nat]] /\ \A p \in Profiles : Unraced[p].is = "out"
  BY DEF Unraced, Marks
<1>3. RaceTyped' /\ AtRest' /\ Heard'
  BY <1>1, <1>2 DEF RaceTyped, AtRest, Heard
<1>4. Timely'
  BY <1>1, RaceAssumption DEF Timely
<1>5. Dated'
  BY <1>1, NothingUsable DEF Dated
<1> QED BY <1>3, <1>4, <1>5 DEF Promising

\* One turn of the loop: an entry of the board changes once, from pending.
LEMMA TurnHears ==
    ASSUME VInv, RaceTurn
    PROVE  /\ board' \in [Profiles -> [is : Marks, at : Nat]]
           /\ \A p \in Profiles :
                 \/ board'[p] = board[p]
                 \/ /\ board[p].is = "pending" /\ board'[p].is \in {"usable", "unusable", "out"}
                    /\ board'[p].at = elapsed
           /\ \A p \in Profiles : stage[<<race, p>>] \in AtWork => board'[p] = board[p]
           /\ decision' \in DecideOn(board', elapsed)
           /\ racing = "running" /\ racing' = IF decision' = "pending" THEN "running" ELSE "joining"
           /\ queue' = {} /\ UNCHANGED <<swept, race, asked, elapsed, given, probeVars>>
<1> DEFINE heard == [p \in Profiles |->
                        IF \E m \in queue : m.profile = p
                        THEN LET m == CHOOSE m \in queue : m.profile = p IN [is |-> m.is, at |-> m.at]
                        ELSE board[p]]
           turned(closed) ==
              [p \in Profiles |->
                 IF closed /\ heard[p].is = "pending" THEN [is |-> "out", at |-> elapsed] ELSE heard[p]]
           over == \A p \in Profiles : stage[<<race, p>>] \notin AtWork
<1>1. PICK closed \in BOOLEAN :
        /\ racing = "running" /\ (closed => over)
        /\ queue' = {} /\ board' = turned(closed)
        /\ decision' \in DecideOn(turned(closed), elapsed)
        /\ racing' = IF decision' = "pending" THEN "running" ELSE "joining"
        /\ UNCHANGED <<swept, race, asked, elapsed, given, probeVars>>
  BY DEF RaceTurn
<1>2. board \in [Profiles -> [is : Marks, at : Nat]] /\ elapsed \in Nat /\ Heard /\ racing = "running"
  BY DEF VInv, Promising, RaceTyped, RaceTurn
<1>3. ASSUME NEW p \in Profiles
      PROVE  /\ heard[p] \in [is : Marks, at : Nat]
             /\ \/ heard[p] = board[p]
                \/ /\ board[p].is = "pending" /\ heard[p].is \in {"usable", "unusable"}
                   /\ heard[p].at = elapsed
             /\ stage[<<race, p>>] \in AtWork => heard[p] = board[p]
  <2>1. CASE \E m \in queue : m.profile = p
    <3> DEFINE m == CHOOSE m \in queue : m.profile = p
    <3>1. m \in queue /\ m.profile = p
      BY <2>1
    <3>2. heard[p] = [is |-> m.is, at |-> m.at]
      BY <2>1
    <3> HIDE DEF m, heard
    <3>3. /\ board[p].is = "pending" /\ m.is \in {"usable", "unusable"} /\ m.at = elapsed
          /\ stage[<<race, p>>] \notin AtWork
      BY <1>2, <3>1 DEF Heard
    <3> QED BY <1>2, <3>2, <3>3 DEF Marks
  <2>2. CASE ~\E m \in queue : m.profile = p
    BY <1>2, <2>2
  <2> QED BY <2>1, <2>2
<1> HIDE DEF heard
<1>4. ASSUME NEW p \in Profiles
      PROVE  /\ board'[p] \in [is : Marks, at : Nat]
             /\ \/ board'[p] = board[p]
                \/ /\ board[p].is = "pending" /\ board'[p].is \in {"usable", "unusable", "out"}
                   /\ board'[p].at = elapsed
             /\ stage[<<race, p>>] \in AtWork => board'[p] = board[p]
  <2>1. board'[p] = IF closed /\ heard[p].is = "pending" THEN [is |-> "out", at |-> elapsed]
                    ELSE heard[p]
    BY <1>1
  <2>2. CASE closed /\ heard[p].is = "pending"
    <3>1. board'[p] = [is |-> "out", at |-> elapsed] /\ board[p].is = "pending"
      BY <1>3, <2>1, <2>2
    <3>2. stage[<<race, p>>] \notin AtWork
      BY <1>1, <2>2
    <3> QED BY <1>2, <3>1, <3>2 DEF Marks
  <2>3. CASE ~(closed /\ heard[p].is = "pending")
    BY <1>3, <2>1, <2>3
  <2> QED BY <2>2, <2>3
<1>5. board' = [p \in Profiles |-> board'[p]]
  BY <1>1
<1>6. decision' \in DecideOn(board', elapsed)
  BY <1>1
<1> HIDE DEF turned, over
<1>7. board' \in [Profiles -> [is : Marks, at : Nat]]
  BY <1>4, <1>5
<1> QED BY <1>1, <1>4, <1>6, <1>7

\* What a turn does to the first usable profile: nothing, once there is one.
LEMMA TurnKeepsFirst ==
    ASSUME VInv, RaceTurn
    PROVE  /\ UsableOn(board) \subseteq UsableOn(board') /\ PendingOn(board') \subseteq PendingOn(board)
           /\ \A p \in UsableOn(board') : board'[p].at <= elapsed
           /\ UsableOn(board') # {} => HasFirst(board')
           /\ UsableOn(board) # {} => FirstOn(board') = FirstOn(board)
           /\ UsableOn(board) = {} /\ UsableOn(board') # {} => FirstOn(board') = elapsed
<1>1. /\ board' \in [Profiles -> [is : Marks, at : Nat]]
      /\ \A p \in Profiles :
            \/ board'[p] = board[p]
            \/ /\ board[p].is = "pending" /\ board'[p].is \in {"usable", "unusable", "out"}
               /\ board'[p].at = elapsed
  BY TurnHears
<1>2. board \in [Profiles -> [is : Marks, at : Nat]] /\ elapsed \in Nat /\ Dated /\ elapsed <= Deadline
      /\ Deadline \in Nat
  BY RaceAssumption DEF VInv, Promising, RaceTyped, Timely
<1>3. /\ UsableOn(board) \subseteq UsableOn(board') /\ PendingOn(board') \subseteq PendingOn(board)
      /\ \A p \in UsableOn(board) : board'[p] = board[p]
      /\ \A p \in UsableOn(board') \ UsableOn(board) : board'[p].at = elapsed
  BY <1>1 DEF UsableOn, PendingOn
<1>4. \A p \in UsableOn(board') : board'[p].at <= elapsed /\ board'[p].at \in Nat
  BY <1>1, <1>2, <1>3 DEF Dated, UsableOn
<1>5. \A p \in UsableOn(board) : board[p].at \in Nat /\ board[p].at <= elapsed
  BY <1>2 DEF Dated, UsableOn
<1>6. CASE UsableOn(board) = {}
  <2>1. \A p \in UsableOn(board') : board'[p].at = elapsed
    BY <1>3, <1>6
  <2>2. UsableOn(board') # {} => HasFirst(board')
    BY <1>2, <2>1 DEF HasFirst
  <2>3. UsableOn(board') # {} => FirstOn(board') = elapsed
    <3>1. UsableOn(board') # {} => \E p \in UsableOn(board') : board'[p].at = FirstOn(board')
      BY <1>1, <1>2, <1>4, <2>2, FirstIs
    <3> QED BY <2>1, <3>1
  <2> QED BY <1>3, <1>4, <1>6, <2>2, <2>3
<1>7. CASE UsableOn(board) # {}
  <2>1. PICK p \in UsableOn(board) : \A q \in UsableOn(board) : board[p].at <= board[q].at
    BY <1>2, <1>7 DEF Dated, HasFirst
  <2>2. \A q \in UsableOn(board') : board'[p].at <= board'[q].at
    BY <1>2, <1>3, <1>5, <2>1
  <2>3. HasFirst(board') /\ HasFirst(board)
    BY <1>3, <2>1, <2>2 DEF HasFirst
  <2>4. /\ FirstOn(board) \in 0 .. Deadline
        /\ \E q \in UsableOn(board) : board[q].at = FirstOn(board)
        /\ \A q \in UsableOn(board) : FirstOn(board) <= board[q].at
    BY <1>2, <1>5, <2>3, FirstIs
  <2>5. /\ FirstOn(board') \in 0 .. Deadline
        /\ \E q \in UsableOn(board') : board'[q].at = FirstOn(board')
        /\ \A q \in UsableOn(board') : FirstOn(board') <= board'[q].at
    BY <1>1, <1>2, <1>4, <2>3, FirstIs
  <2>6. FirstOn(board) = board[p].at
    BY <1>5, <2>1, <2>4
  <2>7. FirstOn(board') = board'[p].at
    BY <1>3, <1>4, <2>1, <2>2, <2>5
  <2> QED BY <1>3, <1>4, <1>7, <2>1, <2>3, <2>6, <2>7
<1> QED BY <1>6, <1>7

LEMMA TurnPromises == ASSUME VInv, RaceTurn PROVE Promising'
<1>1. /\ board' \in [Profiles -> [is : Marks, at : Nat]]
      /\ \A p \in Profiles :
            \/ board'[p] = board[p]
            \/ board[p].is = "pending" /\ board'[p].is \in {"usable", "unusable", "out"}
      /\ \A p \in Profiles : stage[<<race, p>>] \in AtWork => board'[p] = board[p]
      /\ decision' \in DecideOn(board', elapsed)
      /\ racing = "running" /\ racing' = IF decision' = "pending" THEN "running" ELSE "joining"
      /\ queue' = {} /\ UNCHANGED <<race, asked, elapsed, stage>>
  BY TurnHears DEF probeVars
<1>2. RaceTyped /\ Heard /\ Timely
  BY DEF VInv, Promising
<1>3. RaceTyped' /\ AtRest'
  BY <1>1, <1>2 DEF RaceTyped, AtRest
<1>4. Heard'
  BY <1>1, <1>2 DEF Heard
<1>5. Timely'
  BY <1>1, <1>2 DEF Timely
<1>6. Dated'
  BY <1>1, TurnKeepsFirst DEF Dated
<1> QED BY <1>3, <1>4, <1>5, <1>6 DEF Promising

\* Time passes only before the deadline, and while nothing keeps a winner.
LEMMA TimeIsLeft ==
    ASSUME VInv, RaceTime
    PROVE  /\ elapsed < Deadline
           /\ UsableOn(board) # {} => elapsed - FirstOn(board) < Grace
<1>1. /\ "pending" \in DecideOn(board, elapsed) /\ elapsed \in Nat /\ Dated /\ elapsed <= Deadline
      /\ board \in [Profiles -> [is : Marks, at : Nat]] /\ Deadline \in Nat /\ Grace \in Nat
  BY RaceAssumption DEF VInv, Promising, Timely, RaceTyped, RaceTime
<1>2. elapsed < Deadline
  BY <1>1, DecideMeans
<1>3. ASSUME UsableOn(board) # {} PROVE elapsed - FirstOn(board) < Grace
  <2>1. PICK p \in BestOn(board) : HeldBack(board, p, elapsed)
    BY <1>1, <1>3, DecideMeans
  <2>2. /\ \A q \in UsableOn(board) : board[p].at <= board[q].at
        /\ p \in UsableOn(board) /\ elapsed < board[p].at + Grace
    BY <2>1, SecondTierIsFirst DEF HeldBack, BestOn
  <2>3. \A q \in UsableOn(board) : board[q].at \in Nat /\ board[q].at <= Deadline
    BY <1>1 DEF Dated, UsableOn
  <2>4. /\ FirstOn(board) \in 0 .. Deadline
        /\ \E q \in UsableOn(board) : board[q].at = FirstOn(board)
    BY <1>1, <1>3, <2>3, FirstIs DEF Dated
  <2>5. board[p].at <= FirstOn(board)
    BY <2>2, <2>4
  <2> QED BY <1>1, <2>2, <2>3, <2>4, <2>5
<1> QED BY <1>2, <1>3

\* A probe changes its own stage and may report: no one waits for it then.
LEMMA ProbePromises ==
    ASSUME VInv, NEW x \in Probes,
           \/ ProbeBegins(x) \/ ProbeCannotBegin(x) \/ CoreReady(x) \/ CoreNotReady(x)
           \/ ProbeFails(x) \/ ProbeReports(x) \/ CoreStopped(x) \/ ProbeDies(x)
    PROVE  Promising' /\ UNCHANGED loopVars
<1>1. /\ UNCHANGED loopVars
      /\ \E to \in Stages :
            /\ stage' = [stage EXCEPT ![x] = to]
            /\ to \in AtWork => stage[x] \in AtWork
            /\ \/ queue' = queue
               \/ stage[x] \in AtWork /\ to \notin AtWork
                  /\ \E is \in {"usable", "unusable"} : Reports(x, is)
  <2>1. \A m \in Measurements : Judge(m) \in {"usable", "unusable"}
    BY DEF Judge
  <2>2. CASE ProbeBegins(x)
    BY <2>2 DEF ProbeBegins, Moves, AtWork, Stages
  <2>3. CASE ProbeCannotBegin(x)
    BY <2>3 DEF ProbeCannotBegin, Moves, AtWork, Stages
  <2>4. CASE CoreReady(x)
    BY <2>4 DEF CoreReady, Moves, AtWork, Stages
  <2>5. CASE CoreNotReady(x)
    BY <2>5 DEF CoreNotReady, Moves, AtWork, Stages
  <2>6. CASE ProbeFails(x)
    BY <2>6 DEF ProbeFails, Moves, AtWork, Stages
  <2>7. CASE ProbeReports(x)
    BY <2>1, <2>7 DEF ProbeReports, Moves, AtWork, Stages
  <2>8. CASE CoreStopped(x)
    BY <2>8 DEF CoreStopped, Moves, AtWork, Stages
  <2>9. CASE ProbeDies(x)
    BY <2>9 DEF ProbeDies, Moves, AtWork, Stages
  <2> QED BY <2>2, <2>3, <2>4, <2>5, <2>6, <2>7, <2>8, <2>9
<1>2. PICK to \in Stages :
        /\ stage' = [stage EXCEPT ![x] = to]
        /\ to \in AtWork => stage[x] \in AtWork
        /\ \/ queue' = queue
           \/ stage[x] \in AtWork /\ to \notin AtWork
              /\ \E is \in {"usable", "unusable"} : Reports(x, is)
  BY <1>1
<1>3. /\ UNCHANGED <<racing, race, asked, elapsed, due, board, decision, given>>
      /\ RaceTyped /\ AtRest /\ Heard /\ Timely /\ Dated
  BY <1>1 DEF loopVars, VInv, Promising
<1>4. RaceTyped' /\ AtRest' /\ Timely' /\ Dated'
  BY <1>3 DEF RaceTyped, AtRest, Timely, Dated
<1>5. /\ stage'[x] = to /\ \A y \in Probes : y # x => stage'[y] = stage[y]
      /\ \A y \in Probes : stage'[y] \in AtWork => stage[y] \in AtWork
  BY <1>2 DEF VInv, LInv, StagesTyped
<1>6. racing = "running" => \A p \in Profiles : <<race, p>> \in Probes
  BY ProbesAre DEF VInv, LInv, NotBegun
<1>7. ASSUME NEW m \in queue'
      PROVE  /\ m.profile \in Profiles /\ m.is \in {"usable", "unusable"} /\ m.at = elapsed
             /\ racing = "running" /\ board[m.profile].is = "pending"
             /\ stage'[<<race, m.profile>>] \notin AtWork
  <2>1. CASE m \in queue
    BY <1>3, <1>5, <1>6, <2>1 DEF Heard
  <2>2. CASE m \notin queue
    <3>1. PICK is \in {"usable", "unusable"} : Reports(x, is)
      BY <1>2, <1>7, <2>2
    <3>2. /\ x[1] = race /\ racing = "running" /\ m = [profile |-> x[2], is |-> is, at |-> elapsed]
          /\ stage[x] \in AtWork /\ to \notin AtWork
      BY <1>2, <1>7, <2>2, <3>1 DEF Reports
    <3>3. x = <<race, x[2]>> /\ x[2] \in Profiles
      BY <3>2, ProbesAre
    <3>4. board[x[2]].is = "pending"
      BY <1>3, <3>2, <3>3 DEF Heard
    <3> QED BY <1>5, <3>2, <3>3, <3>4
  <2> QED BY <2>1, <2>2
<1>8. Heard'
  BY <1>3, <1>5, <1>6, <1>7 DEF Heard
<1> QED BY <1>1, <1>4, <1>8 DEF Promising

LEMMA BeginPromises ==
    ASSUME VInv, BeginRace
    PROVE  /\ Promising' /\ UNCHANGED <<asked, elapsed, given>>
           /\ racing = "preparing" /\ racing' = "running"
           /\ PendingOn(board') \subseteq asked /\ UsableOn(board') = {}
<1>1. PICK jobs \in SUBSET asked :
        /\ racing = "preparing"
        /\ racing' = "running" /\ due' = TRUE
        /\ stage' = [x \in Probes |-> IF x[1] = race /\ x[2] \in jobs THEN "new" ELSE stage[x]]
        /\ board' = [p \in Profiles |-> IF p \in jobs THEN [is |-> "pending", at |-> 0] ELSE Unraced[p]]
        /\ UNCHANGED <<race, asked, elapsed, queue, given>>
  BY DEF BeginRace
<1>2. /\ RaceTyped /\ Heard /\ Timely /\ AtRest
      /\ \A p \in Profiles : stage[<<race, p>>] \in Untouched /\ <<race, p>> \in Probes
  BY <1>1, ProbesAre DEF VInv, LInv, NotBegun, Promising
<1>3. queue = {}
  BY <1>1, <1>2 DEF Heard
<1>4. \A p \in Profiles :
        /\ board'[p] \in [is : Marks, at : Nat]
        /\ p \in jobs => board'[p].is = "pending"
        /\ p \notin jobs => board'[p].is = "out"
  BY <1>1 DEF Marks, Unraced
<1>5. board' \in [Profiles -> [is : Marks, at : Nat]]
  BY <1>1, <1>4
<1>6. PendingOn(board') \subseteq asked /\ UsableOn(board') = {}
  BY <1>4 DEF PendingOn, UsableOn
<1>7. RaceTyped' /\ AtRest' /\ Dated'
  BY <1>1, <1>2, <1>5, <1>6 DEF RaceTyped, AtRest, Dated
<1>8. \A p \in Profiles : stage'[<<race, p>>] \in AtWork => p \in jobs
  BY <1>1, <1>2, ProbesAre DEF Untouched, AtWork
<1>9. Heard'
  BY <1>1, <1>3, <1>4, <1>8 DEF Heard
<1>10. Timely'
  BY <1>1, <1>2 DEF Timely
<1> QED BY <1>1, <1>6, <1>7, <1>9, <1>10 DEF Promising

LEMMA AskPromises ==
    ASSUME VInv, NEW ps \in SUBSET Profiles \ {{}}, AskRace(ps)
    PROVE  /\ Promising' /\ racing = "none" /\ racing' = "preparing" /\ asked' = ps
           /\ given' = <<>> /\ board' = Unraced /\ elapsed' = 0
<1>1. /\ racing = "none" /\ racing' = "preparing" /\ asked' = ps /\ given' = <<>>
      /\ UNCHANGED <<elapsed, due, board, queue, stage>>
  BY DEF AskRace, probeVars
<1>2. RaceTyped /\ Heard /\ Timely /\ AtRest
  BY DEF VInv, Promising
<1>3. queue = {} /\ board = Unraced /\ elapsed = 0
  BY <1>1, <1>2 DEF Heard, AtRest
<1>4. RaceTyped' /\ AtRest'
  BY <1>1, <1>2, <1>3 DEF RaceTyped, AtRest
<1>5. \A p \in Profiles : Unraced[p].is = "out"
  BY DEF Unraced
<1>6. Heard'
  BY <1>1, <1>3, <1>5 DEF Heard
<1>7. Timely' /\ Dated'
  BY <1>1, <1>2, <1>3, NothingUsable DEF Timely, Dated
<1> QED BY <1>1, <1>3, <1>4, <1>6, <1>7 DEF Promising

LEMMA TimePromises == ASSUME VInv, RaceTime PROVE Promising'
<1>1. /\ racing = "running" /\ queue = {} /\ elapsed' = elapsed + 1 /\ due' = TRUE
      /\ UNCHANGED <<racing, race, asked, board, decision, queue, stage>>
  BY DEF RaceTime, probeVars
<1>2. RaceTyped /\ Heard /\ Dated /\ elapsed < Deadline /\ elapsed \in Nat
  BY TimeIsLeft DEF VInv, Promising, RaceTyped
<1>3. RaceTyped' /\ AtRest' /\ Heard'
  BY <1>1, <1>2 DEF RaceTyped, AtRest, Heard
<1>4. elapsed' <= Deadline
  BY <1>1, <1>2, RaceAssumption
<1>5. Timely'
  BY <1>1, <1>4 DEF Timely
<1>6. \A p \in UsableOn(board) : board[p].at <= elapsed + 1
  BY <1>2 DEF Dated, RaceTyped, UsableOn
<1>7. Dated'
  BY <1>1, <1>2, <1>6 DEF Dated
<1> QED BY <1>3, <1>5, <1>7 DEF Promising

LEMMA SweepPromises == ASSUME VInv, SweepStale PROVE Promising' /\ UNCHANGED loopVars
<1>1. UNCHANGED <<loopVars, queue, stage>>
  BY DEF SweepStale
<1> QED BY <1>1 DEF loopVars, VInv, Promising, RaceTyped, AtRest, Heard, Timely, Dated

LEMMA VNext == VInv /\ [RaceNext]_raceVars => VInv'
<1> SUFFICES ASSUME VInv, [RaceNext]_raceVars PROVE Promising'
  BY LNext DEF VInv
<1>1. CASE RefuseRace \/ RaceReturns \/ CallOffRace \/ RaceServiceDies
  BY <1>1, EndsAtRest DEF RefuseRace, RaceReturns, CallOffRace, RaceServiceDies
<1>2. CASE UNCHANGED raceVars
  BY <1>2 DEF raceVars, loopVars, probeVars, VInv, Promising, RaceTyped, AtRest, Heard, Timely, Dated
<1> QED BY <1>1, <1>2, AskPromises, BeginPromises, TurnPromises, TimePromises, SweepPromises,
           ProbePromises DEF RaceNext

-----------------------------------------------------------------------------
(* A race of profiles implements PromisedRace.                             *)

SinceFirst == IF UsableOn(board) = {} THEN 0 ELSE elapsed - FirstOn(board)

\* What the refinement mapping looks at.
LEMMA MappedIs == FirstUsableAt = FirstOn(board) /\ FirstUsableAt' = FirstOn(board')
  BY DEF FirstUsableAt, FirstOn

LEMMA MappedInit == RaceInit => Promise!PromisedInit
  BY NothingUsable, MappedIs DEF RaceInit, Promise!PromisedInit

\* The race's future ends: the promised race closes, or was not open.
LEMMA EndsClose ==
    ASSUME VInv, FutureEnds
    PROVE  /\ racing # "none" => Promise!Close
           /\ racing = "none" /\ given' = given => UNCHANGED Promise!promisedVars
<1>1. /\ racing' = "none" /\ asked' = {} /\ elapsed' = 0 /\ board' = Unraced
      /\ UsableOn(board') = {} /\ PendingOn(board') = {}
  BY NothingUsable DEF FutureEnds
<1>2. racing = "none" => asked = {} /\ elapsed = 0 /\ board = Unraced
  BY DEF VInv, Promising, AtRest
<1>3. racing # "none" => Promise!Close
  BY <1>1 DEF Promise!Close
<1>4. racing = "none" /\ given' = given => UNCHANGED Promise!promisedVars
  BY <1>1, <1>2, NothingUsable DEF Promise!promisedVars
<1> QED BY <1>3, <1>4

LEMMA AskIsBegin ==
    ASSUME VInv, NEW ps \in SUBSET Profiles \ {{}}, AskRace(ps) PROVE Promise!Begin(ps)
<1>1. /\ racing = "none" /\ racing' = "preparing" /\ asked' = ps
      /\ given' = <<>> /\ board' = Unraced /\ elapsed' = 0 /\ UsableOn(board') = {}
  BY AskPromises, NothingUsable
<1> QED BY <1>1 DEF Promise!Begin

LEMMA RefuseIsRefuse == ASSUME VInv, RefuseRace PROVE Promise!Refuse
<1>1. FutureEnds /\ racing = "preparing" /\ given' = <<Report(NoProfile, Unraced)>>
  BY DEF RefuseRace
<1>2. UsableOn(board) = {} /\ elapsed = 0 /\ Promise!Close
  BY <1>1, EndsClose, NothingUsable DEF VInv, Promising, AtRest
<1>3. Report(NoProfile, Unraced) = [kind |-> "RaceFinished", winner |-> NoProfile,
                                    results |-> [p \in Profiles |-> "silent"]]
  BY DEF Report, Unraced
<1> QED BY <1>1, <1>2, <1>3 DEF Promise!Refuse

LEMMA BeginIsHear == ASSUME VInv, BeginRace PROVE Promise!Hear
<1>1. /\ UNCHANGED <<asked, elapsed, given>> /\ racing = "preparing" /\ racing' = "running"
      /\ PendingOn(board') \subseteq asked /\ UsableOn(board') = {}
  BY BeginPromises
<1>2. UsableOn(board) = {}
  BY <1>1, NothingUsable DEF VInv, Promising, AtRest
<1> QED BY <1>1, <1>2 DEF Promise!Hear

LEMMA TurnIsHear == ASSUME VInv, RaceTurn PROVE Promise!Hear
<1>1. /\ racing = "running" /\ racing' \in {"running", "joining"}
      /\ UNCHANGED <<asked, elapsed, given>>
  BY TurnHears
<1>2. /\ UsableOn(board) \subseteq UsableOn(board') /\ PendingOn(board') \subseteq PendingOn(board)
      /\ UsableOn(board) # {} => FirstOn(board') = FirstOn(board)
      /\ UsableOn(board) = {} /\ UsableOn(board') # {} => FirstOn(board') = elapsed
  BY TurnKeepsFirst
<1>3. elapsed \in Nat
  BY DEF VInv, Promising, RaceTyped
<1>4. SinceFirst' = SinceFirst
  BY <1>1, <1>2, <1>3 DEF SinceFirst
<1> QED BY <1>1, <1>2, <1>4, MappedIs DEF Promise!Hear, SinceFirst

LEMMA TimeIsWait == ASSUME VInv, RaceTime PROVE Promise!Wait
<1>1. /\ racing = "running" /\ elapsed' = elapsed + 1
      /\ UNCHANGED <<racing, asked, board, given>>
  BY DEF RaceTime
<1>2. elapsed < Deadline /\ (UsableOn(board) # {} => elapsed - FirstOn(board) < Grace)
  BY TimeIsLeft
<1>3. UsableOn(board) # {} => FirstOn(board) \in Nat
  <2>1. \A p \in UsableOn(board) : board[p].at <= Deadline
    BY RaceAssumption DEF VInv, Promising, RaceTyped, Timely, Dated, UsableOn
  <2> QED BY <2>1, FirstIs DEF VInv, Promising, RaceTyped, Dated
<1>4. elapsed \in Nat
  BY DEF VInv, Promising, RaceTyped
<1>5. SinceFirst' = IF UsableOn(board) # {} THEN SinceFirst + 1 ELSE 0
  BY <1>1, <1>3, <1>4 DEF SinceFirst
<1> QED BY <1>1, <1>2, <1>5, MappedIs DEF Promise!Wait, SinceFirst

\* The report that is given is one the rule allows: of a profile that was asked
\* about, and none too early.
LEMMA ReturnIsAnswer == ASSUME VInv, RaceReturns PROVE Promise!Answer
<1> DEFINE in == Report(decision, board)
<1>1. FutureEnds /\ racing = "joining" /\ given' = <<in>>
  BY DEF RaceReturns
<1>2. Promise!Close
  BY <1>1, EndsClose
<1>3. /\ decision \in DecideOn(board, elapsed) /\ decision # "pending"
      /\ board \in [Profiles -> [is : Marks, at : Nat]] /\ asked \subseteq Profiles
      /\ elapsed \in Nat /\ Dated /\ elapsed <= Deadline /\ Deadline \in Nat /\ Grace \in Nat
      /\ \A p \in Profiles : board[p].is # "out" => p \in asked
      /\ NoProfile \notin Profiles
  BY <1>1, RaceAssumption DEF VInv, Promising, RaceTyped, Timely, Heard
<1>4. decision \in Profiles \cup {NoProfile}
  BY <1>3, DecideMeans
<1>5. /\ in.kind = "RaceFinished" /\ in.winner = decision
      /\ in.results = [p \in Profiles |-> IF board[p].is \in {"usable", "unusable"} THEN board[p].is ELSE "silent"]
      /\ in = [kind |-> in.kind, winner |-> in.winner, results |-> in.results]
  BY DEF Report
<1> HIDE DEF in
<1>6. /\ in.results \in Results
      /\ \A p \in Profiles : in.results[p] = "usable" <=> p \in UsableOn(board)
      /\ \A p \in Profiles \ asked : in.results[p] = "silent"
  BY <1>3, <1>5 DEF Results, UsableOn
<1>7. CASE decision = NoProfile
  <2>1. UsableOn(board) = {} /\ (PendingOn(board) = {} \/ elapsed >= Deadline)
    BY <1>3, <1>7, DecideMeans
  <2>2. in \in [kind: {"RaceFinished"}, winner: asked \cup {NoProfile}, results: Results]
    BY <1>5, <1>6, <1>7
  <2>3. in \in Outcomes(asked)
    BY <1>3, <1>5, <1>6, <1>7, <2>1, <2>2 DEF Outcomes
  <2> QED BY <1>1, <1>2, <1>5, <1>7, <2>1, <2>3 DEF Promise!Answer, Promise!Outcomes, Outcomes,
          Promise!Results, Results
<1>8. CASE decision # NoProfile
  <2>1. decision \in BestOn(board) /\ ~HeldBack(board, decision, elapsed) /\ decision \in Profiles
    BY <1>3, <1>4, <1>8, DecideMeans
  <2>2. /\ decision \in UsableOn(board) /\ decision \in asked
        /\ \A q \in UsableOn(board) : Tier[decision] <= Tier[q]
    BY <1>3, <2>1, RaceAssumption DEF BestOn, UsableOn
  <2>3. in \in [kind: {"RaceFinished"}, winner: asked \cup {NoProfile}, results: Results]
    BY <1>5, <1>6, <2>2
  <2>4. in \in Outcomes(asked)
    BY <1>3, <1>5, <1>6, <1>8, <2>1, <2>2, <2>3 DEF Outcomes
  <2>5. Tier[decision] = 1 \/ SinceFirst >= Grace \/ elapsed >= Deadline
        \/ \A p \in PendingOn(board) : Tier[p] # 1
    <3> SUFFICES ASSUME Tier[decision] # 1, ~(elapsed >= Deadline),
                        ~\A p \in PendingOn(board) : Tier[p] # 1
                 PROVE  SinceFirst >= Grace
      OBVIOUS
    <3>1. Tier[decision] = 2
      BY <2>1, RaceAssumption
    <3>2. ~(elapsed < board[decision].at + Grace)
      BY <1>3, <2>1, <3>1 DEF HeldBack
    <3>3. \A q \in UsableOn(board) : board[decision].at <= board[q].at
      BY <2>1, <3>1, SecondTierIsFirst
    <3>4. \A q \in UsableOn(board) : board[q].at \in Nat /\ board[q].at <= Deadline
      BY <1>3 DEF Dated, UsableOn
    <3>5. FirstOn(board) \in 0 .. Deadline /\ FirstOn(board) <= board[decision].at
      BY <1>3, <2>2, <3>4, FirstIs DEF Dated
    <3> QED BY <1>3, <2>2, <3>2, <3>4, <3>5 DEF SinceFirst
  <2> QED BY <1>1, <1>2, <1>5, <1>8, <2>2, <2>4, <2>5, MappedIs
      DEF Promise!Answer, Promise!Outcomes, Outcomes, Promise!Results, Results, Promise!Overdue, SinceFirst
<1> QED BY <1>7, <1>8

\* Every step of a race is one of the promised race, or none.
LEMMA RaceSimulates ==
    VInv /\ [RaceNext]_raceVars => [Promise!PromisedNext]_(Promise!promisedVars)
<1> SUFFICES ASSUME VInv, [RaceNext]_raceVars
             PROVE  Promise!PromisedNext \/ UNCHANGED Promise!promisedVars
  OBVIOUS
<1>1. ASSUME UNCHANGED loopVars PROVE UNCHANGED Promise!promisedVars
  BY <1>1, MappedIs DEF loopVars, Promise!promisedVars
<1>2. CASE UNCHANGED raceVars
  BY <1>1, <1>2 DEF raceVars
<1>3. CASE RaceServiceDies \/ CallOffRace
  <2>1. FutureEnds /\ given' = given
    BY <1>3 DEF RaceServiceDies, CallOffRace
  <2>2. racing # "none" => Promise!CallOff
    BY <2>1, EndsClose DEF Promise!CallOff
  <2> QED BY <2>1, <2>2, EndsClose DEF Promise!PromisedNext
<1>4. ASSUME NEW ps \in SUBSET Profiles \ {{}}, AskRace(ps) PROVE Promise!PromisedNext
  BY <1>4, AskIsBegin DEF Promise!PromisedNext
<1>5. CASE BeginRace \/ RaceTurn \/ RaceTime \/ RaceReturns \/ RefuseRace
  BY <1>5, BeginIsHear, TurnIsHear, TimeIsWait, ReturnIsAnswer, RefuseIsRefuse
     DEF Promise!PromisedNext
<1>6. CASE SweepStale
  BY <1>1, <1>6, SweepPromises
<1>7. ASSUME NEW x \in Probes,
             \/ ProbeBegins(x) \/ ProbeCannotBegin(x) \/ CoreReady(x) \/ CoreNotReady(x)
             \/ ProbeFails(x) \/ ProbeReports(x) \/ CoreStopped(x) \/ ProbeDies(x)
      PROVE  UNCHANGED Promise!promisedVars
  BY <1>1, <1>7, ProbePromises
<1> QED BY <1>2, <1>3, <1>4, <1>5, <1>6, <1>7 DEF RaceNext

\* For any profiles, times and limits: however probes report, die or hang and
\* whenever the loop wakes, a race is one that PromisedRace allows (probe.rs,
\* "Winner rule"; race.rs).
THEOREM RaceKeepsItsPromise == RaceSpec => PromisedOutcome
<1>1. RaceInit => VInv
  BY LeavesInit, PromiseInit DEF VInv
<1> QED BY <1>1, VNext, MappedInit, RaceSimulates, PTL DEF RaceSpec, PromisedOutcome, Promise!PromisedSpec

-----------------------------------------------------------------------------
(* What the person is told of a poor path.                                 *)

Reporters ==
    [carrying : Carriers \cup {Nobody}, poor : Unset .. PoorFor, good : Unset .. RecoverFor,
     reported : {Silence} \cup Degradations]

\* The last n + 1 looks of a record, counted from its end.
StayedIn(s, path, n, bands) ==
    /\ Len(s) > n
    /\ \A k \in 0 .. n : s[Len(s) - k].carrying = path /\ s[Len(s) - k].band \notin bands

\* A clock that runs has the looks behind it; and what stands is what was
\* reported last.
TInv ==
    /\ reporter \in Reporters /\ standing \in BOOLEAN
    /\ seen \in Seq(Looks) /\ Len(seen) <= LongestWait + 1
    /\ standing <=> reporter.reported # Silence
    /\ reporter.carrying = Nobody => reporter.poor = Unset /\ reporter.good = Unset
    /\ reporter.poor # Unset => StayedIn(seen, reporter.carrying, reporter.poor, {"good"})
    /\ reporter.good # Unset => StayedIn(seen, reporter.carrying, reporter.good, {"poor", "unusable"})

LEMMA StayedIs ==
    ASSUME NEW s \in Seq(Looks), NEW path, NEW n \in Nat, NEW bands, StayedIn(s, path, n, bands)
    PROVE  /\ Len(s) > n
           /\ \A i \in Len(s) - n .. Len(s) : s[i].carrying = path /\ s[i].band \notin bands
<1>1. Len(s) \in Nat /\ Len(s) > n
  BY DEF StayedIn
<1>2. ASSUME NEW i \in Len(s) - n .. Len(s) PROVE s[i].carrying = path /\ s[i].band \notin bands
  <2>1. Len(s) - i \in 0 .. n /\ Len(s) - (Len(s) - i) = i
    BY <1>1
  <2> QED BY <2>1 DEF StayedIn
<1> QED BY <1>1, <1>2

\* The record, counted from its end: the new look, and before it the old ones.
LEMMA Remembered ==
    ASSUME NEW look \in Looks, seen \in Seq(Looks), Len(seen) <= LongestWait + 1
    PROVE  /\ Remembering(look) \in Seq(Looks) /\ Len(Remembering(look)) <= LongestWait + 1
           /\ Len(Remembering(look)) > 0
           /\ Len(Remembering(look)) = IF Len(seen) = LongestWait + 1 THEN Len(seen) ELSE Len(seen) + 1
           /\ Remembering(look)[Len(Remembering(look))] = look
           /\ \A k \in 1 .. Len(Remembering(look)) - 1 :
                 Remembering(look)[Len(Remembering(look)) - k] = seen[Len(seen) - (k - 1)]
<1> DEFINE all == Append(seen, look)
<1>1. LongestWait \in Nat /\ Len(seen) \in Nat
  BY ReportAssumption DEF LongestWait
<1>2. /\ all \in Seq(Looks) /\ Len(all) = Len(seen) + 1 /\ all[Len(seen) + 1] = look
      /\ \A i \in 1 .. Len(seen) : all[i] = seen[i]
  BY <1>1
<1>3. Remembering(look) = IF Len(all) > LongestWait + 1 THEN Tail(all) ELSE all
  BY DEF Remembering
<1> HIDE DEF all
<1>4. CASE Len(seen) = LongestWait + 1
  <2>1. /\ Remembering(look) = Tail(all) /\ Tail(all) \in Seq(Looks) /\ Len(Tail(all)) = Len(seen)
        /\ \A i \in 1 .. Len(seen) : Tail(all)[i] = all[i + 1]
    BY <1>1, <1>2, <1>3, <1>4
  <2>2. \A k \in 1 .. Len(seen) - 1 : /\ Len(seen) - k \in 1 .. Len(seen)
                                      /\ Len(seen) - k + 1 \in 1 .. Len(seen)
                                      /\ Len(seen) - k + 1 = Len(seen) - (k - 1)
    BY <1>1
  <2>3. Len(seen) \in 1 .. Len(seen)
    BY <1>1, <1>4
  <2> QED BY <1>1, <1>2, <1>4, <2>1, <2>2, <2>3
<1>5. CASE Len(seen) # LongestWait + 1
  <2>1. Remembering(look) = all /\ Len(seen) + 1 <= LongestWait + 1
    BY <1>1, <1>2, <1>3, <1>5
  <2>2. \A k \in 1 .. Len(seen) : /\ Len(seen) + 1 - k \in 1 .. Len(seen)
                                  /\ Len(seen) + 1 - k = Len(seen) - (k - 1)
    BY <1>1
  <2> QED BY <1>1, <1>2, <1>5, <2>1, <2>2
<1> QED BY <1>4, <1>5

\* A stay goes on with one more look of the same path that shows no such band.
LEMMA StayGoesOn ==
    ASSUME NEW look \in Looks, seen \in Seq(Looks), Len(seen) <= LongestWait + 1,
           NEW bands, look.band \notin bands
    PROVE  /\ StayedIn(Remembering(look), look.carrying, 0, bands)
           /\ \A n \in Nat, m \in Nat :
                 m \in {n, n + 1} /\ m <= LongestWait /\ StayedIn(seen, look.carrying, n, bands)
                 => StayedIn(Remembering(look), look.carrying, m, bands)
<1> DEFINE s == Remembering(look)
<1>1. LongestWait \in Nat /\ Len(seen) \in Nat
  BY ReportAssumption DEF LongestWait
<1>2. /\ s \in Seq(Looks) /\ Len(s) > 0 /\ s[Len(s)] = look
      /\ Len(s) = IF Len(seen) = LongestWait + 1 THEN Len(seen) ELSE Len(seen) + 1
      /\ \A k \in 1 .. Len(s) - 1 : s[Len(s) - k] = seen[Len(seen) - (k - 1)]
  BY Remembered
<1> HIDE DEF s
<1>3. StayedIn(s, look.carrying, 0, bands)
  <2>1. \A k \in 0 .. 0 : k = 0 /\ Len(s) - k = Len(s)
    BY <1>2
  <2> QED BY <1>2, <2>1 DEF StayedIn
<1>4. ASSUME NEW n \in Nat, NEW m \in Nat, m \in {n, n + 1}, m <= LongestWait,
             StayedIn(seen, look.carrying, n, bands)
      PROVE  StayedIn(s, look.carrying, m, bands)
  <2>1. Len(seen) > n /\ Len(s) > m
    BY <1>1, <1>2, <1>4 DEF StayedIn
  <2>2. ASSUME NEW k \in 0 .. m
        PROVE  s[Len(s) - k].carrying = look.carrying /\ s[Len(s) - k].band \notin bands
    <3>1. CASE k = 0
      BY <1>2, <3>1
    <3>2. CASE k # 0
      <4>1. k \in 1 .. Len(s) - 1 /\ k - 1 \in 0 .. n
        BY <1>1, <1>2, <1>4, <2>1, <3>2
      <4>2. s[Len(s) - k] = seen[Len(seen) - (k - 1)]
        BY <1>2, <4>1
      <4> QED BY <1>4, <4>1, <4>2 DEF StayedIn
    <3> QED BY <3>1, <3>2
  <2> QED BY <2>1, <2>2 DEF StayedIn
<1> QED BY <1>3, <1>4 DEF s

\* The reporter follows the carrying path: a clock that runs on has one more
\* look behind it, when that look shows nothing against it.
LEMMA ClocksAre ==
    ASSUME TInv, NEW look \in Looks
    PROVE  LET r == Clocks(Aged(reporter), look) IN
           /\ r \in Reporters /\ r.carrying = look.carrying /\ r.reported = reporter.reported
           /\ look.carrying = Nobody => r.poor = Unset /\ r.good = Unset
           /\ r.poor # Unset /\ look.band # "good" =>
                 StayedIn(Remembering(look), look.carrying, r.poor, {"good"})
           /\ r.good # Unset /\ look.band \notin {"poor", "unusable"} =>
                 StayedIn(Remembering(look), look.carrying, r.good, {"poor", "unusable"})
<1> DEFINE a == Aged(reporter)
           r == Clocks(a, look)
<1>1. /\ reporter \in Reporters /\ PoorFor \in Nat /\ RecoverFor \in Nat /\ LongestWait \in Nat
      /\ PoorFor <= LongestWait /\ RecoverFor <= LongestWait
      /\ seen \in Seq(Looks) /\ Len(seen) <= LongestWait + 1
      /\ look.carrying \in Carriers \cup {Nobody}
  BY ReportAssumption DEF TInv, LongestWait, Looks
<1>2. /\ reporter.poor \in Unset .. PoorFor /\ reporter.good \in Unset .. RecoverFor
      /\ reporter.carrying \in Carriers \cup {Nobody} /\ reporter.reported \in {Silence} \cup Degradations
  BY <1>1 DEF Reporters
<1> DEFINE P == IF reporter.poor \in {Unset, PoorFor} THEN reporter.poor ELSE reporter.poor + 1
           G == IF reporter.good \in {Unset, RecoverFor} THEN reporter.good ELSE reporter.good + 1
<1>3. a = [reporter EXCEPT !.poor = P, !.good = G]
  BY DEF Aged
<1>4. P \in Unset .. PoorFor /\ G \in Unset .. RecoverFor
  BY <1>1, <1>2 DEF Unset
<1>5. /\ P # Unset => reporter.poor # Unset /\ P \in {reporter.poor, reporter.poor + 1}
                      /\ P \in Nat /\ reporter.poor \in Nat /\ P <= LongestWait
      /\ G # Unset => reporter.good # Unset /\ G \in {reporter.good, reporter.good + 1}
                      /\ G \in Nat /\ reporter.good \in Nat /\ G <= LongestWait
  BY <1>1, <1>2, <1>4 DEF Unset
<1> HIDE DEF a, P, G
<1>6. /\ a \in Reporters /\ a.poor = P /\ a.good = G
      /\ a.carrying = reporter.carrying /\ a.reported = reporter.reported
  BY <1>1, <1>3, <1>4 DEF Reporters
<1>7. CASE look.carrying = reporter.carrying
  <2>1. r = a
    BY <1>6, <1>7 DEF Clocks
  <2>2. a.poor # Unset /\ look.band # "good" =>
           StayedIn(Remembering(look), look.carrying, a.poor, {"good"})
    BY <1>1, <1>5, <1>6, <1>7, StayGoesOn DEF TInv
  <2>3. a.good # Unset /\ look.band \notin {"poor", "unusable"} =>
           StayedIn(Remembering(look), look.carrying, a.good, {"poor", "unusable"})
    BY <1>1, <1>5, <1>6, <1>7, StayGoesOn DEF TInv
  <2>4. look.carrying = Nobody => a.poor = Unset /\ a.good = Unset
    BY <1>5, <1>6, <1>7 DEF TInv
  <2> QED BY <1>6, <1>7, <2>1, <2>2, <2>3, <2>4 DEF a
<1>8. CASE look.carrying # reporter.carrying
  <2>1. r = [a EXCEPT !.carrying = look.carrying, !.poor = Unset, !.good = Unset]
    BY <1>6, <1>8 DEF Clocks
  <2>2. Unset \in Unset .. PoorFor /\ Unset \in Unset .. RecoverFor
    BY <1>1 DEF Unset
  <2>3. /\ r \in Reporters /\ r.carrying = look.carrying /\ r.reported = reporter.reported
        /\ r.poor = Unset /\ r.good = Unset
    BY <1>1, <1>6, <2>1, <2>2 DEF Reporters
  <2> QED BY <2>3 DEF a
<1> QED BY <1>7, <1>8

LEMMA SilenceIs ==
    /\ Silence.is = "silence"
    /\ \A d \in Degradations : d # Silence
<1>1. \A d \in Degradations : "path" \in DOMAIN d
  BY DEF Degradations
<1>2. "path" \notin DOMAIN Silence
  BY DEF Silence
<1> QED BY <1>1, <1>2 DEF Silence

\* What one look makes of the reporter, and of what is said.
Told ==
    /\ lastWord'.is = "degraded" => Stayed(lastWord.of.path, PoorFor, {"good"})'
    /\ lastWord'.is = "recovered" =>
          standing /\ Stayed(lastWord.path, RecoverFor, {"poor", "unusable"})'
    /\ standing' <=> reporter'.reported # Silence

LEMMA LookKeeps == ASSUME TInv, NEW look \in Looks, LookAgain(look) PROVE TInv' /\ Told
<1> DEFINE r == Clocks(Aged(reporter), look)
           next == Observed(r, look)
<1>0. /\ reporter' = next[1] /\ lastWord' = next[2] /\ seen' = Remembering(look)
      /\ standing' = CASE next[2].is = "degraded" -> TRUE
                       [] next[2].is = "recovered" \/ look.carrying = Nobody -> FALSE
                       [] OTHER -> standing
  BY Zenon DEF LookAgain
<1> HIDE DEF next
<1>1. /\ reporter' = next[1] /\ lastWord' = next[2] /\ seen' = Remembering(look)
      /\ next[2].is = "degraded" /\ look.carrying # Nobody => standing' = TRUE
      /\ next[2].is = "recovered" => standing' = FALSE
      /\ next[2] = Silence /\ look.carrying = Nobody => standing' = FALSE
      /\ next[2] = Silence /\ look.carrying # Nobody => standing' = standing
  BY <1>0, SilenceIs
<1> USE DEF next
<1>2. /\ r \in Reporters /\ r.carrying = look.carrying /\ r.reported = reporter.reported
      /\ look.carrying = Nobody => r.poor = Unset /\ r.good = Unset
      /\ r.poor # Unset /\ look.band # "good" =>
            StayedIn(seen', look.carrying, r.poor, {"good"})
      /\ r.good # Unset /\ look.band \notin {"poor", "unusable"} =>
            StayedIn(seen', look.carrying, r.good, {"poor", "unusable"})
  BY <1>1, ClocksAre
<1> HIDE DEF r
<1>3. /\ seen \in Seq(Looks) /\ Len(seen) <= LongestWait + 1 /\ standing \in BOOLEAN
      /\ standing <=> r.reported # Silence
      /\ PoorFor \in Nat /\ RecoverFor \in Nat /\ Nobody \notin Carriers
  BY <1>2, ReportAssumption DEF TInv
<1>4. seen' \in Seq(Looks) /\ Len(seen') <= LongestWait + 1
  BY <1>1, <1>3, Remembered
<1>5. /\ look.carrying \in Carriers \cup {Nobody} /\ look.band \in {"unusable", "poor", "good", "unmeasured"}
      /\ look.carrying = Nobody => look.band = "unmeasured"
      /\ look.staying \in Reasons
  BY <1>3 DEF Looks, Bands
<1>6. /\ r.poor \in Unset .. PoorFor /\ r.good \in Unset .. RecoverFor
      /\ r.reported \in {Silence} \cup Degradations
  BY <1>2 DEF Reporters
<1>7. CASE look.band = "unmeasured"
  <2>1. CASE look.carrying = Nobody
    <3>1. next = <<[r EXCEPT !.reported = Silence], Silence>>
      BY <1>7, <2>1 DEF Observed
    <3>2. reporter' = [r EXCEPT !.reported = Silence] /\ lastWord' = Silence /\ standing' = FALSE
      BY <1>1, <2>1, <3>1, SilenceIs
    <3>3. /\ reporter' \in Reporters /\ reporter'.carrying = Nobody /\ reporter'.poor = Unset
          /\ reporter'.good = Unset /\ reporter'.reported = Silence
      BY <1>2, <2>1, <3>2 DEF Reporters
    <3> QED BY <1>4, <3>2, <3>3, SilenceIs DEF TInv, Told
  <2>2. CASE look.carrying # Nobody
    <3>1. next = <<r, Silence>>
      BY <1>7, <2>2 DEF Observed
    <3>2. reporter' = r /\ lastWord' = Silence /\ standing' = standing
      BY <1>1, <2>2, <3>1, SilenceIs
    <3> QED BY <1>2, <1>3, <1>4, <1>7, <2>2, <3>2, SilenceIs DEF TInv, Told
  <2> QED BY <2>1, <2>2
<1>8. CASE look.band = "good"
  <2> DEFINE g == [r EXCEPT !.poor = Unset, !.good = Begun(@)]
  <2>1. /\ g \in Reporters /\ g.carrying = look.carrying /\ g.poor = Unset /\ g.good = Begun(r.good)
        /\ g.reported = r.reported /\ g.good # Unset /\ g.good \in Nat /\ g.good <= RecoverFor
    <3>1. Begun(r.good) \in Unset .. RecoverFor /\ Begun(r.good) # Unset /\ Unset \in Unset .. PoorFor
          /\ Begun(r.good) \in Nat /\ Begun(r.good) <= RecoverFor
      BY <1>3, <1>6 DEF Begun, Unset
    <3> QED BY <1>2, <3>1 DEF Reporters
  <2>2. StayedIn(seen', look.carrying, g.good, {"poor", "unusable"})
    <3>1. CASE r.good = Unset
      BY <1>1, <1>3, <1>8, <2>1, <3>1, StayGoesOn DEF Begun
    <3>2. CASE r.good # Unset
      BY <1>2, <1>8, <2>1, <3>2 DEF Begun
    <3> QED BY <3>1, <3>2
  <2>3. look.carrying # Nobody /\ look.carrying \in Carriers
    BY <1>5, <1>8
  <2>4. next = IF r.reported # Silence /\ g.good >= RecoverFor
               THEN <<[g EXCEPT !.reported = Silence], [is |-> "recovered", path |-> look.carrying]>>
               ELSE <<g, Silence>>
    BY <1>8, <2>3 DEF Observed
  <2> HIDE DEF g
  <2>5. CASE r.reported # Silence /\ g.good >= RecoverFor
    <3>1. /\ reporter' = [g EXCEPT !.reported = Silence]
          /\ lastWord' = [is |-> "recovered", path |-> look.carrying] /\ standing' = FALSE
      BY <1>1, <2>4, <2>5
    <3>2. /\ reporter' \in Reporters /\ reporter'.carrying = look.carrying /\ reporter'.poor = Unset
          /\ reporter'.good = g.good /\ reporter'.reported = Silence
      BY <2>1, <3>1 DEF Reporters
    <3>3. g.good = RecoverFor
      BY <1>3, <2>1, <2>5
    <3>4. Stayed(lastWord.path, RecoverFor, {"poor", "unusable"})'
      <4>1. lastWord'.path = look.carrying
        BY <3>1
      <4>2. /\ Len(seen') > RecoverFor
            /\ \A i \in Len(seen') - RecoverFor .. Len(seen') :
                  seen'[i].carrying = look.carrying /\ seen'[i].band \notin {"poor", "unusable"}
        BY <1>3, <1>4, <2>2, <3>3, StayedIs, Zenon
      <4> QED BY <4>1, <4>2 DEF Stayed
    <3>5. lastWord'.is = "recovered"
      BY <3>1
    <3> QED BY <1>3, <1>4, <2>2, <2>3, <2>5, <3>1, <3>2, <3>4, <3>5 DEF TInv, Told
  <2>6. CASE ~(r.reported # Silence /\ g.good >= RecoverFor)
    <3>1. reporter' = g /\ lastWord' = Silence /\ standing' = standing
      BY <1>1, <2>3, <2>4, <2>6, SilenceIs
    <3> QED BY <1>3, <1>4, <2>1, <2>2, <2>3, <3>1, SilenceIs DEF TInv, Told
  <2> QED BY <2>5, <2>6
<1>9. CASE look.band \in {"poor", "unusable"}
  <2> DEFINE b == [r EXCEPT !.good = Unset, !.poor = Begun(@)]
             report == [path |-> look.carrying, band |-> look.band, staying |-> look.staying]
  <2>1. /\ b \in Reporters /\ b.carrying = look.carrying /\ b.good = Unset /\ b.poor = Begun(r.poor)
        /\ b.reported = r.reported /\ b.poor # Unset /\ b.poor \in Nat /\ b.poor <= PoorFor
    <3>1. Begun(r.poor) \in Unset .. PoorFor /\ Begun(r.poor) # Unset /\ Unset \in Unset .. RecoverFor
          /\ Begun(r.poor) \in Nat /\ Begun(r.poor) <= PoorFor
      BY <1>3, <1>6 DEF Begun, Unset
    <3> QED BY <1>2, <3>1 DEF Reporters
  <2>2. StayedIn(seen', look.carrying, b.poor, {"good"})
    <3>1. CASE r.poor = Unset
      BY <1>1, <1>3, <1>9, <2>1, <3>1, StayGoesOn DEF Begun
    <3>2. CASE r.poor # Unset
      BY <1>2, <1>9, <2>1, <3>2 DEF Begun
    <3> QED BY <3>1, <3>2
  <2>3. look.carrying # Nobody /\ look.carrying \in Carriers
    BY <1>5, <1>9
  <2>4. report \in Degradations /\ report.path = look.carrying
    BY <1>5, <1>9, <2>3 DEF Degradations
  <2>5. next = IF b.poor < PoorFor THEN <<b, Silence>>
               ELSE <<[b EXCEPT !.reported = report],
                      IF News(r.reported, report) THEN [is |-> "degraded", of |-> report]
                      ELSE Silence>>
    BY <1>9, <2>3 DEF Observed
  <2> HIDE DEF b, report
  <2>6. CASE b.poor < PoorFor
    <3>1. reporter' = b /\ lastWord' = Silence /\ standing' = standing
      BY <1>1, <2>3, <2>5, <2>6, SilenceIs
    <3> QED BY <1>3, <1>4, <2>1, <2>2, <2>3, <3>1, SilenceIs DEF TInv, Told
  <2>7. CASE ~(b.poor < PoorFor)
    <3>1. reporter' = [b EXCEPT !.reported = report] /\ b.poor = PoorFor
      BY <1>1, <1>3, <2>1, <2>5, <2>7
    <3>2. /\ reporter' \in Reporters /\ reporter'.carrying = look.carrying /\ reporter'.good = Unset
          /\ reporter'.poor = b.poor /\ reporter'.reported = report /\ report # Silence
      BY <2>1, <2>4, <3>1, SilenceIs DEF Reporters
    <3>3. CASE News(r.reported, report)
      <4>1. lastWord' = [is |-> "degraded", of |-> report] /\ standing' = TRUE
        BY <1>1, <2>3, <2>5, <2>7, <3>3
      <4>2. Stayed(lastWord.of.path, PoorFor, {"good"})'
        <5>1. lastWord'.of.path = look.carrying
          BY <2>4, <4>1
        <5>2. /\ Len(seen') > PoorFor
              /\ \A i \in Len(seen') - PoorFor .. Len(seen') :
                    seen'[i].carrying = look.carrying /\ seen'[i].band \notin {"good"}
          BY <1>3, <1>4, <2>2, <3>1, StayedIs, Zenon
        <5> QED BY <5>1, <5>2 DEF Stayed
      <4>3. lastWord'.is = "degraded"
        BY <4>1
      <4> QED BY <1>4, <2>2, <2>3, <3>2, <4>1, <4>2, <4>3 DEF TInv, Told
    <3>4. CASE ~News(r.reported, report)
      <4>1. lastWord' = Silence /\ standing' = standing
        BY <1>1, <2>3, <2>5, <2>7, <3>4, SilenceIs
      <4>2. standing
        BY <1>3, <3>4 DEF News
      <4> QED BY <1>3, <1>4, <2>2, <2>3, <3>2, <4>1, <4>2, SilenceIs DEF TInv, Told
    <3> QED BY <3>3, <3>4
  <2> QED BY <2>6, <2>7
<1> QED BY <1>5, <1>7, <1>8, <1>9

LEMMA ReportInitInv == ReportInit => TInv
<1> SUFFICES ASSUME ReportInit PROVE TInv
  OBVIOUS
<1>1. Unset \in Unset .. PoorFor /\ Unset \in Unset .. RecoverFor /\ LongestWait \in Nat
  BY ReportAssumption DEF Unset, LongestWait
<1>2. reporter \in Reporters /\ reporter.poor = Unset /\ reporter.good = Unset /\ reporter.reported = Silence
  BY <1>1 DEF ReportInit, Reporters
<1>3. seen \in Seq(Looks) /\ Len(seen) <= LongestWait + 1
  BY <1>1 DEF ReportInit
<1> QED BY <1>2, <1>3 DEF ReportInit, TInv

LEMMA ReportNextInv == TInv /\ [ReportNext]_reportVars => TInv'
<1>1. ASSUME TInv, UNCHANGED reportVars PROVE TInv'
  BY <1>1 DEF reportVars, TInv
<1> QED BY <1>1, LookKeeps DEF ReportNext

\* "Honest degradation reporting" (degraded.rs), for any paths, reasons and
\* waits: a path is said to be poor only after the whole wait without one good
\* look, to have recovered only after a whole wait without a poor one and while
\* an earlier report stands, and no report outlives the loss of every path.
THEOREM ReportsAreHonest == ReportSpec => ToldAsSeen
<1>1. TInv /\ [ReportNext]_reportVars => [Told]_reportVars
  BY LookKeeps DEF ReportNext
<1>2. ReportSpec => [][Told]_reportVars
  BY <1>1, ReportInitInv, ReportNextInv, PTL DEF ReportSpec
<1> QED BY <1>2 DEF ToldAsSeen, Told

-----------------------------------------------------------------------------
(* The routing rules.  A store is the built-in rules, the block of         *)
(* encrypted DNS if it is wanted, and the rules of the person.             *)

Kinds   == {"port", "name", "suffix", "range"}
Actions == {"Capture", "Tunnel", "Bypass", "Reject"}

IsRule(r) == /\ r = Rule(r.on, r.of, r.action, r.at, r.builtin)
             /\ r.on \in Kinds /\ r.action \in Actions /\ r.at \in Nat /\ r.builtin \in BOOLEAN

Apart(rs) == \A r, s \in rs : r # s => r.at # s.at

\* A person's rule.
IsOwn(r) == /\ IsRule(r) /\ Valid(r) /\ ~r.builtin
            /\ r.on # "port" /\ r.action \in {"Tunnel", "Bypass"}
            /\ r.at \in UserStart .. MaxPrecedence

\* What a person may have added.
Mine(P) == /\ IsFiniteSet(P) /\ Cardinality(P) <= MaxUserRules
           /\ Apart(P) /\ \A r \in P : IsOwn(r)

Store(choice, P) == builtin_rules \cup blocking_rules(choice) \cup P

RulesInv == /\ policy \in {"Block", "Allow"} /\ disclosed \in BOOLEAN
            /\ Mine(Personal(rules))
            /\ rules = Store(policy, Personal(rules))

\* How many built-in rules there are.
BuiltIn == 1 + Len(Origins) + Len(Local) + Len(Portals)

\* The numbers of the bands.
LEMMA PrecedenceBands ==
    /\ Len(Origins) \in Nat /\ Len(Local) \in Nat /\ Len(Portals) \in Nat /\ Len(Resolvers) \in Nat
    /\ BuiltIn \in Nat /\ BuiltIn < BlockStart
    /\ BlockStart \in Nat /\ UserStart \in Nat /\ MaxPrecedence \in Nat /\ MaxUserRules \in Nat
    /\ BlockStart + Len(Resolvers) < UserStart /\ UserStart <= MaxPrecedence
<1>1. /\ Origins \in Seq(ToSet(Origins)) /\ Local \in Seq(ToSet(Local))
      /\ Portals \in Seq(ToSet(Portals)) /\ Resolvers \in Seq(ToSet(Resolvers))
  BY RulesAssumption
<1>2. Len(Origins) \in Nat /\ Len(Local) \in Nat /\ Len(Portals) \in Nat /\ Len(Resolvers) \in Nat
  BY <1>1
<1> QED BY <1>2, RulesAssumption DEF BuiltIn

\* Where the elements of two lists are once one is put behind the other.
LEMMA ConcatAt ==
    ASSUME NEW S, NEW s \in Seq(S), NEW t \in Seq(S)
    PROVE  /\ s \o t \in Seq(S) /\ Len(s \o t) = Len(s) + Len(t)
           /\ \A i \in 1 .. Len(s) : (s \o t)[i] = s[i]
           /\ \A i \in 1 .. Len(t) : (s \o t)[Len(s) + i] = t[i]
<1>1. /\ s \o t \in Seq(S) /\ Len(s \o t) = Len(s) + Len(t)
      /\ \A i \in 1 .. Len(s) + Len(t) : (s \o t)[i] = IF i <= Len(s) THEN s[i] ELSE t[i - Len(s)]
  BY ConcatProperties
<1>2. Len(s) \in Nat /\ Len(t) \in Nat
  OBVIOUS
<1>3. ASSUME NEW i \in 1 .. Len(s) PROVE (s \o t)[i] = s[i]
  BY <1>1, <1>2
<1>4. ASSUME NEW i \in 1 .. Len(t) PROVE (s \o t)[Len(s) + i] = t[i]
  <2>1. /\ Len(s) + i \in 1 .. Len(s) + Len(t) /\ ~(Len(s) + i <= Len(s))
        /\ (Len(s) + i) - Len(s) = i
    BY <1>2
  <2> QED BY <1>1, <2>1
<1> QED BY <1>1, <1>3, <1>4

\* The built-in rules: the capture of DNS first, then ranges and names
\* (builtin_rules.rs).
LEMMA BuiltInRules ==
    /\ Rule("port", <<"53">>, "Capture", 0, TRUE) \in builtin_rules
    /\ Apart(builtin_rules)
    /\ \A r \in builtin_rules :
          /\ IsRule(r) /\ r.builtin /\ Valid(r) /\ r.at < BuiltIn
          /\ r.at = 0 <=> r.action = "Capture"
          /\ r.at = 0 <=> r.on = "port"
          /\ r.at = 0 => r.of = <<"53">>
          /\ r.on # "name" /\ r.action # "Reject"
          /\ r.on = "suffix" => r.action = "Bypass"
          /\ r.on = "range" /\ r.action = "Bypass" => r.of \in ToSet(Local)
<1> DEFINE c == <<<<"port", <<"53">>, "Capture">>>>
           o == Each(Origins, "range", "Tunnel")
           l == Each(Local, "range", "Bypass")
           p == Each(Portals, "suffix", "Bypass")
           list == c \o o \o l \o p
           a == Len(Origins)
           b == Len(Local)
           d == Len(Portals)
<1>0. a \in Nat /\ b \in Nat /\ d \in Nat
  BY PrecedenceBands
<1>1. builtin_rules = Numbered(list, 0)
  BY DEF builtin_rules
<1>2. /\ Len(list) = BuiltIn
      /\ list[1] = <<"port", <<"53">>, "Capture">>
      /\ \A i \in 1 .. a : list[1 + i] = <<"range", Origins[i], "Tunnel">>
      /\ \A i \in 1 .. b : list[1 + a + i] = <<"range", Local[i], "Bypass">>
      /\ \A i \in 1 .. d : list[1 + a + b + i] = <<"suffix", Portals[i], "Bypass">>
  <2> DEFINE S == {"port", "range", "suffix"} \X
                     ({<<"53">>} \cup ToSet(Origins) \cup ToSet(Local) \cup ToSet(Portals)) \X Actions
  <2>1. /\ Origins \in Seq(ToSet(Origins)) /\ Local \in Seq(ToSet(Local))
        /\ Portals \in Seq(ToSet(Portals))
    BY RulesAssumption
  <2>2. c \in Seq(S) /\ Len(c) = 1
    BY DEF Actions
  <2>3. o \in Seq(S) /\ Len(o) = a /\ \A i \in 1 .. a : o[i] = <<"range", Origins[i], "Tunnel">>
    BY <2>1, <1>0 DEF Each, Actions
  <2>4. l \in Seq(S) /\ Len(l) = b /\ \A i \in 1 .. b : l[i] = <<"range", Local[i], "Bypass">>
    BY <2>1, <1>0 DEF Each, Actions
  <2>5. p \in Seq(S) /\ Len(p) = d /\ \A i \in 1 .. d : p[i] = <<"suffix", Portals[i], "Bypass">>
    BY <2>1, <1>0 DEF Each, Actions
  <2>6. c[1] = <<"port", <<"53">>, "Capture">>
    OBVIOUS
  <2> HIDE DEF c, o, l, p, S
  <2>7. /\ c \o o \in Seq(S) /\ Len(c \o o) = 1 + a
        /\ (c \o o)[1] = c[1]
        /\ \A i \in 1 .. a : (c \o o)[1 + i] = o[i]
    <3>0. c \in Seq(S) /\ o \in Seq(S)
      BY <2>2, <2>3
    <3>1. c \o o \in Seq(S)
      BY <3>0
    <3>2. Len(c \o o) = Len(c) + Len(o)
      BY <3>0, ConcatAt
    <3>3. \A i \in 1 .. Len(c) : (c \o o)[i] = c[i]
      BY <3>0, ConcatAt
    <3>4. \A i \in 1 .. Len(o) : (c \o o)[Len(c) + i] = o[i]
      BY <3>0, ConcatAt
    <3> QED BY <1>0, <2>2, <2>3, <3>1, <3>2, <3>3, <3>4
  <2>8. /\ c \o o \o l \in Seq(S) /\ Len(c \o o \o l) = 1 + a + b
        /\ (c \o o \o l)[1] = c[1]
        /\ \A i \in 1 .. a : (c \o o \o l)[1 + i] = o[i]
        /\ \A i \in 1 .. b : (c \o o \o l)[1 + a + i] = l[i]
    <3>1. 1 \in 1 .. 1 + a /\ \A i \in 1 .. a : 1 + i \in 1 .. 1 + a
      BY <1>0
    <3> DEFINE q == c \o o
    <3>2. q \in Seq(S) /\ Len(q) = 1 + a
      BY <2>7
    <3> HIDE DEF q
    <3>3. q \o l \in Seq(S)
      BY <2>4, <3>2
    <3>4. Len(q \o l) = Len(q) + Len(l)
      BY <2>4, <3>2, ConcatAt
    <3>5. \A i \in 1 .. Len(q) : (q \o l)[i] = q[i]
      BY <2>4, <3>2, ConcatAt
    <3>6. \A i \in 1 .. Len(l) : (q \o l)[Len(q) + i] = l[i]
      BY <2>4, <3>2, ConcatAt
    <3> QED BY <1>0, <2>4, <2>7, <3>1, <3>2, <3>3, <3>4, <3>5, <3>6 DEF q
  <2>9. /\ Len(list) = 1 + a + b + d
        /\ list[1] = c[1]
        /\ \A i \in 1 .. a : list[1 + i] = o[i]
        /\ \A i \in 1 .. b : list[1 + a + i] = l[i]
        /\ \A i \in 1 .. d : list[1 + a + b + i] = p[i]
    <3> DEFINE q == c \o o \o l
    <3>1. /\ 1 \in 1 .. 1 + a + b /\ \A i \in 1 .. a : 1 + i \in 1 .. 1 + a + b
          /\ \A i \in 1 .. b : 1 + a + i \in 1 .. 1 + a + b
      BY <1>0
    <3>2. q \in Seq(S) /\ Len(q) = 1 + a + b
      BY <2>8
    <3> HIDE DEF q
    <3>3. Len(q \o p) = Len(q) + Len(p)
      BY <2>5, <3>2, ConcatAt
    <3>4. \A i \in 1 .. Len(q) : (q \o p)[i] = q[i]
      BY <2>5, <3>2, ConcatAt
    <3>5. \A i \in 1 .. Len(p) : (q \o p)[Len(q) + i] = p[i]
      BY <2>5, <3>2, ConcatAt
    <3> QED BY <1>0, <2>5, <2>8, <3>1, <3>2, <3>3, <3>4, <3>5 DEF q
  <2> HIDE DEF list
  <2> QED BY <1>0, <2>3, <2>4, <2>5, <2>6, <2>9 DEF BuiltIn
<1> HIDE DEF c, o, l, p, list
<1>3. ASSUME NEW r \in builtin_rules
      PROVE  \E i \in 1 .. BuiltIn : r = Rule(list[i][1], list[i][2], list[i][3], i - 1, TRUE)
  <2>1. PICK i \in 1 .. BuiltIn : r = Rule(list[i][1], list[i][2], list[i][3], 0 + i - 1, TRUE)
    BY <1>1, <1>2, <1>3 DEF Numbered
  <2>2. 0 + i - 1 = i - 1
    BY PrecedenceBands
  <2> QED BY <2>1, <2>2
<1>4. Rule("port", <<"53">>, "Capture", 0, TRUE) \in builtin_rules
  <2>1. 1 \in 1 .. BuiltIn
    BY <1>0 DEF BuiltIn
  <2>2. list[1][1] = "port" /\ list[1][2] = <<"53">> /\ list[1][3] = "Capture"
    BY <1>2
  <2>3. Rule(list[1][1], list[1][2], list[1][3], 0 + 1 - 1, TRUE) \in Numbered(list, 0)
    BY <1>2, <2>1 DEF Numbered
  <2>4. 0 + 1 - 1 = 0
    OBVIOUS
  <2> QED BY <1>1, <2>2, <2>3, <2>4
<1>5. Apart(builtin_rules)
  <2> SUFFICES ASSUME NEW r \in builtin_rules, NEW s \in builtin_rules, r.at = s.at PROVE r = s
    BY DEF Apart
  <2>1. PICK i \in 1 .. BuiltIn : r = Rule(list[i][1], list[i][2], list[i][3], i - 1, TRUE)
    BY <1>3
  <2>2. PICK j \in 1 .. BuiltIn : s = Rule(list[j][1], list[j][2], list[j][3], j - 1, TRUE)
    BY <1>3
  <2>3. i - 1 = j - 1
    BY <2>1, <2>2 DEF Rule
  <2> QED BY <2>1, <2>2, <2>3, PrecedenceBands
<1>6. ASSUME NEW r \in builtin_rules
      PROVE  /\ IsRule(r) /\ r.builtin /\ Valid(r) /\ r.at < BuiltIn
             /\ r.at = 0 <=> r.action = "Capture"
             /\ r.at = 0 <=> r.on = "port"
             /\ r.at = 0 => r.of = <<"53">>
             /\ r.on # "name" /\ r.action # "Reject"
             /\ r.on = "suffix" => r.action = "Bypass"
             /\ r.on = "range" /\ r.action = "Bypass" => r.of \in ToSet(Local)
  <2>1. PICK i \in 1 .. BuiltIn : r = Rule(list[i][1], list[i][2], list[i][3], i - 1, TRUE)
    BY <1>3, <1>6
  <2>2. i \in Nat /\ 1 <= i /\ i <= a + b + d + 1
    BY <1>0, <2>1 DEF BuiltIn
  <2>3. CASE i = 1
    BY <1>0, <1>2, <2>1, <2>2, <2>3 DEF Rule, IsRule, Valid, Kinds, Actions, BuiltIn
  <2>4. CASE \E j \in 1 .. a : i = 1 + j
    <3>1. PICK j \in 1 .. a : i = 1 + j
      BY <2>4
    <3>2. r = Rule("range", Origins[j], "Tunnel", j, TRUE)
      <4>0. list[1 + j] = <<"range", Origins[j], "Tunnel">>
        BY <1>2, Zenon
      <4>1. list[i] = <<"range", Origins[j], "Tunnel">>
        BY <3>1, <4>0, Zenon
      <4>2. list[i][1] = "range" /\ list[i][2] = Origins[j] /\ list[i][3] = "Tunnel"
        BY <4>1
      <4>3. i - 1 = j
        BY <1>0, <3>1
      <4> QED BY <2>1, <4>2, <4>3, Zenon
    <3> QED BY <1>0, <3>2 DEF Rule, IsRule, Valid, Kinds, Actions, BuiltIn
  <2>5. CASE \E j \in 1 .. b : i = 1 + a + j
    <3>1. PICK j \in 1 .. b : i = 1 + a + j
      BY <2>5
    <3>2. r = Rule("range", Local[j], "Bypass", a + j, TRUE)
      <4>0. list[1 + a + j] = <<"range", Local[j], "Bypass">>
        BY <1>2, Zenon
      <4>1. list[i] = <<"range", Local[j], "Bypass">>
        BY <3>1, <4>0, Zenon
      <4>2. list[i][1] = "range" /\ list[i][2] = Local[j] /\ list[i][3] = "Bypass"
        BY <4>1
      <4>3. i - 1 = a + j
        BY <1>0, <3>1
      <4> QED BY <2>1, <4>2, <4>3, Zenon
    <3>3. Local[j] \in ToSet(Local)
      BY <1>0, RulesAssumption DEF ToSet
    <3> QED BY <1>0, <3>2, <3>3 DEF Rule, IsRule, Valid, Kinds, Actions, BuiltIn
  <2>6. CASE \E j \in 1 .. d : i = 1 + a + b + j
    <3>1. PICK j \in 1 .. d : i = 1 + a + b + j
      BY <2>6
    <3>2. r = Rule("suffix", Portals[j], "Bypass", a + b + j, TRUE)
      <4>0. list[1 + a + b + j] = <<"suffix", Portals[j], "Bypass">>
        BY <1>2, Zenon
      <4>1. list[i] = <<"suffix", Portals[j], "Bypass">>
        BY <3>1, <4>0, Zenon
      <4>2. list[i][1] = "suffix" /\ list[i][2] = Portals[j] /\ list[i][3] = "Bypass"
        BY <4>1
      <4>3. i - 1 = a + b + j
        BY <1>0, <3>1
      <4> QED BY <2>1, <4>2, <4>3, Zenon
    <3>3. Normal(Portals[j]) # <<>>
      <4>1. Portals[j] \in ToSet(Portals)
        BY <1>0, RulesAssumption DEF ToSet
      <4> QED BY <4>1, RulesAssumption
    <3> QED BY <1>0, <3>2, <3>3 DEF Rule, IsRule, Valid, Kinds, Actions, BuiltIn
  <2>7. \/ i = 1 \/ i - 1 \in 1 .. a \/ i - 1 - a \in 1 .. b \/ i - 1 - a - b \in 1 .. d
    BY <1>0, <2>2
  <2>8. /\ i = 1 + (i - 1) /\ i = 1 + a + (i - 1 - a) /\ i = 1 + a + b + (i - 1 - a - b)
    BY <1>0, <2>2
  <2> QED BY <2>3, <2>4, <2>5, <2>6, <2>7, <2>8
<1> QED BY <1>4, <1>5, <1>6

\* The block of encrypted DNS lies in a band of its own (doh_block.rs).
LEMMA BlockingRules ==
    ASSUME NEW choice
    PROVE  /\ Apart(blocking_rules(choice))
           /\ \A r \in blocking_rules(choice) :
                 /\ IsRule(r) /\ r.builtin /\ Valid(r) /\ r.action = "Reject"
                 /\ BlockStart <= r.at /\ r.at < UserStart
                 /\ \/ r.on = "suffix"
                    \/ r.on = "port" /\ r.of = <<"853">>
<1> DEFINE s == Each(Resolvers, "suffix", "Reject")
           e == <<<<"port", <<"853">>, "Reject">>>>
           list == s \o e
           a == Len(Resolvers)
<1>0. a \in Nat /\ BlockStart \in Nat /\ UserStart \in Nat /\ BlockStart + a < UserStart
  BY PrecedenceBands
<1>1. blocking_rules(choice) = {} \/ blocking_rules(choice) = Numbered(list, BlockStart)
  BY DEF blocking_rules
<1>2. /\ Len(list) = a + 1
      /\ \A i \in 1 .. a : list[i] = <<"suffix", Resolvers[i], "Reject">>
      /\ list[a + 1] = <<"port", <<"853">>, "Reject">>
  <2> DEFINE S == {"port", "suffix"} \X ({<<"853">>} \cup ToSet(Resolvers)) \X Actions
  <2>1. Resolvers \in Seq(ToSet(Resolvers))
    BY RulesAssumption
  <2>2. s \in Seq(S) /\ Len(s) = a /\ \A i \in 1 .. a : s[i] = <<"suffix", Resolvers[i], "Reject">>
    BY <1>0, <2>1 DEF Each, Actions
  <2>3. e \in Seq(S) /\ Len(e) = 1 /\ e[1] = <<"port", <<"853">>, "Reject">>
    BY DEF Actions
  <2> HIDE DEF s, e, S
  <2>4. s \in Seq(S) /\ e \in Seq(S)
    BY <2>2, <2>3
  <2>5. Len(list) = Len(s) + Len(e)
    BY <2>4, ConcatAt
  <2>6. \A i \in 1 .. Len(s) : list[i] = s[i]
    BY <2>4, ConcatAt
  <2>7. \A i \in 1 .. Len(e) : list[Len(s) + i] = e[i]
    BY <2>4, ConcatAt
  <2> HIDE DEF list
  <2>8. 1 \in 1 .. Len(e)
    BY <2>3
  <2> QED BY <1>0, <2>2, <2>3, <2>5, <2>6, <2>7, <2>8
<1> HIDE DEF s, e, list
<1>3. ASSUME NEW r \in blocking_rules(choice)
      PROVE  \E i \in 1 .. a + 1 :
                r = Rule(list[i][1], list[i][2], list[i][3], BlockStart + i - 1, TRUE)
  BY <1>1, <1>2, <1>3 DEF Numbered
<1>4. Apart(blocking_rules(choice))
  <2> SUFFICES ASSUME NEW r \in blocking_rules(choice), NEW q \in blocking_rules(choice),
                      r.at = q.at
               PROVE  r = q
    BY DEF Apart
  <2>1. PICK i \in 1 .. a + 1 :
           r = Rule(list[i][1], list[i][2], list[i][3], BlockStart + i - 1, TRUE)
    BY <1>3
  <2>2. PICK j \in 1 .. a + 1 :
           q = Rule(list[j][1], list[j][2], list[j][3], BlockStart + j - 1, TRUE)
    BY <1>3
  <2>3. BlockStart + i - 1 = BlockStart + j - 1
    BY <2>1, <2>2 DEF Rule
  <2>4. i = j
    BY <1>0, <2>3
  <2> QED BY <2>1, <2>2, <2>4
<1>5. ASSUME NEW r \in blocking_rules(choice)
      PROVE  /\ IsRule(r) /\ r.builtin /\ Valid(r) /\ r.action = "Reject"
             /\ BlockStart <= r.at /\ r.at < UserStart
             /\ \/ r.on = "suffix"
                \/ r.on = "port" /\ r.of = <<"853">>
  <2>1. PICK i \in 1 .. a + 1 :
           r = Rule(list[i][1], list[i][2], list[i][3], BlockStart + i - 1, TRUE)
    BY <1>3, <1>5
  <2>2. BlockStart + i - 1 \in Nat /\ BlockStart <= BlockStart + i - 1
        /\ BlockStart + i - 1 < UserStart
    BY <1>0
  <2>3. CASE i = a + 1
    <3>1. list[i][1] = "port" /\ list[i][2] = <<"853">> /\ list[i][3] = "Reject"
      BY <1>2, <2>3
    <3>2. r = Rule("port", <<"853">>, "Reject", BlockStart + i - 1, TRUE)
      BY <2>1, <3>1
    <3> QED BY <2>2, <3>2 DEF Rule, IsRule, Valid, Kinds, Actions
  <2>4. CASE i \in 1 .. a
    <3>1. list[i] = <<"suffix", Resolvers[i], "Reject">>
      BY <1>2, <2>4
    <3>2. list[i][1] = "suffix" /\ list[i][2] = Resolvers[i] /\ list[i][3] = "Reject"
      BY <3>1
    <3>3. r = Rule("suffix", Resolvers[i], "Reject", BlockStart + i - 1, TRUE)
      BY <2>1, <3>2
    <3>4. Resolvers[i] \in ToSet(Resolvers)
      BY <2>4, RulesAssumption DEF ToSet
    <3>5. Normal(Resolvers[i]) # <<>>
      BY <3>4, RulesAssumption
    <3> QED BY <2>2, <3>3, <3>5 DEF Rule, IsRule, Valid, Kinds, Actions
  <2>5. i = a + 1 \/ i \in 1 .. a
    BY <1>0
  <2> QED BY <2>3, <2>4, <2>5
<1> QED BY <1>4, <1>5

LEMMA LeastOfNats ==
    ASSUME NEW T \in SUBSET Nat, T # {}
    PROVE  \E n \in T : \A m \in T : n <= m
<1>1. PICK n \in T : \A m \in T : ~(<<m, n>> \in OpToRel(<, Nat))
  BY WFMin, NatLessThanWellFounded
<1>2. ASSUME NEW m \in T, m < n PROVE FALSE
  <2>1. <<m, n>> \in OpToRel(<, Nat)
    BY <1>2 DEF OpToRel
  <2> QED BY <1>1, <2>1
<1> QED BY <1>2

\* Among rules with numbers of their own there is a first one (the search of
\* Evaluator::evaluate).
LEMMA FirstOfType ==
    ASSUME NEW rs, rs # {}, \A r \in rs : r.at \in Nat
    PROVE  FirstOf(rs) \in rs /\ \A s \in rs : FirstOf(rs).at <= s.at
<1> DEFINE T == {r.at : r \in rs}
<1>1. T \subseteq Nat /\ T # {}
  OBVIOUS
<1>2. PICK n \in T : \A m \in T : n <= m
  BY <1>1, LeastOfNats
<1>3. PICK r \in rs : r.at = n
  BY <1>2
<1>4. \E q \in rs : \A s \in rs : q.at <= s.at
  BY <1>2, <1>3
<1> QED BY <1>4 DEF FirstOf

\* The rules of a store, by their band.
LEMMA StoreRules ==
    ASSUME NEW choice, NEW P, Mine(P)
    PROVE  /\ \A r \in Store(choice, P) : IsRule(r) /\ Valid(r) /\ r.at <= MaxPrecedence
           /\ Apart(Store(choice, P))
           /\ \A r \in Store(choice, P) :
                 /\ r.builtin => r.at < UserStart
                 /\ r.builtin => r \in builtin_rules \/ r \in blocking_rules(choice)
                 /\ ~r.builtin => r \in P
<1>0. /\ BuiltIn \in Nat /\ BlockStart \in Nat /\ UserStart \in Nat /\ MaxPrecedence \in Nat
      /\ BuiltIn < BlockStart /\ BlockStart < UserStart /\ UserStart <= MaxPrecedence
  BY PrecedenceBands
<1>1. ASSUME NEW r \in builtin_rules
      PROVE  IsRule(r) /\ Valid(r) /\ r.builtin /\ r.at \in Nat /\ r.at < BlockStart
  BY <1>0, <1>1, BuiltInRules DEF IsRule
<1>2. ASSUME NEW r \in blocking_rules(choice)
      PROVE  IsRule(r) /\ Valid(r) /\ r.builtin /\ r.at \in Nat /\ BlockStart <= r.at /\ r.at < UserStart
  BY <1>2, BlockingRules DEF IsRule
<1>3. ASSUME NEW r \in P
      PROVE  IsRule(r) /\ Valid(r) /\ ~r.builtin /\ r.at \in Nat /\ UserStart <= r.at /\ r.at <= MaxPrecedence
  BY <1>0, <1>3 DEF Mine, IsOwn
<1>4. Apart(builtin_rules) /\ Apart(blocking_rules(choice)) /\ Apart(P)
  BY BuiltInRules, BlockingRules DEF Mine
<1>5. Apart(Store(choice, P))
  <2> SUFFICES ASSUME NEW r \in Store(choice, P), NEW s \in Store(choice, P), r # s, r.at = s.at
               PROVE  FALSE
    BY DEF Apart
  <2>1. CASE r \in builtin_rules
    BY <1>0, <1>1, <1>2, <1>3, <1>4, <2>1 DEF Store, Apart
  <2>2. CASE r \in blocking_rules(choice)
    BY <1>0, <1>1, <1>2, <1>3, <1>4, <2>2 DEF Store, Apart
  <2>3. CASE r \in P
    BY <1>0, <1>1, <1>2, <1>3, <1>4, <2>3 DEF Store, Apart
  <2> QED BY <2>1, <2>2, <2>3 DEF Store
<1> QED BY <1>0, <1>1, <1>2, <1>3, <1>5 DEF Store

\* A person's rules are those of the store that are not built in, and the block
\* is what a choice changes (set_policy).
LEMMA StoreParts ==
    ASSUME NEW choice, NEW P, Mine(P)
    PROVE  /\ Personal(Store(choice, P)) = P
           /\ \A d : WithBlock(Store(choice, P), d) = Store(d, P)
<1>1. \A r \in builtin_rules : r.builtin /\ r.action # "Reject"
  BY BuiltInRules
<1>2. \A r \in blocking_rules(choice) : r.builtin /\ r.action = "Reject"
  BY BlockingRules
<1>3. \A r \in P : ~r.builtin /\ r.action # "Reject"
  BY DEF Mine, IsOwn
<1> QED BY <1>1, <1>2, <1>3 DEF Personal, WithBlock, Store

\* Whatever a person may have added passes every check, with the block and
\* without it (check_rules).
LEMMA StoreAcceptable ==
    ASSUME NEW choice \in {"Block", "Allow"}, NEW P, Mine(P)
    PROVE  Acceptable(Store(choice, P), choice)
<1> DEFINE rs == Store(choice, P)
<1>1. /\ \A r \in rs : IsRule(r) /\ r.at \in Nat
      /\ Apart(rs)
      /\ \A r \in rs : /\ r.builtin => r.at < UserStart
                       /\ r.builtin => r \in builtin_rules \/ r \in blocking_rules(choice)
                       /\ ~r.builtin => r \in P
  BY StoreRules DEF IsRule
<1>2. \A r \in builtin_rules : r \in rs /\ r.builtin /\ r.action # "Reject"
  BY BuiltInRules DEF Store
<1>3. \A r \in blocking_rules(choice) : r \in rs /\ r.builtin
  BY BlockingRules DEF Store
<1>4. \A r \in P : r.action # "Reject" /\ UserStart <= r.at
  BY PrecedenceBands DEF Mine, IsOwn
<1>5. choice = "Allow" => \A r \in rs : r.action # "Reject"
  BY <1>2, <1>4 DEF Store, blocking_rules
<1>6. FirstOf(rs).action = "Capture"
  <2> DEFINE c == Rule("port", <<"53">>, "Capture", 0, TRUE)
  <2>1. c \in rs /\ c.at = 0
    BY BuiltInRules DEF Store, Rule
  <2> HIDE DEF c, rs
  <2>2. FirstOf(rs) \in rs /\ FirstOf(rs).at <= 0
    BY <1>1, <2>1, FirstOfType
  <2>3. FirstOf(rs).at = 0
    BY <1>1, <2>2
  <2>4. FirstOf(rs) = c
    BY <1>1, <2>1, <2>2, <2>3 DEF Apart
  <2> QED BY <2>4 DEF c, Rule
<1>7. \A r \in rs : ~r.builtin => r.at >= UserStart /\ \A s \in rs : s.builtin => s.at < r.at
  BY <1>1, <1>4, PrecedenceBands
<1> HIDE DEF rs
<1>8. /\ \A r \in builtin_rules : Has(rs, r)
      /\ \A r \in blocking_rules(choice) : Has(rs, r)
  BY <1>2, <1>3 DEF Has
<1> QED BY <1>1, <1>5, <1>6, <1>7, <1>8 DEF Acceptable, Apart, rs

\* Nobody has added anything.
LEMMA NoRules == Mine({})
BY FS_EmptySet, PrecedenceBands DEF Mine, Apart

\* What is saved is accepted at the next start and is the store it came from
\* (to_config_bytes, from_loaded).
LEMMA SavedIsRestored ==
    ASSUME RulesInv
    PROVE  RestoredFrom(SavedRules) = [rules |-> rules, policy |-> policy, disclosed |-> disclosed]
<1> DEFINE P == Personal(rules)
           file == SavedRules
           chosen == IF file.consent = <<>> THEN SeededRules
                     ELSE [rules |-> WithBlock(SeededRules.rules, file.consent[1].policy),
                           policy |-> file.consent[1].policy, disclosed |-> file.consent[1].disclosed]
<1>0. /\ policy \in {"Block", "Allow"} /\ disclosed \in BOOLEAN
      /\ Mine(P) /\ rules = Store(policy, P)
  BY DEF RulesInv
<1>1. file.rules = P
  BY DEF SavedRules
<1>2. SeededRules.rules = Store("Block", {})
  BY DEF SeededRules, Store
<1>3. chosen = [rules |-> Store(policy, {}), policy |-> policy, disclosed |-> disclosed]
  <2>1. CASE policy = "Block" /\ ~disclosed
    <3>1. file.consent = <<>>
      BY <2>1 DEF SavedRules
    <3> QED BY <1>0, <1>2, <2>1, <3>1 DEF SeededRules
  <2>2. CASE ~(policy = "Block" /\ ~disclosed)
    <3>1. file.consent = <<[policy |-> policy, disclosed |-> disclosed]>>
      BY <2>2 DEF SavedRules
    <3>2. /\ file.consent # <<>>
          /\ file.consent[1].policy = policy /\ file.consent[1].disclosed = disclosed
      BY <3>1
    <3>3. WithBlock(SeededRules.rules, policy) = Store(policy, {})
      BY <1>2, NoRules, StoreParts
    <3> QED BY <3>2, <3>3
  <2> QED BY <2>1, <2>2
<1>4. Store(policy, {}) \cup P = rules
  BY <1>0 DEF Store
<1>5. Acceptable(Store(policy, {}), policy) /\ Acceptable(rules, policy)
  BY <1>0, NoRules, StoreAcceptable
<1>6. /\ Cardinality(P) <= MaxUserRules
      /\ \A r \in P : Valid(r) /\ r.action \in {"Tunnel", "Bypass"} /\ r.at >= UserStart
  BY <1>0, PrecedenceBands DEF Mine, IsOwn
<1> HIDE DEF P, file, chosen
<1>7. chosen.rules \cup file.rules = rules /\ chosen.policy = policy
  BY <1>1, <1>3, <1>4
<1>8. [chosen EXCEPT !.rules = chosen.rules \cup file.rules]
         = [rules |-> rules, policy |-> policy, disclosed |-> disclosed]
  <2>1. ASSUME NEW old, NEW new
        PROVE  [[rules |-> old, policy |-> policy, disclosed |-> disclosed] EXCEPT !.rules = new]
                  = [rules |-> new, policy |-> policy, disclosed |-> disclosed]
    OBVIOUS
  <2>2. [chosen EXCEPT !.rules = rules] = [rules |-> rules, policy |-> policy, disclosed |-> disclosed]
    BY <1>3, <2>1
  <2> QED BY <1>7, <2>2
<1>9. /\ Cardinality(file.rules) <= MaxUserRules
      /\ \A r \in file.rules : Valid(r) /\ r.action \in {"Tunnel", "Bypass"} /\ r.at >= UserStart
      /\ Acceptable(chosen.rules, chosen.policy)
      /\ Acceptable(chosen.rules \cup file.rules, chosen.policy)
  BY <1>1, <1>3, <1>5, <1>6, <1>7
<1>10. RestoredFrom(file) = [chosen EXCEPT !.rules = chosen.rules \cup file.rules]
  BY <1>9 DEF RestoredFrom, chosen
<1> QED BY <1>8, <1>10 DEF file

\* The number a new rule gets is a number (next_user_precedence).
LEMMA NextPrecedenceType ==
    ASSUME NEW rs, rs # {}, \A r \in rs : r.at \in 0 .. MaxPrecedence
    PROVE  NextPrecedence(rs) \in Nat
<1>0. MaxPrecedence \in Nat /\ UserStart \in Nat
  BY PrecedenceBands
<1> DEFINE T == {MaxPrecedence - r.at : r \in rs}
<1>1. T \subseteq Nat /\ T # {}
  BY <1>0
<1> HIDE DEF T
<1>2. PICK n \in T : \A m \in T : n <= m
  BY <1>1, LeastOfNats
<1>3. PICK q \in rs : n = MaxPrecedence - q.at
  BY <1>2 DEF T
<1>4. \A r \in rs : r.at <= q.at
  <2> SUFFICES ASSUME NEW r \in rs PROVE r.at <= q.at
    OBVIOUS
  <2>1. n <= MaxPrecedence - r.at
    BY <1>2 DEF T
  <2> QED BY <1>0, <1>3, <2>1
<1> DEFINE Top == CHOOSE k \in {r.at : r \in rs} : \A r \in rs : r.at <= k
<1>5. Top \in {r.at : r \in rs}
  BY <1>4
<1> HIDE DEF Top
<1>6. Top \in Nat
  BY <1>0, <1>5
<1>7. NextPrecedence(rs) = IF Top + 1 > UserStart THEN Top + 1 ELSE UserStart
  BY DEF NextPrecedence, Top
<1> QED BY <1>0, <1>6, <1>7

\* The first start: the seeded store (DomainState::seeded).
LEMMA RulesInitInv == RulesInit => RulesInv
<1> SUFFICES ASSUME RulesInit PROVE RulesInv
  OBVIOUS
<1>1. rules = Store("Block", {}) /\ policy = "Block" /\ disclosed = FALSE
  BY DEF RulesInit, SeededRules, Store
<1>2. Personal(rules) = {}
  BY <1>1, NoRules, StoreParts
<1> QED BY <1>1, <1>2, NoRules DEF RulesInv

\* A rule is added only if the whole set passes every check (Configure::add).
LEMMA AddRuleInv ==
    ASSUME RulesInv, NEW on \in {"name", "suffix", "range"}, NEW of, NEW action \in {"Tunnel", "Bypass"},
           AddRule(on, of, action)
    PROVE  RulesInv'
<1> DEFINE P == Personal(rules)
           r == Rule(on, of, action, NextPrecedence(rules), FALSE)
<1>0. /\ policy \in {"Block", "Allow"} /\ disclosed \in BOOLEAN
      /\ Mine(P) /\ rules = Store(policy, P)
  BY DEF RulesInv
<1>1. /\ Cardinality(P) < MaxUserRules /\ r.at <= MaxPrecedence
      /\ Valid(r) /\ Acceptable(rules \cup {r}, policy)
      /\ rules' = rules \cup {r} /\ policy' = policy /\ disclosed' = disclosed
  BY DEF AddRule
<1>2. NextPrecedence(rules) \in Nat
  <2>1. \A s \in rules : s.at \in 0 .. MaxPrecedence
    BY <1>0, StoreRules, PrecedenceBands DEF IsRule
  <2>2. rules # {}
    BY <1>0, BuiltInRules DEF Store
  <2> QED BY <2>1, <2>2, NextPrecedenceType
<1>3. /\ IsRule(r) /\ ~r.builtin /\ r.on # "port" /\ r.action \in {"Tunnel", "Bypass"} /\ r.at \in Nat
  BY <1>2 DEF Rule, IsRule, Kinds, Actions
<1> HIDE DEF r
<1>4. /\ UserStart <= r.at
      /\ Apart(rules \cup {r})
  BY <1>1, <1>3, PrecedenceBands DEF Acceptable, Apart
<1>5. IsOwn(r)
  BY <1>1, <1>3, <1>4, PrecedenceBands DEF IsOwn
<1>6. Personal(rules') = P \cup {r}
  BY <1>1, <1>3 DEF Personal
<1>7. P \subseteq rules
  BY DEF Personal
<1>8. Mine(P \cup {r})
  <2>1. IsFiniteSet(P \cup {r}) /\ Cardinality(P \cup {r}) <= MaxUserRules
    <3>1. IsFiniteSet(P) /\ Cardinality(P) \in Nat
      BY <1>0, FS_CardinalityType DEF Mine
    <3>2. /\ IsFiniteSet(P \cup {r})
          /\ Cardinality(P \cup {r}) = IF r \in P THEN Cardinality(P) ELSE Cardinality(P) + 1
      BY <3>1, FS_AddElement
    <3> QED BY <1>1, <3>1, <3>2, PrecedenceBands
  <2>2. Apart(P \cup {r})
    BY <1>4, <1>7 DEF Apart
  <2>3. \A s \in P \cup {r} : IsOwn(s)
    BY <1>0, <1>5 DEF Mine
  <2> QED BY <2>1, <2>2, <2>3 DEF Mine
<1>9. rules' = Store(policy', P \cup {r})
  BY <1>0, <1>1 DEF Store
<1> QED BY <1>0, <1>1, <1>6, <1>8, <1>9 DEF RulesInv

\* Every operation of the store, and every restart, keeps the invariant.
LEMMA RulesNextInv == RulesInv /\ [RulesNext]_ruleVars => RulesInv'
<1> SUFFICES ASSUME RulesInv, [RulesNext]_ruleVars PROVE RulesInv'
  OBVIOUS
<1> DEFINE P == Personal(rules)
<1>0. /\ policy \in {"Block", "Allow"} /\ disclosed \in BOOLEAN
      /\ Mine(P) /\ rules = Store(policy, P)
  BY DEF RulesInv
<1>1. CASE UNCHANGED ruleVars
  BY <1>1 DEF ruleVars, RulesInv
<1>2. ASSUME NEW action \in {"Tunnel", "Bypass"}, NEW on \in {"name", "suffix"}, NEW of \in DOMAIN Spelled,
             AddRule(on, of, action)
      PROVE  RulesInv'
  BY <1>2, AddRuleInv
<1>3. ASSUME NEW action \in {"Tunnel", "Bypass"}, NEW of \in Ranges, AddRule("range", of, action)
      PROVE  RulesInv'
  BY <1>3, AddRuleInv
<1>4. CASE RemoveRule
  <2>1. PICK r \in P : rules' = rules \ {r} /\ policy' = policy /\ disclosed' = disclosed
    BY <1>4 DEF RemoveRule
  <2>2. Mine(P \ {r})
    <3>1. IsFiniteSet(P) /\ Cardinality(P) \in Nat /\ Cardinality(P) <= MaxUserRules
      BY <1>0, FS_CardinalityType DEF Mine
    <3>2. IsFiniteSet(P \ {r}) /\ Cardinality(P \ {r}) = Cardinality(P) - 1
      BY <2>1, <3>1, FS_RemoveElement
    <3>3. Cardinality(P \ {r}) <= MaxUserRules
      BY <3>1, <3>2, PrecedenceBands
    <3> QED BY <1>0, <3>2, <3>3 DEF Mine, Apart
  <2>3. ~r.builtin /\ \A s \in builtin_rules \cup blocking_rules(policy) : s.builtin
    BY <1>0, BuiltInRules, BlockingRules DEF Personal
  <2>4. rules' = Store(policy', P \ {r})
    BY <1>0, <2>1, <2>3 DEF Store
  <2>5. Personal(rules') = P \ {r}
    BY <2>2, <2>4, StoreParts
  <2> QED BY <1>0, <2>1, <2>2, <2>4, <2>5 DEF RulesInv
<1>5. CASE RestartRules
  <2>1. RestoredFrom(SavedRules) = [rules |-> rules, policy |-> policy, disclosed |-> disclosed]
    BY SavedIsRestored
  <2>2. UNCHANGED <<rules, policy, disclosed>>
    BY <1>5, <2>1 DEF RestartRules
  <2> QED BY <2>2 DEF RulesInv
<1>6. ASSUME NEW choice \in {"Block", "Allow"}, Choose(choice) PROVE RulesInv'
  <2>1. rules' = Store(choice, P) /\ policy' = choice /\ disclosed' = TRUE
    BY <1>0, <1>6, StoreParts DEF Choose
  <2>2. Personal(rules') = P
    BY <1>0, <2>1, StoreParts
  <2> QED BY <1>0, <2>1, <2>2 DEF RulesInv
<1> QED BY <1>1, <1>2, <1>3, <1>4, <1>5, <1>6 DEF RulesNext

\* Whatever rules a person adds and removes, whatever they choose about
\* encrypted DNS and however often the service restarts: what is saved is
\* accepted at the next start and means the same (domain.rs:77, from_loaded).
THEOREM RulesAreReadBack == RulesSpec => []ReadBackTheSame
<1>1. RulesInv => ReadBackTheSame
  BY SavedIsRestored DEF ReadBackTheSame
<1> QED BY <1>1, RulesInitInv, RulesNextInv, PTL DEF RulesSpec

-----------------------------------------------------------------------------
(* What the core of a tunnel is told.                                      *)

Capture == Rule("port", <<"53">>, "Capture", 0, TRUE)

Own(server) == Rule(server[1], server[2], "Bypass", 1, TRUE)

Shifted(r) == IF r.builtin /\ r.action # "Capture" /\ r.at \in 1 .. BlockStart - 1
              THEN [r EXCEPT !.at = @ + 1] ELSE r

\* A set of rules under which a person's come last, and only ranges are
\* tunnelled or names captured by what is built in.
InOrder(rs) ==
    /\ Apart(rs) /\ Capture \in rs
    /\ \A r \in rs :
          /\ IsRule(r)
          /\ r.builtin => r.at < UserStart
          /\ ~r.builtin => UserStart <= r.at /\ r.on # "port" /\ r.action \in {"Tunnel", "Bypass"}
          /\ r.on = "port" => r.of \in {<<"53">>, <<"853">>}
          /\ r.action = "Capture" => r.on = "port"
          /\ r.builtin /\ r.action = "Tunnel" => r.on = "range"

\* Changing one field of a rule leaves the others.
LEMMA RuleFields ==
    ASSUME NEW r, IsRule(r), NEW x
    PROVE  /\ [r EXCEPT !.at = x] = Rule(r.on, r.of, r.action, x, r.builtin)
           /\ [r EXCEPT !.of = x] = Rule(r.on, x, r.action, r.at, r.builtin)
<1>1. r = [on |-> r.on, of |-> r.of, action |-> r.action, at |-> r.at, builtin |-> r.builtin]
  BY DEF IsRule, Rule
<1>2. ASSUME NEW a, NEW b, NEW c, NEW d, NEW e
      PROVE  LET q == [on |-> a, of |-> b, action |-> c, at |-> d, builtin |-> e]
             IN  /\ [q EXCEPT !.at = x] = Rule(a, b, c, x, e)
                 /\ [q EXCEPT !.of = x] = Rule(a, x, c, d, e)
  BY DEF Rule
<1> QED BY <1>1, <1>2

\* Making room: a built-in rule behind the capture of DNS moves down by one and
\* stays in its band, every other rule keeps its number.
LEMMA ShiftedRule ==
    ASSUME NEW choice, NEW P, Mine(P), NEW r \in Store(choice, P)
    PROVE  /\ IsRule(Shifted(r))
           /\ Shifted(r).on = r.on /\ Shifted(r).of = r.of
           /\ Shifted(r).action = r.action /\ Shifted(r).builtin = r.builtin
           /\ r.at = 0 \/ BlockStart <= r.at => Shifted(r) = r
           /\ r.at > 0 /\ r.at < BlockStart => Shifted(r).at = r.at + 1 /\ r.at + 1 < BlockStart
<1>0. /\ BuiltIn \in Nat /\ BlockStart \in Nat /\ UserStart \in Nat
      /\ BuiltIn < BlockStart /\ BlockStart < UserStart
  BY PrecedenceBands
<1>1. IsRule(r) /\ r.at \in Nat
  BY StoreRules DEF IsRule
<1>2. r.at < BlockStart =>
         r \in builtin_rules /\ r.builtin /\ r.at < BuiltIn /\ (r.at > 0 => r.action # "Capture")
  <2>1. \A q \in blocking_rules(choice) : BlockStart <= q.at
    BY BlockingRules
  <2>2. \A q \in P : UserStart <= q.at /\ q.at \in Nat
    BY <1>0 DEF Mine, IsOwn, IsRule
  <2>3. ASSUME r.at < BlockStart PROVE r \in builtin_rules
    BY <1>0, <1>1, <2>1, <2>2, <2>3, BlockingRules DEF Store, IsRule
  <2> QED BY <1>1, <2>3, BuiltInRules
<1>3. CASE r.at > 0 /\ r.at < BlockStart
  <2>1. Shifted(r) = Rule(r.on, r.of, r.action, r.at + 1, r.builtin)
    <3>1. r.builtin /\ r.action # "Capture" /\ r.at \in 1 .. BlockStart - 1
      BY <1>0, <1>1, <1>2, <1>3
    <3>2. Shifted(r) = [r EXCEPT !.at = r.at + 1]
      BY <3>1 DEF Shifted
    <3> QED BY <1>1, <3>2, RuleFields
  <2>2. IsRule(Shifted(r))
    BY <1>1, <2>1 DEF IsRule, Rule
  <2> QED BY <1>0, <1>1, <1>2, <1>3, <2>1, <2>2 DEF Rule
<1>4. CASE r.at = 0 \/ BlockStart <= r.at
  <2>1. ~(r.at \in 1 .. BlockStart - 1)
    BY <1>0, <1>1, <1>4
  <2>2. Shifted(r) = r
    BY <2>1 DEF Shifted
  <2> QED BY <1>0, <1>1, <1>4, <2>2
<1> QED BY <1>0, <1>1, <1>3, <1>4

\* The endpoint's bypass fits in, for every endpoint and whatever the person
\* has added (with_active_endpoint).
LEMMA ToldRules ==
    ASSUME NEW choice \in {"Block", "Allow"}, NEW P, Mine(P), NEW server \in Servers
    PROVE  LET told == WithEndpoint(Store(choice, P), server)
           IN  InOrder(told) /\ Own(server) \in told
                  /\ \A r \in told : r.action = "Reject" => r.builtin
<1> DEFINE rs == Store(choice, P)
           moved == {Shifted(r) : r \in rs}
           own == Own(server)
           all == moved \cup {own}
<1>0. /\ BuiltIn \in Nat /\ BlockStart \in Nat /\ UserStart \in Nat
      /\ BuiltIn < BlockStart /\ BlockStart < UserStart /\ 1 < BlockStart
  BY PrecedenceBands DEF BuiltIn
<1>1. /\ \A r \in rs : IsRule(r) /\ r.at \in Nat
      /\ Apart(rs)
      /\ \A r \in rs : /\ r.builtin => r.at < UserStart
                       /\ r.builtin => r \in builtin_rules \/ r \in blocking_rules(choice)
                       /\ ~r.builtin => r \in P
  BY StoreRules DEF IsRule
<1>2. /\ IsRule(own) /\ own.on = server[1] /\ own.of = server[2] /\ own.action = "Bypass"
      /\ own.at = 1 /\ own.builtin /\ own.on \in {"name", "range"}
  <2>1. server[1] \in {"name", "range"}
    BY RulesAssumption
  <2> QED BY <2>1 DEF Own, Rule, IsRule, Kinds, Actions
<1>3. ~Has(rs, own)
  <2> SUFFICES ASSUME NEW s \in rs, s.builtin, s.on = own.on, s.of = own.of, s.action = own.action
               PROVE  FALSE
    BY DEF Has
  <2>1. s \in builtin_rules
    BY <1>1, <1>2, BlockingRules
  <2>2. s.on = "range" /\ s.of \in ToSet(Local)
    BY <1>2, <2>1, BuiltInRules
  <2> QED BY <1>2, <2>2, RulesAssumption
<1>4. \A r \in rs :
         /\ IsRule(Shifted(r))
         /\ Shifted(r).on = r.on /\ Shifted(r).of = r.of
         /\ Shifted(r).action = r.action /\ Shifted(r).builtin = r.builtin
         /\ r.at = 0 \/ BlockStart <= r.at => Shifted(r) = r
         /\ r.at > 0 /\ r.at < BlockStart => Shifted(r).at = r.at + 1 /\ r.at + 1 < BlockStart
  BY ShiftedRule
<1>5. Capture \in all
  <2>1. Capture \in rs /\ Capture.at = 0
    BY BuiltInRules DEF Capture, Store, Rule
  <2>2. Shifted(Capture) = Capture
    BY <1>4, <2>1
  <2> QED BY <2>1, <2>2
<1> HIDE DEF rs, own
<1>6. Apart(all)
  <2>1. \A r, s \in rs : Shifted(r).at = Shifted(s).at => r = s
    <3> SUFFICES ASSUME NEW r \in rs, NEW s \in rs, Shifted(r).at = Shifted(s).at PROVE r.at = s.at
      BY <1>1 DEF Apart
    <3>1. r.at \in Nat /\ s.at \in Nat
      BY <1>1
    <3>2. (r.at = 0 \/ BlockStart <= r.at) \/ (r.at > 0 /\ r.at < BlockStart)
      BY <1>0, <3>1
    <3>3. (s.at = 0 \/ BlockStart <= s.at) \/ (s.at > 0 /\ s.at < BlockStart)
      BY <1>0, <3>1
    <3> QED BY <1>0, <1>4, <3>1, <3>2, <3>3
  <2>2. \A r \in rs : Shifted(r).at # 1
    <3> SUFFICES ASSUME NEW r \in rs PROVE Shifted(r).at # 1
      OBVIOUS
    <3>1. r.at \in Nat
      BY <1>1
    <3> QED BY <1>0, <1>4, <3>1
  <2> QED BY <1>2, <2>1, <2>2 DEF Apart
<1>7. \A r \in all : IsRule(r) /\ r.at \in Nat
  <2>1. \A r \in all : IsRule(r)
    BY <1>2, <1>4
  <2> QED BY <2>1 DEF IsRule
<1>8. \A r \in moved : r.builtin /\ r.action = "Bypass" => r.at < BlockStart
  <2> SUFFICES ASSUME NEW q \in rs, q.builtin, q.action = "Bypass" PROVE Shifted(q).at < BlockStart
    BY <1>4
  <2>1. q \in builtin_rules
    BY <1>1, BlockingRules
  <2>2. q.at \in Nat /\ q.at < BuiltIn
    BY <1>1, <2>1, BuiltInRules
  <2> QED BY <1>0, <1>4, <2>2
<1> HIDE DEF moved
<1>9. FirstOf(all).action = "Capture"
  <2>1. Capture.at = 0 /\ Capture.action = "Capture"
    BY DEF Capture, Rule
  <2>2. FirstOf(all) \in all /\ FirstOf(all).at <= Capture.at
    BY <1>5, <1>7, FirstOfType
  <2>3. FirstOf(all).at = 0
    BY <1>7, <2>1, <2>2
  <2>4. FirstOf(all) = Capture
    BY <1>5, <1>6, <2>1, <2>2, <2>3 DEF Apart
  <2> QED BY <2>1, <2>4
<1>10. WithEndpoint(rs, server) = all
  BY <1>3, <1>6, <1>8, <1>9 DEF WithEndpoint, moved, own, Own, Shifted, Apart
<1>11. ASSUME NEW r \in all
       PROVE  /\ r.builtin => r.at < UserStart
              /\ ~r.builtin => UserStart <= r.at /\ r.on # "port" /\ r.action \in {"Tunnel", "Bypass"}
              /\ r.on = "port" => r.of \in {<<"53">>, <<"853">>}
              /\ r.action = "Capture" => r.on = "port"
              /\ r.builtin /\ r.action = "Tunnel" => r.on = "range"
              /\ r.action = "Reject" => r.builtin
  <2>1. CASE r = own
    BY <1>0, <1>2, <2>1
  <2>2. CASE r \in moved
    <3>1. PICK q \in rs : r = Shifted(q)
      BY <2>2 DEF moved
    <3>2. /\ r.on = q.on /\ r.of = q.of /\ r.action = q.action /\ r.builtin = q.builtin
      BY <1>4, <3>1
    <3>3. q.at \in Nat
      BY <1>1
    <3>4. CASE q \in builtin_rules
      <4>1. q.builtin /\ q.at < BuiltIn
        BY <3>4, BuiltInRules
      <4>2. r.at < BlockStart
        BY <1>0, <1>4, <3>1, <3>3, <4>1
      <4>3. r.at \in Nat
        BY <1>7, <3>1 DEF moved
      <4>4. /\ q.action = "Capture" => q.on = "port"
            /\ q.on = "port" => q.of = <<"53">>
            /\ q.action = "Tunnel" => q.on = "range"
            /\ q.action # "Reject"
        <5>1. q.on \in Kinds
          BY <1>1 DEF IsRule
        <5> QED BY <3>4, <5>1, BuiltInRules DEF Kinds
      <4> QED BY <1>0, <3>2, <4>1, <4>2, <4>3, <4>4
    <3>5. CASE q \in blocking_rules(choice)
      <4>1. /\ q.builtin /\ q.action = "Reject" /\ BlockStart <= q.at /\ q.at < UserStart
            /\ q.on = "suffix" \/ (q.on = "port" /\ q.of = <<"853">>)
        BY <3>5, BlockingRules
      <4>2. r = q
        BY <1>4, <3>1, <4>1
      <4> QED BY <4>1, <4>2
    <3>6. CASE q \in P
      <4>1. /\ ~q.builtin /\ q.on # "port" /\ q.action \in {"Tunnel", "Bypass"} /\ UserStart <= q.at
        BY <1>0, <3>6 DEF Mine, IsOwn
      <4>2. r = q
        BY <1>0, <1>4, <3>1, <3>3, <4>1
      <4> QED BY <4>1, <4>2
    <3> QED BY <1>1, <3>4, <3>5, <3>6
  <2> QED BY <2>1, <2>2
<1>12. InOrder(all)
  BY <1>5, <1>6, <1>7, <1>11 DEF InOrder
<1> QED BY <1>10, <1>11, <1>12 DEF rs, own

\* The rule that decides: it matches, and no rule that matches comes before it
\* (Evaluator::evaluate).
LEMMA Decides ==
    ASSUME NEW rs, InOrder(rs), NEW flow, NEW r \in rs, Matches(r, flow)
    PROVE  \E f \in rs : /\ Matches(f, flow) /\ Evaluate(rs, flow) = f.action
                         /\ \A s \in rs : Matches(s, flow) => f.at <= s.at
<1> DEFINE hits == {s \in rs : Matches(s, flow)}
<1>1. hits # {} /\ \A s \in hits : s.at \in Nat
  BY DEF InOrder, IsRule
<1>2. FirstOf(hits) \in hits /\ \A s \in hits : FirstOf(hits).at <= s.at
  BY <1>1, FirstOfType
<1>3. Evaluate(rs, flow) = FirstOf(hits).action
  BY <1>1 DEF Evaluate
<1>4. FirstOf(hits) \in rs /\ Matches(FirstOf(hits), flow)
  BY <1>2
<1>5. \A s \in rs : Matches(s, flow) => FirstOf(hits).at <= s.at
  BY <1>2
<1> HIDE DEF hits
<1> QED BY <1>3, <1>4, <1>5

\* A built-in rule that matches decides, whatever rules the person has added
\* (validate_rule_set).
LEMMA BuiltInDecides ==
    ASSUME NEW rs, InOrder(rs), NEW flow, NEW r \in rs, r.builtin, Matches(r, flow)
    PROVE  Evaluate(rs, flow) = Evaluate({s \in rs : s.builtin}, flow)
<1> DEFINE ours == {s \in rs : s.builtin}
<1>1. InOrder(ours)
  BY DEF InOrder, Apart, Capture, Rule
<1>2. \A s \in rs : s.at \in Nat /\ (s.builtin => s.at < UserStart) /\ (~s.builtin => UserStart <= s.at)
  BY DEF InOrder, IsRule
<1>3. PICK f \in rs : /\ Matches(f, flow) /\ Evaluate(rs, flow) = f.action
                      /\ \A s \in rs : Matches(s, flow) => f.at <= s.at
  BY Decides
<1>4. PICK g \in ours : /\ Matches(g, flow) /\ Evaluate(ours, flow) = g.action
                        /\ \A s \in ours : Matches(s, flow) => g.at <= s.at
  BY <1>1, Decides
<1>5. f.at <= r.at /\ r.at < UserStart
  BY <1>2, <1>3
<1>6. f \in ours
  BY <1>2, <1>5, PrecedenceBands
<1>7. f.at <= g.at /\ g.at <= f.at
  BY <1>3, <1>4, <1>6
<1>8. f = g
  BY <1>2, <1>4, <1>7 DEF InOrder, Apart
<1> QED BY <1>3, <1>4, <1>8

\* A lookup is captured (builtin_rules.rs:100).
LEMMA LookupsAreCaptured ==
    ASSUME NEW rs, InOrder(rs), NEW flow, flow.port = "53"
    PROVE  Evaluate(rs, flow) = "Capture"
<1>1. Capture \in rs /\ Capture.at = 0 /\ Capture.on = "port" /\ Capture.of = <<"53">>
      /\ Capture.action = "Capture"
  BY DEF InOrder, Capture, Rule
<1>2. Matches(Capture, flow)
  BY <1>1 DEF Matches
<1>3. PICK f \in rs : /\ Matches(f, flow) /\ Evaluate(rs, flow) = f.action
                      /\ \A s \in rs : Matches(s, flow) => f.at <= s.at
  BY <1>1, <1>2, Decides
<1>4. f.at \in Nat /\ f.at <= 0
  BY <1>1, <1>2, <1>3 DEF InOrder, IsRule
<1>5. f = Capture
  BY <1>1, <1>4 DEF InOrder, Apart
<1> QED BY <1>1, <1>3, <1>5

\* The tunnel's own packets go direct (with_active_endpoint).
LEMMA EndpointIsBypassed ==
    ASSUME NEW rs, InOrder(rs), NEW server, Own(server) \in rs, NEW flow, flow.port # "53",
           Matches(Own(server), flow)
    PROVE  Evaluate(rs, flow) = "Bypass"
<1>1. Own(server).at = 1 /\ Own(server).action = "Bypass"
  BY DEF Own, Rule
<1>2. Capture \in rs /\ Capture.at = 0 /\ ~Matches(Capture, flow)
  BY DEF InOrder, Capture, Rule, Matches
<1>3. PICK f \in rs : /\ Matches(f, flow) /\ Evaluate(rs, flow) = f.action
                      /\ \A s \in rs : Matches(s, flow) => f.at <= s.at
  BY Decides
<1>4. f.at \in Nat /\ f.at <= 1
  BY <1>1, <1>3 DEF InOrder, IsRule
<1>5. f.at # 0
  BY <1>2, <1>3 DEF InOrder, Apart
<1>6. f = Own(server)
  BY <1>1, <1>4, <1>5 DEF InOrder, Apart
<1> QED BY <1>1, <1>3, <1>6

\* A name is looked up where it is routed, but for one with a Tunnel rule ahead
\* of a bypass (dns_rules).
LEMMA AnsweredWhereRouted ==
    ASSUME NEW rs, InOrder(rs), \A r \in rs : r.action = "Reject" => r.builtin, NEW host
    PROVE  LET does == Evaluate(rs, [to |-> "name", dest |-> host, port |-> "443"])
           IN  CASE AnsweredBy(DnsChain(rs), host) = "nobody" -> does = "Reject"
                 [] AnsweredBy(DnsChain(rs), host) = "local"  ->
                       does = "Bypass" \/ TunnelAhead(rs, host)
                 [] OTHER -> does = "Tunnel"
<1> DEFINE flow == [to |-> "name", dest |-> host, port |-> "443"]
           does == Evaluate(rs, flow)
           named == {r \in rs : r.action \in {"Bypass", "Reject"} /\ r.on \in {"name", "suffix"}}
           Written(r) == [r EXCEPT !.of = Normal(r.of)]
           hits == {r \in DnsChain(rs) : IF r.on = "name" THEN r.of = host ELSE IsPrefix(r.of, host)}
<1>0. flow.to = "name" /\ flow.dest = host /\ flow.port = "443"
  OBVIOUS
<1>1. DnsChain(rs) = {Written(r) : r \in named}
  BY DEF DnsChain
<1>2. \A r \in rs : Written(r) = Rule(r.on, Normal(r.of), r.action, r.at, r.builtin)
  BY RuleFields DEF InOrder
<1>3. \A r \in rs : /\ Written(r).on = r.on /\ Written(r).of = Normal(r.of)
                    /\ Written(r).action = r.action /\ Written(r).at = r.at
  BY <1>2 DEF Rule
<1> HIDE DEF flow, Written
<1>4. \A r \in rs : r.on = "name" => (Matches(r, flow) <=> host = Normal(r.of))
  BY <1>0 DEF Matches
<1>5. \A r \in rs : r.on = "suffix" => (Matches(r, flow) <=> IsPrefix(Normal(r.of), host))
  BY <1>0 DEF Matches
<1>6. \A r \in rs : Matches(r, flow) => r.on \in {"name", "suffix"}
  <2> SUFFICES ASSUME NEW r \in rs, Matches(r, flow) PROVE r.on \in {"name", "suffix"}
    OBVIOUS
  <2>1. r.on \in Kinds
    BY DEF InOrder, IsRule
  <2>2. CASE r.on = "port"
    <3>1. <<"443">> = r.of
      BY <1>0, <2>2 DEF Matches
    <3>2. r.of \in {<<"53">>, <<"853">>}
      BY <2>2 DEF InOrder
    <3> QED BY <3>1, <3>2
  <2>3. r.on # "range"
    BY <1>0 DEF Matches
  <2> QED BY <2>1, <2>2, <2>3 DEF Kinds
<1>7. \A r \in named : Written(r) \in hits <=> Matches(r, flow)
  <2> SUFFICES ASSUME NEW r \in named PROVE Written(r) \in hits <=> Matches(r, flow)
    OBVIOUS
  <2>1. Written(r) \in DnsChain(rs)
    BY <1>1
  <2> QED BY <1>3, <1>4, <1>5, <2>1
<1>8. \A h \in hits : \E r \in named : h = Written(r) /\ Matches(r, flow)
  BY <1>1, <1>7
<1>9. \A r \in rs : r.at \in Nat /\ r.action \in Actions /\ r.builtin \in BOOLEAN
  BY DEF InOrder, IsRule
<1>10. AnsweredBy(DnsChain(rs), host) =
          IF hits = {} THEN "tunnel" ELSE IF FirstOf(hits).action = "Reject" THEN "nobody" ELSE "local"
  BY DEF AnsweredBy
<1> HIDE DEF hits, does
<1>11. CASE hits = {}
  <2>1. \A r \in rs : Matches(r, flow) => r.action = "Tunnel"
    <3> SUFFICES ASSUME NEW r \in rs, Matches(r, flow) PROVE r.action = "Tunnel"
      OBVIOUS
    <3>1. r.on \in {"name", "suffix"} /\ r \notin named
      BY <1>6, <1>7, <1>11
    <3>2. r.action # "Capture"
      BY <3>1 DEF InOrder
    <3> QED BY <1>9, <3>1, <3>2 DEF Actions
  <2>4. does = "Tunnel"
    <3>1. CASE \E r \in rs : Matches(r, flow)
      BY <2>1, <3>1, Decides DEF does
    <3>2. CASE ~\E r \in rs : Matches(r, flow)
      BY <3>2 DEF does, Evaluate
    <3> QED BY <3>1, <3>2
  <2>5. AnsweredBy(DnsChain(rs), host) = "tunnel"
    BY <1>10, <1>11
  <2> QED BY <2>4, <2>5 DEF does, flow
<1>12. CASE hits # {}
  <2>1. \A h \in hits : h.at \in Nat
    BY <1>3, <1>8, <1>9
  <2>2. FirstOf(hits) \in hits /\ \A h \in hits : FirstOf(hits).at <= h.at
    BY <1>12, <2>1, FirstOfType
  <2>3. PICK g \in named : FirstOf(hits) = Written(g) /\ Matches(g, flow)
    BY <1>8, <2>2
  <2>4. FirstOf(hits).action = g.action /\ FirstOf(hits).at = g.at
    BY <1>3, <2>3
  <2>5. PICK f \in rs : /\ Matches(f, flow) /\ does = f.action
                        /\ \A s \in rs : Matches(s, flow) => f.at <= s.at
    BY <2>3, Decides DEF does
  <2>6. f.at <= g.at
    BY <2>3, <2>5
  <2>7. f.action \in {"Bypass", "Reject"} => f = g
    <3> SUFFICES ASSUME f.action \in {"Bypass", "Reject"} PROVE f = g
      OBVIOUS
    <3>1. f \in named /\ Written(f) \in hits
      BY <1>6, <1>7, <2>5
    <3>2. g.at <= f.at
      BY <1>3, <2>2, <2>4, <3>1
    <3> QED BY <1>9, <2>3, <2>6, <3>2 DEF InOrder, Apart
  <2>8. f.action # "Capture" /\ (f.builtin => f.action # "Tunnel")
    <3>1. f.on \in {"name", "suffix"}
      BY <1>6, <2>5
    <3> QED BY <3>1 DEF InOrder
  <2>9. CASE g.action = "Reject"
    <3>1. g.builtin /\ g.at < UserStart
      BY <2>9 DEF InOrder
    <3>2. f.builtin
      BY <1>9, <2>6, <3>1, PrecedenceBands DEF InOrder
    <3>3. f = g
      BY <1>9, <2>7, <2>8, <3>2 DEF Actions
    <3>4. AnsweredBy(DnsChain(rs), host) = "nobody"
      BY <1>10, <1>12, <2>4, <2>9
    <3> QED BY <2>5, <2>9, <3>3, <3>4 DEF does, flow
  <2>10. CASE g.action = "Bypass"
    <3>1. AnsweredBy(DnsChain(rs), host) = "local"
      BY <1>10, <1>12, <2>4, <2>10
    <3>2. CASE f.action \in {"Bypass", "Reject"}
      BY <2>5, <2>7, <2>10, <3>1, <3>2 DEF does, flow
    <3>3. CASE f.action = "Tunnel"
      <4>1. f.at < g.at
        BY <1>9, <2>3, <2>6, <2>10, <3>3 DEF InOrder, Apart
      <4>2. TunnelAhead(rs, host)
        BY <2>3, <2>5, <2>10, <3>3, <4>1 DEF TunnelAhead, flow
      <4> QED BY <3>1, <4>2
    <3> QED BY <1>9, <2>8, <3>2, <3>3 DEF Actions
  <2> QED BY <2>3, <2>9, <2>10
<1> QED BY <1>11, <1>12

\* A store made of the three kinds routes as they rule.
LEMMA RulesRoute == ASSUME RulesInv PROVE RoutedAsRuled
<1> DEFINE P == Personal(rules)
<1>0. policy \in {"Block", "Allow"} /\ Mine(P) /\ rules = Store(policy, P)
  BY DEF RulesInv
<1> HIDE DEF P
<1>1. ASSUME NEW choice \in {"Block", "Allow"} PROVE Acceptable(WithBlock(rules, choice), choice)
  BY <1>0, <1>1, StoreParts, StoreAcceptable
<1>2. ASSUME NEW server \in Servers
      PROVE  LET told == WithEndpoint(rules, server)
                 ours == {r \in told : r.builtin}
             IN  /\ told # {}
                 /\ \A flow \in Flows :
                       /\ (\E r \in ours : Matches(r, flow)) => Evaluate(told, flow) = Evaluate(ours, flow)
                       /\ flow.port = "53" => Evaluate(told, flow) = "Capture"
                       /\ flow.port # "53" /\ Matches(Rule(server[1], server[2], "Bypass", 1, TRUE), flow)
                             => Evaluate(told, flow) = "Bypass"
                 /\ \A host \in Hosts :
                       LET does == Evaluate(told, [to |-> "name", dest |-> host, port |-> "443"])
                       IN  CASE AnsweredBy(DnsChain(told), host) = "nobody" -> does = "Reject"
                             [] AnsweredBy(DnsChain(told), host) = "local"  ->
                                   does = "Bypass" \/ TunnelAhead(told, host)
                             [] OTHER -> does = "Tunnel"
  <2> DEFINE told == WithEndpoint(rules, server)
  <2>1. InOrder(told) /\ Own(server) \in told /\ \A r \in told : r.action = "Reject" => r.builtin
    BY <1>0, <1>2, ToldRules
  <2> HIDE DEF told
  <2>2. told # {}
    BY <2>1
  <2>3. ASSUME NEW flow \in Flows, NEW r \in told, r.builtin, Matches(r, flow)
        PROVE  Evaluate(told, flow) = Evaluate({s \in told : s.builtin}, flow)
    BY <2>1, <2>3, BuiltInDecides
  <2>4. ASSUME NEW flow \in Flows, flow.port = "53" PROVE Evaluate(told, flow) = "Capture"
    BY <2>1, <2>4, LookupsAreCaptured
  <2>5. ASSUME NEW flow \in Flows, flow.port # "53",
               Matches(Rule(server[1], server[2], "Bypass", 1, TRUE), flow)
        PROVE  Evaluate(told, flow) = "Bypass"
    <3>1. Matches(Own(server), flow)
      BY <2>5 DEF Own
    <3> QED BY <2>1, <2>5, <3>1, EndpointIsBypassed
  <2>6. ASSUME NEW host \in Hosts
        PROVE  LET does == Evaluate(told, [to |-> "name", dest |-> host, port |-> "443"])
               IN  CASE AnsweredBy(DnsChain(told), host) = "nobody" -> does = "Reject"
                     [] AnsweredBy(DnsChain(told), host) = "local"  ->
                           does = "Bypass" \/ TunnelAhead(told, host)
                     [] OTHER -> does = "Tunnel"
    BY <2>1, AnsweredWhereRouted
  <2> QED BY <2>2, <2>3, <2>4, <2>5, <2>6 DEF told
<1> QED BY <1>1, <1>2 DEF RoutedAsRuled

\* For any built-in rules, any endpoints and whatever a person does to their
\* own rules: a tunnel can be had to every endpoint, what a built-in rule
\* decides stands, lookups are captured, the tunnel's own packets go direct,
\* names are looked up where they are routed, and the choice about encrypted
\* DNS can always be made (rule.rs:270, builtin_rules.rs:100, primary.rs:426).
THEOREM RulesAreKept == RulesSpec => []RoutedAsRuled
<1> QED BY RulesRoute, RulesInitInv, RulesNextInv, PTL DEF RulesSpec
=============================================================================
