----------------------------- MODULE PathWatch -----------------------------
(***************************************************************************)
(* Which network carries the tunnel: the failover machine                  *)
(* (dnet-core/src/failover.rs), the path monitor that feeds it             *)
(* (path_monitor.rs) and the loop that carries its decisions out           *)
(* (dnetd/src/netwatch.rs), for a profile whose host route is ours to      *)
(* steer.  A profile that is only followed decides nothing.                *)
(*                                                                         *)
(* Times are kept as ages in ticks of the loop.  Smoothed quality is the   *)
(* level it amounts to, and any sample may lead to any level; a path with  *)
(* no fresh sample reads as good and has proven nothing.                   *)
(***************************************************************************)
EXTENDS Integers, Sequences, FiniteSets

CONSTANTS
    Paths,          \* adapters
    GatewaysOf,     \* the routers each adapter may be given; adapters on one LAN share theirs
    Preference,     \* NetworkPath::preference
    Levels,         \* measured levels: 0 unusable, 1 lossy, 2 poor, 3 good
    DegradeFor, UnusableFor, StableFor, MinDwell, MaxMoves, Window,     \* FailoverConfig
    HoldAfter       \* HOLD_AFTER_FAILURE

NoPath == "no path"

ASSUME WatchAssumption ==
    /\ NoPath \notin Paths
    /\ Levels \subseteq 0 .. 3 /\ 3 \in Levels
    /\ {DegradeFor, UnusableFor, StableFor, MinDwell, MaxMoves, Window, HoldAfter} \subseteq Nat

Gateways == UNION {GatewaysOf[p] : p \in Paths}
NoGateway == "no gateway"
Never == -1         \* Option::None, for an age
Unmeasured == 4

\* A host route to the endpoint, as the table of the system has it.
Rows == {r \in [on : Paths, gateway : Gateways] : r.gateway \in GatewaysOf[r.on]}

VARIABLES
    known,      \* PathMonitor::paths, with the level of their evidence
    fail,       \* FailoverState
    route,      \* the gateway of the HostRoute kept with the tunnel
    rows,       \* the host routes to the endpoint that were put in the table
    hold,       \* ticks left of hold_until
    started,    \* Loop::started
    deciding,   \* the loop has been woken and has still to decide
    adrift,     \* history: a carry-over failed in a way that the monitor is not told of
    doubled     \* history: a rewrite failed between putting one route in and taking the other out

watchVars == <<known, fail, route, rows, hold, started, deciding, adrift, doubled>>

\* An adapter that is up without a gateway cannot carry the profile, and counts
\* as down.  A gateway still listed for one that is down is left out.
Seen(p) == [status : {"gone", "down"}, gateway : {NoGateway}]
           \cup [status : {"up"}, gateway : GatewaysOf[p]]
\* What the system may say at any moment.
Networks == {now \in [Paths -> UNION {Seen(p) : p \in Paths}] : \A p \in Paths : now[p] \in Seen(p)}
Ages(most) == Never .. most

WatchTypeOK ==
    /\ \A p \in Paths : /\ known[p].seen \in Seen(p)
                        /\ known[p].level \in Levels \cup {Unmeasured}
                        /\ fail.good[p] \in Ages(StableFor)
    /\ fail.carrying \in Paths \cup {NoPath}
    /\ fail.since \in Ages(MinDwell) /\ fail.below \in Ages(DegradeFor)
    /\ fail.bad \in Ages(UnusableFor)
    /\ fail.moves \in Seq(0 .. Window)
    /\ route \in Gateways /\ rows \subseteq Rows /\ hold \in 0 .. HoldAfter
    /\ started \in BOOLEAN /\ deciding \in BOOLEAN /\ adrift \in BOOLEAN /\ doubled \in BOOLEAN

-----------------------------------------------------------------------------
(* FailoverState.                                                          *)

\* carrying_on: everything else starts from nothing.
CarryingOn(p) ==
    [carrying |-> p, since |-> Never, below |-> Never, bad |-> Never,
     good |-> [q \in Paths |-> Never], moves |-> <<>>]

\* The tunnel was started over one of the networks; the first look comes after.
WatchInit ==
    /\ known = [p \in Paths |-> [seen |-> [status |-> "gone", gateway |-> NoGateway],
                                 level |-> Unmeasured]]
    /\ fail = CarryingOn(NoPath)
    /\ \E r \in Rows : rows = {r} /\ route = r.gateway
    /\ hold = 0 /\ started = FALSE /\ deciding = FALSE
    /\ adrift = FALSE /\ doubled = FALSE

Usable(p) == known[p].seen.status = "up"
Band(p) == CASE known[p].level = 0 -> 0 [] known[p].level \in {1, 2} -> 1 [] OTHER -> 2
Measured(p) == known[p].level # Unmeasured

\* best: the band, then the preference.  What decides after that is not modelled.
BestOf(S) ==
    {p \in S : \A q \in S : \/ Band(p) > Band(q)
                            \/ Band(p) = Band(q) /\ Preference[p] >= Preference[q]}

\* The ages of the moves, oldest first.  Only the newest MaxMoves are kept: the
\* budget is spent exactly when the oldest of those is inside the window.
WithMove(ages) ==
    LET all == Append(ages, 0) IN IF Len(all) > MaxMoves THEN Tail(all) ELSE all

MovedTo(f, to, counts) ==
    [f EXCEPT !.carrying = to, !.below = Never, !.bad = Never,
              !.since = IF counts THEN 0 ELSE @,
              !.moves = IF counts THEN WithMove(@) ELSE @]

From(age) == IF age = Never THEN 0 ELSE age

\* How long each path has been good, and the carrying one bad, without a break.
GoodClocks(f) ==
    [f EXCEPT !.good = [p \in Paths |->
        IF Usable(p) /\ Band(p) = 2 /\ Measured(p) THEN From(f.good[p]) ELSE Never]]
BadClocks(f, p) ==
    [f EXCEPT !.below = IF Band(p) < 2 THEN From(@) ELSE Never,
              !.bad = IF Band(p) = 0 THEN From(@) ELSE Never]

\* is_better
Better(p, q) ==
    \/ Band(p) > Band(q)
    \/ Band(p) = 1 /\ Band(q) = 1 /\ known[p].level > known[q].level

Stable(f, p) == Band(p) = 2 /\ f.good[p] >= StableFor

\* The paths worth leaving the carrying one for.
Urgent(f) == f.bad # Never /\ f.bad >= UnusableFor
Ready(f) ==
    {p \in Paths \ {f.carrying} :
        /\ Usable(p) /\ Better(p, f.carrying)
        /\ Urgent(f) \/ (IF Band(p) = 2 THEN Stable(f, p) ELSE Measured(p))}
Preferred(f) ==
    {p \in Paths \ {f.carrying} :
        Usable(p) /\ Preference[p] > Preference[f.carrying] /\ Stable(f, p)}

\* Where a voluntary move may go.
Targets(f) ==
    LET dwelled == f.since = Never \/ f.since >= MinDwell
        sustained == Urgent(f) \/ (f.below # Never /\ f.below >= DegradeFor)
    IN IF ~dwelled \/ Len(f.moves) >= MaxMoves THEN {}
       ELSE IF Band(f.carrying) < 2 THEN (IF sustained THEN BestOf(Ready(f)) ELSE {})
       ELSE BestOf(Preferred(f))

-----------------------------------------------------------------------------
(* Carrying a decision out.                                                *)

\* Slip: a move that failed is taken to have happened.
PutBackNever(f, from) == f

\* A failed move: the monitor is put back on the path the tunnel was on, if it
\* was on one.
PutBack(f, from) == IF from = NoPath THEN f ELSE CarryingOn(from)

\* A link that is lost when the loop is held, or while it is, is still carrying
\* when it is back, and its gateway is then compared with the one it had, if it
\* had one, while it was lost.
Away(seen) == seen.status # "up"

RowsVia(gateway) == {r \in rows : r.gateway = gateway}

\* WindowsRouteInstaller::rewrite.  A HostRoute has no interface: the new one is
\* put on the adapter the system reaches the gateway by, and where the gateway
\* stays the same nothing is touched, whichever adapter was meant.
Rewrite(gateway) ==
    \/ gateway = route /\ UNCHANGED <<route, rows>>
    \/ /\ gateway # route /\ route' = gateway
       /\ \E r \in Rows : r.gateway = gateway /\ rows' = (rows \ RowsVia(route)) \cup {r}

\* Nothing was touched; or the new route is in and an old one could not be taken
\* out, of which the tunnel is told as if nothing had been.
RewriteFails(gateway) ==
    /\ UNCHANGED route
    /\ \/ UNCHANGED <<rows, doubled>>
       \/ /\ gateway # route /\ doubled' = TRUE
          /\ \E r \in Rows, left \in SUBSET RowsVia(route) :
                /\ r.gateway = gateway /\ left # {}
                /\ rows' = (rows \ RowsVia(route)) \cup left \cup {r}

\* Tunnels::carry_over: the route is rewritten and the tunnel rebound; or the
\* rewrite fails; or the rebind does, with the new route in place.
Carry(f, from, to) ==
    LET gateway == known[to].seen.gateway
        mislaid == adrift \/ Away(known[from].seen)
    IN \/ /\ fail' = f /\ Rewrite(gateway)
          /\ adrift' = FALSE
          /\ UNCHANGED <<hold, doubled>>
       \/ /\ fail' = PutBack(f, from) /\ hold' = HoldAfter
          /\ \/ RewriteFails(gateway) /\ adrift' = (from = NoPath \/ mislaid)
             \/ /\ Rewrite(gateway) /\ UNCHANGED doubled
                /\ adrift' = (from # NoPath /\ (gateway # route \/ mislaid))

\* Loop::decide and FailoverState::evaluate.  A held loop decides nothing.
Decide ==
    /\ deciding /\ deciding' = FALSE
    /\ LET f == GoodClocks(fail)
           cur == fail.carrying
           usable == {p \in Paths : Usable(p)}
           stay == BadClocks(f, cur)
       IN \/ /\ hold > 0
             /\ UNCHANGED <<fail, route, rows, hold, adrift, doubled>>
          \/ /\ hold = 0 /\ cur \notin usable /\ usable = {}
             /\ fail' = [f EXCEPT !.carrying = NoPath, !.since = Never,
                                  !.below = Never, !.bad = Never]
             /\ UNCHANGED <<route, rows, hold, adrift, doubled>>
          \/ /\ hold = 0 /\ cur \notin usable
             /\ \E to \in BestOf(usable) :
                   Carry(MovedTo(f, to, cur # NoPath), cur, to)
          \/ /\ hold = 0 /\ cur \in usable /\ Targets(stay) = {}
             /\ fail' = stay
             /\ UNCHANGED <<route, rows, hold, adrift, doubled>>
          \/ /\ hold = 0 /\ cur \in usable
             /\ \E to \in Targets(stay) : Carry(MovedTo(stay, to, TRUE), cur, to)
    /\ UNCHANGED <<known, started>>

-----------------------------------------------------------------------------
(* The loop.                                                               *)

\* paths_changed: what was measured of an adapter that is still there is kept.
Refreshed(now) ==
    [p \in Paths |-> [seen |-> now[p],
                      level |-> IF "gone" \in {now[p].status, known[p].seen.status}
                                THEN Unmeasured ELSE known[p].level]]

\* The carrying adapter is still there with another gateway.
NewGateway(now) ==
    LET cur == fail.carrying IN
    /\ cur # NoPath
    /\ known[cur].seen.status # "gone" /\ now[cur].status = "up"
    /\ now[cur].gateway # known[cur].seen.gateway

\* carrying_now: the adapter the endpoint is routed through if it is usable,
\* or else a usable one.
CarryingNow(now) ==
    LET up == {p \in Paths : now[p].status = "up"}
        routed == {p \in up : \E r \in rows : r.on = p}
    IN IF routed # {} THEN routed ELSE IF up # {} THEN up ELSE {NoPath}

AwayWhileHeld(now) == hold > 0 /\ fail.carrying # NoPath /\ Away(now[fail.carrying])

\* Loop::new_gateway.  One that fails is not tried again.
FollowGateway(now) ==
    LET gateway == now[fail.carrying].gateway
    IN \/ /\ ~NewGateway(now) /\ adrift' = (adrift \/ AwayWhileHeld(now))
          /\ UNCHANGED <<route, rows, hold, doubled>>
       \/ /\ NewGateway(now) /\ Rewrite(gateway) /\ hold' \in {hold, HoldAfter}
          /\ adrift' = FALSE
          /\ UNCHANGED doubled
       \/ /\ NewGateway(now) /\ RewriteFails(gateway) /\ hold' = HoldAfter
          /\ adrift' = (gateway # route)

\* Loop::refresh, after a notification or because none came for long.
Refresh(now) ==
    /\ ~deciding /\ deciding' = TRUE
    /\ known' = Refreshed(now) /\ started' = TRUE
    /\ IF started THEN FollowGateway(now) /\ UNCHANGED fail
       ELSE \E p \in CarryingNow(now) :
               /\ fail' = CarryingOn(p)
               /\ adrift' = (p # NoPath /\ route # now[p].gateway)
               /\ UNCHANGED <<route, rows, hold, doubled>>

\* The paths could not be read.
RefreshFails ==
    /\ ~deciding /\ started /\ deciding' = TRUE
    /\ UNCHANGED <<known, fail, route, rows, hold, started, adrift, doubled>>

\* probe_finished, PathMonitor::observe; and evidence that has gone stale.
Observe(p, level) ==
    /\ ~deciding /\ started /\ deciding' = TRUE
    /\ known[p].seen.status # "gone" /\ level # known[p].level
    /\ known' = [known EXCEPT ![p].level = level]
    /\ UNCHANGED <<fail, route, rows, hold, started, adrift, doubled>>

Older(age, most) == IF age \in {Never, most} THEN age ELSE age + 1

\* retain: the moves are oldest first, so those that leave the window are the
\* first n of them.
Leaving(ages) == {n \in 0 .. Len(ages) : \A i \in n + 1 .. Len(ages) : ages[i] + 1 < Window}
InWindow(ages) ==
    LET n == CHOOSE n \in Leaving(ages) : \A m \in Leaving(ages) : n <= m
    IN  [i \in 1 .. Len(ages) - n |-> ages[n + i] + 1]

Tick ==
    /\ ~deciding /\ started /\ deciding' = TRUE
    /\ fail' = [fail EXCEPT !.since = Older(@, MinDwell), !.below = Older(@, DegradeFor),
                            !.bad = Older(@, UnusableFor),
                            !.good = [p \in Paths |-> Older(fail.good[p], StableFor)],
                            !.moves = InWindow(@)]
    /\ hold' = IF hold = 0 THEN 0 ELSE hold - 1
    /\ UNCHANGED <<known, route, rows, started, adrift, doubled>>

WatchNext ==
    \/ Decide \/ RefreshFails \/ Tick
    \/ \E now \in Networks : Refresh(now)
    \/ \E p \in Paths, level \in Levels \cup {Unmeasured} : Observe(p, level)

WatchSpec == WatchInit /\ [][WatchNext]_watchVars

-----------------------------------------------------------------------------
(* Properties.                                                             *)

\* Between two decisions the host route kept with the tunnel is the one by the
\* gateway of the path the monitor says is carrying, through moves, failed moves,
\* lost links and new routers ("a failed move is not assumed to have happened",
\* netwatch.rs); and it is in the table, alone unless a rewrite failed half way.
\* It leaves by the carrying adapter unless another can have the same gateway.
\* Excused (adrift): the rebind failed after the rewrite, a move from no path or
\* the change to a new gateway failed, a link was lost when or while the loop was
\* held, or the first look did not find the tunnel's router.
RouteIsCarrying ==
    started /\ ~deciding /\ hold = 0 /\ ~adrift /\ fail.carrying # NoPath /\ Usable(fail.carrying)
    => /\ route = known[fail.carrying].seen.gateway
       /\ RowsVia(route) # {}
       /\ ~doubled => rows = RowsVia(route)
=============================================================================
