----------------------------- MODULE ProbeRace -----------------------------
(***************************************************************************)
(* A race of profiles: one probe per profile, each with a core process and *)
(* a configuration file that holds credentials (dnet-probe/src/runner.rs), *)
(* the loop that collects what they measured (dnet-probe/src/race.rs), the *)
(* rule that decides (dnet-core/src/probe.rs) and the effect that asks for *)
(* a race and can drop it (dnetd/src/effects.rs).                          *)
(*                                                                         *)
(* A probe is named by its race and its profile.  Time is counted from the *)
(* start of a race, in units in which the loop turns at least once.        *)
(***************************************************************************)
EXTENDS RaceOutcomes, Sequences, FiniteSets

CONSTANTS
    Deadline,       \* PROBE_DEADLINE
    Grace,          \* TIER_GRACE
    MinBytes,       \* USABLE_MIN_BYTES
    MinRate,        \* USABLE_MIN_BITS_PER_SEC
    Measurements,   \* what a transfer can come to
    MaxRaces,       \* bound: races asked for
    MaxUndeleted    \* bound: files whose removal fails

ASSUME RaceAssumption ==
    /\ Deadline \in Nat \ {0} /\ Grace \in Nat /\ MaxRaces \in Nat /\ MaxUndeleted \in Nat
    /\ MinBytes \in Nat /\ MinRate \in Nat
    /\ Tier \in [Profiles -> {1, 2}]
    /\ NoProfile \notin Profiles /\ "pending" \notin Profiles \cup {NoProfile}
    /\ \A m \in Measurements : m.is \in {"HandshakeFailed", "HandshakeOnly", "Transferred"}

VARIABLES
    swept,      \* the service is up and has removed what an earlier one left
    racing,     \* "none", "preparing", "running", or "joining" the probes that lost
    race,       \* number of the race, the last one asked for
    asked,      \* its profiles
    elapsed,    \* time since it started
    due,        \* the loop has not turned since the time changed
    stage,      \* of each probe
    queue,      \* reports in the channel
    board,      \* ProbeRace::entries
    decision,   \* RaceDecision
    given,      \* the report, once the orchestrator has it
    configs,    \* probe configurations on disk
    running,    \* probe cores that run
    undeleted   \* history: the ones whose removal failed

loopVars == <<racing, race, asked, elapsed, due, board, decision, given>>
probeVars == <<stage, configs, running, undeleted>>
raceVars == <<swept, loopVars, queue, probeVars>>

Probes == (1 .. MaxRaces) \X Profiles
AtWork == {"new", "starting", "failing", "measuring"}
Unraced == [p \in Profiles |-> [is |-> "out", at |-> 0]]

RaceTypeOK ==
    /\ racing \in {"none", "preparing", "running", "joining"}
    /\ race \in 0 .. MaxRaces /\ asked \subseteq Profiles
    /\ elapsed \in 0 .. Deadline
    /\ stage \in [Probes -> AtWork \cup {"out", "stopping", "over"}]
    /\ \A m \in queue : m.profile \in asked /\ m.at = elapsed
    /\ board \in [Profiles -> [is: {"out", "pending", "usable", "unusable"}, at: 0 .. Deadline]]
    /\ decision \in Profiles \cup {NoProfile, "pending"}
    /\ Len(given) <= 1
    /\ configs \subseteq Probes /\ running \subseteq Probes /\ undeleted \subseteq Probes

RaceInit ==
    /\ swept = FALSE /\ racing = "none" /\ race = 0 /\ asked = {} /\ elapsed = 0 /\ due = FALSE
    /\ stage = [x \in Probes |-> "out"]
    /\ queue = {} /\ board = Unraced /\ decision = "pending" /\ given = <<>>
    /\ configs = {} /\ running = {} /\ undeleted = {}

-----------------------------------------------------------------------------
(* The rule.                                                               *)

\* judge: a transfer shows a usable profile when enough arrived, fast enough.
Judge(m) ==
    IF /\ m.is = "Transferred" /\ m.took > 0
       /\ m.bytes >= MinBytes
       /\ m.bytes \div m.took >= MinRate
    THEN "usable" ELSE "unusable"

UsableOn(b) == {p \in Profiles : b[p].is = "usable"}
PendingOn(b) == {p \in Profiles : b[p].is = "pending"}

\* The lowest tier, then the earliest report; reports within one unit of time
\* come in any order.
BestOn(b) ==
    {p \in UsableOn(b) : \A q \in UsableOn(b) :
        \/ Tier[p] < Tier[q]
        \/ Tier[p] = Tier[q] /\ b[p].at <= b[q].at}

\* Slip: the grace period is counted with no regard to the deadline.
HeldBackPastDeadline(b, p, now) ==
    /\ Tier[p] = 2
    /\ \E q \in PendingOn(b) : Tier[q] = 1
    /\ now < b[p].at + Grace

\* A winner of the second tier waits for one of the first that is pending.
HeldBack(b, p, now) ==
    /\ Tier[p] = 2
    /\ \E q \in PendingOn(b) : Tier[q] = 1
    /\ now < Deadline
    /\ now < b[p].at + Grace

DecideOn(b, now) ==
    IF UsableOn(b) = {}
    THEN {IF PendingOn(b) # {} /\ now < Deadline THEN "pending" ELSE NoProfile}
    ELSE {IF HeldBack(b, p, now) THEN "pending" ELSE p : p \in BestOn(b)}

-----------------------------------------------------------------------------
(* The effect and the loop.                                                *)

\* The race's future ends and what it knew goes with it.
FutureEnds ==
    /\ racing' = "none" /\ asked' = {} /\ elapsed' = 0 /\ due' = FALSE
    /\ queue' = {} /\ board' = Unraced /\ decision' = "pending"

AskRace(ps) ==
    /\ swept /\ racing = "none" /\ race < MaxRaces
    /\ racing' = "preparing" /\ race' = race + 1
    /\ asked' = ps /\ given' = <<>>
    /\ UNCHANGED <<swept, elapsed, due, board, decision, queue, probeVars>>

Report(winner, b) ==
    [kind |-> "RaceFinished", winner |-> winner,
     results |-> [p \in Profiles |-> IF b[p].is \in {"usable", "unusable"} THEN b[p].is ELSE "silent"]]

\* No credentials, no origin or no ports: nothing is usable.
RefuseRace ==
    /\ racing = "preparing" /\ FutureEnds
    /\ given' = <<Report(NoProfile, Unraced)>>
    /\ UNCHANGED <<swept, race, probeVars>>

\* Profiles the configuration does not know, or whose probe cannot be
\* configured, are left out.
BeginRace ==
    \E jobs \in SUBSET asked :
        /\ racing = "preparing"
        /\ racing' = "running" /\ due' = TRUE
        /\ stage' = [x \in Probes |-> IF x[1] = race /\ x[2] \in jobs THEN "new" ELSE stage[x]]
        /\ board' = [p \in Profiles |-> IF p \in jobs THEN [is |-> "pending", at |-> 0] ELSE Unraced[p]]
        /\ UNCHANGED <<swept, race, asked, elapsed, decision, queue, given, configs, running, undeleted>>

\* The loop takes what is in the channel, fails what can no longer report when
\* the channel is closed, and decides.  The sender of the last probe goes an
\* instant after its report.
RaceTurn ==
    \E closed \in BOOLEAN :
        LET heard == [p \in Profiles |->
                        IF \E m \in queue : m.profile = p
                        THEN LET m == CHOOSE m \in queue : m.profile = p IN [is |-> m.is, at |-> m.at]
                        ELSE board[p]]
            b == [p \in Profiles |->
                    IF closed /\ heard[p].is = "pending" THEN [is |-> "out", at |-> elapsed] ELSE heard[p]]
            over == \A p \in Profiles : stage[<<race, p>>] \notin AtWork
        IN  /\ racing = "running"
            /\ closed => over
            /\ queue' = {} /\ board' = b
            /\ decision' \in DecideOn(b, elapsed)
            /\ racing' = IF decision' = "pending" THEN "running" ELSE "joining"
            /\ due' = (decision' = "pending" /\ over /\ ~closed)
            /\ UNCHANGED <<swept, race, asked, elapsed, given, probeVars>>

\* The losers are aborted and waited for; then the report is given.
RaceReturns ==
    /\ racing = "joining" /\ FutureEnds
    /\ \A p \in Profiles : stage[<<race, p>>] \notin AtWork
    /\ given' = <<Report(decision, board)>>
    /\ UNCHANGED <<swept, race, probeVars>>

\* The token is cancelled: the future is dropped, and its tasks with it.
CallOffRace ==
    /\ racing \in {"running", "joining"} /\ FutureEnds
    /\ UNCHANGED <<swept, race, given, probeVars>>

\* The loop wakes for a report, for a closed channel and every TICK.
RaceTime ==
    /\ racing = "running" /\ ~due /\ queue = {}
    /\ elapsed' = elapsed + 1 /\ due' = TRUE
    /\ UNCHANGED <<swept, racing, race, asked, board, decision, given, queue, probeVars>>

-----------------------------------------------------------------------------
(* A probe.  Aborting a task takes effect at its next await; until then it *)
(* goes on.                                                                *)

\* Only a race that has not decided looks at what is sent.
Reports(x, is) ==
    queue' = IF x[1] = race /\ racing = "running"
             THEN queue \cup {[profile |-> x[2], is |-> is, at |-> elapsed]}
             ELSE queue

MayStay(files) == Cardinality(undeleted \cup files) <= MaxUndeleted

\* ConfigFile::remove: once, and a failure is only logged.
Deletes(x) ==
    \/ configs' = configs \ {x} /\ UNCHANGED undeleted
    \/ x \in configs /\ MayStay({x}) /\ undeleted' = undeleted \cup {x} /\ UNCHANGED configs

Moves(x, from, to) ==
    /\ swept /\ stage[x] = from
    /\ stage' = [stage EXCEPT ![x] = to]
    /\ UNCHANGED <<swept, loopVars>>

ProbeBegins(x) ==
    /\ Moves(x, "new", "starting")
    /\ configs' = configs \cup {x} /\ running' = running \cup {x}
    /\ UNCHANGED <<queue, undeleted>>

\* The file cannot be made, or the guard removes it after the write or the
\* spawn has failed.
ProbeCannotBegin(x) ==
    /\ Moves(x, "new", "over")
    /\ Reports(x, "unusable")
    /\ \/ UNCHANGED <<configs, undeleted>>
       \/ MayStay({x}) /\ configs' = configs \cup {x} /\ undeleted' = undeleted \cup {x}
    /\ UNCHANGED running

\* The core has read its configuration, which is removed before the transfer.
CoreReady(x) ==
    /\ Moves(x, "starting", "measuring")
    /\ Deletes(x)
    /\ UNCHANGED <<queue, running>>

CoreNotReady(x) == Moves(x, "starting", "failing") /\ UNCHANGED <<queue, configs, running, undeleted>>

\* The core is killed, or has had its grace; dropping its handle kills it.
ProbeFails(x) ==
    /\ Moves(x, "failing", "over")
    /\ Reports(x, "unusable")
    /\ Deletes(x)
    /\ running' = running \ {x}

\* The transfer is over.  The core is stopped by a task of its own.
ProbeReports(x) ==
    /\ \E m \in Measurements : Reports(x, Judge(m))
    /\ Moves(x, "measuring", "stopping")
    /\ UNCHANGED <<configs, running, undeleted>>

CoreStopped(x) ==
    /\ Moves(x, "stopping", "over")
    /\ running' = running \ {x}
    /\ UNCHANGED <<queue, configs, undeleted>>

\* Slip: nothing guards the file of a probe that is dropped.
DiesLeavingItsFile(x) ==
    /\ stage[x] \in AtWork /\ Moves(x, stage[x], "over")
    /\ running' = running \ {x}
    /\ UNCHANGED <<queue, configs, undeleted>>

\* The task panics, or is aborted with its race: the guard removes the file,
\* the dropped handle kills the core, and there is no report.
ProbeDies(x) ==
    /\ stage[x] \in AtWork /\ Moves(x, stage[x], "over")
    /\ Deletes(x)
    /\ running' = running \ {x}
    /\ UNCHANGED queue

-----------------------------------------------------------------------------
(* The service.  Cores belong to its job object and end with it; files do  *)
(* not.  Effects sweep when they are made, at a start and at a reload.     *)

RaceServiceDies ==
    /\ swept /\ swept' = FALSE
    /\ FutureEnds
    /\ stage' = [x \in Probes |-> "over"] /\ running' = {}
    /\ UNCHANGED <<race, given, configs, undeleted>>

\* A file that cannot be removed stays.
SweepStale ==
    /\ racing = "none" /\ swept' = TRUE
    /\ \E kept \in SUBSET configs :
          Cardinality(kept) <= MaxUndeleted /\ configs' = kept /\ undeleted' = kept
    /\ UNCHANGED <<loopVars, queue, stage, running>>

RaceNext ==
    \/ \E ps \in SUBSET Profiles \ {{}} : AskRace(ps)
    \/ RefuseRace \/ BeginRace \/ RaceTurn \/ RaceReturns \/ CallOffRace \/ RaceTime
    \/ RaceServiceDies \/ SweepStale
    \/ \E x \in Probes :
          \/ ProbeBegins(x) \/ ProbeCannotBegin(x) \/ CoreReady(x) \/ CoreNotReady(x)
          \/ ProbeFails(x) \/ ProbeReports(x) \/ CoreStopped(x) \/ ProbeDies(x)

RaceSpec == RaceInit /\ [][RaceNext]_raceVars

-----------------------------------------------------------------------------
(* Properties.                                                             *)

FirstUsableAt == CHOOSE t \in 0 .. Deadline :
    /\ \E p \in UsableOn(board) : board[p].at = t
    /\ \A p \in UsableOn(board) : t <= board[p].at

Promise == INSTANCE PromisedRace WITH
    open <- racing # "none",
    wanted <- asked,
    pending <- IF racing = "preparing" THEN asked ELSE PendingOn(board),
    found <- UsableOn(board) # {},
    waited <- elapsed,
    since <- IF UsableOn(board) = {} THEN 0 ELSE elapsed - FirstUsableAt,
    answer <- given

\* However probes report, die or hang, and whenever the loop wakes, a race
\* gives one report: a profile that is usable, the best tier heard from, not
\* one of the second tier while one of the first may still report and the
\* grace lasts, and never later than the deadline (probe.rs, "Winner rule";
\* effects.rs:661, a connect whose race ends without a result would wait for
\* one for ever).
PromisedOutcome == Promise!PromisedSpec

\* A race that is over, however it ended, leaves nothing behind: when a report
\* is given no probe of its race is at work; a core runs only under a probe or
\* while it is being stopped; and once the service has swept, credentials are
\* on disk only for a core that has yet to read them, unless the removal of the
\* file itself failed (runner.rs:8; race.rs:87).
NothingLeftBehind ==
    /\ given # <<>> => \A p \in Profiles : stage[<<race, p>>] \notin AtWork
    /\ \A x \in running : stage[x] \in {"starting", "failing", "measuring", "stopping"}
    /\ swept => \A x \in configs \ undeleted : stage[x] \in {"starting", "failing"}
=============================================================================
