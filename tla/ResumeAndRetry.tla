--------------------------- MODULE ResumeAndRetry ---------------------------
(***************************************************************************)
(* The connection stays the way the person left it, across crashes and     *)
(* restarts: the remembered intent and its file (dnetd/src/intent.rs), the *)
(* start that resumes it (main.rs, service_impl.rs) and the pace of the    *)
(* loop that tries again (keep_trying.rs).                                 *)
(*                                                                         *)
(* The orchestrator is the four things this code can see of it: idle,      *)
(* connecting, connected and stopping (module Orchestrator has its life).  *)
(* Requests and retries hold the store lock for their whole length.        *)
(***************************************************************************)
EXTENDS Naturals

CONSTANTS
    Wishes,         \* a profile by name, or the best one
    First,          \* Pace::first, in ticks of the clock
    Cap,            \* Pace::cap
    MinGap,         \* Pace::min_gap
    MaxStarts       \* bound: starts of the service

ASSUME PaceAssumption ==
    /\ {"off", "stop", "none"} \cap Wishes = {}
    /\ First \in Nat \ {0} /\ MinGap \in Nat /\ Cap \in Nat
    /\ 2 * First <= Cap /\ 2 * First <= MinGap
    /\ MaxStarts \in Nat

VARIABLES
    alive,      \* whether the service runs
    starts,     \* starts so far
    canConnect, \* whether this start has an orchestrator: recovery and the configuration allowed it
    watching,   \* whether network changes are signalled
    wish,       \* Intent::wish
    file,       \* what the state file says
    request,    \* the rest of the request that holds the lock: a choice to remember, "stop", or "none"
    link,       \* "idle", "connecting", "connected", "stopping"
    delay,      \* Backoff::delay
    wait,       \* ticks to the deadline of the next look
    sinceTry,   \* ticks since Backoff::last_attempt, up to Cap; Cap when there is none
    said,       \* history: the person's last word
    doubt,      \* history: whether the file may not say the last word
    excused,    \* history: whether this start had to go by a file in doubt
    ours,       \* history: the choice of the connect the service last made by itself
    tried,      \* history: whether the last look started an attempt
    idleFor,    \* history: ticks it has been down while left on, since it was last looked at
    apart       \* history: ticks since the loop last tried in this run, up to Cap

paceVars == <<delay, wait, sinceTry, tried, idleFor, apart>>
intentVars == <<alive, starts, canConnect, watching, wish, file, request, link,
                said, doubt, excused, ours>>
resumeVars == <<intentVars, paceVars>>

Words == Wishes \cup {"off"}

ResumeTypeOK ==
    /\ alive \in BOOLEAN /\ canConnect \in BOOLEAN /\ watching \in BOOLEAN
    /\ starts \in 0 .. MaxStarts
    /\ wish \in Words /\ file \in Words /\ said \in Words /\ ours \in Words
    /\ request \in Wishes \cup {"stop", "none"}
    /\ link \in {"idle", "connecting", "connected", "stopping"}
    /\ delay \in First .. Cap /\ wait \in 0 .. Cap /\ sinceTry \in 0 .. Cap
    /\ doubt \in BOOLEAN /\ excused \in BOOLEAN
    /\ tried \in BOOLEAN /\ idleFor \in Nat /\ apart \in 0 .. Cap

ResumeInit ==
    /\ alive = FALSE /\ starts = 0 /\ canConnect = FALSE /\ watching = FALSE
    /\ wish = "off" /\ file = "off" /\ request = "none" /\ link = "idle"
    /\ said = "off" /\ doubt = FALSE /\ excused = FALSE /\ ours = "off"
    /\ delay = First /\ wait = First /\ sinceTry = Cap /\ tried = FALSE /\ idleFor = 0
    /\ apart = Cap

Unlocked == alive /\ request = "none"

-----------------------------------------------------------------------------
(* The person's requests.                                                  *)

\* Request::Connect, to the orchestrator's answer.  A refused one changes nothing.
PersonConnects(c) ==
    /\ Unlocked /\ canConnect /\ link = "idle"
    /\ link' = "connecting" /\ request' = c
    /\ said' = c /\ doubt' = TRUE /\ excused' = FALSE
    /\ UNCHANGED <<alive, starts, canConnect, watching, wish, file, ours, paceVars>>

\* remember: in memory first, then the file.  A write that reports a failure may
\* have put the new content in place.
Remember ==
    /\ alive /\ request \in Wishes
    /\ wish' = request /\ request' = "none"
    /\ \/ file' = request /\ doubt' \in {FALSE, doubt}
       \/ UNCHANGED <<file, doubt>>
    /\ UNCHANGED <<alive, starts, canConnect, watching, link, said, excused, ours, paceVars>>

\* Slip: a disconnect that finds nothing connected forgets nothing.
ForgetIfConnected ==
    /\ Unlocked
    /\ request' = "stop" /\ said' = "off" /\ excused' = FALSE
    /\ IF link = "idle" THEN UNCHANGED <<wish, file, doubt>>
       ELSE wish' = "off" /\ file' = "off" /\ doubt' = FALSE
    /\ UNCHANGED <<alive, starts, canConnect, watching, link, ours, paceVars>>

\* Request::Disconnect forgets first, whatever the orchestrator will answer.
Forget ==
    /\ Unlocked
    /\ wish' = "off" /\ request' = "stop"
    /\ said' = "off" /\ excused' = FALSE
    /\ \/ file' = "off" /\ doubt' \in {FALSE, TRUE}
       \/ UNCHANGED file /\ doubt' = TRUE
    /\ UNCHANGED <<alive, starts, canConnect, watching, link, ours, paceVars>>

Disconnect ==
    /\ alive /\ request = "stop"
    /\ request' = "none"
    /\ link' = IF link = "idle" THEN "idle" ELSE "stopping"
    /\ UNCHANGED <<alive, starts, canConnect, watching, wish, file, said, doubt, excused,
                   ours, paceVars>>

-----------------------------------------------------------------------------
(* Starting, stopping, crashing.                                           *)

\* A connect of the service's own, which the orchestrator may refuse.
ConnectOurselves(c) == link' = "connecting" /\ ours' = c

\* build_service.  An unreadable file, or one in a form this build did not
\* write, is "off" for the whole run.  resume_if_left_on comes before the
\* listener, and leaves the file as it is where nothing can connect.
StartService ==
    /\ ~alive /\ starts < MaxStarts
    /\ alive' = TRUE /\ starts' = starts + 1
    /\ canConnect' \in BOOLEAN /\ watching' \in BOOLEAN
    /\ wish' \in {file, "off"}
    /\ excused' = doubt
    /\ \/ canConnect' /\ wish' \in Wishes /\ ConnectOurselves(wish')
       \/ UNCHANGED <<link, ours>>
    /\ delay' = First /\ wait' = First /\ sinceTry' = Cap
    /\ tried' = FALSE /\ idleFor' = 0 /\ apart' = Cap
    /\ UNCHANGED <<file, request, said, doubt>>

\* The service is stopped, or dies, at any step; the tunnel goes with it.
ServiceEnds ==
    /\ alive
    /\ alive' = FALSE /\ request' = "none" /\ link' = "idle"
    /\ wish' = "off"
    /\ UNCHANGED <<starts, canConnect, watching, file, said, doubt, excused, ours, paceVars>>

-----------------------------------------------------------------------------
(* Trying again.                                                           *)

\* Slip: a look that finds a connection does not set the wait back.
AfterHealthyKeeping == delay' = delay /\ wait' = delay

\* Slip: the time of an attempt is not kept.
AfterAttemptUntimed ==
    LET d == IF 2 * delay < Cap THEN 2 * delay ELSE Cap IN
    delay' = d /\ wait' = d /\ UNCHANGED sinceTry

\* Backoff::after
AfterAttempt ==
    LET d == IF 2 * delay < Cap THEN 2 * delay ELSE Cap IN
    delay' = d /\ wait' = d /\ sinceTry' = 0

AfterInProgress == wait' = First /\ UNCHANGED <<delay, sinceTry>>
AfterHealthy == delay' = First /\ wait' = First

\* Backoff::change_may_retry
ChangeMayRetry == sinceTry >= MinGap

Due == alive /\ canConnect /\ wish \in Wishes /\ link = "idle"

\* retry_if_left_on, and what the loop does with its answer.
Look ==
    /\ Unlocked
    /\ \/ /\ Due
          /\ \/ ConnectOurselves(wish) /\ AfterAttempt /\ tried' = TRUE
             \/ AfterInProgress /\ tried' = FALSE /\ UNCHANGED <<link, ours>>
       \/ /\ ~Due /\ wish \in Wishes /\ canConnect /\ link # "connected"
          /\ AfterInProgress /\ tried' = FALSE
          /\ UNCHANGED <<link, ours>>
       \/ /\ wish = "off" \/ ~canConnect \/ link = "connected"
          /\ AfterHealthy /\ tried' = FALSE
          /\ UNCHANGED <<link, ours, sinceTry>>
    /\ idleFor' = 0 /\ apart' = IF tried' THEN 0 ELSE apart
    /\ UNCHANGED <<alive, starts, canConnect, watching, wish, file, request, said, doubt, excused>>

TimerFires == wait = 0 /\ Look

\* A settled network change.  One too soon after an attempt leaves the deadline
\* as it was.
NetworkChanges == watching /\ ChangeMayRetry /\ Look

SourceEnds ==
    /\ alive /\ watching
    /\ watching' = FALSE
    /\ UNCHANGED <<alive, starts, canConnect, wish, file, request, link, said, doubt, excused,
                   ours, paceVars>>

OneLater(ticks) == IF ticks < Cap THEN ticks + 1 ELSE Cap

\* The timer is not late by a whole tick, and requests take less than one.
TimePasses ==
    /\ Unlocked /\ wait > 0
    /\ wait' = wait - 1
    /\ sinceTry' = OneLater(sinceTry) /\ apart' = OneLater(apart)
    /\ idleFor' = IF Due THEN idleFor + 1 ELSE 0
    /\ UNCHANGED <<intentVars, delay, tried>>

\* What the orchestrator does by itself.
LinkMoves ==
    /\ alive
    /\ \/ link = "connecting" /\ link' \in {"connected", "idle"}
       \/ link = "connected" /\ link' \in {"connecting", "idle"}
       \/ link = "stopping" /\ link' = "idle"
    /\ UNCHANGED <<alive, starts, canConnect, watching, wish, file, request, said, doubt,
                   excused, ours, paceVars>>

ResumeNext ==
    \/ \E c \in Wishes : PersonConnects(c)
    \/ Remember \/ Forget \/ Disconnect
    \/ StartService \/ ServiceEnds
    \/ TimerFires \/ NetworkChanges \/ SourceEnds \/ TimePasses \/ LinkMoves

ResumeSpec == ResumeInit /\ [][ResumeNext]_resumeVars

-----------------------------------------------------------------------------
(* Properties.                                                             *)

OursBegins == link = "idle" /\ link' = "connecting" /\ request' = "none"

\* The service connects by itself only with the choice the person last asked
\* for, and never after they said off: within a run whatever became of the
\* file, after a restart unless the file's last write was reported as failed or
\* cut off by a crash (intent.rs: what was asked for in this run "wins over the
\* file").
ConnectsAsLastAsked ==
    [][OursBegins => (ours' = said \/ excused')]_resumeVars

\* A connection that is down while left on is tried again within the cap, and
\* within the first wait if the last look at it found it connected, being made
\* or not wanted (keep_trying.rs: Backoff::after).
TriedInTime ==
    Due => idleFor + wait <= (IF tried THEN Cap ELSE First)

\* The loop never storms: it tries again no sooner than twice the first wait
\* after it last tried, and no sooner than the back-off it has reached by then,
\* unless the network changed a min_gap after that try ("a failed attempt's own
\* teardown changes the network and must not drive the next one",
\* keep_trying.rs:9).
RetriesAreSpaced ==
    [][OursBegins /\ alive =>
          apart >= 2 * First /\ (apart >= delay \/ apart >= MinGap)]_resumeVars
=============================================================================
