------------------------------- MODULE Service -------------------------------
(***************************************************************************)
(* The service around the orchestrator (dnetd/src/service_impl.rs): what   *)
(* the person last asked for (intent.rs), the loop that tries a connection *)
(* again while it is left on (keep_trying.rs), and the replacement of the  *)
(* orchestrator when the configuration is changed.                         *)
(*                                                                         *)
(* Requests, retries and changes are served under the store lock, one at a *)
(* time: `client' of the orchestrator is the holder of that lock.  The     *)
(* variables of Orchestrator are the orchestrator in the slot; those with  *)
(* `old' are the one that was last retired.                                *)
(***************************************************************************)
EXTENDS Orchestrator

CONSTANT MaxChanges     \* bound: configuration changes in a behaviour

ASSUME ChangesAssumption == MaxChanges \in Nat

VARIABLES
    changes,    \* configuration changes so far
    wish,       \* Intent::wish: what is remembered
    asker,      \* who the request being served is from: "person" or "retry"
    said,       \* history: the person's last word, "on" once accepted, or "off"
    oldEng, oldAttempt, oldActor, oldMailbox, oldShown, oldConnecting, oldClient,
    oldWork, oldExec, oldToken, oldRaces, oldMonitors, oldTunnel, oldStopping

wishVars == <<wish, asker, said>>
oldVars == <<oldEng, oldAttempt, oldActor, oldMailbox, oldShown, oldConnecting, oldClient,
             oldWork, oldExec, oldToken, oldRaces, oldMonitors, oldTunnel, oldStopping>>
serviceVars == <<vars, wishVars, changes, oldVars>>

Old == INSTANCE Orchestrator WITH
    eng <- oldEng, attempt <- oldAttempt, actor <- oldActor, mailbox <- oldMailbox,
    shown <- oldShown, connecting <- oldConnecting, client <- oldClient, work <- oldWork,
    exec <- oldExec, token <- oldToken, races <- oldRaces, monitors <- oldMonitors,
    tunnel <- oldTunnel, stopping <- oldStopping

Off == [on |-> FALSE, profile |-> NoProfile]
On(p) == [on |-> TRUE, profile |-> p]

ServiceInit ==
    /\ Init
    /\ wish = Off /\ asker = "person" /\ said = "off" /\ changes = 0
    /\ oldEng = NewEngine /\ oldAttempt = 0 /\ oldActor = "ended"
    /\ oldMailbox = <<>> /\ oldShown = SnapshotOf(NewEngine)
    /\ oldConnecting = FALSE /\ oldClient = Unserved
    /\ oldWork = <<>> /\ oldExec = [item |-> NoWork, for |-> 0, out |-> <<>>]
    /\ oldToken = 0 /\ oldRaces = {} /\ oldMonitors = {}
    /\ oldTunnel = NoTunnel /\ oldStopping = "done"

-----------------------------------------------------------------------------
(* Requests.                                                               *)

PersonConnects(p) ==
    /\ AskConnect(p)
    /\ asker' = "person"
    /\ UNCHANGED <<wish, said, changes, oldVars>>

\* Slips: a connect that was accepted and not yet taken up is not looked for;
\* a connection that failed does not count as idle.
IsIdleByState == shown.status \in {"Disconnected", "Failed"}
IsIdleDisconnected == ~connecting /\ shown.status = "Disconnected"

\* Handle::is_idle.  While the lock is held nobody else can claim a connect,
\* and an engine at rest stays so, so its two reads and the connect that
\* follows see one state.
IsIdle == ~connecting /\ shown.status \in {"Disconnected", "Failed"}

\* retry_if_left_on.  One that finds a connection up or being made does nothing.
RetryIfLeftOn ==
    /\ wish.on /\ IsIdle
    /\ AskConnect(wish.profile)
    /\ asker' = "retry"
    /\ UNCHANGED <<wish, said, changes, oldVars>>

\* An accepted connect of the person is remembered; a refused one is not.
Remembers == asker = "person" /\ Room /\ ~Closed

ConnectSent ==
    /\ SendConnect
    /\ wish' = IF Remembers THEN On(client.profile) ELSE wish
    /\ said' = IF Remembers THEN "on" ELSE said
    /\ UNCHANGED <<asker, changes, oldVars>>

\* Slip: forgotten only when there is a connection to end.
PersonDisconnectsIfOn ==
    /\ AskDisconnect
    /\ wish' = IF shown.status = "Disconnected" THEN wish ELSE Off
    /\ said' = "off"
    /\ asker' = "person"
    /\ UNCHANGED <<changes, oldVars>>

\* Forgotten first, whatever the answer to the disconnect turns out to be.
PersonDisconnects ==
    /\ AskDisconnect
    /\ wish' = Off
    /\ said' = "off"
    /\ asker' = "person"
    /\ UNCHANGED <<changes, oldVars>>

DisconnectAnswered ==
    /\ AnswerDisconnect
    /\ UNCHANGED <<wishVars, changes, oldVars>>

-----------------------------------------------------------------------------
(* A configuration change: refused unless idle, then the orchestrator is   *)
(* replaced by one built from the changed store and the old one is told to *)
(* stop, without waiting.                                                  *)

\* Handle::retire: a Shutdown nobody waits for, lost if the mailbox is full.
\* What the old engine knew of profiles and endpoints is dropped here: at rest
\* it is read by nothing but a connect.
Retire ==
    /\ oldMailbox' = IF Room THEN Append(mailbox, ShutdownMsg) ELSE mailbox
    /\ oldEng' = [NewEngine EXCEPT !.phase = eng.phase, !.cause = eng.cause]
    /\ oldAttempt' = attempt /\ oldActor' = actor /\ oldShown' = shown
    /\ oldConnecting' = connecting /\ oldClient' = client /\ oldWork' = work
    /\ oldExec' = exec /\ oldToken' = token /\ oldRaces' = races /\ oldMonitors' = monitors
    /\ oldTunnel' = tunnel /\ oldStopping' = stopping

Rebuild ==
    /\ eng' = NewEngine /\ attempt' = 0 /\ actor' = "recv"
    /\ mailbox' = <<>> /\ shown' = SnapshotOf(NewEngine)
    /\ connecting' = FALSE /\ client' = Unserved
    /\ work' = <<>> /\ exec' = [item |-> NoWork, for |-> 0, out |-> <<>>]
    /\ token' = 0 /\ races' = {} /\ monitors' = {}
    /\ tunnel' = NoTunnel /\ stopping' = "no"

ChangeConfiguration ==
    /\ client.pc = "free" /\ IsIdle
    /\ changes < MaxChanges /\ changes' = changes + 1
    /\ Retire /\ Rebuild
    /\ UNCHANGED wishVars

-----------------------------------------------------------------------------
CurrentRuns ==
    /\ JudgeConnect \/ Act \/ Execute \/ RunRace \/ Watch
    /\ UNCHANGED <<wishVars, changes, oldVars>>

OldRuns ==
    /\ Old!Act \/ Old!Execute \/ Old!RunRace \/ Old!Watch
    /\ UNCHANGED <<vars, wishVars, changes>>

ServiceNext ==
    \/ \E p \in Names \cup {NoProfile} : PersonConnects(p)
    \/ RetryIfLeftOn \/ ConnectSent
    \/ PersonDisconnects \/ DisconnectAnswered
    \/ ChangeConfiguration
    \/ CurrentRuns \/ OldRuns

ServiceSpec == ServiceInit /\ [][ServiceNext]_serviceVars

\* The loop of keep_trying looks again and again for as long as the service
\* exists; requests are served, tasks are polled, monitors tick.
ServiceFairness ==
    /\ WF_serviceVars(RetryIfLeftOn)
    /\ WF_serviceVars(ConnectSent) /\ WF_serviceVars(DisconnectAnswered)
    /\ WF_serviceVars(JudgeConnect /\ UNCHANGED <<wishVars, changes, oldVars>>)
    /\ WF_serviceVars(Act /\ UNCHANGED <<wishVars, changes, oldVars>>)
    /\ WF_serviceVars(Execute /\ UNCHANGED <<wishVars, changes, oldVars>>)
    /\ WF_serviceVars(RunRace /\ UNCHANGED <<wishVars, changes, oldVars>>)
    /\ WF_serviceVars(Watch /\ UNCHANGED <<wishVars, changes, oldVars>>)

FairServiceSpec == ServiceSpec /\ ServiceFairness

-----------------------------------------------------------------------------
(* Properties.                                                             *)

\* A retry never follows the person's disconnect: one is started only while
\* their last word is to be connected, whatever that disconnect was answered
\* (keep_trying.rs:12, service_impl.rs:978).
NoRetryAfterOff ==
    [][asker' = "retry" /\ client'.pc = "claimed" /\ client.pc = "free" =>
          said = "on"]_serviceVars

\* A connection the person left on is tried again after it failed
\* (keep_trying.rs:1).
LeftOnIsRetried ==
    (said = "on" /\ eng.phase = "Failed" /\ attempt < MaxAttempts)
        ~> (said = "off" \/ eng.phase # "Failed" \/ attempt >= MaxAttempts
              \/ \E i \in 1..Len(mailbox) : mailbox[i].kind = "Connect")

\* A retired orchestrator never leaves rest: no connect was on its way to it
\* when it was replaced, and none can reach it afterwards (orchestrator.rs:239,
\* "the only time the endpoints and rules [...] may be replaced").
RetiredStaysAtRest == oldEng.phase \in AtRest

\* There is one tunnel at a time on the machine, across a change of the
\* configuration too (tunnel.rs:13).
OnlyOneTunnel == tunnel = NoTunnel \/ oldTunnel = NoTunnel

\* An endpoint found unreachable is probed again while the connection is left
\* on, so that it can come back (health.rs:50, "Never terminal").
UnreachableIsProbedAgain ==
    \A e \in Endpoints :
        (eng.health[e].state = "Unreachable" /\ said = "on")
            ~> (\/ \E m \in monitors : m.endpoint = e
                \/ eng.health[e].state # "Unreachable"
                \/ said = "off" \/ attempt >= MaxAttempts)
=============================================================================
