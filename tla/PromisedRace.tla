---------------------------- MODULE PromisedRace ----------------------------
(***************************************************************************)
(* What a race promises the orchestrator, whatever its probes do: one      *)
(* answer for the profiles asked about, the best of those heard from, in   *)
(* time.  A usable profile of the second tier waits for the first, but for *)
(* no longer than the grace period; nothing waits past the deadline.       *)
(***************************************************************************)
EXTENDS RaceOutcomes

CONSTANTS Deadline, Grace   \* PROBE_DEADLINE, TIER_GRACE

VARIABLES
    open,       \* a race is on
    wanted,     \* the profiles it was asked about
    pending,    \* the ones that may still be heard from
    found,      \* one of them is known to be usable
    waited,     \* time since the probes were started
    since,      \* time since one was found usable
    answer      \* the answer, once it is given

promisedVars == <<open, wanted, pending, found, waited, since, answer>>

Begin(ps) ==
    /\ ~open /\ open'
    /\ wanted' = ps /\ pending' = ps
    /\ ~found' /\ waited' = 0 /\ since' = 0
    /\ answer' = <<>>

\* Profiles report, die, or are found not to take part.
Hear ==
    /\ open
    /\ pending' \subseteq pending
    /\ found => found'
    /\ UNCHANGED <<open, wanted, waited, since, answer>>

Wait ==
    /\ open
    /\ waited < Deadline
    /\ found => since < Grace
    /\ waited' = waited + 1
    /\ since' = IF found THEN since + 1 ELSE 0
    /\ UNCHANGED <<open, wanted, pending, found, answer>>

\* A race that is over hears no more and knows nothing.
Close ==
    /\ open /\ ~open'
    /\ wanted' = {} /\ pending' = {} /\ ~found' /\ waited' = 0 /\ since' = 0

Overdue == since >= Grace \/ waited >= Deadline

\* The answer may come when nothing better can, or when the time is up.
Answer ==
    /\ Close
    /\ \E in \in Outcomes(wanted) :
          /\ IF in.winner = NoProfile
             THEN ~found /\ (pending = {} \/ waited >= Deadline)
             ELSE found /\ (Tier[in.winner] = 1 \/ Overdue \/ \A p \in pending : Tier[p] # 1)
          /\ answer' = <<in>>

\* It could not be run at all: nothing is usable and nobody has reported.
Refuse ==
    /\ Close /\ waited = 0 /\ ~found
    /\ answer' = <<[kind |-> "RaceFinished", winner |-> NoProfile,
                    results |-> [p \in Profiles |-> "silent"]]>>

\* A race that is called off, or dies with the service, answers nothing.
CallOff == Close /\ UNCHANGED answer

PromisedInit ==
    /\ ~open /\ wanted = {} /\ pending = {} /\ ~found
    /\ waited = 0 /\ since = 0 /\ answer = <<>>

PromisedNext == (\E ps \in SUBSET Profiles : Begin(ps)) \/ Hear \/ Wait \/ Answer \/ Refuse \/ CallOff

PromisedSpec == PromisedInit /\ [][PromisedNext]_promisedVars
=============================================================================
