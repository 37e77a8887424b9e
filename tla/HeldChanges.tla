---------------------------- MODULE HeldChanges ----------------------------
(***************************************************************************)
(* Changes that redirect traffic wait for an elevated client               *)
(* (dnetd/src/approval.rs and the requests about them in service_impl.rs). *)
(*                                                                         *)
(* Every connection of the control pipe is a task of its own, so requests  *)
(* of several clients interleave wherever no lock is held: approving takes *)
(* the `approving' lock for its whole length and the lock on the waiting   *)
(* changes only to look and to remove; withdrawing takes only the latter.  *)
(*                                                                         *)
(* A change's name is 32 random bits made to differ from every waiting     *)
(* one; it stands here for a number that is never given twice.             *)
(***************************************************************************)
EXTENDS Naturals, FiniteSets

CONSTANTS
    Clients,        \* connections of the console session
    Elevated,       \* those whose token is elevated
    Changes,        \* requests that redirect traffic
    MaxHeld,        \* MAX_HELD
    HoldFor,        \* HOLD_FOR_MS, in ticks of the clock
    MaxClock,       \* bound: ticks
    MaxNames        \* bound: names given

ASSUME HeldAssumption ==
    /\ Elevated \subseteq Clients
    /\ MaxHeld \in Nat \ {0} /\ HoldFor \in Nat \ {0}
    /\ MaxClock \in Nat /\ MaxNames \in Nat

VARIABLES
    safe,       \* whether recovery and the saved configuration allow a change at all
    clock,      \* unix_millis
    held,       \* PendingChanges::held
    named,      \* names given so far
    calls,      \* what each client's request is in the middle of
    turn,       \* the holders of the `approving' lock
    applied,    \* history: how often the change of each name was applied
    withdrawn   \* history: the names whose withdrawal was answered

heldVars == <<safe, clock, held, named, calls, turn, applied, withdrawn>>

Names == 1 .. MaxNames
Waiting == [name : Names, change : Changes, since : Nat, expires : Nat]
Unasked == [does |-> "nothing"]
Call(does, h) == [does |-> does, held |-> h]

HeldTypeOK ==
    /\ safe \in BOOLEAN
    /\ clock \in 0 .. MaxClock
    /\ held \subseteq Waiting
    /\ named \in 0 .. MaxNames
    /\ calls \in [Clients -> {Unasked} \cup
                     [does : {"apply", "drop", "withdraw"}, held : Waiting]]
    /\ turn \subseteq Clients
    /\ applied \in [Names -> Nat]
    /\ withdrawn \subseteq Names

HeldInit ==
    /\ safe \in BOOLEAN
    /\ clock = 0 /\ held = {} /\ named = 0
    /\ calls = [c \in Clients |-> Unasked] /\ turn = {}
    /\ applied = [n \in Names |-> 0] /\ withdrawn = {}

-----------------------------------------------------------------------------
(* PendingChanges.                                                         *)

Unexpired == {h \in held : h.expires > clock}

Without(n) == {h \in held : h.name # n}

Newly(ch) == [name |-> named + 1, change |-> ch, since |-> clock, expires |-> clock + HoldFor]

\* PendingChanges::hold.  The same change waits once, under the name and for
\* the time it already has; a full list refuses.
Hold(ch) ==
    IF (\E h \in Unexpired : h.change = ch) \/ Cardinality(Unexpired) >= MaxHeld
    THEN held' = Unexpired /\ UNCHANGED named
    ELSE held' = Unexpired \cup {Newly(ch)} /\ named' = named + 1

-----------------------------------------------------------------------------
(* Requests.                                                               *)

Free(c) == calls[c] = Unasked
Goes(c, call) == calls' = [calls EXCEPT ![c] = call]

\* hold_change.  Nothing is held while no change could be applied.
AskChange(c, ch) ==
    /\ Free(c) /\ safe
    /\ named < MaxNames \/ \E h \in Unexpired : h.change = ch
    /\ Hold(ch)
    /\ UNCHANGED <<safe, clock, calls, turn, applied, withdrawn>>

\* ListPending
ListPending(c) ==
    /\ Free(c)
    /\ held' = Unexpired
    /\ UNCHANGED <<safe, clock, named, calls, turn, applied, withdrawn>>

\* Slip: approving takes no lock of its own.
ApproveAtOnce(c, n) ==
    /\ c \in Elevated /\ Free(c)
    /\ held' = Unexpired
    /\ IF \E h \in Unexpired : h.name = n
       THEN \E h \in Unexpired : h.name = n /\ Goes(c, Call("apply", h))
       ELSE UNCHANGED calls
    /\ UNCHANGED <<safe, clock, named, turn, applied, withdrawn>>

\* approve_change, to the copy it takes of the waiting change.  A name nothing
\* waits under is refused, and the lock let go.
Approve(c, n) ==
    /\ c \in Elevated /\ Free(c) /\ turn = {}
    /\ held' = Unexpired
    /\ IF \E h \in Unexpired : h.name = n
       THEN /\ turn' = {c}
            /\ \E h \in Unexpired : h.name = n /\ Goes(c, Call("apply", h))
       ELSE UNCHANGED <<calls, turn>>
    /\ UNCHANGED <<safe, clock, named, applied, withdrawn>>

\* The change is applied, or is refused (a connection is up, say) and stays
\* waiting so that it can be approved again.
ApplyHeld(c) ==
    /\ calls[c].does = "apply"
    /\ \/ /\ safe
          /\ applied' = [applied EXCEPT ![calls[c].held.name] = @ + 1]
          /\ Goes(c, Call("drop", calls[c].held))
          /\ UNCHANGED turn
       \/ /\ Goes(c, Unasked) /\ turn' = turn \ {c}
          /\ UNCHANGED applied
    /\ UNCHANGED <<safe, clock, held, named, withdrawn>>

DropApplied(c) ==
    /\ calls[c].does = "drop"
    /\ held' = Without(calls[c].held.name)
    /\ Goes(c, Unasked) /\ turn' = turn \ {c}
    /\ UNCHANGED <<safe, clock, named, applied, withdrawn>>

\* reject_change, to the look that finds the change.
Reject(c, n) ==
    /\ Free(c)
    /\ held' = Unexpired
    /\ IF \E h \in Unexpired : h.name = n
       THEN \E h \in Unexpired : h.name = n /\ Goes(c, Call("withdraw", h))
       ELSE UNCHANGED calls
    /\ UNCHANGED <<safe, clock, named, turn, applied, withdrawn>>

\* And the removal, which is answered as a success whether or not the change
\* was still there.
Withdraw(c) ==
    /\ calls[c].does = "withdraw"
    /\ held' = Without(calls[c].held.name)
    /\ withdrawn' = withdrawn \cup {calls[c].held.name}
    /\ Goes(c, Unasked)
    /\ UNCHANGED <<safe, clock, named, turn, applied>>

ClockTicks ==
    /\ clock < MaxClock
    /\ clock' = clock + 1
    /\ UNCHANGED <<safe, held, named, calls, turn, applied, withdrawn>>

HeldNext ==
    \/ \E c \in Clients, ch \in Changes : AskChange(c, ch)
    \/ \E c \in Clients, n \in Names : Approve(c, n) \/ Reject(c, n)
    \/ \E c \in Clients : ListPending(c) \/ ApplyHeld(c) \/ DropApplied(c) \/ Withdraw(c)
    \/ ClockTicks

HeldSpec == HeldInit /\ [][HeldNext]_heldVars

-----------------------------------------------------------------------------
(* Properties.                                                             *)

\* However many elevated clients approve the same change, and whatever is
\* withdrawn or expires meanwhile, it is applied once: `approving' is "held
\* across approving a change, so the same one is not applied twice by two
\* approvers" (service_impl.rs).
AppliedOnce == \A n \in Names : applied[n] <= 1

\* "Drop the held change `id` without applying it" (reject_change): a change
\* whose withdrawal was answered with success was not and will not be applied.
WithdrawnIsNotApplied == \A n \in withdrawn : applied[n] = 0
=============================================================================
