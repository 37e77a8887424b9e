------------------------- MODULE PromisedConnection -------------------------
(***************************************************************************)
(* What the orchestrator promises of a connection, without queues, tasks   *)
(* and attempt numbers (dnetd/src/orchestrator.rs): it is sought only when *)
(* asked for, one that is said to be on is carried by the tunnel that is   *)
(* up for as long as it is said to be, and one that was given up leaves no *)
(* tunnel once the work is done.                                           *)
(***************************************************************************)
CONSTANTS
    Tunnels,        \* the tunnels there can be
    None            \* no tunnel

VARIABLES
    asked,      \* a connect was accepted and not yet taken up
    state,      \* "rest", "seeking" or "on"
    claims,     \* the tunnel the connection is said to go through, or none
    up,         \* the tunnel that is up, or none
    busy,       \* something is left to do on the machine
    life        \* "open", "ending" once told to stop, "over" once it has stopped

connectionVars == <<asked, state, claims, up, busy, life>>

ConnectionInit ==
    /\ ~asked /\ state = "rest" /\ claims = None /\ up = None /\ ~busy /\ life = "open"

\* A connect is accepted only at rest, and one at a time.
Ask ==
    /\ ~asked /\ state = "rest"
    /\ asked' = TRUE
    /\ UNCHANGED <<state, claims, up, busy, life>>

\* It is taken up, and may fail at once.
Begin ==
    /\ asked /\ state = "rest" /\ life = "open"
    /\ asked' = FALSE
    /\ \/ state' = "seeking" /\ busy' = TRUE
       \/ UNCHANGED <<state, busy>>
    /\ UNCHANGED <<claims, up, life>>

\* Another way is tried, also when the one that was on is lost.
SeekAgain ==
    /\ state # "rest" /\ state' = "seeking"
    /\ claims' = None /\ busy' = TRUE
    /\ UNCHANGED <<asked, up, life>>

\* The tunnel that is up is the connection, and nothing is on its way that
\* would replace it.
Establish ==
    /\ state = "seeking" /\ ~busy /\ up # None
    /\ state' = "on" /\ claims' = up
    /\ UNCHANGED <<asked, up, busy, life>>

\* It ends or is given up: what is up is about to be taken down.
GiveUp ==
    /\ state # "rest" /\ state' = "rest" /\ claims' = None
    /\ busy' \in BOOLEAN /\ (busy => busy') /\ (busy' \/ up = None)
    /\ UNCHANGED <<asked, up, life>>

\* The work on the machine, whichever way its steps turn out.
Work ==
    /\ busy /\ state # "on"
    /\ up' \in Tunnels \cup {None} /\ busy' \in BOOLEAN
    /\ ~busy' /\ state = "rest" => up' = None
    /\ UNCHANGED <<asked, state, claims, life>>

\* The service is told to stop, and has stopped; a connect accepted in between
\* is dropped.
End ==
    /\ life = "open" /\ life' = "ending"
    /\ state' = "rest" /\ claims' = None /\ busy' = TRUE
    /\ UNCHANGED <<asked, up>>

Over ==
    /\ life = "ending" /\ life' = "over"
    /\ busy /\ busy' = FALSE /\ up = None
    /\ UNCHANGED <<asked, state, claims, up>>

Drop ==
    /\ asked /\ asked' = FALSE /\ life # "open"
    /\ UNCHANGED <<state, claims, up, busy, life>>

ConnectionNext ==
    \/ Ask \/ Begin \/ SeekAgain \/ Establish \/ GiveUp \/ Work \/ End \/ Over \/ Drop

ConnectionSpec == ConnectionInit /\ [][ConnectionNext]_connectionVars
=============================================================================
