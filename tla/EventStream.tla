---------------------------- MODULE EventStream ----------------------------
(***************************************************************************)
(* The stream of events to subscribed clients: the bus that numbers, keeps *)
(* and fans out events (dnet-ipc/src/wire.rs) and the task that serves one *)
(* subscription (dnet-ipc/src/server.rs).                                  *)
(*                                                                         *)
(* An event is its number.  The broadcast channel is tokio's: it keeps the *)
(* newest `Backlog' frames for every receiver, and tells a receiver that   *)
(* has fallen behind how many it has missed.                               *)
(***************************************************************************)
EXTENDS Naturals, Sequences, FiniteSets

CONSTANTS
    Subscribers,    \* connections that ask for events
    Backlog,        \* SESSION_BACKLOG, also the capacity of the channel
    MaxSubscribers, \* MAX_SUBSCRIBERS
    MaxEvents       \* bound: events published

ASSUME StreamAssumption ==
    /\ IsFiniteSet(Subscribers)
    /\ Backlog \in Nat \ {0} /\ MaxSubscribers \in Nat /\ MaxEvents \in Nat

VARIABLES
    nextSeq,    \* BusState::next_seq
    backlog,    \* BusState::backlog
    slots,      \* Inner::subscribers
    subs,       \* each client's subscription
    heard       \* history: up to which event each client knows what it got and what it missed

streamVars == <<nextSeq, backlog, slots, subs, heard>>

\* at: "away", "refused" with a slot to give back, "admitted" with one to keep,
\* or "streaming"; rest: what is left of the session so far; pos: the receiver;
\* wrote: the last frame written.
NoFrame == [is |-> "none", n |-> 0]
Gone == [at |-> "away", rest |-> <<>>, pos |-> 0, wrote |-> NoFrame]

StreamTypeOK ==
    /\ nextSeq \in 1 .. MaxEvents + 1
    /\ backlog \in Seq(1 .. MaxEvents) /\ Len(backlog) <= Backlog
    /\ slots = Cardinality({c \in Subscribers : subs[c].at # "away"})
    /\ \A c \in Subscribers :
          /\ subs[c].at \in {"away", "refused", "admitted", "streaming"}
          /\ subs[c].rest \in Seq(1 .. MaxEvents) /\ subs[c].pos \in 0 .. nextSeq
    /\ Cardinality({c \in Subscribers : subs[c].at = "streaming"}) <= MaxSubscribers

StreamInit ==
    /\ nextSeq = 1 /\ backlog = <<>> /\ slots = 0
    /\ subs = [c \in Subscribers |-> Gone]
    /\ heard = [c \in Subscribers |-> 0]

-----------------------------------------------------------------------------
(* EventBus.                                                               *)

\* publish numbers, keeps and sends under the lock.
Publish ==
    /\ nextSeq <= MaxEvents
    /\ nextSeq' = nextSeq + 1
    /\ backlog' = Append(IF Len(backlog) = Backlog THEN Tail(backlog) ELSE backlog, nextSeq)
    /\ UNCHANGED <<slots, subs, heard>>

\* begin_session: the numbering goes on.
BeginSession ==
    /\ backlog' = <<>>
    /\ UNCHANGED <<nextSeq, slots, subs, heard>>

\* subscribe, to the count of the slots.
AskForSlot(c) ==
    /\ subs[c].at = "away"
    /\ slots' = slots + 1
    /\ subs' = [subs EXCEPT ![c].at = IF slots >= MaxSubscribers THEN "refused" ELSE "admitted"]
    /\ UNCHANGED <<nextSeq, backlog, heard>>

\* Slip: the backlog is copied before the lock is taken, so that an event may
\* be published between the copy and the receiver.
TakeStaleBacklog(c) ==
    /\ subs[c].at = "admitted"
    /\ \E rest \in {backlog, SubSeq(backlog, 1, Len(backlog) - 1)} :
          /\ subs' = [subs EXCEPT ![c] = [at |-> "streaming", rest |-> rest, pos |-> nextSeq,
                                          wrote |-> NoFrame]]
          /\ heard' = [heard EXCEPT ![c] = (IF rest = <<>> THEN nextSeq ELSE Head(rest)) - 1]
    /\ UNCHANGED <<nextSeq, backlog, slots>>

\* The receiver and the backlog are taken under the lock.
TakeBacklog(c) ==
    /\ subs[c].at = "admitted"
    /\ subs' = [subs EXCEPT ![c] = [at |-> "streaming", rest |-> backlog, pos |-> nextSeq,
                                    wrote |-> NoFrame]]
    /\ heard' = [heard EXCEPT ![c] = (IF backlog = <<>> THEN nextSeq ELSE Head(backlog)) - 1]
    /\ UNCHANGED <<nextSeq, backlog, slots>>

-----------------------------------------------------------------------------
(* stream_events.                                                          *)

Oldest == IF nextSeq > Backlog THEN nextSeq - Backlog ELSE 1    \* that the channel still has

SendBacklog(c) ==
    /\ subs[c].at = "streaming" /\ subs[c].rest # <<>>
    /\ subs' = [subs EXCEPT ![c].rest = Tail(@),
                            ![c].wrote = [is |-> "event", n |-> Head(subs[c].rest)]]
    /\ heard' = [heard EXCEPT ![c] = @ + 1]
    /\ UNCHANGED <<nextSeq, backlog, slots>>

SendLive(c) ==
    /\ subs[c].at = "streaming" /\ subs[c].rest = <<>>
    /\ subs[c].pos \in Oldest .. nextSeq - 1
    /\ subs' = [subs EXCEPT ![c].pos = @ + 1, ![c].wrote = [is |-> "event", n |-> subs[c].pos]]
    /\ heard' = [heard EXCEPT ![c] = @ + 1]
    /\ UNCHANGED <<nextSeq, backlog, slots>>

\* RecvError::Lagged: the client is told how many it has missed (events_lost).
SendLost(c) ==
    /\ subs[c].at = "streaming" /\ subs[c].rest = <<>> /\ subs[c].pos < Oldest
    /\ LET missed == Oldest - subs[c].pos IN
          /\ subs' = [subs EXCEPT ![c].pos = Oldest, ![c].wrote = [is |-> "lost", n |-> missed]]
          /\ heard' = [heard EXCEPT ![c] = @ + missed]
    /\ UNCHANGED <<nextSeq, backlog, slots>>

\* Slip: a refused subscription keeps the slot it counted.
UnsubscribeKeeping(c) ==
    /\ subs[c].at \in {"refused", "streaming"}
    /\ subs' = [subs EXCEPT ![c] = Gone]
    /\ slots' = IF subs[c].at = "refused" THEN slots ELSE slots - 1
    /\ UNCHANGED <<nextSeq, backlog, heard>>

\* A refusal, or the end of a stream: the client goes or speaks, or a write
\* times out.  The slot is given back however it ends.
Unsubscribe(c) ==
    /\ subs[c].at \in {"refused", "streaming"}
    /\ subs' = [subs EXCEPT ![c] = Gone] /\ slots' = slots - 1
    /\ UNCHANGED <<nextSeq, backlog, heard>>

StreamNext ==
    \/ Publish \/ BeginSession
    \/ \E c \in Subscribers : \/ AskForSlot(c) \/ TakeBacklog(c) \/ SendBacklog(c)
                              \/ SendLive(c) \/ SendLost(c) \/ Unsubscribe(c)

StreamSpec == StreamInit /\ [][StreamNext]_streamVars

-----------------------------------------------------------------------------
(* Properties.                                                             *)

\* A client gets the session so far and then every new event, once, in order
\* and without a gap it is not told of: the number of each event it is sent is
\* the one after the last it got or was told it has missed ("in the backlog or
\* on the channel, never both, never neither", publish), whatever is published
\* and whichever session begins while it subscribes or falls behind.
GapsAreTold ==
    \A c \in Subscribers : subs[c].wrote.is = "event" => subs[c].wrote.n = heard[c]
=============================================================================
