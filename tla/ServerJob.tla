----------------------------- MODULE ServerJob -----------------------------
(***************************************************************************)
(* A provisioning job (dnet-provision/src/): its stages, the ledger that   *)
(* is written before each create call, and the cleanup that goes by it.    *)
(*                                                                         *)
(* One job, its ledger file and the provider's account.  Every run opens   *)
(* the file; the process may die at any step.  A resource is known by the  *)
(* token the job chose.  The provider is external: a create call that      *)
(* reports an error may have taken effect, one that has returned takes no  *)
(* effect later, and a search finds what exists or reports an error.       *)
(***************************************************************************)
EXTENDS Naturals, Sequences, FiniteSets, SequencesExt

CONSTANTS
    MaxRuns             \* bound: runs and clean-ups of the job

ASSUME JobAssumption == MaxRuns \in Nat

Tokens == {"instance", "network"}
Does(what) == [does |-> what, to |-> "nothing"]
To(what, t) == [does |-> what, to |-> t]

VARIABLES
    lines,      \* the complete lines of the ledger file
    tail,       \* what follows the last newline: nothing, a fragment, or a whole event
    entries,    \* FileLedger::state: the state of each token's entry in memory
    cloud,      \* the resources that exist in the account
    at,         \* the step the run is at, 0 when none is under way
    clean,      \* the cleanup under way
    runs,
    report,     \* what the last run said of what it left: "none", "complete", "partial"
    joined,     \* history: whether an event was written onto the rest of a failed write
    reused      \* history: the tokens created again after they were recorded as removed

fileVars == <<lines, tail, joined>>
jobVars == <<lines, tail, entries, cloud, at, clean, runs, report, joined, reused>>

NoTail == [e |-> "none", token |-> "none"]
Fragment == [e |-> "fragment", token |-> "none"]
Damaged == [e |-> "damaged", token |-> "none"]
Event(e, t) == [e |-> e, token |-> t]
Events == [e : {"intent", "created", "removed"}, token : Tokens]

EntryStates == {"unknown", "intended", "created", "removed"}
Nothing == [t \in Tokens |-> "unknown"]
NotCleaning == [on |-> FALSE, left |-> <<>>, gone |-> FALSE, stuck |-> {}]

JobTypeOK ==
    /\ lines \in Seq(Events \cup {Damaged})
    /\ tail \in Events \cup {NoTail, Fragment}
    /\ entries \in [Tokens -> EntryStates]
    /\ cloud \subseteq Tokens
    /\ at \in Nat
    /\ clean.left \in Seq(Tokens) /\ clean.stuck \subseteq Tokens
    /\ runs \in 0 .. MaxRuns
    /\ report \in {"none", "complete", "partial"}
    /\ joined \in BOOLEAN /\ reused \subseteq Tokens

JobInit ==
    /\ lines = <<>> /\ tail = NoTail /\ joined = FALSE
    /\ entries = Nothing /\ cloud = {}
    /\ at = 0 /\ clean = NotCleaning /\ runs = 0 /\ report = "none" /\ reused = {}

-----------------------------------------------------------------------------
(* The ledger.                                                             *)

\* What a reader sees: a whole last event counts without its newline; a
\* fragment, or a damaged line that is the last, is ignored.
ReadLines ==
    LET all == IF tail \in Events THEN Append(lines, tail) ELSE lines IN
    IF tail # Fragment /\ all # <<>> /\ Last(all) = Damaged THEN Front(all) ELSE all

\* A damaged line anywhere else, or an event for a resource that was never
\* recorded, is refused.
Corrupt ==
    \E i \in DOMAIN ReadLines :
        \/ ReadLines[i] = Damaged
        \/ /\ ReadLines[i].e \in {"created", "removed"}
           /\ ~\E j \in 1 .. i - 1 : ReadLines[j] = Event("intent", ReadLines[i].token)

\* State::apply, over all the events: the first intent makes the entry, and
\* nothing is applied to one that was removed.
Recorded(t) ==
    LET seen == Range(ReadLines) IN
    IF Event("removed", t) \in seen THEN "removed"
    ELSE IF Event("created", t) \in seen THEN "created"
    ELSE IF Event("intent", t) \in seen THEN "intended" ELSE "unknown"

Applied(ev) ==
    [entries EXCEPT ![ev.token] =
        IF @ = "removed" \/ (ev.e = "intent" /\ @ # "unknown") THEN @
        ELSE CASE ev.e = "intent" -> "intended" [] ev.e = "created" -> "created"
               [] ev.e = "removed" -> "removed"]

\* append.  What it writes onto the rest of a failed write is one damaged line.
Wrote(ev) ==
    /\ lines' = Append(lines, IF tail = NoTail THEN ev ELSE Damaged)
    /\ tail' = NoTail
    /\ joined' = (joined \/ tail # NoTail)

AppendTo(ev) == Wrote(ev) /\ entries' = Applied(ev)

\* It fails with nothing written, part of the line, all but the newline, or the
\* whole line and no confirmation that it is on the disk.
AppendFails(ev) ==
    /\ \/ UNCHANGED fileVars
       \/ tail = NoTail /\ tail' \in {Fragment, ev} /\ UNCHANGED <<lines, joined>>
       \/ Wrote(ev)
    /\ UNCHANGED entries

\* FileLedger::open: what was cut off is completed or removed (repair_tail).
OpenLedger ==
    /\ ~Corrupt
    /\ entries' = [t \in Tokens |-> Recorded(t)]
    /\ lines' = IF tail \in Events THEN Append(lines, tail) ELSE lines
    /\ tail' = NoTail
    /\ UNCHANGED joined

-----------------------------------------------------------------------------
(* The stages.                                                             *)

\* Slip: the intent is written once the provider has answered.
StepsIntentLate ==
    <<Does("credential"), Does("capacity"),
      To("create", "instance"), To("intend", "instance"), To("confirm", "instance"),
      To("create", "network"), To("intend", "network"), To("confirm", "network"),
      Does("bootstrap"), Does("keepalive"), Does("verify")>>

Steps ==
    <<Does("credential"), Does("capacity"),
      To("intend", "instance"), To("create", "instance"), To("confirm", "instance"),
      To("intend", "network"), To("create", "network"), To("confirm", "network"),
      Does("bootstrap"), Does("keepalive"), Does("verify")>>

Idle == at = 0 /\ ~clean.on
Running(what) == at # 0 /\ Steps[at].does = what
Resource == Steps[at].to
Onward == at' = (IF at = Len(Steps) THEN 0 ELSE at + 1) /\ UNCHANGED <<clean, report>>
StopsHere == at' = 0 /\ UNCHANGED <<clean, report>>

LiveIn(es) == {t \in Tokens : es[t] \in {"intended", "created"}}
Live == LiveIn(entries)
NewestFirst(live) ==
    (IF "network" \in live THEN <<"network">> ELSE <<>>)
        \o (IF "instance" \in live THEN <<"instance">> ELSE <<>>)

\* clean_up: nothing recorded means nothing to say.
CleansUp ==
    /\ at' = 0
    /\ clean' = [NotCleaning EXCEPT !.on = (Live # {}), !.left = NewestFirst(Live)]
    /\ report' = IF Live = {} THEN "complete" ELSE report

\* A job is run, or run again as it is or for a region with room.
StartJob ==
    /\ Idle /\ runs < MaxRuns
    /\ OpenLedger
    /\ at' = 1 /\ runs' = runs + 1
    /\ report' = "none"
    /\ UNCHANGED <<cloud, clean, reused>>

\* A job left by a crash is picked up again, to be cleaned up.
PickUp ==
    /\ Idle /\ runs < MaxRuns
    /\ OpenLedger
    /\ runs' = runs + 1 /\ at' = 0
    /\ clean' = [NotCleaning EXCEPT !.on = TRUE,
                    !.left = NewestFirst(LiveIn([t \in Tokens |-> Recorded(t)]))]
    /\ report' = "none"
    /\ UNCHANGED <<cloud, reused>>

\* begin: the person may have cancelled before any stage.
Cancel ==
    /\ at # 0 /\ Steps[at].does \notin {"create", "confirm"}
    /\ CleansUp
    /\ UNCHANGED <<fileVars, entries, cloud, runs, reused>>

\* A stage that makes nothing: it goes on, fails, or (the credential has to be
\* acknowledged, the region has no room) ends the run with nothing to clean up.
OtherStage ==
    /\ at # 0 /\ Resource = "nothing"
    /\ \/ Onward
       \/ CleansUp
       \/ Steps[at].does \in {"credential", "capacity"} /\ StopsHere
    /\ UNCHANGED <<fileVars, entries, cloud, runs, reused>>

\* record_intent.  If it cannot be written nothing is created.
Intend ==
    /\ Running("intend")
    /\ \/ AppendTo(Event("intent", Resource)) /\ Onward
       \/ AppendFails(Event("intent", Resource)) /\ CleansUp
    /\ UNCHANGED <<cloud, runs, reused>>

\* create_instance, open_ports.  A create call that fails may have taken effect.
Create ==
    /\ Running("create")
    /\ \/ cloud' = cloud \cup {Resource} /\ Onward
       \/ cloud' \in {cloud, cloud \cup {Resource}} /\ CleansUp
    /\ reused' = IF entries[Resource] = "removed" THEN reused \cup {Resource} ELSE reused
    /\ UNCHANGED <<fileVars, entries, runs>>

\* record_created
Confirm ==
    /\ Running("confirm")
    /\ \/ AppendTo(Event("created", Resource)) /\ Onward
       \/ AppendFails(Event("created", Resource)) /\ CleansUp
    /\ UNCHANGED <<cloud, runs, reused>>

-----------------------------------------------------------------------------
(* Cleanup.                                                                *)

Taking == clean.on /\ clean.left # <<>> /\ ~clean.gone
NextOne == Head(clean.left)

\* Slip: a search that fails counts as one that finds nothing.
SearchBlindly(t) == TRUE

\* An entry with no id is looked for by its token: found, not there, or an
\* error.  One with an id is not looked for.
SearchSaysNothingThere(t) == entries[t] = "intended" /\ t \notin cloud

\* remove_one.  A delete that reports an error may have taken effect.
RemoveOne ==
    /\ Taking
    /\ \/ /\ SearchSaysNothingThere(NextOne)
          /\ clean' = [clean EXCEPT !.gone = TRUE] /\ UNCHANGED cloud
       \/ /\ entries[NextOne] = "created" \/ NextOne \in cloud
          /\ cloud' = cloud \ {NextOne}
          /\ clean' = [clean EXCEPT !.gone = TRUE]
       \/ /\ cloud' \in {cloud, cloud \ {NextOne}}
          /\ clean' = [clean EXCEPT !.left = Tail(@), !.stuck = @ \cup {NextOne}]
    /\ UNCHANGED <<fileVars, entries, at, runs, reused, report>>

\* record_removed.  If it cannot be written everything not recorded as gone is
\* reported as still there.
RecordRemoved ==
    /\ clean.on /\ clean.gone
    /\ \/ /\ AppendTo(Event("removed", NextOne))
          /\ clean' = [clean EXCEPT !.left = Tail(@), !.gone = FALSE]
          /\ UNCHANGED report
       \/ /\ AppendFails(Event("removed", NextOne))
          /\ clean' = NotCleaning /\ report' = "partial"
    /\ UNCHANGED <<cloud, at, runs, reused>>

EndCleanup ==
    /\ clean.on /\ clean.left = <<>>
    /\ report' = IF clean.stuck = {} THEN "complete" ELSE "partial"
    /\ clean' = NotCleaning
    /\ UNCHANGED <<fileVars, entries, cloud, at, runs, reused>>

\* The process dies; an append under way is one that failed.
JobDies ==
    /\ ~Idle
    /\ at' = 0 /\ clean' = NotCleaning /\ entries' = Nothing
    /\ UNCHANGED <<fileVars, cloud, runs, reused, report>>

JobNext ==
    \/ StartJob \/ PickUp \/ Cancel \/ OtherStage \/ Intend \/ Create \/ Confirm
    \/ RemoveOne \/ RecordRemoved \/ EndCleanup \/ JobDies

JobSpec == JobInit /\ [][JobNext]_jobVars

-----------------------------------------------------------------------------
(* Properties.                                                             *)

\* "A crash at any moment leaves a ledger that accounts for everything that
\* exists" (stages.rs): the file as it is at any step can be read, and names
\* every resource in the account as not yet gone; unless an event was written
\* onto what a failed write in the same run had left, or the job was run again
\* after that resource was recorded as removed.
AccountedFor ==
    ~joined => ~Corrupt /\ \A t \in cloud \ reused : Recorded(t) \in {"intended", "created"}

\* A run or a cleanup that reports nothing left behind has left nothing behind
\* (CleanupReport::is_complete), whatever calls and writes failed on the way
\* and however many runs and crashes came before; but for a resource made again
\* by a run after it was recorded as removed.
CleanReportIsTrue ==
    Idle /\ report = "complete" => cloud \subseteq reused
=============================================================================
