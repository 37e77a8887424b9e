----------------------------- MODULE UndoJournal -----------------------------
(***************************************************************************)
(* The write-ahead undo registry (dnet-netstate/src/undo.rs) over its file *)
(* (undo_file.rs) and the routing table (win_route.rs).                    *)
(*                                                                         *)
(* The registry's lock is held through each of its calls, so one is under  *)
(* way at a time (`op'); a crash can fall between any two of its steps.    *)
(* A save replaces the whole file by a rename, and is restricted after     *)
(* that: one that reports a failure leaves the old file or the new one.    *)
(* A route stands for its key, (interface, destination, next hop).         *)
(***************************************************************************)
EXTENDS Naturals, FiniteSets

CONSTANTS
    Routes,         \* keys of host routes
    MaxRecords      \* bound: records made in a behaviour

ASSUME RecordsAssumption == MaxRecords \in Nat

VARIABLES
    table,      \* what the routing table holds under each key
    disk,       \* the journal in the file
    mem,        \* Inner::journal, while the registry is open
    open,       \* whether the registry is open
    op          \* the call under way

journalVars == <<table, disk, mem, open, op>>

Entries == [id : 1..MaxRecords, route : Routes]
Journals == [next : 1..(MaxRecords + 1), entries : SUBSET Entries]

EmptyJournal == [next |-> 1, entries |-> {}]
Without(j, ids) == [j EXCEPT !.entries = {e \in j.entries : e.id \notin ids}]

NoOp == [do |-> "none"]
Creating(e) == [do |-> "create", entry |-> e]
Withdrawing(e, err) == [do |-> "withdraw", entry |-> e, err |-> err]
Forgetting(e) == [do |-> "forget", entry |-> e]
Replaying(left, restored) == [do |-> "replay", left |-> left, restored |-> restored]

Ops == {NoOp}
       \cup [do : {"create", "forget"}, entry : Entries]
       \cup [do : {"withdraw"}, entry : Entries, err : BOOLEAN]
       \cup [do : {"replay"}, left : SUBSET Entries, restored : SUBSET (1..MaxRecords)]

JournalInit ==
    /\ table = [r \in Routes |-> "none"]
    /\ disk = EmptyJournal /\ mem = EmptyJournal
    /\ open = FALSE /\ op = NoOp

-----------------------------------------------------------------------------
(* UndoRegistry::open: what a previous run left is loaded.                 *)

Open ==
    /\ ~open /\ open' = TRUE
    /\ mem' = disk
    /\ UNCHANGED <<table, disk, op>>

-----------------------------------------------------------------------------
(* UndoRegistry::apply: the record is saved, then the route is created, and *)
(* a record that turns out not to be needed is withdrawn.                  *)

Registered(r) == [next |-> mem.next + 1,
                  entries |-> mem.entries \cup {[id |-> mem.next, route |-> r]}]

\* Slip: the record is kept in memory and saved with the next one.
RecordInMemory(r) ==
    /\ open /\ op = NoOp /\ mem.next <= MaxRecords
    /\ mem' = Registered(r)
    /\ op' = Creating([id |-> mem.next, route |-> r])
    /\ UNCHANGED <<table, disk, open>>

\* A save that reports success, or one that does not, is all the caller knows.
Saves(new, saved) == IF saved THEN disk' = new ELSE disk' \in {disk, new}

Record(r) ==
    /\ open /\ op = NoOp /\ mem.next <= MaxRecords
    /\ disk' = Registered(r) /\ mem' = Registered(r)
    /\ op' = Creating([id |-> mem.next, route |-> r])
    /\ UNCHANGED <<table, open>>

\* The save fails: nothing is remembered and the route is not created.
RecordFails(r) ==
    /\ open /\ op = NoOp /\ mem.next <= MaxRecords
    /\ Saves(Registered(r), FALSE)
    /\ UNCHANGED <<table, mem, open, op>>

CreateApplied ==
    /\ op.do = "create" /\ table[op.entry.route] = "none"
    /\ table' = [table EXCEPT ![op.entry.route] = "ours"]
    /\ op' = NoOp
    /\ UNCHANGED <<disk, mem, open>>

\* Already there (AlreadyPresent), or refused by the system (err).
CreateNothing(err) ==
    /\ op.do = "create"
    /\ err \/ table[op.entry.route] # "none"
    /\ op' = Withdrawing(op.entry, err)
    /\ UNCHANGED <<table, disk, mem, open>>

\* Dropped from memory even if the file could not be written.
Withdraw(saved) ==
    /\ op.do = "withdraw"
    /\ mem' = Without(mem, {op.entry.id})
    /\ Saves(mem', saved)
    /\ op' = NoOp
    /\ UNCHANGED <<table, open>>

-----------------------------------------------------------------------------
(* UndoRegistry::undo: one record is reversed, then dropped.  Deleting a    *)
(* route that is not there is no error; whose it was is not known.         *)

Reversed(r) == [table EXCEPT ![r] = "none"]

UndoReversed(e) ==
    /\ open /\ op = NoOp /\ e \in mem.entries
    /\ table' = Reversed(e.route)
    /\ op' = Forgetting(e)
    /\ UNCHANGED <<disk, mem, open>>

\* If the save fails the record stays in memory.
Forget(saved) ==
    /\ op.do = "forget"
    /\ mem' = IF saved THEN Without(mem, {op.entry.id}) ELSE mem
    /\ Saves(Without(mem, {op.entry.id}), saved)
    /\ op' = NoOp
    /\ UNCHANGED <<table, open>>

-----------------------------------------------------------------------------
(* UndoRegistry::replay: every record, newest first.  Those that could not  *)
(* be reversed stay.                                                       *)

StartReplay ==
    /\ open /\ op = NoOp
    /\ op' = Replaying(mem.entries, {})
    /\ UNCHANGED <<table, disk, mem, open>>

ReplayOne(e, reversed) ==
    /\ op.do = "replay"
    /\ e \in op.left /\ \A f \in op.left : f.id <= e.id
    /\ table' = IF reversed THEN Reversed(e.route) ELSE table
    /\ op' = Replaying(op.left \ {e},
                       IF reversed THEN op.restored \cup {e.id} ELSE op.restored)
    /\ UNCHANGED <<disk, mem, open>>

\* Slip: the whole journal is cleared once anything was restored.
EndReplayClearing(saved) ==
    /\ op.do = "replay" /\ op.left = {}
    /\ mem' = IF saved /\ op.restored # {} THEN [mem EXCEPT !.entries = {}] ELSE mem
    /\ disk' = IF saved /\ op.restored # {} THEN mem' ELSE disk
    /\ op' = NoOp
    /\ UNCHANGED <<table, open>>

\* Nothing is written when nothing was restored; a save that fails leaves the
\* journal as it was in memory.
EndReplay(saved) ==
    /\ op.do = "replay" /\ op.left = {}
    /\ mem' = IF saved /\ op.restored # {} THEN Without(mem, op.restored) ELSE mem
    /\ IF op.restored = {} THEN UNCHANGED disk ELSE Saves(Without(mem, op.restored), saved)
    /\ op' = NoOp
    /\ UNCHANGED <<table, open>>

-----------------------------------------------------------------------------
(* The surroundings: the service ends at any point; another program adds a *)
(* route under a key that is free.                                         *)

Crash ==
    /\ open' = FALSE /\ mem' = EmptyJournal /\ op' = NoOp
    /\ UNCHANGED <<table, disk>>

TheirsAppears(r) ==
    /\ table[r] = "none"
    /\ table' = [table EXCEPT ![r] = "theirs"]
    /\ UNCHANGED <<disk, mem, open, op>>

JournalNext ==
    \/ Open \/ StartReplay \/ CreateApplied \/ Crash
    \/ \E r \in Routes : Record(r) \/ RecordFails(r) \/ TheirsAppears(r)
    \/ \E e \in Entries : UndoReversed(e) \/ \E b \in BOOLEAN : ReplayOne(e, b)
    \/ \E b \in BOOLEAN : CreateNothing(b) \/ Withdraw(b) \/ Forget(b) \/ EndReplay(b)

JournalSpec == JournalInit /\ [][JournalNext]_journalVars

-----------------------------------------------------------------------------
(* Properties.                                                             *)

JournalTypeOK ==
    /\ table \in [Routes -> {"none", "ours", "theirs"}]
    /\ disk \in Journals /\ mem \in Journals
    /\ open \in BOOLEAN /\ op \in Ops

Ours == {r \in Routes : table[r] = "ours"}
RoutesOf(j) == {e.route : e \in j.entries}

\* Every route of ours that stands has its reversal on disk, at every moment a
\* crash could come: between the save, the creation, the withdrawal and the
\* steps of a replay, whatever of it fails (undo.rs:206, win_route.rs:8).
ChangesAreRecorded == Ours \subseteq RoutesOf(disk)

Promise == INSTANCE RecordedChanges WITH
    Changes <- Routes, made <- Ours, recorded <- RoutesOf(disk)

\* The registry, its file and the table together do what the journal promises:
\* no route of ours appears without a record that was there before, and no
\* record goes while its route stands (undo.rs:1).
KeepsItsPromise == Promise!RecSpec
=============================================================================
