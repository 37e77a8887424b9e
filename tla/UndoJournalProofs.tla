-------------------------- MODULE UndoJournalProofs --------------------------
(***************************************************************************)
(* The undo journal keeps a record of every route of ours, for any set of  *)
(* routes, any number of records and a crash at any step, and so does what *)
(* RecordedChanges promises.                                               *)
(***************************************************************************)
EXTENDS UndoJournal, TLAPS

\* The ids the call under way is about to drop.
Going == CASE op.do \in {"create", "withdraw", "forget"} -> {op.entry.id}
           [] op.do = "replay" -> op.restored
           [] OTHER -> {}

Staying == {e \in mem.entries : e.id \notin Going}
Unique(entries) == \A e, f \in entries : e.id = f.id => e = f
Below(j) == \A e \in j.entries : e.id < j.next

MemoryAndDisk ==
    /\ Below(mem) /\ Unique(mem.entries)
    /\ Ours \subseteq {e.route : e \in Staying \cap disk.entries}

CallUnderWay ==
    /\ op.do = "create" => op.entry \in mem.entries \cap disk.entries
    /\ op.do = "withdraw" => op.entry \in mem.entries
    /\ op.do = "forget" => op.entry \in mem.entries
    /\ op.do = "replay" => op.left \subseteq mem.entries

\* The inductive invariant: the records that stay in memory once the call under
\* way has dropped its own, and are in the file as well, cover every route of
\* ours.  Neither holds all the records of the other: a save that reported a
\* failure may have added one to the file or taken one out of it.
JournalInv ==
    /\ JournalTypeOK
    /\ Below(disk) /\ Unique(disk.entries)
    /\ IF open THEN MemoryAndDisk /\ CallUnderWay
       ELSE op = NoOp /\ mem = EmptyJournal /\ ChangesAreRecorded

-----------------------------------------------------------------------------
(* Facts about journals and calls.                                         *)

LEMMA EntryFacts ==
    ASSUME NEW e \in Entries
    PROVE  e.id \in 1..MaxRecords /\ e.route \in Routes
BY DEF Entries

LEMMA OpKinds ==
    ASSUME op \in Ops
    PROVE  /\ op.do \in {"none", "create", "withdraw", "forget", "replay"}
           /\ op.do = "none" => op = NoOp
           /\ op.do \in {"create", "withdraw", "forget"} => op.entry \in Entries
           /\ op.do = "withdraw" => op.err \in BOOLEAN
           /\ op.do = "replay" => op.left \in SUBSET Entries /\ op.restored \in SUBSET (1..MaxRecords)
BY DEF Ops, NoOp, Creating, Withdrawing, Forgetting, Replaying

LEMMA MadeOps ==
    /\ NoOp \in Ops /\ NoOp.do = "none"
    /\ \A e \in Entries :
          /\ Creating(e) \in Ops /\ Creating(e).do = "create" /\ Creating(e).entry = e
          /\ Forgetting(e) \in Ops /\ Forgetting(e).do = "forget" /\ Forgetting(e).entry = e
    /\ \A e \in Entries, b \in BOOLEAN :
          /\ Withdrawing(e, b) \in Ops /\ Withdrawing(e, b).do = "withdraw"
          /\ Withdrawing(e, b).entry = e
    /\ \A l \in SUBSET Entries, r \in SUBSET (1..MaxRecords) :
          /\ Replaying(l, r) \in Ops /\ Replaying(l, r).do = "replay"
          /\ Replaying(l, r).left = l /\ Replaying(l, r).restored = r
<1>1. NoOp \in Ops /\ NoOp.do = "none"
  BY DEF Ops, NoOp
<1>2. ASSUME NEW e \in Entries
      PROVE  /\ Creating(e) \in Ops /\ Creating(e).do = "create" /\ Creating(e).entry = e
             /\ Forgetting(e) \in Ops /\ Forgetting(e).do = "forget" /\ Forgetting(e).entry = e
  BY DEF Ops, Creating, Forgetting
<1>3. ASSUME NEW e \in Entries, NEW b \in BOOLEAN
      PROVE  /\ Withdrawing(e, b) \in Ops /\ Withdrawing(e, b).do = "withdraw"
             /\ Withdrawing(e, b).entry = e
  <2>1. Withdrawing(e, b) \in [do : {"withdraw"}, entry : Entries, err : BOOLEAN]
    BY Zenon DEF Withdrawing
  <2> QED
    BY <2>1 DEF Ops, Withdrawing
<1>4. ASSUME NEW l \in SUBSET Entries, NEW r \in SUBSET (1..MaxRecords)
      PROVE  /\ Replaying(l, r) \in Ops /\ Replaying(l, r).do = "replay"
             /\ Replaying(l, r).left = l /\ Replaying(l, r).restored = r
  BY DEF Ops, Replaying
<1> QED
  BY <1>1, <1>2, <1>3, <1>4, Zenon

LEMMA WithoutFacts ==
    ASSUME NEW j \in Journals, NEW ids
    PROVE  /\ Without(j, ids) \in Journals
           /\ Without(j, ids).next = j.next
           /\ Without(j, ids).entries = {e \in j.entries : e.id \notin ids}
BY DEF Without, Journals

LEMMA RegisteredFacts ==
    ASSUME NEW r \in Routes, mem \in Journals, mem.next <= MaxRecords
    PROVE  /\ Registered(r) \in Journals
           /\ Registered(r).next = mem.next + 1
           /\ Registered(r).entries = mem.entries \cup {[id |-> mem.next, route |-> r]}
           /\ [id |-> mem.next, route |-> r] \in Entries
BY RecordsAssumption DEF Registered, Journals, Entries

-----------------------------------------------------------------------------
(* One lemma per action.                                                   *)

LEMMA InitHolds == JournalInit => JournalInv
<1> SUFFICES ASSUME JournalInit PROVE JournalInv
  OBVIOUS
<1>1. EmptyJournal \in Journals
  BY RecordsAssumption DEF EmptyJournal, Journals
<1>2. JournalTypeOK
  BY <1>1, MadeOps DEF JournalInit, JournalTypeOK
<1>3. Ours = {}
  BY DEF JournalInit, Ours
<1> QED
  BY <1>1, <1>2, <1>3 DEF JournalInit, JournalInv, Below, Unique, ChangesAreRecorded, EmptyJournal

LEMMA OpenKeeps ==
    ASSUME JournalInv, Open PROVE JournalInv'
<1>1. JournalTypeOK'
  BY DEF JournalInv, Open, JournalTypeOK
<1>2. Going' = {}
  BY MadeOps DEF JournalInv, Open, Going
<1>3. MemoryAndDisk'
  BY <1>2 DEF JournalInv, Open, MemoryAndDisk, Staying, Ours, ChangesAreRecorded, RoutesOf,
              Below, Unique
<1>4. CallUnderWay'
  BY MadeOps DEF JournalInv, Open, CallUnderWay
<1> QED
  BY <1>1, <1>3, <1>4 DEF JournalInv, Open, Below, Unique

LEMMA RecordKeeps ==
    ASSUME JournalInv, NEW r \in Routes, Record(r) PROVE JournalInv'
<1> DEFINE new == [id |-> mem.next, route |-> r]
<1>1. /\ mem \in Journals /\ disk \in Journals /\ open /\ MemoryAndDisk
      /\ Going = {} /\ mem.next \in Nat
  BY MadeOps DEF JournalInv, Record, JournalTypeOK, Going, Journals
<1>2. /\ mem' = Registered(r) /\ disk' = Registered(r) /\ op' = Creating(new)
      /\ table' = table /\ open' = open /\ new \in Entries
      /\ Registered(r).next = mem.next + 1
      /\ Registered(r).entries = mem.entries \cup {new}
      /\ Registered(r) \in Journals
  BY <1>1, RegisteredFacts DEF Record
<1>3. JournalTypeOK'
  BY <1>1, <1>2, MadeOps DEF JournalInv, JournalTypeOK
<1>4. \A e \in mem.entries : e.id < mem.next /\ e.id \in Nat
  BY <1>1, EntryFacts DEF Below, MemoryAndDisk, Journals
<1>5. /\ Below(disk)' /\ Unique(disk.entries)'
      /\ Below(mem)' /\ Unique(mem.entries)'
  BY <1>1, <1>2, <1>4 DEF Below, Unique, MemoryAndDisk
<1>6. Going' = {mem.next}
  BY <1>2, MadeOps DEF Going
<1>7. Staying' = mem.entries
  BY <1>2, <1>4, <1>6 DEF Staying
<1>8. Staying = mem.entries
  BY <1>1 DEF Staying
<1>9. MemoryAndDisk'
  BY <1>1, <1>2, <1>5, <1>7, <1>8 DEF MemoryAndDisk, Ours
<1>10. CallUnderWay'
  BY <1>2, MadeOps DEF CallUnderWay
<1> QED
  BY <1>1, <1>2, <1>3, <1>5, <1>9, <1>10 DEF JournalInv

LEMMA RecordFailsKeeps ==
    ASSUME JournalInv, NEW r \in Routes, RecordFails(r) PROVE JournalInv'
<1>1. /\ mem \in Journals /\ disk \in Journals /\ open /\ MemoryAndDisk
      /\ mem.next \in Nat
      /\ disk' = disk \/ disk' = Registered(r)
  BY DEF JournalInv, RecordFails, JournalTypeOK, Journals, Saves
<1>2. /\ Registered(r).next = mem.next + 1
      /\ Registered(r).entries = mem.entries \cup {[id |-> mem.next, route |-> r]}
      /\ Registered(r) \in Journals
  BY <1>1, RegisteredFacts DEF RecordFails
<1>3. JournalTypeOK'
  BY <1>1, <1>2 DEF JournalInv, JournalTypeOK, RecordFails
<1>4. \A e \in mem.entries : e.id < mem.next /\ e.id \in Nat
  BY <1>1, EntryFacts DEF Below, MemoryAndDisk, Journals
<1>5. Below(disk)' /\ Unique(disk.entries)'
  BY <1>1, <1>2, <1>4 DEF JournalInv, Below, Unique, MemoryAndDisk
<1>6. Staying' = Staying /\ Staying \subseteq mem.entries
  BY DEF RecordFails, Staying, Going
<1>7. MemoryAndDisk'
  BY <1>1, <1>2, <1>6 DEF RecordFails, MemoryAndDisk, Ours, Below, Unique
<1>8. CallUnderWay'
  BY MadeOps DEF RecordFails, CallUnderWay
<1> QED
  BY <1>1, <1>3, <1>5, <1>7, <1>8 DEF JournalInv, RecordFails

LEMMA CreateAppliedKeeps ==
    ASSUME JournalInv, CreateApplied PROVE JournalInv'
<1>1. /\ op.do = "create" /\ open /\ MemoryAndDisk /\ op.entry \in mem.entries \cap disk.entries
      /\ op.entry \in Entries /\ op' = NoOp /\ op \in Ops
      /\ table \in [Routes -> {"none", "ours", "theirs"}]
  BY MadeOps, OpKinds DEF JournalInv, CreateApplied, JournalTypeOK, CallUnderWay
<1>2. JournalTypeOK'
  BY <1>1, MadeOps, EntryFacts DEF JournalInv, CreateApplied, JournalTypeOK
<1>3. Staying \subseteq mem.entries /\ Staying' = mem.entries
  BY <1>1, MadeOps DEF CreateApplied, Staying, Going
<1>4. Ours' \subseteq Ours \cup {op.entry.route}
  BY <1>1 DEF CreateApplied, Ours
<1>5. MemoryAndDisk'
  BY <1>1, <1>3, <1>4 DEF CreateApplied, MemoryAndDisk, Below, Unique
<1>6. CallUnderWay'
  BY <1>1, MadeOps DEF CallUnderWay
<1> QED
  BY <1>1, <1>2, <1>5, <1>6 DEF JournalInv, CreateApplied, Below, Unique

LEMMA CreateNothingKeeps ==
    ASSUME JournalInv, NEW b \in BOOLEAN, CreateNothing(b) PROVE JournalInv'
<1>1. /\ op.do = "create" /\ open /\ MemoryAndDisk /\ op.entry \in mem.entries
      /\ op.entry \in Entries /\ op' = Withdrawing(op.entry, b)
  BY MadeOps, OpKinds DEF JournalInv, CreateNothing, JournalTypeOK, CallUnderWay
<1>2. op' \in Ops /\ op'.do = "withdraw" /\ op'.entry = op.entry
  BY <1>1, MadeOps
<1>3. JournalTypeOK'
  BY <1>2 DEF JournalInv, CreateNothing, JournalTypeOK
<1>4. Going' = Going
  BY <1>1, <1>2 DEF Going
<1>5. MemoryAndDisk'
  BY <1>1, <1>4 DEF CreateNothing, MemoryAndDisk, Staying, Ours, Below, Unique
<1>6. CallUnderWay'
  BY <1>1, <1>2 DEF CreateNothing, CallUnderWay
<1> QED
  BY <1>1, <1>3, <1>5, <1>6 DEF JournalInv, CreateNothing, Below, Unique

\* Dropping the records a call was about to drop, in memory and perhaps on disk.
LEMMA DropKeeps ==
    ASSUME JournalInv, open, open' = open, table' = table, op' = NoOp,
           mem' = mem \/ mem' = Without(mem, Going),
           disk' = disk \/ disk' = Without(mem, Going)
    PROVE  JournalInv'
<1>1. /\ mem \in Journals /\ disk \in Journals /\ MemoryAndDisk
  BY DEF JournalInv, JournalTypeOK
<1>2. /\ Without(mem, Going) \in Journals /\ Without(mem, Going).next = mem.next
      /\ Without(mem, Going).entries = Staying
  BY <1>1, WithoutFacts DEF Staying
<1>3. Going' = {} /\ Staying' = mem'.entries
  BY MadeOps DEF Going, Staying
<1>4. JournalTypeOK'
  BY <1>1, <1>2, MadeOps DEF JournalInv, JournalTypeOK
<1>5. Staying \subseteq mem.entries
  BY DEF Staying
<1>6. /\ Below(mem)' /\ Unique(mem.entries)'
      /\ Below(disk)' /\ Unique(disk.entries)'
  BY <1>1, <1>2, <1>5 DEF JournalInv, Below, Unique, MemoryAndDisk
<1>7. Staying \cap disk.entries \subseteq Staying' \cap disk'.entries
  BY <1>2, <1>3, <1>5
<1>8. MemoryAndDisk'
  BY <1>1, <1>6, <1>7 DEF MemoryAndDisk, Ours
<1> QED
  BY <1>4, <1>6, <1>8, MadeOps DEF JournalInv, CallUnderWay

LEMMA CallsAreOpen ==
    ASSUME JournalInv, op.do # "none"
    PROVE  open
BY MadeOps DEF JournalInv

LEMMA WithdrawKeeps ==
    ASSUME JournalInv, NEW b \in BOOLEAN, Withdraw(b) PROVE JournalInv'
BY DropKeeps, CallsAreOpen DEF Withdraw, Saves, Going

LEMMA ForgetKeeps ==
    ASSUME JournalInv, NEW b \in BOOLEAN, Forget(b) PROVE JournalInv'
BY DropKeeps, CallsAreOpen DEF Forget, Saves, Going

LEMMA EndReplayKeeps ==
    ASSUME JournalInv, NEW b \in BOOLEAN, EndReplay(b) PROVE JournalInv'
BY DropKeeps, CallsAreOpen DEF EndReplay, Saves, Going

LEMMA UndoReversedKeeps ==
    ASSUME JournalInv, NEW e \in Entries, UndoReversed(e) PROVE JournalInv'
<1>1. /\ open /\ MemoryAndDisk /\ e \in mem.entries /\ Going = {}
      /\ op' = Forgetting(e) /\ table \in [Routes -> {"none", "ours", "theirs"}]
      /\ mem \in Journals
  BY MadeOps DEF JournalInv, UndoReversed, JournalTypeOK, Going
<1>2. op' \in Ops /\ op'.do = "forget" /\ op'.entry = e
  BY <1>1, MadeOps
<1>3. JournalTypeOK'
  BY <1>1, <1>2, EntryFacts DEF JournalInv, UndoReversed, JournalTypeOK, Reversed
<1>4. Ours' = Ours \ {e.route}
  BY <1>1, EntryFacts DEF UndoReversed, Reversed, Ours
<1>5. Going' = {e.id} /\ Staying = mem.entries
  BY <1>1, <1>2 DEF Going, Staying
<1>6. \A f \in mem.entries : f.id = e.id => f = e
  BY <1>1 DEF Unique, MemoryAndDisk
<1>7. MemoryAndDisk'
  <2>1. ASSUME NEW r \in Ours' PROVE \E f \in Staying' \cap disk'.entries : f.route = r
    <3>1. PICK f \in mem.entries \cap disk.entries : f.route = r
      BY <1>1, <1>4, <1>5 DEF MemoryAndDisk
    <3>2. f \in Staying'
      BY <1>4, <1>5, <1>6, <3>1 DEF UndoReversed, Staying
    <3> QED
      BY <3>1, <3>2 DEF UndoReversed
  <2> QED
    BY <1>1, <2>1 DEF UndoReversed, MemoryAndDisk, Below, Unique
<1>8. CallUnderWay'
  BY <1>1, <1>2 DEF UndoReversed, CallUnderWay
<1> QED
  BY <1>1, <1>3, <1>7, <1>8 DEF JournalInv, UndoReversed, Below, Unique

LEMMA StartReplayKeeps ==
    ASSUME JournalInv, StartReplay PROVE JournalInv'
<1>1. /\ open /\ MemoryAndDisk /\ Going = {} /\ mem.entries \in SUBSET Entries
      /\ op' = Replaying(mem.entries, {})
  BY MadeOps DEF JournalInv, StartReplay, JournalTypeOK, Journals, Going
<1>2. /\ op' \in Ops /\ op'.do = "replay" /\ op'.left = mem.entries /\ op'.restored = {}
  BY <1>1, MadeOps
<1>3. JournalTypeOK'
  BY <1>2 DEF JournalInv, StartReplay, JournalTypeOK
<1>4. MemoryAndDisk'
  BY <1>1, <1>2 DEF StartReplay, MemoryAndDisk, Staying, Going, Ours, Below, Unique
<1>5. CallUnderWay'
  BY <1>1, <1>2 DEF StartReplay, CallUnderWay
<1> QED
  BY <1>1, <1>3, <1>4, <1>5 DEF JournalInv, StartReplay, Below, Unique

LEMMA ReplayOneKeeps ==
    ASSUME JournalInv, NEW e \in Entries, NEW b \in BOOLEAN, ReplayOne(e, b) PROVE JournalInv'
<1>1. /\ open /\ MemoryAndDisk /\ op.do = "replay" /\ e \in mem.entries
      /\ Going = op.restored /\ op.left \in SUBSET Entries /\ op.left \subseteq mem.entries
      /\ op.restored \in SUBSET (1..MaxRecords)
      /\ table \in [Routes -> {"none", "ours", "theirs"}]
  BY CallsAreOpen, OpKinds DEF JournalInv, ReplayOne, JournalTypeOK, CallUnderWay, Going
<1> DEFINE gone == IF b THEN op.restored \cup {e.id} ELSE op.restored
<1>2. /\ op' \in Ops /\ op'.do = "replay" /\ op'.left = op.left \ {e} /\ op'.restored = gone
  BY <1>1, MadeOps, EntryFacts DEF ReplayOne
<1>3. JournalTypeOK'
  BY <1>1, <1>2, EntryFacts DEF JournalInv, ReplayOne, JournalTypeOK, Reversed
<1>4. Ours' = IF b THEN Ours \ {e.route} ELSE Ours
  BY <1>1, EntryFacts DEF ReplayOne, Reversed, Ours
<1>5. Going' = gone
  BY <1>2 DEF Going
<1>6. \A f \in mem.entries : f.id = e.id => f = e
  BY <1>1 DEF Unique, MemoryAndDisk
<1>7. MemoryAndDisk'
  <2>1. ASSUME NEW r \in Ours' PROVE \E f \in Staying' \cap disk'.entries : f.route = r
    <3>1. PICK f \in Staying \cap disk.entries : f.route = r
      BY <1>1, <1>4 DEF MemoryAndDisk
    <3>2. f \in Staying'
      BY <1>1, <1>4, <1>5, <1>6, <3>1 DEF ReplayOne, Staying
    <3> QED
      BY <3>1, <3>2 DEF ReplayOne
  <2> QED
    BY <1>1, <2>1 DEF ReplayOne, MemoryAndDisk, Below, Unique
<1>8. CallUnderWay'
  BY <1>1, <1>2 DEF ReplayOne, CallUnderWay
<1> QED
  BY <1>1, <1>3, <1>7, <1>8 DEF JournalInv, ReplayOne, Below, Unique

\* What covers the routes in memory covers them on disk.
LEMMA InvRecords == ASSUME JournalInv PROVE ChangesAreRecorded
<1>1. CASE open
  BY <1>1 DEF JournalInv, MemoryAndDisk, Staying, ChangesAreRecorded, RoutesOf
<1>2. CASE ~open
  BY <1>2 DEF JournalInv
<1> QED
  BY <1>1, <1>2 DEF JournalInv, JournalTypeOK

LEMMA CrashKeeps ==
    ASSUME JournalInv, Crash PROVE JournalInv'
<1>1. EmptyJournal \in Journals
  BY RecordsAssumption DEF EmptyJournal, Journals
<1>2. JournalTypeOK'
  BY <1>1, MadeOps DEF JournalInv, Crash, JournalTypeOK
<1>3. ChangesAreRecorded'
  BY InvRecords DEF Crash, ChangesAreRecorded, Ours, RoutesOf
<1> QED
  BY <1>2, <1>3 DEF JournalInv, Crash, Below, Unique

LEMMA TheirsAppearsKeeps ==
    ASSUME JournalInv, NEW r \in Routes, TheirsAppears(r) PROVE JournalInv'
<1>1. table \in [Routes -> {"none", "ours", "theirs"}]
  BY DEF JournalInv, JournalTypeOK
<1>2. JournalTypeOK'
  BY <1>1 DEF JournalInv, TheirsAppears, JournalTypeOK
<1>3. Ours' = Ours
  BY <1>1 DEF TheirsAppears, Ours
<1>4. Going' = Going /\ Staying' = Staying
  BY DEF TheirsAppears, Going, Staying
<1>5. open => MemoryAndDisk' /\ CallUnderWay'
  BY <1>3, <1>4 DEF JournalInv, TheirsAppears, MemoryAndDisk, CallUnderWay, Below, Unique
<1>6. ~open => ChangesAreRecorded'
  BY <1>3 DEF JournalInv, TheirsAppears, ChangesAreRecorded, RoutesOf
<1> QED
  BY <1>2, <1>5, <1>6 DEF JournalInv, TheirsAppears, Below, Unique

LEMMA StutterKeeps ==
    ASSUME JournalInv, UNCHANGED journalVars PROVE JournalInv'
BY DEF JournalInv, journalVars, JournalTypeOK, MemoryAndDisk, CallUnderWay, Staying, Going,
       Below, Unique, ChangesAreRecorded, Ours, RoutesOf

LEMMA StepKeeps ==
    ASSUME JournalInv, [JournalNext]_journalVars PROVE JournalInv'
BY OpenKeeps, RecordKeeps, RecordFailsKeeps, CreateAppliedKeeps, CreateNothingKeeps, WithdrawKeeps, ForgetKeeps,
   UndoReversedKeeps, StartReplayKeeps, ReplayOneKeeps, EndReplayKeeps, CrashKeeps,
   TheirsAppearsKeeps, StutterKeeps DEF JournalNext

-----------------------------------------------------------------------------
(* Theorems.                                                               *)

\* The invariant above holds in every reachable state of the registry, its file
\* and the routing table (undo.rs, undo_file.rs, win_route.rs).
THEOREM JournalSafety == JournalSpec => []JournalInv
<1>1. JournalInit => JournalInv
  BY InitHolds
<1>2. JournalInv /\ [JournalNext]_journalVars => JournalInv'
  BY StepKeeps
<1> QED
  BY <1>1, <1>2, PTL DEF JournalSpec

\* Every route of ours has its reversal on disk, whatever fails and wherever the
\* service dies (undo.rs:206).
THEOREM JournalRecordsChanges == JournalSpec => []ChangesAreRecorded
<1>1. JournalInv => ChangesAreRecorded
  BY InvRecords
<1> QED
  BY <1>1, JournalSafety, PTL

LEMMA StepPromises ==
    ASSUME JournalInv, JournalInv', ChangesAreRecorded, ChangesAreRecorded',
           [JournalNext]_journalVars
    PROVE  [Promise!RecNext]_(Promise!absVars)
<1>1. /\ Ours \subseteq RoutesOf(disk) /\ Ours' \subseteq RoutesOf(disk)'
      /\ RoutesOf(disk) \subseteq Routes /\ RoutesOf(disk)' \subseteq Routes
      /\ table \in [Routes -> {"none", "ours", "theirs"}]
  BY DEF JournalInv, JournalTypeOK, Journals, Entries, RoutesOf, ChangesAreRecorded
<1>2. ASSUME Ours' = Ours PROVE Promise!WriteRecords
  BY <1>1, <1>2 DEF Promise!WriteRecords
<1>3. ASSUME disk' = disk, NEW e \in disk.entries, Ours' = Ours \cup {e.route} PROVE Promise!Make
  BY <1>3 DEF Promise!Make, RoutesOf
<1>4. ASSUME disk' = disk, NEW e \in Entries, Ours' = Ours \ {e.route} PROVE Promise!RecNext
  <2>1. CASE e.route \in RoutesOf(disk)
    BY <1>4, <2>1 DEF Promise!Reverse, Promise!RecNext, RoutesOf
  <2>2. CASE e.route \notin RoutesOf(disk)
    BY <1>1, <1>2, <1>4, <2>2 DEF Promise!RecNext
  <2> QED
    BY <2>1, <2>2
<1>5. ASSUME table' = table PROVE Promise!WriteRecords
  BY <1>2, <1>5 DEF Ours
<1>6. CASE CreateApplied
  <2>1. op.entry \in disk.entries /\ op.entry \in Entries
    BY <1>6, CallsAreOpen, OpKinds
    DEF JournalInv, JournalTypeOK, CreateApplied, MemoryAndDisk, CallUnderWay
  <2>2. Ours' = Ours \cup {op.entry.route}
    BY <1>1, <1>6, <2>1, EntryFacts DEF CreateApplied, Ours
  <2> QED
    BY <1>3, <1>6, <2>1, <2>2 DEF CreateApplied, Promise!RecNext
<1>7. ASSUME NEW e \in Entries, UndoReversed(e) PROVE Promise!RecNext
  <2>1. Ours' = Ours \ {e.route}
    BY <1>1, <1>7, EntryFacts DEF UndoReversed, Reversed, Ours
  <2> QED
    BY <1>4, <1>7, <2>1 DEF UndoReversed
<1>8. ASSUME NEW e \in Entries, NEW b \in BOOLEAN, ReplayOne(e, b) PROVE Promise!RecNext
  <2>1. CASE b
    <3>1. Ours' = Ours \ {e.route}
      BY <1>1, <1>8, <2>1, EntryFacts DEF ReplayOne, Reversed, Ours
    <3> QED
      BY <1>4, <1>8, <3>1 DEF ReplayOne
  <2>2. CASE ~b
    BY <1>5, <1>8, <2>2 DEF ReplayOne, Promise!RecNext
  <2> QED
    BY <2>1, <2>2
<1>9. ASSUME NEW r \in Routes, TheirsAppears(r) PROVE Promise!RecNext
  <2>1. Ours' = Ours
    BY <1>1, <1>9 DEF TheirsAppears, Ours
  <2> QED
    BY <1>2, <2>1 DEF Promise!RecNext
<1>10. CASE UNCHANGED journalVars
  BY <1>5, <1>10 DEF journalVars, Promise!RecNext
<1>11. ASSUME NEW r \in Routes, Record(r) \/ RecordFails(r) PROVE Promise!RecNext
  BY <1>5, <1>11 DEF Record, RecordFails, Promise!RecNext
<1>12. CASE Open \/ StartReplay \/ Crash
  BY <1>5, <1>12 DEF Open, StartReplay, Crash, Promise!RecNext
<1>13. ASSUME NEW b \in BOOLEAN, CreateNothing(b) \/ Withdraw(b) \/ Forget(b) \/ EndReplay(b)
       PROVE  Promise!RecNext
  BY <1>5, <1>13 DEF CreateNothing, Withdraw, Forget, EndReplay, Promise!RecNext
<1> QED
  BY <1>6, <1>7, <1>8, <1>9, <1>10, <1>11, <1>12, <1>13 DEF JournalNext

\* The registry implements RecordedChanges: no route without an earlier record,
\* no record given up while its route stands (undo.rs:1).
THEOREM JournalKeepsPromise == JournalSpec => KeepsItsPromise
<1>1. JournalInit => Promise!RecInit
  BY DEF JournalInit, Promise!RecInit, Ours, RoutesOf, EmptyJournal
<1>2. /\ JournalInv /\ JournalInv' /\ ChangesAreRecorded /\ ChangesAreRecorded'
      /\ [JournalNext]_journalVars
      => [Promise!RecNext]_(Promise!absVars)
  BY StepPromises
<1> QED
  BY <1>1, <1>2, JournalSafety, JournalRecordsChanges, PTL DEF JournalSpec, KeepsItsPromise, Promise!RecSpec
=============================================================================
