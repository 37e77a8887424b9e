-------------------------- MODULE ServicePartsProofs --------------------------
(***************************************************************************)
(* The parts of the service that share no state.                           *)
(*                                                                         *)
(* What outlives the process, through every failed write and every crash:  *)
(* the saved configuration and its sealed credentials, the stored          *)
(* documents of the signed feed, the person's last word about the          *)
(* connection, and the ledger of a server that is being made.              *)
(*                                                                         *)
(* What the clients of the control pipe can rely on, however many there    *)
(* are and however their requests interleave: a held change is applied     *)
(* once, and a gap in the stream of events is told.                        *)
(*                                                                         *)
(* The types of every part, the parts side by side, and what two of the    *)
(* properties that do not hold need: that no change is withdrawn while it  *)
(* is approved, and that no move of a path fails.                          *)
(***************************************************************************)
EXTENDS ServiceParts, PathBudget, NetworkProofs,
    FiniteSetTheorems, SequenceTheorems, TLAPS

-----------------------------------------------------------------------------
(* The saved configuration.                                                *)

Given == 1 .. ids
Adding == rest.does \in {"seal", "save", "unseal"}

\* The endpoints the store has once the change under way is taken back.
Standing == IF Adding THEN rest.before.endpoints ELSE store.endpoints

\* Every endpoint of S whose add was not reported as failed has its credentials.
Backed(S) == S \ unsaid \subseteq sealed

ConfigTyped ==
    /\ serving \in BOOLEAN /\ refusal \in BOOLEAN
    /\ store \in Stores /\ saved \in Stores
    /\ sealed \subseteq Given /\ ids \in 0 .. MaxIds /\ unsaid \subseteq Ids
    /\ rest \in {NoChange} \cup
          [does : {"seal", "save", "unseal", "forget"}, id : Ids, before : Stores]
    /\ store.endpoints \subseteq Given /\ saved.endpoints \subseteq Given
    /\ Standing \subseteq Given

\* What each step that is still to come relies on.
RestIsSafe ==
    /\ ~serving => rest = NoChange
    /\ Adding => /\ rest.id \in Given /\ rest.id \notin rest.before.endpoints
                 /\ store.endpoints = rest.before.endpoints \cup {rest.id}
    /\ rest.does \in {"seal", "save"} => rest.id \notin saved.endpoints
    /\ rest.does = "save" => rest.id \in sealed
    /\ rest.does = "unseal" => rest.id \in unsaid \/ rest.id \notin saved.endpoints
    /\ rest.does = "forget" => rest.id \notin store.endpoints /\ rest.id \notin saved.endpoints

\* The file is backed, and so is what the next change will write over it.
KInv ==
    /\ ConfigTyped /\ RestIsSafe
    /\ Backed(saved.endpoints)
    /\ serving => Backed(Standing)

LEMMA SeededStore == Seeded \in Stores /\ Seeded.endpoints = {}
  BY ConfigAssumption DEF Seeded, Stores

LEMMA ConfigInitInv == ConfigInit => KInv
<1> SUFFICES ASSUME ConfigInit PROVE KInv
  OBVIOUS
<1>1. rest = NoChange /\ rest.does = "nothing"
  BY DEF ConfigInit, NoChange
<1>2. Standing = {} /\ ~Adding
  BY <1>1, SeededStore DEF ConfigInit, Standing, Adding
<1>3. ConfigTyped
  <2>1. 0 \in 0 .. MaxIds
    BY ConfigAssumption
  <2> QED BY <1>1, <1>2, <2>1, SeededStore DEF ConfigInit, ConfigTyped
<1>4. RestIsSafe
  BY <1>1, <1>2 DEF ConfigInit, RestIsSafe
<1> QED BY <1>2, <1>3, <1>4, SeededStore DEF ConfigInit, KInv, Backed

\* The same change with the store and the file it leads to.
LEMMA AddKeepsKInv == ASSUME KInv, AddEndpoint PROVE KInv'
<1> USE ConfigAssumption
<1>1. /\ rest = NoChange /\ serving /\ ids \in Nat /\ ids < MaxIds /\ ids' = ids + 1
      /\ ids + 1 \in Ids /\ ids + 1 \notin Given /\ Given' = Given \cup {ids + 1}
  BY DEF AddEndpoint, MayChange, KInv, ConfigTyped, Ids, Given
<1>2. /\ store \in Stores /\ store.endpoints \subseteq Given /\ Backed(store.endpoints)
      /\ store' = [store EXCEPT !.endpoints = @ \cup {ids + 1}] /\ store' \in Stores
      /\ store'.endpoints = store.endpoints \cup {ids + 1}
  BY <1>1 DEF AddEndpoint, KInv, ConfigTyped, Standing, Adding, NoChange, Stores
<1>3. /\ rest' = Change("seal", ids + 1, store) /\ rest'.does = "seal" /\ rest'.id = ids + 1
      /\ rest'.before = store
  BY DEF AddEndpoint, Change
<1>4. Adding' /\ Standing' = store.endpoints
  BY <1>3 DEF Adding, Standing
<1>5. ConfigTyped'
  BY <1>1, <1>2, <1>3, <1>4 DEF ConfigTyped, KInv, AddEndpoint, Change
<1>6. RestIsSafe'
  BY <1>1, <1>2, <1>3 DEF RestIsSafe, AddEndpoint, KInv, ConfigTyped
<1> QED BY <1>2, <1>4, <1>5, <1>6 DEF KInv, AddEndpoint, Backed

\* Every other change leaves the ids given as they are.
LEMMA RestKeepsKInv ==
    ASSUME KInv, Seal \/ SaveAdded \/ Unseal \/ ForgetCredentials
    PROVE  KInv'
<1> USE ConfigAssumption
<1>1. CASE Seal
  <2>1. rest.does = "seal" /\ rest # NoChange /\ rest.id \in Ids /\ rest.before \in Stores
    BY <1>1 DEF Seal, KInv, ConfigTyped, NoChange
  <2>2. CASE rest' = Change("save", rest.id, rest.before) /\ sealed' = sealed \cup {rest.id}
             /\ store' = store
    <3>1. /\ rest'.does = "save" /\ rest'.id = rest.id /\ rest'.before = rest.before
          /\ rest' \in [does : {"seal", "save", "unseal", "forget"}, id : Ids, before : Stores]
      BY <2>1, <2>2 DEF Change
    <3>2. Standing' = Standing
      BY <2>1, <3>1 DEF Standing, Adding
    <3> QED BY <1>1, <2>1, <2>2, <3>1, <3>2
        DEF Seal, KInv, ConfigTyped, RestIsSafe, Backed, Adding, Given
  <2>3. CASE rest' = NoChange /\ store' = rest.before
             /\ sealed' \in {sealed, sealed \cup {rest.id}}
    <3>1. rest'.does = "nothing" /\ Standing' = Standing
      BY <2>1, <2>3 DEF Standing, Adding, NoChange
    <3>2. rest.before.endpoints \subseteq Given
      BY <2>1 DEF KInv, ConfigTyped, Standing, Adding
    <3> QED BY <1>1, <2>1, <2>3, <3>1, <3>2
        DEF Seal, KInv, ConfigTyped, RestIsSafe, Backed, Adding, Given
  <2> QED BY <1>1, <2>2, <2>3 DEF Seal
<1>2. CASE SaveAdded
  BY <1>2 DEF SaveAdded, KInv, ConfigTyped, RestIsSafe, Backed, Standing, Adding, Given, Change,
              NoChange
<1>3. CASE Unseal
  BY <1>3 DEF Unseal, KInv, ConfigTyped, RestIsSafe, Backed, Standing, Adding, Given, NoChange
<1>4. CASE ForgetCredentials
  BY <1>4 DEF ForgetCredentials, KInv, ConfigTyped, RestIsSafe, Backed, Standing, Adding, Given,
              NoChange
<1> QED BY <1>1, <1>2, <1>3, <1>4

LEMMA RemoveKeepsKInv == ASSUME KInv, NEW e \in Ids, RemoveEndpoint(e) PROVE KInv'
<1> DEFINE new == [store EXCEPT !.endpoints = @ \ {e}]
<1>1. /\ rest = NoChange /\ store \in Stores /\ e \in Given /\ Backed(store.endpoints)
      /\ new \in Stores /\ new.endpoints = store.endpoints \ {e}
  BY DEF RemoveEndpoint, MayChange, KInv, ConfigTyped, Standing, Adding, NoChange, Stores
<1>2. SavesAs(new, Change("forget", e, store))
  BY DEF RemoveEndpoint
<1> HIDE DEF new
<1> QED BY <1>1, <1>2 DEF RemoveEndpoint, MayChange, SavesAs, KInv, ConfigTyped, RestIsSafe,
                          Backed, Standing, Adding, Given, Change, NoChange

LEMMA SettingKeepsKInv == ASSUME KInv, NEW s \in Settings, ChangeSetting(s) PROVE KInv'
<1> DEFINE new == [store EXCEPT !.settings = s]
<1>1. /\ rest = NoChange /\ store \in Stores /\ Backed(store.endpoints)
      /\ new \in Stores /\ new.endpoints = store.endpoints
  BY DEF ChangeSetting, MayChange, KInv, ConfigTyped, Standing, Adding, NoChange, Stores
<1>2. SavesAs(new, NoChange)
  BY DEF ChangeSetting
<1> HIDE DEF new
<1> QED BY <1>1, <1>2 DEF ChangeSetting, MayChange, SavesAs, KInv, ConfigTyped, RestIsSafe,
                          Backed, Standing, Adding, Given, NoChange

LEMMA RestartKeepsKInv == ASSUME KInv, LoadConfig \/ ConfigServiceDies PROVE KInv'
<1> USE ConfigAssumption
<1>1. CASE LoadConfig
  <2>1. rest = NoChange /\ rest.does = "nothing" /\ Standing' = store'.endpoints
    BY <1>1 DEF LoadConfig, KInv, RestIsSafe, NoChange, Standing, Adding
  <2> QED BY <1>1, <2>1, SeededStore
      DEF LoadConfig, KInv, ConfigTyped, RestIsSafe, Backed, Adding, Given
<1>2. CASE ConfigServiceDies
  BY <1>2 DEF ConfigServiceDies, KInv, ConfigTyped, RestIsSafe, Backed, Standing, Adding, Given,
              NoChange
<1> QED BY <1>1, <1>2

LEMMA ConfigNextInv == KInv /\ [ConfigNext]_configVars => KInv'
<1> SUFFICES ASSUME KInv, [ConfigNext]_configVars PROVE KInv'
  OBVIOUS
<1>1. CASE UNCHANGED configVars
  BY <1>1 DEF configVars, KInv, ConfigTyped, RestIsSafe, Backed, Standing, Adding, Given
<1> QED BY <1>1, AddKeepsKInv, RestKeepsKInv, RemoveKeepsKInv, SettingKeepsKInv,
           RestartKeepsKInv DEF ConfigNext

\* configure.rs: the file names no endpoint whose credentials do not exist,
\* through every order of changes, failed writes and crashes; except one of an
\* add that was reported as failed with the new file in place.
THEOREM ConfigSafety == ConfigSpec => []CredentialsExist
<1>1. KInv => CredentialsExist
  BY DEF KInv, Backed, CredentialsExist
<1> QED BY <1>1, ConfigInitInv, ConfigNextInv, PTL DEF ConfigSpec

-----------------------------------------------------------------------------
(* The signed feed.                                                        *)

\* What a start would refuse of the keys is never stored or in effect.
KeysAreRooted ==
    \A k \in {mem.keys, disk.keys} : k # Absent => RootSigned(k) /\ k.version >= MinKeysVersion

\* A document that is, or comes after, the newest that was in effect.
KeysReach(k, old) == k = old \/ (k # Absent /\ (old = Absent \/ k.version > old.version))
FeedReach(f, old) == f = old \/ (f # Absent /\ (old = Absent \/ FeedAfter(f, old)))

\* The newest feed belongs to keys older than these: they may have evicted it.
Outdated(f, k) == f # Absent => k # Absent /\ f.keysVersion < k.version
Fits(f, k) == f # Absent => k # Absent /\ f.keysVersion <= k.version

\* Memory is at the newest documents, but for a feed the keys evicted.
MemoryIsNewest ==
    /\ mem.keys = newest.keys
    /\ Fits(newest.feed, newest.keys)
    /\ mem.feed = newest.feed \/ (mem.feed = Absent /\ Outdated(newest.feed, newest.keys))

\* The files are never behind memory, because they are written first; and what
\* they would restore is never an older feed, nor none where one is due.
DiskIsNotBehind ==
    /\ KeysReach(disk.keys, newest.keys)
    /\ Fits(disk.feed, newest.keys)
    /\ FeedReach(disk.feed, newest.feed) \/ (disk.feed = Absent /\ Outdated(newest.feed, disk.keys))
    /\ disk.feed # Absent /\ ~Vouched(disk.feed, disk.keys) => Outdated(newest.feed, disk.keys)

\* A file no write of which failed holds what is in effect.
FilesAgree ==
    /\ "keys" \notin loose => disk.keys = mem.keys
    /\ "feed" \notin loose /\ ~evicting => disk.feed = mem.feed

\* What an offer, or a start, has to keep.
DocumentsKept ==
    /\ mem \in States /\ disk \in States /\ newest \in States
    /\ evicting \in BOOLEAN /\ told \in BOOLEAN /\ loose \subseteq {"keys", "feed"}
    /\ KeysAreRooted /\ EffectIsVouched
    /\ evicting => mem.feed = Absent
    /\ ~lost => MemoryIsNewest /\ DiskIsNotBehind /\ FilesAgree

FInv == FeedTypeOK /\ DocumentsKept /\ (evicting => feedUp)

\* A feed enough keys vouch for at some time is one enough keys vouch for.
LEMMA VouchedAtSome ==
    ASSUME NEW f \in FeedDocs, NEW k \in KeysDocs, NEW t, VouchedAt(f, k, t)
    PROVE  Vouched(f, k)
<1> DEFINE some == {s \in f.signers \cap DOMAIN k.signing : ValidAt(k.signing[s], t)}
           all == f.signers \cap DOMAIN k.signing
<1>1. IsFiniteSet(all)
  <2>1. all \in SUBSET f.signers /\ IsFiniteSet(f.signers)
    BY FeedAssumption
  <2> QED BY <2>1, FS_Subset
<1>2. Cardinality(some) <= Cardinality(all) /\ IsFiniteSet(some)
  <2>1. some \in SUBSET all
    OBVIOUS
  <2> QED BY <1>1, <2>1, FS_Subset
<1>3. Cardinality(some) \in Nat /\ Cardinality(all) \in Nat /\ k.threshold \in Nat
  BY <1>1, <1>2, FS_CardinalityType, FeedAssumption
<1>4. Cardinality(some) >= k.threshold
  BY DEF VouchedAt
<1> HIDE DEF some, all
<1>5. Cardinality(all) >= k.threshold
  BY <1>2, <1>3, <1>4
<1> QED BY <1>5 DEF Vouched, all

LEMMA FeedInitInv == FeedInit => FInv
<1> SUFFICES ASSUME FeedInit PROVE FInv
  OBVIOUS
<1>1. mem.keys = Absent /\ mem.feed = Absent /\ disk = mem /\ newest = mem /\ mem \in States
  BY DEF FeedInit, Both, States
<1>2. FeedTypeOK
  <2>1. 0 \in 0 .. MaxFeedStarts /\ 0 \in 0 .. MaxNow
    BY FeedAssumption
  <2> QED BY <1>1, <2>1 DEF FeedInit, FeedTypeOK
<1>3. KeysAreRooted /\ EffectIsVouched
  BY <1>1 DEF KeysAreRooted, EffectIsVouched
<1>4. MemoryIsNewest /\ DiskIsNotBehind /\ FilesAgree
  BY <1>1 DEF MemoryIsNewest, DiskIsNotBehind, FilesAgree, KeysReach, FeedReach, Outdated, Fits
<1> QED BY <1>2, <1>3, <1>4 DEF FInv, DocumentsKept, FeedTypeOK, FeedInit

\* Versions are numbers.
LEMMA DocTypes ==
    ASSUME NEW s \in States
    PROVE  /\ s.keys # Absent => s.keys \in KeysDocs /\ s.keys.version \in Nat
           /\ s.feed # Absent => /\ s.feed \in FeedDocs
                                 /\ s.feed.keysVersion \in Nat /\ s.feed.sequence \in Nat
  BY FeedAssumption DEF States

\* offer_keys, of keys that are taken: the applied feed stays only if they vouch
\* for it, and is older than they are in any case.
LEMMA TakeKeysKeeps ==
    ASSUME DocumentsKept, NEW k \in KeysDocs, NEW t, KeysAcceptable(k, t), TakeKeys(k), ~evicting,
           UNCHANGED lost
    PROVE  DocumentsKept'
<1> DEFINE kept == IF mem.feed # Absent /\ Vouched(mem.feed, k) THEN mem.feed ELSE Absent
<1>1. /\ mem \in States /\ disk \in States /\ newest \in States /\ k # Absent /\ k.version \in Nat
      /\ loose \subseteq {"keys", "feed"}
  BY FeedAssumption DEF DocumentsKept
<1>2. /\ mem' = Both(k, kept) /\ mem'.keys = k /\ mem'.feed = kept
      /\ disk'.keys = k /\ disk'.feed = disk.feed /\ loose' = loose \ {"keys"}
      /\ newest' = Later(newest, mem') /\ told' = FALSE
      /\ evicting' = (mem.feed # Absent /\ ~Vouched(mem.feed, k))
  BY <1>1 DEF TakeKeys, Commit, StateUnder, Both, States
<1>3. mem' \in States /\ disk' \in States
  BY <1>1, <1>2 DEF TakeKeys, States, Both
<1>4. newest' \in States
  BY <1>1, <1>2, <1>3 DEF Later, States, Both
<1>5. KeysAreRooted' /\ EffectIsVouched'
  BY <1>1, <1>2 DEF DocumentsKept, KeysAreRooted, EffectIsVouched, KeysAcceptable
<1>6. ASSUME ~lost PROVE MemoryIsNewest' /\ DiskIsNotBehind' /\ FilesAgree'
  <2>1. MemoryIsNewest /\ DiskIsNotBehind /\ FilesAgree
    BY <1>6 DEF DocumentsKept
  <2>2. newest.keys = Absent \/ (newest.keys.version \in Nat /\ k.version > newest.keys.version)
    BY <1>1, <2>1, DocTypes DEF MemoryIsNewest, KeysAcceptable
  <2>3. newest'.keys = k
    BY <1>1, <1>2, <2>2 DEF Later, Both
  <2>4. newest'.feed = newest.feed
    <3>1. kept = Absent \/ kept = newest.feed
      BY <2>1 DEF MemoryIsNewest
    <3>2. newest.feed # Absent => ~FeedAfter(newest.feed, newest.feed)
      BY <1>1, DocTypes DEF FeedAfter
    <3> QED BY <1>2, <3>1, <3>2 DEF Later, Both
  <2>5. Outdated(newest.feed, k)
    BY <1>1, <2>1, <2>2, DocTypes DEF Outdated, MemoryIsNewest, Fits
  <2>6. MemoryIsNewest'
    BY <1>1, <1>2, <2>1, <2>3, <2>4, <2>5, DocTypes DEF MemoryIsNewest, Outdated, Fits
  <2>7. Fits(disk.feed, k)
    BY <1>1, <2>1, <2>2, DocTypes DEF DiskIsNotBehind, Fits
  <2>8. DiskIsNotBehind'
    BY <1>2, <2>1, <2>3, <2>4, <2>5, <2>7 DEF DiskIsNotBehind, KeysReach
  <2>9. FilesAgree'
    BY <1>1, <1>2, <2>1 DEF FilesAgree
  <2> QED BY <2>6, <2>8, <2>9
<1> QED BY <1>1, <1>2, <1>3, <1>4, <1>5, <1>6 DEF DocumentsKept

\* A keys document whose write fails may be on disk, ahead of memory.
LEMMA KeysWriteFailsKeeps ==
    ASSUME DocumentsKept, NEW k \in KeysDocs, NEW t, KeysAcceptable(k, t), WriteFails("keys", k),
           UNCHANGED lost
    PROVE  DocumentsKept'
<1>1. /\ mem \in States /\ disk \in States /\ newest \in States /\ k # Absent /\ k.version \in Nat
      /\ loose \subseteq {"keys", "feed"}
  BY FeedAssumption DEF DocumentsKept
<1>2. /\ disk' = disk \/ (disk'.keys = k /\ disk'.feed = disk.feed /\ disk' \in States)
      /\ loose' = loose \cup {"keys"} /\ UNCHANGED <<mem, newest, told, evicting>>
  BY <1>1 DEF WriteFails, States
<1>3. KeysAreRooted' /\ EffectIsVouched'
  BY <1>1, <1>2 DEF DocumentsKept, KeysAreRooted, EffectIsVouched, KeysAcceptable
<1>4. ASSUME ~lost PROVE MemoryIsNewest' /\ DiskIsNotBehind' /\ FilesAgree'
  <2>1. MemoryIsNewest /\ DiskIsNotBehind /\ FilesAgree
    BY <1>4 DEF DocumentsKept
  <2>2. newest.keys = Absent \/ (newest.keys.version \in Nat /\ k.version > newest.keys.version)
    BY <1>1, <2>1, DocTypes DEF MemoryIsNewest, KeysAcceptable
  <2>3. Outdated(newest.feed, k)
    BY <1>1, <2>1, <2>2, DocTypes DEF Outdated, MemoryIsNewest, Fits
  <2>4. MemoryIsNewest' /\ FilesAgree'
    BY <1>2, <2>1 DEF MemoryIsNewest, FilesAgree
  <2>5. DiskIsNotBehind'
    BY <1>1, <1>2, <2>1, <2>2, <2>3 DEF DiskIsNotBehind, KeysReach
  <2> QED BY <2>4, <2>5
<1> QED BY <1>1, <1>2, <1>3, <1>4 DEF DocumentsKept

\* accept_feed: a feed that is accepted comes after every feed that was in
\* effect, also after one that has been evicted.
LEMMA AcceptedIsNewer ==
    ASSUME DocumentsKept, ~lost, NEW f \in FeedDocs, NEW t, FeedAcceptable(f, t)
    PROVE  /\ newest.feed = Absent \/ FeedAfter(f, newest.feed)
           /\ newest.keys # Absent /\ f.keysVersion = newest.keys.version
<1>1. newest \in States /\ MemoryIsNewest /\ f.keysVersion \in Nat
  BY FeedAssumption DEF DocumentsKept
<1> QED BY <1>1, DocTypes DEF MemoryIsNewest, FeedAcceptable, FeedAfter, Outdated

LEMMA OfferFeedKeeps ==
    ASSUME DocumentsKept, NEW f \in FeedDocs, NEW t, OfferFeed(f, t), ~evicting, UNCHANGED lost
    PROVE  DocumentsKept'
<1>1. /\ mem \in States /\ disk \in States /\ newest \in States /\ f # Absent
      /\ loose \subseteq {"keys", "feed"} /\ FeedAcceptable(f, t) /\ f.keysVersion \in Nat
      /\ mem.keys # Absent /\ mem.keys \in KeysDocs /\ f.sequence \in Nat
  BY FeedAssumption, DocTypes DEF DocumentsKept, OfferFeed, FeedAcceptable
<1>2. Vouched(f, mem.keys)
  BY <1>1, VouchedAtSome DEF FeedAcceptable
<1>3. CASE /\ disk' = [disk EXCEPT !.feed = f] /\ loose' = loose \ {"feed"}
           /\ Commit(Both(mem.keys, f)) /\ UNCHANGED evicting
  <2>1. /\ mem'.keys = mem.keys /\ mem'.feed = f /\ mem' \in States
        /\ disk'.keys = disk.keys /\ disk'.feed = f /\ disk' \in States
        /\ newest' = Later(newest, mem') /\ told' = FALSE
    BY <1>1, <1>3 DEF Commit, Both, States
  <2>2. newest' \in States
    BY <1>1, <2>1 DEF Later, States, Both
  <2>3. KeysAreRooted' /\ EffectIsVouched'
    BY <1>1, <1>2, <2>1 DEF DocumentsKept, KeysAreRooted, EffectIsVouched
  <2>4. ASSUME ~lost PROVE MemoryIsNewest' /\ DiskIsNotBehind' /\ FilesAgree'
    <3>1. /\ MemoryIsNewest /\ DiskIsNotBehind /\ FilesAgree
          /\ newest.feed = Absent \/ FeedAfter(f, newest.feed)
          /\ newest.keys # Absent /\ f.keysVersion = newest.keys.version
      BY <1>1, <2>4, AcceptedIsNewer DEF DocumentsKept
    <3>2. newest'.feed = f
      BY <1>1, <2>1, <3>1 DEF Later, Both
    <3>3. newest'.keys = newest.keys
      BY <2>1, <3>1 DEF Later, Both, MemoryIsNewest
    <3>4. MemoryIsNewest' /\ FilesAgree'
      BY <1>1, <1>3, <2>1, <3>1, <3>2, <3>3 DEF MemoryIsNewest, FilesAgree, Fits
    <3>5. Fits(f, newest.keys)
      BY <1>1, <3>1 DEF Fits
    <3>6. ~Vouched(f, disk.keys) => Outdated(f, disk.keys)
      BY <1>1, <1>2, <3>1 DEF MemoryIsNewest, DiskIsNotBehind, KeysReach, Outdated
    <3>7. DiskIsNotBehind'
      BY <2>1, <3>1, <3>2, <3>3, <3>5, <3>6 DEF DiskIsNotBehind, FeedReach
    <3> QED BY <3>4, <3>7
  <2> QED BY <1>1, <1>3, <2>1, <2>2, <2>3, <2>4 DEF DocumentsKept
<1>4. CASE WriteFails("feed", f)
  <2>1. /\ disk' = disk \/ (disk'.keys = disk.keys /\ disk'.feed = f /\ disk' \in States)
        /\ loose' = loose \cup {"feed"} /\ UNCHANGED <<mem, newest, told, evicting>>
    BY <1>1, <1>4 DEF WriteFails, States
  <2>2. KeysAreRooted' /\ EffectIsVouched'
    BY <2>1 DEF DocumentsKept, KeysAreRooted, EffectIsVouched
  <2>3. ASSUME ~lost PROVE MemoryIsNewest' /\ DiskIsNotBehind' /\ FilesAgree'
    <3>1. /\ MemoryIsNewest /\ DiskIsNotBehind /\ FilesAgree
          /\ newest.feed = Absent \/ FeedAfter(f, newest.feed)
          /\ newest.keys # Absent /\ f.keysVersion = newest.keys.version
      BY <1>1, <2>3, AcceptedIsNewer DEF DocumentsKept
    <3>2. MemoryIsNewest' /\ FilesAgree'
      BY <2>1, <3>1 DEF MemoryIsNewest, FilesAgree
    <3>3. Fits(f, newest.keys)
      BY <1>1, <3>1 DEF Fits
    <3>4. ~Vouched(f, disk.keys) => Outdated(newest.feed, disk.keys)
      BY <1>1, <1>2, <3>1, DocTypes DEF MemoryIsNewest, DiskIsNotBehind, KeysReach, Outdated, Fits
    <3>5. DiskIsNotBehind'
      BY <1>1, <2>1, <3>1, <3>3, <3>4 DEF DiskIsNotBehind, FeedReach
    <3> QED BY <3>2, <3>5
  <2> QED BY <1>1, <2>1, <2>2, <2>3 DEF DocumentsKept
<1> QED BY <1>3, <1>4 DEF OfferFeed

\* The removal of an evicted feed's file, which may fail.
LEMMA RemoveEvictedKeeps == ASSUME DocumentsKept, RemoveEvicted PROVE DocumentsKept'
<1>1. /\ mem \in States /\ disk \in States /\ newest \in States /\ mem.feed = Absent
      /\ loose \subseteq {"keys", "feed"}
  BY DEF DocumentsKept, RemoveEvicted
<1>2. UNCHANGED <<mem, told, newest, lost>> /\ evicting' = FALSE
  BY DEF RemoveEvicted
<1>3. CASE disk' = [disk EXCEPT !.feed = Absent] /\ loose' = loose \ {"feed"}
  <2>1. disk'.keys = disk.keys /\ disk'.feed = Absent /\ disk' \in States
    BY <1>1, <1>3 DEF States
  <2>2. KeysAreRooted' /\ EffectIsVouched'
    BY <1>2, <2>1 DEF DocumentsKept, KeysAreRooted, EffectIsVouched
  <2>3. ASSUME ~lost PROVE MemoryIsNewest' /\ DiskIsNotBehind' /\ FilesAgree'
    <3>1. MemoryIsNewest /\ DiskIsNotBehind /\ FilesAgree
      BY <2>3 DEF DocumentsKept
    <3>2. MemoryIsNewest' /\ FilesAgree'
      BY <1>1, <1>2, <1>3, <2>1, <3>1 DEF MemoryIsNewest, FilesAgree
    <3>3. newest.feed = Absent \/ Outdated(newest.feed, disk.keys)
      BY <1>1, <3>1, DocTypes DEF MemoryIsNewest, DiskIsNotBehind, KeysReach, Outdated
    <3>4. DiskIsNotBehind'
      BY <1>2, <2>1, <3>1, <3>3 DEF DiskIsNotBehind, FeedReach, Fits
    <3> QED BY <3>2, <3>4
  <2> QED BY <1>1, <1>2, <1>3, <2>1, <2>2, <2>3 DEF DocumentsKept
<1>4. CASE loose' = loose \cup {"feed"} /\ UNCHANGED disk
  BY <1>1, <1>2, <1>4 DEF DocumentsKept, KeysAreRooted, EffectIsVouched, MemoryIsNewest,
                          DiskIsNotBehind, FilesAgree
<1> QED BY <1>3, <1>4 DEF RemoveEvicted

\* restore: what a start makes of what it read.
LEMMA RestoredIsVouched ==
    ASSUME DocumentsKept,
           NEW read \in [keys : {disk.keys, Absent}, feed : {disk.feed, Absent}]
    PROVE  /\ Restored(read) \in States
           /\ Restored(read).keys = read.keys
           /\ Restored(read).feed =
                 IF read.keys # Absent /\ read.feed # Absent /\ Vouched(read.feed, read.keys)
                 THEN read.feed ELSE Absent
<1>1. read.keys # Absent => RootSigned(read.keys) /\ read.keys.version >= MinKeysVersion
  BY DEF DocumentsKept, KeysAreRooted
<1>2. read.keys \in {disk.keys, Absent} /\ read.feed \in {disk.feed, Absent} /\ disk \in States
  BY DEF DocumentsKept
<1> QED BY <1>1, <1>2 DEF Restored, Both, States

LEMMA StartKeeps == ASSUME DocumentsKept, ~evicting, StartFeed PROVE DocumentsKept'
<1>1. PICK read \in [keys : {disk.keys, Absent}, feed : {disk.feed, Absent}] :
          /\ Commit(Restored(read))
          /\ lost' = (lost \/ read # disk)
          /\ loose' = IF Restored(read).feed # disk.feed THEN {"feed"} ELSE {}
  BY DEF StartFeed
<1>2. /\ mem \in States /\ disk \in States /\ newest \in States
      /\ disk' = disk /\ evicting' = evicting /\ evicting \in BOOLEAN
  BY DEF DocumentsKept, StartFeed
<1>3. /\ mem' \in States /\ mem'.keys = read.keys
      /\ mem'.feed = IF read.keys # Absent /\ read.feed # Absent /\ Vouched(read.feed, read.keys)
                     THEN read.feed ELSE Absent
      /\ newest' = Later(newest, mem') /\ told' = FALSE
      /\ loose' = IF mem'.feed # disk.feed THEN {"feed"} ELSE {}
  BY <1>1, RestoredIsVouched DEF Commit
<1>4. newest' \in States
  BY <1>2, <1>3 DEF Later, States, Both
<1>5. KeysAreRooted' /\ EffectIsVouched'
  BY <1>2, <1>3 DEF DocumentsKept, KeysAreRooted, EffectIsVouched
<1>6. ASSUME ~lost' PROVE MemoryIsNewest' /\ DiskIsNotBehind' /\ FilesAgree'
  <2>1. read = disk /\ MemoryIsNewest /\ DiskIsNotBehind /\ FilesAgree
    BY <1>1, <1>6 DEF DocumentsKept
  <2>2. newest'.keys = disk.keys
    BY <1>3, <2>1 DEF Later, Both, DiskIsNotBehind, KeysReach
  <2>3. newest'.feed = IF mem'.feed # Absent THEN disk.feed ELSE newest.feed
    BY <1>3, <2>1 DEF Later, Both, DiskIsNotBehind, FeedReach
  <2>4. /\ Fits(disk.feed, disk.keys) /\ Fits(newest.feed, disk.keys)
    BY <1>2, <2>1, DocTypes DEF DiskIsNotBehind, KeysReach, Fits, MemoryIsNewest
  <2>5. mem'.feed = Absent => newest.feed = Absent \/ Outdated(newest.feed, disk.keys)
    BY <1>2, <1>3, <2>1, <2>4 DEF DiskIsNotBehind, FeedReach, Fits
  <2>6. MemoryIsNewest'
    BY <1>3, <2>1, <2>2, <2>3, <2>4, <2>5 DEF MemoryIsNewest
  <2>7. DiskIsNotBehind'
    BY <1>2, <1>3, <2>1, <2>2, <2>3, <2>4, <2>5 DEF DiskIsNotBehind, KeysReach, FeedReach
  <2>8. FilesAgree'
    BY <1>2, <1>3, <2>1 DEF FilesAgree
  <2> QED BY <2>6, <2>7, <2>8
<1> QED BY <1>2, <1>3, <1>4, <1>5, <1>6 DEF DocumentsKept

\* A crash leaves the documents as they are; an eviction it cut off is not done.
LEMMA DiesKeeps == ASSUME DocumentsKept, FeedServiceDies PROVE DocumentsKept'
<1>1. evicting' = FALSE /\ UNCHANGED <<mem, disk, told, newest, lost>>
  BY DEF FeedServiceDies
<1>2. /\ loose' \subseteq {"keys", "feed"} /\ loose \subseteq loose'
      /\ evicting => "feed" \in loose'
  BY DEF FeedServiceDies, DocumentsKept
<1> QED BY <1>1, <1>2 DEF DocumentsKept, KeysAreRooted, EffectIsVouched, MemoryIsNewest,
                          DiskIsNotBehind, FilesAgree

LEMMA SameDocuments ==
    ASSUME DocumentsKept, UNCHANGED <<mem, disk, evicting, newest, loose, lost>>, told' \in BOOLEAN
    PROVE  DocumentsKept'
  BY DEF DocumentsKept, KeysAreRooted, EffectIsVouched, MemoryIsNewest, DiskIsNotBehind, FilesAgree

\* The clock, the starts and the check under way.
FeedRest ==
    /\ feedUp \in BOOLEAN /\ feedStarts \in 0 .. MaxFeedStarts /\ now \in 0 .. MaxNow
    /\ lost \in BOOLEAN
    /\ check \in {NoCheck} \cup [step : {"fetching", "feed next"}, at : 0 .. now]

LEMMA FeedTyped == FInv <=> FeedRest /\ DocumentsKept /\ (evicting => feedUp)
  BY DEF FInv, FeedTypeOK, FeedRest, DocumentsKept

\* A check keeps the time it began with, while the clock goes on.
LEMMA RestOfFeedStep == ASSUME FeedRest, FeedNext PROVE FeedRest'
<1> USE FeedAssumption
<1>1. now \in 0 .. MaxNow /\ feedStarts \in 0 .. MaxFeedStarts
  BY Zenon DEF FeedRest
<1>2. CASE UNCHANGED <<feedUp, feedStarts, now, lost>> /\ check' \in {NoCheck, check}
  <2>1. CASE check' = NoCheck
    BY <1>2, <2>1, Zenon DEF FeedRest
  <2>2. CASE check' = check
    BY <1>2, <2>2, Zenon DEF FeedRest
  <2> QED BY <1>2, <2>1, <2>2
<1>3. CASE BeginCheck
  <2>1. CheckAt("fetching", now) \in [step : {"fetching", "feed next"}, at : 0 .. now]
    BY <1>1 DEF CheckAt
  <2> QED BY <1>3, <2>1 DEF FeedRest, BeginCheck
<1>4. ASSUME NEW k \in KeysDocs, CheckKeys(k) PROVE FeedRest'
  <2>1. check.step = "fetching" /\ check.at \in 0 .. now
    <3>1. check \in {NoCheck} \cup [step : {"fetching", "feed next"}, at : 0 .. now]
      BY Zenon DEF FeedRest
    <3>2. check.step = "fetching"
      BY <1>4 DEF CheckKeys
    <3>3. check # NoCheck
      BY <3>2 DEF NoCheck
    <3> QED BY <3>1, <3>2, <3>3
  <2>2. CheckAt("feed next", check.at) \in [step : {"fetching", "feed next"}, at : 0 .. now]
    BY <2>1 DEF CheckAt
  <2>3. check' \in {NoCheck} \cup [step : {"fetching", "feed next"}, at : 0 .. now]
    BY <1>4, <2>2 DEF CheckKeys
  <2> QED BY <1>4, <2>3, Zenon DEF FeedRest, CheckKeys
<1>5. CASE StartFeed
  <2>1. feedStarts' \in 0 .. MaxFeedStarts
    BY <1>1, <1>5 DEF StartFeed
  <2>2. lost' \in BOOLEAN
    BY <1>5, Zenon DEF StartFeed
  <2> QED BY <1>5, <2>1, <2>2 DEF StartFeed, FeedRest
<1>6. CASE FeedServiceDies
  BY <1>6 DEF FeedServiceDies, FeedRest
<1>7. CASE FeedTime
  <2>1. now' \in 0 .. MaxNow /\ 0 .. now \subseteq 0 .. now'
    BY <1>1, <1>7 DEF FeedTime
  <2>2. check' \in {NoCheck} \cup [step : {"fetching", "feed next"}, at : 0 .. now']
    BY <1>7, <2>1 DEF FeedTime, FeedRest
  <2> QED BY <1>7, <2>1, <2>2 DEF FeedTime, FeedRest
<1> QED BY <1>2, <1>3, <1>4, <1>5, <1>6, <1>7
    DEF FeedNext, ImportKeys, ImportFeed, CheckFeed, CheckEnds, RemoveEvicted, CheckStaleness

LEMMA FNext == FInv /\ [FeedNext]_feedVars => FInv'
<1> SUFFICES ASSUME FInv, [FeedNext]_feedVars PROVE FInv'
  OBVIOUS
<1>1. DocumentsKept /\ FeedRest
  BY FeedTyped
<1>2. CASE UNCHANGED feedVars
  <2>1. DocumentsKept'
    BY <1>1, <1>2, SameDocuments DEF feedVars, DocumentsKept
  <2>2. FeedTypeOK'
    BY <1>2 DEF feedVars, FInv, FeedTypeOK
  <2> QED BY <1>2, <2>1, <2>2 DEF feedVars, FInv
<1>3. CASE FeedNext
  <2>1. FeedRest'
    BY <1>1, <1>3, RestOfFeedStep
  <2>2. evicting' => feedUp'
    BY <1>3 DEF FInv, FeedNext, ImportKeys, CheckKeys, ImportFeed, CheckFeed, BeginCheck,
                CheckEnds, RemoveEvicted, CheckStaleness, StartFeed, FeedServiceDies, FeedTime,
                Serving, OfferFeed, WriteFails
  <2>3. DocumentsKept'
    <3>1. ASSUME NEW k \in KeysDocs, ImportKeys(k) PROVE DocumentsKept'
      BY <1>1, <3>1, TakeKeysKeeps, KeysWriteFailsKeeps DEF ImportKeys, Serving
    <3>2. ASSUME NEW k \in KeysDocs, CheckKeys(k) PROVE DocumentsKept'
      <4>1. CASE KeysAcceptable(k, check.at) /\ TakeKeys(k)
        BY <1>1, <3>2, <4>1, TakeKeysKeeps DEF CheckKeys, Serving
      <4>2. CASE KeysAcceptable(k, check.at) /\ WriteFails("keys", k)
        BY <1>1, <3>2, <4>2, KeysWriteFailsKeeps DEF CheckKeys
      <4>3. CASE UNCHANGED <<mem, disk, evicting, told, newest, loose>>
        BY <1>1, <3>2, <4>3, SameDocuments DEF CheckKeys, DocumentsKept
      <4> QED BY <3>2, <4>1, <4>2, <4>3 DEF CheckKeys
    <3>3. ASSUME NEW f \in FeedDocs, ImportFeed(f) PROVE DocumentsKept'
      BY <1>1, <3>3, OfferFeedKeeps DEF ImportFeed, Serving
    <3>4. ASSUME NEW f \in FeedDocs, CheckFeed(f) PROVE DocumentsKept'
      BY <1>1, <3>4, OfferFeedKeeps DEF CheckFeed
    <3>5. CASE BeginCheck \/ CheckEnds \/ CheckStaleness \/ FeedTime
      <4>1. told' \in BOOLEAN /\ UNCHANGED <<mem, disk, evicting, newest, loose, lost>>
        BY <1>1, <3>5 DEF BeginCheck, CheckEnds, CheckStaleness, FeedTime, DocumentsKept
      <4> QED BY <1>1, <4>1, SameDocuments
    <3>6. CASE StartFeed
      BY <1>1, <3>6, StartKeeps DEF StartFeed, FInv
    <3> QED BY <1>1, <1>3, <3>1, <3>2, <3>3, <3>4, <3>5, <3>6, RemoveEvictedKeeps, DiesKeeps
        DEF FeedNext
  <2> QED BY <2>1, <2>2, <2>3, Zenon DEF FInv, FeedTypeOK, FeedRest, DocumentsKept
<1> QED BY <1>2, <1>3

\* accept_keys_document, accept_feed, rule R, restore: nothing older than what was
\* once in effect comes into effect while the stored documents can be read, and
\* the feed in effect is always vouched for by the keys in effect; for any
\* documents, thresholds and clock.
THEOREM FeedSafety == FeedSpec => [](FeedTypeOK /\ NeverOlder /\ EffectIsVouched)
<1>1. FInv => FeedTypeOK /\ NeverOlder /\ EffectIsVouched
  BY DEF FInv, DocumentsKept, NeverOlder, MemoryIsNewest
<1> QED BY <1>1, FeedInitInv, FNext, PTL DEF FeedSpec

\* Whatever is offered, imported, evicted, stored and restored, and wherever the
\* service ends, what is in effect is never older than what once was
\* (feed/state.rs, the rollback defence).
THEOREM FeedNeverOlder == FeedSpec => []NeverOlder
BY FeedSafety, PTL

\* FeedService::start: a start restores exactly what was in effect when the
\* service ended, unless a write or a removal failed or was cut off, or the
\* files could not be read.
THEOREM FeedStartsAsItEnded == FeedSpec => StartKeepsEffect
<1>1. FInv /\ [FeedNext]_feedVars =>
          [~feedUp /\ feedUp' /\ loose = {} /\ ~lost' => mem' = mem]_feedVars
  <2> SUFFICES ASSUME FInv, FeedNext, ~feedUp, feedUp', loose = {}, ~lost' PROVE mem' = mem
    BY DEF feedVars
  <2>1. StartFeed
    BY DEF FeedNext, ImportKeys, CheckKeys, ImportFeed, CheckFeed, BeginCheck, CheckEnds,
           RemoveEvicted, CheckStaleness, FeedServiceDies, FeedTime, Serving
  <2>2. PICK read \in [keys : {disk.keys, Absent}, feed : {disk.feed, Absent}] :
            mem' = Restored(read) /\ lost' = (lost \/ read # disk)
    BY <2>1 DEF StartFeed, Commit
  <2>3. read = disk /\ ~lost /\ ~evicting
    BY <2>2 DEF FInv
  <2>4. disk.keys = mem.keys /\ disk.feed = mem.feed /\ mem \in States
    BY <2>3 DEF FInv, DocumentsKept, FilesAgree
  <2>5. mem'.keys = mem.keys /\ mem'.feed = mem.feed /\ mem' \in States
    BY <2>2, <2>3, <2>4, RestoredIsVouched DEF FInv, DocumentsKept, EffectIsVouched
  <2> QED BY <2>4, <2>5 DEF States
<1> QED BY <1>1, FeedInitInv, FNext, PTL DEF FeedSpec, StartKeepsEffect

-----------------------------------------------------------------------------
(* The person's last word, and trying again.                               *)

\* The file says the last word unless it is in doubt; a request that is still to
\* be remembered is the last word; and what this run goes by is, too, unless it
\* started from a file in doubt.
LastWord ==
    /\ ~doubt => file = said
    /\ request \in Wishes => request = said
    /\ request \notin Wishes /\ wish \in Wishes => wish = said \/ excused

\* The time since a look and the wait until the next add up to the wait chosen.
Paced ==
    /\ delay \in First .. Cap /\ wait \in 0 .. Cap /\ idleFor \in Nat
    /\ idleFor + wait <= (IF tried THEN Cap ELSE First)

RInv == LastWord /\ Paced

LEMMA ResumeInitInv == ResumeInit => RInv
<1> SUFFICES ASSUME ResumeInit PROVE RInv
  OBVIOUS
<1>1. LastWord
  BY PaceAssumption, Zenon DEF ResumeInit, LastWord
<1>2. Paced
  BY PaceAssumption DEF ResumeInit, Paced
<1> QED BY <1>1, <1>2 DEF RInv

\* Intent::remember and forget, a start and an end, and a look.
LEMMA LastWordKept == ASSUME LastWord, [ResumeNext]_resumeVars PROVE LastWord'
<1> USE PaceAssumption DEF LastWord
<1>1. CASE UNCHANGED <<file, said, doubt, request, wish, excused>>
  BY <1>1
<1>2. ASSUME NEW c \in Wishes, PersonConnects(c) PROVE LastWord'
  BY <1>2 DEF PersonConnects
<1>3. CASE Remember
  <2>1. request \in Wishes /\ wish' = request /\ request' = "none" /\ UNCHANGED said
    BY <1>3 DEF Remember
  <2>2. file' = request \/ (file' = file /\ doubt' = doubt)
    BY <1>3, Zenon DEF Remember
  <2> QED BY <2>1, <2>2
<1>4. CASE Forget
  BY <1>4 DEF Forget, Unlocked
<1>5. CASE Disconnect
  BY <1>5 DEF Disconnect
<1>6. CASE StartService
  BY <1>6 DEF StartService
<1>7. CASE ServiceEnds
  BY <1>7 DEF ServiceEnds
<1>8. CASE TimerFires \/ NetworkChanges \/ SourceEnds \/ TimePasses \/ LinkMoves
  BY <1>1, <1>8 DEF TimerFires, NetworkChanges, Look, SourceEnds, TimePasses, LinkMoves, intentVars
<1> QED BY <1>1, <1>2, <1>3, <1>4, <1>5, <1>6, <1>7, <1>8
    DEF ResumeNext, resumeVars, intentVars

\* Backoff::after: the wait doubles up to the cap after an attempt, and is the
\* first one again after every other look.
LEMMA PacedKept == ASSUME Paced, [ResumeNext]_resumeVars PROVE Paced'
<1> USE PaceAssumption DEF Paced
<1>1. CASE UNCHANGED paceVars
  BY <1>1 DEF paceVars
<1>2. CASE Look
  <2>1. CASE AfterAttempt /\ tried' = TRUE /\ idleFor' = 0
    <3> DEFINE d == IF 2 * delay < Cap THEN 2 * delay ELSE Cap
    <3>1. d \in First .. Cap
      OBVIOUS
    <3>2. delay' = d /\ wait' = d
      BY <2>1 DEF AfterAttempt
    <3> HIDE DEF d
    <3> QED BY <2>1, <3>1, <3>2
  <2>2. CASE AfterInProgress /\ tried' = FALSE /\ idleFor' = 0
    BY <2>2 DEF AfterInProgress
  <2>3. CASE AfterHealthy /\ tried' = FALSE /\ idleFor' = 0
    BY <2>3 DEF AfterHealthy
  <2> QED BY <1>2, <2>1, <2>2, <2>3 DEF Look
<1>3. CASE StartService
  BY <1>3 DEF StartService
<1>4. CASE TimePasses
  <2>1. wait' = wait - 1 /\ wait > 0 /\ idleFor' \in {idleFor + 1, 0} /\ UNCHANGED <<delay, tried>>
    BY <1>4 DEF TimePasses
  <2> DEFINE most == IF tried THEN Cap ELSE First
  <2>2. most' = most /\ most \in Nat
    BY <2>1
  <2>3. idleFor + wait <= most /\ idleFor \in Nat /\ wait \in 0 .. Cap
    OBVIOUS
  <2> HIDE DEF most, Paced
  <2>4. idleFor' + wait' <= most /\ wait' \in 0 .. Cap /\ idleFor' \in Nat
    <3>1. CASE idleFor' = idleFor + 1
      BY <2>1, <2>2, <2>3, <3>1
    <3>2. CASE idleFor' = 0
      <4>1. wait - 1 <= most
        BY <2>2, <2>3
      <4> QED BY <2>1, <2>2, <2>3, <3>2, <4>1
    <3> QED BY <2>1, <3>1, <3>2
  <2> USE DEF Paced
  <2> QED BY <2>1, <2>2, <2>4 DEF most
<1> QED BY <1>1, <1>2, <1>3, <1>4
    DEF ResumeNext, resumeVars, PersonConnects, Remember, Forget, Disconnect, ServiceEnds,
        TimerFires, NetworkChanges, SourceEnds, LinkMoves

LEMMA RNext == RInv /\ [ResumeNext]_resumeVars => RInv'
  BY LastWordKept, PacedKept DEF RInv

\* keep_trying.rs: a connection that is down while left on is tried again within
\* the cap, or within the first wait if the last look started no attempt; for
\* any pace and any timing of the network's changes and the person's requests.
THEOREM TriedAgainInTime == ResumeSpec => []TriedInTime
<1>1. RInv => TriedInTime
  BY DEF RInv, Paced, TriedInTime
<1> QED BY <1>1, ResumeInitInv, RNext, PTL DEF ResumeSpec

\* The time since the last try and the wait until the next look add up to the
\* distance two tries must have; and the loop knows when it last tried.
Far(ticks) == ticks >= 2 * First /\ (ticks >= delay \/ ticks >= MinGap)
Spaced == apart \in 0 .. Cap /\ sinceTry = apart /\ Far(apart + wait)

LEMMA SpacedBegins == ResumeInit => Spaced
  BY PaceAssumption DEF ResumeInit, Spaced, Far

\* A look comes when the timer has run out, or a min_gap after the last try.
LEMMA LooksAreFar == ASSUME Paced, Spaced, TimerFires \/ NetworkChanges PROVE Far(apart)
<1> USE PaceAssumption
<1>1. CASE TimerFires
  BY <1>1 DEF TimerFires, Spaced, Far
<1>2. CASE NetworkChanges
  BY <1>2 DEF NetworkChanges, ChangeMayRetry, Spaced, Far
<1> QED BY <1>1, <1>2

LEMMA SpacedKept == ASSUME Paced, Spaced, [ResumeNext]_resumeVars PROVE Spaced'
<1> USE PaceAssumption
<1>0. /\ delay \in First .. Cap /\ wait \in 0 .. Cap /\ apart \in 0 .. Cap /\ sinceTry = apart
      /\ Far(apart + wait)
  BY DEF Paced, Spaced
<1>1. CASE UNCHANGED paceVars
  BY <1>1 DEF paceVars, Spaced, Far
<1>2. CASE TimerFires \/ NetworkChanges
  <2>1. Look /\ Far(apart)
    BY <1>2, LooksAreFar DEF TimerFires, NetworkChanges
  <2>2. CASE AfterAttempt /\ tried' = TRUE
    <3> DEFINE d == IF 2 * delay < Cap THEN 2 * delay ELSE Cap
    <3>1. d \in 0 .. Cap /\ d >= 2 * First
      BY <1>0
    <3>2. delay' = d /\ wait' = d /\ sinceTry' = 0
      BY <2>2 DEF AfterAttempt
    <3>3. apart' = 0
      BY <2>1, <2>2 DEF Look
    <3> HIDE DEF d
    <3> QED BY <3>1, <3>2, <3>3 DEF Spaced, Far
  <2>3. CASE tried' = FALSE /\ AfterInProgress
    <3>1. wait' = First /\ delay' = delay /\ sinceTry' = sinceTry /\ apart' = apart
      BY <2>1, <2>3 DEF Look, AfterInProgress
    <3> QED BY <1>0, <2>1, <3>1 DEF Spaced, Far
  <2>4. CASE tried' = FALSE /\ AfterHealthy /\ UNCHANGED sinceTry
    <3>1. wait' = First /\ delay' = First /\ sinceTry' = sinceTry /\ apart' = apart
      BY <2>1, <2>4 DEF Look, AfterHealthy
    <3> QED BY <1>0, <2>1, <3>1 DEF Spaced, Far
  <2> QED BY <2>1, <2>2, <2>3, <2>4 DEF Look
<1>3. CASE StartService
  <2>1. delay' = First /\ wait' = First /\ sinceTry' = Cap /\ apart' = Cap
    BY <1>3 DEF StartService
  <2> QED BY <2>1 DEF Spaced, Far
<1>4. CASE TimePasses
  <2>1. /\ wait > 0 /\ wait' = wait - 1 /\ delay' = delay
        /\ sinceTry' = OneLater(sinceTry) /\ apart' = OneLater(apart)
    BY <1>4 DEF TimePasses
  <2>2. CASE apart < Cap
    <3>1. apart' = apart + 1 /\ sinceTry' = apart + 1
      BY <1>0, <2>1, <2>2 DEF OneLater
    <3>2. apart' + wait' = apart + wait
      BY <1>0, <2>1, <3>1
    <3> QED BY <1>0, <2>1, <2>2, <3>1, <3>2 DEF Spaced, Far
  <2>3. CASE apart = Cap
    <3>1. apart' = Cap /\ sinceTry' = Cap
      BY <1>0, <2>1, <2>3 DEF OneLater
    <3> QED BY <1>0, <2>1, <3>1 DEF Spaced, Far
  <2> QED BY <1>0, <2>2, <2>3
<1> QED BY <1>1, <1>2, <1>3, <1>4
    DEF ResumeNext, resumeVars, PersonConnects, Remember, Forget, Disconnect, ServiceEnds,
        SourceEnds, LinkMoves

\* keep_trying.rs: the loop that tries again never storms, whatever the network
\* does and however fast its attempts fail; for any pace.
THEOREM TriesAreSpaced == ResumeSpec => RetriesAreSpaced
<1>1. ASSUME Paced, Spaced, [ResumeNext]_resumeVars, OursBegins, alive PROVE Far(apart)
  <2>1. TimerFires \/ NetworkChanges
    <3>1. link = "idle" /\ link' = "connecting" /\ request' = "none" /\ alive /\ "none" \notin Wishes
      BY <1>1, PaceAssumption DEF OursBegins
    <3>2. ~UNCHANGED link
      BY <3>1
    <3>3. \A c \in Wishes : ~PersonConnects(c)
      BY <3>1 DEF PersonConnects
    <3>4. ~Remember /\ ~Forget /\ ~SourceEnds /\ ~TimePasses
      BY <3>2 DEF Remember, Forget, SourceEnds, TimePasses, intentVars
    <3>5. ~Disconnect /\ ~StartService /\ ~ServiceEnds /\ ~LinkMoves
      BY <3>1 DEF Disconnect, StartService, ServiceEnds, LinkMoves
    <3>6. ~UNCHANGED resumeVars
      BY <3>2 DEF resumeVars, intentVars
    <3> QED BY <1>1, <3>3, <3>4, <3>5, <3>6 DEF ResumeNext
  <2> QED BY <1>1, <2>1, LooksAreFar
<1>2. /\ ResumeInit => RInv /\ Spaced
      /\ RInv /\ Spaced /\ [ResumeNext]_resumeVars => (RInv /\ Spaced)'
  BY ResumeInitInv, RNext, SpacedBegins, SpacedKept DEF RInv
<1>3. RInv /\ Spaced /\ [ResumeNext]_resumeVars =>
          [OursBegins /\ alive =>
              apart >= 2 * First /\ (apart >= delay \/ apart >= MinGap)]_resumeVars
  BY <1>1 DEF RInv, Far
<1> QED BY <1>2, <1>3, PTL DEF ResumeSpec, RetriesAreSpaced

\* intent.rs: the service connects by itself only with the choice the person last
\* asked for, and never after they said off, unless it started from a file
\* whose last write was reported as failed or cut off by a crash.
THEOREM ConnectsOnlyAsAsked == ResumeSpec => ConnectsAsLastAsked
<1>1. RInv /\ [ResumeNext]_resumeVars => [OursBegins => (ours' = said \/ excused')]_resumeVars
  <2> SUFFICES ASSUME LastWord, ResumeNext, OursBegins PROVE ours' = said \/ excused'
    BY DEF RInv
  <2> USE PaceAssumption DEF OursBegins
  <2>1. CASE StartService
    BY <2>1 DEF StartService, ConnectOurselves, LastWord
  <2>2. CASE Look
    BY <2>2 DEF Look, Unlocked, ConnectOurselves, LastWord, Due
  <2> QED BY <2>1, <2>2 DEF ResumeNext, PersonConnects, Remember, Forget, Disconnect, ServiceEnds,
        TimerFires, NetworkChanges, SourceEnds, TimePasses, LinkMoves, intentVars
<1> QED BY <1>1, ResumeInitInv, RNext, PTL DEF ResumeSpec, ConnectsAsLastAsked

-----------------------------------------------------------------------------
(* The ledger of a provisioning job: reading and writing it.               *)

Intent(t) == Event("intent", t)
Removed(t) == Event("removed", t)

\* What a reader of the file comes across.
InFile(ev) == ev \in Range(lines) \/ tail = ev

FileTyped ==
    /\ lines \in Seq(Events \cup {Damaged})
    /\ tail \in Events \cup {NoTail, Fragment}

\* Nothing is damaged, and nothing is recorded of a resource before its intent.
WellFormed(s) ==
    \A i \in 1 .. Len(s) :
        /\ s[i] # Damaged
        /\ s[i].e # "intent" => \E j \in 1 .. i - 1 : s[j] = Intent(s[i].token)

Readable ==
    ~joined => /\ WellFormed(lines)
               /\ tail \in Events /\ tail.e # "intent" => Intent(tail.token) \in Range(lines)

LEMMA EventsDiffer ==
    /\ \A ev \in Events : ev # Damaged /\ ev # NoTail /\ ev # Fragment
    /\ Damaged # NoTail /\ Damaged # Fragment /\ NoTail # Fragment
    /\ \A t \in Tokens : Intent(t) \in Events /\ Removed(t) \in Events /\ Intent(t) # Removed(t)
  BY DEF Events, Damaged, NoTail, Fragment, Event, Intent, Removed

LEMMA RangeOfAppend ==
    ASSUME NEW S, NEW s \in Seq(S), NEW x \in S
    PROVE  Append(s, x) \in Seq(S) /\ Range(Append(s, x)) = Range(s) \cup {x}
<1>1. /\ Append(s, x) \in Seq(S) /\ Len(s) \in Nat /\ Len(Append(s, x)) = Len(s) + 1
      /\ DOMAIN Append(s, x) = 1 .. Len(s) + 1 /\ DOMAIN s = 1 .. Len(s)
  OBVIOUS
<1>2. \A i \in 1 .. Len(s) : Append(s, x)[i] = s[i]
  OBVIOUS
<1>3. Append(s, x)[Len(s) + 1] = x
  OBVIOUS
<1>4. \A i \in 1 .. Len(s) + 1 : i \in 1 .. Len(s) \/ i = Len(s) + 1
  BY <1>1
<1>5. Len(s) + 1 \in 1 .. Len(s) + 1 /\ \A i \in 1 .. Len(s) : i \in 1 .. Len(s) + 1
  BY <1>1
<1> QED BY <1>1, <1>2, <1>3, <1>4, <1>5 DEF Range

LEMMA RangeOfConcat ==
    ASSUME NEW S, NEW s \in Seq(S), NEW u \in Seq(S)
    PROVE  s \o u \in Seq(S) /\ Range(s \o u) = Range(s) \cup Range(u)
<1>1. /\ s \o u \in Seq(S) /\ Len(s) \in Nat /\ Len(u) \in Nat
      /\ DOMAIN (s \o u) = 1 .. Len(s) + Len(u) /\ DOMAIN s = 1 .. Len(s) /\ DOMAIN u = 1 .. Len(u)
  OBVIOUS
<1>2. \A k \in 1 .. Len(s) : k \in 1 .. Len(s) + Len(u) /\ (s \o u)[k] = s[k]
  BY <1>1
<1>3. \A k \in 1 .. Len(u) :
          Len(s) + k \in 1 .. Len(s) + Len(u) /\ (s \o u)[Len(s) + k] = u[k]
  BY <1>1
<1>4. \A k \in 1 .. Len(s) + Len(u) :
          k \in 1 .. Len(s) \/ (k - Len(s) \in 1 .. Len(u) /\ Len(s) + (k - Len(s)) = k)
  BY <1>1
<1> QED BY <1>1, <1>2, <1>3, <1>4 DEF Range

\* Leaving out a damaged last line leaves out no event (read_events).
LEMMA ReadIsFile ==
    ASSUME FileTyped, NEW ev \in Events
    PROVE  ev \in Range(ReadLines) <=> InFile(ev)
<1> DEFINE all == IF tail \in Events THEN Append(lines, tail) ELSE lines
<1>1. all \in Seq(Events \cup {Damaged}) /\ (ev \in Range(all) <=> InFile(ev))
  <2>1. CASE tail \in Events
    <3>1. /\ Append(lines, tail) \in Seq(Events \cup {Damaged})
          /\ Range(Append(lines, tail)) = Range(lines) \cup {tail}
      BY <2>1, RangeOfAppend DEF FileTyped
    <3> QED BY <2>1, <3>1 DEF InFile
  <2>2. CASE tail \notin Events
    BY <2>2 DEF InFile, FileTyped
  <2> QED BY <2>1, <2>2
<1>2. ReadLines = IF tail # Fragment /\ all # <<>> /\ Last(all) = Damaged THEN Front(all) ELSE all
  BY DEF ReadLines
<1> HIDE DEF all
<1>3. CASE tail # Fragment /\ all # <<>> /\ Last(all) = Damaged
  <2>1. Len(all) \in Nat /\ Len(all) # 0 /\ DOMAIN all = 1 .. Len(all)
    BY <1>1, <1>3
  <2>2. /\ DOMAIN Front(all) = 1 .. Len(all) - 1
        /\ \A i \in 1 .. Len(all) - 1 : Front(all)[i] = all[i]
    BY <1>1, <2>1 DEF Front
  <2>3. all[Len(all)] # ev
    BY <1>3, EventsDiffer DEF Last
  <2>4. \A i \in 1 .. Len(all) : all[i] = ev => i \in 1 .. Len(all) - 1
    BY <2>1, <2>3
  <2>5. \A i \in 1 .. Len(all) - 1 : i \in 1 .. Len(all)
    BY <2>1
  <2>6. Range(Front(all)) = {all[i] : i \in 1 .. Len(all) - 1}
    BY <2>2 DEF Range
  <2>7. ev \in Range(Front(all)) <=> ev \in Range(all)
    BY <2>1, <2>4, <2>5, <2>6 DEF Range
  <2> QED BY <1>1, <1>2, <1>3, <2>7
<1>4. CASE ~(tail # Fragment /\ all # <<>> /\ Last(all) = Damaged)
  BY <1>1, <1>2, <1>4
<1> QED BY <1>3, <1>4

\* The state of an entry, by what is in the file (State::apply).
LEMMA RecordedIs ==
    ASSUME FileTyped, NEW t \in Tokens
    PROVE  /\ Recorded(t) \in EntryStates
           /\ Recorded(t) = "removed" <=> InFile(Removed(t))
           /\ Recorded(t) = "unknown" =>
                 /\ ~InFile(Intent(t)) /\ ~InFile(Event("created", t)) /\ ~InFile(Removed(t))
           /\ Recorded(t) # "unknown" =>
                 InFile(Intent(t)) \/ InFile(Event("created", t)) \/ InFile(Removed(t))
<1>1. /\ Event("removed", t) \in Events /\ Event("created", t) \in Events
      /\ Event("intent", t) \in Events
  BY DEF Event, Events
<1>2. /\ Event("removed", t) \in Range(ReadLines) <=> InFile(Removed(t))
      /\ Event("created", t) \in Range(ReadLines) <=> InFile(Event("created", t))
      /\ Event("intent", t) \in Range(ReadLines) <=> InFile(Intent(t))
  BY <1>1, ReadIsFile DEF Removed, Intent
<1> QED BY <1>2 DEF Recorded, EntryStates

\* An event of a resource whose intent is recorded may follow.
LEMMA WellFormedAppend ==
    ASSUME NEW s \in Seq(Events \cup {Damaged}), WellFormed(s), NEW ev \in Events,
           ev.e # "intent" => Intent(ev.token) \in Range(s)
    PROVE  WellFormed(Append(s, ev))
<1>1. Len(s) \in Nat /\ DOMAIN s = 1 .. Len(s)
  OBVIOUS
<1>2. /\ Len(Append(s, ev)) = Len(s) + 1 /\ Append(s, ev)[Len(s) + 1] = ev
      /\ \A i \in 1 .. Len(s) : Append(s, ev)[i] = s[i]
  BY <1>1
<1>3. ev # Damaged /\ (ev.e # "intent" => \E j \in 1 .. Len(s) : s[j] = Intent(ev.token))
  BY <1>1, EventsDiffer DEF Range
<1>4. ASSUME NEW i \in 1 .. Len(s) + 1
      PROVE  /\ Append(s, ev)[i] # Damaged
             /\ Append(s, ev)[i].e # "intent" =>
                   \E j \in 1 .. i - 1 : Append(s, ev)[j] = Intent(Append(s, ev)[i].token)
  <2>1. CASE i = Len(s) + 1
    BY <1>1, <1>2, <1>3, <2>1
  <2>2. CASE i # Len(s) + 1
    <3>1. i \in 1 .. Len(s) /\ \A j \in 1 .. i - 1 : j \in 1 .. Len(s)
      BY <1>1, <2>2
    <3> QED BY <1>2, <3>1 DEF WellFormed
  <2> QED BY <2>1, <2>2
<1> QED BY <1>2, <1>4 DEF WellFormed

\* A file no write was joined onto can be read.
LEMMA ReadableIsNotCorrupt == ASSUME FileTyped, Readable, ~joined PROVE ~Corrupt
<1> DEFINE all == IF tail \in Events THEN Append(lines, tail) ELSE lines
<1>1. WellFormed(all) /\ all \in Seq(Events \cup {Damaged})
  BY WellFormedAppend DEF FileTyped, Readable
<1>2. ReadLines = IF tail # Fragment /\ all # <<>> /\ Last(all) = Damaged THEN Front(all) ELSE all
  BY DEF ReadLines
<1> HIDE DEF all
<1>3. all # <<>> => Last(all) # Damaged
  BY <1>1 DEF WellFormed, Last
<1>4. ReadLines = all /\ DOMAIN all = 1 .. Len(all)
  BY <1>1, <1>2, <1>3
<1> QED BY <1>1, <1>4 DEF Corrupt, WellFormed, Intent

\* append: the event follows the others; onto the rest of a failed write, it and
\* that rest are one damaged line.
LEMMA WroteKeeps ==
    ASSUME FileTyped, Readable, joined \in BOOLEAN, NEW ev \in Events, Wrote(ev),
           ev.e # "intent" => Intent(ev.token) \in Range(lines)
    PROVE  /\ FileTyped' /\ Readable' /\ joined' \in BOOLEAN /\ tail' = NoTail
           /\ Range(lines) \subseteq Range(lines')
           /\ \A x \in Events : InFile(x)' => InFile(x) \/ x = ev
           /\ tail = NoTail => ev \in Range(lines')
<1> DEFINE put == IF tail = NoTail THEN ev ELSE Damaged
<1>1. /\ lines' = Append(lines, put) /\ tail' = NoTail /\ put \in Events \cup {Damaged}
      /\ lines \in Seq(Events \cup {Damaged}) /\ joined' = (joined \/ tail # NoTail)
  BY DEF Wrote, FileTyped
<1>2. lines' \in Seq(Events \cup {Damaged}) /\ Range(lines') = Range(lines) \cup {put}
  BY <1>1, RangeOfAppend
<1>3. FileTyped' /\ joined' \in BOOLEAN
  BY <1>1, <1>2 DEF FileTyped
<1>4. \A x \in Events : InFile(x)' => InFile(x) \/ x = ev
  BY <1>1, <1>2, EventsDiffer DEF InFile
<1>5. ASSUME ~joined' PROVE WellFormed(lines)' /\ ~(tail' \in Events)
  <2>1. ~joined /\ put = ev
    BY <1>1, <1>5
  <2>2. WellFormed(lines')
    BY <1>1, <2>1, WellFormedAppend DEF Readable
  <2> QED BY <1>1, <2>2, EventsDiffer
<1>6. Readable'
  BY <1>5 DEF Readable
<1> QED BY <1>1, <1>2, <1>3, <1>4, <1>6

LEMMA AppendFailsKeeps ==
    ASSUME FileTyped, Readable, joined \in BOOLEAN, NEW ev \in Events, AppendFails(ev),
           ev.e # "intent" => Intent(ev.token) \in Range(lines)
    PROVE  /\ FileTyped' /\ Readable' /\ joined' \in BOOLEAN
           /\ Range(lines) \subseteq Range(lines')
           /\ \A x \in Events : InFile(x)' => InFile(x) \/ x = ev
<1>1. CASE UNCHANGED fileVars
  BY <1>1 DEF fileVars, FileTyped, Readable, InFile
<1>2. CASE tail = NoTail /\ tail' \in {Fragment, ev} /\ UNCHANGED <<lines, joined>>
  BY <1>2, EventsDiffer DEF FileTyped, Readable, InFile
<1>3. CASE Wrote(ev)
  BY <1>3, WroteKeeps
<1> QED BY <1>1, <1>2, <1>3 DEF AppendFails

\* FileLedger::open: completing or dropping what was cut off loses no event.
LEMMA OpenKeeps ==
    ASSUME FileTyped, Readable, joined \in BOOLEAN, OpenLedger
    PROVE  /\ FileTyped' /\ Readable' /\ joined' \in BOOLEAN /\ tail' = NoTail
           /\ \A x \in Events : x \in Range(lines') <=> InFile(x)
           /\ \A x \in Events : InFile(x)' <=> InFile(x)
           /\ entries' = [t \in Tokens |-> Recorded(t)]
<1>1. tail' = NoTail /\ joined' = joined /\ entries' = [t \in Tokens |-> Recorded(t)]
  BY DEF OpenLedger
<1>2. CASE tail \in Events
  <2>1. lines' = Append(lines, tail) /\ Range(lines') = Range(lines) \cup {tail}
        /\ lines' \in Seq(Events \cup {Damaged})
    BY <1>2, RangeOfAppend DEF OpenLedger, FileTyped
  <2>2. \A x \in Events : (x \in Range(lines') <=> InFile(x)) /\ (InFile(x)' <=> InFile(x))
    BY <1>1, <2>1, EventsDiffer DEF InFile
  <2>3. ~joined => WellFormed(lines')
    BY <1>2, <2>1, WellFormedAppend DEF FileTyped, Readable
  <2> QED BY <1>1, <2>1, <2>2, <2>3, EventsDiffer DEF FileTyped, Readable
<1>3. CASE tail \notin Events
  <2>1. lines' = lines
    BY <1>3 DEF OpenLedger
  <2> QED BY <1>1, <1>3, <2>1, EventsDiffer DEF FileTyped, Readable, InFile
<1> QED BY <1>2, <1>3

-----------------------------------------------------------------------------
(* The ledger of a provisioning job: the job.                              *)

Cleanings == [on : BOOLEAN, left : Seq(Tokens), gone : BOOLEAN, stuck : SUBSET Tokens]

JobTyped ==
    /\ FileTyped /\ joined \in BOOLEAN
    /\ entries \in [Tokens -> EntryStates]
    /\ cloud \subseteq Tokens /\ reused \subseteq Tokens
    /\ at \in 0 .. 11 /\ clean \in Cleanings /\ runs \in 0 .. MaxRuns
    /\ report \in {"none", "complete", "partial"}

\* What exists was recorded as intended, on a complete line, and not as removed.
CloudIsRecorded ==
    \A t \in cloud \ reused : Intent(t) \in Range(lines) /\ ~InFile(Removed(t))

\* What a run has in memory: an entry has its intent in the file, one that the
\* file says is removed is known to be, and what exists is live.
EntriesAreTrue ==
    \A t \in Tokens :
        /\ entries[t] # "unknown" => Intent(t) \in Range(lines)
        /\ InFile(Removed(t)) => entries[t] = "removed"
        /\ t \in cloud \ reused => t \in Live

\* A resource is recorded from its create call on; while stages run no write
\* has failed.
StagesInOrder ==
    at # 0 => /\ tail = NoTail /\ ~clean.on
              /\ at \in {4, 5} => entries["instance"] # "unknown"
              /\ at \in {7, 8} => entries["network"] # "unknown"

\* Everything that exists is still to be looked at, or reported as left behind.
CleanupIsComplete ==
    clean.on =>
        /\ at = 0
        /\ cloud \ reused \subseteq Range(clean.left) \cup clean.stuck
        /\ \A t \in Range(clean.left) : entries[t] # "unknown"
        /\ clean.gone => clean.left # <<>> /\ NextOne \notin cloud

JInv ==
    /\ JobTyped /\ Readable /\ CloudIsRecorded
    /\ ~Idle => EntriesAreTrue /\ report = "none"
    /\ StagesInOrder /\ CleanupIsComplete /\ CleanReportIsTrue

LEMMA StepsAre ==
    /\ Len(Steps) = 11
    /\ \A i \in 1 .. 11 :
          /\ Steps[i].to = IF i \in {3, 4, 5} THEN "instance"
                           ELSE IF i \in {6, 7, 8} THEN "network" ELSE "nothing"
          /\ Steps[i].does = "intend" <=> i \in {3, 6}
          /\ Steps[i].does = "create" <=> i \in {4, 7}
          /\ Steps[i].does = "confirm" <=> i \in {5, 8}
<1>1. /\ Len(Steps) = 11
      /\ Steps[1] = Does("credential") /\ Steps[2] = Does("capacity")
      /\ Steps[3] = To("intend", "instance") /\ Steps[4] = To("create", "instance")
      /\ Steps[5] = To("confirm", "instance") /\ Steps[6] = To("intend", "network")
      /\ Steps[7] = To("create", "network") /\ Steps[8] = To("confirm", "network")
      /\ Steps[9] = Does("bootstrap") /\ Steps[10] = Does("keepalive") /\ Steps[11] = Does("verify")
  BY DEF Steps
<1>2. \A i \in 1 .. 11 : i \in {1, 2, 3, 4, 5, 6, 7, 8, 9, 10, 11}
  OBVIOUS
<1> QED BY <1>1, <1>2 DEF Does, To

LEMMA OneOrNone ==
    ASSUME NEW S, NEW x \in S
    PROVE  /\ <<x>> \in Seq(S) /\ Range(<<x>>) = {x}
           /\ <<>> \in Seq(S) /\ Range(<<>>) = {}
<1>1. <<x>> \in Seq(S) /\ DOMAIN <<x>> = {1} /\ <<x>>[1] = x
  OBVIOUS
<1>2. <<>> \in Seq(S) /\ DOMAIN <<>> = {}
  OBVIOUS
<1> QED BY <1>1, <1>2 DEF Range

\* The newest first, and every live one (cleanup).
LEMMA NewestFirstHasAll ==
    ASSUME NEW live \in SUBSET Tokens
    PROVE  NewestFirst(live) \in Seq(Tokens) /\ Range(NewestFirst(live)) = live
<1> DEFINE n == IF "network" \in live THEN <<"network">> ELSE <<>>
           i == IF "instance" \in live THEN <<"instance">> ELSE <<>>
<1>1. NewestFirst(live) = n \o i
  BY DEF NewestFirst
<1>2. n \in Seq(Tokens) /\ Range(n) = live \cap {"network"}
  <2>1. "network" \in Tokens
    BY DEF Tokens
  <2>2. CASE "network" \in live
    BY <2>1, <2>2, OneOrNone
  <2>3. CASE "network" \notin live
    BY <2>1, <2>3, OneOrNone
  <2> QED BY <2>2, <2>3
<1>3. i \in Seq(Tokens) /\ Range(i) = live \cap {"instance"}
  <2>1. "instance" \in Tokens
    BY DEF Tokens
  <2>2. CASE "instance" \in live
    BY <2>1, <2>2, OneOrNone
  <2>3. CASE "instance" \notin live
    BY <2>1, <2>3, OneOrNone
  <2> QED BY <2>2, <2>3
<1>4. live = (live \cap {"network"}) \cup (live \cap {"instance"})
  BY DEF Tokens
<1> HIDE DEF n, i
<1>5. n \o i \in Seq(Tokens) /\ Range(n \o i) = Range(n) \cup Range(i)
  BY <1>2, <1>3, RangeOfConcat
<1> QED BY <1>1, <1>2, <1>3, <1>4, <1>5

LEMMA JobInitInv == JobInit => JInv
<1> SUFFICES ASSUME JobInit PROVE JInv
  OBVIOUS
<1>1. Range(lines) = {} /\ tail = NoTail /\ FileTyped /\ Readable
  BY EventsDiffer DEF JobInit, Range, FileTyped, Readable, WellFormed
<1>2. clean.on = FALSE /\ clean \in Cleanings /\ entries \in [Tokens -> EntryStates] /\ at = 0
  BY DEF JobInit, NotCleaning, Cleanings, Nothing, EntryStates
<1>3. runs \in 0 .. MaxRuns /\ at \in 0 .. 11
  BY <1>2, JobAssumption DEF JobInit
<1>4. JobTyped
  BY <1>1, <1>2, <1>3, Zenon DEF JobInit, JobTyped
<1> QED BY <1>1, <1>2, <1>4 DEF JobInit, JInv, CloudIsRecorded, Idle, StagesInOrder,
                                CleanupIsComplete, CleanReportIsTrue

\* clean_up, wherever a run gives up: it goes by the entries in memory.
LEMMA CleansUpKeeps ==
    ASSUME JInv, at # 0, CleansUp, UNCHANGED <<entries, runs>>,
           FileTyped', Readable', joined' \in BOOLEAN, CloudIsRecorded', EntriesAreTrue',
           cloud' \subseteq Tokens, reused' \subseteq Tokens
    PROVE  JInv'
<1>1. Live \in SUBSET Tokens /\ Live' = Live
  BY DEF Live, LiveIn
<1>2. /\ at' = 0 /\ clean' = [NotCleaning EXCEPT !.on = (Live # {}), !.left = NewestFirst(Live)]
      /\ report' = IF Live = {} THEN "complete" ELSE report
  BY DEF CleansUp
<1>3. /\ clean'.on = (Live # {}) /\ clean'.left = NewestFirst(Live) /\ clean'.gone = FALSE
      /\ clean'.stuck = {} /\ clean' \in Cleanings /\ Range(clean'.left) = Live
  BY <1>1, <1>2, NewestFirstHasAll DEF NotCleaning, Cleanings
<1>4. cloud' \ reused' \subseteq Live
  BY <1>1 DEF EntriesAreTrue
<1>5. \A t \in Live : entries[t] # "unknown"
  BY DEF Live, LiveIn
<1>6. report = "none"
  BY DEF JInv, Idle
<1>7. JobTyped'
  <2>1. at' \in 0 .. 11
    BY <1>2
  <2>2. report' \in {"none", "complete", "partial"}
    BY <1>2, <1>6
  <2> QED BY <1>3, <2>1, <2>2, Zenon DEF JInv, JobTyped
<1>8. StagesInOrder' /\ CleanupIsComplete'
  BY <1>2, <1>3, <1>4, <1>5 DEF StagesInOrder, CleanupIsComplete
<1>9. CleanReportIsTrue' /\ (~Idle' => report' = "none")
  BY <1>2, <1>3, <1>4, <1>6 DEF CleanReportIsTrue, Idle
<1> QED BY <1>7, <1>8, <1>9 DEF JInv

\* A ledger that is not refused has the intent of everything it mentions.
LEMMA ReadHasIntent ==
    ASSUME FileTyped, ~Corrupt, NEW t \in Tokens,
           InFile(Event("created", t)) \/ InFile(Removed(t))
    PROVE  InFile(Intent(t))
<1>1. PICK e \in {"created", "removed"} : InFile(Event(e, t))
  BY DEF Removed
<1>2. Event(e, t) \in Events /\ Event(e, t).e = e /\ Event(e, t).token = t
  BY DEF Event, Events
<1>3. Event(e, t) \in Range(ReadLines)
  BY <1>1, <1>2, ReadIsFile
<1>4. PICK i \in DOMAIN ReadLines : ReadLines[i] = Event(e, t)
  BY <1>3 DEF Range
<1>5. PICK j \in 1 .. i - 1 : ReadLines[j] = Event("intent", t)
  BY <1>2, <1>4 DEF Corrupt
<1>6. j \in DOMAIN ReadLines
  <2>1. ReadLines \in Seq(Events \cup {Damaged})
    <3> DEFINE all == IF tail \in Events THEN Append(lines, tail) ELSE lines
    <3>1. all \in Seq(Events \cup {Damaged})
      BY RangeOfAppend DEF FileTyped
    <3>2. ReadLines = IF tail # Fragment /\ all # <<>> /\ Last(all) = Damaged THEN Front(all)
                      ELSE all
      BY DEF ReadLines
    <3> HIDE DEF all
    <3>3. all # <<>> => Front(all) \in Seq(Events \cup {Damaged})
      BY <3>1 DEF Front
    <3> QED BY <3>1, <3>2, <3>3
  <2> QED BY <1>4, <2>1
<1>7. Event("intent", t) \in Range(ReadLines)
  BY <1>5, <1>6 DEF Range
<1> QED BY <1>7, ReadIsFile, EventsDiffer DEF Intent

\* FileLedger::open gives a run entries that are true of the account.
LEMMA OpenIsTrue ==
    ASSUME JInv, OpenLedger, UNCHANGED <<cloud, reused>>
    PROVE  /\ FileTyped' /\ Readable' /\ joined' \in BOOLEAN /\ tail' = NoTail
           /\ entries' = [t \in Tokens |-> Recorded(t)] /\ entries' \in [Tokens -> EntryStates]
           /\ CloudIsRecorded' /\ EntriesAreTrue'
<1>1. FileTyped /\ Readable /\ joined \in BOOLEAN /\ ~Corrupt /\ CloudIsRecorded
  BY DEF JInv, JobTyped, OpenLedger
<1>2. /\ FileTyped' /\ Readable' /\ joined' \in BOOLEAN /\ tail' = NoTail
      /\ \A x \in Events : x \in Range(lines') <=> InFile(x)
      /\ \A x \in Events : InFile(x)' <=> InFile(x)
      /\ entries' = [t \in Tokens |-> Recorded(t)]
  BY <1>1, OpenKeeps
<1>3. entries' \in [Tokens -> EntryStates]
  BY <1>1, <1>2, RecordedIs
<1>4. \A t \in Tokens : Intent(t) \in Range(lines) => InFile(Intent(t))
  BY DEF InFile
<1>5. cloud \subseteq Tokens
  BY DEF JInv, JobTyped
<1>6. \A t \in Tokens : (Intent(t) \in Range(lines') <=> InFile(Intent(t)))
                        /\ (InFile(Removed(t))' <=> InFile(Removed(t)))
  BY <1>2, EventsDiffer
<1>7. CloudIsRecorded'
  BY <1>1, <1>4, <1>5, <1>6 DEF CloudIsRecorded
<1>8. ASSUME NEW t \in Tokens
      PROVE  /\ entries'[t] # "unknown" => Intent(t) \in Range(lines')
             /\ InFile(Removed(t))' => entries'[t] = "removed"
             /\ t \in cloud' \ reused' => t \in Live'
  <2>1. entries'[t] = Recorded(t)
    BY <1>2
  <2>2. entries'[t] # "unknown" => InFile(Intent(t))
    BY <1>1, <2>1, RecordedIs, ReadHasIntent
  <2>3. InFile(Removed(t)) <=> entries'[t] = "removed"
    BY <1>1, <2>1, RecordedIs
  <2>4. t \in cloud \ reused => entries'[t] \in {"intended", "created"}
    BY <1>1, <1>3, <1>4, <2>1, <2>3, RecordedIs DEF CloudIsRecorded, EntryStates
  <2> QED BY <1>6, <2>2, <2>3, <2>4 DEF Live, LiveIn
<1> QED BY <1>2, <1>3, <1>7, <1>8 DEF EntriesAreTrue

LEMMA StartJobKeeps == ASSUME JInv, StartJob PROVE JInv'
<1>1. /\ OpenLedger /\ at' = 1 /\ runs' = runs + 1 /\ report' = "none" /\ runs < MaxRuns
      /\ UNCHANGED <<cloud, clean, reused>> /\ clean.on = FALSE
  BY DEF StartJob, Idle, JInv, JobTyped, Cleanings
<1>2. /\ FileTyped' /\ Readable' /\ joined' \in BOOLEAN /\ tail' = NoTail
      /\ entries' \in [Tokens -> EntryStates] /\ CloudIsRecorded' /\ EntriesAreTrue'
  BY <1>1, OpenIsTrue
<1>3. runs' \in 0 .. MaxRuns /\ at' \in 0 .. 11
  BY <1>1, JobAssumption DEF JInv, JobTyped
<1>4. JobTyped'
  BY <1>1, <1>2, <1>3, Zenon DEF JInv, JobTyped
<1> QED BY <1>1, <1>2, <1>4 DEF JInv, Idle, StagesInOrder, CleanupIsComplete, CleanReportIsTrue

LEMMA PickUpKeeps == ASSUME JInv, PickUp PROVE JInv'
<1> DEFINE es == [t \in Tokens |-> Recorded(t)]
           live == LiveIn(es)
<1>1. /\ OpenLedger /\ at' = 0 /\ runs' = runs + 1 /\ report' = "none" /\ runs < MaxRuns
      /\ UNCHANGED <<cloud, reused>>
      /\ clean' = [NotCleaning EXCEPT !.on = TRUE, !.left = NewestFirst(live)]
  BY DEF PickUp
<1>2. /\ FileTyped' /\ Readable' /\ joined' \in BOOLEAN /\ entries' = es
      /\ entries' \in [Tokens -> EntryStates] /\ CloudIsRecorded' /\ EntriesAreTrue'
  BY <1>1, OpenIsTrue
<1>3. live \in SUBSET Tokens /\ Live' = live /\ \A t \in live : entries'[t] # "unknown"
  BY <1>2 DEF Live, LiveIn
<1> HIDE DEF es, live
<1>4. /\ clean'.on = TRUE /\ clean'.gone = FALSE /\ clean'.left = NewestFirst(live)
      /\ clean' \in Cleanings /\ Range(clean'.left) = live
  BY <1>1, <1>3, NewestFirstHasAll DEF NotCleaning, Cleanings
<1>5. runs' \in 0 .. MaxRuns /\ at' \in 0 .. 11
  BY <1>1, JobAssumption DEF JInv, JobTyped
<1>6. JobTyped'
  BY <1>1, <1>2, <1>4, <1>5, Zenon DEF JInv, JobTyped
<1>7. cloud' \ reused' \subseteq live /\ cloud \subseteq Tokens
  BY <1>1, <1>2, <1>3 DEF EntriesAreTrue, JInv, JobTyped
<1> QED BY <1>1, <1>2, <1>3, <1>4, <1>6, <1>7
    DEF JInv, Idle, StagesInOrder, CleanupIsComplete, CleanReportIsTrue

\* An event written while a run goes by its entries, whether the write succeeds
\* or not: what is recorded as removed has to be gone.
LEMMA EventKeeps ==
    ASSUME JInv, ~Idle, NEW e \in {"intent", "created", "removed"}, NEW r \in Tokens,
           AppendTo(Event(e, r)) \/ AppendFails(Event(e, r)),
           e # "intent" => entries[r] # "unknown",
           e = "removed" => r \notin cloud,
           UNCHANGED <<cloud, reused>>
    PROVE  /\ FileTyped' /\ Readable' /\ joined' \in BOOLEAN /\ CloudIsRecorded'
           /\ entries' \in [Tokens -> EntryStates]
           /\ Range(lines) \subseteq Range(lines')
           /\ \A t \in Tokens : InFile(Removed(t))' => InFile(Removed(t)) \/ (e = "removed" /\ t = r)
<1>1. FileTyped /\ Readable /\ joined \in BOOLEAN /\ CloudIsRecorded /\ EntriesAreTrue
  BY DEF JInv, JobTyped
<1>2. Event(e, r) \in Events /\ Event(e, r).e = e /\ Event(e, r).token = r
  BY DEF Event, Events
<1>3. Event(e, r).e # "intent" => Intent(Event(e, r).token) \in Range(lines)
  BY <1>1, <1>2 DEF EntriesAreTrue
<1>4. /\ FileTyped' /\ Readable' /\ joined' \in BOOLEAN
      /\ Range(lines) \subseteq Range(lines')
      /\ \A x \in Events : InFile(x)' => InFile(x) \/ x = Event(e, r)
  BY <1>1, <1>2, <1>3, WroteKeeps, AppendFailsKeeps DEF AppendTo
<1>5. \A t \in Tokens : InFile(Removed(t))' => InFile(Removed(t)) \/ (e = "removed" /\ t = r)
  <2> SUFFICES ASSUME NEW t \in Tokens, InFile(Removed(t))'
               PROVE  InFile(Removed(t)) \/ (e = "removed" /\ t = r)
    OBVIOUS
  <2>1. InFile(Removed(t)) \/ Removed(t) = Event(e, r)
    BY <1>4, EventsDiffer
  <2> QED BY <2>1 DEF Removed, Event
<1>6. CloudIsRecorded'
  BY <1>1, <1>4, <1>5 DEF CloudIsRecorded, JInv, JobTyped
<1>7. entries' \in [Tokens -> EntryStates]
  <2>1. entries \in [Tokens -> EntryStates]
    BY DEF JInv, JobTyped
  <2>2. CASE entries' = entries
    BY <2>1, <2>2
  <2>3. CASE entries' = Applied(Event(e, r))
    BY <1>2, <2>1, <2>3 DEF Applied, EntryStates
  <2> QED BY <2>2, <2>3 DEF AppendTo, AppendFails
<1> QED BY <1>4, <1>5, <1>6, <1>7

\* A run that goes on to its next stage, or has none left.
LEMMA OnwardKeeps ==
    ASSUME JInv, at # 0, Onward, runs' = runs,
           FileTyped', Readable', joined' \in BOOLEAN, tail' = NoTail,
           entries' \in [Tokens -> EntryStates], CloudIsRecorded', EntriesAreTrue',
           cloud' \subseteq Tokens, reused' \subseteq Tokens,
           at \in {3, 4} => entries'["instance"] # "unknown",
           at \in {6, 7} => entries'["network"] # "unknown"
    PROVE  JInv'
<1>1. /\ at \in 1 .. 11 /\ at' = (IF at = 11 THEN 0 ELSE at + 1) /\ clean' = clean
      /\ report' = report /\ ~clean.on /\ report = "none" /\ clean \in Cleanings
  BY StepsAre DEF Onward, JInv, JobTyped, StagesInOrder, Idle
<1>2. at' \in 0 .. 11
  BY <1>1
<1>3. JobTyped'
  BY <1>1, <1>2, Zenon DEF JInv, JobTyped
<1>4. /\ at' \in {4, 5} => at \in {3, 4}
      /\ at' \in {7, 8} => at \in {6, 7}
  BY <1>1
<1>5. StagesInOrder'
  BY <1>1, <1>4 DEF StagesInOrder
<1> QED BY <1>1, <1>3, <1>5 DEF JInv, CleanupIsComplete, CleanReportIsTrue

\* What is unchanged stays true.
LEMMA SameLedger ==
    ASSUME JInv, ~Idle, UNCHANGED <<fileVars, entries>>, cloud' \ reused' \subseteq cloud \ reused
    PROVE  /\ FileTyped' /\ Readable' /\ joined' \in BOOLEAN /\ CloudIsRecorded' /\ EntriesAreTrue'
           /\ entries' \in [Tokens -> EntryStates]
  BY DEF JInv, JobTyped, fileVars, FileTyped, Readable, CloudIsRecorded, EntriesAreTrue, InFile,
         Live, LiveIn

LEMMA OtherStageKeeps == ASSUME JInv, Cancel \/ OtherStage PROVE JInv'
<1>1. /\ at # 0 /\ ~Idle /\ UNCHANGED <<fileVars, entries, cloud, runs, reused>>
      /\ cloud \subseteq Tokens /\ reused \subseteq Tokens /\ at \in 1 .. 11 /\ tail' = tail
      /\ tail = NoTail /\ ~clean.on /\ report = "none" /\ clean \in Cleanings
  BY DEF Cancel, OtherStage, Idle, JInv, JobTyped, fileVars, StagesInOrder
<1>2. /\ FileTyped' /\ Readable' /\ joined' \in BOOLEAN /\ CloudIsRecorded' /\ EntriesAreTrue'
      /\ entries' \in [Tokens -> EntryStates]
  BY <1>1, SameLedger
<1>3. CASE CleansUp
  BY <1>1, <1>2, <1>3, CleansUpKeeps
<1>4. CASE OtherStage /\ Onward
  <2>1. at \notin {3, 4, 6, 7}
    BY <1>1, <1>4, StepsAre DEF OtherStage, Resource
  <2> QED BY <1>1, <1>2, <1>4, <2>1, OnwardKeeps
<1>5. CASE StopsHere
  <2>1. at' = 0 /\ clean' = clean /\ report' = report /\ 0 \in 0 .. 11
    BY <1>5 DEF StopsHere
  <2>2. JobTyped'
    BY <1>1, <1>2, <2>1, Zenon DEF JInv, JobTyped
  <2> QED BY <1>1, <1>2, <2>1, <2>2
      DEF JInv, Idle, StagesInOrder, CleanupIsComplete, CleanReportIsTrue
<1> QED BY <1>3, <1>4, <1>5 DEF Cancel, OtherStage

\* record_intent and record_created: the entry is known from its intent on.
LEMMA StageRecords ==
    ASSUME JInv, at # 0, NEW e \in {"intent", "created"}, NEW r \in Tokens,
           e = "created" => entries[r] # "unknown",
           UNCHANGED <<cloud, runs, reused>>,
           at \in {3, 4} => r = "instance" \/ entries["instance"] # "unknown",
           at \in {6, 7} => r = "network" \/ entries["network"] # "unknown",
           \/ AppendTo(Event(e, r)) /\ Onward
           \/ AppendFails(Event(e, r)) /\ CleansUp
    PROVE  JInv'
<1>1. /\ ~Idle /\ tail = NoTail /\ entries \in [Tokens -> EntryStates] /\ FileTyped /\ Readable
      /\ cloud \subseteq Tokens /\ reused \subseteq Tokens /\ EntriesAreTrue /\ joined \in BOOLEAN
  BY DEF Idle, JInv, JobTyped, StagesInOrder
<1>2. Event(e, r) \in Events /\ Event(e, r).e = e /\ Event(e, r).token = r
  BY DEF Event, Events
<1>3. /\ FileTyped' /\ Readable' /\ joined' \in BOOLEAN /\ CloudIsRecorded'
      /\ entries' \in [Tokens -> EntryStates]
      /\ Range(lines) \subseteq Range(lines')
      /\ \A t \in Tokens : InFile(Removed(t))' => InFile(Removed(t))
  BY <1>1, EventKeeps
<1>4. CASE AppendTo(Event(e, r)) /\ Onward
  <2>1. entries' = Applied(Event(e, r)) /\ tail' = NoTail
    BY <1>4 DEF AppendTo, Wrote
  <2>2. e = "intent" => Intent(r) \in Range(lines')
    <3>1. Event(e, r).e # "intent" => Intent(Event(e, r).token) \in Range(lines)
      BY <1>1, <1>2 DEF EntriesAreTrue
    <3>2. Event(e, r) \in Range(lines')
      BY <1>1, <1>2, <1>4, <3>1, WroteKeeps DEF AppendTo
    <3> QED BY <3>2 DEF Intent
  <2>3. /\ \A t \in Tokens \ {r} : entries'[t] = entries[t]
        /\ entries[r] = "removed" => entries'[r] = "removed"
        /\ entries[r] # "unknown" /\ entries[r] # "removed" => entries'[r] \in {"intended", "created"}
        /\ entries'[r] # "unknown"
    BY <1>1, <1>2, <2>1 DEF Applied, EntryStates
  <2>4. EntriesAreTrue'
    <3> SUFFICES ASSUME NEW t \in Tokens
                 PROVE  /\ entries'[t] # "unknown" => Intent(t) \in Range(lines')
                        /\ InFile(Removed(t))' => entries'[t] = "removed"
                        /\ t \in cloud' \ reused' => t \in Live'
      BY DEF EntriesAreTrue
    <3>1. entries[t] # "unknown" => Intent(t) \in Range(lines')
      BY <1>1, <1>3 DEF EntriesAreTrue
    <3>2. InFile(Removed(t))' => entries[t] = "removed"
      BY <1>1, <1>3 DEF EntriesAreTrue
    <3>3. t \in cloud \ reused => entries[t] \in {"intended", "created"}
      BY <1>1 DEF EntriesAreTrue, Live, LiveIn
    <3>4. CASE t # r
      BY <2>3, <3>1, <3>2, <3>3, <3>4 DEF Live, LiveIn
    <3>5. CASE t = r
      BY <2>2, <2>3, <3>1, <3>2, <3>3, <3>5 DEF Live, LiveIn
    <3> QED BY <3>4, <3>5
  <2>5. /\ at \in {3, 4} => entries'["instance"] # "unknown"
        /\ at \in {6, 7} => entries'["network"] # "unknown"
    BY <2>3 DEF Tokens
  <2> QED BY <1>1, <1>3, <1>4, <2>1, <2>4, <2>5, OnwardKeeps
<1>5. CASE AppendFails(Event(e, r)) /\ CleansUp
  <2>1. entries' = entries
    BY <1>5 DEF AppendFails
  <2>2. EntriesAreTrue'
    BY <1>1, <1>3, <2>1 DEF EntriesAreTrue, Live, LiveIn
  <2> QED BY <1>1, <1>3, <1>5, <2>1, <2>2, CleansUpKeeps
<1> QED BY <1>4, <1>5

LEMMA IntendKeeps == ASSUME JInv, Intend PROVE JInv'
<1>1. at # 0 /\ at \in {3, 6} /\ Resource = IF at = 3 THEN "instance" ELSE "network"
  BY StepsAre DEF Intend, Running, Resource, JInv, JobTyped
<1>2. Resource \in Tokens
  BY <1>1 DEF Tokens
<1> QED BY <1>1, <1>2, StageRecords DEF Intend

LEMMA ConfirmKeeps == ASSUME JInv, Confirm PROVE JInv'
<1>1. at # 0 /\ at \in {5, 8} /\ Resource = IF at = 5 THEN "instance" ELSE "network"
  BY StepsAre DEF Confirm, Running, Resource, JInv, JobTyped
<1>2. Resource \in Tokens /\ entries[Resource] # "unknown"
  BY <1>1 DEF Tokens, JInv, StagesInOrder
<1> QED BY <1>1, <1>2, StageRecords DEF Confirm

\* create_instance, open_ports: what may exist now is intended or created in the
\* ledger, or is made again.
LEMMA CreateKeeps == ASSUME JInv, Create PROVE JInv'
<1>1. at # 0 /\ at \in {4, 7} /\ Resource = IF at = 4 THEN "instance" ELSE "network"
  BY StepsAre DEF Create, Running, Resource, JInv, JobTyped
<1>2. Resource \in Tokens /\ entries[Resource] # "unknown" /\ tail = NoTail
  BY <1>1 DEF Tokens, JInv, StagesInOrder
<1>3. /\ ~Idle /\ EntriesAreTrue /\ CloudIsRecorded /\ entries \in [Tokens -> EntryStates]
      /\ cloud \subseteq Tokens /\ reused \subseteq Tokens
  BY <1>1 DEF Idle, JInv, JobTyped
<1>4. /\ UNCHANGED <<fileVars, entries, runs>> /\ cloud' \in {cloud, cloud \cup {Resource}}
      /\ reused' = IF entries[Resource] = "removed" THEN reused \cup {Resource} ELSE reused
  BY DEF Create
<1>5. cloud' \ reused' \subseteq (cloud \ reused) \cup {t \in {Resource} : entries[t] # "removed"}
  BY <1>4
<1>6. FileTyped' /\ Readable' /\ joined' \in BOOLEAN /\ entries' \in [Tokens -> EntryStates]
  BY <1>4 DEF JInv, JobTyped, FileTyped, Readable, fileVars
<1>7. CloudIsRecorded' /\ EntriesAreTrue'
  <2>1. \A t \in Tokens : (InFile(Removed(t))' <=> InFile(Removed(t))) /\ lines' = lines
    BY <1>4 DEF InFile, fileVars
  <2> QED BY <1>2, <1>3, <1>4, <1>5, <2>1
      DEF CloudIsRecorded, EntriesAreTrue, Live, LiveIn, EntryStates
<1>8. cloud' \subseteq Tokens /\ reused' \subseteq Tokens /\ tail' = NoTail
  BY <1>2, <1>3, <1>4 DEF fileVars
<1>9. /\ at \in {3, 4} => entries'["instance"] # "unknown"
      /\ at \in {6, 7} => entries'["network"] # "unknown"
  BY <1>1, <1>2, <1>4
<1> QED BY <1>1, <1>4, <1>6, <1>7, <1>8, <1>9, OnwardKeeps, CleansUpKeeps DEF Create

\* The rest of what is left to remove: only its first has gone.
LEMMA RestOfLeft ==
    ASSUME NEW q \in Seq(Tokens), q # <<>>
    PROVE  /\ Tail(q) \in Seq(Tokens) /\ Head(q) \in Tokens
           /\ Range(q) \subseteq Range(Tail(q)) \cup {Head(q)}
           /\ Range(Tail(q)) \subseteq Range(q) /\ Head(q) \in Range(q)
<1>1. Tail(q) \in Seq(Tokens) /\ Head(q) = q[1] /\ Len(q) \in Nat \ {0} /\ DOMAIN q = 1 .. Len(q)
      /\ Len(Tail(q)) = Len(q) - 1 /\ \A i \in 1 .. Len(q) - 1 : Tail(q)[i] = q[i + 1]
  OBVIOUS
<1>2. \A i \in DOMAIN q : i = 1 \/ (i - 1 \in 1 .. Len(q) - 1 /\ Tail(q)[i - 1] = q[i])
  BY <1>1
<1>3. \A i \in DOMAIN Tail(q) : i + 1 \in DOMAIN q /\ Tail(q)[i] = q[i + 1]
  BY <1>1
<1>4. 1 \in DOMAIN q /\ DOMAIN Tail(q) = 1 .. Len(q) - 1
  BY <1>1
<1>5. Range(q) \subseteq Range(Tail(q)) \cup {Head(q)}
  <2> SUFFICES ASSUME NEW i \in DOMAIN q PROVE q[i] \in Range(Tail(q)) \cup {Head(q)}
    BY DEF Range
  <2>1. CASE i = 1
    BY <1>1, <2>1
  <2>2. CASE i # 1
    BY <1>2, <1>4, <2>2 DEF Range
  <2> QED BY <2>1, <2>2
<1>6. Range(Tail(q)) \subseteq Range(q)
  BY <1>3 DEF Range
<1>7. Head(q) \in Range(q)
  BY <1>1, <1>4 DEF Range
<1>8. Head(q) \in Tokens
  BY <1>1, <1>4
<1> QED BY <1>1, <1>5, <1>6, <1>7, <1>8

\* While a cleanup is under way nothing else runs.
LEMMA Cleaning ==
    ASSUME JInv, clean.on
    PROVE  /\ ~Idle /\ at = 0 /\ clean \in Cleanings /\ clean.left \in Seq(Tokens)
           /\ clean.stuck \subseteq Tokens /\ report = "none" /\ EntriesAreTrue
           /\ cloud \subseteq Tokens /\ reused \subseteq Tokens
  BY DEF JInv, Idle, CleanupIsComplete, JobTyped, Cleanings

\* What a step of a cleanup has to show.
LEMMA CleaningKeeps ==
    ASSUME JInv, clean.on, UNCHANGED <<at, runs, reused, report>>,
           FileTyped', Readable', joined' \in BOOLEAN, CloudIsRecorded', EntriesAreTrue',
           entries' \in [Tokens -> EntryStates],
           cloud' \subseteq cloud, clean' \in Cleanings, clean'.on,
           cloud' \ reused \subseteq Range(clean'.left) \cup clean'.stuck,
           \A t \in Range(clean'.left) : entries'[t] # "unknown",
           clean'.gone => clean'.left # <<>> /\ Head(clean'.left) \notin cloud'
    PROVE  JInv'
<1>1. at = 0 /\ report = "none" /\ cloud \subseteq Tokens
  BY Cleaning
<1>2. JobTyped'
  BY <1>1, Zenon DEF JInv, JobTyped
<1> QED BY <1>1, <1>2
    DEF JInv, Idle, StagesInOrder, CleanupIsComplete, CleanReportIsTrue, NextOne

\* remove_one: what it takes to be gone is gone, and what it could not remove is
\* remembered.
LEMMA RemoveOneKeeps == ASSUME JInv, RemoveOne PROVE JInv'
<1>1. /\ clean.on /\ clean.left # <<>> /\ ~clean.gone /\ cloud' \subseteq cloud
      /\ UNCHANGED <<fileVars, entries, at, runs, reused, report>>
  BY DEF RemoveOne, Taking
<1>2. /\ ~Idle /\ clean \in Cleanings /\ clean.left \in Seq(Tokens) /\ clean.stuck \subseteq Tokens
      /\ cloud \subseteq Tokens
  BY <1>1, Cleaning
<1>3. /\ cloud \ reused \subseteq Range(clean.left) \cup clean.stuck
      /\ \A t \in Range(clean.left) : entries[t] # "unknown"
  BY <1>1 DEF JInv, CleanupIsComplete
<1>4. /\ FileTyped' /\ Readable' /\ joined' \in BOOLEAN /\ CloudIsRecorded' /\ EntriesAreTrue'
      /\ entries' \in [Tokens -> EntryStates]
  BY <1>1, <1>2, SameLedger
<1>5. CASE clean' = [clean EXCEPT !.gone = TRUE] /\ NextOne \notin cloud'
  <2>1. clean' \in Cleanings /\ clean'.on /\ clean'.left = clean.left /\ clean'.stuck = clean.stuck
    BY <1>1, <1>2, <1>5 DEF Cleanings
  <2> QED BY <1>1, <1>3, <1>4, <1>5, <2>1, CleaningKeeps DEF NextOne
<1>6. CASE clean' = [clean EXCEPT !.left = Tail(@), !.stuck = @ \cup {NextOne}]
  <2>1. /\ Tail(clean.left) \in Seq(Tokens) /\ NextOne \in Tokens
        /\ Range(clean.left) \subseteq Range(Tail(clean.left)) \cup {NextOne}
        /\ Range(Tail(clean.left)) \subseteq Range(clean.left)
    BY <1>1, <1>2, RestOfLeft DEF NextOne
  <2>2. /\ clean' \in Cleanings /\ clean'.on /\ clean'.left = Tail(clean.left) /\ ~clean'.gone
        /\ clean'.stuck = clean.stuck \cup {NextOne}
    BY <1>1, <1>2, <1>6, <2>1 DEF Cleanings
  <2>3. cloud' \ reused \subseteq Range(clean'.left) \cup clean'.stuck
    BY <1>1, <1>3, <2>1, <2>2
  <2>4. \A t \in Range(clean'.left) : entries'[t] # "unknown"
    BY <1>1, <1>3, <2>1, <2>2
  <2> QED BY <1>1, <1>4, <2>2, <2>3, <2>4, CleaningKeeps
<1> QED BY <1>5, <1>6 DEF RemoveOne, SearchSaysNothingThere

\* record_removed: only what is gone is recorded as removed.
LEMMA RecordRemovedKeeps == ASSUME JInv, RecordRemoved PROVE JInv'
<1>1. clean.on /\ clean.gone /\ UNCHANGED <<cloud, at, runs, reused>>
  BY DEF RecordRemoved
<1>2. /\ ~Idle /\ at = 0 /\ clean \in Cleanings /\ clean.left \in Seq(Tokens) /\ report = "none"
      /\ cloud \subseteq Tokens /\ EntriesAreTrue /\ reused \subseteq Tokens
  BY <1>1, Cleaning
<1>3. /\ cloud \ reused \subseteq Range(clean.left) \cup clean.stuck
      /\ \A t \in Range(clean.left) : entries[t] # "unknown"
      /\ clean.left # <<>> /\ NextOne \notin cloud
  BY <1>1 DEF JInv, CleanupIsComplete
<1>4. /\ Tail(clean.left) \in Seq(Tokens) /\ NextOne \in Tokens /\ entries[NextOne] # "unknown"
      /\ Range(clean.left) \subseteq Range(Tail(clean.left)) \cup {NextOne}
      /\ Range(Tail(clean.left)) \subseteq Range(clean.left)
  BY <1>2, <1>3, RestOfLeft DEF NextOne
<1>5. /\ FileTyped' /\ Readable' /\ joined' \in BOOLEAN /\ CloudIsRecorded'
      /\ entries' \in [Tokens -> EntryStates]
      /\ Range(lines) \subseteq Range(lines')
      /\ \A t \in Tokens : InFile(Removed(t))' => InFile(Removed(t)) \/ t = NextOne
  BY <1>1, <1>2, <1>3, <1>4, EventKeeps DEF RecordRemoved
<1>6. CASE /\ AppendTo(Event("removed", NextOne)) /\ UNCHANGED report
           /\ clean' = [clean EXCEPT !.left = Tail(@), !.gone = FALSE]
  <2>1. /\ clean' \in Cleanings /\ clean'.on /\ clean'.left = Tail(clean.left) /\ ~clean'.gone
        /\ clean'.stuck = clean.stuck
    BY <1>1, <1>2, <1>4, <1>6 DEF Cleanings
  <2>2. entries' = [entries EXCEPT ![NextOne] = "removed"]
    BY <1>2, <1>4, <1>6 DEF AppendTo, Applied, Event, JInv, JobTyped, EntryStates
  <2>3. entries \in [Tokens -> EntryStates]
    BY DEF JInv, JobTyped
  <2>4. EntriesAreTrue'
    <3> SUFFICES ASSUME NEW t \in Tokens
                 PROVE  /\ entries'[t] # "unknown" => Intent(t) \in Range(lines')
                        /\ InFile(Removed(t))' => entries'[t] = "removed"
                        /\ t \in cloud' \ reused' => t \in Live'
      BY DEF EntriesAreTrue
    <3>1. entries[t] # "unknown" => Intent(t) \in Range(lines')
      BY <1>2, <1>5 DEF EntriesAreTrue
    <3>2. CASE t # NextOne
      <4>1. InFile(Removed(t))' => entries[t] = "removed"
        BY <1>2, <1>5, <3>2 DEF EntriesAreTrue
      <4>2. t \in cloud \ reused => entries[t] \in {"intended", "created"}
        BY <1>2 DEF EntriesAreTrue, Live, LiveIn
      <4> QED BY <1>1, <2>2, <2>3, <3>1, <3>2, <4>1, <4>2 DEF Live, LiveIn
    <3>3. CASE t = NextOne
      BY <1>1, <1>3, <1>4, <2>2, <2>3, <3>1, <3>3
    <3> QED BY <3>2, <3>3
  <2>5. cloud' \ reused \subseteq Range(clean'.left) \cup clean'.stuck
    BY <1>1, <1>3, <1>4, <2>1
  <2>6. \A t \in Range(clean'.left) : entries'[t] # "unknown"
    BY <1>3, <1>4, <2>1, <2>2, <2>3
  <2> QED BY <1>1, <1>5, <1>6, <2>1, <2>4, <2>5, <2>6, CleaningKeeps
<1>7. CASE clean' = NotCleaning /\ report' = "partial"
  <2>1. clean'.on = FALSE /\ clean' \in Cleanings
    BY <1>7 DEF NotCleaning, Cleanings
  <2>2. JobTyped'
    BY <1>1, <1>2, <1>5, <1>7, <2>1, Zenon DEF JInv, JobTyped
  <2> QED BY <1>1, <1>2, <1>5, <1>7, <2>1, <2>2
      DEF JInv, Idle, StagesInOrder, CleanupIsComplete, CleanReportIsTrue
<1> QED BY <1>6, <1>7 DEF RecordRemoved

LEMMA EndCleanupKeeps == ASSUME JInv, EndCleanup PROVE JInv'
<1>1. /\ clean.on /\ clean.left = <<>> /\ clean' = NotCleaning
      /\ report' = (IF clean.stuck = {} THEN "complete" ELSE "partial")
      /\ UNCHANGED <<fileVars, entries, cloud, at, runs, reused>>
  BY DEF EndCleanup
<1>2. /\ ~Idle /\ at = 0 /\ clean \in Cleanings /\ cloud \subseteq Tokens /\ reused \subseteq Tokens
  BY <1>1, Cleaning
<1>3. /\ FileTyped' /\ Readable' /\ joined' \in BOOLEAN /\ CloudIsRecorded' /\ EntriesAreTrue'
      /\ entries' \in [Tokens -> EntryStates]
  BY <1>1, <1>2, SameLedger
<1>4. Range(clean.left) = {}
  BY <1>1 DEF Range
<1>5. clean.stuck = {} => cloud \subseteq reused
  BY <1>1, <1>4 DEF JInv, CleanupIsComplete
<1>6. clean'.on = FALSE /\ clean' \in Cleanings /\ report' \in {"none", "complete", "partial"}
  BY <1>1 DEF NotCleaning, Cleanings
<1>7. JobTyped'
  BY <1>1, <1>2, <1>3, <1>6, Zenon DEF JInv, JobTyped
<1> QED BY <1>1, <1>2, <1>3, <1>5, <1>6, <1>7
    DEF JInv, Idle, StagesInOrder, CleanupIsComplete, CleanReportIsTrue

LEMMA JobDiesKeeps == ASSUME JInv, JobDies PROVE JInv'
<1>1. /\ ~Idle /\ at' = 0 /\ clean' = NotCleaning /\ entries' = Nothing
      /\ UNCHANGED <<fileVars, cloud, runs, reused, report>> /\ report = "none"
  BY DEF JobDies, JInv
<1>2. FileTyped' /\ Readable' /\ joined' \in BOOLEAN /\ CloudIsRecorded'
  BY <1>1 DEF JInv, JobTyped, fileVars, FileTyped, Readable, CloudIsRecorded, InFile
<1>3. clean'.on = FALSE /\ clean' \in Cleanings /\ entries' \in [Tokens -> EntryStates]
      /\ at' \in 0 .. 11
  BY <1>1 DEF NotCleaning, Cleanings, Nothing, EntryStates
<1>4. JobTyped'
  BY <1>1, <1>2, <1>3, Zenon DEF JInv, JobTyped
<1> QED BY <1>1, <1>2, <1>3, <1>4
    DEF JInv, Idle, StagesInOrder, CleanupIsComplete, CleanReportIsTrue

LEMMA JNext == JInv /\ [JobNext]_jobVars => JInv'
<1> SUFFICES ASSUME JInv, [JobNext]_jobVars PROVE JInv'
  OBVIOUS
<1>1. CASE JobNext
  BY <1>1, StartJobKeeps, PickUpKeeps, OtherStageKeeps, IntendKeeps, CreateKeeps, ConfirmKeeps,
     RemoveOneKeeps, RecordRemovedKeeps, EndCleanupKeeps, JobDiesKeeps DEF JobNext
<1>2. CASE UNCHANGED jobVars
  BY <1>2 DEF jobVars, JInv, JobTyped, FileTyped, Readable, CloudIsRecorded, InFile, Idle,
     EntriesAreTrue, Live, LiveIn, StagesInOrder, CleanupIsComplete, CleanReportIsTrue, NextOne
<1> QED BY <1>1, <1>2

\* The ledger can be read at any step and names what exists.
LEMMA JInvAccounts == JInv => AccountedFor
<1> SUFFICES ASSUME JInv, ~joined
             PROVE  ~Corrupt /\ \A t \in cloud \ reused : Recorded(t) \in {"intended", "created"}
  BY DEF AccountedFor
<1>1. FileTyped /\ Readable /\ CloudIsRecorded /\ cloud \subseteq Tokens
  BY DEF JInv, JobTyped
<1>2. ~Corrupt
  BY <1>1, ReadableIsNotCorrupt
<1>3. ASSUME NEW t \in cloud \ reused PROVE Recorded(t) \in {"intended", "created"}
  <2>1. t \in Tokens /\ InFile(Intent(t)) /\ ~InFile(Removed(t))
    BY <1>1 DEF CloudIsRecorded, InFile
  <2> QED BY <1>1, <2>1, RecordedIs DEF EntryStates
<1> QED BY <1>2, <1>3

\* "A crash at any moment leaves a ledger that accounts for everything that
\* exists" (stages.rs): whatever calls and writes fail, and however many runs,
\* crashes and clean-ups there are.
THEOREM LedgerSafety == JobSpec => []AccountedFor
<1>1. JInv => AccountedFor
  BY JInvAccounts
<1> QED BY <1>1, JobInitInv, JNext, PTL DEF JobSpec

\* A run or a cleanup that reports nothing left behind has left nothing behind
\* (CleanupReport::is_complete).
THEOREM NothingLeftUnsaid == JobSpec => []CleanReportIsTrue
<1>1. JInv => CleanReportIsTrue
  BY DEF JInv
<1> QED BY <1>1, JobInitInv, JNext, PTL DEF JobSpec

-----------------------------------------------------------------------------
(* Held changes.                                                           *)

\* A change that is being approved is being approved by the one client that
\* has the lock, and has not been applied yet.
ApproverAlone ==
    \A c \in Clients :
        /\ calls[c].does \in {"apply", "drop"} => turn = {c}
        /\ calls[c].does = "apply" => applied[calls[c].held.name] = 0

\* What waits, and what a request has copied, waits under a name that was given.
NamesGiven ==
    /\ \A h \in held : h.name <= named
    /\ \A c \in Clients : calls[c] # Unasked => calls[c].held.name <= named
    /\ \A n \in Names : n > named => applied[n] = 0

\* A change that was applied no longer waits, unless the client that applied
\* it is about to drop it.
AppliedIsDropped ==
    \A h \in held : applied[h.name] # 0 =>
        \E c \in Clients : calls[c].does = "drop" /\ calls[c].held.name = h.name

\* Only the lock makes it inductive: the copy that approving takes is used after
\* the lock on the waiting changes was let go.
HInv == HeldTypeOK /\ ApproverAlone /\ NamesGiven /\ AppliedIsDropped /\ AppliedOnce

LEMMA HeldInitInv == HeldInit => HInv
  BY HeldAssumption
  DEF HeldInit, HInv, HeldTypeOK, ApproverAlone, NamesGiven, AppliedIsDropped, AppliedOnce,
      Unasked, Names

\* Asking for a change, which may give a new name (PendingChanges::hold).
LEMMA AskKeepsHInv ==
    ASSUME HInv, NEW c \in Clients, NEW ch \in Changes, AskChange(c, ch)
    PROVE  HInv'
<1> USE HeldAssumption DEF HInv, AskChange, Unexpired
<1>1. CASE held' = Unexpired /\ named' = named
  BY <1>1 DEF HeldTypeOK, ApproverAlone, NamesGiven, AppliedIsDropped, AppliedOnce
<1>2. CASE held' = Unexpired \cup {Newly(ch)} /\ named' = named + 1 /\ named < MaxNames
  <2>1. Newly(ch) \in Waiting /\ Newly(ch).name = named + 1
    BY <1>2 DEF Newly, Waiting, Names, HeldTypeOK
  <2>2. HeldTypeOK'
    BY <1>2, <2>1 DEF HeldTypeOK
  <2>3. ApproverAlone'
    BY DEF ApproverAlone
  <2>4. NamesGiven'
    <3>1. \A h \in held' : h.name <= named'
      BY <1>2, <2>1 DEF NamesGiven, HeldTypeOK, Waiting, Names
    <3>2. \A d \in Clients : calls'[d] # Unasked => calls'[d].held.name <= named'
      <4> SUFFICES ASSUME NEW d \in Clients, calls[d] # Unasked
                   PROVE  calls[d].held.name <= named + 1
        BY <1>2
      <4>1. calls[d].held.name \in Nat
        BY DEF HeldTypeOK, Waiting, Names
      <4> QED BY <4>1 DEF NamesGiven, HeldTypeOK
    <3> QED BY <1>2, <3>1, <3>2 DEF NamesGiven, HeldTypeOK, Names
  <2>5. AppliedIsDropped'
    BY <1>2, <2>1 DEF AppliedIsDropped, NamesGiven, HeldTypeOK, Waiting, Names
  <2> QED BY <2>2, <2>3, <2>4, <2>5 DEF AppliedOnce
<1> QED BY <1>1, <1>2 DEF Hold

\* Looking at what waits drops what has expired, and nothing else.
LEMMA LookKeepsHInv ==
    ASSUME HInv, held' = Unexpired, UNCHANGED <<safe, clock, named, calls, turn, applied, withdrawn>>
    PROVE  HInv'
  BY DEF HInv, HeldTypeOK, ApproverAlone, NamesGiven, AppliedIsDropped, AppliedOnce, Unexpired

\* Approving takes the lock, so that nothing waits that was applied already.
LEMMA ApproveKeepsHInv ==
    ASSUME HInv, NEW c \in Clients, NEW n \in Names, Approve(c, n)
    PROVE  HInv'
<1> USE HeldAssumption DEF HInv
<1>1. CASE \E h \in Unexpired : h.name = n
  <2>1. PICK h \in Unexpired : h.name = n /\ calls' = [calls EXCEPT ![c] = Call("apply", h)]
    BY <1>1 DEF Approve, Goes
  <2>2. /\ h \in held /\ h \in Waiting /\ turn = {} /\ turn' = {c} /\ calls[c] = Unasked
        /\ held' = Unexpired /\ UNCHANGED <<safe, clock, named, applied, withdrawn>>
    BY <1>1 DEF Approve, Free, Unexpired, HeldTypeOK
  <2>3. calls'[c].does = "apply" /\ calls'[c].held = h
    BY <2>1 DEF Call, HeldTypeOK
  <2>4. applied[h.name] = 0
    BY <2>2 DEF AppliedIsDropped, ApproverAlone
  <2>5. HeldTypeOK'
    BY <2>1, <2>2 DEF HeldTypeOK, Call, Unexpired
  <2>6. ApproverAlone'
    BY <2>1, <2>2, <2>3, <2>4 DEF ApproverAlone, HeldTypeOK
  <2>7. NamesGiven'
    BY <2>1, <2>2, <2>3 DEF NamesGiven, HeldTypeOK, Unexpired
  <2>8. AppliedIsDropped'
    BY <2>2 DEF AppliedIsDropped, ApproverAlone, Unexpired
  <2> QED BY <2>2, <2>5, <2>6, <2>7, <2>8 DEF AppliedOnce
<1>2. CASE ~\E h \in Unexpired : h.name = n
  BY <1>2, LookKeepsHInv DEF Approve
<1> QED BY <1>1, <1>2

\* Applying counts the change as applied and leaves it waiting for its drop;
\* being refused lets the lock go.
LEMMA ApplyKeepsHInv ==
    ASSUME HInv, NEW c \in Clients, ApplyHeld(c)
    PROVE  HInv'
<1> USE HeldAssumption DEF HInv
<1> DEFINE h == calls[c].held
<1>1. /\ calls[c].does = "apply" /\ turn = {c} /\ h \in Waiting /\ applied[h.name] = 0
      /\ h.name \in Names
  BY DEF ApplyHeld, ApproverAlone, HeldTypeOK, Unasked, Waiting
<1>2. \A d \in Clients : calls[d].does = "drop" => FALSE
  BY <1>1 DEF ApproverAlone
<1>3. CASE /\ applied' = [applied EXCEPT ![h.name] = @ + 1]
           /\ calls' = [calls EXCEPT ![c] = Call("drop", h)] /\ UNCHANGED turn
           /\ UNCHANGED <<safe, clock, held, named, withdrawn>>
  <2>1. calls'[c].does = "drop" /\ calls'[c].held = h
    BY <1>3 DEF Call, HeldTypeOK
  <2>2. HeldTypeOK'
    BY <1>1, <1>3 DEF HeldTypeOK, Call
  <2>3. ApproverAlone'
    BY <1>1, <1>2, <1>3, <2>1 DEF ApproverAlone, HeldTypeOK
  <2>4. h.name <= named
    BY <1>1 DEF NamesGiven, Unasked
  <2>5. NamesGiven'
    BY <1>1, <1>3, <2>1, <2>4 DEF NamesGiven, HeldTypeOK, Names
  <2>6. AppliedIsDropped'
    BY <1>1, <1>2, <1>3, <2>1 DEF AppliedIsDropped, HeldTypeOK, Waiting
  <2>7. AppliedOnce'
    BY <1>1, <1>3 DEF AppliedOnce, HeldTypeOK
  <2> QED BY <2>2, <2>3, <2>5, <2>6, <2>7
<1>4. CASE /\ calls' = [calls EXCEPT ![c] = Unasked] /\ turn' = turn \ {c}
           /\ UNCHANGED <<safe, clock, held, named, applied, withdrawn>>
  <2>1. calls'[c] = Unasked /\ calls'[c].does = "nothing"
    BY <1>4 DEF Unasked, HeldTypeOK
  <2>2. HeldTypeOK'
    BY <1>4 DEF HeldTypeOK
  <2>3. ApproverAlone'
    BY <1>1, <1>4, <2>1 DEF ApproverAlone, HeldTypeOK
  <2>4. NamesGiven'
    BY <1>4, <2>1 DEF NamesGiven, HeldTypeOK
  <2>5. AppliedIsDropped'
    BY <1>2, <1>4 DEF AppliedIsDropped
  <2> QED BY <1>4, <2>2, <2>3, <2>4, <2>5 DEF AppliedOnce
<1> QED BY <1>3, <1>4 DEF ApplyHeld, Goes

\* A change is removed by the client that applied it or by one that withdraws it.
LEMMA RemoveKeepsHInv ==
    ASSUME HInv, NEW c \in Clients, calls[c] # Unasked, calls[c].does # "apply",
           held' = Without(calls[c].held.name),
           calls' = [calls EXCEPT ![c] = Unasked],
           turn' \in {turn, turn \ {c}},
           withdrawn' \subseteq Names,
           UNCHANGED <<safe, clock, named, applied>>
    PROVE  HInv'
<1> USE HeldAssumption DEF HInv
<1>1. calls'[c] = Unasked /\ calls'[c].does = "nothing"
  BY DEF Unasked, HeldTypeOK
<1>2. HeldTypeOK'
  BY DEF HeldTypeOK, Without
<1>3. ApproverAlone'
  BY <1>1 DEF ApproverAlone, HeldTypeOK
<1>4. NamesGiven'
  BY <1>1 DEF NamesGiven, HeldTypeOK, Without
<1>5. AppliedIsDropped'
  BY <1>1 DEF AppliedIsDropped, HeldTypeOK, Without
<1> QED BY <1>2, <1>3, <1>4, <1>5 DEF AppliedOnce

\* A request to withdraw copies what it found.
LEMMA RejectKeepsHInv ==
    ASSUME HInv, NEW c \in Clients, NEW n \in Names, Reject(c, n)
    PROVE  HInv'
<1> USE HeldAssumption DEF HInv
<1>1. CASE \E h \in Unexpired : h.name = n
  <2>1. PICK h \in Unexpired : h.name = n /\ calls' = [calls EXCEPT ![c] = Call("withdraw", h)]
    BY <1>1 DEF Reject, Goes
  <2>2. /\ h \in held /\ h \in Waiting /\ calls[c] = Unasked
        /\ held' = Unexpired /\ UNCHANGED <<safe, clock, named, turn, applied, withdrawn>>
    BY DEF Reject, Free, Unexpired, HeldTypeOK
  <2>3. calls'[c].does = "withdraw" /\ calls'[c].held = h
    BY <2>1 DEF Call, HeldTypeOK
  <2>4. HeldTypeOK'
    BY <2>1, <2>2 DEF HeldTypeOK, Call, Unexpired
  <2>5. ApproverAlone'
    BY <2>1, <2>2, <2>3 DEF ApproverAlone, HeldTypeOK
  <2>6. NamesGiven'
    BY <2>1, <2>2, <2>3 DEF NamesGiven, HeldTypeOK, Unexpired
  <2>7. AppliedIsDropped'
    BY <2>1, <2>2 DEF AppliedIsDropped, Unexpired, Unasked, HeldTypeOK
  <2> QED BY <2>2, <2>4, <2>5, <2>6, <2>7 DEF AppliedOnce
<1>2. CASE ~\E h \in Unexpired : h.name = n
  BY <1>2, LookKeepsHInv DEF Reject
<1> QED BY <1>1, <1>2

LEMMA HeldNextInv == HInv /\ [HeldNext]_heldVars => HInv'
<1> SUFFICES ASSUME HInv, [HeldNext]_heldVars PROVE HInv'
  OBVIOUS
<1>1. CASE UNCHANGED heldVars
  BY <1>1 DEF heldVars, HInv, HeldTypeOK, ApproverAlone, NamesGiven, AppliedIsDropped,
              AppliedOnce
<1>2. ASSUME NEW c \in Clients, NEW ch \in Changes, AskChange(c, ch) PROVE HInv'
  BY <1>2, AskKeepsHInv
<1>3. ASSUME NEW c \in Clients, NEW n \in Names, Approve(c, n) PROVE HInv'
  BY <1>3, ApproveKeepsHInv
<1>4. ASSUME NEW c \in Clients, NEW n \in Names, Reject(c, n) PROVE HInv'
  BY <1>4, RejectKeepsHInv
<1>5. ASSUME NEW c \in Clients, ListPending(c) PROVE HInv'
  BY <1>5, LookKeepsHInv DEF ListPending
<1>6. ASSUME NEW c \in Clients, ApplyHeld(c) PROVE HInv'
  BY <1>6, ApplyKeepsHInv
<1>7. ASSUME NEW c \in Clients, DropApplied(c) PROVE HInv'
  <2>1. calls[c] # Unasked /\ withdrawn' \subseteq Names
    BY <1>7 DEF DropApplied, Unasked, HInv, HeldTypeOK
  <2> QED BY <1>7, <2>1, RemoveKeepsHInv DEF DropApplied, Goes
<1>8. ASSUME NEW c \in Clients, Withdraw(c) PROVE HInv'
  <2>1. calls[c] # Unasked /\ withdrawn' \subseteq Names
    BY <1>8 DEF Withdraw, Unasked, HInv, HeldTypeOK, Waiting
  <2> QED BY <1>8, <2>1, RemoveKeepsHInv DEF Withdraw, Goes
<1>9. CASE ClockTicks
  BY <1>9, HeldAssumption DEF ClockTicks, HInv, HeldTypeOK, ApproverAlone, NamesGiven,
              AppliedIsDropped, AppliedOnce
<1> QED BY <1>1, <1>2, <1>3, <1>4, <1>5, <1>6, <1>7, <1>8, <1>9 DEF HeldNext

\* approve_change, reject_change: however many elevated clients approve a held
\* change, and whatever is withdrawn or expires meanwhile, it is applied at
\* most once; for any clients, changes, limits and hold time.
THEOREM HeldSafety == HeldSpec => [](HeldTypeOK /\ AppliedOnce)
<1>1. HInv => HeldTypeOK /\ AppliedOnce
  BY DEF HInv
<1> QED BY <1>1, HeldInitInv, HeldNextInv, PTL DEF HeldSpec

\* A client withdraws the change that another approves: what the two locks do
\* not keep apart (service_impl.rs:861).
Overlap ==
    \E c, d \in Clients : /\ calls[c].does = "withdraw" /\ calls[d].does \in {"apply", "drop"}
                          /\ calls[c].held.name = calls[d].held.name

\* What was withdrawn is gone for good, and what is being withdrawn was not applied.
WithdrawnIsGone ==
    /\ \A n \in withdrawn : applied[n] = 0 /\ n <= named /\ \A h \in held : h.name # n
    /\ \A c \in Clients :
          /\ calls[c].does = "apply" => calls[c].held.name \notin withdrawn
          /\ calls[c].does = "withdraw" => applied[calls[c].held.name] = 0

LEMMA WithdrawnStaysGone ==
    ASSUME HInv, WithdrawnIsGone, ~Overlap, ~Overlap', [HeldNext]_heldVars
    PROVE  WithdrawnIsGone'
<1>0. /\ calls \in [Clients -> {Unasked} \cup [does : {"apply", "drop", "withdraw"}, held : Waiting]]
      /\ held \subseteq Waiting /\ named \in Nat /\ applied \in [Names -> Nat] /\ withdrawn \subseteq Names
      /\ Unasked.does = "nothing"
  BY DEF HInv, HeldTypeOK, Unasked, Names
<1>1. CASE UNCHANGED heldVars
  BY <1>1 DEF heldVars, WithdrawnIsGone
<1>2. ASSUME NEW c \in Clients, NEW ch \in Changes, AskChange(c, ch) PROVE WithdrawnIsGone'
  <2>1. UNCHANGED <<calls, applied, withdrawn>>
    BY <1>2 DEF AskChange
  <2>2. /\ named' \in {named, named + 1}
        /\ \A h \in held' : h \in held \/ (h = Newly(ch) /\ h.name = named + 1)
    BY <1>2 DEF AskChange, Hold, Unexpired, Newly
  <2>3. ASSUME NEW n \in withdrawn PROVE n <= named' /\ \A h \in held' : h.name # n
    <3>1. n \in Nat /\ n <= named /\ \A h \in held : h.name # n
      BY <1>0 DEF WithdrawnIsGone, Names
    <3> QED BY <1>0, <2>2, <3>1
  <2> QED BY <2>1, <2>3 DEF WithdrawnIsGone
<1>3. ASSUME NEW c \in Clients, NEW h \in held, NEW does \in {"apply", "withdraw"},
             calls[c] = Unasked, held' \subseteq held, Goes(c, Call(does, h)),
             UNCHANGED <<named, applied, withdrawn>>
      PROVE  WithdrawnIsGone'
  <2>1. calls'[c].does = does /\ calls'[c].held = h /\ \A d \in Clients \ {c} : calls'[d] = calls[d]
    BY <1>0, <1>3 DEF Goes, Call
  <2>2. h.name \notin withdrawn
    BY DEF WithdrawnIsGone
  <2>3. does = "withdraw" => applied[h.name] = 0
    <3> SUFFICES ASSUME does = "withdraw", applied[h.name] # 0 PROVE FALSE
      OBVIOUS
    <3>1. PICK d \in Clients : calls[d].does = "drop" /\ calls[d].held.name = h.name
      BY DEF HInv, AppliedIsDropped
    <3>2. d # c
      BY <1>0, <1>3, <3>1
    <3> QED BY <2>1, <3>1, <3>2 DEF Overlap
  <2> QED BY <1>3, <2>1, <2>2, <2>3 DEF WithdrawnIsGone
<1>4. ASSUME NEW c \in Clients, NEW n \in Names, Approve(c, n) \/ Reject(c, n) PROVE WithdrawnIsGone'
  <2>1. calls[c] = Unasked /\ held' \subseteq held /\ UNCHANGED <<named, applied, withdrawn>>
    BY <1>4 DEF Approve, Reject, Unexpired, Free
  <2>2. \/ UNCHANGED calls
        \/ \E h \in held, does \in {"apply", "withdraw"} : Goes(c, Call(does, h))
    BY <1>4 DEF Approve, Reject, Unexpired
  <2>3. CASE UNCHANGED calls
    BY <2>1, <2>3 DEF WithdrawnIsGone
  <2> QED BY <1>3, <2>1, <2>2, <2>3
<1>5. ASSUME NEW c \in Clients, ListPending(c) PROVE WithdrawnIsGone'
  BY <1>5 DEF ListPending, Unexpired, WithdrawnIsGone
<1>6. ASSUME NEW c \in Clients, DropApplied(c) PROVE WithdrawnIsGone'
  <2>1. calls'[c].does = "nothing" /\ \A d \in Clients \ {c} : calls'[d] = calls[d]
    BY <1>0, <1>6 DEF DropApplied, Goes
  <2>2. held' \subseteq held /\ UNCHANGED <<named, applied, withdrawn>>
    BY <1>6 DEF DropApplied, Without
  <2> QED BY <2>1, <2>2 DEF WithdrawnIsGone
<1>7. ASSUME NEW c \in Clients, ApplyHeld(c) PROVE WithdrawnIsGone'
  <2> DEFINE n == calls[c].held.name
  <2>1. calls[c].does = "apply" /\ n \notin withdrawn
    BY <1>7 DEF ApplyHeld, WithdrawnIsGone
  <2>2. \A d \in Clients : calls[d].does = "withdraw" => calls[d].held.name # n
    BY <2>1 DEF Overlap
  <2>3. /\ calls'[c].does \in {"drop", "nothing"} /\ \A d \in Clients \ {c} : calls'[d] = calls[d]
        /\ UNCHANGED <<held, named, withdrawn>>
    BY <1>0, <1>7 DEF ApplyHeld, Goes, Call
  <2>4. \A m \in Names : m # n => applied'[m] = applied[m]
    BY <1>0, <1>7 DEF ApplyHeld
  <2>5. \A d \in Clients : calls[d].does \in {"apply", "withdraw"} => calls[d].held.name \in Names
    BY <1>0 DEF Waiting
  <2> HIDE DEF n
  <2> QED BY <1>0, <2>1, <2>2, <2>3, <2>4, <2>5 DEF WithdrawnIsGone
<1>8. ASSUME NEW c \in Clients, Withdraw(c) PROVE WithdrawnIsGone'
  <2> DEFINE n == calls[c].held.name
  <2>1. calls[c].does = "withdraw" /\ applied[n] = 0 /\ n <= named
    BY <1>0, <1>8 DEF Withdraw, WithdrawnIsGone, HInv, NamesGiven
  <2>2. \A d \in Clients : calls[d].does = "apply" => calls[d].held.name # n
    BY <2>1 DEF Overlap
  <2>3. /\ calls'[c].does = "nothing" /\ \A d \in Clients \ {c} : calls'[d] = calls[d]
        /\ UNCHANGED <<named, applied>> /\ withdrawn' = withdrawn \cup {n}
        /\ held' = {h \in held : h.name # n}
    BY <1>0, <1>8 DEF Withdraw, Without, Goes
  <2> HIDE DEF n
  <2> QED BY <2>1, <2>2, <2>3 DEF WithdrawnIsGone
<1>9. CASE ClockTicks
  BY <1>9 DEF ClockTicks, WithdrawnIsGone
<1> QED BY <1>1, <1>2, <1>4, <1>5, <1>6, <1>7, <1>8, <1>9 DEF HeldNext

\* reject_change: unless a withdrawal and an approval of it overlap, a change whose
\* withdrawal was answered is never applied ("Drop the held change `id` without
\* applying it", service_impl.rs:860).  So the overlap is the only way to what
\* TLC shows of WithdrawnIsNotApplied: the lock that approving takes, taken by
\* the withdrawal too, would make the words true.
THEOREM WithdrawnUnlessOverlapping ==
    HeldSpec /\ []~Overlap => []WithdrawnIsNotApplied
<1>1. HeldInit => WithdrawnIsGone
  BY DEF HeldInit, WithdrawnIsGone, Unasked
<1>2. HInv /\ WithdrawnIsGone /\ ~Overlap /\ ~Overlap' /\ [HeldNext]_heldVars => WithdrawnIsGone'
  BY WithdrawnStaysGone
<1>3. WithdrawnIsGone => WithdrawnIsNotApplied
  BY DEF WithdrawnIsGone, WithdrawnIsNotApplied
<1> QED BY <1>1, <1>2, <1>3, HeldInitInv, HeldNextInv, PTL DEF HeldSpec

-----------------------------------------------------------------------------
(* The event stream: the numbering.                                        *)

Subscriptions ==
    [at : {"away", "refused", "admitted", "streaming"}, rest : Seq(1 .. MaxEvents),
     pos : 0 .. MaxEvents + 1, wrote : [is : {"none", "event", "lost"}, n : Nat]]

StreamTyped ==
    /\ nextSeq \in 1 .. MaxEvents + 1
    /\ backlog \in Seq(1 .. MaxEvents) /\ Len(backlog) <= Backlog
    /\ subs \in [Subscribers -> Subscriptions]
    /\ heard \in [Subscribers -> Nat]

\* The events of s are the ones up to the one before n, without a gap.
UpTo(s, n) == Len(s) < n /\ \A i \in 1 .. Len(s) : s[i] = n - Len(s) + i - 1

\* A client that is served has the rest of the session so far, which ends where
\* the receiver begins, and has heard of everything before that rest; the
\* others have been sent nothing.
Follows(s, h) ==
    /\ s.pos <= nextSeq
    /\ s.at # "streaming" => s.wrote.is = "none"
    /\ s.at = "streaming" =>
          /\ s.pos >= 1 /\ UpTo(s.rest, s.pos)
          /\ h = s.pos - 1 - Len(s.rest)
          /\ s.wrote.is = "event" => s.wrote.n = h

\* The backlog ends with the last event published.
SInv ==
    /\ StreamTyped
    /\ UpTo(backlog, nextSeq)
    /\ \A c \in Subscribers : Follows(subs[c], heard[c])

\* Taking the first event leaves the others without a gap, and an event after
\* the last leaves none.
LEMMA UpToTail ==
    ASSUME NEW s \in Seq(1 .. MaxEvents), s # <<>>, NEW n \in Nat, UpTo(s, n)
    PROVE  /\ Tail(s) \in Seq(1 .. MaxEvents) /\ Len(Tail(s)) = Len(s) - 1
           /\ Head(s) = n - Len(s) /\ Head(s) \in 1 .. MaxEvents /\ UpTo(Tail(s), n)
<1>1. Len(s) \in Nat /\ Len(s) >= 1 /\ s[1] \in 1 .. MaxEvents /\ Head(s) = s[1]
  <2>1. Len(s) \in Nat /\ Len(s) # 0
    OBVIOUS
  <2>2. 1 \in 1 .. Len(s)
    BY <2>1
  <2>3. Head(s) = s[1]
    BY <2>1
  <2>4. s[1] \in 1 .. MaxEvents
    BY <2>2, ElementOfSeq
  <2> QED BY <2>1, <2>3, <2>4
<1>2. /\ Tail(s) \in Seq(1 .. MaxEvents) /\ Len(Tail(s)) = Len(s) - 1
      /\ \A i \in 1 .. Len(s) - 1 : Tail(s)[i] = s[i + 1]
  OBVIOUS
<1>3. Head(s) = n - Len(s)
  BY <1>1 DEF UpTo
<1>4. ASSUME NEW i \in 1 .. Len(Tail(s)) PROVE Tail(s)[i] = n - Len(Tail(s)) + i - 1
  <2>1. i + 1 \in 1 .. Len(s) /\ Tail(s)[i] = s[i + 1]
    BY <1>1, <1>2
  <2>2. s[i + 1] = n - Len(s) + (i + 1) - 1
    BY <2>1 DEF UpTo
  <2> QED BY <1>1, <1>2, <2>1, <2>2
<1>5. Len(Tail(s)) < n
  BY <1>1, <1>2 DEF UpTo
<1> QED BY <1>1, <1>2, <1>3, <1>4, <1>5 DEF UpTo

LEMMA UpToAppend ==
    ASSUME NEW s \in Seq(1 .. MaxEvents), NEW n \in 1 .. MaxEvents, MaxEvents \in Nat, UpTo(s, n)
    PROVE  /\ Append(s, n) \in Seq(1 .. MaxEvents) /\ Len(Append(s, n)) = Len(s) + 1
           /\ UpTo(Append(s, n), n + 1)
<1>1. /\ Append(s, n) \in Seq(1 .. MaxEvents) /\ Len(Append(s, n)) = Len(s) + 1
      /\ Len(s) \in Nat /\ n \in Nat
  OBVIOUS
<1>2. ASSUME NEW i \in 1 .. Len(s) + 1 PROVE Append(s, n)[i] = (n + 1) - (Len(s) + 1) + i - 1
  <2>1. CASE i = Len(s) + 1
    BY <1>1, <2>1
  <2>2. CASE i # Len(s) + 1
    <3>1. i \in 1 .. Len(s) /\ Append(s, n)[i] = s[i]
      BY <1>1, <2>2
    <3>2. s[i] = n - Len(s) + i - 1
      BY <3>1 DEF UpTo
    <3> QED BY <1>1, <3>1, <3>2
  <2> QED BY <2>1, <2>2
<1>3. Len(s) + 1 < n + 1
  BY <1>1 DEF UpTo
<1> QED BY <1>1, <1>2, <1>3 DEF UpTo

LEMMA StreamInitInv == StreamInit => SInv
<1> SUFFICES ASSUME StreamInit PROVE SInv
  OBVIOUS
<1>1. Gone \in Subscriptions
  BY StreamAssumption DEF Gone, Subscriptions, NoFrame
<1>2. Follows(Gone, 0)
  BY DEF StreamInit, Follows, Gone, NoFrame
<1> HIDE DEF Gone
<1> QED BY <1>1, <1>2, StreamAssumption DEF StreamInit, SInv, StreamTyped, UpTo

\* publish and begin_session, under the lock of the bus.
LEMMA PublishKeepsSInv == ASSUME SInv, Publish PROVE SInv'
<1> USE StreamAssumption
<1> DEFINE kept == IF Len(backlog) = Backlog THEN Tail(backlog) ELSE backlog
<1>1. /\ backlog \in Seq(1 .. MaxEvents) /\ Len(backlog) \in Nat /\ Len(backlog) <= Backlog
      /\ nextSeq \in Nat /\ nextSeq >= 1 /\ nextSeq <= MaxEvents /\ nextSeq' = nextSeq + 1
      /\ backlog' = Append(kept, nextSeq)
  BY DEF Publish, SInv, StreamTyped
<1>2. kept \in Seq(1 .. MaxEvents) /\ Len(kept) < Backlog /\ UpTo(kept, nextSeq)
  <2>1. CASE Len(backlog) = Backlog
    BY <1>1, <2>1, UpToTail DEF SInv
  <2>2. CASE Len(backlog) # Backlog
    BY <1>1, <2>2 DEF SInv
  <2> QED BY <2>1, <2>2
<1> HIDE DEF kept
<1>3. /\ backlog' \in Seq(1 .. MaxEvents) /\ Len(backlog') = Len(kept) + 1
      /\ UpTo(backlog', nextSeq')
  BY <1>1, <1>2, UpToAppend
<1>4. StreamTyped'
  BY <1>1, <1>2, <1>3 DEF SInv, StreamTyped, Publish
<1>5. ASSUME NEW c \in Subscribers PROVE Follows(subs[c], heard[c])'
  <2>1. subs' = subs /\ heard' = heard /\ subs[c].pos \in Nat /\ subs[c].pos <= nextSeq
    BY DEF Publish, SInv, StreamTyped, Subscriptions, Follows
  <2> QED BY <1>1, <2>1 DEF SInv, Follows
<1> QED BY <1>3, <1>4, <1>5 DEF SInv

LEMMA BeginKeepsSInv == ASSUME SInv, BeginSession PROVE SInv'
<1> USE StreamAssumption
<1>1. backlog' \in Seq(1 .. MaxEvents) /\ Len(backlog') = 0 /\ UpTo(backlog', nextSeq')
  BY DEF BeginSession, SInv, StreamTyped, UpTo
<1> QED BY <1>1 DEF BeginSession, SInv, StreamTyped, Follows

\* A step of one client's subscription leaves every other one as it was.
LEMMA OneSubscription ==
    ASSUME SInv, NEW c \in Subscribers, NEW s \in Subscriptions, NEW h \in Nat,
           subs' = [subs EXCEPT ![c] = s], heard' = [heard EXCEPT ![c] = h],
           UNCHANGED <<nextSeq, backlog>>,
           Follows(s, h)
    PROVE  SInv'
<1>1. StreamTyped' /\ UpTo(backlog, nextSeq)'
  BY DEF SInv, StreamTyped
<1>2. ASSUME NEW d \in Subscribers PROVE Follows(subs[d], heard[d])'
  <2>1. CASE d = c
    <3>1. subs'[d] = s /\ heard'[d] = h
      BY <2>1 DEF SInv, StreamTyped
    <3> QED BY <3>1 DEF Follows
  <2>2. CASE d # c
    <3>1. subs'[d] = subs[d] /\ heard'[d] = heard[d]
      BY <2>2 DEF SInv, StreamTyped
    <3> QED BY <3>1 DEF Follows, SInv
  <2> QED BY <2>1, <2>2
<1> QED BY <1>1, <1>2 DEF SInv

LEMMA AskKeepsSInv == ASSUME SInv, NEW c \in Subscribers, AskForSlot(c) PROVE SInv'
<1> DEFINE s == [subs[c] EXCEPT !.at = IF slots >= MaxSubscribers THEN "refused" ELSE "admitted"]
<1>1. subs[c] \in Subscriptions /\ subs[c].pos <= nextSeq /\ subs[c].wrote.is = "none"
  BY DEF SInv, StreamTyped, AskForSlot, Follows
<1>2. s \in Subscriptions /\ Follows(s, heard[c])
  BY <1>1 DEF Subscriptions, Follows
<1>3. subs' = [subs EXCEPT ![c] = s] /\ heard' = [heard EXCEPT ![c] = heard[c]]
  BY DEF AskForSlot, SInv, StreamTyped
<1>4. heard[c] \in Nat
  BY DEF SInv, StreamTyped
<1> HIDE DEF s
<1> QED BY <1>2, <1>3, <1>4, OneSubscription DEF AskForSlot

\* The receiver and the backlog are taken under one lock: there is no event
\* between the end of the backlog and the receiver.
LEMMA TakeKeepsSInv == ASSUME SInv, NEW c \in Subscribers, TakeBacklog(c) PROVE SInv'
<1> USE StreamAssumption
<1> DEFINE s == [at |-> "streaming", rest |-> backlog, pos |-> nextSeq, wrote |-> NoFrame]
           h == (IF backlog = <<>> THEN nextSeq ELSE Head(backlog)) - 1
<1>1. /\ nextSeq \in 1 .. MaxEvents + 1 /\ backlog \in Seq(1 .. MaxEvents)
      /\ UpTo(backlog, nextSeq) /\ Len(backlog) \in Nat
  BY DEF SInv, StreamTyped
<1>2. h = nextSeq - 1 - Len(backlog)
  <2>1. CASE backlog = <<>>
    BY <1>1, <2>1
  <2>2. CASE backlog # <<>>
    BY <1>1, <2>2, UpToTail
  <2> QED BY <2>1, <2>2
<1>3. h \in Nat
  BY <1>1, <1>2 DEF UpTo
<1>4. s \in Subscriptions /\ Follows(s, h)
  <2> HIDE DEF h
  <2> QED BY <1>1, <1>2 DEF Subscriptions, NoFrame, Follows
<1>5. subs' = [subs EXCEPT ![c] = s] /\ heard' = [heard EXCEPT ![c] = h]
  BY DEF TakeBacklog
<1> HIDE DEF h, s
<1> QED BY <1>3, <1>4, <1>5, OneSubscription DEF TakeBacklog

LEMMA BacklogKeepsSInv == ASSUME SInv, NEW c \in Subscribers, SendBacklog(c) PROVE SInv'
<1> DEFINE old == subs[c]
           s == [old EXCEPT !.rest = Tail(@), !.wrote = [is |-> "event", n |-> Head(old.rest)]]
<1>1. /\ old \in Subscriptions /\ old.pos >= 1 /\ old.pos <= nextSeq /\ nextSeq \in Nat
      /\ UpTo(old.rest, old.pos) /\ heard[c] = old.pos - 1 - Len(old.rest)
      /\ old.at = "streaming" /\ old.rest # <<>> /\ heard[c] \in Nat
  BY DEF SInv, StreamTyped, Follows, SendBacklog
<1>2. old.rest \in Seq(1 .. MaxEvents) /\ Len(old.rest) \in Nat /\ old.pos \in Nat
  BY <1>1 DEF Subscriptions
<1>3. /\ Tail(old.rest) \in Seq(1 .. MaxEvents) /\ Len(Tail(old.rest)) = Len(old.rest) - 1
      /\ Head(old.rest) = old.pos - Len(old.rest) /\ Head(old.rest) \in 1 .. MaxEvents
      /\ UpTo(Tail(old.rest), old.pos)
  <2> HIDE DEF old
  <2> QED BY <1>1, <1>2, UpToTail
<1>4. /\ s \in Subscriptions /\ s.at = "streaming" /\ s.pos = old.pos
      /\ s.rest = Tail(old.rest) /\ s.wrote.n = Head(old.rest)
  <2>1. [is |-> "event", n |-> Head(old.rest)] \in [is : {"none", "event", "lost"}, n : Nat]
    BY <1>3
  <2> HIDE DEF old
  <2> QED BY <1>1, <1>3, <2>1 DEF Subscriptions
<1>5. Follows(s, heard[c] + 1)
  <2> HIDE DEF s, old
  <2> QED BY <1>1, <1>2, <1>3, <1>4 DEF Follows
<1>6. subs' = [subs EXCEPT ![c] = s] /\ heard' = [heard EXCEPT ![c] = heard[c] + 1]
  BY DEF SendBacklog, SInv, StreamTyped
<1>7. heard[c] + 1 \in Nat
  BY <1>1
<1> HIDE DEF s
<1> QED BY <1>4, <1>5, <1>6, <1>7, OneSubscription DEF SendBacklog

LEMMA LiveKeepsSInv == ASSUME SInv, NEW c \in Subscribers, SendLive(c) PROVE SInv'
<1> USE StreamAssumption
<1> DEFINE old == subs[c]
           s == [old EXCEPT !.pos = @ + 1, !.wrote = [is |-> "event", n |-> old.pos]]
<1>1. /\ old \in Subscriptions /\ old.pos >= 1 /\ nextSeq \in 1 .. MaxEvents + 1
      /\ heard[c] = old.pos - 1 - Len(old.rest)
      /\ old.at = "streaming" /\ old.rest = <<>> /\ heard[c] \in Nat /\ old.pos \in Nat
  BY DEF SInv, StreamTyped, Follows, SendLive, Subscriptions
<1>2. old.pos < nextSeq
  BY <1>1 DEF SendLive, Oldest
<1>3. /\ s \in Subscriptions /\ s.at = "streaming" /\ s.pos = old.pos + 1
      /\ s.rest = <<>> /\ s.wrote.n = old.pos
  <2>1. [is |-> "event", n |-> old.pos] \in [is : {"none", "event", "lost"}, n : Nat]
    BY <1>1
  <2>2. old.pos + 1 \in 0 .. MaxEvents + 1
    BY <1>1, <1>2
  <2> HIDE DEF old
  <2> QED BY <1>1, <2>1, <2>2 DEF Subscriptions
<1>4. Follows(s, heard[c] + 1) /\ heard[c] + 1 \in Nat
  <2> HIDE DEF s, old
  <2> QED BY <1>1, <1>2, <1>3 DEF UpTo, Follows
<1>5. subs' = [subs EXCEPT ![c] = s] /\ heard' = [heard EXCEPT ![c] = heard[c] + 1]
  BY DEF SendLive, SInv, StreamTyped
<1> HIDE DEF s
<1> QED BY <1>3, <1>4, <1>5, OneSubscription DEF SendLive

\* A receiver that has fallen behind is moved on by as many as the client is
\* told it has missed (RecvError::Lagged).
LEMMA LostKeepsSInv == ASSUME SInv, NEW c \in Subscribers, SendLost(c) PROVE SInv'
<1> USE StreamAssumption
<1> DEFINE old == subs[c]
           missed == Oldest - old.pos
           s == [old EXCEPT !.pos = Oldest, !.wrote = [is |-> "lost", n |-> missed]]
<1>1. /\ old \in Subscriptions /\ old.pos >= 1 /\ nextSeq \in 1 .. MaxEvents + 1
      /\ heard[c] = old.pos - 1 - Len(old.rest)
      /\ old.at = "streaming" /\ old.rest = <<>> /\ heard[c] \in Nat /\ old.pos \in Nat
      /\ old.pos < Oldest
  BY DEF SInv, StreamTyped, Follows, SendLost, Subscriptions
<1>2. Oldest \in Nat /\ Oldest <= nextSeq /\ missed \in Nat
  BY <1>1 DEF Oldest
<1>3. /\ s \in Subscriptions /\ s.at = "streaming" /\ s.pos = Oldest
      /\ s.rest = <<>> /\ s.wrote.is = "lost"
  <2>1. [is |-> "lost", n |-> missed] \in [is : {"none", "event", "lost"}, n : Nat]
    BY <1>2
  <2>2. Oldest \in 0 .. MaxEvents + 1
    BY <1>1, <1>2
  <2> HIDE DEF old, missed
  <2> QED BY <1>1, <2>1, <2>2 DEF Subscriptions
<1>4. Follows(s, heard[c] + missed) /\ heard[c] + missed \in Nat
  <2> HIDE DEF s, old
  <2> QED BY <1>1, <1>2, <1>3 DEF UpTo, Follows
<1>5. subs' = [subs EXCEPT ![c] = s] /\ heard' = [heard EXCEPT ![c] = heard[c] + missed]
  BY DEF SendLost, SInv, StreamTyped
<1> HIDE DEF s, missed
<1> QED BY <1>3, <1>4, <1>5, OneSubscription DEF SendLost

LEMMA EndKeepsSInv == ASSUME SInv, NEW c \in Subscribers, Unsubscribe(c) PROVE SInv'
<1>1. Gone \in Subscriptions /\ Follows(Gone, heard[c])
  BY StreamAssumption DEF Gone, Subscriptions, NoFrame, Follows, SInv, StreamTyped
<1>2. subs' = [subs EXCEPT ![c] = Gone] /\ heard' = [heard EXCEPT ![c] = heard[c]]
  BY DEF Unsubscribe, SInv, StreamTyped
<1>3. heard[c] \in Nat
  BY StreamAssumption DEF SInv, StreamTyped
<1> HIDE DEF Gone
<1> QED BY <1>1, <1>2, <1>3, OneSubscription DEF Unsubscribe

LEMMA SNext == SInv /\ [StreamNext]_streamVars => SInv'
<1> SUFFICES ASSUME SInv, [StreamNext]_streamVars PROVE SInv'
  OBVIOUS
<1>1. CASE UNCHANGED streamVars
  BY <1>1 DEF streamVars, SInv, StreamTyped, Follows
<1> QED BY <1>1, PublishKeepsSInv, BeginKeepsSInv, AskKeepsSInv, TakeKeepsSInv,
           BacklogKeepsSInv, LiveKeepsSInv, LostKeepsSInv, EndKeepsSInv DEF StreamNext

\* EventBus::publish and stream_events: each event a client is sent is the one
\* after the last it got or was told it has missed, for any number of clients
\* and any capacity, whatever is published and whichever session begins while it
\* subscribes or falls behind.
THEOREM StreamSafety == StreamSpec => []GapsAreTold
<1>1. SInv => GapsAreTold
  BY DEF SInv, GapsAreTold, Follows
<1> QED BY <1>1, StreamInitInv, SNext, PTL DEF StreamSpec

-----------------------------------------------------------------------------
(* The event stream: the slots.                                            *)

\* The clients that have counted themselves, and those that may be served.
Counted == {c \in Subscribers : subs[c].at # "away"}
Admitted == {c \in Subscribers : subs[c].at \in {"admitted", "streaming"}}

\* The limit is kept although a client counts itself before it is refused.
SlotInv ==
    /\ slots = Cardinality(Counted)
    /\ Cardinality(Admitted) <= MaxSubscribers

LEMMA CountsAreFinite ==
    /\ IsFiniteSet(Counted) /\ IsFiniteSet(Admitted)
    /\ Cardinality(Counted) \in Nat /\ Cardinality(Admitted) \in Nat
    /\ Cardinality(Admitted) <= Cardinality(Counted)
<1>1. Counted \in SUBSET Subscribers /\ Admitted \in SUBSET Counted
  BY DEF Counted, Admitted
<1>2. IsFiniteSet(Counted)
  BY <1>1, FS_Subset, StreamAssumption
<1>3. IsFiniteSet(Admitted) /\ Cardinality(Admitted) <= Cardinality(Counted)
  BY <1>1, <1>2, FS_Subset
<1> QED BY <1>2, <1>3, FS_CardinalityType

LEMMA SlotsKept ==
    ASSUME SInv, SlotInv, [StreamNext]_streamVars
    PROVE  SlotInv'
<1> USE CountsAreFinite DEF SlotInv
<1>1. CASE UNCHANGED <<slots, subs>>
  BY <1>1 DEF Counted, Admitted
<1>2. ASSUME NEW c \in Subscribers, AskForSlot(c) PROVE SlotInv'
  <2>1. subs \in [Subscribers -> Subscriptions]
    BY DEF SInv, StreamTyped
  <2>2. c \notin Counted /\ Counted' = Counted \cup {c} /\ c \notin Admitted
    BY <1>2, <2>1 DEF AskForSlot, Counted, Admitted, Subscriptions
  <2>3. slots' = Cardinality(Counted')
    BY <1>2, <2>2, FS_AddElement DEF AskForSlot
  <2>4. CASE slots >= MaxSubscribers
    <3>1. Admitted' = Admitted
      BY <1>2, <2>1, <2>2, <2>4 DEF AskForSlot, Admitted, Subscriptions
    <3> QED BY <2>3, <3>1
  <2>5. CASE ~(slots >= MaxSubscribers)
    <3>1. Admitted' = Admitted \cup {c}
      BY <1>2, <2>1, <2>2, <2>5 DEF AskForSlot, Admitted, Subscriptions
    <3>2. Cardinality(Admitted') = Cardinality(Admitted) + 1
      BY <2>2, <3>1, FS_AddElement
    <3> QED BY <2>3, <2>5, <3>2, StreamAssumption
  <2> QED BY <2>4, <2>5
<1>3. ASSUME NEW c \in Subscribers, TakeBacklog(c) \/ SendBacklog(c) \/ SendLive(c) \/ SendLost(c)
      PROVE  SlotInv'
  <2>1. subs \in [Subscribers -> Subscriptions]
    BY DEF SInv, StreamTyped
  <2>2. subs[c].at \in {"admitted", "streaming"} /\ slots' = slots
    BY <1>3 DEF TakeBacklog, SendBacklog, SendLive, SendLost
  <2>3. subs'[c].at = "streaming"
    BY <1>3, <2>1 DEF TakeBacklog, SendBacklog, SendLive, SendLost, Subscriptions
  <2>4. \A d \in Subscribers \ {c} : subs'[d] = subs[d]
    BY <1>3, <2>1 DEF TakeBacklog, SendBacklog, SendLive, SendLost
  <2>5. Counted' = Counted /\ Admitted' = Admitted
    BY <2>2, <2>3, <2>4 DEF Counted, Admitted
  <2> QED BY <2>2, <2>5
<1>4. ASSUME NEW c \in Subscribers, Unsubscribe(c) PROVE SlotInv'
  <2>1. subs \in [Subscribers -> Subscriptions]
    BY DEF SInv, StreamTyped
  <2>2. c \in Counted /\ Counted' = Counted \ {c} /\ Admitted' \in SUBSET Admitted
    BY <1>4, <2>1 DEF Unsubscribe, Counted, Admitted, Subscriptions, Gone
  <2>3. slots' = Cardinality(Counted')
    BY <1>4, <2>2, FS_RemoveElement DEF Unsubscribe
  <2>4. Cardinality(Admitted') <= Cardinality(Admitted) /\ Cardinality(Admitted') \in Nat
    BY <2>2, FS_Subset, FS_CardinalityType
  <2> QED BY <2>3, <2>4, StreamAssumption
<1> QED BY <1>1, <1>2, <1>3, <1>4 DEF StreamNext, Publish, BeginSession, streamVars

LEMMA SlotsBegin == StreamInit => SlotInv
<1> SUFFICES ASSUME StreamInit PROVE SlotInv
  OBVIOUS
<1>1. Counted = {} /\ Admitted = {}
  BY DEF StreamInit, Counted, Admitted, Gone
<1> QED BY <1>1, FS_EmptySet, StreamAssumption DEF StreamInit, SlotInv

LEMMA SlotTypes == SInv /\ SlotInv => StreamTypeOK
<1> SUFFICES ASSUME SInv, SlotInv PROVE StreamTypeOK
  OBVIOUS
<1> DEFINE Streaming == {c \in Subscribers : subs[c].at = "streaming"}
<1>1. Streaming \in SUBSET Admitted
  BY DEF Admitted
<1>2. Cardinality(Streaming) <= MaxSubscribers
  <2>1. Cardinality(Streaming) <= Cardinality(Admitted) /\ Cardinality(Streaming) \in Nat
    BY <1>1, CountsAreFinite, FS_Subset, FS_CardinalityType
  <2> QED BY <2>1, CountsAreFinite, StreamAssumption DEF SlotInv
<1>3. ASSUME NEW c \in Subscribers
      PROVE  /\ subs[c].at \in {"away", "refused", "admitted", "streaming"}
             /\ subs[c].rest \in Seq(1 .. MaxEvents) /\ subs[c].pos \in 0 .. nextSeq
  <2>1. subs[c] \in Subscriptions /\ subs[c].pos <= nextSeq /\ nextSeq \in Nat
    BY StreamAssumption DEF SInv, StreamTyped, Follows
  <2> QED BY <2>1 DEF Subscriptions
<1> QED BY <1>2, <1>3 DEF StreamTypeOK, SInv, StreamTyped, SlotInv, Counted

\* subscribe and the guard that gives a slot back: the count is that of the
\* clients that have not left, refused ones included, and never more than
\* MAX_SUBSCRIBERS are served, however their arrivals and departures interleave.
THEOREM StreamSlots == StreamSpec => []StreamTypeOK
<1>1. SInv /\ SlotInv /\ [StreamNext]_streamVars => SInv' /\ SlotInv'
  BY SNext, SlotsKept
<1> QED BY <1>1, StreamInitInv, SlotsBegin, SlotTypes, PTL DEF StreamSpec

-----------------------------------------------------------------------------
(* The types of the parts.                                                 *)

\* What the machine remembers of a person's word is always a word, and its waits
\* stay between the first and the longest (intent.rs, keep_trying.rs).
LEMMA ResumeTypes ==
    /\ ResumeInit => ResumeTypeOK
    /\ ResumeTypeOK /\ [ResumeNext]_resumeVars => ResumeTypeOK'
<1>0. /\ First \in Nat /\ First > 0 /\ Cap \in Nat /\ MaxStarts \in Nat /\ 2 * First <= Cap
      /\ First \in First .. Cap /\ First \in 0 .. Cap /\ Cap \in 0 .. Cap /\ 0 \in 0 .. Cap
  BY PaceAssumption
<1>1. ASSUME ResumeInit PROVE ResumeTypeOK
  <2>1. delay \in First .. Cap /\ wait \in 0 .. Cap /\ sinceTry \in 0 .. Cap /\ idleFor \in Nat
        /\ starts \in 0 .. MaxStarts /\ apart \in 0 .. Cap
    BY <1>0, <1>1 DEF ResumeInit
  <2> QED BY <1>1, <2>1, Zenon DEF ResumeInit, ResumeTypeOK, Words
<1>2. ASSUME ResumeTypeOK, [ResumeNext]_resumeVars PROVE ResumeTypeOK'
  <2> USE <1>0, <1>2
  <2>1. CASE UNCHANGED resumeVars
    BY <2>1 DEF resumeVars, intentVars, paceVars, ResumeTypeOK
  <2>2. ASSUME NEW c \in Wishes, PersonConnects(c) PROVE ResumeTypeOK'
    BY <2>2 DEF PersonConnects, paceVars, ResumeTypeOK, Words
  <2>3. CASE Remember
    BY <2>3 DEF Remember, paceVars, ResumeTypeOK, Words
  <2>4. CASE Forget
    BY <2>4 DEF Forget, paceVars, ResumeTypeOK, Words
  <2>5. CASE Disconnect
    BY <2>5 DEF Disconnect, paceVars, ResumeTypeOK, Words
  <2>6. CASE StartService
    <3>1. delay' \in First .. Cap /\ wait' \in 0 .. Cap /\ sinceTry' \in 0 .. Cap /\ idleFor' \in Nat
          /\ starts' \in 0 .. MaxStarts /\ apart' \in 0 .. Cap
      BY <2>6 DEF StartService, ResumeTypeOK
    <3>2. /\ link' \in {"idle", "connecting", "connected", "stopping"} /\ ours' \in Words
          /\ wish' \in Words
      BY <2>6 DEF StartService, ConnectOurselves, ResumeTypeOK, Words
    <3>3. alive' \in BOOLEAN /\ tried' \in BOOLEAN /\ excused' \in BOOLEAN
      BY <2>6, Zenon DEF StartService, ResumeTypeOK
    <3> QED BY <2>6, <3>1, <3>2, <3>3 DEF StartService, ResumeTypeOK
  <2>7. CASE ServiceEnds
    BY <2>7 DEF ServiceEnds, paceVars, ResumeTypeOK, Words
  <2>8. CASE Look
    <3>1. delay' \in First .. Cap /\ wait' \in 0 .. Cap /\ sinceTry' \in 0 .. Cap
      <4>1. CASE AfterAttempt
        BY <4>1 DEF AfterAttempt, ResumeTypeOK
      <4>2. CASE AfterInProgress
        BY <4>2 DEF AfterInProgress, ResumeTypeOK
      <4>3. CASE AfterHealthy /\ UNCHANGED sinceTry
        BY <4>3 DEF AfterHealthy, ResumeTypeOK
      <4> QED BY <2>8, <4>1, <4>2, <4>3 DEF Look
    <3>3. tried' \in BOOLEAN
      BY <2>8, Zenon DEF Look
    <3>2. link' \in {"idle", "connecting", "connected", "stopping"} /\ ours' \in Words
      BY <2>8 DEF Look, ConnectOurselves, ResumeTypeOK, Words
    <3>4. apart' \in 0 .. Cap
      BY <2>8 DEF Look, ResumeTypeOK
    <3> QED BY <2>8, <3>1, <3>2, <3>3, <3>4 DEF Look, ResumeTypeOK
  <2>9. CASE SourceEnds
    BY <2>9 DEF SourceEnds, paceVars, ResumeTypeOK
  <2>10. CASE TimePasses
    BY <2>10 DEF TimePasses, OneLater, intentVars, ResumeTypeOK
  <2>11. CASE LinkMoves
    BY <2>11 DEF LinkMoves, paceVars, ResumeTypeOK
  <2> QED BY <2>1, <2>2, <2>3, <2>4, <2>5, <2>6, <2>7, <2>8, <2>9, <2>10, <2>11
          DEF ResumeNext, TimerFires, NetworkChanges
<1> QED BY <1>1, <1>2

\* The ledger of a server (ledger.rs).
LEMMA JobTypes == JInv => JobTypeOK
BY DEF JInv, JobTyped, FileTyped, JobTypeOK, Cleanings

\* The rules of a person (rule.rs).
LEMMA RuleTypes == RulesInv => RuleTypeOK
<1> SUFFICES ASSUME RulesInv PROVE RuleTypeOK
  OBVIOUS
<1>1. Mine(Personal(rules)) /\ rules = Store(policy, Personal(rules))
  BY DEF RulesInv
<1>2. \A r \in rules : IsRule(r) /\ Valid(r) /\ r.at <= MaxPrecedence
  BY <1>1, StoreRules, Zenon
<1>3. MaxPrecedence \in Nat
  BY PrecedenceBands
<1>4. \A r \in rules : Valid(r) /\ r.at \in 0 .. MaxPrecedence
  BY <1>2, <1>3 DEF IsRule
<1> QED BY <1>1, <1>4 DEF RulesInv, RuleTypeOK, Mine

\* The endpoints of the store, now and once the change under way is taken back.
Bounded ==
    /\ Cardinality(store.endpoints) <= MaxEndpoints /\ Cardinality(saved.endpoints) <= MaxEndpoints
    /\ Adding => Cardinality(rest.before.endpoints) <= MaxEndpoints

LEMMA ConfigTypes ==
    /\ ConfigInit => Bounded
    /\ KInv /\ Bounded /\ [ConfigNext]_configVars => Bounded'
    /\ KInv /\ Bounded => ConfigTypeOK
<1>0. MaxEndpoints \in Nat /\ MaxIds \in Nat /\ Cardinality({}) = 0
  BY ConfigAssumption, FS_EmptySet
<1>1. ASSUME ConfigInit PROVE Bounded
  BY <1>0, <1>1 DEF ConfigInit, Seeded, Bounded, Adding, NoChange
<1>2. ASSUME NEW S \in SUBSET Ids
      PROVE  /\ IsFiniteSet(S) /\ Cardinality(S) \in Nat
             /\ \A e : /\ Cardinality(S \cup {e}) <= Cardinality(S) + 1
                       /\ Cardinality(S \ {e}) <= Cardinality(S)
  <2>1. IsFiniteSet(Ids)
    BY <1>0, FS_Interval DEF Ids
  <2>2. IsFiniteSet(S) /\ Cardinality(S) \in Nat
    BY <2>1, FS_Subset, FS_CardinalityType
  <2>3. ASSUME NEW e PROVE Cardinality(S \cup {e}) <= Cardinality(S) + 1
    <3>1. Cardinality(S \cup {e}) = IF e \in S THEN Cardinality(S) ELSE Cardinality(S) + 1
      BY <2>2, FS_AddElement, Zenon
    <3> QED BY <2>2, <3>1
  <2>4. ASSUME NEW e PROVE Cardinality(S \ {e}) <= Cardinality(S)
    BY <2>2, FS_RemoveElement
  <2> QED BY <2>2, <2>3, <2>4
<1>3. ASSUME KInv, Bounded, [ConfigNext]_configVars PROVE Bounded'
  <2>0. /\ store \in Stores /\ saved \in Stores /\ store.endpoints \in SUBSET Ids
        /\ rest \in {NoChange} \cup
             [does : {"seal", "save", "unseal", "forget"}, id : Ids, before : Stores]
    BY <1>3 DEF KInv, ConfigTyped, Stores
  <2> USE <1>0, <1>3, <2>0
  <2>1. CASE UNCHANGED configVars
    BY <2>1 DEF configVars, Bounded, Adding
  <2>2. CASE AddEndpoint
    <3>1. store'.endpoints = store.endpoints \cup {ids + 1} /\ saved' = saved
          /\ rest'.before = store
      BY <2>2 DEF AddEndpoint, Change, Stores
    <3>2. /\ Cardinality(store.endpoints \cup {ids + 1}) <= Cardinality(store.endpoints) + 1
          /\ Cardinality(store.endpoints) \in Nat
      BY <1>2, Zenon
    <3>3. Cardinality(store.endpoints) < MaxEndpoints
      BY <2>2 DEF AddEndpoint
    <3>4. IsFiniteSet(store.endpoints \cup {ids + 1})
      BY <1>2, FS_AddElement, Zenon
    <3>5. Cardinality(store.endpoints \cup {ids + 1}) <= MaxEndpoints
      BY <3>2, <3>3, <3>4, FS_CardinalityType
    <3> QED BY <3>1, <3>2, <3>3, <3>5 DEF Bounded
  <2>3. CASE Seal \/ SaveAdded \/ Unseal \/ ForgetCredentials
    <3>1. CASE Seal
      BY <3>1 DEF Seal, Bounded, Adding, Change, NoChange
    <3>2. CASE SaveAdded
      BY <3>2 DEF SaveAdded, Bounded, Adding, Change, NoChange
    <3>3. CASE Unseal
      BY <3>3 DEF Unseal, Bounded, Adding, Change, NoChange
    <3>4. CASE ForgetCredentials
      BY <3>4 DEF ForgetCredentials, Bounded, Adding, Change, NoChange
    <3> QED BY <2>3, <3>1, <3>2, <3>3, <3>4
  <2>4. ASSUME NEW e \in Ids, RemoveEndpoint(e) PROVE Bounded'
    <3>1. rest' \in {rest, Change("forget", e, store)} /\ rest = NoChange
      BY <2>4 DEF RemoveEndpoint, SavesAs, MayChange
    <3>2. ~Adding'
      BY <3>1 DEF Adding, Change, NoChange
    <3>3. store'.endpoints \in {store.endpoints, store.endpoints \ {e}}
          /\ saved'.endpoints \in {saved.endpoints, store.endpoints \ {e}}
      BY <2>4 DEF RemoveEndpoint, SavesAs, Stores
    <3>4. Cardinality(store.endpoints \ {e}) <= MaxEndpoints
      <4>1. /\ Cardinality(store.endpoints \ {e}) <= Cardinality(store.endpoints)
            /\ Cardinality(store.endpoints) \in Nat /\ IsFiniteSet(store.endpoints)
        BY <1>2, Zenon
      <4>2. Cardinality(store.endpoints \ {e}) \in Nat
        BY <4>1, FS_RemoveElement, FS_CardinalityType
      <4> QED BY <4>1, <4>2 DEF Bounded
    <3> QED BY <3>2, <3>3, <3>4 DEF Bounded
  <2>5. ASSUME NEW s \in Settings, ChangeSetting(s) PROVE Bounded'
    <3>1. rest' = NoChange
      BY <2>5 DEF ChangeSetting, SavesAs, MayChange
    <3>2. ~Adding'
      BY <3>1 DEF Adding, NoChange
    <3>3. store'.endpoints = store.endpoints /\ saved'.endpoints \in {saved.endpoints, store.endpoints}
      BY <2>5 DEF ChangeSetting, SavesAs, Stores
    <3> QED BY <3>2, <3>3 DEF Bounded
  <2>6. CASE LoadConfig \/ ConfigServiceDies
    BY <2>6 DEF LoadConfig, ConfigServiceDies, Bounded, Adding, NoChange, Seeded
  <2> QED BY <2>1, <2>2, <2>3, <2>4, <2>5, <2>6 DEF ConfigNext
<1>4. ASSUME KInv, Bounded PROVE ConfigTypeOK
  BY <1>0, <1>4 DEF KInv, ConfigTyped, Bounded, ConfigTypeOK, Given, Ids
<1> QED BY <1>1, <1>3, <1>4
\* What a look has the reporter say.
Sayings ==
    {Silence} \cup [is : {"degraded"}, of : Degradations] \cup [is : {"recovered"}, path : Carriers]

\* degraded.rs: a report names a path that may carry the connection.
LEMMA ReportTypes ==
    /\ ReportInit => lastWord \in Sayings
    /\ TInv /\ lastWord \in Sayings /\ [ReportNext]_reportVars => lastWord' \in Sayings
    /\ TInv /\ lastWord \in Sayings => ReportTypeOK
<1>1. ReportInit => lastWord \in Sayings
  BY DEF ReportInit, Sayings
<1>2. ASSUME NEW look \in Looks, LookAgain(look) PROVE lastWord' \in Sayings
  <2> DEFINE r == Clocks(Aged(reporter), look)
             news == [path |-> look.carrying, band |-> look.band, staying |-> look.staying]
  <2>1. lastWord' = Observed(r, look)[2]
    BY <1>2, Zenon DEF LookAgain
  <2> HIDE DEF r
  <2>2. \/ look.carrying = Nobody /\ look.band = "unmeasured"
        \/ look.carrying \in Carriers /\ look.carrying # Nobody /\ look.band \in Bands \cup {"unmeasured"}
    BY ReportAssumption DEF Looks
  <2>3. look.staying \in Reasons
    BY DEF Looks
  <2>4. look.carrying \in Carriers /\ look.band \in {"poor", "unusable"} => news \in Degradations
    BY <2>3 DEF Degradations
  <2>5. CASE look.carrying = Nobody
    <3>1. lastWord' = Silence
      BY <2>1, <2>2, <2>5 DEF Observed
    <3> QED BY <3>1 DEF Sayings
  <2>6. CASE look.carrying # Nobody /\ look.band = "unmeasured"
    <3>1. lastWord' = Silence
      BY <2>1, <2>6 DEF Observed
    <3> QED BY <3>1 DEF Sayings
  <2>7. CASE look.carrying # Nobody /\ look.band = "good"
    <3>1. lastWord' \in {Silence, [is |-> "recovered", path |-> look.carrying]}
      BY <2>1, <2>7 DEF Observed
    <3> QED BY <2>2, <2>7, <3>1 DEF Sayings
  <2>8. CASE look.carrying # Nobody /\ look.band \in {"poor", "unusable"}
    <3>1. lastWord' \in {Silence, [is |-> "degraded", of |-> news]}
      BY <2>1, <2>8 DEF Observed
    <3> HIDE DEF news
    <3>2. news \in Degradations
      BY <2>2, <2>4, <2>8
    <3> QED BY <3>1, <3>2 DEF Sayings
  <2> QED BY <2>2, <2>5, <2>6, <2>7, <2>8 DEF Bands
<1>3. TInv /\ lastWord \in Sayings /\ [ReportNext]_reportVars => lastWord' \in Sayings
  BY <1>2 DEF ReportNext, reportVars
<1>4. TInv /\ lastWord \in Sayings => ReportTypeOK
  BY DEF TInv, Reporters, Sayings, ReportTypeOK
<1> QED BY <1>1, <1>3, <1>4
\* A profile's entry is no younger than the race; one news is given at most;
\* and a file is only kept for a probe.
RaceKept ==
    /\ \A p \in Profiles : board[p].at <= elapsed
    /\ decision \in Profiles \cup {NoProfile, "pending"}
    /\ Len(given) <= 1 /\ undeleted \subseteq Probes

LEMMA RaceTypes ==
    /\ RaceInit => RaceKept
    /\ VInv /\ RaceKept /\ [RaceNext]_raceVars => RaceKept'
    /\ VInv /\ RaceKept => RaceTypeOK
<1>1. ASSUME RaceInit PROVE RaceKept
  BY <1>1 DEF RaceInit, RaceKept, Unraced
<1>2. ASSUME VInv, RaceKept, [RaceNext]_raceVars PROVE RaceKept'
  <2>0. /\ elapsed \in Nat /\ board \in [Profiles -> [is : Marks, at : Nat]]
        /\ configs \subseteq Probes /\ asked \subseteq Profiles
        /\ \A m \in queue : m.at = elapsed
    BY <1>2 DEF VInv, LInv, StagesTyped, Promising, RaceTyped, Heard
  <2>1. ASSUME FutureEnds, undeleted' = undeleted,
               given' = given \/ \E x : given' = <<x>>
        PROVE  RaceKept'
    <3>1. \A p \in Profiles : board'[p].at <= elapsed'
      BY <2>1 DEF FutureEnds, Unraced
    <3>2. Len(given') <= 1
      <4>1. CASE given' = given
        BY <1>2, <4>1 DEF RaceKept
      <4>2. ASSUME NEW x, given' = <<x>> PROVE Len(given') <= 1
        BY <4>2
      <4> QED BY <2>1, <4>1, <4>2
    <3> QED BY <1>2, <2>1, <3>1, <3>2 DEF FutureEnds, RaceKept
  <2>2. CASE UNCHANGED raceVars
    BY <1>2, <2>2 DEF raceVars, loopVars, probeVars, RaceKept
  <2>3. ASSUME NEW ps \in SUBSET Profiles, AskRace(ps) PROVE RaceKept'
    BY <1>2, <2>3 DEF AskRace, probeVars, RaceKept
  <2>4. CASE RefuseRace \/ RaceReturns \/ CallOffRace \/ RaceServiceDies
    BY <2>1, <2>4 DEF RefuseRace, RaceReturns, CallOffRace, RaceServiceDies, probeVars
  <2>5. CASE BeginRace
    <3>1. elapsed' = elapsed /\ \A p \in Profiles : board'[p].at = 0
      BY <2>5 DEF BeginRace, Unraced
    <3>2. UNCHANGED <<decision, given, undeleted>>
      BY <2>5 DEF BeginRace
    <3> QED BY <1>2, <2>0, <3>1, <3>2 DEF RaceKept
  <2>6. CASE RaceTurn
    <3>1. elapsed' = elapsed /\ given' = given /\ undeleted' = undeleted
      BY <2>6 DEF RaceTurn, probeVars
    <3>2. ASSUME NEW p \in Profiles PROVE board'[p].at <= elapsed
      <4> DEFINE m == CHOOSE m \in queue : m.profile = p
      <4>1. (\E n \in queue : n.profile = p) => m.at = elapsed
        BY <2>0
      <4>2. \/ board'[p].at = elapsed
            \/ (\E n \in queue : n.profile = p) /\ board'[p].at = m.at
            \/ board'[p] = board[p]
        BY <2>6 DEF RaceTurn
      <4> HIDE DEF m
      <4> QED BY <1>2, <2>0, <4>1, <4>2 DEF RaceKept
    <3>3. \E b : decision' \in DecideOn(b, elapsed)
      BY <2>6 DEF RaceTurn
    <3>4. decision' \in Profiles \cup {NoProfile, "pending"}
      BY <3>3 DEF DecideOn, BestOn, UsableOn
    <3> QED BY <1>2, <3>1, <3>2, <3>4 DEF RaceKept
  <2>7. CASE RaceTime
    <3>1. elapsed' = elapsed + 1 /\ UNCHANGED <<board, decision, given, undeleted>>
      BY <2>7 DEF RaceTime, probeVars
    <3> QED BY <1>2, <2>0, <3>1 DEF RaceKept
  <2>8. CASE SweepStale
    <3>1. UNCHANGED <<elapsed, board, decision, given>> /\ undeleted' \subseteq configs
      BY <2>8 DEF SweepStale, loopVars
    <3> QED BY <1>2, <2>0, <3>1 DEF RaceKept
  <2>9. ASSUME NEW x \in Probes,
               \/ ProbeBegins(x) \/ ProbeCannotBegin(x) \/ CoreReady(x) \/ CoreNotReady(x)
               \/ ProbeFails(x) \/ ProbeReports(x) \/ CoreStopped(x) \/ ProbeDies(x)
        PROVE  RaceKept'
    <3>1. UNCHANGED <<elapsed, board, decision, given>>
      BY <2>9, Zenon DEF ProbeBegins, ProbeCannotBegin, CoreReady, CoreNotReady, ProbeFails, ProbeReports,
               CoreStopped, ProbeDies, Moves, loopVars
    <3>2. undeleted' \in {undeleted, undeleted \cup {x}}
      BY <2>9 DEF ProbeBegins, ProbeCannotBegin, CoreReady, CoreNotReady, ProbeFails, ProbeReports,
               CoreStopped, ProbeDies, Deletes
    <3> QED BY <1>2, <3>1, <3>2 DEF RaceKept
  <2> QED BY <1>2, <2>2, <2>3, <2>4, <2>5, <2>6, <2>7, <2>8, <2>9 DEF RaceNext
<1>3. ASSUME VInv, RaceKept PROVE RaceTypeOK
  <2>0. /\ elapsed \in Nat /\ elapsed <= Deadline /\ Deadline \in Nat
        /\ board \in [Profiles -> [is : Marks, at : Nat]]
    BY <1>3, RaceAssumption DEF VInv, Promising, RaceTyped, Timely
  <2>1. board \in [Profiles -> [is: {"out", "pending", "usable", "unusable"}, at: 0 .. Deadline]]
    <3>1. ASSUME NEW p \in Profiles PROVE board[p] \in [is : Marks, at : 0 .. Deadline]
      <4>1. board[p] \in [is : Marks, at : Nat] /\ board[p].at <= elapsed
        BY <1>3, <2>0 DEF RaceKept
      <4> QED BY <2>0, <4>1
    <3> QED BY <2>0, <3>1 DEF Marks
  <2>2. ASSUME NEW m \in queue PROVE m.profile \in asked /\ m.at = elapsed
    BY <1>3 DEF VInv, Promising, Heard
  <2>3. elapsed \in 0 .. Deadline
    BY <2>0
  <2> QED BY <1>3, <2>1, <2>2, <2>3
          DEF VInv, LInv, StagesTyped, Stages, Promising, RaceTyped, RaceKept, RaceTypeOK
<1> QED BY <1>1, <1>2, <1>3
\* FailoverState, with its clocks at their limits at most.
Machines ==
    [carrying : Paths \cup {NoPath}, since : Ages(MinDwell), below : Ages(DegradeFor),
     bad : Ages(UnusableFor), good : [Paths -> Ages(StableFor)], moves : Seq(0 .. Window)]

WatchKept ==
    /\ \A p \in Paths : known[p].seen \in Seen(p)
    /\ fail \in Machines /\ route \in Gateways /\ rows \subseteq Rows /\ hold \in 0 .. HoldAfter

LEMMA AgesAre ==
    ASSUME NEW most \in Nat
    PROVE  /\ Never \in Ages(most) /\ 0 \in Ages(most)
           /\ \A age \in Ages(most) : From(age) \in Ages(most) /\ Older(age, most) \in Ages(most)
  BY DEF Ages, Never, From, Older

LEMMA LimitsAre ==
    /\ DegradeFor \in Nat /\ UnusableFor \in Nat /\ StableFor \in Nat /\ MinDwell \in Nat
    /\ MaxMoves \in Nat /\ Window \in Nat /\ HoldAfter \in Nat
  BY WatchAssumption

\* retain: what is left of the moves is a tail of them, each a tick older and
\* still inside the window.
LEMMA InWindowType ==
    ASSUME NEW ages \in Seq(0 .. Window)
    PROVE  InWindow(ages) \in Seq(0 .. Window)
<1> DEFINE L == Leaving(ages)
           n == CHOOSE k \in L : \A m \in L : k <= m
<1>1. Len(ages) \in Nat /\ Window \in Nat /\ L \subseteq Nat
  BY LimitsAre DEF Leaving
<1>2. Len(ages) \in L
  <2>1. Len(ages) \in 0 .. Len(ages) /\ \A i \in Len(ages) + 1 .. Len(ages) : FALSE
    BY <1>1
  <2> QED BY <2>1 DEF Leaving
<1> HIDE DEF L
<1>3. PICK k \in L : \A m \in L : k <= m
  BY <1>1, <1>2, LeastOfNats
<1>4. n \in L
  BY <1>3
<1> HIDE DEF n
<1>5. n \in 0 .. Len(ages) /\ \A i \in n + 1 .. Len(ages) : ages[i] + 1 < Window
  BY <1>4 DEF L, Leaving
<1>6. InWindow(ages) = [i \in 1 .. Len(ages) - n |-> ages[n + i] + 1]
  BY DEF InWindow, L, n
<1>7. ASSUME NEW i \in 1 .. Len(ages) - n PROVE ages[n + i] + 1 \in 0 .. Window
  <2>1. n + i \in n + 1 .. Len(ages) /\ n + i \in 1 .. Len(ages)
    BY <1>1, <1>5
  <2>2. ages[n + i] \in 0 .. Window
    BY <2>1, ElementOfSeq
  <2>3. ages[n + i] + 1 < Window
    BY <1>5, <2>1
  <2> QED BY <1>1, <2>2, <2>3
<1>8. Len(ages) - n \in Nat
  BY <1>1, <1>5
<1>9. InWindow(ages) \in [1 .. Len(ages) - n -> 0 .. Window]
  BY <1>6, <1>7
<1> QED BY <1>8, <1>9, SeqDef

\* What a decision makes of the machine keeps its clocks (failover.rs).
LEMMA MachineSteps ==
    ASSUME NEW f \in Machines
    PROVE  /\ GoodClocks(f) \in Machines /\ GoodClocks(f).carrying = f.carrying
           /\ \A p \in Paths : BadClocks(f, p) \in Machines
           /\ \A to \in Paths, counts \in BOOLEAN : MovedTo(f, to, counts) \in Machines
           /\ \A p \in Paths \cup {NoPath} : CarryingOn(p) \in Machines /\ PutBack(f, p) \in Machines
<1> USE LimitsAre
<1>0. /\ f.since \in Ages(MinDwell) /\ f.below \in Ages(DegradeFor) /\ f.bad \in Ages(UnusableFor)
      /\ f.good \in [Paths -> Ages(StableFor)] /\ f.moves \in Seq(0 .. Window)
      /\ f.carrying \in Paths \cup {NoPath}
  BY DEF Machines
<1>1. /\ \A age \in Ages(StableFor) : From(age) \in Ages(StableFor)
      /\ Never \in Ages(StableFor)
      /\ From(f.below) \in Ages(DegradeFor) /\ Never \in Ages(DegradeFor)
      /\ From(f.bad) \in Ages(UnusableFor) /\ Never \in Ages(UnusableFor)
      /\ 0 \in Ages(MinDwell) /\ Never \in Ages(MinDwell)
  BY <1>0, AgesAre
<1>2. GoodClocks(f) \in Machines /\ GoodClocks(f).carrying = f.carrying
  <2> DEFINE g == [p \in Paths |-> IF Usable(p) /\ Band(p) = 2 /\ Measured(p) THEN From(f.good[p]) ELSE Never]
  <2>1. g \in [Paths -> Ages(StableFor)]
    BY <1>0, <1>1
  <2> HIDE DEF g
  <2>2. GoodClocks(f) = [f EXCEPT !.good = g]
    BY DEF GoodClocks, g
  <2> QED BY <2>1, <2>2 DEF Machines
<1>3. ASSUME NEW p \in Paths PROVE BadClocks(f, p) \in Machines
  <2> DEFINE w == IF Band(p) < 2 THEN From(f.below) ELSE Never
             b == IF Band(p) = 0 THEN From(f.bad) ELSE Never
  <2>1. w \in Ages(DegradeFor) /\ b \in Ages(UnusableFor)
    BY <1>1
  <2>2. BadClocks(f, p) = [f EXCEPT !.below = w, !.bad = b]
    BY DEF BadClocks, Machines
  <2> HIDE DEF w, b
  <2> QED BY <2>1, <2>2 DEF Machines
<1>4. WithMove(f.moves) \in Seq(0 .. Window)
  <2>1. Append(f.moves, 0) \in Seq(0 .. Window) /\ Append(f.moves, 0) # <<>>
    <3>1. 0 \in 0 .. Window
      BY LimitsAre
    <3> QED BY <1>0, <3>1
  <2>2. Tail(Append(f.moves, 0)) \in Seq(0 .. Window)
    BY <2>1, HeadTailProperties
  <2> QED BY <2>1, <2>2 DEF WithMove
<1>5. ASSUME NEW to \in Paths, NEW counts \in BOOLEAN PROVE MovedTo(f, to, counts) \in Machines
  <2> DEFINE s == IF counts THEN 0 ELSE f.since
             m == IF counts THEN WithMove(f.moves) ELSE f.moves
  <2>1. s \in Ages(MinDwell) /\ m \in Seq(0 .. Window)
    BY <1>0, <1>1, <1>4
  <2>2. MovedTo(f, to, counts) = [f EXCEPT !.carrying = to, !.below = Never, !.bad = Never,
                                           !.since = s, !.moves = m]
    BY DEF MovedTo, Machines
  <2> HIDE DEF s, m
  <2> QED BY <1>1, <2>1, <2>2 DEF Machines
<1>6. ASSUME NEW p \in Paths \cup {NoPath} PROVE CarryingOn(p) \in Machines
  <2>1. [q \in Paths |-> Never] \in [Paths -> Ages(StableFor)] /\ <<>> \in Seq(0 .. Window)
    BY <1>1
  <2> QED BY <1>1, <2>1 DEF CarryingOn, Machines
<1>7. \A p \in Paths \cup {NoPath} : PutBack(f, p) \in Machines
  BY <1>6 DEF PutBack
<1> QED BY <1>2, <1>3, <1>5, <1>6, <1>7

\* A path that can be used has a gateway, and that is one of the gateways.
LEMMA GatewayIsOne ==
    \A p \in Paths : \A what \in Seen(p) : what.status = "up" => what.gateway \in Gateways
  BY DEF Seen, Gateways

LEMMA RewriteTypes ==
    ASSUME route \in Gateways, rows \subseteq Rows, NEW gateway \in Gateways,
           Rewrite(gateway) \/ RewriteFails(gateway)
    PROVE  route' \in Gateways /\ rows' \subseteq Rows
<1>1. RowsVia(route) \subseteq rows
  BY DEF RowsVia
<1>2. CASE Rewrite(gateway)
  BY <1>1, <1>2 DEF Rewrite
<1>3. CASE RewriteFails(gateway)
  BY <1>1, <1>3 DEF RewriteFails
<1> QED BY <1>2, <1>3

LEMMA CarryTypes ==
    ASSUME WatchKept, UNCHANGED known,
           NEW f \in Machines, NEW from \in Paths \cup {NoPath}, NEW to \in Paths, Usable(to),
           Carry(f, from, to)
    PROVE  WatchKept'
<1>1. known[to].seen.gateway \in Gateways
  BY GatewayIsOne DEF Usable, WatchKept
<1>2. PutBack(f, from) \in Machines
  BY MachineSteps
<1>3. HoldAfter \in 0 .. HoldAfter
  BY LimitsAre
<1>4. route' \in Gateways /\ rows' \subseteq Rows
  BY <1>1, RewriteTypes DEF Carry, WatchKept
<1>5. fail' \in Machines /\ hold' \in 0 .. HoldAfter
  BY <1>2, <1>3 DEF Carry, WatchKept
<1> QED BY <1>4, <1>5 DEF WatchKept

LEMMA WatchTypes ==
    /\ WatchInit => WatchKept
    /\ WInv /\ WatchKept /\ [WatchNext]_watchVars => WatchKept'
    /\ WInv /\ WatchKept => WatchTypeOK
<1> USE LimitsAre
<1>1. ASSUME WatchInit PROVE WatchKept
  <2>1. \A p \in Paths : known[p].seen \in Seen(p)
    BY <1>1 DEF WatchInit, Seen
  <2>2. fail \in Machines
    <3>1. [q \in Paths |-> Never] \in [Paths -> Ages(StableFor)] /\ <<>> \in Seq(0 .. Window)
      BY AgesAre
    <3>2. /\ Never \in Ages(MinDwell) /\ Never \in Ages(DegradeFor) /\ Never \in Ages(UnusableFor)
      BY AgesAre
    <3> QED BY <1>1, <3>1, <3>2 DEF WatchInit, CarryingOn, Machines
  <2>3. route \in Gateways /\ rows \subseteq Rows
    BY <1>1 DEF WatchInit, Rows
  <2> QED BY <1>1, <2>1, <2>2, <2>3 DEF WatchInit, WatchKept
<1>2. ASSUME WInv, WatchKept, [WatchNext]_watchVars PROVE WatchKept'
  <2>0. /\ fail \in Machines /\ fail.carrying \in Paths \cup {NoPath}
        /\ known \in [Paths -> [seen : Sightings, level : Levels \cup {Unmeasured}]]
        /\ hold \in 0 .. HoldAfter /\ HoldAfter \in 0 .. HoldAfter
    BY <1>2 DEF WatchKept, WInv, WatchTyped
  <2>1. CASE UNCHANGED watchVars
    BY <1>2, <2>1 DEF watchVars, WatchKept
  <2>2. CASE Decide
    <3> DEFINE f == GoodClocks(fail)
               cur == fail.carrying
               stay == BadClocks(f, cur)
               usable == {p \in Paths : Usable(p)}
    <3>1. f \in Machines /\ cur \in Paths \cup {NoPath} /\ known' = known
      BY <2>0, <2>2, MachineSteps DEF Decide
    <3>2. cur \in usable => stay \in Machines
      BY <3>1, MachineSteps
    <3>3. \/ UNCHANGED <<fail, route, rows, hold>>
          \/ cur \in usable /\ fail' = stay /\ UNCHANGED <<route, rows, hold>>
          \/ /\ fail' = [f EXCEPT !.carrying = NoPath, !.since = Never, !.below = Never, !.bad = Never]
             /\ UNCHANGED <<route, rows, hold>>
          \/ \E to \in BestOf(usable) : Carry(MovedTo(f, to, cur # NoPath), cur, to)
          \/ cur \in usable /\ \E to \in Targets(stay) : Carry(MovedTo(stay, to, TRUE), cur, to)
      BY <2>2 DEF Decide
    <3> HIDE DEF f, cur, stay
    <3>4. CASE UNCHANGED <<fail, route, rows, hold>>
      BY <1>2, <3>1, <3>4 DEF WatchKept
    <3>5. CASE cur \in usable /\ fail' = stay /\ UNCHANGED <<route, rows, hold>>
      BY <1>2, <3>1, <3>2, <3>5 DEF WatchKept
    <3>6. CASE /\ fail' = [f EXCEPT !.carrying = NoPath, !.since = Never, !.below = Never, !.bad = Never]
               /\ UNCHANGED <<route, rows, hold>>
      <4>1. /\ Never \in Ages(MinDwell) /\ Never \in Ages(DegradeFor) /\ Never \in Ages(UnusableFor)
        BY AgesAre
      <4>2. fail' \in Machines
        BY <3>1, <3>6, <4>1 DEF Machines
      <4> QED BY <1>2, <3>1, <3>6, <4>2 DEF WatchKept
    <3>7. ASSUME NEW to \in BestOf(usable), Carry(MovedTo(f, to, cur # NoPath), cur, to)
          PROVE  WatchKept'
      <4>1. to \in Paths /\ Usable(to)
        BY DEF BestOf
      <4>2. (cur # NoPath) \in BOOLEAN
        OBVIOUS
      <4>3. MovedTo(f, to, cur # NoPath) \in Machines
        BY <3>1, <4>1, <4>2, MachineSteps
      <4> QED BY <1>2, <3>1, <3>7, <4>1, <4>3, CarryTypes
    <3>8. ASSUME NEW to \in Targets(stay), cur \in usable, Carry(MovedTo(stay, to, TRUE), cur, to)
          PROVE  WatchKept'
      <4>1. to \in Paths /\ Usable(to)
        BY <3>8, TargetsAreUsable
      <4>2. MovedTo(stay, to, TRUE) \in Machines
        BY <3>2, <3>8, <4>1, MachineSteps
      <4> QED BY <1>2, <3>1, <3>8, <4>1, <4>2, CarryTypes
    <3> QED BY <3>3, <3>4, <3>5, <3>6, <3>7, <3>8
  <2>3. CASE RefreshFails
    BY <1>2, <2>3 DEF RefreshFails, WatchKept
  <2>4. CASE Tick
    <3> DEFINE g == [p \in Paths |-> Older(fail.good[p], StableFor)]
    <3>1. /\ fail.since \in Ages(MinDwell) /\ fail.below \in Ages(DegradeFor) /\ fail.bad \in Ages(UnusableFor)
          /\ fail.good \in [Paths -> Ages(StableFor)] /\ fail.moves \in Seq(0 .. Window)
      BY <2>0 DEF Machines
    <3>2. /\ Older(fail.since, MinDwell) \in Ages(MinDwell)
          /\ Older(fail.below, DegradeFor) \in Ages(DegradeFor)
          /\ Older(fail.bad, UnusableFor) \in Ages(UnusableFor)
          /\ g \in [Paths -> Ages(StableFor)]
          /\ InWindow(fail.moves) \in Seq(0 .. Window)
      BY <3>1, AgesAre, InWindowType
    <3> HIDE DEF g
    <3>3. fail' = [fail EXCEPT !.since = Older(fail.since, MinDwell), !.below = Older(fail.below, DegradeFor),
                               !.bad = Older(fail.bad, UnusableFor), !.good = g,
                               !.moves = InWindow(fail.moves)]
      BY <2>0, <2>4 DEF Tick, g, Machines
    <3>4. fail' \in Machines
      BY <2>0, <3>2, <3>3 DEF Machines
    <3>5. hold' \in 0 .. HoldAfter
      BY <2>0, <2>4 DEF Tick
    <3> QED BY <1>2, <2>4, <3>4, <3>5 DEF Tick, WatchKept
  <2>5. ASSUME NEW net \in Networks, Refresh(net) PROVE WatchKept'
    <3>0. \A p \in Paths : net[p] \in Seen(p)
      BY DEF Networks
    <3>1. \A p \in Paths : known'[p].seen \in Seen(p)
      BY <2>5, <3>0 DEF Refresh, Refreshed
    <3>2. CASE started
      <4>1. fail' = fail /\ FollowGateway(net)
        BY <2>5, <3>2 DEF Refresh
      <4>2. NewGateway(net) => net[fail.carrying].gateway \in Gateways
        BY <2>0, <3>0, GatewayIsOne DEF NewGateway
      <4>3. hold' \in 0 .. HoldAfter
        BY <2>0, <4>1 DEF FollowGateway
      <4>4. route' \in Gateways /\ rows' \subseteq Rows
        BY <1>2, <4>1, <4>2, RewriteTypes DEF FollowGateway, WatchKept
      <4> QED BY <1>2, <3>1, <4>1, <4>3, <4>4 DEF WatchKept
    <3>3. CASE ~started
      <4>1. PICK p \in CarryingNow(net) : fail' = CarryingOn(p)
        BY <2>5, <3>3 DEF Refresh
      <4>2. p \in Paths \cup {NoPath}
        BY DEF CarryingNow
      <4>3. route' = route /\ rows' = rows /\ hold' = hold
        BY <2>5, <3>3 DEF Refresh
      <4>4. fail' \in Machines
        BY <2>0, <4>1, <4>2, MachineSteps
      <4> QED BY <1>2, <3>1, <4>3, <4>4 DEF WatchKept
    <3> QED BY <3>2, <3>3
  <2>6. ASSUME NEW p \in Paths, NEW level \in Levels \cup {Unmeasured}, Observe(p, level) PROVE WatchKept'
    <3>1. \A q \in Paths : known'[q].seen = known[q].seen
      BY <2>0, <2>6 DEF Observe
    <3> QED BY <1>2, <2>6, <3>1 DEF Observe, WatchKept
  <2> QED BY <1>2, <2>1, <2>2, <2>3, <2>4, <2>5, <2>6 DEF WatchNext
<1>3. ASSUME WInv, WatchKept PROVE WatchTypeOK
  BY <1>3 DEF WInv, WatchTyped, WatchKept, Machines, WatchTypeOK
<1> QED BY <1>1, <1>2, <1>3

-----------------------------------------------------------------------------
(* The parts side by side.                                                 *)

\* The part that moves keeps its own invariant.
PartsKept ==
    /\ part = "held" => HInv
    /\ part = "resume" => ResumeTypeOK
    /\ part = "feed" => FInv
    /\ part = "job" => JInv
    /\ part = "watch" => WInv /\ WatchKept
    /\ part = "stream" => SInv /\ SlotInv
    /\ part = "config" => KInv /\ Bounded
    /\ part = "race" => VInv /\ RaceKept
    /\ part = "rules" => RulesInv
    /\ part = "reports" => TInv /\ lastWord \in Sayings

LEMMA PartsBegin == PartsInit => PartsKept
BY HeldInitInv, ResumeTypes, FeedInitInv, JobInitInv, WatchInitInv, WatchTypes, StreamInitInv,
   SlotsBegin, ConfigInitInv, ConfigTypes, LeavesInit, PromiseInit, RaceTypes, RulesInitInv,
   ReportInitInv, ReportTypes, Zenon
   DEF PartsInit, PartsKept, VInv

\* A step is one of the part that moves, which stays the one that does.
LEMMA OnePartMoves ==
    ASSUME [PartsNext]_partsVars
    PROVE  /\ part' = part
           /\ part = "held" => [HeldNext]_heldVars
           /\ part = "resume" => [ResumeNext]_resumeVars
           /\ part = "feed" => [FeedNext]_feedVars
           /\ part = "job" => [JobNext]_jobVars
           /\ part = "watch" => [WatchNext]_watchVars
           /\ part = "stream" => [StreamNext]_streamVars
           /\ part = "config" => [ConfigNext]_configVars
           /\ part = "race" => [RaceNext]_raceVars
           /\ part = "rules" => [RulesNext]_ruleVars
           /\ part = "reports" => [ReportNext]_reportVars
<1>1. CASE UNCHANGED partsVars
  BY <1>1 DEF partsVars
<1>2. CASE PartsNext
  BY <1>2 DEF PartsNext
<1> QED BY <1>1, <1>2

LEMMA PartsStep == PartsKept /\ [PartsNext]_partsVars => PartsKept'
<1> SUFFICES ASSUME PartsKept, [PartsNext]_partsVars PROVE PartsKept'
  OBVIOUS
<1> USE OnePartMoves DEF PartsKept
<1>1. CASE part = "held"
  BY <1>1, HeldNextInv
<1>2. CASE part = "resume"
  BY <1>2, ResumeTypes
<1>3. CASE part = "feed"
  BY <1>3, FNext
<1>4. CASE part = "job"
  BY <1>4, JNext
<1>5. CASE part = "watch"
  BY <1>5, WNext, WatchTypes
<1>6. CASE part = "stream"
  BY <1>6, SNext, SlotsKept
<1>7. CASE part = "config"
  BY <1>7, ConfigNextInv, ConfigTypes
<1>8. CASE part = "race"
  BY <1>8, VNext, RaceTypes
<1>9. CASE part = "rules"
  BY <1>9, RulesNextInv
<1>10. CASE part = "reports"
  BY <1>10, ReportNextInv, ReportTypes
<1> QED BY <1>1, <1>2, <1>3, <1>4, <1>5, <1>6, <1>7, <1>8, <1>9, <1>10

\* The counters, ages and slots of every part stay inside their limits, for any
\* limits, clients, endpoints, paths, profiles and rules (among them
\* MAX_SUBSCRIBERS, the endpoints the store may have, the deadline of a race,
\* and the waits between attempts).
THEOREM PartsStayTyped == PartsSpec => []PartsTypeOK
<1>1. PartsKept => PartsTypeOK
  BY ResumeTypes, JobTypes, WatchTypes, SlotTypes, ConfigTypes, RaceTypes, RuleTypes, ReportTypes
     DEF PartsKept, PartsTypeOK, HInv, FInv
<1> QED BY <1>1, PartsBegin, PartsStep, PTL DEF PartsSpec

\* RulesAreKept, with the rules as a part of the service (rule.rs:270).
THEOREM PartsAreRouted == PartsSpec => []PartsRoutedAsRuled
<1>1. PartsKept => PartsRoutedAsRuled
  BY RulesRoute DEF PartsKept, PartsRoutedAsRuled
<1> QED BY <1>1, PartsBegin, PartsStep, PTL DEF PartsSpec

\* RulesAreReadBack, likewise (domain.rs:77).
THEOREM PartsAreReadBack == PartsSpec => []PartsReadBackTheSame
<1>1. PartsKept => PartsReadBackTheSame
  BY SavedIsRestored DEF PartsKept, PartsReadBackTheSame, ReadBackTheSame
<1> QED BY <1>1, PartsBegin, PartsStep, PTL DEF PartsSpec
-----------------------------------------------------------------------------
(* How often a working path is left.                                       *)

\* While no move fails the machine's count is that of the moves carried out.
Counts ==
    /\ WInv /\ WatchKept /\ moved = fail.moves
    /\ ~started => fail.moves = <<>>

\* A decision whose move fails holds the loop (HOLD_AFTER_FAILURE).
MoveFails == Decide /\ hold' # hold

\* A move goes to another path, and counts if there was one before.
LEMMA DecisionCounts ==
    ASSUME HoldAfter > 0, WInv, WatchKept, Decide, ~MoveFails
    PROVE  /\ fail'.moves = IF MovedOver THEN WithMove(fail.moves) ELSE fail.moves
           /\ MovedOver /\ Usable(fail.carrying) => Len(fail.moves) < MaxMoves
<1> DEFINE f == GoodClocks(fail)
           cur == fail.carrying
           stay == BadClocks(f, cur)
           usable == {p \in Paths : Usable(p)}
<1>0. /\ fail \in Machines /\ hold \in Nat /\ HoldAfter \in Nat /\ started
      /\ cur \in Paths \cup {NoPath} /\ NoPath \notin Paths /\ MaxMoves \in Nat
  BY WatchAssumption, LimitsAre DEF WatchKept, Machines, WInv, WatchTyped, Decide
<1>1. /\ f \in Machines /\ f.carrying = cur /\ f.moves = fail.moves
      /\ fail.moves \in Seq(0 .. Window)
  BY <1>0, MachineSteps DEF GoodClocks, Machines
<1>2. cur \in Paths => stay \in Machines /\ stay.carrying = cur /\ stay.moves = fail.moves
  BY <1>1, MachineSteps DEF BadClocks, Machines
<1>3. \/ UNCHANGED fail
      \/ cur \notin usable /\ fail' = [f EXCEPT !.carrying = NoPath, !.since = Never,
                                                !.below = Never, !.bad = Never]
      \/ /\ hold = 0 /\ cur \notin usable
         /\ \E to \in BestOf(usable) : Carry(MovedTo(f, to, cur # NoPath), cur, to)
      \/ cur \in usable /\ fail' = stay
      \/ /\ hold = 0 /\ cur \in usable
         /\ \E to \in Targets(stay) : Carry(MovedTo(stay, to, TRUE), cur, to)
  BY DEF Decide
<1>4. ASSUME hold = 0, NEW g, NEW to, Carry(g, cur, to) PROVE fail' = g
  <2>1. hold' = hold
    BY DEF MoveFails
  <2> QED BY <1>0, <1>4, <2>1 DEF Carry
<1> HIDE DEF f, stay
<1>5. CASE UNCHANGED fail
  BY <1>5 DEF MovedOver
<1>6. CASE fail' = [f EXCEPT !.carrying = NoPath, !.since = Never, !.below = Never, !.bad = Never]
  <2>1. fail'.carrying = NoPath /\ fail'.moves = fail.moves
    BY <1>1, <1>6 DEF Machines
  <2> QED BY <2>1 DEF MovedOver
<1>7. ASSUME hold = 0, cur \notin usable, NEW to \in BestOf(usable),
             Carry(MovedTo(f, to, cur # NoPath), cur, to)
      PROVE  /\ fail'.moves = IF MovedOver THEN WithMove(fail.moves) ELSE fail.moves
             /\ ~(MovedOver /\ Usable(fail.carrying))
  <2>1. to \in Paths /\ to \in usable
    BY DEF BestOf
  <2>2. fail' = MovedTo(f, to, cur # NoPath)
    BY <1>4, <1>7
  <2>3. fail'.carrying = to /\ fail'.moves = IF cur # NoPath THEN WithMove(f.moves) ELSE f.moves
    BY <1>1, <2>2 DEF MovedTo, Machines
  <2>4. MovedOver <=> cur # NoPath
    BY <1>0, <1>7, <2>1, <2>3 DEF MovedOver
  <2> QED BY <1>0, <1>1, <1>7, <2>3, <2>4
<1>8. CASE cur \in usable /\ fail' = stay
  BY <1>2, <1>8 DEF MovedOver
<1>9. ASSUME hold = 0, cur \in usable, NEW to \in Targets(stay),
             Carry(MovedTo(stay, to, TRUE), cur, to)
      PROVE  /\ fail'.moves = WithMove(fail.moves) /\ MovedOver
             /\ Len(fail.moves) < MaxMoves
  <2>1. to \in Paths /\ to # cur
    BY <1>2, <1>9 DEF Targets, BestOf, Ready, Preferred
  <2>2. fail' = MovedTo(stay, to, TRUE)
    BY <1>4, <1>9
  <2>3. fail'.carrying = to /\ fail'.moves = WithMove(fail.moves)
    BY <1>2, <1>9, <2>2 DEF MovedTo, Machines
  <2>4. Len(fail.moves) < MaxMoves
    <3>1. ~(Len(stay.moves) >= MaxMoves)
      BY <1>9 DEF Targets
    <3> QED BY <1>0, <1>1, <1>2, <1>9, <3>1
  <2> QED BY <1>0, <1>9, <2>1, <2>3, <2>4 DEF MovedOver
<1> QED BY <1>3, <1>5, <1>6, <1>7, <1>8, <1>9

LEMMA CountsGoOn ==
    ASSUME HoldAfter > 0, Counts, [BudgetNext]_budgetVars, [~MoveFails]_budgetVars
    PROVE  /\ Counts'
           /\ [MovedOver /\ Usable(fail.carrying) => Len(moved) < MaxMoves]_budgetVars
<1>1. CASE UNCHANGED budgetVars
  <2>1. UNCHANGED watchVars /\ moved' = moved
    BY <1>1 DEF budgetVars
  <2>2. WInv' /\ WatchKept'
    BY <2>1, WNext, WatchTypes DEF Counts
  <2> QED BY <1>1, <2>1, <2>2 DEF watchVars, Counts
<1>2. CASE BudgetNext /\ ~MoveFails
  <2>1. WInv' /\ WatchKept'
    BY <1>2, WNext, WatchTypes DEF Counts, BudgetNext
  <2>2. moved' = IF MovedOver THEN WithMove(moved) ELSE IF Tick THEN InWindow(moved) ELSE moved
    BY <1>2 DEF BudgetNext
  <2>3. CASE Decide
    <3>1. ~Tick /\ started /\ started' = started
      BY <2>3 DEF Decide, Tick, Counts, WInv, WatchTyped
    <3> QED BY <1>2, <2>1, <2>2, <2>3, <3>1, DecisionCounts DEF Counts
  <2>4. CASE Tick
    <3>1. fail'.carrying = fail.carrying /\ fail'.moves = InWindow(fail.moves)
      BY <2>4 DEF Tick, Counts, WatchKept, Machines
    <3>2. started /\ started' = started
      BY <2>4 DEF Tick
    <3> QED BY <2>1, <2>2, <2>4, <3>1, <3>2 DEF MovedOver, Counts
  <2>5. ASSUME ~Tick, RefreshFails \/ (\E net \in Networks : Refresh(net))
                      \/ (\E p \in Paths, level \in Levels \cup {Unmeasured} : Observe(p, level))
        PROVE  ~MovedOver /\ fail'.moves = fail.moves /\ (~started' => ~started)
    <3>1. CASE UNCHANGED <<fail, started>>
      BY <3>1 DEF MovedOver
    <3>2. ASSUME NEW net \in Networks, Refresh(net)
          PROVE  ~MovedOver /\ fail'.moves = fail.moves /\ (~started' => ~started)
      <4>1. CASE started
        BY <3>2, <4>1 DEF Refresh, MovedOver
      <4>2. CASE ~started
        BY <3>2, <4>2 DEF Refresh, MovedOver, CarryingOn, Counts
      <4> QED BY <4>1, <4>2
    <3> QED BY <2>5, <3>1, <3>2 DEF RefreshFails, Observe
  <2> QED BY <1>2, <2>1, <2>2, <2>3, <2>4, <2>5 DEF BudgetNext, WatchNext, Counts
<1> QED BY <1>1, <1>2

\* FailoverConfig: while no move fails, a path that still works is left only
\* while fewer than max_moves moves were carried out in the window, "however the
\* quality fluctuates" (failover.rs:19), for any networks, limits and
\* preferences.  So a failed move, after which the monitor is put back with a
\* fresh state (netwatch.rs:508), is the only way to what TLC shows of
\* MovesAreRationed.
THEOREM RationedUnlessMovesFail ==
    ASSUME HoldAfter > 0
    PROVE  BudgetSpec /\ [][~MoveFails]_budgetVars => MovesAreRationed
<1>1. BudgetInit => Counts
  BY WatchInitInv, WatchTypes DEF BudgetInit, WatchInit, CarryingOn, Counts
<1>2. Counts /\ [BudgetNext]_budgetVars /\ [~MoveFails]_budgetVars => Counts'
  BY CountsGoOn
<1>3. Counts /\ [BudgetNext]_budgetVars /\ [~MoveFails]_budgetVars
      => [MovedOver /\ Usable(fail.carrying) => Len(moved) < MaxMoves]_budgetVars
  BY CountsGoOn
<1> QED BY <1>1, <1>2, <1>3, PTL DEF BudgetSpec, MovesAreRationed
=============================================================================
