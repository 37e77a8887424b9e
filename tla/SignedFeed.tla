----------------------------- MODULE SignedFeed -----------------------------
(***************************************************************************)
(* The signed profile feed: what is accepted (dnet-core/src/feed/), what   *)
(* is kept on disk and what a start makes of it                            *)
(* (dnetd/src/feed_service.rs), and the check that fetches it              *)
(* (dnetd/src/feed_fetch.rs).                                              *)
(*                                                                         *)
(* An offer holds the lock on the feed.  A check reads the clock, fetches  *)
(* both documents without the lock, and then offers them one after the     *)
(* other, keys first, and the feed only if the keys were taken; imports    *)
(* may come in while it fetches.  What the server sends is any of the      *)
(* documents, chosen when it is offered.  Signatures, schemas and digests  *)
(* are abstracted to fields of the documents: a document's signers are the *)
(* keys whose signature verifies, and two documents with the same digest   *)
(* are the same document.                                                  *)
(***************************************************************************)
EXTENDS Naturals, FiniteSets

CONSTANTS
    KeysDocs,       \* keys documents that may be offered
    FeedDocs,       \* feeds that may be offered
    Roots,          \* FeedTrust::roots
    RootThreshold,  \* ROOT_THRESHOLD
    MinKeysVersion, \* FeedTrust::min_keys_version
    Skew,           \* CLOCK_SKEW_SECS
    MaxNow,         \* bound: the clock
    MaxFeedStarts   \* bound: starts of the service

Absent == [absent |-> TRUE]     \* Option::None, a missing file

ASSUME FeedAssumption ==
    /\ \A k \in KeysDocs : /\ k.version \in Nat /\ k.threshold \in Nat
                           /\ k.issued \in Nat /\ k.expires \in Nat
    /\ \A f \in FeedDocs : /\ f.keysVersion \in Nat /\ f.sequence \in Nat
                           /\ IsFiniteSet(f.signers)
    /\ Absent \notin KeysDocs \cup FeedDocs
    /\ RootThreshold \in Nat /\ MinKeysVersion \in Nat /\ Skew \in Nat
    /\ MaxNow \in Nat /\ MaxFeedStarts \in Nat

VARIABLES
    feedUp,     \* whether the service runs
    feedStarts,
    now,        \* the clock, in the documents' unit
    mem,        \* FeedState; left as it was by a crash, for the next start to be compared with
    disk,       \* the two state files
    evicting,   \* an evicted feed's file is still to be removed
    told,       \* reported_out_of_date
    check,      \* the check under way, if any: how far it is and the time it began with
    newest,     \* history: the newest documents that were ever in effect
    loose,      \* history: the files that may not hold what was last in effect
    lost        \* history: whether a stored document could not be read at some start

feedVars == <<feedUp, feedStarts, now, mem, disk, evicting, told, check, newest, loose, lost>>

NoCheck == [step |-> "none"]
CheckAt(step, t) == [step |-> step, at |-> t]
Both(k, f) == [keys |-> k, feed |-> f]
States == [keys : KeysDocs \cup {Absent}, feed : FeedDocs \cup {Absent}]

FeedTypeOK ==
    /\ feedUp \in BOOLEAN /\ feedStarts \in 0 .. MaxFeedStarts /\ now \in 0 .. MaxNow
    /\ mem \in States /\ disk \in States /\ newest \in States
    /\ evicting \in BOOLEAN /\ told \in BOOLEAN /\ lost \in BOOLEAN
    /\ check \in {NoCheck} \cup [step : {"fetching", "feed next"}, at : 0 .. now]
    /\ loose \subseteq {"keys", "feed"}

FeedInit ==
    /\ feedUp = FALSE /\ feedStarts = 0 /\ now = 0
    /\ mem = Both(Absent, Absent) /\ disk = mem /\ newest = mem
    /\ evicting = FALSE /\ told = FALSE /\ check = NoCheck /\ loose = {} /\ lost = FALSE

-----------------------------------------------------------------------------
(* Verification.                                                           *)

\* check_issued_and_expiry, is_expired_at, is_valid_at
ExpiredAt(d, t) == d.expires + Skew <= t
CurrentAt(d, t) == d.issued <= t + Skew /\ ~ExpiredAt(d, t)
ValidAt(w, t) == w.from <= t + Skew /\ t <= w.until + Skew

\* verify_keys
RootSigned(k) == Cardinality(k.signers \cap Roots) >= RootThreshold

\* meets_threshold_ignoring_windows
Vouched(f, k) == Cardinality(f.signers \cap DOMAIN k.signing) >= k.threshold

\* The same, counting only keys inside their validity window (accept_feed).
VouchedAt(f, k, t) ==
    Cardinality({s \in f.signers \cap DOMAIN k.signing : ValidAt(k.signing[s], t)}) >= k.threshold

\* The order of (keys_version, sequence).
FeedAfter(f, g) ==
    \/ f.keysVersion > g.keysVersion
    \/ f.keysVersion = g.keysVersion /\ f.sequence > g.sequence

\* accept_keys_document, as far as its refusals.
KeysAcceptable(k, t) ==
    /\ RootSigned(k) /\ k.version >= MinKeysVersion
    /\ mem.keys # Absent => k.version > mem.keys.version
    /\ CurrentAt(k, t)

\* Slip: the applied feed is kept under whatever keys come after.
StateUnderKeepingFeed(k) == Both(k, mem.feed)

\* Rule R: the applied feed is kept only if the new keys vouch for it.
StateUnder(k) ==
    Both(k, IF mem.feed # Absent /\ Vouched(mem.feed, k) THEN mem.feed ELSE Absent)

\* Slip: the order of the feeds is not looked at.
FeedAcceptableAnyOrder(f, t) ==
    /\ mem.keys # Absent /\ ~ExpiredAt(mem.keys, t)
    /\ VouchedAt(f, mem.keys, t)
    /\ f.keysVersion = mem.keys.version
    /\ f # mem.feed
    /\ CurrentAt(f, t)

\* accept_feed, as far as its refusals.
FeedAcceptable(f, t) ==
    /\ mem.keys # Absent /\ ~ExpiredAt(mem.keys, t)
    /\ VouchedAt(f, mem.keys, t)
    /\ f.keysVersion = mem.keys.version
    /\ mem.feed # Absent => FeedAfter(f, mem.feed)
    /\ CurrentAt(f, t)

-----------------------------------------------------------------------------
(* FeedService.                                                            *)

Later(old, new) ==
    Both(IF new.keys # Absent /\ (old.keys = Absent \/ new.keys.version > old.keys.version)
         THEN new.keys ELSE old.keys,
         IF new.feed # Absent /\ (old.feed = Absent \/ FeedAfter(new.feed, old.feed))
         THEN new.feed ELSE old.feed)

Commit(state) == mem' = state /\ newest' = Later(newest, state) /\ told' = FALSE

\* A write that reports a failure leaves the old or the new content; nothing in
\* memory changes.
WriteFails(file, doc) ==
    /\ disk' \in {disk, [disk EXCEPT ![file] = doc]}
    /\ loose' = loose \cup {file}
    /\ UNCHANGED <<mem, newest, told, evicting>>

\* The lock can be taken.
Serving == feedUp /\ ~evicting /\ check.step # "feed next"

TakeKeys(k) ==
    /\ disk' = [disk EXCEPT !.keys = k] /\ loose' = loose \ {"keys"}
    /\ Commit(StateUnder(k))
    /\ evicting' = (mem.feed # Absent /\ ~Vouched(mem.feed, k))

\* Slip: an evicted feed's file is left in place.
RemoveEvictedNever ==
    /\ feedUp /\ evicting
    /\ evicting' = FALSE
    /\ UNCHANGED <<feedUp, feedStarts, now, mem, disk, told, check, newest, loose, lost>>

\* The eviction is stored.  A file that cannot be removed is reported and left.
RemoveEvicted ==
    /\ feedUp /\ evicting
    /\ evicting' = FALSE
    /\ \/ disk' = [disk EXCEPT !.feed = Absent] /\ loose' = loose \ {"feed"}
       \/ loose' = loose \cup {"feed"} /\ UNCHANGED disk
    /\ UNCHANGED <<feedUp, feedStarts, now, mem, told, check, newest, lost>>

\* offer_feed, of a feed that is not refused: it is tried for every profile before
\* it is written.
OfferFeed(f, t) ==
    /\ FeedAcceptable(f, t) /\ f.generates
    /\ \/ /\ disk' = [disk EXCEPT !.feed = f] /\ loose' = loose \ {"feed"}
          /\ Commit(Both(mem.keys, f))
          /\ UNCHANGED evicting
       \/ WriteFails("feed", f)

\* import_feed: either document, or one after the other.
ImportKeys(k) ==
    /\ Serving /\ KeysAcceptable(k, now)
    /\ TakeKeys(k) \/ WriteFails("keys", k)
    /\ UNCHANGED <<feedUp, feedStarts, now, check, lost>>

ImportFeed(f) ==
    /\ Serving /\ OfferFeed(f, now)
    /\ UNCHANGED <<feedUp, feedStarts, now, check, lost>>

\* check_staleness: an expired feed stays in effect, and is reported once.
CheckStaleness ==
    /\ Serving /\ mem.feed # Absent /\ ExpiredAt(mem.feed, now) /\ ~told
    /\ told' = TRUE
    /\ UNCHANGED <<feedUp, feedStarts, now, mem, disk, evicting, check, newest, loose, lost>>

-----------------------------------------------------------------------------
(* Checks.                                                                 *)

\* request and the schedule: one check at a time.  The schedule waits for a
\* tunnel, which may be up at any time; who asked decides only what is said.
BeginCheck ==
    /\ feedUp /\ check = NoCheck
    /\ check' = CheckAt("fetching", now)
    /\ UNCHANGED <<feedUp, feedStarts, now, mem, disk, evicting, told, newest, loose, lost>>

\* Both documents are there.  The lock stays taken if the keys are, or are those
\* in effect.
CheckKeys(k) ==
    /\ Serving /\ check.step = "fetching"
    /\ \/ /\ KeysAcceptable(k, check.at) /\ TakeKeys(k)
          /\ check' = CheckAt("feed next", check.at)
       \/ /\ k = mem.keys
          /\ check' = CheckAt("feed next", check.at)
          /\ UNCHANGED <<mem, disk, evicting, told, newest, loose>>
       \/ /\ KeysAcceptable(k, check.at) /\ WriteFails("keys", k)
          /\ check' = NoCheck
    /\ UNCHANGED <<feedUp, feedStarts, now, lost>>

CheckFeed(f) ==
    /\ feedUp /\ ~evicting /\ check.step = "feed next"
    /\ OfferFeed(f, check.at)
    /\ check' = NoCheck
    /\ UNCHANGED <<feedUp, feedStarts, now, lost>>

\* A document cannot be fetched, is refused, or is the feed in effect.
CheckEnds ==
    /\ feedUp /\ ~evicting /\ check # NoCheck
    /\ check' = NoCheck
    /\ UNCHANGED <<feedUp, feedStarts, now, mem, disk, evicting, told, newest, loose, lost>>

-----------------------------------------------------------------------------
(* Starting and dying.                                                     *)

\* restore, from what could be read of the two files.  No time is checked.
Restored(read) ==
    LET keys == IF read.keys # Absent /\ RootSigned(read.keys) /\ read.keys.version >= MinKeysVersion
                THEN read.keys ELSE Absent
    IN Both(keys, IF keys # Absent /\ read.feed # Absent /\ Vouched(read.feed, keys)
                  THEN read.feed ELSE Absent)

\* FeedService::start.  A stored document that does not verify is dropped from
\* memory; its file stays.
StartFeed ==
    /\ ~feedUp /\ feedStarts < MaxFeedStarts
    /\ feedUp' = TRUE /\ feedStarts' = feedStarts + 1
    /\ \E read \in [keys : {disk.keys, Absent}, feed : {disk.feed, Absent}] :
          /\ Commit(Restored(read))
          /\ lost' = (lost \/ read # disk)
          /\ loose' = IF Restored(read).feed # disk.feed THEN {"feed"} ELSE {}
    /\ UNCHANGED <<now, disk, evicting, check>>

FeedServiceDies ==
    /\ feedUp
    /\ feedUp' = FALSE /\ evicting' = FALSE /\ check' = NoCheck
    /\ loose' = IF evicting THEN loose \cup {"feed"} ELSE loose
    /\ UNCHANGED <<feedStarts, now, mem, disk, told, newest, lost>>

FeedTime ==
    /\ now < MaxNow /\ now' = now + 1
    /\ UNCHANGED <<feedUp, feedStarts, mem, disk, evicting, told, check, newest, loose, lost>>

FeedNext ==
    \/ \E k \in KeysDocs : ImportKeys(k) \/ CheckKeys(k)
    \/ \E f \in FeedDocs : ImportFeed(f) \/ CheckFeed(f)
    \/ BeginCheck \/ CheckEnds
    \/ RemoveEvicted \/ CheckStaleness \/ StartFeed \/ FeedServiceDies \/ FeedTime

FeedSpec == FeedInit /\ [][FeedNext]_feedVars

-----------------------------------------------------------------------------
(* Properties.                                                             *)

\* Nothing older than what was once in effect comes into effect, through any
\* order of imports, checks they come in the middle of, evictions, failed
\* writes, crashes and starts, as long as the stored documents can be read
\* ("the rollback defence", feed/state.rs).
NeverOlder ==
    ~lost => mem.keys \in {Absent, newest.keys} /\ mem.feed \in {Absent, newest.feed}

\* The feed in effect is vouched for by the keys in effect, also after the
\* keys have changed under it and after a start from files that were not
\* written together (rule R and restore_feed).
EffectIsVouched ==
    mem.feed # Absent => mem.keys # Absent /\ Vouched(mem.feed, mem.keys)

\* "A start reads what is in effect now" (offer_keys): a start restores exactly
\* what was in effect when the service ended, evictions included, unless a
\* write or removal was reported as failed or was cut off, or the files could
\* not be read.
StartKeepsEffect ==
    [][~feedUp /\ feedUp' /\ loose = {} /\ ~lost' => mem' = mem]_feedVars
=============================================================================
