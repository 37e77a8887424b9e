---------------------------- MODULE SavedConfig ----------------------------
(***************************************************************************)
(* Configuration changes as transactions over the store, the sealed        *)
(* credentials and the saved file (dnetd/src/configure.rs), and what a     *)
(* start makes of them (domain.rs, service_impl.rs).                       *)
(*                                                                         *)
(* A change holds the store lock for its whole length; the process may die *)
(* between any two of its writes.  An endpoint is the fresh id its         *)
(* credentials are sealed under; every other setting (an endpoint's        *)
(* switch, rules, encrypted DNS, Brutal) is one value that some requests   *)
(* change.                                                                 *)
(***************************************************************************)
EXTENDS Naturals, FiniteSets

CONSTANTS
    Settings,       \* what the settings other than the endpoints may amount to
    Default,        \* those of a first run
    MaxEndpoints,   \* MAX_ENDPOINTS
    MaxIds          \* bound: endpoints ever asked for

ASSUME ConfigAssumption ==
    Default \in Settings /\ MaxEndpoints \in Nat /\ MaxIds \in Nat

VARIABLES
    serving,    \* whether the service runs
    refusal,    \* whether it refused the saved configuration at its start
    store,      \* DomainState
    saved,      \* the file
    sealed,     \* the ids credentials are sealed under
    ids,        \* ids given so far
    rest,       \* the rest of the change that holds the lock: [does, id, before]
    unsaid      \* history: endpoints of an add that failed with the new file in place

configVars == <<serving, refusal, store, saved, sealed, ids, rest, unsaid>>

Ids == 1 .. MaxIds
Stores == [endpoints : SUBSET Ids, settings : Settings]
Seeded == [endpoints |-> {}, settings |-> Default]    \* DomainState::seeded
NoChange == [does |-> "nothing"]
Change(does, id, before) == [does |-> does, id |-> id, before |-> before]

ConfigTypeOK ==
    /\ serving \in BOOLEAN /\ refusal \in BOOLEAN
    /\ store \in Stores /\ saved \in Stores
    /\ Cardinality(store.endpoints) <= MaxEndpoints
    /\ sealed \subseteq Ids /\ ids \in 0 .. MaxIds /\ unsaid \subseteq Ids
    /\ rest \in {NoChange} \cup
          [does : {"seal", "save", "unseal", "forget"}, id : Ids, before : Stores]

\* A first run: nothing saved reads as the seeded store.
ConfigInit ==
    /\ serving = FALSE /\ refusal = FALSE
    /\ store = Seeded /\ saved = Seeded
    /\ sealed = {} /\ ids = 0 /\ rest = NoChange /\ unsaid = {}

\* refuse_while_unsafe, before_change.  That nothing is connected, which a change
\* also needs, is module Service's.
MayChange == serving /\ ~refusal /\ rest = NoChange

-----------------------------------------------------------------------------
(* Adding an endpoint.                                                     *)

\* add_endpoint, to the encoded bytes.  A change that cannot be made or encoded
\* leaves the store as it was.
AddEndpoint ==
    /\ MayChange /\ ids < MaxIds
    /\ Cardinality(store.endpoints) < MaxEndpoints
    /\ ids' = ids + 1
    /\ store' = [store EXCEPT !.endpoints = @ \cup {ids + 1}]
    /\ rest' = Change("seal", ids + 1, store)
    /\ UNCHANGED <<serving, refusal, saved, sealed, unsaid>>

\* A put that reports a failure may have left its blob.
Seal ==
    /\ serving /\ rest.does = "seal"
    /\ \/ /\ sealed' = sealed \cup {rest.id}
          /\ rest' = Change("save", rest.id, rest.before)
          /\ UNCHANGED store
       \/ /\ sealed' \in {sealed, sealed \cup {rest.id}}
          /\ store' = rest.before /\ rest' = NoChange
    /\ UNCHANGED <<serving, refusal, saved, ids, unsaid>>

SaveAdded ==
    /\ serving /\ rest.does = "save"
    /\ \/ saved' = store /\ rest' = NoChange /\ UNCHANGED unsaid
       \/ /\ rest' = Change("unseal", rest.id, rest.before)
          /\ \/ saved' = store /\ unsaid' = unsaid \cup {rest.id}
             \/ UNCHANGED <<saved, unsaid>>
    /\ UNCHANGED <<serving, refusal, store, sealed, ids>>

\* A failed save: the credentials are removed again, if they can be, and the
\* store is put back.
Unseal ==
    /\ serving /\ rest.does = "unseal"
    /\ sealed' \in {sealed, sealed \ {rest.id}}
    /\ store' = rest.before /\ rest' = NoChange
    /\ UNCHANGED <<serving, refusal, saved, ids, unsaid>>

-----------------------------------------------------------------------------
(* Removing one, and everything else.                                      *)

\* transact, save: a write that reports a failure leaves the old or the new
\* file, and the store as it was.
SavesAs(new, next) ==
    \/ saved' = new /\ store' = new /\ rest' = next
    \/ saved' \in {saved, new} /\ UNCHANGED <<store, rest>>

\* Slip: the credentials are forgotten before the file is written.
RemoveEndpointForgetFirst(e) ==
    /\ MayChange /\ e \in store.endpoints
    /\ sealed' = sealed \ {e}
    /\ SavesAs([store EXCEPT !.endpoints = @ \ {e}], NoChange)
    /\ UNCHANGED <<serving, refusal, ids, unsaid>>

RemoveEndpoint(e) ==
    /\ MayChange /\ e \in store.endpoints
    /\ SavesAs([store EXCEPT !.endpoints = @ \ {e}], Change("forget", e, store))
    /\ UNCHANGED <<serving, refusal, sealed, ids, unsaid>>

ForgetCredentials ==
    /\ serving /\ rest.does = "forget"
    /\ sealed' \in {sealed, sealed \ {rest.id}}
    /\ rest' = NoChange
    /\ UNCHANGED <<serving, refusal, store, saved, ids, unsaid>>

\* set_endpoint_enabled, add_rule, remove_rule, set_encrypted_dns, set_brutal
ChangeSetting(s) ==
    /\ MayChange /\ s # store.settings
    /\ SavesAs([store EXCEPT !.settings = s], NoChange)
    /\ UNCHANGED <<serving, refusal, sealed, ids, unsaid>>

-----------------------------------------------------------------------------
(* Starting and dying.                                                     *)

\* from_load_result: a file that cannot be read is refused and never written
\* over; the store is then the seeded one.
LoadConfig ==
    /\ ~serving
    /\ serving' = TRUE
    /\ \/ refusal' = FALSE /\ store' = saved
       \/ refusal' = TRUE /\ store' = Seeded
    /\ UNCHANGED <<saved, sealed, ids, rest, unsaid>>

ConfigServiceDies ==
    /\ serving
    /\ serving' = FALSE /\ refusal' = FALSE /\ rest' = NoChange
    /\ UNCHANGED <<store, saved, sealed, ids, unsaid>>

ConfigNext ==
    \/ AddEndpoint \/ Seal \/ SaveAdded \/ Unseal \/ ForgetCredentials
    \/ \E e \in Ids : RemoveEndpoint(e)
    \/ \E s \in Settings : ChangeSetting(s)
    \/ LoadConfig \/ ConfigServiceDies

ConfigSpec == ConfigInit /\ [][ConfigNext]_configVars

-----------------------------------------------------------------------------
(* Properties.                                                             *)

\* "The file never names credentials that do not exist" (configure.rs), through
\* every order of changes, failures and crashes; except those of an add whose
\* save was reported as failed with the new file already in place.
CredentialsExist == saved.endpoints \ unsaid \subseteq sealed
=============================================================================
