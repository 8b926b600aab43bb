---------------------- MODULE CredentialsAccessManager ----------------------
(***************************************************************************)
(* The CredentialsAccessManager (CAM) of signond, src/src/signond/         *)
(* credentialsaccessmanager.cpp, together with the collaborators whose     *)
(* signals it handles: the KeyHandler (keys inserted / authorized), the    *)
(* key authorizer (asynchronous Denied / Granted / Exclusive answers), the *)
(* CryptoManager (mount / unmount of the encrypted volume) and the objects *)
(* that post SecureStorageEvents to the CAM.                               *)
(*                                                                         *)
(* The daemon is single threaded: one action is one handler run to         *)
(* completion, including every handler it reaches through a directly       *)
(* connected Qt signal.  Posted events and authorizer answers are the      *)
(* suspension points.                                                      *)
(***************************************************************************)
EXTENDS Naturals, Sequences, FiniteSets, Bags, BagsExt

CONSTANTS
    Keys,                   \* encryption keys a key manager may insert
    NoKey,                  \* the empty SignOn::Key of a StorageNeeded query
    Requesters,             \* objects that post SecureStorageEvents
    UseEncryption,          \* CAMConfiguration::m_useEncryption
    HasExtensionAuthorizer, \* an extension plugin supplied a key authorizer
    MountAsync,             \* mount completes in a later event, not in the call
    UnmountMayFail,         \* CryptoManager::unmountFileSystem may return false
    SecretsOpenMayFail,     \* CredentialsDB::openSecretsDB may return false
    MetaOpenMayFail,        \* CredentialsDB::init of the metadata DB may fail
    MaxRequests,            \* bound: requests one requester posts in a run
    MaxPendingQueries       \* bound: identical authorization queries in flight

ASSUME NoKey \notin Keys
ASSUME \A b \in {UseEncryption, HasExtensionAuthorizer, MountAsync,
                 UnmountMayFail, SecretsOpenMayFail, MetaOpenMayFail} :
         b \in BOOLEAN
ASSUME MaxRequests \in Nat /\ MaxPendingQueries \in Nat \ {0}

VARIABLES
    camInitialized, \* m_isInitialized
    systemOpened,   \* m_systemOpened
    metaOpen,       \* m_pCredentialsDB # NULL
    secretsOpen,    \* m_pCredentialsDB->isSecretsDBOpen()
    mounted,        \* m_pCryptoFileSystemManager->fileSystemIsMounted()
    mountPending,   \* a mount was requested and has not completed yet
    inserted,       \* KeyHandler: inserted keys
    authorized,     \* KeyHandler: authorized keys
    queries,        \* bag of authorization queries awaiting an answer
    events,         \* requesters whose SecureStorageEvent is posted to the CAM
    notifiers,      \* m_secureStorageEventNotifiers (a QList, in order)
    alive,          \* requesters not yet destroyed (the QPointer is not null)
    asked,          \* per requester: SecureStorageEvents posted
    answered,       \* per requester: replies posted back to it
    crashed         \* the daemon dereferenced a null pointer

vars == <<camInitialized, systemOpened, metaOpen, secretsOpen, mounted,
          mountPending, inserted, authorized, queries, events, notifiers,
          alive, asked, answered, crashed>>

Reasons == {"KeyInserted", "StorageNeeded"}
Results == {"Denied", "Granted", "Exclusive"}
Query   == [key : Keys \cup {NoKey}, reason : Reasons]

\* Outcomes the external collaborators may produce.
SecretsOpenResults == IF SecretsOpenMayFail THEN BOOLEAN ELSE {TRUE}
UnmountResults     == IF UnmountMayFail THEN BOOLEAN ELSE {TRUE}
MetaOpenResults    == IF MetaOpenMayFail THEN BOOLEAN ELSE {TRUE}

-----------------------------------------------------------------------------
(* Helpers of the CAM                                                      *)

\* m_keyAuthorizer # 0: init() installs the default authorizer only when
\* encryption is used; otherwise only an extension can have set one.
HasKeyAuthorizer == UseEncryption \/ HasExtensionAuthorizer

\* openSecretsDB(): with encryption it refuses when the volume is not
\* mounted; otherwise the outcome is the CredentialsDB's.  ok is that outcome.
OpenSecretsDB(isMounted, ok) == (~UseEncryption \/ isMounted) /\ ok

\* Mount state after closeSecretsDB(): the secrets DB is closed first, then
\* the volume is unmounted (emitting fileSystemUnmounting, which finds the
\* secrets DB already closed); the unmount may fail and leave it mounted.
MountedAfterCloseSecrets(unmountOk) ==
    IF UseEncryption /\ mounted /\ unmountOk THEN FALSE ELSE mounted

\* onEncryptedFSMounted(): opens the secrets DB when the system is open and
\* the secrets DB is not open yet.  Returns the new isSecretsDBOpen().
SecretsAfterMountedUnopened(sysOpen, secOpen, ok) == secOpen
SecretsAfterMounted(sysOpen, secOpen, ok) ==
    IF sysOpen /\ ~secOpen THEN OpenSecretsDB(TRUE, ok) ELSE secOpen

\* replyToSecureStorageEventNotifiers(): every live queued requester gets
\* one reply per entry of the list; the list is then cleared.
Occurrences(r, s) == Cardinality({i \in DOMAIN s : s[i] = r})
NotifiersNotCleared(list) == list
NotifiersAfterReply(list) == << >>
ReplyToNotifiers(list) ==
    /\ answered' = [r \in Requesters |->
                       IF alive[r] THEN answered[r] + Occurrences(r, list)
                                   ELSE answered[r]]
    /\ notifiers' = NotifiersAfterReply(list)

\* onKeyAuthorizationQueried() ends with replyToSecureStorageEventNotifiers()
\* whatever the result: a resolution, not only a grant, unblocks waiters.
RepliesOnGrantOnly(res) == res # "Denied"
RepliesOnResolution(res) == TRUE

\* onKeyRemoved(): the CAM revokes the removed key if it is authorized.
OnKeyRemovedNoRevoke(k) == authorized
OnKeyRemoved(k) == IF k \in authorized THEN authorized \ {k} ELSE authorized

-----------------------------------------------------------------------------
(* KeyHandler (not part of src/): the contract of spec.md section 4.2.     *)
(* authorizeKey() authorizes an inserted key and hands it to the           *)
(* CryptoManager, which mounts the volume if it is not mounted.            *)

\* onKeyAuthorizationQueried() calls authorizeKey() unless the answer is
\* Denied; the KeyHandler authorizes only a key that is inserted, never the
\* empty key a StorageNeeded query was asked with.
AuthorizeKeyEmptyAccepted(k, res) ==
    IF res # "Denied" /\ k \in inserted \cup {NoKey}
    THEN authorized \cup {k} ELSE authorized
AuthorizeKey(k, res) ==
    IF res # "Denied" /\ k \in inserted THEN authorized \cup {k} ELSE authorized

\* The CryptoManager has to mount after a successful authorizeKey().
MountRequested == ~mounted /\ ~mountPending

\* A mount request either completes inside the call (emitting
\* fileSystemMounted synchronously) or becomes pending.
MountNow(requested) == requested /\ ~MountAsync

-----------------------------------------------------------------------------
(* Actions of the CAM                                                      *)

\* The rest of openCredentialsSystem() once the metadata DB is open.
OpenSecretsOrMount ==
    /\ \E ok \in SecretsOpenResults :
         IF ~UseEncryption \/ mounted
         THEN /\ secretsOpen' = OpenSecretsDB(mounted, ok)
              /\ UNCHANGED <<mounted, mountPending>>
         ELSE LET req == authorized # {} /\ MountRequested
              IN /\ mounted' = MountNow(req)
                 /\ mountPending' = (mountPending \/ (req /\ MountAsync))
                 /\ secretsOpen' = IF MountNow(req)
                                   THEN SecretsAfterMounted(TRUE, secretsOpen, ok)
                                   ELSE secretsOpen

\* openCredentialsSystem(), past its RETURN_IF_NOT_INITIALIZED: openMetaDataDB()
\* sets m_pCredentialsDB to a new CredentialsDB before its init() can fail,
\* and a failure returns with the system still closed.  Otherwise the system
\* is marked opened; the secrets DB is opened if the volume is mounted (or
\* there is no encryption), else the CryptoManager is asked to mount, which
\* only succeeds when it holds an authorized key.
OpenSystem ==
    /\ metaOpen' = TRUE
    /\ \E metaOk \in MetaOpenResults :
         IF ~metaOk
         THEN UNCHANGED <<systemOpened, secretsOpen, mounted, mountPending>>
         ELSE /\ systemOpened' = TRUE
              /\ OpenSecretsOrMount

\* Daemon start-up: CredentialsAccessManager::init() (the KeyHandler and
\* authorizer signals are connected only when encryption is used) directly
\* followed by openCredentialsSystem(), with no event handled in between.
Start ==
    /\ ~camInitialized
    /\ camInitialized' = TRUE
    /\ OpenSystem
    /\ UNCHANGED <<inserted, authorized, queries, events, notifiers, alive,
                   asked, answered, crashed>>

\* RETURN_IF_NOT_INITIALIZED: the public calls return at once, changing
\* nothing the model tracks, until init() has succeeded.
Initialized == camInitialized

\* openCredentialsSystem() again, after the system was closed (backup and
\* restore close and reopen it).
OpenCredentialsSystem ==
    /\ ~crashed
    /\ Initialized
    /\ ~systemOpened
    /\ OpenSystem
    /\ UNCHANGED <<camInitialized, inserted, authorized, queries, events,
                   notifiers, alive, asked, answered, crashed>>

CloseSystemKeepingSecrets ==
    /\ secretsOpen' = secretsOpen
    /\ metaOpen' = FALSE
    /\ systemOpened' = FALSE
    /\ UNCHANGED <<camInitialized, mounted, mountPending, inserted, authorized,
                   queries, events, notifiers, alive, asked, answered, crashed>>

\* The body of closeCredentialsSystem() on an opened system: closes the
\* secrets DB (and unmounts) when it is open, deletes the CredentialsDB
\* object and clears m_systemOpened, whether or not the unmount failed.
CloseSystem ==
    /\ \E u \in UnmountResults :
         mounted' = IF secretsOpen THEN MountedAfterCloseSecrets(u)
                                   ELSE mounted
    /\ secretsOpen' = FALSE
    /\ metaOpen' = FALSE
    /\ systemOpened' = FALSE
    /\ UNCHANGED <<camInitialized, mountPending, inserted, authorized,
                   queries, events, notifiers, alive, asked, answered,
                   crashed>>

\* closeCredentialsSystem() (on a closed system it returns at once).
CloseCredentialsSystem ==
    /\ ~crashed
    /\ Initialized
    /\ systemOpened
    /\ CloseSystem

\* deleteCredentialsSystem(): closes an opened system and then deletes the
\* encrypted volume or the plaintext secrets file.  Only m_error records the
\* deletion, so on a closed system the call changes nothing modelled.
DeleteCredentialsSystem ==
    /\ ~crashed
    /\ Initialized
    /\ systemOpened
    /\ CloseSystem

\* onKeyInserted(): the KeyHandler records the key; the CAM asks the
\* authorizer about it unless it is already authorized.
KeyInserted(k) ==
    /\ ~crashed
    /\ camInitialized /\ UseEncryption
    /\ k \notin inserted
    /\ LET q == [key |-> k, reason |-> "KeyInserted"] IN
         /\ CopiesIn(q, queries) < MaxPendingQueries
         /\ queries' = IF k \in authorized THEN queries ELSE BagAdd(queries, q)
    /\ inserted' = inserted \cup {k}
    /\ UNCHANGED <<camInitialized, systemOpened, metaOpen, secretsOpen,
                   mounted, mountPending, authorized, events, notifiers,
                   alive, asked, answered, crashed>>

\* onLastAuthorizedKeyRemoved(): reads isSecretsDBOpen() through
\* m_pCredentialsDB, which is null while the system is closed, and closes
\* the secrets DB and unmounts when either is open.
OnLastAuthorizedKeyRemoved ==
    IF ~metaOpen
    THEN /\ crashed' = TRUE
         /\ UNCHANGED <<secretsOpen, mounted>>
    ELSE /\ \E u \in UnmountResults :
              mounted' = IF secretsOpen \/ mounted
                         THEN MountedAfterCloseSecrets(u)
                         ELSE mounted
         /\ secretsOpen' = FALSE
         /\ UNCHANGED crashed

\* A key manager reports a key removed: the KeyHandler drops it and emits
\* keyRemoved; onKeyRemoved() revokes it, and revoking the last authorized
\* key emits lastAuthorizedKeyRemoved.
KeyRemoved(k) ==
    /\ ~crashed
    /\ camInitialized /\ UseEncryption
    /\ k \in inserted
    /\ inserted' = inserted \ {k}
    /\ authorized' = OnKeyRemoved(k)
    /\ IF authorized # {} /\ authorized' = {}
       THEN OnLastAuthorizedKeyRemoved
       ELSE UNCHANGED <<secretsOpen, mounted, crashed>>
    /\ UNCHANGED <<camInitialized, systemOpened, metaOpen, mountPending,
                   queries, events, notifiers, alive, asked, answered>>

\* onKeyAuthorizationQueried(): on Granted or Exclusive the KeyHandler
\* authorizes the key (Exclusive also reformats the volume, which this model
\* does not distinguish); whatever the answer, every queued requester is
\* replied to with the availability of the secrets DB.  The authorizer's
\* signal is connected only when encryption is used: otherwise the answer
\* reaches nobody.
KeyAuthorizationQueried(q, res, k) ==
    /\ ~crashed
    /\ q \in BagToSet(queries)
    /\ k \in IF q.key = NoKey THEN inserted \cup {NoKey} ELSE {q.key}
    /\ queries' = BagRemove(queries, q)
    /\ IF UseEncryption
       THEN LET grant == AuthorizeKey(k, res) # authorized
                req   == grant /\ MountRequested
            IN \E ok \in SecretsOpenResults :
                 /\ authorized' = AuthorizeKey(k, res)
                 /\ mounted' = (mounted \/ MountNow(req))
                 /\ mountPending' = (mountPending \/ (req /\ MountAsync))
                 /\ secretsOpen' = IF MountNow(req)
                                   THEN SecretsAfterMounted(systemOpened,
                                                            secretsOpen, ok)
                                   ELSE secretsOpen
                 /\ IF RepliesOnResolution(res)
                    THEN ReplyToNotifiers(notifiers)
                    ELSE UNCHANGED <<answered, notifiers>>
       ELSE UNCHANGED <<authorized, mounted, mountPending, secretsOpen,
                        answered, notifiers>>
    /\ UNCHANGED <<camInitialized, systemOpened, metaOpen, inserted, events,
                   alive, asked, crashed>>

\* customEvent() for a SecureStorageEvent: the sender is queued; if there is
\* no CredentialsDB, or the secrets DB is open after all, everyone queued is
\* replied to at once; otherwise the authorizer is queried with reason
\* StorageNeeded (through m_keyAuthorizer, which may be null).
CustomEvent(r) ==
    /\ ~crashed
    /\ r \in events
    /\ events' = events \ {r}
    /\ LET list == Append(notifiers, r)
           q    == [key |-> NoKey, reason |-> "StorageNeeded"]
       IN IF ~metaOpen \/ secretsOpen
          THEN /\ ReplyToNotifiers(list)
               /\ UNCHANGED <<queries, crashed>>
          ELSE /\ notifiers' = list
               /\ UNCHANGED answered
               /\ IF HasKeyAuthorizer
                  THEN /\ queries' = BagAdd(queries, q)
                       /\ UNCHANGED crashed
                  ELSE /\ crashed' = TRUE
                       /\ UNCHANGED queries
    /\ UNCHANGED <<camInitialized, systemOpened, metaOpen, secretsOpen,
                   mounted, mountPending, inserted, authorized, alive, asked>>

\* CryptoManager finishes a pending mount and emits fileSystemMounted:
\* onEncryptedFSMounted() opens the secrets DB if the system is open.
EncryptedFSMounted ==
    /\ ~crashed
    /\ mountPending
    /\ mountPending' = FALSE
    /\ mounted' = TRUE
    /\ \E ok \in SecretsOpenResults :
         secretsOpen' = SecretsAfterMounted(systemOpened, secretsOpen, ok)
    /\ UNCHANGED <<camInitialized, systemOpened, metaOpen, inserted,
                   authorized, queries, events, notifiers, alive, asked,
                   answered, crashed>>

-----------------------------------------------------------------------------
(* Requesters (SignonSessionCore objects, not part of src/)                *)

\* A live requester that needs the secure storage and finds it closed posts
\* a SecureStorageEvent to the CAM; it waits for the reply before posting
\* another one.
PostSecureStorageEvent(r) ==
    /\ ~crashed
    /\ camInitialized
    /\ alive[r]
    /\ ~secretsOpen
    /\ asked[r] = answered[r]
    /\ asked[r] < MaxRequests
    /\ asked' = [asked EXCEPT ![r] = @ + 1]
    /\ events' = events \cup {r}
    /\ UNCHANGED <<camInitialized, systemOpened, metaOpen, secretsOpen,
                   mounted, mountPending, inserted, authorized, queries,
                   notifiers, alive, answered, crashed>>

\* The requester object is destroyed; the CAM keeps only a QPointer to it.
DestroyRequester(r) ==
    /\ ~crashed
    /\ alive[r]
    /\ alive' = [alive EXCEPT ![r] = FALSE]
    /\ UNCHANGED <<camInitialized, systemOpened, metaOpen, secretsOpen,
                   mounted, mountPending, inserted, authorized, queries,
                   events, notifiers, asked, answered, crashed>>

\* After a crash nothing happens any more.
Halted == crashed /\ UNCHANGED vars

-----------------------------------------------------------------------------
Init ==
    /\ camInitialized = FALSE
    /\ systemOpened = FALSE
    /\ metaOpen = FALSE
    /\ secretsOpen = FALSE
    /\ mounted = FALSE
    /\ mountPending = FALSE
    /\ inserted = {}
    /\ authorized = {}
    /\ queries = EmptyBag
    /\ events = {}
    /\ notifiers = << >>
    /\ alive = [r \in Requesters |-> TRUE]
    /\ asked = [r \in Requesters |-> 0]
    /\ answered = [r \in Requesters |-> 0]
    /\ crashed = FALSE

Next ==
    \/ Start
    \/ OpenCredentialsSystem
    \/ CloseCredentialsSystem
    \/ DeleteCredentialsSystem
    \/ \E k \in Keys : KeyInserted(k) \/ KeyRemoved(k)
    \/ \E q \in Query, res \in Results, k \in Keys \cup {NoKey} :
         KeyAuthorizationQueried(q, res, k)
    \/ \E r \in Requesters : CustomEvent(r)
    \/ EncryptedFSMounted
    \/ \E r \in Requesters : PostSecureStorageEvent(r) \/ DestroyRequester(r)
    \/ Halted

\* The Qt event loop delivers every posted event, the authorizer answers
\* every query and the CryptoManager finishes every mount it started.  Key
\* insertion, system open/close and requesters are the environment's choice.
Fairness ==
    /\ \A r \in Requesters : WF_vars(CustomEvent(r))
    /\ WF_vars(\E q \in Query, res \in Results, k \in Keys \cup {NoKey} :
                  KeyAuthorizationQueried(q, res, k))
    /\ WF_vars(EncryptedFSMounted)

Spec == Init /\ [][Next]_vars /\ Fairness

-----------------------------------------------------------------------------
(* Properties                                                              *)

TypeOK ==
    /\ camInitialized \in BOOLEAN /\ systemOpened \in BOOLEAN
    /\ metaOpen \in BOOLEAN /\ secretsOpen \in BOOLEAN
    /\ mounted \in BOOLEAN /\ mountPending \in BOOLEAN
    /\ inserted \subseteq Keys /\ authorized \subseteq Keys
    /\ IsABag(queries) /\ BagToSet(queries) \subseteq Query
    /\ events \subseteq Requesters
    /\ notifiers \in Seq(Requesters)
    /\ alive \in [Requesters -> BOOLEAN]
    /\ asked \in [Requesters -> Nat] /\ answered \in [Requesters -> Nat]
    /\ crashed \in BOOLEAN

\* Security (spec 4.1, step 4): with encryption the secrets DB is never open
\* while no key is authorized.  Key removal (onKeyRemoved ->
\* onLastAuthorizedKeyRemoved), mount completion (onEncryptedFSMounted) and
\* openCredentialsSystem must agree on it.
NoSecretsWithoutAuthorizedKey ==
    UseEncryption /\ secretsOpen => authorized \cap inserted # {}

\* replyToSecureStorageEventNotifiers() replies to each queued request once:
\* no requester ever receives more replies than it posted events.
AtMostOneReplyPerRequest ==
    \A r \in Requesters : answered[r] <= asked[r]

\* The daemon never dereferences a null CredentialsDB or key authorizer
\* (onLastAuthorizedKeyRemoved, customEvent).
NoNullDereference == ~crashed

\* Spec 4.1: no requester of secure storage waits forever: a live requester
\* whose SecureStorageEvent is pending is eventually replied to.
EveryRequestAnswered ==
    \A r \in Requesters :
        asked[r] > answered[r]
            ~> (asked[r] = answered[r] \/ ~alive[r] \/ crashed)

\* Spec 8: once a key is authorized while the credentials system is open,
\* the secrets DB eventually becomes open (unless the key goes away or the
\* system is closed first).
SecretsEventuallyOpen ==
    (UseEncryption /\ systemOpened /\ authorized # {} /\ ~secretsOpen)
        ~> (secretsOpen \/ ~systemOpened \/ authorized = {} \/ crashed)


-----------------------------------------------------------------------------
(* Refinement: the CAM implements the abstract SecureStorage.  A requester  *)
(* waits while it is alive and has posted more events than it has had      *)
(* replies; without encryption a key is always there.                      *)
SS == INSTANCE SecureStorage WITH
        sysOpen     <- systemOpened,
        keyOk       <- ~UseEncryption \/ authorized \cap inserted # {},
        storageOpen <- secretsOpen,
        pending     <- {r \in Requesters : alive[r] /\ answered[r] < asked[r]}

\* Every step of the CAM handlers (open, close and delete of the system, key
\* events, authorizer answers, posted events, requesters going away) is a
\* step of SecureStorage or leaves its state alone: the storage opens only
\* in an open system with a key, closes with the key or the system, and a
\* requester is answered only while it waits.
SecureStorageRefinement == SS!Spec
=============================================================================
