--------------------------- MODULE IdentitySession ---------------------------
(***************************************************************************)
(* One SignonIdentity object of signond (src/src/signond/signonidentity.cpp)*)
(* serving one credentials record, with the parts of its world it reads    *)
(* and writes: the CredentialsDB row of the record, the AuthCoreCache      *)
(* entry of the record, the CAM state it observes (system opened, secrets  *)
(* DB open) and the signon-ui dialogs it has asked for.                    *)
(*                                                                         *)
(* The daemon is single threaded: every D-Bus method and every UI reply    *)
(* slot is one action run to completion.  A UI dialog is the suspension    *)
(* point: between the call that opens it and the slot that receives its    *)
(* answer any other handler may run.                                       *)
(***************************************************************************)
EXTENDS Naturals, Sequences, FiniteSets, Bags, BagsExt

CONSTANTS
    Secrets,            \* non-empty secrets a client or the UI may supply
    Empty,              \* the empty QString
    DbMayFail,          \* a CredentialsDB call may set lastError
    EncryptorMayFail,   \* Encryptor::decodeString may fail
    CallsWhileUiPending,\* the client issues calls while a dialog is open
    MaxCalls,           \* bound: D-Bus calls whose reply is deferred
    MaxConfirm          \* bound: the confirm count a caller passes

ASSUME Empty \notin Secrets
ASSUME \A b \in {DbMayFail, EncryptorMayFail,
                 CallsWhileUiPending} : b \in BOOLEAN
ASSUME MaxCalls \in Nat \ {0} /\ MaxConfirm \in Nat

VARIABLES
    systemOpened, \* CredentialsAccessManager::credentialsSystemOpened()
    secretsOpen,  \* CredentialsDB::isSecretsDBOpen()
    row,          \* the CredentialsDB row of the record
    cache,        \* AuthCoreCache entry (m_id, AuthMethod()): {} or {secret}
    hasId,        \* m_id # SIGNOND_NEW_IDENTITY
    info,         \* m_pInfo: NoInfo or a copy of the row
    message,      \* m_message: the deferred call the next UI reply answers
    watchers,     \* bag of pending UI calls, each bound to one slot
    autoDestruct, \* SignonDisposable auto destruction enabled
    destroyed,    \* the idle timeout has destroyed the object
    nextCall,     \* the next deferred D-Bus call
    replies       \* per deferred call: the replies sent to it, in order

vars == <<systemOpened, secretsOpen, row, cache, hasId, info, message,
          watchers, autoDestruct, destroyed, nextCall, replies>>

Calls      == 1 .. MaxCalls
NoCall     == 0
NoInfo     == [none |-> TRUE]
Passwords  == Secrets \cup {Empty}
Rows       == [stored : BOOLEAN, storeSecret : BOOLEAN, secret : Passwords]
Infos      == [isNew : BOOLEAN, storeSecret : BOOLEAN, secret : Passwords]
Watchers   == [slot : {"queryUiSlot", "verifyUiSlot"}, count : 0 .. MaxConfirm]
\* What a finished UI call carries: a D-Bus error, a result without an
\* error code, an error code, or QUERY_ERROR_NONE with or without password.
UiAnswers  == [kind : {"CallError", "NoErrorCode", "Canceled",
                       "ForgotPassword", "OtherError", "NoPassword"}]
              \cup [kind : {"Password"}, password : Secrets]
\* Each reply records whether a verification verdict agreed with the row.
Replies    == [val : {"True", "False", "Id", "Canceled", "ForgotPassword",
                      "InternalError", "StoreFailed"}, agrees : BOOLEAN]
DbResults  == IF DbMayFail THEN BOOLEAN ELSE {TRUE}
EncResults == IF EncryptorMayFail THEN BOOLEAN ELSE {TRUE}

(***************************************************************************)
(* CredentialsDB, not under src/: the row as credentials(id, queryPassword)*)
(* returns it and as insert/updateCredentials(info, storeSecret) leave it. *)
(* The secret is only readable and writable while the secrets DB is open;  *)
(* a store without storeSecret clears it.                                  *)
(***************************************************************************)
Credentials(queryPassword) ==
    [isNew       |-> ~row.stored,
     storeSecret |-> row.storeSecret,
     secret      |-> IF queryPassword /\ secretsOpen THEN row.secret ELSE Empty]

WriteRow(secret, storeSecret) ==
    [stored      |-> TRUE,
     storeSecret |-> storeSecret,
     secret      |-> CASE ~storeSecret -> Empty
                       [] secretsOpen  -> secret
                       [] OTHER        -> row.secret]

\* Mutant: a canceled dialog's error reply is built but never sent.
ReplyToMessageExceptCanceled(val, agrees) ==
    replies' = IF val = "Canceled" THEN replies
               ELSE [replies EXCEPT ![message] = Append(@, [val |-> val, agrees |-> agrees])]

\* Replying to the call m_message names, as every UI slot does.
ReplyToMessage(val, agrees) ==
    replies' = [replies EXCEPT ![message] = Append(@, [val |-> val, agrees |-> agrees])]

(***************************************************************************)
(* queryInfo(ok, queryPassword): m_pInfo is replaced by a fresh copy of    *)
(* the row, or cleared when the query fails.  Returns ok.                  *)
(***************************************************************************)
\* Mutant: the copy kept in m_pInfo never carries the secret.
QueryInfoIntoWithoutPassword(ok, queryPassword) ==
    info' = IF ok THEN Credentials(FALSE) ELSE NoInfo

QueryInfoInto(ok, queryPassword) ==
    info' = IF ok THEN Credentials(queryPassword) ELSE NoInfo

\* SIGNON_RETURN_IF_CAM_UNAVAILABLE: a method replies an internal error and
\* returns, leaving the modelled state as it is, unless the credentials
\* system is opened.  The error paths of a method are modelled so, by the
\* guard of the action that takes the other path.
CamAvailable == systemOpened

\* A client calls only a live object and, unless CallsWhileUiPending, waits
\* for a dialog to finish before its next call.
ClientMayCall ==
    /\ ~destroyed
    /\ CallsWhileUiPending \/ watchers = EmptyBag

(***************************************************************************)
(* setDelayedReply(true); m_message = message(); a new watcher connected   *)
(* to slot; setAutoDestruct(false).  The call consumes one deferred-call   *)
(* token.                                                                  *)
(***************************************************************************)
Defer(slot, count) ==
    /\ message' = nextCall
    /\ nextCall' = nextCall + 1
    /\ watchers' = BagAdd(watchers, [slot |-> slot, count |-> count])
    /\ autoDestruct' = FALSE

\* queryUserPassword(params): a new dialog whose answer goes to verifyUiSlot,
\* added to the dialogs still pending.
QueryUserPassword(pending, count) ==
    /\ watchers' = BagAdd(pending, [slot |-> "verifyUiSlot", count |-> count])
    /\ autoDestruct' = FALSE

\* Mutant: one more dialog is opened when the count has reached zero.
RetryAllowedAtZero(count) == count >= 0

\* verifyUiSlot asks again while the confirm count is positive.
RetryAllowed(count) == count > 0

(***************************************************************************)
(* storeCredentials(info, storeSecret): insert a new row or update the    *)
(* row; a failed insert leaves m_id SIGNOND_NEW_IDENTITY, an UPDATE of a   *)
(* removed row touches no row.  On success the secret is cached in         *)
(* AuthCoreCache when the secrets DB is closed and m_pInfo is deleted; on  *)
(* failure m_pInfo keeps pInfo, what the caller left in it.                *)
(***************************************************************************)
StoreCredentials(secret, storeSecret, pInfo) ==
    \E dbOk \in DbResults :
        IF dbOk
        THEN /\ row' = IF ~hasId \/ row.stored
                       THEN WriteRow(secret, storeSecret) ELSE row
             /\ hasId' = TRUE
             /\ cache' = IF secretsOpen THEN cache ELSE {secret}
             /\ info' = NoInfo
        ELSE /\ info' = pInfo
             /\ UNCHANGED <<row, hasId, cache>>

\* store(info): decode the secret and store it, with storeSecret forced to
\* false for an empty decoded secret.
Store(secret, storeSecretArg) ==
    /\ ClientMayCall /\ CamAvailable
    /\ \E encOk \in EncResults :
        /\ encOk
        /\ StoreCredentials(secret, storeSecretArg /\ secret # Empty, info)
    /\ UNCHANGED <<systemOpened, secretsOpen, message, watchers, autoDestruct,
                   destroyed, nextCall, replies>>

(***************************************************************************)
(* The deprecated storeCredentials(id, userName, secret, storeSecret, ...):*)
(* the decoded secret is written into m_pInfo (a new one carrying          *)
(* storeSecret, or the existing one in place) and m_pInfo is stored with   *)
(* the caller's storeSecret as it is.                                      *)
(***************************************************************************)
StoreCredentialsDeprecated(secret, storeSecret) ==
    /\ ClientMayCall /\ CamAvailable
    /\ \E encOk \in EncResults :
        /\ encOk
        /\ LET pInfo == IF info = NoInfo
                        THEN [isNew |-> ~hasId, storeSecret |-> storeSecret,
                              secret |-> secret]
                        ELSE [info EXCEPT !.secret = secret]
           IN StoreCredentials(secret, storeSecret, pInfo)
    /\ UNCHANGED <<systemOpened, secretsOpen, message, watchers, autoDestruct,
                   destroyed, nextCall, replies>>

\* queryInfo(): a copy of the row without its secret replaces m_pInfo.
QueryInfo ==
    /\ ClientMayCall /\ CamAvailable
    /\ \E ok \in DbResults : QueryInfoInto(ok, FALSE)
    /\ UNCHANGED <<systemOpened, secretsOpen, row, cache, hasId, message,
                   watchers, autoDestruct, destroyed, nextCall, replies>>

\* requestCredentialsUpdate(msg): fails unless the row may store a password,
\* otherwise opens a password dialog answered by queryUiSlot.
RequestCredentialsUpdate ==
    /\ ClientMayCall /\ CamAvailable /\ nextCall \in Calls
    /\ \E ok \in DbResults :
        /\ QueryInfoInto(ok, FALSE)
        /\ IF ok /\ Credentials(FALSE).storeSecret
           THEN Defer("queryUiSlot", 0)
           ELSE UNCHANGED <<message, watchers, autoDestruct, nextCall>>
    /\ UNCHANGED <<systemOpened, secretsOpen, row, cache, hasId, destroyed,
                   replies>>

\* verifyUser(params): fails unless a non-empty password is stored, otherwise
\* opens a dialog answered by verifyUiSlot with the caller's confirm count.
VerifyUser(count) ==
    /\ ClientMayCall /\ CamAvailable /\ nextCall \in Calls
    /\ \E ok \in DbResults :
        /\ QueryInfoInto(ok, TRUE)
        /\ IF ok /\ Credentials(TRUE).storeSecret /\ Credentials(TRUE).secret # Empty
           THEN /\ Defer("verifyUiSlot", count)
           ELSE UNCHANGED <<message, watchers, autoDestruct, nextCall>>
    /\ UNCHANGED <<systemOpened, secretsOpen, row, cache, hasId, destroyed,
                   replies>>

\* verifySecret(secret): compares in the DB; its only lasting effect is the
\* queryInfo(ok) that replaces m_pInfo (the default queryPassword argument
\* is declared in a header outside the tree, so both values are allowed).
VerifySecret ==
    /\ ClientMayCall /\ CamAvailable
    /\ \E encOk \in EncResults, ok \in DbResults, queryPassword \in BOOLEAN :
        /\ encOk
        /\ QueryInfoInto(ok, queryPassword)
    /\ UNCHANGED <<systemOpened, secretsOpen, row, cache, hasId, message,
                   watchers, autoDestruct, destroyed, nextCall, replies>>

\* remove(): removeCredentials(m_id) deletes the row; m_pInfo is left alone.
Remove ==
    /\ ClientMayCall /\ CamAvailable /\ row.stored
    /\ \E ok \in DbResults :
        row' = IF ok THEN [stored |-> FALSE, storeSecret |-> FALSE, secret |-> Empty]
               ELSE row
    /\ UNCHANGED <<systemOpened, secretsOpen, cache, hasId, info, message,
                   watchers, autoDestruct, destroyed, nextCall, replies>>

\* A UI slot starts with setAutoDestruct(true) and its watcher is deleted.
SlotDone(w) ==
    /\ watchers' = BagRemove(watchers, w)
    /\ autoDestruct' = TRUE

(***************************************************************************)
(* queryUiSlot: the password dialog of requestCredentialsUpdate finished.  *)
(* Every path replies once to m_message.  With a password, a live DB and   *)
(* m_pInfo, the copy with the new password is written back with           *)
(* storeSecret and m_pInfo deleted; every other path is an error reply.    *)
(***************************************************************************)
QueryUiSlot ==
    /\ ~destroyed
    /\ \E w \in BagToSet(watchers), a \in UiAnswers :
        /\ w.slot = "queryUiSlot"
        /\ SlotDone(w)
        /\ CASE a.kind \in {"CallError", "Canceled"} ->
                    ReplyToMessage("Canceled", TRUE) /\ UNCHANGED <<row, info>>
             [] a.kind = "Password" /\ ~systemOpened ->
                    ReplyToMessage("StoreFailed", TRUE) /\ UNCHANGED <<row, info>>
             [] a.kind = "Password" /\ info # NoInfo ->
                    \E ok \in DbResults :
                        /\ row' = IF ok /\ row.stored
                                  THEN WriteRow(a.password, TRUE) ELSE row
                        /\ info' = NoInfo
                        /\ ReplyToMessage(IF ok THEN "Id" ELSE "InternalError", TRUE)
             [] OTHER ->
                    ReplyToMessage("InternalError", TRUE) /\ UNCHANGED <<row, info>>
    /\ UNCHANGED <<systemOpened, secretsOpen, cache, hasId, message, destroyed,
                   nextCall>>

\* Mutant: the retry does not return and falls through to the error reply.
VerifyRetryFallingThrough(w) ==
    /\ QueryUserPassword(BagRemove(watchers, w), w.count - 1)
    /\ ReplyToMessage("InternalError", TRUE)
    /\ UNCHANGED info

\* verifyUiSlot on a mismatch with a positive count: the dialog is opened
\* again with the count decremented, and the slot returns without a reply.
VerifyRetry(w) ==
    /\ QueryUserPassword(BagRemove(watchers, w), w.count - 1)
    /\ UNCHANGED <<info, replies>>

(***************************************************************************)
(* verifyUiSlot: the dialog of verifyUser finished.  With a password, a    *)
(* live DB and m_pInfo, the password is compared with m_pInfo's; on a      *)
(* mismatch with a positive confirm count the dialog is opened again with  *)
(* the count decremented and no reply, else m_pInfo is deleted and the     *)
(* verdict sent.  The verdict is recorded with whether it agrees with the  *)
(* row as stored at that moment.                                           *)
(***************************************************************************)
VerifyUiSlot ==
    /\ ~destroyed
    /\ \E w \in BagToSet(watchers), a \in UiAnswers :
        /\ w.slot = "verifyUiSlot"
        /\ CASE a.kind \in {"CallError", "Canceled"} ->
                    SlotDone(w) /\ ReplyToMessage("Canceled", TRUE)
                    /\ UNCHANGED info
             [] a.kind = "ForgotPassword" ->
                    SlotDone(w) /\ ReplyToMessage("ForgotPassword", TRUE)
                    /\ UNCHANGED info
             [] a.kind = "Password" /\ ~systemOpened ->
                    SlotDone(w) /\ ReplyToMessage("StoreFailed", TRUE)
                    /\ UNCHANGED info
             [] a.kind = "Password" /\ info # NoInfo ->
                    LET match == info.secret = a.password
                    IN IF ~match /\ RetryAllowed(w.count)
                       THEN VerifyRetry(w)
                       ELSE /\ SlotDone(w)
                            /\ info' = NoInfo
                            /\ ReplyToMessage(IF match THEN "True" ELSE "False",
                                              match = (a.password = row.secret))
             [] OTHER ->
                    SlotDone(w) /\ ReplyToMessage("InternalError", TRUE)
                    /\ UNCHANGED info
    /\ UNCHANGED <<systemOpened, secretsOpen, row, cache, hasId, message,
                   destroyed, nextCall>>

\* SignonDisposable: the idle timer destroys an object whose auto destruction
\* is enabled; its pending watchers, children of the object, go with it.
IdleTimeout ==
    /\ autoDestruct /\ ~destroyed
    /\ destroyed' = TRUE
    /\ watchers' = EmptyBag
    /\ UNCHANGED <<systemOpened, secretsOpen, row, cache, hasId, info, message,
                   autoDestruct, nextCall, replies>>

\* The CAM opens or closes the credentials system or the secrets DB.
CamStateChange ==
    /\ \E opened, open \in BOOLEAN :
        /\ open => opened
        /\ <<opened, open>> # <<systemOpened, secretsOpen>>
        /\ systemOpened' = opened
        /\ secretsOpen' = open
    /\ UNCHANGED <<row, cache, hasId, info, message, watchers, autoDestruct,
                   destroyed, nextCall, replies>>

\* The object serves a new identity, or one whose row holds a secret exactly
\* when it may store one.
Init ==
    /\ systemOpened = TRUE
    /\ secretsOpen \in BOOLEAN
    /\ hasId \in BOOLEAN
    /\ row \in IF hasId
               THEN {r \in Rows : r.stored /\ (r.storeSecret <=> r.secret # Empty)}
               ELSE {[stored |-> FALSE, storeSecret |-> FALSE, secret |-> Empty]}
    /\ cache = {}
    /\ info = NoInfo
    /\ message = NoCall
    /\ watchers = EmptyBag
    /\ autoDestruct = TRUE
    /\ destroyed = FALSE
    /\ nextCall = 1
    /\ replies = [c \in Calls |-> << >>]

Next ==
    \/ \E s \in Passwords, storeSecret \in BOOLEAN : Store(s, storeSecret)
    \/ \E s \in Passwords, storeSecret \in BOOLEAN :
            StoreCredentialsDeprecated(s, storeSecret)
    \/ QueryInfo
    \/ RequestCredentialsUpdate
    \/ \E count \in 0 .. MaxConfirm : VerifyUser(count)
    \/ VerifySecret
    \/ Remove
    \/ QueryUiSlot
    \/ VerifyUiSlot
    \/ IdleTimeout
    \/ CamStateChange

\* signon-ui answers every dialog: the D-Bus call carries SIGNOND_MAX_TIMEOUT,
\* so its watcher finishes, with an error at worst.
Fairness == WF_vars(QueryUiSlot) /\ WF_vars(VerifyUiSlot)

Spec == Init /\ [][Next]_vars /\ Fairness
-----------------------------------------------------------------------------

TypeOK ==
    /\ systemOpened \in BOOLEAN /\ secretsOpen \in BOOLEAN
    /\ row \in Rows
    /\ cache \subseteq Passwords /\ Cardinality(cache) <= 1
    /\ hasId \in BOOLEAN
    /\ info \in Infos \cup {NoInfo}
    /\ message \in Calls \cup {NoCall}
    /\ IsABag(watchers) /\ BagToSet(watchers) \subseteq Watchers
    /\ autoDestruct \in BOOLEAN /\ destroyed \in BOOLEAN
    /\ nextCall \in 1 .. MaxCalls + 1
    /\ replies \in [Calls -> Seq(Replies)]

\* A deferred D-Bus call (requestCredentialsUpdate, verifyUser) is replied
\* to at most once: the UI slots reply to m_message, which must still name
\* the call whose dialog finished.
AtMostOneReplyPerCall ==
    \A c \in Calls : Len(replies[c]) <= 1

\* verifyUser's verdict agrees with the stored secret: verifyUiSlot compares
\* the typed password with m_pInfo, which must still hold the row's secret.
VerifyVerdictMatchesRow ==
    \A c \in Calls : \A i \in 1 .. Len(replies[c]) : replies[c][i].agrees

\* While a dialog is pending the object is pinned (setAutoDestruct(false)),
\* so the idle timer cannot destroy it and drop the dialog's answer.  It
\* says something only with two dialogs pending (CallsWhileUiPending), where
\* the UI slots' setAutoDestruct(true) on entry breaks it; no run checks it.
PinnedWhileUiPending ==
    watchers # EmptyBag => ~autoDestruct

\* Every deferred D-Bus call is eventually replied to.
EveryDeferredCallAnswered ==
    \A c \in Calls : c < nextCall ~> replies[c] # << >>
====
