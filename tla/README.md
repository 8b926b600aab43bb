# TLA+ models of signond's credential storage and identity sessions

This directory holds TLA+ models of the parts of `signond` in `src/` that decide
whether credentials can be read and written. These are the
CredentialsAccessManager (CAM), which opens and closes the credential
databases as encryption keys come and go, and the SignonIdentity objects,
which serve one credentials record each to D-Bus clients. Further
models cover the D-Bus adaptor of authentication sessions and the OAuth
plugin's request handling and signature base string. The TLC
configurations here check these models. `PROJECT.json` lists every
component, run, mutant, finding and hazard. It also maps every model
definition to the source lines it translates.

## The system

`signond` is one single-threaded Qt process; the authentication plugins run in plugin processes. Its parts and the state each keeps:

| Part | Source | State | Operations |
|---|---|---|---|
| CredentialsAccessManager | `src/src/signond/credentialsaccessmanager.cpp` | `m_isInitialized`, `m_systemOpened`, `m_pCredentialsDB` (null or not, secrets DB open or not), the queue `m_secureStorageEventNotifiers`, the key authorizer | `init`, `openCredentialsSystem`, `closeCredentialsSystem`, `deleteCredentialsSystem`, the slots `onKeyInserted`, `onKeyRemoved`, `onLastAuthorizedKeyRemoved`, `onKeyAuthorizationQueried`, `onEncryptedFSMounted`, `onEncryptedFSUnmounting`, `customEvent` (SecureStorageEvent) |
| KeyHandler, key authorizer, CryptoManager | not in the tree (spec §4.2) | inserted and authorized keys, pending authorization queries, mount state | signals `keyInserted`, `keyRemoved`, `lastAuthorizedKeyRemoved`, `keyAuthorizationQueried`, `fileSystemMounted` |
| SignonIdentity | `src/src/signond/signonidentity.cpp` | `m_id`, `m_pInfo` (a copy of the record), `m_message` (the call whose reply is deferred), the pending UI watchers, auto-destruction pin | `store`, `storeCredentials` (deprecated), `queryInfo`, `requestCredentialsUpdate`, `verifyUser`, `verifySecret`, `remove`, `signOut`, `addReference`, `removeReference`, the slots `queryUiSlot` and `verifyUiSlot` |
| AuthCoreCache | used at `signonidentity.cpp:528` | (identity, method) → username and secret | insert while the secrets DB is closed |
| SignonUiAdaptor | `src/src/signond/signonui_interface.cpp` | the last watcher | `queryDialog`, `refreshDialog`, `cancelDialog` |
| SignonAuthSessionAdaptor | `src/src/signond/signonauthsessionadaptor.cpp` | none; reads the CAM's `credentialsDB()` | `queryAvailableMechanisms`, `process`, `cancel`, `setId`, with caller-pid and mechanism checks |
| Password and OAuth plugins | `src/src/plugins/` | `isProcessing` (password), the OAuth plugin's proxy | `process`, `cancel`, `userActionFinished` |
| BlobIOHandler | `src/lib/plugins/signon-plugins-common/SignOn/blobiohandler.cpp` | the blob being paged in or out | `sendData`, `receiveData`, `readBlob` |

How the parts interact:
- Key events reach the CAM as directly connected signals. The CAM opens the secrets DB when a key is authorized and the volume is mounted, and closes it when the last authorized key goes.
- A component that finds the secrets DB closed posts a `SecureStorageEvent` to the CAM. The CAM queues the sender, asks the key authorizer (reason `StorageNeeded`) and, when the answer comes, replies to every queued sender that is still alive.
- An identity reads and writes its record through the CAM's `credentialsDB()`. When the secrets DB is closed it caches the secret in AuthCoreCache. Password update and verification go through a signon-ui dialog whose answer arrives later in a slot.

What makes this code hard to test is its suspension points: an authorizer answer, a mount completion and a UI dialog answer each arrive as a later event. Any other handler can run in between: a key removal, a close of the credentials system, another client call, or the idle timer. These interleavings are what the models explore.

## Modules

### `CredentialsAccessManager.tla` (with `MC_CAM.tla`)

Each variable corresponds to a piece of the CAM's state:

| Variable | Code |
|---|---|
| `camInitialized` | `m_isInitialized` |
| `systemOpened` | `m_systemOpened` |
| `metaOpen` | `m_pCredentialsDB != NULL` |
| `secretsOpen` | `isSecretsDBOpen()` |
| `mounted`, `mountPending` | CryptoManager mount state |
| `inserted`, `authorized` | the KeyHandler's key sets |
| `queries` | a bag of authorization queries awaiting an answer |
| `events` | SecureStorageEvents posted but not yet handled |
| `notifiers` | `m_secureStorageEventNotifiers`, in order |
| `alive` | requesters whose QPointer is not null |
| `asked`, `answered` | history counters, per requester |
| `crashed` | the daemon dereferenced a null pointer |

Each action is one handler run to completion, together with every slot it reaches through a direct connection:
- `Start` is `init` followed by `openCredentialsSystem` at daemon start-up.
- `KeyRemoved` runs `onKeyRemoved` and, when the last authorized key goes, `onLastAuthorizedKeyRemoved`.
- `KeyAuthorizationQueried` is the authorizer's answer reaching `onKeyAuthorizationQueried`. It includes the mount it triggers, the secrets-DB open when the mount is synchronous, and `replyToSecureStorageEventNotifiers`.
- `CustomEvent` is `customEvent`.
- `EncryptedFSMounted` is `onEncryptedFSMounted`.
- `OpenCredentialsSystem`, `CloseCredentialsSystem` and `DeleteCredentialsSystem` are the public calls. Deleting closes an opened system; the file deletion itself only sets `m_error`.

The KeyHandler, the authorizer and the CryptoManager are not in the tree. They are modelled from spec §4.2 and §5 by these actions:
- `KeyInserted`
- `KeyRemoved` (its KeyHandler part)
- the answer to a query
- `EncryptedFSMounted`
- `PostSecureStorageEvent` and `DestroyRequester`, which stand for the session objects that post events.

Configuration constants select the code's modes and the collaborators' possible outcomes:
- `UseEncryption`
- `HasExtensionAuthorizer`
- `MountAsync`
- `UnmountMayFail`
- `SecretsOpenMayFail`
- `MetaOpenMayFail`: the metadata DB may fail to open in `openCredentialsSystem`, which then leaves the system closed while `m_pCredentialsDB` is set.

When the code dereferences a null pointer, the model sets `crashed`. After that the only step is `Halted`.

The CAM model is shown to implement `SecureStorage.tla` (below). `SS` is an
`INSTANCE` of it with the refinement mapping
- `sysOpen <- systemOpened`, `storageOpen <- secretsOpen`;
- `keyOk <- ~UseEncryption \/ authorized \cap inserted # {}`;
- `pending <-` the live requesters with fewer answers than events posted.

`SecureStorageRefinement == SS!Spec` is a `PROPERTY` of the `safety` run.

### `SecureStorage.tla`

This module is the abstract specification of what the CAM promises the rest of
the daemon (spec §4.1, §5). It has four variables: the system open, an
authorized key present, the storage open, and the requesters waiting. Its
steps are these:
- open or close the system;
- revoke the key, which closes the storage in the same step;
- decide, which may authorize a key, open the storage inside an open system with a key, and answer some of the waiting requesters;
- a requester asks while the storage is closed, or goes away.

Every CAM step is one of these steps, or leaves the mapped state unchanged.
Examples are a key insertion that only queues a query, or an event queued behind another.

### `IdentitySession.tla` (with `MC_Identity.tla`)

The model is one SignonIdentity object serving one record. Its variables:

| Variable | Code |
|---|---|
| `hasId` | `m_id != SIGNOND_NEW_IDENTITY` |
| `info` | `m_pInfo`: `NoInfo` or a copy of the row |
| `message` | `m_message` |
| `watchers` | the bag of pending UI calls, each bound to `queryUiSlot` or `verifyUiSlot`, with the confirm count |
| `autoDestruct`, `destroyed` | the SignonDisposable pin and the idle timer |
| `row` | the CredentialsDB row: stored, storeSecret, secret |
| `cache` | the AuthCoreCache entry |
| `systemOpened`, `secretsOpen` | the CAM state the identity observes |
| `nextCall`, `replies` | history of deferred D-Bus calls and the replies sent to each |

There is one action per D-Bus method and one per UI slot:
- `Store`, `StoreCredentialsDeprecated`, `QueryInfo`, `RequestCredentialsUpdate`, `VerifyUser`, `VerifySecret`, `Remove`
- `QueryUiSlot`, `VerifyUiSlot`
- `IdleTimeout` (`destroy`)
- `CamStateChange`, the CAM opening or closing storage.

Data is abstracted to what the properties tell apart:
- A secret is a model value or `Empty`.
- A UI answer is one of the kinds the slots branch on.
- A DB call and the Encryptor succeed or fail nondeterministically.

CredentialsDB is not in the tree, so `Credentials` and `WriteRow` are modelled from spec §3 and §4.3. The secret is readable and writable only while the secrets DB is open.

`CallsWhileUiPending` selects the client's behaviour. When it is FALSE, the client waits for a deferred reply before its next call on the identity. When it is TRUE, the client may call at any time.

### `OAuthSignature.tla` (with `MC_OAuth.tla`)

The functions of `oauth-util.c` that build the OAuth 1.0 signature base string are pure. Strings are sequences of byte values, and each C function becomes an operator of the same name:
- `encodeParam`, `decodeParam`, `normalizeUrl`, `strcmp`, `paramCompare`;
- `HasQuery` for `getQuery`;
- `AsciiUp` for `g_ascii_strup`;
- `ParamString` for the join loop;
- `createSignatureBaseString` itself.

`g_array_sort` is libc qsort, which is not stable. It is modelled as the set of every order in which adjacent elements satisfy `paramCompare <= 0`, so `createSignatureBaseString` yields a set of strings. A NULL result is `{}`. The state machine only picks one input; `Next` leaves it unchanged. The reference that the result is checked against, `ReadBaseString`, is the reading a verifying server makes (RFC 5849 §3.4.1): split on `&`, unescape, then split on `&` and `=`.

### `OAuthPlugin.tla` (with `MC_OAuthPlugin.tla`)

`OAuthPlugin::process()` (`oauthplugin.cpp`) drives one `SsoNokiaAccountPlugin` (`oauth-accountplugin.c`) for the plugin's lifetime. One step is one `process()` call run to completion:
- the mechanism check;
- the proxy, URL and consumer key and secret setters;
- `nokiaaccount_plugin_login`;
- `emit result`.

The state is the plugin's stored `proxy`, the number of calls, the errors emitted in order, and `crashed`.

The setters and `authenticateUser()` live in `oauth-account-utils.c`. `oauthplugin.cpp` includes that file, but it is not in the tree, so their results are nondeterministic:
- `SetterMayFail` lets the setters fail.
- `LoginResponses` are the three outcomes the login code distinguishes: a token, an error with a GError, or NULL without one.

`SSO_MAX_RETRIES` is not defined in the build, so the login makes one attempt. The retry loop would only repeat the last outcome, so the set of final responses is the same either way.

`auth`, `logout` and `custom_request` of the account plugin are unreachable: `interface_init` installs none of them.

### `AuthSessionAdaptor.tla` (with `MC_AuthSessionAdaptor.tla`)

There is one action per D-Bus method of `SignonAuthSessionAdaptor`: `QueryAvailableMechanisms`, `Process`, `Cancel` and `SetId`. Each has the guards and error replies of the code, in the code's order. In `process()` the mechanism check comes before the owner check, and it is skipped when `credentialsDB()` is NULL.

What the adaptor forwards to `SignonAuthSession` (not in the tree) is recorded in `forwarded`, and its error replies in `errors`. `dbOpen` stands for `credentialsDB() != NULL`. `CamStateChange` is the CAM closing or reopening the credentials system.

Several collaborators are not in the tree, so they are constants:
- `checkMethodAndMechanism` becomes `Acl`, an identity's allowed mechanisms (spec §3).
- `isPeerAllowedToUseIdentity` becomes `MayUse`.
- The owner pid becomes `Owner`.

### `PasswordPlugin.tla`

`PasswordPlugin` (`passwordplugin.cpp`) runs in a plugin process. The plugin host, which is not in the tree, forwards `process()`, `cancel()` and the signon-ui answer (`userActionFinished`) to it. Each method is one atomic step.

The state:
- `isProcessing` is the file-static flag at line 27;
- `req` and `open` are the host's current request and whether it still waits for that request's reply;
- `dialogs` holds the requests whose `userActionRequired` dialog has not been answered yet;
- `replies` holds the `result` and `error` signals emitted, in order. Each reply carries the request the host takes it for and the request its data came from.

User names and secrets are abstracted to the request they were typed or given for. Whether a name was given only changes which fields the dialog asks for, so `Process` takes only whether a secret was given. `Reply` is `replyResult`/`replyError`: it emits only while `isProcessing`, and clears it.

The host's contract is assumed: it sends the next `process()` only after the previous reply, and `cancel()` only while a request is open. `LateUiAnswers` says whether the host can deliver a dialog's answer after that dialog's request has ended. With `FALSE`, only the answer for the open request reaches the plugin.

### `BlobIOHandler.tla`

This module models one transfer of a session-data blob: `sendData` on the writing side, and `receiveData`/`readBlob` on the reading side. Bytes are counted in units:
- `PageSize` units make a page.
- The size int and each page's QDataStream length prefix are one unit each.

The state is as follows:
- `wire` holds the units written but not yet arrived. `avail` holds those arrived but not yet read.
- `readyRead` records that new bytes arrived since the signal was last emitted, and `notify` that it is connected to `readBlob`.
- `blobSize` and `blobBuffer` are `m_blobSize` and the size of `m_blobBuffer`.
- `emitted` holds the reading side's signals in order.

The operators and actions:
- `pageByteArray` is the page split, written as a recursive operator.
- `FrameRead` is `in >> fractionBa`. It reads a whole page if the page has arrived. Otherwise it consumes what has arrived and yields an empty array, as QDataStream does at the end of its device.
- `Arrive` moves any number of written units to the read channel. `ReadyRead` runs `readBlob` if the signal is connected.

## Runs

The BlobIOHandler and PasswordPlugin runs use their modules directly, with numeric and Boolean constants. Every other run uses one of five MC modules: `MC_CAM` (keys `k1, k2`, requesters `r1, r2`), `MC_Identity` (secrets `s1, s2`), `MC_OAuth` (byte strings) or `MC_AuthSessionAdaptor` (peers `owner, other`, identities `id1, id2`, mechanisms `m1, m2`). The per-run constants are listed with each table.

### `MC_CAM` runs

Bounds: `MaxRequests = 2` events per requester, `MaxPendingQueries = 1` identical queries in flight.

| Run | Expect | Properties | What it shows |
|---|---|---|---|
| `safety` | pass | `TypeOK`, `NoSecretsWithoutAuthorizedKey`, `AtMostOneReplyPerRequest`, `EveryRequestAnswered`, `SecureStorageRefinement` | The run uses synchronous mount and allows metadata-DB and secrets-DB open failures. It explores all interleavings of key events, authorizer answers, events, requester destruction, and close, delete and reopen. In every one, the secrets DB is never open without an authorized key that is present. No request is replied to twice, and every posted SecureStorageEvent of a live requester is eventually answered. Every behaviour is also a behaviour of `SecureStorage`. |
| `secrets_available` | pass | `SecretsEventuallyOpen` | With asynchronous mount and successful unmounts, an open system with an authorized key eventually has its secrets DB open. |
| `mount_race` | violation | `NoSecretsWithoutAuthorizedKey` | The last key is removed while a mount is pending. The mount then completes and `onEncryptedFSMounted` opens the secrets DB without re-checking. |
| `null_db` | violation | `NoNullDereference` | The system is closed, then the last authorized key is removed. `onLastAuthorizedKeyRemoved` → `isSecretsDBOpen()` dereferences the null `m_pCredentialsDB`. |
| `plaintext_hang` | violation | `EveryRequestAnswered` | In plaintext mode the authorizer's answer signal is never connected, so queued requesters wait forever. |

A second null dereference has no run of its own. In plaintext mode with no extension, after the secrets DB fails to open, `customEvent` calls a null `m_keyAuthorizer` (`credentialsaccessmanager.cpp:553`). TLC reports `NoNullDereference` violated through it under `MC_CAM` with `UseEncryption = FALSE`, `HasExtensionAuthorizer = FALSE` and `SecretsOpenMayFail = TRUE`, and the other constants as in `null_db`.

A failed unmount has no run of its own either. `closeSecretsDB` closes the DB, but a failed unmount leaves the volume mounted. A later authorization then finds it mounted, so no mount event comes and the secrets DB is never reopened (`credentialsaccessmanager.cpp:311`; spec §8 asks for a recoverable state). TLC reports `SecretsEventuallyOpen` violated under `MC_CAM` with `MountAsync = FALSE` and `UnmountMayFail = TRUE`, and the other constants as in `null_db`.

### `MC_Identity` runs

Bounds: `MaxCalls = 3` deferred calls, `MaxConfirm = 1`.

| Run | Expect | Properties | What it shows |
|---|---|---|---|
| `identity_safety` | pass | `TypeOK`, `AtMostOneReplyPerCall`, `VerifyVerdictMatchesRow`, `EveryDeferredCallAnswered` | The run assumes a client that waits for each dialog. It allows every DB and decryption failure, and storage opening or closing at any moment. Under those conditions every deferred call is answered exactly once, across the retry loop and the idle timer. verifyUser's verdict agrees with the row. |
| `identity_overwrite` | violation | `AtMostOneReplyPerCall` | Two dialog-opening calls on one identity: `m_message` is overwritten, so one caller is replied to twice and the other never. |
| `identity_stale_info` | violation | `VerifyVerdictMatchesRow` | verifyUser opens its dialog. A deprecated `storeCredentials(s2)` then sets the password in `m_pInfo` in place (line 486), and its database write fails, so the row keeps `s1`. The user types `s2`, and `verifyUiSlot` compares it with `m_pInfo` (line 682), so it reports `s2` as correct although the stored password is `s1`. |

A `queryInfo()` during the dialog breaks the same property in another way. It replaces `m_pInfo` with a copy read without the secret (line 257), so the correct password is rejected.

`PinnedWhileUiPending` (a pending dialog keeps the object pinned) is defined but no run checks it. Under `identity_safety` at most one dialog is pending, so it would only restate `setAutoDestruct(false)`. With `CallsWhileUiPending = TRUE` (the `identity_overwrite` constants), TLC finds it violated at depth 3. Two `requestCredentialsUpdate` calls open two dialogs, and the first `queryUiSlot` re-enables auto destruction while the second dialog is still pending.

A secret stored while the secrets DB is closed lives only in AuthCoreCache, and nothing reconciles it when the DB reopens. Spec §9 leaves open what should happen, so no property claims an intended behaviour. The hazard is listed in `PROJECT.json`.

### `MC_OAuth` run

Inputs: the methods `get` and `POST`; the URLs `h` and `h?a`; names and values from `""`, `a`, `&` and `=`. Each request has at most two parameters and one (pre-encoded) header field. That gives 18,564 inputs.

| Run | Expect | Properties | What it shows |
|---|---|---|---|
| `oauth_base_string` | pass | `TypeOK`, `BaseStringDeterministic`, `BaseStringReadsBack` | Each order that qsort may leave gives the same base string, so the unstable `g_array_sort` cannot make client and server disagree. The string holds no raw `&` or `=` of a value. It reads back as exactly the upper-cased method, the URL and the multiset of signed parameters, so a separator inside a value cannot make two requests share a signature. |

### OAuth plugin: the failed-login crash (no run)

`OAuthPlugin.tla` and `MC_OAuthPlugin.tla` stay in the project, but no run checks them. The plugin cannot be built from this tree, because `oauth-account-utils.c` is missing. To reproduce, check `MC_OAuthPlugin` with `p1 = p1`, `p2 = p2`, `NoProxy = NoProxy`, `Proxies <- MCProxies`, `SetterMayFail = TRUE`, `MaxCalls = 2` and `INVARIANT EveryProcessAnswered`. TLC then reports a violation at depth 2.

Every return of `process()` is preceded by `emit result`. After a failed login, however, `nokiaaccount_plugin_login` leaves `response` NULL (`oauth-accountplugin.c:104`). `process()` then reads `resp->response->data` (`oauthplugin.cpp:145`, `153`), so the plugin process crashes instead of reporting the error.

### `MC_AuthSessionAdaptor` run

Bounds: `MaxCalls = 3`. `id1` allows `m1` and `id2` allows `m2`. The owner may use both identities; `other` may use `id1`.

| Run | Expect | Properties | What it shows |
|---|---|---|---|
| `adaptor_fail_open` | violation | `ForwardedMechanismAllowed` | The CAM closes the credentials system, then the owner calls `process()` on a stored identity's session with a mechanism the identity does not allow. `credentialsDB()` is NULL, so the check is skipped: the code only logs "Null database handler object." and forwards the request. Spec §3 and §6 say an identity's mechanisms restrict its sessions, and that a DB error surfaces as an error. |

The adaptor also checks the mechanism before the owner. A non-owner peer therefore gets `MethodOrMechanismNotAllowed`, whose message lists the allowed mechanisms, rather than `PermissionDenied`. That message text is not modelled, and the hazard is listed in `PROJECT.json`.

### `BlobIOHandler` run

Bounds: `PageSize = 2` units and blobs of 1 to `MaxBlob = 4` units. Those sizes cover a partial page, exactly one page, one and a half pages and exactly two pages. The run has `CHECK_DEADLOCK FALSE` because it models one transfer, after which nothing is left to do.

| Run | Expect | Properties | What it shows |
|---|---|---|---|
| `blob_early_error` | violation | `ReceivedBlobDelivered` | The sender writes a one-page blob. Only the size and the page's length prefix have arrived when the caller calls `receiveData`. `receiveData` calls `readBlob` at once (line 105), and `in >> fractionBa` consumes the prefix and yields an empty array, so `readBlob` emits `error` (lines 117-120). The page's byte arrives afterwards and is never read. The sender wrote the whole blob, but the comment at line 116 says the error is there for a peer that "behaves badly". |

The same property also fails in two other ways:
- **Partial page.** `readyRead` fires for part of a page, `in >> fractionBa` consumes that part, and the transfer errors.
- **Stall.** A two-page blob arrives in full before `receiveData`, and the `readyRead` for those bytes has already gone out. `receiveData` connects `readyRead` and reads the first page. No new bytes arrive, so the second page is never read, and neither `dataReceived` nor `error` is emitted.

The stall is shown apart from the early errors by `ReceiveEnds`, which says a receive ends in either signal. No run checks it. With `PROPERTY ReceiveEnds` and the same constants, TLC finds the stall with a blob of 4 units. `PROJECT.json` lists all three as hazards.

Every property of a passing run has a mutant in `PROJECT.json`: a plausible bug in the mapped code under which TLC finds that property violated.

### `PasswordPlugin` run

Bounds: `MaxRequests = 3` `process()` calls and `LateUiAnswers = TRUE`. The run has `CHECK_DEADLOCK FALSE` because the host stops after its last request.

| Run | Expect | Properties | What it shows |
|---|---|---|---|
| `password_late_answer` | violation | `ResultFromOwnRequest` | Request 1 has no secret, so the plugin opens a dialog. `cancel()` ends request 1 and clears `isProcessing`. Request 2 also has no secret, which sets `isProcessing` again. The user then answers request 1's dialog. `userActionFinished` finds `isProcessing` set and emits that answer as request 2's result, carrying the credentials typed for request 1. The flag is one static `bool` with no request identity. |

With `LateUiAnswers = FALSE` the property holds. The bug therefore depends on whether the host, which is not in the tree, drops the answers to dialogs of cancelled requests.

### Why the bounds are enough

**OAuth run.**
- `&` and `=` are the two bytes that could make the parameter string ambiguous.
- The empty string makes one name a prefix of another for `strcmp`.
- Two parameters with the same name and different values are the tie that `paramCompare` breaks by value, and that a name-only comparison would leave to qsort.
- A header field alongside two parameters checks the mix of encoded and pre-encoded entries.

**CAM runs.**
- Two keys are enough to remove one authorized key while another remains, and to answer a query for a key that has since been removed.
- Two requesters are enough to destroy one while the other waits.
- Two events per requester are enough to queue a requester twice.
- One identical query in flight is enough to cover the per-event queries. `customEvent` issues a `StorageNeeded` query for every event it handles, not only when none is outstanding. So with `MaxPendingQueries = 1` two different queries are already in flight together, which spec §5's single-flight wording does not foresee.

**Identity runs.**
- Three deferred calls are enough for a request followed by two more while the first is pending.
- A confirm count of 1 exercises the retry branch and the stop at zero.
- Two secrets let a typed password differ from the stored one.

**Adaptor and password plugin runs.** The adaptor violation is found at depth 2, well inside the bounds. The password violation needs two requests, and `MaxRequests = 3` leaves room for a third. For the adaptor, three calls are enough for a `setId`, a CAM close and a `process`. Two identities with disjoint mechanisms give every `process` a mechanism that is not allowed.

Raising `MaxRequests` to 3 or `MaxCalls` to 4 showed no new behaviour classes while these bounds were chosen. The safety runs finish in seconds and the liveness runs in under a minute.

### Fairness

**CAM.** There is weak fairness on `CustomEvent`, on the authorizer's answers and on `EncryptedFSMounted`:
- A posted event is always delivered by the Qt event loop.
- Spec §4.2 says the authorizer answers every query.
- A requested mount completes.

There is no fairness on key insertion or removal, on client requests, or on close/reopen. Those are the environment's choices.

**BlobIOHandler.** There is weak fairness on three steps:
- `Arrive`: the kernel delivers what was written.
- `ReadyRead`: the event loop emits the signal for new bytes.
- `ReceiveData`: the caller reads the size once it is there.

Without the last two, the property would fail by mere stuttering rather than through the code.

**Identity.** There is weak fairness on `QueryUiSlot` and `VerifyUiSlot`. signon-ui may answer late or never, but the pending D-Bus call carries `SIGNOND_MAX_TIMEOUT`, so its watcher finishes, with an error at worst. `IdleTimeout` has no fairness: it is a possible step, not a promised one.

## What is not modelled, and why

- **The file deletion in CAM `deleteCredentialsSystem`, plus `finalize` and `CAMConfiguration`.** `deleteCredentialsSystem` is modelled as its close of the system; deleting the volume or the file only sets `m_error`. `finalize` runs only at daemon shutdown and nothing re-initialises the CAM afterwards, so its dangling pointers are never used. `CAMConfiguration` is formatting.
- **Identity `signOut`, `addReference` and `removeReference`.** They change session data and reference lists that no property reads. D-Bus registration is plumbing.
- **SignonUI adaptor (`signonui_interface.cpp`).** Its source does not match its callers. Its `queryDialog` and `refreshDialog` return `void`, keep a single watcher, and connect it to a `callFinished` that is defined nowhere. `SignonIdentity` (`signonidentity.cpp:242`, `:281`), however, wraps a pending call returned by `queryDialog` in a watcher of its own. The header that decides which version is built is not in the tree. The watcher `SignonIdentity` owns is modelled in `IdentitySession`, and `cancelDialog` is not called from `src/src/signond`.
- **SignonAuthSession and the plugin host.** They are not in the tree; the adaptor's forwarded calls are recorded, not executed.
- **OAuth plugin `cancel`, and what the setters store.** `cancel()` has no effect on a synchronous `process()`. The setters' bodies are in the missing `oauth-account-utils.c`. The stored proxy is tracked, but whose request it came from depends on the plugin host, so no property states the stale-proxy hazard.
- **Password plugin `type()` and `mechanisms()`.** They return constants. The plugin host is not in the tree, so its contract is assumed, as stated with `PasswordPlugin.tla`.
- **BlobIOHandler, the rest.** The `QSocketNotifier` variant (`setReadChannelSocketNotifier`), whose activation depends on how the caller's device buffers, is not modelled. Neither is a NULL write channel, nor the `QVariantMap` (de)serialisation, of which only the size matters. The caller that reads the size int is not in the tree. It is modelled as reading the size as soon as it has arrived, and only one transfer is modelled.
- **OAuth HMAC and HTTP.** `createSignature` is HMAC-SHA1 and the account plugin's exchanges are network I/O.

## Plan for further work

1. Liveness for the refinement: `SecureStorage` states safety only, and answering stays in the CAM's `EveryRequestAnswered`.
2. `BlobIOHandler.tla`: a passing run that checks, for the transfers that do complete, that `dataReceived` carries exactly the blob written, and the `QSocketNotifier` variant.
3. A composition of `IdentitySession` and `AuthSessionAdaptor` with the CAM's `secretsOpen`/`systemOpened`/`metaOpen`, replacing their `CamStateChange` steps.
