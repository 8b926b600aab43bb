---------------------------- MODULE SecureStorage ----------------------------
(***************************************************************************)
(* What the CredentialsAccessManager promises the rest of signond (spec.md *)
(* sections 4.1 and 5), without keys, mounts, queries or event queues:     *)
(*                                                                         *)
(*  - the secure storage is open only while the credentials system is      *)
(*    open and an authorized key is present;                               *)
(*  - losing the key or closing the system closes the storage in the same  *)
(*    step;                                                                *)
(*  - a component that finds the storage closed asks once and waits; it is *)
(*    answered at most once, and only while it waits.                      *)
(*                                                                         *)
(* CredentialsAccessManager.tla is shown to implement this module: see     *)
(* SecureStorageRefinement there.                                          *)
(***************************************************************************)
CONSTANTS Requesters

VARIABLES
    sysOpen,      \* the credentials system is open
    keyOk,        \* an authorized key is present (always, without encryption)
    storageOpen,  \* the secure storage (secrets DB) is open
    pending       \* requesters waiting for their answer

vars == <<sysOpen, keyOk, storageOpen, pending>>

Init ==
    /\ sysOpen = FALSE
    /\ keyOk \in BOOLEAN
    /\ storageOpen = FALSE
    /\ pending = {}

\* The system opens; the storage may open with it, if a key is there.
OpenSystem ==
    /\ ~sysOpen
    /\ sysOpen' = TRUE
    /\ storageOpen' \in IF keyOk THEN BOOLEAN ELSE {FALSE}
    /\ UNCHANGED <<keyOk, pending>>

\* The system closes, and the storage with it.
CloseSystem ==
    /\ sysOpen
    /\ sysOpen' = FALSE
    /\ storageOpen' = FALSE
    /\ UNCHANGED <<keyOk, pending>>

\* The last authorized key goes: the storage closes in the same step.
Revoke ==
    /\ keyOk' = FALSE
    /\ storageOpen' = FALSE
    /\ UNCHANGED <<sysOpen, pending>>

\* An authorization decision: a key may become authorized, the storage may
\* open (only with the system open and a key), and some of the waiting
\* requesters are answered.  Nothing is revoked or closed by a decision.
Decide ==
    /\ keyOk' \in {keyOk, TRUE}
    /\ storageOpen' \in IF storageOpen THEN {TRUE}
                        ELSE IF sysOpen /\ keyOk' THEN BOOLEAN ELSE {FALSE}
    /\ pending' \in SUBSET pending
    /\ UNCHANGED sysOpen

\* A requester finds the storage closed and asks for it.
Ask(r) ==
    /\ r \notin pending
    /\ ~storageOpen
    /\ pending' = pending \cup {r}
    /\ UNCHANGED <<sysOpen, keyOk, storageOpen>>

\* A waiting requester goes away; it will never be answered.
Leave(r) ==
    /\ r \in pending
    /\ pending' = pending \ {r}
    /\ UNCHANGED <<sysOpen, keyOk, storageOpen>>

Next ==
    \/ OpenSystem \/ CloseSystem \/ Revoke \/ Decide
    \/ \E r \in Requesters : Ask(r) \/ Leave(r)

Spec == Init /\ [][Next]_vars

\* The storage is open only inside an open system holding a key.
StorageGuarded == storageOpen => sysOpen /\ keyOk
=============================================================================
