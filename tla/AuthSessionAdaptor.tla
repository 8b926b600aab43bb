-------------------------- MODULE AuthSessionAdaptor --------------------------
(***************************************************************************)
(* The D-Bus adaptor of an authentication session,                        *)
(* src/src/signond/signonauthsessionadaptor.cpp.  Each method runs to      *)
(* completion in one step of the daemon's event loop: it checks the caller *)
(* and either sends an error reply or forwards the call to the session     *)
(* (SignonAuthSession, not in the tree), which the model records.          *)
(*                                                                         *)
(* The credentials DB is reached through the CAM's credentialsDB(), which  *)
(* is NULL while the credentials system is closed; the CAM opening and     *)
(* closing it is an environment step here.  SignonIdentityInfo's           *)
(* checkMethodAndMechanism and AccessControlManager are not in the tree:   *)
(* an identity's allowed mechanisms (spec section 3) and which identities  *)
(* a peer may use are constants.                                           *)
(***************************************************************************)
EXTENDS Naturals, FiniteSets

CONSTANTS
    Peers,       \* D-Bus peers (processes) that call the session object
    Owner,       \* parent()->ownerPid(): the peer that created the session
    Ids,         \* stored identity ids
    NewIdentity, \* SIGNOND_NEW_IDENTITY
    Mechs,       \* mechanisms a client may ask for
    Acl,         \* allowed mechanisms of each stored identity (method fixed)
    MayUse,      \* identities each peer may use (isPeerAllowedToUseIdentity)
    MaxCalls     \* bound: D-Bus calls in one run

ASSUME Owner \in Peers /\ NewIdentity \notin Ids
ASSUME Acl \in [Ids -> SUBSET Mechs] /\ MayUse \in [Peers -> SUBSET Ids]

VARIABLES
    sessionId,   \* parent()->id()
    dbOpen,      \* CredentialsAccessManager::credentialsDB() # NULL
    forwarded,   \* calls passed on to the SignonAuthSession
    errors,      \* error replies sent: to whom and which
    calls        \* D-Bus calls handled so far

vars == <<sessionId, dbOpen, forwarded, errors, calls>>

\* One D-Bus call handled; nothing else happens in the same step.
Call == calls < MaxCalls /\ calls' = calls + 1

Forward(op, peer, mech) ==
    /\ forwarded' = forwarded \cup {[op |-> op, peer |-> peer, id |-> sessionId, mech |-> mech]}
    /\ UNCHANGED errors

ErrorReply(peer, name) ==
    /\ errors' = errors \cup {[peer |-> peer, name |-> name]}
    /\ UNCHANGED forwarded

\* queryAvailableMechanisms(): owner only.
QueryAvailableMechanisms(peer) ==
    /\ Call
    /\ IF peer # Owner
       THEN ErrorReply(peer, "PermissionDenied")
       ELSE Forward("queryAvailableMechanisms", peer, "none")
    /\ UNCHANGED <<sessionId, dbOpen>>

\* process(): for a stored identity, the mechanism is checked against the
\* identity's record when the credentials DB is there (and not at all when
\* it is NULL); only then is the caller checked to own the session.
Process(peer, mech) ==
    /\ Call
    /\ IF sessionId # NewIdentity /\ dbOpen /\ mech \notin Acl[sessionId]
       THEN ErrorReply(peer, "MethodOrMechanismNotAllowed")
       ELSE IF peer # Owner
            THEN ErrorReply(peer, "PermissionDenied")
            ELSE Forward("process", peer, mech)
    /\ UNCHANGED <<sessionId, dbOpen>>

\* cancel(): owner only; a foreign caller is ignored without a reply.
Cancel(peer) ==
    /\ Call
    /\ IF peer # Owner
       THEN UNCHANGED <<forwarded, errors>>
       ELSE Forward("cancel", peer, "none")
    /\ UNCHANGED <<sessionId, dbOpen>>

\* setId(): owner only, and only to an identity the peer may use.
SetId(peer, id) ==
    /\ Call
    /\ IF peer = Owner /\ id \in MayUse[peer]
       THEN sessionId' = id
       ELSE UNCHANGED sessionId
    /\ UNCHANGED <<forwarded, errors, dbOpen>>

\* The CAM closes or reopens the credentials system (closeCredentialsSystem
\* sets m_pCredentialsDB to NULL; openCredentialsSystem creates it again).
CamStateChange ==
    /\ dbOpen' = ~dbOpen
    /\ UNCHANGED <<sessionId, forwarded, errors, calls>>

Init ==
    /\ sessionId \in Ids \cup {NewIdentity}
    /\ dbOpen = TRUE
    /\ forwarded = {}
    /\ errors = {}
    /\ calls = 0

Next ==
    \/ \E p \in Peers : QueryAvailableMechanisms(p) \/ Cancel(p)
    \/ \E p \in Peers, m \in Mechs : Process(p, m)
    \/ \E p \in Peers, i \in Ids : SetId(p, i)
    \/ CamStateChange

Spec == Init /\ [][Next]_vars

-----------------------------------------------------------------------------
\* Type invariant.
TypeOK ==
    /\ sessionId \in Ids \cup {NewIdentity}
    /\ dbOpen \in BOOLEAN
    /\ calls \in 0..MaxCalls
    /\ \A f \in forwarded : f.peer \in Peers /\ f.id \in Ids \cup {NewIdentity}

\* A session of a stored identity reaches the plugin only with a mechanism
\* that identity allows (spec section 3; section 6: an operation that cannot
\* complete because of a DB error surfaces an error): process() must not
\* forward a mechanism it could not check while the CAM had the
\* credentials system closed.
ForwardedMechanismAllowed ==
    \A f \in forwarded : f.op = "process" /\ f.id # NewIdentity => f.mech \in Acl[f.id]
=============================================================================
