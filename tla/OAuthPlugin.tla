----------------------------- MODULE OAuthPlugin -----------------------------
(***************************************************************************)
(* The OAuth authentication plugin: OAuthPlugin::process()                 *)
(* (src/src/plugins/oauth/oauthplugin.cpp) driving one                     *)
(* SsoNokiaAccountPlugin object (oauth-accountplugin.c) for the lifetime   *)
(* of the plugin.  process() runs to completion in one step: it sets the   *)
(* proxy, the server URL and the consumer key and secret, logs in and      *)
(* emits result().                                                         *)
(*                                                                         *)
(* The setters and authenticateUser() live in oauth-account-utils.c,      *)
(* which oauthplugin.cpp includes but which is not in the tree: their      *)
(* return values are nondeterministic, and what they store is not tracked. *)
(***************************************************************************)
EXTENDS Naturals, Sequences

CONSTANTS
    Proxies,        \* proxy settings a client may pass (non-empty strings)
    NoProxy,        \* OAuthData::Proxy() empty
    SetterMayFail,  \* setUrl / setConsumerKey / setConsumerSecret may return FALSE
    MaxCalls        \* bound: process() calls in one run

ASSUME NoProxy \notin Proxies
ASSUME SetterMayFail \in BOOLEAN /\ MaxCalls \in Nat

VARIABLES
    proxy,     \* SsoNokiaAccountPlugin::proxy
    calls,     \* process() calls made so far
    results,   \* the error of each result() emitted, in order
    crashed    \* the plugin process dereferenced a null pointer

vars == <<proxy, calls, results, crashed>>

\* mechanisms(): only "REST"; a null mechanism is accepted too.
Mechanisms == {"REST", "null", "other"}
SetterResults == IF SetterMayFail THEN BOOLEAN ELSE {TRUE}

\* SsoPluginResponse of nokiaaccount_plugin_login: whether err is set,
\* response_error, and whether the response byte array is non-NULL.
\* authenticateUser() returns a token, or NULL with a GError, or NULL
\* without one.  Under SSO_MAX_RETRIES the do-while loop repeats only the
\* last case, so with or without the loop (the build does not define it)
\* the final response is one of the three.
LoginResponses ==
    { [err |-> FALSE, error |-> "NONE",    hasResponse |-> TRUE],
      [err |-> TRUE,  error |-> "CODE",    hasResponse |-> FALSE],
      [err |-> FALSE, error |-> "GENERAL", hasResponse |-> FALSE] }

\* sso_nokiaaccount_plugin_set_proxy, called only for a non-empty proxy:
\* an empty one leaves the previous request's setting in place.
ProxyAfter(p) == IF p # NoProxy THEN p ELSE proxy

\* The tail of process() after nokiaaccount_plugin_login: with err set the
\* result is PLUGIN_ERROR_GENERAL, otherwise PLUGIN_ERROR_NONE (carrying
\* response_error if it is not SSO_ERROR_NONE); every branch builds the
\* token from resp->response->data, which is NULL after a failed login.
ReplyToLogin(resp) ==
    IF resp.hasResponse
    THEN /\ results' = Append(results, IF resp.err THEN "PLUGIN_ERROR_GENERAL"
                                                   ELSE "PLUGIN_ERROR_NONE")
         /\ UNCHANGED crashed
    ELSE /\ crashed' = TRUE
         /\ UNCHANGED results

\* OAuthPlugin::process(inData, mechanism).
Process(mech, p, settersOk, resp) ==
    /\ ~crashed
    /\ calls < MaxCalls
    /\ calls' = calls + 1
    /\ IF mech \notin {"REST", "null"}
       THEN /\ results' = Append(results, "PLUGIN_ERROR_MECHANISM_NOT_SUPPORTED")
            /\ UNCHANGED <<proxy, crashed>>
       ELSE /\ proxy' = ProxyAfter(p)
            /\ IF ~settersOk
               THEN /\ results' = Append(results, "PLUGIN_ERROR_MISSING_DATA")
                    /\ UNCHANGED crashed
               ELSE ReplyToLogin(resp)

\* sso_nokiaaccount_plugin_init through the OAuthPlugin constructor.
Init ==
    /\ proxy = NoProxy
    /\ calls = 0
    /\ results = << >>
    /\ crashed = FALSE

Next ==
    \E mech \in Mechanisms, p \in Proxies \cup {NoProxy},
       ok \in SetterResults, resp \in LoginResponses :
        Process(mech, p, ok, resp)

Spec == Init /\ [][Next]_vars

-----------------------------------------------------------------------------
\* Type invariant.
TypeOK ==
    /\ proxy \in Proxies \cup {NoProxy}
    /\ calls \in 0..MaxCalls
    /\ results \in Seq(STRING)
    /\ crashed \in BOOLEAN

\* process() answers every call: every return of OAuthPlugin::process() is
\* preceded by "emit result(response, error)", so each call made by the
\* plugin host gets exactly one result, whatever nokiaaccount_plugin_login
\* returned.
EveryProcessAnswered == Len(results) = calls
=============================================================================
