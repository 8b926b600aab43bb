---------------------------- MODULE PasswordPlugin ----------------------------
(***************************************************************************)
(* The password plugin (src/src/plugins/password/passwordplugin.cpp) in    *)
(* its plugin process, driven by the plugin host, which forwards process(), *)
(* cancel() and the signon-ui answer (userActionFinished) from signond.    *)
(* Each plugin method runs to completion in one step.  The host is not in  *)
(* the tree; it sends the next process() only once the previous request    *)
(* got its result or error, and cancel() only while a request is open.     *)
(* LateUiAnswers says whether a dialog's answer can still reach the plugin *)
(* after its request was answered (the host does not filter answers).      *)
(*                                                                         *)
(* User names and secrets are abstracted to where a reply's data came      *)
(* from: the request's own input, or the dialog opened for a request.      *)
(***************************************************************************)
EXTENDS Naturals, Sequences

CONSTANTS
    MaxRequests,    \* bound: process() calls the host makes
    LateUiAnswers   \* a dialog's answer may arrive after its request ended

ASSUME MaxRequests \in Nat /\ LateUiAnswers \in BOOLEAN

VARIABLES
    isProcessing,   \* the file-static isProcessing flag
    req,            \* the host's current request (0: none yet)
    open,           \* the host waits for the reply to req
    dialogs,        \* requests whose dialog (userActionRequired) is pending
    replies         \* result() and error() emitted, with the request the
                    \* host takes them for and the request the data is from

vars == <<isProcessing, req, open, dialogs, replies>>

UiErrors == {"QUERY_ERROR_NONE", "QUERY_ERROR_CANCELED", "QUERY_ERROR_OTHER"}

\* replyResult / replyError: emitted only while isProcessing, which they
\* clear; the host takes the signal as the answer to its current request.
Reply(kind, from) ==
    IF isProcessing
    THEN /\ replies' = Append(replies, [kind |-> kind, req |-> req, from |-> from])
         /\ isProcessing' = FALSE
         /\ open' = FALSE
    ELSE UNCHANGED <<replies, isProcessing, open>>

\* process(inData, mechanism): with a secret the reply is immediate;
\* without one a dialog asks the user (name too if it is missing).
Process(hasSecret) ==
    /\ ~open
    /\ req < MaxRequests
    /\ req' = req + 1
    /\ IF hasSecret
       THEN /\ replies' = Append(replies, [kind |-> "result", req |-> req + 1, from |-> req + 1])
            /\ isProcessing' = FALSE
            /\ open' = FALSE
            /\ UNCHANGED dialogs
       ELSE /\ isProcessing' = TRUE
            /\ open' = TRUE
            /\ dialogs' = dialogs \cup {req + 1}
            /\ UNCHANGED replies

\* cancel(): replyError(SessionCanceled).
Cancel ==
    /\ open
    /\ Reply("error", req)
    /\ UNCHANGED <<req, dialogs>>

\* userActionFinished(data) for the dialog of request d: the user's name
\* and secret on QUERY_ERROR_NONE, an error otherwise.
UserActionFinished(d, code) ==
    /\ d \in dialogs
    /\ LateUiAnswers \/ (open /\ d = req)
    /\ dialogs' = dialogs \ {d}
    /\ IF code = "QUERY_ERROR_NONE"
       THEN Reply("result", d)
       ELSE Reply("error", d)
    /\ UNCHANGED req

Init ==
    /\ isProcessing = FALSE
    /\ req = 0
    /\ open = FALSE
    /\ dialogs = {}
    /\ replies = << >>

Next ==
    \/ \E s \in BOOLEAN : Process(s)
    \/ Cancel
    \/ \E d \in dialogs, c \in UiErrors : UserActionFinished(d, c)

Spec == Init /\ [][Next]_vars

-----------------------------------------------------------------------------
\* Type invariant.
TypeOK ==
    /\ isProcessing \in BOOLEAN /\ open \in BOOLEAN
    /\ req \in 0..MaxRequests
    /\ dialogs \subseteq 1..MaxRequests
    /\ \A i \in 1..Len(replies) : replies[i].kind \in {"result", "error"}

\* A result carries the user name and secret given for the request it
\* answers: the isProcessing guard of replyResult must not let the answer
\* of a dialog opened for an earlier, cancelled request become the result
\* of the request the host is waiting on now.
ResultFromOwnRequest ==
    \A i \in 1..Len(replies) :
        replies[i].kind = "result" => replies[i].from = replies[i].req
=============================================================================
