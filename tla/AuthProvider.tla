---------------------------- MODULE AuthProvider ----------------------------
(***************************************************************************)
(* The session of the pixel canvas client: AuthProvider                    *)
(* (src/frontend/src/components/auth/AuthProvider.tsx).  It keeps          *)
(* authState in React state and the token in localStorage, and publishes  *)
(* the token that the connection hook appends to its URL.                  *)
(*                                                                         *)
(* signIn and renewToken each await one fetch: the code before the await   *)
(* is one step, the code after it another, and other handlers run in      *)
(* between.  A request in flight is a record in `inflight`; renewToken's   *)
(* keeps the token its closure read.  The server answers with a fresh     *)
(* token, numbered by `issued`, or fails (any non-ok status, a network    *)
(* error or a bad body: all reach the same catch).                         *)
(***************************************************************************)
EXTENDS Naturals, FiniteSets

CONSTANTS
    AuthEnabledValues, \* the values the authEnabled prop may take
    NoToken,       \* null
    Public,        \* the 'public' token used when auth is disabled
    MaxRequests    \* bound: signIn and renewToken calls

VARIABLES
    auth,      \* authState: [isAuthenticated, token, loading, error]
    stored,    \* localStorage[AUTH_TOKEN_KEY], or NoToken
    inflight,  \* requests awaiting their fetch
    issued,    \* tokens the server has issued; token 0 predates the page
    requests,  \* requests made so far
    mounted,   \* the first commit has run the effects
    authEnabled  \* the authEnabled prop (config.authEnabled)

vars == <<auth, stored, inflight, issued, requests, mounted, authEnabled>>

SignedOut ==
    [isAuthenticated |-> FALSE, token |-> NoToken, loading |-> FALSE, error |-> FALSE]

Init ==
    /\ auth = SignedOut
    /\ stored \in {NoToken, 0}   \* a token a previous visit may have left
    /\ inflight = {}
    /\ issued = 0
    /\ requests = 0
    /\ mounted = FALSE
    /\ authEnabled \in AuthEnabledValues

\* The token a successful fetch returns.
Fresh == issued + 1

\* signOut(): googleLogout, clear the state, clear the storage.
SignOutOp ==
    /\ auth' = SignedOut
    /\ stored' = NoToken

\* The initialisation effect on [authEnabled]: the public session when auth
\* is off, else the session of a stored token.  StrictMode runs it twice;
\* it is idempotent.
Mount ==
    /\ ~mounted
    /\ auth' = IF ~authEnabled
               THEN [isAuthenticated |-> TRUE, token |-> Public,
                     loading |-> FALSE, error |-> FALSE]
               ELSE IF stored # NoToken
               THEN [auth EXCEPT !.token = stored, !.isAuthenticated = TRUE]
               ELSE auth
    /\ mounted' = TRUE
    /\ UNCHANGED <<stored, inflight, issued, requests>>

\* signIn(), up to its await: loading on, error cleared, request sent.
SignInStart ==
    /\ mounted
    /\ requests < MaxRequests
    /\ auth' = [auth EXCEPT !.loading = TRUE, !.error = FALSE]
    /\ inflight' = inflight \cup {[id |-> requests, kind |-> "signIn", token |-> NoToken]}
    /\ requests' = requests + 1
    /\ UNCHANGED <<stored, issued, mounted>>

\* signIn(), after its await: the new session and its stored token, or
\* loading off with the error.
SignInDone(r, ok) ==
    /\ r.kind = "signIn"
    /\ inflight' = inflight \ {r}
    /\ IF ok
       THEN /\ auth' = [isAuthenticated |-> TRUE, token |-> Fresh,
                        loading |-> FALSE, error |-> FALSE]
            /\ stored' = Fresh
            /\ issued' = Fresh
       ELSE /\ auth' = [auth EXCEPT !.loading = FALSE, !.error = TRUE]
            /\ UNCHANGED <<stored, issued>>
    /\ UNCHANGED <<requests, mounted>>

\* signOut() called by the page.
SignOut ==
    /\ mounted
    /\ SignOutOp
    /\ UNCHANGED <<inflight, issued, requests, mounted>>

\* renewToken(), up to its await: nothing without a token, else the
\* request carries the token the closure read.
RenewStart ==
    /\ mounted
    /\ requests < MaxRequests
    /\ auth.token # NoToken
    /\ inflight' = inflight \cup {[id |-> requests, kind |-> "renew", token |-> auth.token]}
    /\ requests' = requests + 1
    /\ UNCHANGED <<auth, stored, issued, mounted>>

\* The catch of renewToken: log, then signOut().
RenewFailed == SignOutOp

\* Mutant: a successful renewal updates the state but not the storage.
RenewedStateOnly == auth' = [auth EXCEPT !.token = Fresh] /\ UNCHANGED stored

\* A successful renewal: the new token into the state and the storage.
Renewed == auth' = [auth EXCEPT !.token = Fresh] /\ stored' = Fresh

\* renewToken(), after its await.
RenewDone(r, ok) ==
    /\ r.kind = "renew"
    /\ inflight' = inflight \ {r}
    /\ IF ok
       THEN Renewed /\ issued' = Fresh
       ELSE RenewFailed /\ UNCHANGED issued
    /\ UNCHANGED <<requests, mounted>>

\* The prop keeps its value while the provider is mounted.
Next ==
    /\ \/ Mount
       \/ SignInStart
       \/ SignOut
       \/ RenewStart
       \/ \E r \in inflight, ok \in BOOLEAN : SignInDone(r, ok) \/ RenewDone(r, ok)
    /\ UNCHANGED authEnabled

Spec == Init /\ [][Next]_vars

(***************************************************************************)
(* Properties.                                                             *)
(***************************************************************************)

\* A reload restores the session the user had: once mounted with auth on,
\* localStorage holds exactly the token of authState, after any order of
\* sign-ins, sign-outs, renewals and their late answers.
StorageMatchesState == mounted /\ authEnabled => stored = auth.token

\* A renewal answers for the server session it renewed: when renewToken's
\* fetch completes, success or failure, and the state no longer holds the
\* token the request carried (the user signed out, or signed in again,
\* while it was in flight), or that token is the 'public' one of a page
\* with auth off (which the expiration effect treats as no session), the
\* answer leaves authState and the stored token alone: it neither revives
\* a signed-out session, nor ends a newer or a public one.
RenewAnswersOwnSession ==
    [][ \A r \in inflight :
           (/\ r.kind = "renew"
            /\ r \notin inflight'
            /\ r.token # auth.token \/ r.token = Public)
              => (auth' = auth /\ stored' = stored) ]_vars

=============================================================================
