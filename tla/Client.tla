------------------------------- MODULE Client -------------------------------
(***************************************************************************)
(* The session and its connection: AuthProvider's token is the token prop  *)
(* of useWebSocket.  The component that wires them (RPlaceClone) is not    *)
(* under src/; spec.md section 6 gives the contract: the auth provider     *)
(* supplies the token the connection manager appends to its URL, and a     *)
(* token change restarts the connection.  Here the hook is enabled and     *)
(* its token is authState.token, so a sign-in, sign-out or renewal that    *)
(* changes the token re-renders the hook, whose effect on [enabled, token] *)
(* runs its cleanup (disconnect) and then connect().                       *)
(*                                                                         *)
(* Effects run child first: the hook's mount effect can run before         *)
(* AuthProvider's initialisation effect has read the stored token.         *)
(***************************************************************************)
EXTENDS Naturals

CONSTANTS
    NoToken, Public, MaxRequests,
    WS_RECONNECT_DELAY, WS_MAX_RECONNECT_ATTEMPTS, WS_RECONNECT_BACKOFF_FACTOR,
    WS_MAX_RECONNECT_DELAY, RESET_DELAY, StrictMode, MaxFaults, MaxUserOps

VARIABLES
    auth, stored, inflight, issued, requests, mounted, authEnabled,
    hook, phase, faults, userOps

authVars == <<auth, stored, inflight, issued, requests, mounted, authEnabled>>
wsVars == <<hook, phase, faults, userOps>>
vars == <<authVars, wsVars>>

\* The page runs with authentication on: authEnabled starts TRUE and the
\* session's steps keep it.
Auth == INSTANCE AuthProvider WITH AuthEnabledValues <- {TRUE}

\* The tokens the session can hold: the one a previous visit stored, those
\* the server issues, and 'public'.
SessionTokens == (0..MaxRequests) \cup {Public}

\* useWebSocket(enabled, token) as the page calls it.
HookProps == [enabled |-> TRUE, token |-> auth.token]

WS == INSTANCE WebSocketHook WITH Tokens <- SessionTokens, props <- HookProps

Init == Auth!Init /\ WS!Init

\* The hook's mount effect has run.  RPlaceClone is a descendant of
\* AuthProvider and effects run child first, so AuthProvider's
\* initialisation effect, and every session step after it, comes later.
HookCommitted == phase # "rendered"

\* A session step that keeps the token: the hook re-renders with the same
\* props and its effect does not run.
AuthStep ==
    /\ HookCommitted
    /\ Auth!Next
    /\ HookProps' = HookProps
    /\ UNCHANGED wsVars

\* A session step that changes the token.  While the hook is mounted React
\* runs the old effect's cleanup (disconnect) and then the effect for the
\* new props (connect, which may throw); an unmounted hook ignores it.
TokenChange ==
    /\ HookCommitted
    /\ Auth!Next
    /\ HookProps' # HookProps
    /\ IF phase = "mounted"
       THEN \E t \in BOOLEAN :
               /\ faults + WS!Throws(t) <= MaxFaults
               /\ faults' = faults + WS!Throws(t)
               /\ hook' = WS!Effect(WS!Disconnect(hook), HookProps', t)
               /\ UNCHANGED <<phase, userOps>>
       ELSE UNCHANGED wsVars

\* The hook's own tasks: its mount, timers, socket events, resetConnection
\* and unmount.  Its props come from the session, so none changes them.
HookStep == UNCHANGED authVars /\ WS!Next

Next == AuthStep \/ TokenChange \/ HookStep

Spec == Init /\ [][Next]_vars

(***************************************************************************)
(* Properties.                                                             *)
(***************************************************************************)

\* spec.md sections 4.2, 5 and 6: through every sign-in, renewal and
\* sign-out, the only live socket is the hook's current one, opened with
\* the session's current token.
OnlyCurrentSocket == WS!OnlyCurrentSocket

=============================================================================
