---------------------------- MODULE WebSocketHook ----------------------------
(***************************************************************************)
(* The connection manager of the pixel canvas client: the React hook       *)
(* useWebSocket (src/frontend/src/hooks/useWebSocket.ts).                  *)
(*                                                                         *)
(* The hook keeps its state in refs (wsRef, reconnectTimeoutRef,           *)
(* reconnectAttemptsRef, isManuallyClosedRef) and in the React state       *)
(* connectionState.  All of it is the record variable `hook`, so that the  *)
(* JavaScript functions connect() and disconnect(), which the effects and  *)
(* timers call one after the other inside a single task, are operators     *)
(* from hook records to hook records and compose by application.           *)
(*                                                                         *)
(* Every browser task (an effect commit, a timer callback, a socket event  *)
(* handler) is one atomic step: JavaScript runs one task at a time.        *)
(* hook.sockets maps an id to every WebSocket object the hook created      *)
(* whose close event has not yet run, with the closure values (enabled,    *)
(* token) of the connect() call that created it, which its handlers keep   *)
(* using.  hook.timers maps an id to every timer not yet fired or cleared. *)
(* Ids are reused once freed; no ref can hold a freed id (see TimerFires). *)
(***************************************************************************)
EXTENDS Naturals, Sequences, FiniteSets, Functions

CONSTANTS
    Tokens,                      \* non-empty session tokens (model values)
    NoToken,                     \* the null token
    WS_RECONNECT_DELAY,
    WS_MAX_RECONNECT_ATTEMPTS,
    WS_RECONNECT_BACKOFF_FACTOR,
    WS_MAX_RECONNECT_DELAY,
    RESET_DELAY,                 \* the 100 ms of resetConnection's setTimeout
    StrictMode,                  \* React.StrictMode double-runs mount effects
    MaxFaults,                   \* bound: network faults and constructor throws
    MaxUserOps                   \* bound: prop changes, resets and the unmount

ASSUME NoToken \notin Tokens
ASSUME StrictMode \in BOOLEAN
ASSUME WS_MAX_RECONNECT_ATTEMPTS \in Nat \ {0}

VARIABLES
    hook,      \* refs and connectionState of the hook, sockets and timers
    props,     \* [enabled, token] of the component's latest render
    phase,     \* "rendered", "mounted" or "unmounted"
    faults,    \* network faults injected so far
    userOps    \* user-driven operations so far

vars == <<hook, props, phase, faults, userOps>>

NoSocket == 0
NoTimer == 0

\* The closure values a connect() captures.
Env == [enabled : BOOLEAN, token : Tokens \cup {NoToken}]

\* A WebSocket object: its readyState and the events the browser has queued
\* for it ("error" = an error event followed by a close event).
ReadyStates == {"CONNECTING", "OPEN", "CLOSING"}   \* CLOSED ones leave the model
Pending == {"none", "error", "close"}
Socket == [rs : ReadyStates, pend : Pending, env : Env]

\* A setTimeout callback: a reconnect from onclose, or resetConnection's.
\* attempt is the reconnectAttemptsRef value the log line reports.
Timer == [kind : {"retry", "reset"}, env : Env, attempt : Nat, delay : Nat]

Errors == {"none", "conn_error", "terminal", "create_failed"}
ConnState == [isConnected : BOOLEAN, isConnecting : BOOLEAN,
              error : Errors, reconnectAttempts : Nat]

InitialConnState ==
    [isConnected |-> FALSE, isConnecting |-> FALSE,
     error |-> "none", reconnectAttempts |-> 0]

InitialHook ==
    [sockets |-> <<>>, timers |-> <<>>,   \* empty functions
     wsRef |-> NoSocket, timerRef |-> NoTimer,
     attempts |-> 0, manual |-> FALSE, state |-> InitialConnState]

Init ==
    /\ hook = InitialHook
    /\ props \in Env
    /\ phase = "rendered"
    /\ faults = 0
    /\ userOps = 0

\* The least id not in use by f.
FreeId(f) == CHOOSE n \in 1..(Cardinality(DOMAIN f) + 1) : n \notin DOMAIN f

\* f with x added under a fresh id.
AddEntry(f, x) ==
    LET n == FreeId(f) IN [i \in DOMAIN f \cup {n} |-> IF i = n THEN x ELSE f[i]]

\* f without the entry k.
Drop(f, k) == Restrict(f, DOMAIN f \ {k})

(***************************************************************************)
(* Helpers translated from the hook.                                       *)
(***************************************************************************)

\* Mutant: the exponent counts from the incremented attempt number.
BackoffExpOffByOne(k) ==
    LET d == WS_RECONNECT_DELAY * WS_RECONNECT_BACKOFF_FACTOR ^ k
    IN  IF d < WS_MAX_RECONNECT_DELAY THEN d ELSE WS_MAX_RECONNECT_DELAY

\* The delay onclose computes for the k-th reconnect attempt.
\* reconnectDelayRef is only ever assigned WS_RECONNECT_DELAY.
Backoff(k) ==
    LET d == WS_RECONNECT_DELAY * WS_RECONNECT_BACKOFF_FACTOR ^ (k - 1)
    IN  IF d < WS_MAX_RECONNECT_DELAY THEN d ELSE WS_MAX_RECONNECT_DELAY

\* WebSocket.close(): a connecting socket fails (error, then close event);
\* an open one starts the closing handshake; otherwise nothing happens.
CloseSocket(sk) ==
    CASE sk.rs = "CONNECTING" -> [sk EXCEPT !.rs = "CLOSING", !.pend = "error"]
      [] sk.rs = "OPEN" ->
            [sk EXCEPT !.rs = "CLOSING",
                       !.pend = IF sk.pend = "none" THEN "close" ELSE sk.pend]
      [] OTHER -> sk

\* disconnect(): mark the closure deliberate, cancel the timer the ref
\* holds, close the socket the ref holds, reset state and counters.
Disconnect(h) ==
    [h EXCEPT
        !.manual = TRUE,
        !.timers = IF h.timerRef # NoTimer THEN Drop(h.timers, h.timerRef)
                   ELSE h.timers,
        !.timerRef = NoTimer,
        !.sockets = IF h.wsRef # NoSocket
                    THEN [h.sockets EXCEPT ![h.wsRef] = CloseSocket(@)]
                    ELSE h.sockets,
        !.wsRef = NoSocket,
        !.state = InitialConnState,
        !.attempts = 0]

\* connect() of a render whose closure holds env.  It returns early only
\* when disabled, without a token, or when the ref's socket is OPEN (a
\* CONNECTING socket is replaced).  `throws`: new WebSocket() threw.
Connect(h, env, throws) ==
    IF \/ ~env.enabled
       \/ env.token = NoToken
       \/ h.wsRef # NoSocket /\ h.sockets[h.wsRef].rs = "OPEN"
    THEN h
    ELSE IF throws
    THEN [h EXCEPT !.manual = FALSE,
                   !.state = [@ EXCEPT !.isConnecting = FALSE,
                                       !.error = "create_failed"]]
    ELSE [h EXCEPT !.manual = FALSE,
                   !.state = [@ EXCEPT !.isConnecting = TRUE, !.error = "none"],
                   !.sockets = AddEntry(@, [rs |-> "CONNECTING", pend |-> "none",
                                            env |-> env]),
                   !.wsRef = FreeId(h.sockets)]

\* The body of the effect on [enabled, token, connect, disconnect].
Effect(h, env, throws) ==
    IF env.enabled /\ env.token # NoToken
    THEN Connect(h, env, throws)
    ELSE Disconnect(h)

\* The number of constructor throws a step injects.
Throws(t) == IF t THEN 1 ELSE 0

\* Mutant: onopen spreads the previous state and leaves isConnecting on.
OnOpenKeepsConnecting(h) ==
    [h EXCEPT !.state = [@ EXCEPT !.isConnected = TRUE, !.error = "none",
                                  !.reconnectAttempts = h.attempts],
              !.attempts = 0]

\* ws.onopen: publish the connection, then reset the retry counter.
OnOpenHandler(h) ==
    [h EXCEPT !.state = [isConnected |-> TRUE, isConnecting |-> FALSE,
                         error |-> "none", reconnectAttempts |-> h.attempts],
              !.attempts = 0]

\* ws.onerror
OnErrorHandler(h) ==
    [h EXCEPT !.state = [@ EXCEPT !.isConnecting = FALSE, !.error = "conn_error"]]

\* Mutant: onclose resets isConnecting but leaves isConnected on.
OnCloseKeepsConnected(h) ==
    [h EXCEPT !.wsRef = NoSocket, !.state.isConnecting = FALSE]

\* The first statements of ws.onclose: clear wsRef, whatever socket it
\* holds, and both indicators.
OnCloseClears(h) ==
    [h EXCEPT !.wsRef = NoSocket,
              !.state = [@ EXCEPT !.isConnected = FALSE, !.isConnecting = FALSE]]

\* Mutant: the retry guard compares the incremented count with the cap.
RetryOffByOne(h, env) ==
    ~h.manual /\ h.attempts + 1 < WS_MAX_RECONNECT_ATTEMPTS /\ env.enabled

\* Mutant: the retry guard lets one attempt past the cap.
RetryPastCap(h, env) ==
    ~h.manual /\ h.attempts <= WS_MAX_RECONNECT_ATTEMPTS /\ env.enabled

\* onclose retries unless the close was deliberate, the attempts are used
\* up, or the closure's enabled is false.
ShouldRetry(h, env) ==
    ~h.manual /\ h.attempts < WS_MAX_RECONNECT_ATTEMPTS /\ env.enabled

\* ws.onclose of a socket whose connect() closure held env: schedule the
\* next attempt, or report the terminal error once the cap is reached.
OnCloseHandler(h, env) ==
    LET h1 == OnCloseClears(h)
        n  == h.attempts + 1
    IN  IF ShouldRetry(h, env)
        THEN [h1 EXCEPT
                !.attempts = n,
                !.state.reconnectAttempts = n,
                !.timers = AddEntry(@, [kind |-> "retry", env |-> env,
                                        attempt |-> n, delay |-> Backoff(n)]),
                !.timerRef = FreeId(h.timers)]
        ELSE IF h.attempts >= WS_MAX_RECONNECT_ATTEMPTS
        THEN [h1 EXCEPT !.state.error = "terminal"]
        ELSE h1

(***************************************************************************)
(* Actions: React commits, user operations, timers and socket events.      *)
(***************************************************************************)

\* The first commit runs the mount effects; under StrictMode React runs
\* them, runs both cleanups (disconnect twice), and runs them again.
Mount ==
    /\ phase = "rendered"
    /\ \E t1, t2 \in BOOLEAN :
          /\ faults + Throws(t1) + Throws(t2) <= MaxFaults
          /\ faults' = faults + Throws(t1) + Throws(t2)
          /\ hook' = IF StrictMode
                     THEN Effect(Disconnect(Disconnect(Effect(hook, props, t1))),
                                 props, t2)
                     ELSE Effect(hook, props, t1) 
          /\ t2 => StrictMode
    /\ phase' = "mounted"
    /\ UNCHANGED <<props, userOps>>

\* A render with new enabled/token: React runs the old effect's cleanup
\* (disconnect) and then the new effect.
PropsChange ==
    /\ phase = "mounted"
    /\ userOps < MaxUserOps
    /\ \E e \in Env \ {props}, t \in BOOLEAN :
          /\ faults + Throws(t) <= MaxFaults
          /\ faults' = faults + Throws(t)
          /\ props' = e
          /\ hook' = Effect(Disconnect(hook), e, t)
    /\ userOps' = userOps + 1
    /\ UNCHANGED phase

\* resetConnection(): disconnect, then connect() after 100 ms through a
\* timer that no ref keeps.
ResetConnection ==
    /\ phase = "mounted"
    /\ userOps < MaxUserOps
    /\ LET h1 == Disconnect(hook)
       IN  hook' = IF props.enabled /\ props.token # NoToken
                   THEN [h1 EXCEPT !.timers =
                           AddEntry(@, [kind |-> "reset", env |-> props,
                                        attempt |-> 0, delay |-> RESET_DELAY])]
                   ELSE h1
    /\ userOps' = userOps + 1
    /\ UNCHANGED <<props, phase, faults>>

\* Unmount: the cleanups of both effects call disconnect().
Unmount ==
    /\ phase = "mounted"
    /\ userOps < MaxUserOps
    /\ hook' = Disconnect(Disconnect(hook))
    /\ phase' = "unmounted"
    /\ userOps' = userOps + 1
    /\ UNCHANGED <<props, faults>>

\* A timer callback runs the connect() of the closure that scheduled it.
\* reconnectTimeoutRef keeps a fired timer's id, where clearTimeout() on it
\* is a no-op: the model clears the ref instead, which acts the same.
TimerFires(i) ==
    /\ \E t \in BOOLEAN :
          /\ faults + Throws(t) <= MaxFaults
          /\ faults' = faults + Throws(t)
          /\ hook' = Connect([hook EXCEPT
                                !.timers = Drop(@, i),
                                !.timerRef = IF @ = i THEN NoTimer ELSE @],
                             hook.timers[i].env, t)
    /\ UNCHANGED <<props, phase, userOps>>

\* The server accepts the connection: readyState OPEN, then onopen.
SocketOpens(i) ==
    /\ hook.sockets[i].rs = "CONNECTING"
    /\ hook.sockets[i].pend = "none"
    /\ hook' = OnOpenHandler([hook EXCEPT !.sockets[i].rs = "OPEN"])
    /\ UNCHANGED <<props, phase, faults, userOps>>

\* The connection fails or is lost: the browser queues error and close.
SocketFails(i) ==
    /\ faults < MaxFaults
    /\ hook.sockets[i].rs \in {"CONNECTING", "OPEN"}
    /\ hook.sockets[i].pend = "none"
    /\ hook' = [hook EXCEPT !.sockets[i].pend = "error"]
    /\ faults' = faults + 1
    /\ UNCHANGED <<props, phase, userOps>>

\* The server closes an open connection cleanly: only close is queued.
ServerCloses(i) ==
    /\ faults < MaxFaults
    /\ hook.sockets[i].rs = "OPEN"
    /\ hook.sockets[i].pend = "none"
    /\ hook' = [hook EXCEPT !.sockets[i].rs = "CLOSING",
                            !.sockets[i].pend = "close"]
    /\ faults' = faults + 1
    /\ UNCHANGED <<props, phase, userOps>>

\* The queued error event runs ws.onerror.
OnError(i) ==
    /\ hook.sockets[i].pend = "error"
    /\ hook' = OnErrorHandler([hook EXCEPT !.sockets[i].pend = "close"])
    /\ UNCHANGED <<props, phase, faults, userOps>>

\* The queued close event: readyState CLOSED, then ws.onclose.  No event
\* follows, so the socket leaves the model.
OnClose(i) ==
    /\ hook.sockets[i].pend = "close"
    /\ hook' = OnCloseHandler([hook EXCEPT !.sockets = Drop(@, i)],
                              hook.sockets[i].env)
    /\ UNCHANGED <<props, phase, faults, userOps>>

SocketIds == DOMAIN hook.sockets
TimerIds == DOMAIN hook.timers

Next ==
    \/ Mount
    \/ PropsChange
    \/ ResetConnection
    \/ Unmount
    \/ \E i \in TimerIds : TimerFires(i)
    \/ \E i \in SocketIds :
          \/ SocketOpens(i)
          \/ SocketFails(i)
          \/ ServerCloses(i)
          \/ OnError(i)
          \/ OnClose(i)

(***************************************************************************)
(* Fairness: the event loop runs every queued task and due timer, and once *)
(* the bounded faults are spent the server accepts connections.  The user  *)
(* operations and the faults themselves are not fair.                      *)
(***************************************************************************)
Fairness ==
    /\ WF_vars(Mount)
    /\ WF_vars(\E i \in TimerIds : TimerFires(i))
    /\ WF_vars(\E i \in SocketIds : SocketOpens(i))
    /\ WF_vars(\E i \in SocketIds : OnError(i))
    /\ WF_vars(\E i \in SocketIds : OnClose(i))

Spec == Init /\ [][Next]_vars /\ Fairness

(***************************************************************************)
(* Properties.                                                             *)
(***************************************************************************)

TypeOK ==
    /\ hook.sockets \in [SocketIds -> Socket]
    /\ hook.timers \in [TimerIds -> Timer]
    /\ hook.wsRef \in {NoSocket} \cup SocketIds
    /\ hook.timerRef \in {NoTimer} \cup TimerIds
    /\ hook.attempts \in 0..WS_MAX_RECONNECT_ATTEMPTS
    /\ hook.manual \in BOOLEAN
    /\ hook.state \in ConnState
    /\ props \in Env
    /\ phase \in {"rendered", "mounted", "unmounted"}
    /\ faults \in 0..MaxFaults
    /\ userOps \in 0..MaxUserOps

\* A socket the browser may still open or deliver frames on: not closed
\* and no close event queued.
Live(i) ==
    /\ hook.sockets[i].rs \in {"CONNECTING", "OPEN"}
    /\ hook.sockets[i].pend = "none"

LiveSockets == {i \in SocketIds : Live(i)}

\* spec.md sections 4.2 and 5: the manager holds one connection at a time,
\* acts only on the instance it holds, and a pending reconnect can always
\* be cancelled by disconnect().  Every socket that is still live is the
\* one wsRef holds (so disconnect() can close it and no second socket
\* delivers frames), belongs to a mounted hook, and was opened with the
\* enabled and token of the latest render: no stale close handler, stale
\* retry timer or resetConnection timer opens one that breaks this.
OnlyCurrentSocket ==
    \A i \in LiveSockets :
        /\ hook.wsRef = i
        /\ phase = "mounted"
        /\ hook.sockets[i].env = props

\* spec.md section 8: attempts 1..5 wait 1000, 2000, 4000, 8000 and 16000 ms,
\* and a sixth attempt is never scheduled.  Every reconnect timer onclose
\* schedules is numbered within the cap and waits the delay of the table.
SpecDelays == <<1000, 2000, 4000, 8000, 16000>>

RetrySchedule ==
    \A i \in TimerIds : hook.timers[i].kind = "retry" =>
        /\ hook.timers[i].attempt \in 1..WS_MAX_RECONNECT_ATTEMPTS
        /\ hook.timers[i].delay = SpecDelays[hook.timers[i].attempt]

\* The "connecting" indicator of connectionState is on only while the
\* socket wsRef holds is still connecting: onopen, onerror, onclose and
\* disconnect of any socket, stale ones included, never leave it on.
ConnectingSound ==
    hook.state.isConnecting =>
        /\ hook.wsRef # NoSocket
        /\ hook.sockets[hook.wsRef].rs = "CONNECTING"

\* The "connected" indicator is on only while some socket is open or its
\* close has not yet been reported to onclose.
IndicatorSound ==
    hook.state.isConnected =>
        \E i \in SocketIds : hook.sockets[i].rs \in {"OPEN", "CLOSING"}

\* While the component is mounted and has a token and is enabled.
Wanted == phase = "mounted" /\ props.enabled /\ props.token # NoToken

\* spec.md section 7: the worst outcome is a stalled connection the user
\* is told about.  Once the faults and user operations stop, the hook
\* ends up either connected or showing the terminal or creation error;
\* it never settles silently disconnected.
Settles ==
    <>[](Wanted => \/ hook.state.isConnected
                   \/ hook.state.error \in {"terminal", "create_failed"})

(***************************************************************************)
(* Refinement: the hook as the connection manager of spec.md section 4.2. *)
(***************************************************************************)

\* The lifecycle phase connectionState and wsRef show: before the first
\* commit Idle; a held socket whose error has cleared isConnecting is
\* Closing; no socket held and no indicator on is Closed.
AbsConn ==
    IF phase = "rendered" THEN "Idle"
    ELSE IF hook.state.isConnected THEN "Open"
    ELSE IF hook.state.isConnecting THEN "Connecting"
    ELSE IF hook.wsRef # NoSocket THEN "Closing"
    ELSE "Closed"

AbsError ==
    CASE hook.state.error = "none" -> "none"
      [] hook.state.error = "conn_error" -> "transport"
      [] hook.state.error = "terminal" -> "terminal"
      [] hook.state.error = "create_failed" -> "create"

Manager == INSTANCE ConnectionSpec WITH
    MAX_RECONNECT_ATTEMPTS <- WS_MAX_RECONNECT_ATTEMPTS,
    conn <- AbsConn,
    attempt <- hook.attempts,
    retrying <- \E i \in TimerIds : hook.timers[i].kind = "retry",
    deliberate <- hook.manual,
    lastError <- AbsError

=============================================================================
