--------------------------- MODULE ConnectionSpec ---------------------------
(***************************************************************************)
(* What the connection manager promises (spec.md section 4.2 and 7): one   *)
(* connection lifecycle, Idle, Connecting, Open, Closing and Closed, with  *)
(* a bounded retry counter, deliberate closes that never retry, and a      *)
(* terminal error after which nothing retries until the user asks.        *)
(*                                                                         *)
(* It knows no sockets or timers: `retrying` says a retry is scheduled.    *)
(* WebSocketHook maps its refs and connectionState onto these variables.   *)
(***************************************************************************)
EXTENDS Naturals

CONSTANT MAX_RECONNECT_ATTEMPTS

VARIABLES
    conn,        \* the lifecycle phase
    attempt,     \* reconnect attempts since the last successful open
    retrying,    \* a retry is scheduled
    deliberate,  \* the last close was asked for by disconnect()
    lastError    \* the error the user sees

Phases == {"Idle", "Connecting", "Open", "Closing", "Closed"}
ErrorKinds == {"none", "transport", "terminal", "create"}

Init ==
    /\ conn = "Idle"
    /\ attempt = 0
    /\ retrying = FALSE
    /\ deliberate = FALSE
    /\ lastError = "none"

\* connect() from Idle or Closed with no retry pending, or the retry timer
\* firing: a socket is being established, or creating it fails and the
\* manager stalls with an error.
StartConnect ==
    /\ conn \in {"Idle", "Closed"}
    /\ retrying' = FALSE
    /\ deliberate' = FALSE
    /\ \/ conn' = "Connecting" /\ lastError' = "none"
       \/ conn' = "Closed" /\ lastError' = "create"
    /\ UNCHANGED attempt

Connect == ~retrying /\ StartConnect

RetryFires == retrying /\ conn = "Closed" /\ StartConnect

\* Connecting -> Open: the counter resets.
Opened ==
    /\ conn = "Connecting"
    /\ conn' = "Open"
    /\ attempt' = 0
    /\ lastError' = "none"
    /\ UNCHANGED <<retrying, deliberate>>

\* A transport error is reported; a connecting socket starts closing.
TransportError ==
    /\ conn \in {"Connecting", "Open"}
    /\ conn' = IF conn = "Connecting" THEN "Closing" ELSE conn
    /\ lastError' = "transport"
    /\ UNCHANGED <<attempt, retrying, deliberate>>

\* The socket is closed: retry within the cap, else the terminal error;
\* a deliberate close does neither.
Closed ==
    /\ conn \in {"Connecting", "Open", "Closing"}
    /\ conn' = "Closed"
    /\ IF deliberate
       THEN UNCHANGED <<attempt, retrying, lastError>>
       ELSE IF attempt < MAX_RECONNECT_ATTEMPTS
       THEN /\ retrying' = TRUE
            /\ attempt' = attempt + 1
            /\ UNCHANGED lastError
       ELSE /\ lastError' = "terminal"
            /\ UNCHANGED <<attempt, retrying>>
    /\ UNCHANGED deliberate

\* disconnect(): cancel the retry, close, force Closed, mark deliberate.
Disconnect ==
    /\ conn' = "Closed"
    /\ attempt' = 0
    /\ retrying' = FALSE
    /\ deliberate' = TRUE
    /\ lastError' = "none"

\* resetConnection(), and a token change that triggers it: disconnect()
\* followed by a fresh connect() cycle.
Restart ==
    /\ attempt' = 0
    /\ retrying' = FALSE
    /\ deliberate' = FALSE
    /\ \/ conn' = "Connecting" /\ lastError' = "none"
       \/ conn' = "Closed" /\ lastError' = "create"

Next ==
    \/ Connect
    \/ RetryFires
    \/ Opened
    \/ TransportError
    \/ Closed
    \/ Disconnect
    \/ Restart

vars == <<conn, attempt, retrying, deliberate, lastError>>

Spec == Init /\ [][Next]_vars

=============================================================================
