-------------------------- MODULE MC_WebSocketHook --------------------------
(* Model-checking instance of WebSocketHook with the constants of          *)
(* src/frontend/src/constants/index.ts.                                    *)
EXTENDS WebSocketHook

CONSTANTS t1, t2

MCTokens == {t1, t2}
MCOneToken == {t1}

=============================================================================
