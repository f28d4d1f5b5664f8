------------------------------ MODULE MC_Alert ------------------------------
EXTENDS Alert

\* The default autoCloseDelay and one other; two callback identities.
MCDelays == {5000, 3000}
MCCallbacks == {"close1", "close2"}
=============================================================================
