------------------------------- MODULE MC_App -------------------------------
EXTENDS App

\* The server's configuration has auth on; the one an earlier visit cached
\* and DEFAULT_CONFIG have it off.
MCServer == [authEnabled |-> TRUE, apiBaseUrl |-> "https://place"]
MCOld == [authEnabled |-> FALSE, apiBaseUrl |-> "https://place"]
=============================================================================
