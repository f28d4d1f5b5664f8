---------------------------- MODULE MC_ConfigLoader ----------------------------
EXTENDS ConfigLoader

\* The server's configuration, and an older one a previous visit cached.
MCServer == [authEnabled |-> TRUE, apiBaseUrl |-> "https://place"]
MCOld == [authEnabled |-> FALSE, apiBaseUrl |-> "https://place"]
=============================================================================
