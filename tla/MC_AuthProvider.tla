---- MODULE MC_AuthProvider ----
EXTENDS AuthProvider
====
