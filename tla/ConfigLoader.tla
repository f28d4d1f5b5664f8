----------------------------- MODULE ConfigLoader -----------------------------
(***************************************************************************)
(* Loading the application configuration: the hook useConfig               *)
(* (src/frontend/src/hooks/useConfig.ts) and ConfigProvider, which shows   *)
(* the application only once a configuration is loaded.                    *)
(*                                                                         *)
(* The cache is localStorage['app_config'], which outlives page loads: it  *)
(* is absent, holds a config with its age (fresh = younger than an hour),  *)
(* or holds text JSON.parse rejects.  The effect reads the cache and, if   *)
(* it must, awaits fetch('/config'); each fetch in flight completes as a   *)
(* later step, with the server's config or a failure.  ConfigProvider is  *)
(* rendered outside React.StrictMode (index.tsx), so the effect on [] runs *)
(* once per page load.                                                     *)
(***************************************************************************)
EXTENDS Naturals

CONSTANTS
    Server,      \* the config /config returns
    Old,         \* a config an earlier visit cached
    NoConfig,    \* null
    Corrupt,     \* cache text that JSON.parse rejects
    NoCache,
    MaxLoads,    \* bound: page loads
    MaxExpiries  \* bound: hours passing

VARIABLES
    cache,     \* the cache entry
    config,    \* useState config
    loading,   \* useState loading
    error,     \* useState error is set
    inflight,  \* fetches awaiting their answer in this page load
    ran,       \* the effect has run in this page load
    loaded,    \* this load has shown the server's or a cached config
    failed,    \* a fetch of this load has failed
    loads,     \* page loads so far
    expiries   \* hours passed so far

vars == <<cache, config, loading, error, inflight, ran, loaded, failed,
          loads, expiries>>

\* DEFAULT_CONFIG, with the fields the models read: authEnabled, which
\* routes.tsx passes on, and apiBaseUrl, which tells it from the server's.
DEFAULT_CONFIG == [authEnabled |-> FALSE, apiBaseUrl |-> "http://localhost:8081"]

CacheEntries == {NoCache, Corrupt} \cup [data : {Server, Old}, fresh : BOOLEAN]

\* The component state of a new page load.
Fresh ==
    /\ config' = NoConfig
    /\ loading' = TRUE
    /\ error' = FALSE
    /\ inflight' = 0
    /\ ran' = FALSE
    /\ loaded' = FALSE
    /\ failed' = FALSE

Init ==
    /\ cache \in CacheEntries
    /\ config = NoConfig
    /\ loading = TRUE
    /\ error = FALSE
    /\ inflight = 0
    /\ ran = FALSE
    /\ loaded = FALSE
    /\ failed = FALSE
    /\ loads = 0
    /\ expiries = 0

\* The catch and finally of fetchConfig: the defaults, with the error.
UseDefaults ==
    /\ config' = DEFAULT_CONFIG
    /\ error' = TRUE
    /\ loading' = FALSE

\* Mutant: the cache hit sets the config but does not return: the fetch
\* runs as well.
CacheHitFallsThrough ==
    /\ config' = cache.data
    /\ loading' = FALSE
    /\ loaded' = TRUE
    /\ inflight' = inflight + 1
    /\ UNCHANGED <<error, failed, cache>>

\* Mutant: the cache hit returns before setLoading(false).
CacheHitKeepsLoading ==
    /\ config' = cache.data
    /\ loaded' = TRUE
    /\ UNCHANGED <<loading, error, inflight, failed, cache>>

\* A cache entry younger than an hour: use it and return.
CacheHit ==
    /\ config' = cache.data
    /\ loading' = FALSE
    /\ loaded' = TRUE
    /\ UNCHANGED <<error, inflight, failed, cache>>

\* The effect: read the cache, then use it, fail on it, or start a fetch.
RunEffect ==
    /\ ~ran
    /\ ran' = TRUE
    /\ CASE cache = Corrupt ->
              UseDefaults /\ UNCHANGED <<inflight, loaded, failed, cache>>
         [] cache # NoCache /\ cache.fresh -> CacheHit
         [] OTHER ->
              /\ inflight' = inflight + 1
              /\ UNCHANGED <<config, loading, error, loaded, failed, cache>>
    /\ UNCHANGED <<loads, expiries>>

\* fetchConfig after its await: cache and use the server's config, or fall
\* back to the defaults.
FetchDone(ok) ==
    /\ inflight > 0
    /\ inflight' = inflight - 1
    /\ IF ok
       THEN /\ cache' = [data |-> Server, fresh |-> TRUE]
            /\ config' = Server
            /\ loading' = FALSE
            /\ loaded' = TRUE
            /\ UNCHANGED <<error, failed>>
       ELSE /\ UseDefaults
            /\ failed' = TRUE
            /\ UNCHANGED <<cache, loaded>>
    /\ UNCHANGED <<ran, loads, expiries>>

\* An hour passes: a cached config goes stale.
Expire ==
    /\ expiries < MaxExpiries
    /\ cache \in [data : {Server, Old}, fresh : {TRUE}]
    /\ cache' = [cache EXCEPT !.fresh = FALSE]
    /\ expiries' = expiries + 1
    /\ UNCHANGED <<config, loading, error, inflight, ran, loaded, failed, loads>>

\* The page is reloaded: fetches in flight are abandoned.
Reload ==
    /\ loads < MaxLoads
    /\ Fresh
    /\ loads' = loads + 1
    /\ UNCHANGED <<cache, expiries>>

Next ==
    \/ RunEffect
    \/ \E ok \in BOOLEAN : FetchDone(ok)
    \/ Expire
    \/ Reload

Spec == Init /\ [][Next]_vars

(***************************************************************************)
(* Properties.                                                             *)
(***************************************************************************)

\* ConfigProvider shows the application with the configuration it loaded:
\* once a page load has shown the server's or a cached configuration, it
\* does not fall back to the defaults later in the same load.
NoDefaultsAfterLoad == loaded => config # DEFAULT_CONFIG

\* The defaults stand in for a server that cannot be reached: the page
\* shows DEFAULT_CONFIG only after a fetch of this load has failed.
DefaultsMeanUnreachable == config = DEFAULT_CONFIG => failed

=============================================================================
