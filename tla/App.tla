-------------------------------- MODULE App --------------------------------
(***************************************************************************)
(* The page: the configuration loader and the session, composed as the     *)
(* code composes them.  index.tsx renders ConfigProvider, which shows its  *)
(* children only once useConfig has a configuration; AppRoutes then passes *)
(* config.authEnabled down (routes.tsx) to RPlaceClone, which renders      *)
(* AuthProvider.  A reload discards the React state of both and keeps      *)
(* localStorage, which holds the config cache and the session token.      *)
(***************************************************************************)
EXTENDS Naturals

CONSTANTS
    Server, Old, NoConfig, Corrupt, NoCache, MaxLoads, MaxExpiries,
    NoToken, Public, MaxRequests

VARIABLES
    cache, config, loading, error, fetches, ran, loaded, failed, loads, expiries,
    auth, stored, requestsInFlight, issued, requests, mounted

configVars == <<cache, config, loading, error, fetches, ran, loaded, failed,
                loads, expiries>>
authVars == <<auth, stored, requestsInFlight, issued, requests, mounted>>
vars == <<configVars, authVars>>

Cfg == INSTANCE ConfigLoader WITH inflight <- fetches

\* routes.tsx: authEnabled={config?.authEnabled ?? false}.
AuthEnabled == config # NoConfig /\ config.authEnabled

Auth == INSTANCE AuthProvider WITH inflight <- requestsInFlight,
                                   authEnabled <- AuthEnabled,
                                   AuthEnabledValues <- BOOLEAN

Init == Cfg!Init /\ Auth!Init

\* ConfigProvider: the children render only when loading is over and a
\* configuration is set.
ShowsApp == ~loading /\ config # NoConfig

ConfigStep ==
    /\ \/ Cfg!RunEffect
       \/ \E ok \in BOOLEAN : Cfg!FetchDone(ok)
       \/ Cfg!Expire
    /\ UNCHANGED authVars

AuthStep ==
    /\ ShowsApp
    /\ UNCHANGED configVars
    /\ Auth!Next

\* A reload: new state for both components, answers in flight are lost,
\* localStorage and the server's issued tokens persist.
Reload ==
    /\ Cfg!Reload
    /\ auth' = Auth!SignedOut
    /\ requestsInFlight' = {}
    /\ mounted' = FALSE
    /\ UNCHANGED <<stored, issued, requests>>

Next == ConfigStep \/ AuthStep \/ Reload

\* React runs a committed component's effects, and a fetch settles (the
\* browser resolves or rejects it); the user's sign-ins, sign-outs and
\* reloads and the hours passing are not fair.
Fairness ==
    /\ WF_vars(Cfg!RunEffect /\ UNCHANGED authVars)
    /\ WF_vars(\E ok \in BOOLEAN : Cfg!FetchDone(ok) /\ UNCHANGED authVars)
    /\ WF_vars(ShowsApp /\ UNCHANGED configVars /\ Auth!Mount)

Spec == Init /\ [][Next]_vars /\ Fairness

(***************************************************************************)
(* Properties: those of the parts, checked in the composition, where       *)
(* reloads, expired caches and the auth flag of each configuration vary.   *)
(***************************************************************************)

\* A reload restores the session the user had: whenever the page runs with
\* auth enabled, localStorage holds exactly the token of authState, over
\* reloads that switch auth on and off with the configuration.
StorageMatchesState == Auth!StorageMatchesState

\* Once a page load has shown the server's or a cached configuration, it
\* does not fall back to the defaults within that load.
NoDefaultsAfterLoad == Cfg!NoDefaultsAfterLoad

\* The page gets past "Loading configuration...": once the reloads stop,
\* whatever the cache held and whichever fetches failed, ConfigProvider
\* ends up showing the application and AuthProvider's initialisation
\* effect has run.
PageSettles == <>[](ShowsApp /\ mounted)

=============================================================================
