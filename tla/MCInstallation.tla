---------------------------- MODULE MCInstallation ----------------------------
(* Small instances of Installation: which handlers run concurrently.        *)
EXTENDS Installation, TLC

CONSTANTS b1, k1, k2, in1, in2, un1, rc1, dc1, sy1, ev1, \* requests
          c1, c2, l1

Handler == b1 :> "BeginAuthorization"
        @@ k1 :> "HandleCallback"     @@ k2 :> "HandleCallback"
        @@ in1 :> "InstallIntegration" @@ in2 :> "InstallIntegration"
        @@ un1 :> "UninstallIntegration"
        @@ rc1 :> "ReconnectIntegration" @@ dc1 :> "DisconnectIntegration"
        @@ sy1 :> "SyncIntegration"
        @@ ev1 :> "handleIntegrationInstalled"

MCOpOf == [r \in Requests |-> Handler[r]]

\* Every code belongs to the same HighLevel location.
MCCodeLocation == [k \in Codes |-> l1]

\* Bound: which handlers may overlap in one behaviour.  TLC can do six requests
\* at a time, not all nine.
Scenarios == {{b1, k1, k2, in1, dc1},
              {k1, k2, in1, rc1, dc1, sy1},
              {k1, k2, in1, un1, ev1}}
OneScenario ==
    \E S \in Scenarios : \A r \in Requests \ S : req[r].pc = "idle"

\* The instances distinguish no two ids, codes, clients, states or callbacks.
Symmetry == Permutations(Ids) \cup Permutations(Codes)
            \cup Permutations(Clients) \cup Permutations(States)
            \cup Permutations({k1, k2} \cap Requests)
===============================================================================
