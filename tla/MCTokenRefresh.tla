---------------------------- MODULE MCTokenRefresh ----------------------------
(* Four refreshes of two integrations. *)
EXTENDS TokenRefresh, TLC

CONSTANTS i1, i2, c1, c2, c3, c4

MCIntegrations == {i1, i2}
MCCalls == {c1, c2, c3, c4}
RefreshSymmetry == Permutations(MCIntegrations) \cup Permutations(MCCalls)
===============================================================================
