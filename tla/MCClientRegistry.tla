--------------------------- MODULE MCClientRegistry ---------------------------
(* Every choice of one method for each of three calls, on two clients of two *)
(* names and one platform.                                                   *)
EXTENDS ClientRegistry, TLC

CONSTANTS i1, i2, p1, n1, n2, c1, c2, c3

MCClients == {i1, i2}
MCPlatforms == {p1}
MCNames == {n1, n2}
MCCalls == {c1, c2, c3}
CallSymmetry == Permutations(MCCalls) \cup Permutations(MCNames)
===============================================================================
