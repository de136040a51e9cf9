---------------------------- MODULE Authorization ----------------------------
(***************************************************************************)
(* What installing an integration promises, whatever the statements it is  *)
(* made of.  An owner is a client on a platform.  A grant (an OAuth state) *)
(* is issued to an owner and makes one bearer (a callback) act for it; a   *)
(* bearer without a grant acts for the owner of an integration it was led  *)
(* to.  An owner has one integration at a time, which gets credentials     *)
(* once, from a bearer that acts for its owner.  Installation implements   *)
(* this.                                                                   *)
(***************************************************************************)
CONSTANTS Grants, Bearers, Integrations, Owners, Codes, None

VARIABLES
    phase,       \* grant -> "none", "open", "spent" or "void"
    grantee,     \* grant -> the owner it was issued to
    acting,      \* bearer -> the owner it acts for
    stage,       \* integration -> "none", "live" or "gone"
    owner,       \* integration -> owner
    credentials  \* integration -> the code its credentials were got with

vars == <<phase, grantee, acting, stage, owner, credentials>>

Init ==
    /\ phase = [g \in Grants |-> "none"]
    /\ grantee = [g \in Grants |-> None]
    /\ acting = [b \in Bearers |-> None]
    /\ stage = [i \in Integrations |-> "none"]
    /\ owner = [i \in Integrations |-> None]
    /\ credentials = [i \in Integrations |-> None]

Issue(g, o) ==
    /\ phase[g] = "none"
    /\ phase' = [phase EXCEPT ![g] = "open"]
    /\ grantee' = [grantee EXCEPT ![g] = o]
    /\ UNCHANGED <<acting, stage, owner, credentials>>

\* Grants that expire, or go with their owner.
Lapse(lapsed) ==
    /\ \A g \in lapsed : phase[g] = "open"
    /\ phase' = [g \in Grants |-> IF g \in lapsed THEN "void" ELSE phase[g]]
    /\ UNCHANGED <<grantee, acting, stage, owner, credentials>>

Redeem(b, g) ==
    /\ phase[g] = "open"
    /\ acting[b] = None
    /\ phase' = [phase EXCEPT ![g] = "spent"]
    /\ acting' = [acting EXCEPT ![b] = grantee[g]]
    /\ UNCHANGED <<grantee, stage, owner, credentials>>

Adopt(b, i) ==
    /\ acting[b] = None
    /\ stage[i] = "live"
    /\ acting' = [acting EXCEPT ![b] = owner[i]]
    /\ UNCHANGED <<phase, grantee, stage, owner, credentials>>

Install(i, o) ==
    /\ stage[i] = "none"
    /\ \A j \in Integrations : stage[j] = "live" => owner[j] # o
    /\ stage' = [stage EXCEPT ![i] = "live"]
    /\ owner' = [owner EXCEPT ![i] = o]
    /\ UNCHANGED <<phase, grantee, acting, credentials>>

Authorize(i, b, k) ==
    /\ stage[i] = "live"
    /\ credentials[i] = None
    /\ acting[b] = owner[i]
    /\ credentials' = [credentials EXCEPT ![i] = k]
    /\ UNCHANGED <<phase, grantee, acting, stage, owner>>

Uninstall(i) ==
    /\ stage[i] = "live"
    /\ stage' = [stage EXCEPT ![i] = "gone"]
    /\ credentials' = [credentials EXCEPT ![i] = None]
    /\ UNCHANGED <<phase, grantee, acting, owner>>

Next ==
    \/ \E g \in Grants, o \in Owners : Issue(g, o)
    \/ \E lapsed \in SUBSET Grants : Lapse(lapsed)
    \/ \E b \in Bearers, g \in Grants : Redeem(b, g)
    \/ \E b \in Bearers, i \in Integrations : Adopt(b, i)
    \/ \E i \in Integrations, o \in Owners : Install(i, o)
    \/ \E i \in Integrations, b \in Bearers, k \in Codes : Authorize(i, b, k)
    \/ \E i \in Integrations : Uninstall(i)

Spec == Init /\ [][Next]_vars
===============================================================================
