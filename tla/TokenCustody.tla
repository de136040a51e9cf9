----------------------------- MODULE TokenCustody -----------------------------
(***************************************************************************)
(* What refreshing the tokens of integrations promises, whatever the       *)
(* statements and calls it is made of.  Of the tokens HighLevel issues for *)
(* an integration only the newest is good.  The service has it in custody  *)
(* or has lost it, through a refresh that failed, and then for good: no    *)
(* later refresh succeeds.  TokenRefresh implements this.                  *)
(***************************************************************************)
EXTENDS Naturals

CONSTANTS Integrations, Calls

VARIABLES
    custody,  \* integration -> "none", "held", "lost" or "gone"
    newest,   \* integration -> how many tokens HighLevel has issued
    outcome   \* refresh -> "none", "ok" or "failed"

vars == <<custody, newest, outcome>>

Init ==
    /\ custody = [i \in Integrations |-> "none"]
    /\ newest = [i \in Integrations |-> 0]
    /\ outcome = [c \in Calls |-> "none"]

Ends(c, o) == outcome[c] = "none" /\ outcome' = [outcome EXCEPT ![c] = o]

Obtain(i) ==
    /\ custody[i] = "none"
    /\ custody' = [custody EXCEPT ![i] = "held"]
    /\ newest' = [newest EXCEPT ![i] = @ + 1]
    /\ UNCHANGED outcome

\* A refresh may have been under way when the integration went.
Renew(i) ==
    /\ custody[i] \in {"held", "gone"}
    /\ newest' = [newest EXCEPT ![i] = @ + 1]
    /\ UNCHANGED <<custody, outcome>>

Succeed(c, i) ==
    /\ custody[i] = "held"
    /\ Ends(c, "ok")
    /\ UNCHANGED <<custody, newest>>

Fail(c) == Ends(c, "failed") /\ UNCHANGED <<custody, newest>>

\* A token that had been issued is lost, or one that is issued never arrives.
Lose(c, i) ==
    /\ custody[i] \in {"held", "gone"}
    /\ custody' = [custody EXCEPT ![i] = IF @ = "held" THEN "lost" ELSE @]
    /\ \E n \in {newest[i], newest[i] + 1} : newest' = [newest EXCEPT ![i] = n]
    /\ Ends(c, "failed")

Release(i) ==
    /\ custody[i] \in {"held", "lost"}
    /\ custody' = [custody EXCEPT ![i] = "gone"]
    /\ UNCHANGED <<newest, outcome>>

Next ==
    \/ \E i \in Integrations : Obtain(i) \/ Renew(i) \/ Release(i)
    \/ \E c \in Calls : Fail(c) \/ \E i \in Integrations : Succeed(c, i) \/ Lose(c, i)

Spec == Init /\ [][Next]_vars
===============================================================================
