------------------------------- MODULE EventLog -------------------------------
(***************************************************************************)
(* What an endpoint for HighLevel's events promises, whatever the          *)
(* statements it is made of: a job (an event, or an event for one          *)
(* integration) is taken up by one delivery at most, ever, and HighLevel   *)
(* is answered 2xx only by the delivery that took the job up.  The two     *)
(* endpoints of the Clients service implement it: WebhookDelivery and      *)
(* PaymentProvider.                                                        *)
(***************************************************************************)
CONSTANTS
    Jobs,        \* what must not be done twice
    Subject,     \* the event a job is about
    Deliveries,
    None

VARIABLES
    taken,       \* the jobs taken up so far
    working,     \* delivery -> the job it took up and has not let go of
    confirmed    \* the events HighLevel was answered 2xx for

vars == <<taken, working, confirmed>>

Init ==
    /\ taken = {}
    /\ working = [d \in Deliveries |-> None]
    /\ confirmed = {}

Take(d, j) ==
    /\ working[d] = None
    /\ j \notin taken
    /\ taken' = taken \cup {j}
    /\ working' = [working EXCEPT ![d] = j]
    /\ UNCHANGED confirmed

Confirm(d) ==
    /\ working[d] # None
    /\ confirmed' = confirmed \cup {Subject[working[d]]}
    /\ working' = [working EXCEPT ![d] = None]
    /\ UNCHANGED taken

\* The delivery fails, or its answer is lost: the job stays taken.
Abandon(d) ==
    /\ working[d] # None
    /\ working' = [working EXCEPT ![d] = None]
    /\ UNCHANGED <<taken, confirmed>>

Next ==
    \/ \E d \in Deliveries : Confirm(d) \/ Abandon(d)
    \/ \E d \in Deliveries, j \in Jobs : Take(d, j)

Spec == Init /\ [][Next]_vars
===============================================================================
