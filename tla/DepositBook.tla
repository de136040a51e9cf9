----------------------------- MODULE DepositBook -----------------------------
(***************************************************************************)
(* What the payment provider promises about deposits, whatever statements, *)
(* retries and services it is made of.  A deposit is booked on an account  *)
(* that exists and stays with it; it settles once; it is given a HighLevel *)
(* transaction once; a charge on it was reported by HighLevel, for that    *)
(* transaction; and what a query is told of it is true for good.           *)
(* PaymentProvider, with its Ledger, implements this.                      *)
(***************************************************************************)
CONSTANTS Deposits, Accounts, Transactions, Charges, Queries,
          NoAccount, None     \* the account and the references of no deposit

VARIABLES
    accounts,     \* the accounts there are
    status,       \* deposit -> its status, NONE while it is not booked
    owner,        \* deposit -> the account it is booked on
    transaction,  \* deposit -> HighLevel's transaction, or None
    charge,       \* deposit -> HighLevel's charge, or None
    reported,     \* (transaction, charge) of the captures HighLevel reported
    told          \* query -> (deposit, verdict), or None

vars == <<accounts, status, owner, transaction, charge, reported, told>>

Init ==
    /\ accounts = {}
    /\ status = [d \in Deposits |-> "NONE"]
    /\ owner = [d \in Deposits |-> NoAccount]
    /\ transaction = [d \in Deposits |-> None]
    /\ charge = [d \in Deposits |-> None]
    /\ reported = {}
    /\ told = [q \in Queries |-> None]

Open(a) ==
    /\ accounts' = accounts \cup {a}
    /\ UNCHANGED <<status, owner, transaction, charge, reported, told>>

Book(d, a) ==
    /\ status[d] = "NONE" /\ a \in accounts
    /\ status' = [status EXCEPT ![d] = "INITIATED"]
    /\ owner' = [owner EXCEPT ![d] = a]
    /\ UNCHANGED <<accounts, transaction, charge, reported, told>>

Advance(d, s) ==
    /\ status[d] \in {"INITIATED", "PROCESSING"} /\ s # status[d]
    /\ status' = [status EXCEPT ![d] = s]
    /\ UNCHANGED <<accounts, owner, transaction, charge, reported, told>>

Correlate(d, t) ==
    /\ status[d] # "NONE" /\ transaction[d] = None
    /\ transaction' = [transaction EXCEPT ![d] = t]
    /\ UNCHANGED <<accounts, status, owner, charge, reported, told>>

Report(t, ch) ==
    /\ reported' = reported \cup {<<t, ch>>}
    /\ UNCHANGED <<accounts, status, owner, transaction, charge, told>>

Charge(d, ch) ==
    /\ transaction[d] # None /\ <<transaction[d], ch>> \in reported
    /\ charge' = [charge EXCEPT ![d] = ch]
    /\ UNCHANGED <<accounts, status, owner, transaction, reported, told>>

Meaning(s) == CASE s = "COMPLETED" -> "success"
                [] s = "FAILED" -> "failed"
                [] OTHER -> "pending"

Tell(q, d) ==
    /\ told[q] = None
    /\ transaction[d] # None \/ charge[d] # None
    /\ told' = [told EXCEPT ![q] = <<d, Meaning(status[d])>>]
    /\ UNCHANGED <<accounts, status, owner, transaction, charge, reported>>

Next ==
    \/ \E a \in Accounts : Open(a)
    \/ \E d \in Deposits :
         \/ \E a \in Accounts : Book(d, a)
         \/ \E s \in {"PROCESSING", "COMPLETED", "FAILED"} : Advance(d, s)
         \/ \E t \in Transactions : Correlate(d, t)
         \/ \E ch \in Charges : Charge(d, ch)
         \/ \E q \in Queries : Tell(q, d)
    \/ \E t \in Transactions, ch \in Charges : Report(t, ch)

Spec == Init /\ [][Next]_vars

-------------------------------------------------------------------------------
(* What follows *)

\* A booked deposit has its account.
BookedOnAccount ==
    \A d \in Deposits : status[d] # "NONE" => owner[d] \in accounts

\* A charge is HighLevel's, for the deposit's own transaction.
ChargedAsReported ==
    \A d \in Deposits : charge[d] # None => <<transaction[d], charge[d]>> \in reported

\* No query was told what is not so.
ToldTheTruth ==
    \A q \in Queries : told[q] # None =>
        /\ told[q][2] = "success" => status[told[q][1]] = "COMPLETED"
        /\ told[q][2] = "failed" => status[told[q][1]] = "FAILED"
===============================================================================
