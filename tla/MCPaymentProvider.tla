------------------------- MODULE MCPaymentProvider -------------------------
(* Small instances of PaymentProvider. *)
EXTENDS PaymentProvider, TLC

CONSTANTS cm1, cm2, cc1, cd1, cp1,  \* calls
          e1, e2, e3, e4, l1, k1, t1, ch1

Rpc == cm1 :> "CreateMerchant" @@ cm2 :> "CreateMerchant"
    @@ cc1 :> "CreateCustomer" @@ cd1 :> "InitiateDeposit"
    @@ cp1 :> "RequestPayout"

MCCallOp == [c \in Calls |-> Rpc[c]]

Captured(k, t, ch) == [type |-> "payment.captured", location |-> l1, key |-> k,
                       transaction |-> t, charge |-> ch]

\* A capture, one without a charge, an event without a type, one without a key.
EventBodies == e1 :> Captured(k1, t1, ch1)
            @@ e2 :> Captured(k1, t1, None)
            @@ e3 :> [Captured(k1, t1, ch1) EXCEPT !.type = "blank"]
            @@ e4 :> Captured(None, t1, ch1)

MCEventOf == [e \in Events |-> EventBodies[e]]

\* Bound: HighLevel's requests and the installations are explored after the
\* ledger's calls, with one merchant, its customer and the deposit; the rows and
\* answers this leaves out are none they read.
LedgerFirst ==
    \/ /\ call[cd1].deposit # None
       /\ \A c \in Calls \ {cm1, cc1, cd1} : call[c].result = "InvalidArgument"
    \/ /\ \A i \in Ids : integration[i] = "NONE"
       /\ \A w \in Deliveries : delivery[w].pc = "idle"
       /\ \A q \in Queries : query[q].pc = "idle"

Symmetry == Permutations(Merchants) \cup Permutations(Slugs)
            \cup Permutations(Ids) \cup Permutations(Deliveries)
===============================================================================
