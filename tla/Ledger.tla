-------------------------------- MODULE Ledger --------------------------------
(***************************************************************************)
(* The Transactions service's own tables: merchants, customers, deposits   *)
(* and payouts (src/transactions/{merchants,customers,deposits,payouts}).  *)
(* One step per SQL statement; no handler opens a transaction.  Rows are   *)
(* never deleted.  Nothing in the repository moves a deposit out of        *)
(* INITIATED or writes its external_reference, failure_reason or           *)
(* ghl_transaction_id first: Settle and Backfill stand for whoever does so *)
(* outside it, with the repository functions written for that purpose.     *)
(***************************************************************************)
EXTENDS Naturals, FiniteSets

CONSTANTS Merchants, Customers, Deposits, Payouts,  \* row ids not yet drawn
          Clients, Slugs, Phones,
          Transactions, Charges,                    \* HighLevel's identifiers
          Calls, CallOp,                            \* gRPC calls and their RPC
          Backfilled,   \* Bound: the deposits completed from outside
          None          \* NULL, a blank input or nothing yet

LedgerOps == {"CreateMerchant", "CreateCustomer", "InitiateDeposit",
              "RequestPayout"}

ASSUME LedgerAssumption ==
    /\ CallOp \in [Calls -> LedgerOps]
    /\ Backfilled \subseteq Deposits
    /\ None \notin Merchants \cup Customers \cup Deposits \cup Payouts
                   \cup Clients \cup Slugs \cup Phones
                   \cup Transactions \cup Charges

VARIABLES
    merchant,   \* id -> slug
    customer,   \* id -> (client_id, merchant_id, phone_number)
    deposit,    \* id -> row; status NONE where there is no row
    payout,     \* id -> (client_id, merchant_id)
    call        \* call -> local state of its handler

ledgerVars == <<merchant, customer, deposit, payout, call>>

Owner == [client : Clients \cup {None}, merchant : Merchants \cup {None},
          phone : Phones \cup {None}]
NoOwner == [client |-> None, merchant |-> None, phone |-> None]

DepositStatus == {"INITIATED", "PROCESSING", "COMPLETED", "FAILED"}

\* nulls: external_reference or failure_reason is NULL.  charge: NULL and ""
\* are both None, which no lookup matches.
DepositRow ==
    [status : DepositStatus \cup {"NONE"}, owner : Owner,
     customer : Customers \cup {None}, nulls : BOOLEAN,
     transaction : Transactions \cup {None}, charge : Charges \cup {None}]

CallState ==
    [pc : {"idle", "customer", "insert", "done"}, owner : Owner,
     customer : Customers \cup {None}, deposit : Deposits \cup {None},
     result : {"none", "OK", "InvalidArgument", "NotFound", "AlreadyExists",
               "Internal"}]

LedgerInit ==
    /\ merchant = [m \in Merchants |-> None]
    /\ customer = [u \in Customers |-> NoOwner]
    /\ deposit = [d \in Deposits |->
                    [status |-> "NONE", owner |-> NoOwner, customer |-> None,
                     nulls |-> FALSE, transaction |-> None, charge |-> None]]
    /\ payout = [p \in Payouts |-> NoOwner]
    /\ call = [c \in Calls |->
                 [pc |-> "idle", owner |-> NoOwner, customer |-> None,
                  deposit |-> None, result |-> "none"]]

Answer(c, result) ==
    call' = [call EXCEPT ![c].pc = "done", ![c].result = result]

MerchantRow(m) == m \in Merchants /\ merchant[m] # None
DepositExists(d) == deposit[d].status # "NONE"

-------------------------------------------------------------------------------
(* Merchants and customers *)

\* A request refused before any statement: a malformed id, a blank name, slug,
\* phone or reference, an unsupported provider, an amount that is not positive.
Reject(c) ==
    /\ call[c].pc = "idle"
    /\ Answer(c, "InvalidArgument")
    /\ UNCHANGED <<merchant, customer, deposit, payout>>

\* INSERT INTO merchants; slug is UNIQUE.
CreateMerchant(c) ==
    /\ CallOp[c] = "CreateMerchant" /\ call[c].pc = "idle"
    /\ \E slug \in Slugs :
         \/ /\ \E m \in Merchants : merchant[m] = slug
            /\ Answer(c, "AlreadyExists")
            /\ UNCHANGED merchant
         \/ /\ \A m \in Merchants : merchant[m] # slug
            /\ \E m \in Merchants :
                 /\ merchant[m] = None
                 /\ merchant' = [merchant EXCEPT ![m] = slug]
            /\ Answer(c, "OK")
    /\ UNCHANGED <<customer, deposit, payout>>

\* INSERT INTO customers; (client_id, merchant_id, phone_number) is UNIQUE and
\* merchant_id references merchants.
CreateCustomer(c) ==
    /\ CallOp[c] = "CreateCustomer" /\ call[c].pc = "idle"
    /\ \E cl \in Clients, m \in Merchants, ph \in Phones :
         LET row == [client |-> cl, merchant |-> m, phone |-> ph] IN
         \/ /\ \E u \in Customers : customer[u] = row
            /\ Answer(c, "AlreadyExists")
            /\ UNCHANGED customer
         \/ /\ ~ MerchantRow(m)
            /\ Answer(c, "NotFound")
            /\ UNCHANGED customer
         \/ /\ MerchantRow(m)
            /\ \A u \in Customers : customer[u] # row
            /\ \E u \in Customers :
                 /\ customer[u] = NoOwner
                 /\ customer' = [customer EXCEPT ![u] = row]
            /\ Answer(c, "OK")
    /\ UNCHANGED <<merchant, deposit, payout>>

-------------------------------------------------------------------------------
(* Deposits and payouts *)

\* Mutant: the lookup forgets the merchant.
CustomersOfAnyMerchant(o) ==
    {u \in Customers : customer[u].client = o.client /\ customer[u].phone = o.phone}

\* SELECT ... FROM customers WHERE client_id AND merchant_id AND phone_number.
GetByClientAndMerchantAndPhone(o) == {u \in Customers : customer[u] = o}

\* The request names client, merchant and phone; its customer_id is parsed and
\* then unused.
InitiateDeposit(c) ==
    /\ CallOp[c] = "InitiateDeposit" /\ call[c].pc = "idle"
    /\ \E cl \in Clients, m \in Merchants, ph \in Phones :
         call' = [call EXCEPT
           ![c].pc = "customer",
           ![c].owner = [client |-> cl, merchant |-> m, phone |-> ph]]
    /\ UNCHANGED <<merchant, customer, deposit, payout>>

DepositCustomer(c) ==
    /\ call[c].pc = "customer"
    /\ LET found == GetByClientAndMerchantAndPhone(call[c].owner) IN
         \/ found = {} /\ Answer(c, "NotFound")
         \/ \E u \in found :
              call' = [call EXCEPT ![c].pc = "insert", ![c].customer = u]
    /\ UNCHANGED <<merchant, customer, deposit, payout>>

\* external_reference and failure_reason are read back into a Go string, which
\* the driver refuses for NULL: the row is committed, the handler gets an error.
ReadBack(row) == IF row.nulls THEN "Internal" ELSE "OK"

\* INSERT INTO deposits ... RETURNING *.  A constraint violation, a currency
\* the CHECK refuses or a merchant that does not exist, is answered NotFound.
DepositInsert(c) ==
    /\ call[c].pc = "insert"
    /\ \/ Answer(c, "NotFound") /\ UNCHANGED deposit
       \/ \E d \in Deposits :
            LET row == [status |-> "INITIATED", owner |-> call[c].owner,
                        customer |-> call[c].customer, nulls |-> TRUE,
                        transaction |-> None, charge |-> None] IN
            /\ MerchantRow(call[c].owner.merchant)
            /\ ~ DepositExists(d)
            /\ deposit' = [deposit EXCEPT ![d] = row]
            /\ call' = [call EXCEPT ![c].pc = "done", ![c].deposit = d,
                                    ![c].result = ReadBack(row)]
    /\ UNCHANGED <<merchant, customer, payout>>

\* INSERT INTO payouts ... RETURNING *, with the same two NULL columns.
RequestPayout(c) ==
    /\ CallOp[c] = "RequestPayout" /\ call[c].pc = "idle"
    /\ \/ Answer(c, "NotFound") /\ UNCHANGED payout
       \/ /\ \E cl \in Clients, m \in Merchants, p \in Payouts :
               /\ MerchantRow(m) /\ payout[p] = NoOwner
               /\ payout' = [payout EXCEPT
                    ![p] = [client |-> cl, merchant |-> m, phone |-> None]]
          /\ Answer(c, ReadBack([nulls |-> TRUE]))
    /\ UNCHANGED <<merchant, customer, deposit>>

\* A statement fails and has no effect.
CallFails(c) ==
    /\ call[c].pc # "done"
    /\ Answer(c, "Internal")
    /\ UNCHANGED <<merchant, customer, deposit, payout>>

-------------------------------------------------------------------------------
(* What happens to a deposit outside the repository *)

\* UpdateStatus, MarkCompleted or MarkFailed, which nothing calls yet.  That a settled
\* deposit stays settled is assumed of the caller to come: the lifecycle in
\* docs/transactions-deposits-review.md has it, the UPDATEs do not look.
Settle(d) ==
    /\ d \in Backfilled
    /\ \E s \in {"PROCESSING", "COMPLETED", "FAILED"} :
         /\ \/ deposit[d].status = "INITIATED"
            \/ deposit[d].status = "PROCESSING" /\ s # "PROCESSING"
         /\ deposit' = [deposit EXCEPT ![d].status = s]
    /\ UNCHANGED <<merchant, customer, payout, call>>

\* The provider's references are filled in and the deposit is given the
\* HighLevel transaction it pays.
Backfill(d) ==
    /\ d \in Backfilled /\ DepositExists(d) /\ deposit[d].nulls
    /\ \E t \in Transactions :
         deposit' = [deposit EXCEPT ![d].nulls = FALSE, ![d].transaction = t]
    /\ UNCHANGED <<merchant, customer, payout, call>>

LedgerNext ==
    \/ \E c \in Calls :
         \/ Reject(c) \/ CreateMerchant(c) \/ CreateCustomer(c)
         \/ InitiateDeposit(c) \/ DepositCustomer(c) \/ DepositInsert(c)
         \/ RequestPayout(c) \/ CallFails(c)
    \/ \E d \in Deposits : Settle(d) \/ Backfill(d)

LedgerSpec == LedgerInit /\ [][LedgerNext]_ledgerVars

-------------------------------------------------------------------------------
(* Properties *)

LedgerTypeOK ==
    /\ merchant \in [Merchants -> Slugs \cup {None}]
    /\ customer \in [Customers -> Owner]
    /\ deposit \in [Deposits -> DepositRow]
    /\ payout \in [Payouts -> Owner]
    /\ call \in [Calls -> CallState]

\* A deposit is booked on a customer of exactly the client, merchant and phone
\* it names, although customer and deposit are read and written in two
\* statements (deposits/service.go: "preserves the tenant boundary").
DepositKeepsTenant ==
    \A d \in Deposits : DepositExists(d) =>
        /\ customer[deposit[d].customer] = deposit[d].owner
        /\ MerchantRow(deposit[d].owner.merchant)

\* What docs/transactions-deposits-review.md says of the NULL columns ("empty
\* when null"): an InitiateDeposit whose row was inserted answers with it.
InsertIsReported ==
    \A c \in Calls : call[c].deposit # None => call[c].result = "OK"

-------------------------------------------------------------------------------
(* The inductive invariant behind the theorem about DepositKeepsTenant *)

\* A customer's merchant exists; no step takes a row back.
CustomerHasMerchant ==
    \A u \in Customers : customer[u] # NoOwner => MerchantRow(customer[u].merchant)

\* A deposit about to be inserted holds a customer that is still the one it
\* looked up.
InsertHoldsCustomer ==
    \A c \in Calls :
        /\ call[c].pc \in {"customer", "insert"} => call[c].owner # NoOwner
        /\ call[c].pc = "insert" =>
             call[c].customer # None /\ customer[call[c].customer] = call[c].owner

DepositHasCustomer ==
    \A d \in Deposits : DepositExists(d) =>
        deposit[d].customer # None /\ deposit[d].owner # NoOwner

TenantInv ==
    /\ DepositKeepsTenant
    /\ CustomerHasMerchant
    /\ InsertHoldsCustomer
    /\ DepositHasCustomer
===============================================================================
