--------------------------- MODULE PaymentProvider ---------------------------
(***************************************************************************)
(* The HighLevel Custom Payment Provider: the Clients service's adapter    *)
(* (src/clients/payments, src/clients/http/payment_*_handler.go) and, over *)
(* gRPC, the Transactions service's payment decisions                      *)
(* (src/transactions/payments), on top of the Ledger's deposits.           *)
(*                                                                         *)
(* Every SQL statement of a query or a delivery is a step.  HighLevel may  *)
(* deliver an event any number of times, at the same time too, and repeats *)
(* its body.  Integrations come, get a config and a key, and go.           *)
(***************************************************************************)
EXTENDS Ledger

CONSTANTS Ids,         \* integration ids not yet drawn
          Locations, Keys,
          Events, EventOf,          \* HighLevel events and their bodies
          Deliveries, Queries       \* HTTP requests

EventBody ==
    [type : {"payment.captured", "other", "blank"}, location : Locations,
     key : Keys \cup {None}, transaction : Transactions \cup {None},
     charge : Charges \cup {None}]

ASSUME ProviderAssumption ==
    /\ EventOf \in [Events -> EventBody]
    /\ None \notin Ids \cup Locations \cup Keys \cup Events

VARIABLES
    integration,  \* id -> NONE, LIVE or GONE
    config,       \* id -> payment_provider_configs row; location None: no row
    usedKeys,     \* the API keys generated so far
    events,       \* webhook_events: the (integration, event) pairs recorded
    delivery,     \* POST /payments/custom-provider/webhook
    query         \* POST /payments/custom-provider/query

clientsVars == <<integration, config, usedKeys, events>>
vars == <<ledgerVars, clientsVars, delivery, query>>

DeliveryPoints == {"idle", "integration", "record", "lookup", "update", "done"}
DeliveryCodes == {0, 200, 400, 404, 500}
DeliveryState ==
    [pc : DeliveryPoints, event : Events \cup {None}, id : Ids \cup {None},
     deposit : Deposits \cup {None}, recorded : BOOLEAN, code : DeliveryCodes]

QueryPoints == {"idle", "transaction", "charge", "done"}
QueryCodes == {0, 200, 400, 401, 404, 500}
QueryVerdicts == {"none", "success", "failed", "pending"}
QueryState ==
    [pc : QueryPoints, transaction : Transactions \cup {None},
     charge : Charges \cup {None}, deposit : Deposits \cup {None},
     verdict : QueryVerdicts, code : QueryCodes]

Init ==
    /\ LedgerInit
    /\ integration = [i \in Ids |-> "NONE"]
    /\ config = [i \in Ids |-> [location |-> None, key |-> None]]
    /\ usedKeys = {}
    /\ events = {}
    /\ delivery = [w \in Deliveries |->
                     [pc |-> "idle", event |-> None, id |-> None,
                      deposit |-> None, recorded |-> FALSE, code |-> 0]]
    /\ query = [q \in Queries |->
                  [pc |-> "idle", transaction |-> None, charge |-> None,
                   deposit |-> None, verdict |-> "none", code |-> 0]]

-------------------------------------------------------------------------------
(* The rest of the Clients service *)

Install(i) ==
    /\ integration[i] = "NONE"
    /\ integration' = [integration EXCEPT ![i] = "LIVE"]
    /\ UNCHANGED <<ledgerVars, config, usedKeys, events, delivery, query>>

\* handleIntegrationInstalled stores a config without a key.
InstallEvent(i) ==
    /\ integration[i] = "LIVE" /\ config[i].location = None
    /\ \E l \in Locations : config' = [config EXCEPT ![i].location = l]
    /\ UNCHANGED <<ledgerVars, integration, usedKeys, events, delivery, query>>

\* RegisterProvider stores the config with a key it has just generated, again
\* on every retry.
RegisterProvider(i) ==
    /\ integration[i] = "LIVE"
    /\ \E l \in Locations, k \in Keys \ usedKeys :
         /\ config' = [config EXCEPT ![i] = [location |-> l, key |-> k]]
         /\ usedKeys' = usedKeys \cup {k}
    /\ UNCHANGED <<ledgerVars, integration, events, delivery, query>>

\* The foreign keys of payment_provider_configs and webhook_events cascade.
Uninstall(i) ==
    /\ integration[i] = "LIVE"
    /\ integration' = [integration EXCEPT ![i] = "GONE"]
    /\ config' = [config EXCEPT ![i] = [location |-> None, key |-> None]]
    /\ events' = {r \in events : r[1] # i}
    /\ UNCHANGED <<ledgerVars, usedKeys, delivery, query>>

-------------------------------------------------------------------------------
(* HandleWebhook *)

Body(w) == EventOf[delivery[w].event]

Respond(w, code) ==
    delivery' = [delivery EXCEPT ![w].pc = "done", ![w].code = code]

\* A body that does not parse or has no event id.
WebhookInvalid(w) ==
    /\ delivery[w].pc = "idle"
    /\ Respond(w, 400)
    /\ UNCHANGED <<ledgerVars, clientsVars, query>>

\* Mutant: any row of the location authenticates the event.
LocationIsEnough(i, body) == body.key # None

\* subtle.ConstantTimeCompare of the stored and the sent key.
KeyMatches(i, body) == body.key # None /\ config[i].key = body.key

\* A delivery whose key is that of its location's config goes on.
LetIn(w, e, i) ==
    delivery' = [delivery EXCEPT ![w].pc = "integration", ![w].event = e, ![w].id = i]

\* GetByLocationID: any row of the location when there are several.  A blank
\* key is InvalidArgument; Unauthenticated has no case of its own in
\* writeWebhookError.
WebhookConfig(w) ==
    /\ delivery[w].pc = "idle"
    /\ \E e \in Events :
         LET body == EventOf[e]
             rows == {i \in Ids : config[i].location = body.location} IN
         \/ rows = {} /\ Respond(w, 404)
         \/ rows # {} /\ body.key = None /\ Respond(w, 400)
         \/ \E i \in rows :
              /\ body.key # None /\ ~ KeyMatches(i, body)
              /\ Respond(w, 500)
         \/ \E i \in rows :
              /\ KeyMatches(i, body)
              /\ LetIn(w, e, i)
    /\ UNCHANGED <<ledgerVars, clientsVars, query>>

\* integrationRepo.GetByID.
WebhookIntegration(w) ==
    /\ delivery[w].pc = "integration"
    /\ IF integration[delivery[w].id] = "LIVE"
       THEN delivery' = [delivery EXCEPT ![w].pc = "record"]
       ELSE Respond(w, 404)
    /\ UNCHANGED <<ledgerVars, clientsVars, query>>

NewEvent(i, e) == <<i, e>> \notin events

\* INSERT INTO webhook_events ... ON CONFLICT DO NOTHING RETURNING *: a
\* duplicate returns no row, which is not repo.ErrDuplicate but an internal
\* error; a missing integration is a constraint violation.
WebhookRecord(w) ==
    LET i == delivery[w].id
        e == delivery[w].event IN
    /\ delivery[w].pc = "record"
    /\ \/ integration[i] # "LIVE" /\ Respond(w, 400) /\ UNCHANGED events
       \/ /\ integration[i] = "LIVE" /\ ~ NewEvent(i, e)
          /\ Respond(w, 500) /\ UNCHANGED events
       \/ /\ integration[i] = "LIVE" /\ NewEvent(i, e)
          /\ events' = events \cup {<<i, e>>}
          /\ delivery' = [delivery EXCEPT ![w].pc = "lookup",
                                          ![w].recorded = TRUE]
    /\ UNCHANGED <<ledgerVars, integration, config, usedKeys, query>>

-------------------------------------------------------------------------------
(* Transactions: ProcessPaymentWebhook *)

\* Mutant: the lookup takes any correlated deposit.
AnyCorrelated(t) == {d \in Deposits : t # None /\ deposit[d].transaction # None}

\* GetByGHLTransactionID and GetByGHLChargeID: a NULL column matches nothing.
DepositsOf(t) == {d \in Deposits : t # None /\ deposit[d].transaction = t}
DepositsCharged(ch) == {d \in Deposits : ch # None /\ deposit[d].charge = ch}

\* A capture without a charge has nothing to record.
GoOn(w, d) ==
    delivery' = [delivery EXCEPT
      ![w].deposit = d,
      ![w].pc = IF Body(w).charge = None THEN "done" ELSE "update",
      ![w].code = IF Body(w).charge = None THEN 200 ELSE 0]

\* Up to the deposit's lookup.  Every event but a capture, a capture without a
\* transaction and one of an unknown transaction are acknowledged.
ProcessLookup(w) ==
    LET body == Body(w)
        found == IF body.type = "payment.captured"
                 THEN DepositsOf(body.transaction) ELSE {} IN
    /\ delivery[w].pc = "lookup"
    /\ \/ body.type = "blank" /\ Respond(w, 500)
       \/ body.type # "blank" /\ found = {} /\ Respond(w, 200)
       \/ \E d \in found : GoOn(w, d)
    /\ UNCHANGED <<ledgerVars, clientsVars, query>>

\* UpdateGHLReference.  The answer of the gRPC call may be lost.
ProcessUpdate(w) ==
    /\ delivery[w].pc = "update"
    /\ deposit' = [deposit EXCEPT
                     ![delivery[w].deposit].transaction = Body(w).transaction,
                     ![delivery[w].deposit].charge = Body(w).charge]
    /\ \E code \in {200, 500} : Respond(w, code)
    /\ UNCHANGED <<merchant, customer, payout, call, clientsVars, query>>

\* Mutant: the handler answers before it looks at the error.
FailureIsAcknowledged(w) ==
    /\ delivery[w].pc \notin {"idle", "done"}
    /\ Respond(w, 200)
    /\ UNCHANGED <<ledgerVars, clientsVars, query>>

\* A statement or the call to the Transactions service fails.
DeliveryFails(w) ==
    /\ delivery[w].pc # "done"
    /\ Respond(w, 500)
    /\ UNCHANGED <<ledgerVars, clientsVars, query>>

-------------------------------------------------------------------------------
(* HandleQuery and VerifyPayment *)

Reply(q, code) == query' = [query EXCEPT ![q].pc = "done", ![q].code = code]

\* A body that does not parse, a blank key, another type than verify, neither
\* a transaction nor a charge, or a subscription.
QueryInvalid(q) ==
    /\ query[q].pc = "idle"
    /\ Reply(q, 400)
    /\ UNCHANGED <<ledgerVars, clientsVars, delivery>>

\* findConfigByAPIKey, before the type and the ids are looked at.
QueryConfig(q) ==
    /\ query[q].pc = "idle"
    /\ \E k \in Keys, t \in Transactions \cup {None}, ch \in Charges \cup {None} :
         \/ (\A i \in Ids : config[i].key # k) /\ Reply(q, 401)
         \/ /\ \E i \in Ids : config[i].key = k
            /\ t # None \/ ch # None
            /\ query' = [query EXCEPT
                 ![q].pc = IF t # None THEN "transaction" ELSE "charge",
                 ![q].transaction = t, ![q].charge = ch]
    /\ UNCHANGED <<ledgerVars, clientsVars, delivery>>

\* Mutant: whatever has not failed counts as paid.
NotFailedIsSuccess(d) == IF deposit[d].status = "FAILED" THEN "failed" ELSE "success"

\* Mutant: the status is passed on as it is stored.
StatusAsVerdict(d) == deposit[d].status

Verdict(d) ==
    CASE deposit[d].status = "COMPLETED" -> "success"
      [] deposit[d].status = "FAILED" -> "failed"
      [] OTHER -> "pending"

ReplyVerdict(q, d) ==
    query' = [query EXCEPT ![q].pc = "done", ![q].code = 200,
                           ![q].deposit = d, ![q].verdict = Verdict(d)]

\* resolveDeposit: by transaction first, then by charge.
ResolveTransaction(q) ==
    LET found == DepositsOf(query[q].transaction) IN
    /\ query[q].pc = "transaction"
    /\ \/ \E d \in found : ReplyVerdict(q, d)
       \/ /\ found = {}
          /\ query[q].charge # None
          /\ query' = [query EXCEPT ![q].pc = "charge"]
       \/ found = {} /\ query[q].charge = None /\ Reply(q, 404)
    /\ UNCHANGED <<ledgerVars, clientsVars, delivery>>

ResolveCharge(q) ==
    LET found == DepositsCharged(query[q].charge) IN
    /\ query[q].pc = "charge"
    /\ \/ \E d \in found : ReplyVerdict(q, d)
       \/ found = {} /\ Reply(q, 404)
    /\ UNCHANGED <<ledgerVars, clientsVars, delivery>>

QueryFails(q) ==
    /\ query[q].pc # "done"
    /\ Reply(q, 500)
    /\ UNCHANGED <<ledgerVars, clientsVars, delivery>>

-------------------------------------------------------------------------------
ClientsNext ==
    \E i \in Ids : Install(i) \/ InstallEvent(i) \/ RegisterProvider(i) \/ Uninstall(i)

HandleWebhook(w) ==
    \/ WebhookInvalid(w) \/ WebhookConfig(w) \/ WebhookIntegration(w)
    \/ WebhookRecord(w) \/ ProcessLookup(w) \/ ProcessUpdate(w)

HandleQuery(q) ==
    QueryInvalid(q) \/ QueryConfig(q) \/ ResolveTransaction(q) \/ ResolveCharge(q)

Next ==
    \/ LedgerNext /\ UNCHANGED <<clientsVars, delivery, query>>
    \/ ClientsNext
    \/ \E w \in Deliveries : HandleWebhook(w) \/ DeliveryFails(w)
    \/ \E q \in Queries : HandleQuery(q) \/ QueryFails(q)

Spec == Init /\ [][Next]_vars

\* A started handler goes on: a goroutine is not descheduled for ever.
FairSpec ==
    /\ Spec
    /\ \A c \in Calls : WF_vars(DepositCustomer(c) /\ UNCHANGED <<clientsVars, delivery, query>>)
    /\ \A c \in Calls : WF_vars(DepositInsert(c) /\ UNCHANGED <<clientsVars, delivery, query>>)
    /\ \A w \in Deliveries : WF_vars(delivery[w].pc # "idle" /\ HandleWebhook(w))
    /\ \A q \in Queries : WF_vars(query[q].pc # "idle" /\ HandleQuery(q))

-------------------------------------------------------------------------------
(* Properties *)

TypeOK ==
    /\ LedgerTypeOK
    /\ integration \in [Ids -> {"NONE", "LIVE", "GONE"}]
    /\ config \in [Ids -> [location : Locations \cup {None}, key : Keys \cup {None}]]
    /\ usedKeys \subseteq Keys
    /\ events \subseteq Ids \X Events
    /\ delivery \in [Deliveries -> DeliveryState]
    /\ query \in [Queries -> QueryState]

\* However often and however concurrently HighLevel delivers an event, at most
\* one delivery is ever handed to the Transactions service, even when several
\* integrations share its location, keys are regenerated or the integration is
\* uninstalled, which deletes its webhook_events, and installed anew.
EventChargedOnce ==
    \A v, w \in Deliveries :
        /\ delivery[v].recorded /\ delivery[w].recorded
        /\ delivery[v].event = delivery[w].event
        => v = w

\* What a verify query was told about a deposit stays true: VerifyPayment reads
\* the status once and calls only a settled deposit a success or a failure.
VerdictStands ==
    \A q \in Queries :
        /\ query[q].verdict = "success" =>
             deposit[query[q].deposit].status = "COMPLETED"
        /\ query[q].verdict = "failed" =>
             deposit[query[q].deposit].status = "FAILED"

\* A capture with a charge that found its deposit is acknowledged only with the
\* charge recorded on that deposit, whichever call or statement failed.
AcknowledgedCaptureIsRecorded ==
    \A w \in Deliveries :
        /\ delivery[w].code = 200 /\ delivery[w].deposit # None
        /\ Body(w).charge # None
        => deposit[delivery[w].deposit].charge # None

\* UpdateGHLReference rewrites the transaction of a deposit looked up one
\* statement earlier: it never moves the deposit to another transaction.
CorrelationIsStable ==
    [][\A d \in Deposits : deposit[d].transaction # None =>
         deposit'[d].transaction = deposit[d].transaction]_vars

\* A delivery is at work from the INSERT of its event to its answer.
Working == [w \in Deliveries |->
              IF delivery[w].pc \in {"lookup", "update"}
              THEN delivery[w].event ELSE None]
Taken == {delivery[w].event : w \in {v \in Deliveries : delivery[v].recorded}}
Confirmed == {delivery[w].event : w \in {v \in Deliveries : delivery[v].code = 200}}

Log == INSTANCE EventLog WITH
    Jobs <- Events, Subject <- [e \in Events |-> e],
    taken <- Taken, working <- Working, confirmed <- Confirmed

\* The endpoint is an EventLog whose jobs are the events themselves, whichever
\* integration they are recorded for: only the delivery that recorded an event
\* calls the Transactions service about it or has it answered 2xx.
ImplementsEventLog == Log!Spec

\* Deposits and customers as an account book, HighLevel's captures as they were
\* recorded, and the verdicts given.
AccountsOpen == {customer[u] : u \in Customers} \ {NoOwner}
StatusOf == [d \in Deposits |-> deposit[d].status]
OwnerOf == [d \in Deposits |-> deposit[d].owner]
TransactionOf == [d \in Deposits |-> deposit[d].transaction]
ChargeOf == [d \in Deposits |-> deposit[d].charge]
IsReport(w) ==
    /\ delivery[w].recorded /\ Body(w).type = "payment.captured"
    /\ Body(w).transaction # None /\ Body(w).charge # None
Reported == {<<Body(w).transaction, Body(w).charge>> :
               w \in {v \in Deliveries : IsReport(v)}}
Told == [q \in Queries |-> IF query[q].verdict = "none" THEN None
                          ELSE <<query[q].deposit, query[q].verdict>>]

Book == INSTANCE DepositBook WITH
    Accounts <- Owner \ {NoOwner}, NoAccount <- NoOwner,
    accounts <- AccountsOpen, status <- StatusOf, owner <- OwnerOf,
    transaction <- TransactionOf, charge <- ChargeOf,
    reported <- Reported, told <- Told

\* Both services together keep a DepositBook, although a deposit's tenant, its
\* transaction and its charge are each read one statement and written in another,
\* by handlers that repeat, overlap and fail.
ImplementsDepositBook == Book!Spec

\* What clients/docs/connectivity-checklist.md expects of a test payment: once
\* a deposit exists and its payment.captured event has been acknowledged,
\* ghl_transaction_id and ghl_charge_id are populated.
CapturePopulatesDeposit ==
    /\ \E d \in Deposits : DepositExists(d)
    /\ \E w \in Deliveries :
         /\ delivery[w].code = 200
         /\ Body(w).transaction # None /\ Body(w).charge # None
    ~> \E d \in Deposits : deposit[d].transaction # None /\ deposit[d].charge # None

-------------------------------------------------------------------------------
(* The inductive invariant behind the theorems of PaymentProviderProofs *)

\* A key belongs to at most one integration and was drawn once.
KeysAreOwned ==
    \A i \in Ids : config[i].key # None =>
        /\ config[i].key \in usedKeys
        /\ \A j \in Ids : config[j].key = config[i].key => j = i

\* A delivery let in by a key keeps the integration that had the key: nobody
\* else has it now or will ever have it.
KeysAreSpent ==
    \A w \in Deliveries : delivery[w].id # None =>
        /\ delivery[w].event # None
        /\ Body(w).key \in usedKeys
        /\ \A j \in Ids : config[j].key = Body(w).key => j = delivery[w].id

\* All deliveries of one event let in were let in for one integration.
OneTarget ==
    \A v, w \in Deliveries :
        /\ delivery[v].id # None /\ delivery[w].id # None
        /\ delivery[v].event = delivery[w].event
        => delivery[v].id = delivery[w].id

\* The record of an event outlives everything but its integration.
RecordsLast ==
    \A w \in Deliveries : delivery[w].recorded =>
        /\ delivery[w].id # None
        /\ \/ <<delivery[w].id, delivery[w].event>> \in events
           \/ integration[delivery[w].id] = "GONE"

\* What a delivery holds at each point of HandleWebhook.
DeliveryControl ==
    \A w \in Deliveries :
        /\ delivery[w].pc = "idle" => delivery[w].id = None
        /\ delivery[w].pc \in {"integration", "record", "lookup", "update"} =>
             delivery[w].id # None
        /\ delivery[w].pc # "done" => delivery[w].code = 0
        /\ delivery[w].pc \in {"idle", "integration", "record", "lookup"} =>
             delivery[w].deposit = None
        /\ delivery[w].pc \in {"idle", "integration", "record"} =>
             ~ delivery[w].recorded
        /\ delivery[w].deposit # None => delivery[w].event # None
        /\ delivery[w].pc = "update" =>
             /\ delivery[w].deposit # None /\ Body(w).charge # None
             /\ Body(w).transaction # None
             /\ deposit[delivery[w].deposit].transaction = Body(w).transaction

\* Only a backfilled deposit has a transaction or a charge.
CorrelationIsBackfilled ==
    \A d \in Deposits : deposit[d].transaction # None \/ deposit[d].charge # None =>
        DepositExists(d) /\ ~ deposit[d].nulls

\* A delivery beyond the INSERT recorded its event, and what it is about to write
\* is a capture's.
CaptureInHand ==
    \A w \in Deliveries :
        /\ delivery[w].pc \in {"lookup", "update"} => delivery[w].recorded
        /\ delivery[w].pc = "update" => Body(w).type = "payment.captured"

\* A query is answered once.
VerdictIsLast ==
    \A q \in Queries : query[q].verdict # "none" => query[q].pc = "done"

\* A verdict is about a deposit.
VerdictHasDeposit ==
    \A q \in Queries : query[q].verdict # "none" => query[q].deposit # None
===============================================================================
