------------------------ MODULE PaymentProviderProofs ------------------------
(***************************************************************************)
(* Proofs about Ledger and PaymentProvider, for any number of merchants,   *)
(* customers, deposits, integrations, keys, events and requests.           *)
(***************************************************************************)
EXTENDS PaymentProvider, TLAPS

-------------------------------------------------------------------------------
(* Types *)

\* Every step of the Transactions handlers keeps the tables' and calls' types.
LEMMA LedgerTypeStep ==
    ASSUME LedgerTypeOK, LedgerNext
    PROVE  LedgerTypeOK'
<1> USE LedgerAssumption
<1>1. ASSUME NEW c \in Calls, NEW res \in {"OK", "InvalidArgument", "NotFound",
                                          "AlreadyExists", "Internal"},
             Answer(c, res)
      PROVE  call' \in [Calls -> CallState]
  <2>1. call[c] \in CallState
    BY DEF LedgerTypeOK
  <2> DEFINE q == [call[c] EXCEPT !.pc = "done", !.result = res]
  <2>2. q \in CallState
    BY <2>1 DEF CallState
  <2>3. call' = [call EXCEPT ![c] = q]
    BY <1>1 DEF Answer, LedgerTypeOK
  <2> HIDE DEF q
  <2> QED BY <2>2, <2>3 DEF LedgerTypeOK
<1>2. ASSUME NEW c \in Calls, Reject(c) PROVE LedgerTypeOK'
  BY <1>1, <1>2 DEF LedgerTypeOK, Reject
<1>3. ASSUME NEW c \in Calls, CreateMerchant(c) PROVE LedgerTypeOK'
  <2>1. call' \in [Calls -> CallState]
    BY <1>1, <1>3 DEF CreateMerchant
  <2>2. merchant' \in [Merchants -> Slugs \cup {None}]
    BY <1>3 DEF CreateMerchant, LedgerTypeOK
  <2> QED BY <1>3, <2>1, <2>2 DEF CreateMerchant, LedgerTypeOK
<1>4. ASSUME NEW c \in Calls, CreateCustomer(c) PROVE LedgerTypeOK'
  <2>1. call' \in [Calls -> CallState]
    BY <1>1, <1>4 DEF CreateCustomer
  <2>2. customer' \in [Customers -> Owner]
    BY <1>4 DEF CreateCustomer, LedgerTypeOK, Owner
  <2> QED BY <1>4, <2>1, <2>2 DEF CreateCustomer, LedgerTypeOK
<1>5. ASSUME NEW c \in Calls, InitiateDeposit(c) PROVE LedgerTypeOK'
  <2>1. PICK o \in Owner : call' = [call EXCEPT ![c].pc = "customer", ![c].owner = o]
    BY <1>5 DEF InitiateDeposit, Owner
  <2> DEFINE q == [call[c] EXCEPT !.pc = "customer", !.owner = o]
  <2>2. q \in CallState
    BY SMTT(20), ZenonT(40) DEF LedgerTypeOK, CallState
  <2>3. call' = [call EXCEPT ![c] = q]
    BY <2>1 DEF LedgerTypeOK
  <2> HIDE DEF q
  <2>4. call' \in [Calls -> CallState]
    BY <2>2, <2>3 DEF LedgerTypeOK
  <2> QED BY <1>5, <2>4 DEF InitiateDeposit, LedgerTypeOK
<1>6. ASSUME NEW c \in Calls, DepositCustomer(c) PROVE LedgerTypeOK'
  <2>1. call' \in [Calls -> CallState]
    <3>1. CASE Answer(c, "NotFound")
      BY <1>1, <3>1
    <3>2. CASE \E u \in Customers :
                 call' = [call EXCEPT ![c].pc = "insert", ![c].customer = u]
      <4>1. PICK u \in Customers :
                 call' = [call EXCEPT ![c].pc = "insert", ![c].customer = u]
        BY <3>2
      <4> DEFINE q == [call[c] EXCEPT !.pc = "insert", !.customer = u]
      <4>2. q \in CallState
        BY SMTT(20), ZenonT(40) DEF LedgerTypeOK, CallState
      <4>3. call' = [call EXCEPT ![c] = q]
        BY <4>1 DEF LedgerTypeOK
      <4> HIDE DEF q
      <4> QED BY <4>2, <4>3 DEF LedgerTypeOK
    <3> QED BY <1>6, <3>1, <3>2 DEF DepositCustomer, GetByClientAndMerchantAndPhone
  <2> QED BY <1>6, <2>1 DEF DepositCustomer, LedgerTypeOK
<1>7. ASSUME NEW c \in Calls, DepositInsert(c) PROVE LedgerTypeOK'
  <2>1. CASE Answer(c, "NotFound") /\ UNCHANGED deposit
    BY <1>1, <1>7, <2>1 DEF DepositInsert, LedgerTypeOK
  <2>2. CASE ~ (Answer(c, "NotFound") /\ UNCHANGED deposit)
    <3> DEFINE row == [status |-> "INITIATED", owner |-> call[c].owner,
                       customer |-> call[c].customer, nulls |-> TRUE,
                       transaction |-> None, charge |-> None]
    <3>1. PICK d \in Deposits :
            /\ deposit' = [deposit EXCEPT ![d] = row]
            /\ call' = [call EXCEPT ![c].pc = "done", ![c].deposit = d,
                                    ![c].result = ReadBack(row)]
      BY <1>7, <2>2 DEF DepositInsert
    <3>2. row \in DepositRow /\ ReadBack(row) = "Internal"
      BY DEF LedgerTypeOK, CallState, DepositRow, DepositStatus, ReadBack
    <3> HIDE DEF row
    <3> DEFINE q == [call[c] EXCEPT !.pc = "done", !.deposit = d, !.result = "Internal"]
    <3>3. q \in CallState
      BY SMTT(20), ZenonT(40) DEF LedgerTypeOK, CallState
    <3>4. call' = [call EXCEPT ![c] = q]
      BY <3>1, <3>2 DEF LedgerTypeOK
    <3> HIDE DEF q
    <3>5. call' \in [Calls -> CallState]
      BY <3>3, <3>4 DEF LedgerTypeOK
    <3>6. deposit' = [deposit EXCEPT ![d] = row]
      BY <3>1
    <3>7. deposit' \in [Deposits -> DepositRow]
      BY <3>2, <3>6 DEF LedgerTypeOK
    <3> QED BY <1>7, <3>5, <3>7 DEF DepositInsert, LedgerTypeOK
  <2> QED BY <2>1, <2>2
<1>8. ASSUME NEW c \in Calls, RequestPayout(c) PROVE LedgerTypeOK'
  <2>1. call' \in [Calls -> CallState]
    BY <1>1, <1>8 DEF RequestPayout, ReadBack
  <2>2. payout' \in [Payouts -> Owner]
    BY <1>8 DEF RequestPayout, LedgerTypeOK, Owner
  <2> QED BY <1>8, <2>1, <2>2 DEF RequestPayout, LedgerTypeOK
<1>9. ASSUME NEW c \in Calls, CallFails(c) PROVE LedgerTypeOK'
  BY <1>1, <1>9 DEF LedgerTypeOK, CallFails
<1>10. ASSUME NEW d \in Deposits, NEW s \in DepositStatus,
              deposit' = [deposit EXCEPT ![d].status = s]
       PROVE  deposit' \in [Deposits -> DepositRow]
  BY <1>10, SMTT(20), ZenonT(40) DEF LedgerTypeOK, DepositRow
<1>11. ASSUME NEW d \in Deposits, Settle(d) PROVE LedgerTypeOK'
  <2>1. deposit' \in [Deposits -> DepositRow]
    BY <1>10, <1>11 DEF Settle, DepositStatus
  <2> QED BY <1>11, <2>1 DEF Settle, LedgerTypeOK
<1>12. ASSUME NEW d \in Deposits, Backfill(d) PROVE LedgerTypeOK'
  <2>1. PICK t \in Transactions :
          deposit' = [deposit EXCEPT ![d].nulls = FALSE, ![d].transaction = t]
    BY <1>12 DEF Backfill
  <2> DEFINE q == [deposit[d] EXCEPT !.nulls = FALSE, !.transaction = t]
  <2>a. deposit[d] \in DepositRow /\ FALSE \in BOOLEAN
    BY DEF LedgerTypeOK
  <2>2. q \in DepositRow
    BY <2>a, Zenon DEF DepositRow
  <2>3. deposit' = [deposit EXCEPT ![d] = q]
    BY <2>1 DEF LedgerTypeOK
  <2> HIDE DEF q
  <2>4. deposit' \in [Deposits -> DepositRow]
    BY <2>2, <2>3 DEF LedgerTypeOK
  <2> QED BY <1>12, <2>4 DEF Backfill, LedgerTypeOK
<1> QED BY <1>2, <1>3, <1>4, <1>5, <1>6, <1>7, <1>8, <1>9, <1>11, <1>12 DEF LedgerNext

\* The body of an event a delivery holds.
LEMMA BodyType ==
    ASSUME NEW e \in Events
    PROVE  EventOf[e] \in EventBody
BY ProviderAssumption

\* The control points, codes and verdicts the handlers assign.
LEMMA Assigned ==
    /\ {"integration", "record", "lookup", "update", "done"} \subseteq DeliveryPoints
    /\ {0, 200, 400, 404, 500} \subseteq DeliveryCodes
    /\ {"transaction", "charge", "done"} \subseteq QueryPoints
    /\ {200, 400, 401, 404, 500} \subseteq QueryCodes
    /\ {"success", "failed", "pending"} \subseteq QueryVerdicts
    /\ TRUE \in BOOLEAN /\ FALSE \in BOOLEAN
BY DEF DeliveryPoints, DeliveryCodes, QueryPoints, QueryCodes, QueryVerdicts

\* Replacing one delivery's state, or one query's, by a state of its type.
LEMMA DeliveryReplaced ==
    ASSUME TypeOK, NEW w \in Deliveries, NEW s \in DeliveryState,
           delivery' = [delivery EXCEPT ![w] = s]
    PROVE  delivery' \in [Deliveries -> DeliveryState]
<1>1. delivery \in [Deliveries -> DeliveryState]
  BY DEF TypeOK
<1> QED BY <1>1, Zenon

\* The same for a query.
LEMMA QueryReplaced ==
    ASSUME TypeOK, NEW q \in Queries, NEW s \in QueryState,
           query' = [query EXCEPT ![q] = s]
    PROVE  query' \in [Queries -> QueryState]
<1>1. query \in [Queries -> QueryState]
  BY DEF TypeOK
<1> QED BY <1>1, Zenon

\* Whatever a delivery is answered, its state keeps its type.
LEMMA RespondType ==
    ASSUME TypeOK, NEW w \in Deliveries, NEW code \in DeliveryCodes,
           Respond(w, code)
    PROVE  delivery' \in [Deliveries -> DeliveryState]
<1> DEFINE s == [delivery[w] EXCEPT !.pc = "done", !.code = code]
<1>1. delivery[w] \in DeliveryState /\ "done" \in DeliveryPoints /\ code \in DeliveryCodes
  BY Assigned DEF TypeOK
<1>2. s \in DeliveryState
  BY <1>1, Zenon DEF DeliveryState
<1>3. delivery \in [Deliveries -> DeliveryState]
  BY DEF TypeOK
<1>4. delivery' = [delivery EXCEPT ![w] = s]
  BY <1>3, Zenon DEF Respond
<1> HIDE DEF s
<1> QED BY <1>2, <1>4, DeliveryReplaced

\* Whatever a query is answered, its state keeps its type.
LEMMA ReplyType ==
    ASSUME TypeOK, NEW q \in Queries, NEW code \in QueryCodes,
           Reply(q, code)
    PROVE  query' \in [Queries -> QueryState]
<1> DEFINE s == [query[q] EXCEPT !.pc = "done", !.code = code]
<1>1. query[q] \in QueryState /\ "done" \in QueryPoints /\ code \in QueryCodes
  BY Assigned DEF TypeOK
<1>2. s \in QueryState
  BY <1>1, Zenon DEF QueryState
<1>3. query \in [Queries -> QueryState]
  BY DEF TypeOK
<1>4. query' = [query EXCEPT ![q] = s]
  BY <1>3, Zenon DEF Reply
<1> HIDE DEF s
<1> QED BY <1>2, <1>4, QueryReplaced

\* A verdict is one of the three VerifyPayment gives.
LEMMA VerdictType ==
    ASSUME TypeOK, NEW q \in Queries, NEW d \in Deposits, ReplyVerdict(q, d)
    PROVE  query' \in [Queries -> QueryState]
<1> DEFINE s == [query[q] EXCEPT !.pc = "done", !.code = 200, !.deposit = d,
                                 !.verdict = Verdict(d)]
<1>1. Verdict(d) \in {"success", "failed", "pending"}
  BY DEF Verdict
<1>2. /\ query[q] \in QueryState /\ "done" \in QueryPoints
      /\ 200 \in QueryCodes /\ Verdict(d) \in QueryVerdicts
      /\ d \in Deposits \cup {None}
  BY <1>1, Assigned DEF TypeOK
<1>3. s \in QueryState
  BY <1>2, ZenonT(60) DEF QueryState
<1>4. query \in [Queries -> QueryState]
  BY DEF TypeOK
<1>5. query' = [query EXCEPT ![q] = s]
  BY <1>4, ZenonT(60) DEF ReplyVerdict
<1> HIDE DEF s
<1> QED BY <1>3, <1>5, QueryReplaced

\* The installations and configs keep their types.
LEMMA ClientsTypeStep ==
    ASSUME TypeOK, ClientsNext
    PROVE  TypeOK'
<1> USE LedgerAssumption, ProviderAssumption
<1>1. ASSUME UNCHANGED ledgerVars PROVE LedgerTypeOK'
  BY <1>1 DEF ledgerVars, TypeOK, LedgerTypeOK
<1>2. ASSUME NEW i \in Ids, Install(i) PROVE TypeOK'
  BY <1>1, <1>2 DEF Install, TypeOK
<1>3. ASSUME NEW i \in Ids, InstallEvent(i) PROVE TypeOK'
  <2>1. config' \in [Ids -> [location : Locations \cup {None}, key : Keys \cup {None}]]
    BY <1>3 DEF InstallEvent, TypeOK
  <2> QED BY <1>1, <1>3, <2>1 DEF InstallEvent, TypeOK
<1>4. ASSUME NEW i \in Ids, RegisterProvider(i) PROVE TypeOK'
  <2>1. config' \in [Ids -> [location : Locations \cup {None}, key : Keys \cup {None}]]
    BY <1>4 DEF RegisterProvider, TypeOK
  <2>2. usedKeys' \subseteq Keys
    BY <1>4 DEF RegisterProvider, TypeOK
  <2> QED BY <1>1, <1>4, <2>1, <2>2 DEF RegisterProvider, TypeOK
<1>5. ASSUME NEW i \in Ids, Uninstall(i) PROVE TypeOK'
  <2>1. config' \in [Ids -> [location : Locations \cup {None}, key : Keys \cup {None}]]
    BY <1>5 DEF Uninstall, TypeOK
  <2>2. integration' \in [Ids -> {"NONE", "LIVE", "GONE"}]
    BY <1>5 DEF Uninstall, TypeOK
  <2>3. events' \subseteq Ids \X Events
    BY <1>5 DEF Uninstall, TypeOK
  <2> QED BY <1>1, <1>5, <2>1, <2>2, <2>3 DEF Uninstall, TypeOK
<1> QED BY <1>2, <1>3, <1>4, <1>5 DEF ClientsNext

\* The two outcomes of the key check: an error, or the delivery is let in.
LEMMA ConfigOutcome ==
    ASSUME NEW w, WebhookConfig(w)
    PROVE  \/ \E code \in {400, 404, 500} : Respond(w, code)
           \/ \E e \in Events, i \in Ids :
                /\ KeyMatches(i, EventOf[e])
                /\ delivery' = [delivery EXCEPT ![w].pc = "integration",
                                                ![w].event = e, ![w].id = i]
<1> DEFINE Goal ==
             \E e \in Events, i \in Ids :
               /\ KeyMatches(i, EventOf[e])
               /\ delivery' = [delivery EXCEPT ![w].pc = "integration",
                                               ![w].event = e, ![w].id = i]
<1>1. ASSUME NEW e \in Events, NEW i \in Ids, KeyMatches(i, EventOf[e]), LetIn(w, e, i)
      PROVE  Goal
  BY <1>1, Zenon DEF LetIn
<1> HIDE DEF Goal
<1>2. Respond(w, 400) \/ Respond(w, 404) \/ Respond(w, 500) \/ Goal
  BY <1>1, SMT DEF WebhookConfig
<1> DEFINE codes == {400, 404, 500}
<1>3. 400 \in codes /\ 404 \in codes /\ 500 \in codes
  OBVIOUS
<1> HIDE DEF codes
<1>4. (\E code \in codes : Respond(w, code)) \/ Goal
  BY <1>2, <1>3, ZenonT(40)
<1> QED BY <1>4 DEF Goal, codes

\* The two outcomes of the lookup: an answer, or the deposit of the transaction.
LEMMA LookupOutcome ==
    ASSUME NEW w, ProcessLookup(w)
    PROVE  \/ \E code \in {200, 500} : Respond(w, code)
           \/ \E d \in Deposits :
                /\ Body(w).transaction # None
                /\ deposit[d].transaction = Body(w).transaction
                /\ delivery' =
                     [delivery EXCEPT
                        ![w].deposit = d,
                        ![w].pc = IF Body(w).charge = None THEN "done" ELSE "update",
                        ![w].code = IF Body(w).charge = None THEN 200 ELSE 0]
<1>1. \/ Respond(w, 500) \/ Respond(w, 200)
      \/ \E d \in DepositsOf(Body(w).transaction) : GoOn(w, d)
  BY Zenon DEF ProcessLookup
<1>2. ASSUME NEW d \in DepositsOf(Body(w).transaction)
      PROVE  /\ d \in Deposits /\ Body(w).transaction # None
             /\ deposit[d].transaction = Body(w).transaction
  BY DEF DepositsOf
<1>3. CASE Respond(w, 500) \/ Respond(w, 200)
  <2>1. \E code \in {200, 500} : Respond(w, code)
    <3>1. CASE Respond(w, 500)
      <4> WITNESS 500 \in {200, 500}
      <4> QED BY <3>1
    <3>2. CASE Respond(w, 200)
      <4> WITNESS 200 \in {200, 500}
      <4> QED BY <3>2
    <3> QED BY <1>3, <3>1, <3>2
  <2> QED BY <2>1
<1>4. CASE \E d \in DepositsOf(Body(w).transaction) : GoOn(w, d)
  <2>1. PICK d \in DepositsOf(Body(w).transaction) : GoOn(w, d)
    BY <1>4
  <2>2. /\ d \in Deposits /\ Body(w).transaction # None
        /\ deposit[d].transaction = Body(w).transaction
    BY <1>2
  <2>3. delivery' =
          [delivery EXCEPT
             ![w].deposit = d,
             ![w].pc = IF Body(w).charge = None THEN "done" ELSE "update",
             ![w].code = IF Body(w).charge = None THEN 200 ELSE 0]
    BY <2>1 DEF GoOn
  <2> QED BY <2>2, <2>3, Zenon
<1> QED BY <1>1, <1>3, <1>4

\* What the handlers leave alone.
LEMMA WebhookLeaves ==
    ASSUME NEW w, HandleWebhook(w) \/ DeliveryFails(w)
    PROVE  UNCHANGED <<merchant, customer, call, query>>
<1>1. WebhookInvalid(w) => UNCHANGED <<merchant, customer, call, query>>
  BY DEF WebhookInvalid, ledgerVars
<1>2. WebhookConfig(w) => UNCHANGED <<merchant, customer, call, query>>
  BY DEF WebhookConfig, ledgerVars
<1>3. WebhookIntegration(w) => UNCHANGED <<merchant, customer, call, query>>
  BY DEF WebhookIntegration, ledgerVars
<1>4. WebhookRecord(w) => UNCHANGED <<merchant, customer, call, query>>
  BY DEF WebhookRecord, ledgerVars
<1>5. ProcessLookup(w) => UNCHANGED <<merchant, customer, call, query>>
  BY DEF ProcessLookup, ledgerVars
<1>6. ProcessUpdate(w) => UNCHANGED <<merchant, customer, call, query>>
  BY DEF ProcessUpdate
<1>7. DeliveryFails(w) => UNCHANGED <<merchant, customer, call, query>>
  BY DEF DeliveryFails, ledgerVars
<1> QED BY <1>1, <1>2, <1>3, <1>4, <1>5, <1>6, <1>7, Zenon DEF HandleWebhook

LEMMA QueryLeaves ==
    ASSUME NEW q, HandleQuery(q) \/ QueryFails(q)
    PROVE  UNCHANGED <<ledgerVars, clientsVars, delivery>>
<1>1. QueryInvalid(q) => UNCHANGED <<ledgerVars, clientsVars, delivery>>
  BY DEF QueryInvalid
<1>2. QueryConfig(q) => UNCHANGED <<ledgerVars, clientsVars, delivery>>
  BY DEF QueryConfig
<1>3. ResolveTransaction(q) => UNCHANGED <<ledgerVars, clientsVars, delivery>>
  BY DEF ResolveTransaction
<1>4. ResolveCharge(q) => UNCHANGED <<ledgerVars, clientsVars, delivery>>
  BY DEF ResolveCharge
<1>5. QueryFails(q) => UNCHANGED <<ledgerVars, clientsVars, delivery>>
  BY DEF QueryFails
<1> QED BY <1>1, <1>2, <1>3, <1>4, <1>5, Zenon DEF HandleQuery

\* What a delivery does to the types when it leaves the tables alone.
LEMMA DeliveryTypeFrame ==
    ASSUME TypeOK, UNCHANGED <<ledgerVars, clientsVars, query>>,
           delivery' \in [Deliveries -> DeliveryState]
    PROVE  TypeOK'
BY DEF TypeOK, LedgerTypeOK, ledgerVars, clientsVars

\* The steps of HandleWebhook and ProcessPaymentWebhook keep the types.
LEMMA WebhookTypeStep ==
    ASSUME TypeOK, DeliveryControl, KeysAreSpent,
           NEW w \in Deliveries, HandleWebhook(w) \/ DeliveryFails(w)
    PROVE  TypeOK'
<1> USE LedgerAssumption, ProviderAssumption
<1>a. delivery \in [Deliveries -> DeliveryState]
  BY DEF TypeOK
<1>0. delivery[w] \in DeliveryState
  BY <1>a
<1>1. CASE WebhookInvalid(w) \/ DeliveryFails(w)
  BY <1>1, Assigned, RespondType, DeliveryTypeFrame DEF WebhookInvalid, DeliveryFails
<1>2. CASE WebhookConfig(w)
  <2>1. CASE \E code \in {400, 404, 500} : Respond(w, code)
    BY <1>2, <2>1, Assigned, RespondType, DeliveryTypeFrame DEF WebhookConfig
  <2>2. CASE ~ \E code \in {400, 404, 500} : Respond(w, code)
    <3>1. PICK e \in Events, i \in Ids :
            delivery' = [delivery EXCEPT ![w].pc = "integration",
                                         ![w].event = e, ![w].id = i]
      BY <1>2, <2>2, ConfigOutcome, ZenonT(40)
    <3> DEFINE s == [delivery[w] EXCEPT !.pc = "integration", !.event = e, !.id = i]
    <3>2. /\ "integration" \in DeliveryPoints
          /\ e \in Events \cup {None} /\ i \in Ids \cup {None}
      BY Assigned
    <3>3. s \in DeliveryState
      BY <1>0, <3>2, Zenon DEF DeliveryState
    <3>4. delivery' = [delivery EXCEPT ![w] = s]
      BY <1>a, <3>1, Zenon
    <3> HIDE DEF s
    <3>5. delivery' \in [Deliveries -> DeliveryState]
      BY <3>3, <3>4, DeliveryReplaced
    <3> QED BY <1>2, <3>5, DeliveryTypeFrame DEF WebhookConfig
  <2> QED BY <2>1, <2>2
<1>3. CASE WebhookIntegration(w)
  <2>1. CASE Respond(w, 404)
    BY <1>3, <2>1, Assigned, RespondType, DeliveryTypeFrame DEF WebhookIntegration
  <2>2. CASE delivery' = [delivery EXCEPT ![w].pc = "record"]
    <3> DEFINE s == [delivery[w] EXCEPT !.pc = "record"]
    <3>1. "record" \in DeliveryPoints
      BY Assigned
    <3>2. s \in DeliveryState
      BY <1>0, <3>1, Zenon DEF DeliveryState
    <3>3. delivery' = [delivery EXCEPT ![w] = s]
      BY <1>a, <2>2, Zenon
    <3> HIDE DEF s
    <3>4. delivery' \in [Deliveries -> DeliveryState]
      BY <3>2, <3>3, DeliveryReplaced
    <3> QED BY <1>3, <3>4, DeliveryTypeFrame DEF WebhookIntegration
  <2> QED BY <1>3, <2>1, <2>2 DEF WebhookIntegration
<1>4. CASE WebhookRecord(w)
  <2>1. CASE \/ Respond(w, 400) /\ UNCHANGED events
             \/ Respond(w, 500) /\ UNCHANGED events
    <3>1. delivery' \in [Deliveries -> DeliveryState]
      BY <2>1, Assigned, RespondType
    <3>2. UNCHANGED <<ledgerVars, clientsVars, query>>
      BY <1>4, <2>1 DEF WebhookRecord, clientsVars
    <3> QED BY <3>1, <3>2, DeliveryTypeFrame
  <2>2. CASE /\ integration[delivery[w].id] = "LIVE"
             /\ events' = events \cup {<<delivery[w].id, delivery[w].event>>}
             /\ delivery' = [delivery EXCEPT ![w].pc = "lookup", ![w].recorded = TRUE]
    <3> DEFINE s == [delivery[w] EXCEPT !.pc = "lookup", !.recorded = TRUE]
    <3>1. "lookup" \in DeliveryPoints /\ TRUE \in BOOLEAN
      BY Assigned
    <3>2. s \in DeliveryState
      BY <1>0, <3>1, Zenon DEF DeliveryState
    <3>3. delivery' = [delivery EXCEPT ![w] = s]
      BY <1>a, <2>2, Zenon
    <3> HIDE DEF s
    <3>4. delivery' \in [Deliveries -> DeliveryState]
      BY <3>2, <3>3, DeliveryReplaced
    <3>a. delivery[w].id \in Ids /\ delivery[w].event \in Events
      <4>1. delivery[w].id # None /\ delivery[w].event # None
        BY <1>4 DEF WebhookRecord, DeliveryControl, KeysAreSpent
      <4>2. delivery[w].id \in Ids \cup {None} /\ delivery[w].event \in Events \cup {None}
        BY <1>0, Zenon DEF DeliveryState
      <4> QED BY <4>1, <4>2
    <3>5. events' \subseteq Ids \X Events
      BY <2>2, <3>a DEF TypeOK
    <3>6. UNCHANGED <<ledgerVars, integration, config, usedKeys, query>>
      BY <1>4 DEF WebhookRecord
    <3> QED BY <3>4, <3>5, <3>6 DEF TypeOK, LedgerTypeOK, ledgerVars
  <2> QED BY <1>4, <2>1, <2>2 DEF WebhookRecord
<1>5. CASE ProcessLookup(w)
  <2>1. CASE \E code \in {200, 500} : Respond(w, code)
    <3>1. delivery' \in [Deliveries -> DeliveryState]
      BY <2>1, Assigned, RespondType
    <3> QED BY <1>5, <3>1, DeliveryTypeFrame DEF ProcessLookup
  <2>2. ASSUME NEW d \in Deposits, NEW p \in DeliveryPoints, NEW c \in DeliveryCodes,
               delivery' = [delivery EXCEPT ![w].deposit = d, ![w].pc = p, ![w].code = c]
        PROVE  TypeOK'
    <3> DEFINE s == [delivery[w] EXCEPT !.deposit = d, !.pc = p, !.code = c]
    <3>1. d \in Deposits \cup {None}
      OBVIOUS
    <3>2. s \in DeliveryState
      BY <1>0, <2>2, <3>1, Zenon DEF DeliveryState
    <3>3. delivery' = [delivery EXCEPT ![w] = s]
      BY <1>a, <2>2, Zenon
    <3> HIDE DEF s
    <3>4. delivery' \in [Deliveries -> DeliveryState]
      BY <3>2, <3>3, DeliveryReplaced
    <3> QED BY <1>5, <3>4, DeliveryTypeFrame DEF ProcessLookup
  <2>3. CASE \E d \in Deposits :
               delivery' = [delivery EXCEPT
                 ![w].deposit = d,
                 ![w].pc = IF Body(w).charge = None THEN "done" ELSE "update",
                 ![w].code = IF Body(w).charge = None THEN 200 ELSE 0]
    <3> DEFINE p == IF Body(w).charge = None THEN "done" ELSE "update"
               c == IF Body(w).charge = None THEN 200 ELSE 0
    <3>1. p \in DeliveryPoints /\ c \in DeliveryCodes
      BY Assigned
    <3>2. PICK d \in Deposits :
            delivery' = [delivery EXCEPT ![w].deposit = d, ![w].pc = p, ![w].code = c]
      BY <2>3
    <3> HIDE DEF p, c
    <3> QED BY <2>2, <3>1, <3>2
  <2>4. \/ \E code \in {200, 500} : Respond(w, code)
        \/ \E d \in Deposits :
               delivery' = [delivery EXCEPT
                 ![w].deposit = d,
                 ![w].pc = IF Body(w).charge = None THEN "done" ELSE "update",
                 ![w].code = IF Body(w).charge = None THEN 200 ELSE 0]
    BY <1>5, LookupOutcome
  <2> QED BY <2>1, <2>3, <2>4
<1>6. CASE ProcessUpdate(w)
  <2>1. delivery' \in [Deliveries -> DeliveryState]
    BY <1>6, Assigned, RespondType DEF ProcessUpdate
  <2>2. PICK d \in Deposits, t \in Transactions \cup {None}, ch \in Charges \cup {None} :
          deposit' = [deposit EXCEPT ![d].transaction = t, ![d].charge = ch]
    <3>1. delivery[w].deposit # None /\ delivery[w].event # None
      BY <1>6 DEF ProcessUpdate, DeliveryControl
    <3>2. /\ delivery[w].deposit \in Deposits \cup {None}
          /\ delivery[w].event \in Events \cup {None}
      BY <1>0, Zenon DEF DeliveryState
    <3>3. delivery[w].deposit \in Deposits /\ delivery[w].event \in Events
      BY <3>1, <3>2
    <3>4. Body(w) \in EventBody
      BY <3>3, BodyType DEF Body
    <3>5. /\ Body(w).transaction \in Transactions \cup {None}
          /\ Body(w).charge \in Charges \cup {None}
      BY <3>4, Zenon DEF EventBody
    <3>6. deposit' = [deposit EXCEPT
                        ![delivery[w].deposit].transaction = Body(w).transaction,
                        ![delivery[w].deposit].charge = Body(w).charge]
      BY <1>6 DEF ProcessUpdate
    <3> QED BY <3>3, <3>5, <3>6, Zenon
  <2> DEFINE r == [deposit[d] EXCEPT !.transaction = t, !.charge = ch]
  <2>3. deposit \in [Deposits -> DepositRow]
    BY DEF TypeOK, LedgerTypeOK
  <2>4. deposit[d] \in DepositRow
    BY <2>3
  <2>5. r \in DepositRow
    BY <2>4, Zenon DEF DepositRow
  <2>6. deposit' = [deposit EXCEPT ![d] = r]
    BY <2>2, <2>3, Zenon
  <2> HIDE DEF r
  <2>7. deposit' \in [Deposits -> DepositRow]
    BY <2>3, <2>5, <2>6, Zenon
  <2>8. UNCHANGED <<merchant, customer, payout, call, clientsVars, query>>
    BY <1>6 DEF ProcessUpdate
  <2> QED BY <2>1, <2>7, <2>8 DEF TypeOK, LedgerTypeOK, clientsVars
<1> QED BY <1>1, <1>2, <1>3, <1>4, <1>5, <1>6 DEF HandleWebhook

\* The steps of HandleQuery and VerifyPayment keep the types.
LEMMA QueryTypeStep ==
    ASSUME TypeOK, NEW q \in Queries, HandleQuery(q) \/ QueryFails(q)
    PROVE  TypeOK'
<1> USE LedgerAssumption, ProviderAssumption
<1>1. ASSUME query' \in [Queries -> QueryState],
             UNCHANGED <<ledgerVars, clientsVars, delivery>>
      PROVE  TypeOK'
  BY <1>1 DEF TypeOK, LedgerTypeOK, ledgerVars, clientsVars
<1>2. query \in [Queries -> QueryState]
  BY DEF TypeOK
<1>3. query[q] \in QueryState
  BY <1>2
<1>4. CASE QueryInvalid(q) \/ QueryFails(q)
  <2>1. query' \in [Queries -> QueryState]
    BY <1>4, Assigned, ReplyType DEF QueryInvalid, QueryFails
  <2> QED BY <1>1, <1>4, <2>1 DEF QueryInvalid, QueryFails
<1>5. CASE QueryConfig(q)
  <2>1. CASE Reply(q, 401)
    <3>1. query' \in [Queries -> QueryState]
      BY <2>1, Assigned, ReplyType
    <3> QED BY <1>1, <1>5, <3>1 DEF QueryConfig
  <2>2. CASE ~ Reply(q, 401)
    <3>1. PICK t \in Transactions \cup {None}, ch \in Charges \cup {None},
               p \in {"transaction", "charge"} :
            query' = [query EXCEPT ![q].pc = p, ![q].transaction = t, ![q].charge = ch]
      BY <1>5, <2>2 DEF QueryConfig
    <3> DEFINE s == [query[q] EXCEPT !.pc = p, !.transaction = t, !.charge = ch]
    <3>2. p \in QueryPoints
      BY Assigned
    <3>3. s \in QueryState
      BY <1>3, <3>2, Zenon DEF QueryState
    <3>4. query' = [query EXCEPT ![q] = s]
      BY <1>2, <3>1, Zenon
    <3> HIDE DEF s
    <3>5. query' \in [Queries -> QueryState]
      BY <3>3, <3>4, QueryReplaced
    <3> QED BY <1>1, <1>5, <3>5 DEF QueryConfig
  <2> QED BY <2>1, <2>2
<1>6. CASE ResolveTransaction(q)
  <2>1. CASE (\E d \in Deposits : ReplyVerdict(q, d)) \/ Reply(q, 404)
    <3>1. query' \in [Queries -> QueryState]
      BY <2>1, Assigned, ReplyType, VerdictType
    <3> QED BY <1>1, <1>6, <3>1 DEF ResolveTransaction
  <2>2. CASE query' = [query EXCEPT ![q].pc = "charge"]
    <3> DEFINE s == [query[q] EXCEPT !.pc = "charge"]
    <3>1. "charge" \in QueryPoints
      BY Assigned
    <3>2. s \in QueryState
      BY <1>3, <3>1, Zenon DEF QueryState
    <3>3. query' = [query EXCEPT ![q] = s]
      BY <1>2, <2>2, Zenon
    <3> HIDE DEF s
    <3>4. query' \in [Queries -> QueryState]
      BY <3>2, <3>3, QueryReplaced
    <3> QED BY <1>1, <1>6, <3>4 DEF ResolveTransaction
  <2> QED BY <1>6, <2>1, <2>2 DEF ResolveTransaction, DepositsOf
<1>7. CASE ResolveCharge(q)
  <2>1. (\E d \in Deposits : ReplyVerdict(q, d)) \/ Reply(q, 404)
    BY <1>7 DEF ResolveCharge, DepositsCharged
  <2>2. query' \in [Queries -> QueryState]
    BY <2>1, Assigned, ReplyType, VerdictType
  <2> QED BY <1>1, <1>7, <2>2 DEF ResolveCharge
<1> QED BY <1>4, <1>5, <1>6, <1>7 DEF HandleQuery

-------------------------------------------------------------------------------
(* Deposits *)

\* What a step may do to a deposit: it keeps its tenant and its transaction,
\* and neither a charge nor a settlement is ever taken back.
DepositMove(d) ==
    /\ deposit[d].transaction # None =>
         deposit'[d].transaction = deposit[d].transaction
    /\ deposit[d].charge # None => deposit'[d].charge # None
    /\ deposit[d].status \in {"COMPLETED", "FAILED"} =>
         deposit'[d].status = deposit[d].status
    /\ deposit[d].status # "NONE" =>
         /\ deposit'[d].status # "NONE"
         /\ deposit'[d].owner = deposit[d].owner
         /\ deposit'[d].customer = deposit[d].customer
    /\ deposit'[d].transaction # None \/ deposit'[d].charge # None =>
         deposit'[d].status # "NONE" /\ ~ deposit'[d].nulls

\* Every step of the services and of the world outside them is such a move.
LEMMA DepositStep ==
    ASSUME TypeOK, CorrelationIsBackfilled, DeliveryControl, [Next]_vars,
           NEW d \in Deposits
    PROVE  DepositMove(d)
<1>1. deposit \in [Deposits -> DepositRow]
  BY DEF TypeOK, LedgerTypeOK
<1>1a. deposit[d] \in DepositRow
  BY <1>1
<1>2. deposit[d].transaction # None \/ deposit[d].charge # None =>
        deposit[d].status # "NONE" /\ ~ deposit[d].nulls
  BY DEF CorrelationIsBackfilled, DepositExists
<1>3. CASE deposit'[d] = deposit[d]
  BY <1>2, <1>3 DEF DepositMove
<1>4. ASSUME NEW c \in Calls, DepositInsert(c) PROVE DepositMove(d)
  <2>1. CASE UNCHANGED deposit
    BY <1>3, <2>1
  <2>2. CASE ~ UNCHANGED deposit
    <3>1. PICK e \in Deposits :
            /\ ~ DepositExists(e)
            /\ deposit' = [deposit EXCEPT ![e] =
                   [status |-> "INITIATED", owner |-> call[c].owner,
                    customer |-> call[c].customer, nulls |-> TRUE,
                    transaction |-> None, charge |-> None]]
      BY <1>4, <2>2 DEF DepositInsert
    <3>2. CASE d # e
      BY <1>1, <1>3, <3>1, <3>2
    <3>3. CASE d = e
      <4>1. deposit'[d] = [status |-> "INITIATED", owner |-> call[c].owner,
                           customer |-> call[c].customer, nulls |-> TRUE,
                           transaction |-> None, charge |-> None]
        BY <1>1, <3>1, <3>3
      <4>2. /\ deposit'[d].status = "INITIATED" /\ deposit'[d].transaction = None
            /\ deposit'[d].charge = None
        BY <4>1
      <4>3. /\ deposit[d].status = "NONE"
            /\ deposit[d].transaction = None /\ deposit[d].charge = None
        BY <1>2, <3>1, <3>3 DEF DepositExists
      <4> QED BY <4>2, <4>3 DEF DepositMove
    <3> QED BY <3>2, <3>3
  <2> QED BY <2>1, <2>2
<1>5. ASSUME NEW e \in Deposits, Settle(e) PROVE DepositMove(d)
  <2>1. PICK s \in {"PROCESSING", "COMPLETED", "FAILED"} :
          /\ deposit[e].status \in {"INITIATED", "PROCESSING"}
          /\ deposit' = [deposit EXCEPT ![e].status = s]
    BY <1>5 DEF Settle
  <2>2. CASE d # e
    BY <1>1, <1>3, <2>1, <2>2
  <2>3. CASE d = e
    <3>1. deposit'[d] = [deposit[d] EXCEPT !.status = s]
      BY <1>1, <2>1, <2>3, Zenon
    <3>2. /\ deposit'[d].status = s
          /\ deposit'[d].owner = deposit[d].owner
          /\ deposit'[d].customer = deposit[d].customer
          /\ deposit'[d].nulls = deposit[d].nulls
          /\ deposit'[d].transaction = deposit[d].transaction
          /\ deposit'[d].charge = deposit[d].charge
      BY <1>1a, <3>1, Zenon DEF DepositRow
    <3> QED BY <1>2, <2>1, <2>3, <3>2 DEF DepositMove
  <2> QED BY <2>2, <2>3
<1>6. ASSUME NEW e \in Deposits, Backfill(e) PROVE DepositMove(d)
  <2>1. PICK t \in Transactions :
          /\ DepositExists(e) /\ deposit[e].nulls
          /\ deposit' = [deposit EXCEPT ![e].nulls = FALSE, ![e].transaction = t]
    BY <1>6 DEF Backfill
  <2>2. CASE d # e
    BY <1>1, <1>3, <2>1, <2>2, Zenon
  <2>3. CASE d = e
    <3>1. deposit'[d] = [deposit[d] EXCEPT !.nulls = FALSE, !.transaction = t]
      BY <1>1, <2>1, <2>3, Zenon
    <3>2. /\ deposit'[d].status = deposit[d].status
          /\ deposit'[d].owner = deposit[d].owner
          /\ deposit'[d].customer = deposit[d].customer
          /\ ~ deposit'[d].nulls
          /\ deposit'[d].charge = deposit[d].charge
      BY <1>1a, <3>1, Zenon DEF DepositRow
    <3>3. deposit[d].transaction = None /\ deposit[d].status # "NONE"
      BY <1>2, <2>1, <2>3 DEF DepositExists
    <3> QED BY <1>2, <3>2, <3>3, Zenon DEF DepositMove
  <2> QED BY <2>2, <2>3
<1>7. ASSUME NEW w \in Deliveries, ProcessUpdate(w) PROVE DepositMove(d)
  <2> DEFINE e == delivery[w].deposit
             t == Body(w).transaction
             ch == Body(w).charge
  <2>1. deposit' = [deposit EXCEPT ![e].transaction = t, ![e].charge = ch]
    BY <1>7 DEF ProcessUpdate
  <2>2. t # None /\ ch # None /\ deposit[e].transaction = t
    BY <1>7 DEF ProcessUpdate, DeliveryControl
  <2> HIDE DEF e, t, ch
  <2>3. CASE d # e
    BY <1>1, <1>3, <2>1, <2>3, Zenon
  <2>4. CASE d = e
    <3>1. deposit'[d] = [deposit[d] EXCEPT !.transaction = t, !.charge = ch]
      BY <1>1, <2>1, <2>4, Zenon
    <3>2. /\ deposit'[d].status = deposit[d].status
          /\ deposit'[d].owner = deposit[d].owner
          /\ deposit'[d].customer = deposit[d].customer
          /\ deposit'[d].nulls = deposit[d].nulls
          /\ deposit'[d].transaction = t
          /\ deposit'[d].charge = ch
      BY <1>1a, <3>1, Zenon DEF DepositRow
    <3> QED BY <1>2, <2>2, <2>4, <3>2 DEF DepositMove
  <2> QED BY <2>3, <2>4
<1>8. CASE UNCHANGED deposit
  BY <1>3, <1>8
<1>9. CASE LedgerNext
  BY <1>4, <1>5, <1>6, <1>8, <1>9
     DEF LedgerNext, Reject, CreateMerchant, CreateCustomer, InitiateDeposit,
         DepositCustomer, RequestPayout, CallFails
<1>10. CASE ClientsNext
  BY <1>8, <1>10
     DEF ClientsNext, Install, InstallEvent, RegisterProvider, Uninstall, ledgerVars
<1>11. ASSUME NEW w \in Deliveries, HandleWebhook(w) \/ DeliveryFails(w)
       PROVE  DepositMove(d)
  BY <1>7, <1>8, <1>11
     DEF HandleWebhook, WebhookInvalid, WebhookConfig, WebhookIntegration,
         WebhookRecord, ProcessLookup, DeliveryFails, ledgerVars
<1>12. ASSUME NEW q \in Queries, HandleQuery(q) \/ QueryFails(q)
       PROVE  DepositMove(d)
  BY <1>8, <1>12
     DEF HandleQuery, QueryInvalid, QueryConfig, ResolveTransaction,
         ResolveCharge, QueryFails, ledgerVars
<1>13. CASE UNCHANGED vars
  BY <1>8, <1>13 DEF vars, ledgerVars
<1> QED BY <1>9, <1>10, <1>11, <1>12, <1>13 DEF Next

-------------------------------------------------------------------------------
(* Deliveries *)

\* A delivery is a record of six fields, whatever their sets.  The lemmas below
\* use no more than that of DeliveryState.
LEMMA DeliveryRecord ==
    ASSUME NEW s \in DeliveryState
    PROVE  \E P, E, I, D, B, C :
             s \in [pc : P, event : E, id : I, deposit : D, recorded : B, code : C]
<1> DEFINE P == DeliveryPoints
           E == Events \cup {None}
           I == Ids \cup {None}
           D == Deposits \cup {None}
           B == BOOLEAN
           C == DeliveryCodes
<1>1. s \in [pc : P, event : E, id : I, deposit : D, recorded : B, code : C]
  BY DEF DeliveryState
<1> HIDE DEF P, E, I, D, B, C
<1> WITNESS P, E, I, D, B, C
<1> QED BY <1>1

\* Likewise for a query.
LEMMA QueryRecord ==
    ASSUME NEW s \in QueryState
    PROVE  \E P, T, H, D, V, C :
             s \in [pc : P, transaction : T, charge : H, deposit : D, verdict : V, code : C]
<1> DEFINE P == QueryPoints
           T == Transactions \cup {None}
           H == Charges \cup {None}
           D == Deposits \cup {None}
           V == QueryVerdicts
           C == QueryCodes
<1>1. s \in [pc : P, transaction : T, charge : H, deposit : D, verdict : V, code : C]
  BY DEF QueryState
<1> HIDE DEF P, T, H, D, V, C
<1> WITNESS P, T, H, D, V, C
<1> QED BY <1>1

\* What Respond assigns and what it keeps.
LEMMA RespondFields ==
    ASSUME TypeOK, NEW w \in Deliveries, NEW code,
           Respond(w, code)
    PROVE  /\ delivery'[w].pc = "done"
           /\ delivery'[w].event = delivery[w].event
           /\ delivery'[w].id = delivery[w].id
           /\ delivery'[w].deposit = delivery[w].deposit
           /\ delivery'[w].recorded = delivery[w].recorded
           /\ delivery'[w].code = code
           /\ \A v \in Deliveries : v # w => delivery'[v] = delivery[v]
<1>1. delivery \in [Deliveries -> DeliveryState]
  BY DEF TypeOK
<1>2. PICK P, E, I, D, B, C :
        delivery[w] \in
          [pc : P, event : E, id : I, deposit : D, recorded : B, code : C]
  BY <1>1, DeliveryRecord
<1>3. delivery'[w] = [delivery[w] EXCEPT !.pc = "done", !.code = code]
  BY <1>1, Zenon DEF Respond
<1>4. \A v \in Deliveries : v # w => delivery'[v] = delivery[v]
  BY <1>1, Zenon DEF Respond
<1> DEFINE before == delivery[w]
           after == delivery'[w]
<1>5. before \in
        [pc : P, event : E, id : I, deposit : D, recorded : B, code : C]
  BY <1>2
<1>6. after = [before EXCEPT !.pc = "done", !.code = code]
  BY <1>3
<1> HIDE DEF before, after
<1>7. /\ after.pc = "done"
      /\ after.event = before.event
      /\ after.id = before.id
      /\ after.deposit = before.deposit
      /\ after.recorded = before.recorded
      /\ after.code = code
  BY <1>5, <1>6, Zenon
<1> QED BY <1>4, <1>7 DEF before, after

\* What a delivery that passed the key check holds.
LEMMA AdmitFields ==
    ASSUME TypeOK, NEW w \in Deliveries, NEW e, NEW i,
           delivery' = [delivery EXCEPT ![w].pc = "integration",
                                         ![w].event = e, ![w].id = i]
    PROVE  /\ delivery'[w].pc = "integration"
           /\ delivery'[w].event = e
           /\ delivery'[w].id = i
           /\ delivery'[w].deposit = delivery[w].deposit
           /\ delivery'[w].recorded = delivery[w].recorded
           /\ delivery'[w].code = delivery[w].code
           /\ \A v \in Deliveries : v # w => delivery'[v] = delivery[v]
<1>1. delivery \in [Deliveries -> DeliveryState]
  BY DEF TypeOK
<1>2. PICK P, E, I, D, B, C :
        delivery[w] \in
          [pc : P, event : E, id : I, deposit : D, recorded : B, code : C]
  BY <1>1, DeliveryRecord
<1>3. delivery'[w] = [delivery[w] EXCEPT !.pc = "integration", !.event = e, !.id = i]
  BY <1>1, Zenon
<1>4. \A v \in Deliveries : v # w => delivery'[v] = delivery[v]
  BY <1>1, Zenon
<1> DEFINE before == delivery[w]
           after == delivery'[w]
<1>5. before \in
        [pc : P, event : E, id : I, deposit : D, recorded : B, code : C]
  BY <1>2
<1>6. after = [before EXCEPT !.pc = "integration", !.event = e, !.id = i]
  BY <1>3
<1> HIDE DEF before, after
<1>7. /\ after.pc = "integration"
      /\ after.event = e
      /\ after.id = i
      /\ after.deposit = before.deposit
      /\ after.recorded = before.recorded
      /\ after.code = before.code
  BY <1>5, <1>6, Zenon
<1> QED BY <1>4, <1>7 DEF before, after

\* What a delivery that goes on holds.
LEMMA PointFields ==
    ASSUME TypeOK, NEW w \in Deliveries, NEW p,
           delivery' = [delivery EXCEPT ![w].pc = p]
    PROVE  /\ delivery'[w].pc = p
           /\ delivery'[w].event = delivery[w].event
           /\ delivery'[w].id = delivery[w].id
           /\ delivery'[w].deposit = delivery[w].deposit
           /\ delivery'[w].recorded = delivery[w].recorded
           /\ delivery'[w].code = delivery[w].code
           /\ \A v \in Deliveries : v # w => delivery'[v] = delivery[v]
<1>1. delivery \in [Deliveries -> DeliveryState]
  BY DEF TypeOK
<1>2. PICK P, E, I, D, B, C :
        delivery[w] \in
          [pc : P, event : E, id : I, deposit : D, recorded : B, code : C]
  BY <1>1, DeliveryRecord
<1>3. delivery'[w] = [delivery[w] EXCEPT !.pc = p]
  BY <1>1, Zenon
<1>4. \A v \in Deliveries : v # w => delivery'[v] = delivery[v]
  BY <1>1, Zenon
<1> DEFINE before == delivery[w]
           after == delivery'[w]
<1>5. before \in
        [pc : P, event : E, id : I, deposit : D, recorded : B, code : C]
  BY <1>2
<1>6. after = [before EXCEPT !.pc = p]
  BY <1>3
<1> HIDE DEF before, after
<1>7. /\ after.pc = p
      /\ after.event = before.event
      /\ after.id = before.id
      /\ after.deposit = before.deposit
      /\ after.recorded = before.recorded
      /\ after.code = before.code
  BY <1>5, <1>6, Zenon
<1> QED BY <1>4, <1>7 DEF before, after

\* What a delivery that recorded its event holds.
LEMMA RecordFields ==
    ASSUME TypeOK, NEW w \in Deliveries,
           delivery' = [delivery EXCEPT ![w].pc = "lookup", ![w].recorded = TRUE]
    PROVE  /\ delivery'[w].pc = "lookup"
           /\ delivery'[w].event = delivery[w].event
           /\ delivery'[w].id = delivery[w].id
           /\ delivery'[w].deposit = delivery[w].deposit
           /\ delivery'[w].recorded = TRUE
           /\ delivery'[w].code = delivery[w].code
           /\ \A v \in Deliveries : v # w => delivery'[v] = delivery[v]
<1>1. delivery \in [Deliveries -> DeliveryState]
  BY DEF TypeOK
<1>2. PICK P, E, I, D, B, C :
        delivery[w] \in
          [pc : P, event : E, id : I, deposit : D, recorded : B, code : C]
  BY <1>1, DeliveryRecord
<1>3. delivery'[w] = [delivery[w] EXCEPT !.pc = "lookup", !.recorded = TRUE]
  BY <1>1, Zenon
<1>4. \A v \in Deliveries : v # w => delivery'[v] = delivery[v]
  BY <1>1, Zenon
<1> DEFINE before == delivery[w]
           after == delivery'[w]
<1>5. before \in
        [pc : P, event : E, id : I, deposit : D, recorded : B, code : C]
  BY <1>2
<1>6. after = [before EXCEPT !.pc = "lookup", !.recorded = TRUE]
  BY <1>3
<1> HIDE DEF before, after
<1>7. /\ after.pc = "lookup"
      /\ after.event = before.event
      /\ after.id = before.id
      /\ after.deposit = before.deposit
      /\ after.recorded = TRUE
      /\ after.code = before.code
  BY <1>5, <1>6, Zenon
<1> QED BY <1>4, <1>7 DEF before, after

\* What a delivery that found its deposit holds.
LEMMA LookupFields ==
    ASSUME TypeOK, NEW w \in Deliveries, NEW d, NEW p, NEW c,
           delivery' = [delivery EXCEPT ![w].deposit = d, ![w].pc = p, ![w].code = c]
    PROVE  /\ delivery'[w].pc = p
           /\ delivery'[w].event = delivery[w].event
           /\ delivery'[w].id = delivery[w].id
           /\ delivery'[w].deposit = d
           /\ delivery'[w].recorded = delivery[w].recorded
           /\ delivery'[w].code = c
           /\ \A v \in Deliveries : v # w => delivery'[v] = delivery[v]
<1>1. delivery \in [Deliveries -> DeliveryState]
  BY DEF TypeOK
<1>2. PICK P, E, I, D, B, C :
        delivery[w] \in
          [pc : P, event : E, id : I, deposit : D, recorded : B, code : C]
  BY <1>1, DeliveryRecord
<1>3. delivery'[w] = [delivery[w] EXCEPT !.deposit = d, !.pc = p, !.code = c]
  BY <1>1, Zenon
<1>4. \A v \in Deliveries : v # w => delivery'[v] = delivery[v]
  BY <1>1, Zenon
<1> DEFINE before == delivery[w]
           after == delivery'[w]
<1>5. before \in
        [pc : P, event : E, id : I, deposit : D, recorded : B, code : C]
  BY <1>2
<1>6. after = [before EXCEPT !.deposit = d, !.pc = p, !.code = c]
  BY <1>3
<1> HIDE DEF before, after
<1>7. /\ after.pc = p
      /\ after.event = before.event
      /\ after.id = before.id
      /\ after.deposit = d
      /\ after.recorded = before.recorded
      /\ after.code = c
  BY <1>5, <1>6, Zenon
<1> QED BY <1>4, <1>7 DEF before, after

\* What a step may do to the identity of the deliveries: nothing, let one in by
\* its key, or record the event of one.
Keeps(w) ==
    /\ delivery'[w].id = delivery[w].id
    /\ delivery'[w].event = delivery[w].event
    /\ delivery'[w].recorded = delivery[w].recorded

Admits(w) ==
    /\ delivery[w].id = None /\ ~ delivery[w].recorded
    /\ delivery'[w].id \in Ids /\ delivery'[w].event \in Events
    /\ EventOf[delivery'[w].event].key # None
    /\ config[delivery'[w].id].key = EventOf[delivery'[w].event].key
    /\ ~ delivery'[w].recorded
    /\ \A v \in Deliveries : v # w => Keeps(v)
    /\ UNCHANGED clientsVars

Records(w) ==
    /\ delivery[w].id # None
    /\ integration[delivery[w].id] = "LIVE"
    /\ <<delivery[w].id, delivery[w].event>> \notin events
    /\ events' = events \cup {<<delivery[w].id, delivery[w].event>>}
    /\ delivery'[w].id = delivery[w].id /\ delivery'[w].event = delivery[w].event
    /\ delivery'[w].recorded
    /\ \A v \in Deliveries : v # w => Keeps(v)
    /\ UNCHANGED <<integration, config, usedKeys>>

\* A statement of HandleWebhook does one of the three.
LEMMA WebhookMoves ==
    ASSUME TypeOK, DeliveryControl, NEW w \in Deliveries,
           HandleWebhook(w) \/ DeliveryFails(w)
    PROVE  \/ UNCHANGED clientsVars /\ \A v \in Deliveries : Keeps(v)
           \/ Admits(w)
           \/ Records(w)
<1>1. ASSUME NEW code, Respond(w, code)
      PROVE  \A v \in Deliveries : Keeps(v)
  BY <1>1, RespondFields DEF Keeps
<1>2. CASE WebhookInvalid(w) \/ DeliveryFails(w)
  BY <1>1, <1>2 DEF WebhookInvalid, DeliveryFails
<1>3. CASE WebhookConfig(w)
  <2>1. CASE \E code \in {400, 404, 500} : Respond(w, code)
    BY <1>1, <1>3, <2>1 DEF WebhookConfig
  <2>2. CASE ~ \E code \in {400, 404, 500} : Respond(w, code)
    <3>1. PICK e \in Events, i \in Ids :
            /\ KeyMatches(i, EventOf[e])
            /\ delivery' = [delivery EXCEPT ![w].pc = "integration",
                                            ![w].event = e, ![w].id = i]
      BY <1>3, <2>2, ConfigOutcome
    <3>2. /\ delivery'[w].event = e /\ delivery'[w].id = i
          /\ delivery'[w].recorded = delivery[w].recorded
          /\ \A v \in Deliveries : v # w => delivery'[v] = delivery[v]
      <4>1. delivery' = [delivery EXCEPT ![w].pc = "integration",
                                         ![w].event = e, ![w].id = i]
        BY <3>1
      <4>2. /\ delivery'[w].pc = "integration"
            /\ delivery'[w].event = e
            /\ delivery'[w].id = i
            /\ delivery'[w].deposit = delivery[w].deposit
            /\ delivery'[w].recorded = delivery[w].recorded
            /\ delivery'[w].code = delivery[w].code
            /\ \A v \in Deliveries : v # w => delivery'[v] = delivery[v]
        BY <4>1, AdmitFields, Zenon
      <4> QED BY <4>2
    <3>3. delivery[w].id = None /\ ~ delivery[w].recorded
      BY <1>3 DEF WebhookConfig, DeliveryControl
    <3>4. EventOf[e].key # None /\ config[i].key = EventOf[e].key
      BY <3>1 DEF KeyMatches
    <3>5. UNCHANGED clientsVars
      BY <1>3 DEF WebhookConfig
    <3>6. \A v \in Deliveries : v # w => Keeps(v)
      BY <3>2 DEF Keeps
    <3> QED BY <3>2, <3>3, <3>4, <3>5, <3>6 DEF Admits
  <2> QED BY <2>1, <2>2
<1>4. CASE WebhookIntegration(w)
  <2>1. CASE Respond(w, 404)
    BY <1>1, <1>4, <2>1 DEF WebhookIntegration
  <2>2. CASE delivery' = [delivery EXCEPT ![w].pc = "record"]
    <3>1. \A v \in Deliveries : Keeps(v)
      BY <2>2, PointFields DEF Keeps
    <3> QED BY <1>4, <3>1 DEF WebhookIntegration
  <2> QED BY <1>4, <2>1, <2>2 DEF WebhookIntegration
<1>5. CASE WebhookRecord(w)
  <2>1. CASE \/ Respond(w, 400) /\ UNCHANGED events
             \/ Respond(w, 500) /\ UNCHANGED events
    BY <1>1, <1>5, <2>1 DEF WebhookRecord, clientsVars
  <2>2. CASE /\ integration[delivery[w].id] = "LIVE"
             /\ NewEvent(delivery[w].id, delivery[w].event)
             /\ events' = events \cup {<<delivery[w].id, delivery[w].event>>}
             /\ delivery' = [delivery EXCEPT ![w].pc = "lookup", ![w].recorded = TRUE]
    <3>1. /\ delivery'[w].event = delivery[w].event
          /\ delivery'[w].id = delivery[w].id
          /\ delivery'[w].recorded
          /\ \A v \in Deliveries : v # w => delivery'[v] = delivery[v]
      BY <2>2, RecordFields
    <3>2. delivery[w].id # None
      BY <1>5 DEF WebhookRecord, DeliveryControl
    <3>3. UNCHANGED <<integration, config, usedKeys>>
      BY <1>5 DEF WebhookRecord
    <3>4. \A v \in Deliveries : v # w => Keeps(v)
      BY <3>1 DEF Keeps
    <3> QED BY <2>2, <3>1, <3>2, <3>3, <3>4 DEF Records, NewEvent
  <2> QED BY <1>5, <2>1, <2>2 DEF WebhookRecord
<1>6. CASE ProcessLookup(w)
  <2>1. CASE \E code \in {200, 500} : Respond(w, code)
    BY <1>1, <1>6, <2>1 DEF ProcessLookup
  <2>2. CASE \E d \in Deposits :
               delivery' = [delivery EXCEPT
                 ![w].deposit = d,
                 ![w].pc = IF Body(w).charge = None THEN "done" ELSE "update",
                 ![w].code = IF Body(w).charge = None THEN 200 ELSE 0]
    <3> DEFINE p == IF Body(w).charge = None THEN "done" ELSE "update"
               c == IF Body(w).charge = None THEN 200 ELSE 0
    <3>1. PICK d \in Deposits :
            delivery' = [delivery EXCEPT ![w].deposit = d, ![w].pc = p, ![w].code = c]
      BY <2>2
    <3> HIDE DEF p, c
    <3>2. /\ delivery'[w].event = delivery[w].event
          /\ delivery'[w].id = delivery[w].id
          /\ delivery'[w].recorded = delivery[w].recorded
          /\ \A v \in Deliveries : v # w => delivery'[v] = delivery[v]
      BY <3>1, LookupFields, Zenon
    <3>3. \A v \in Deliveries : Keeps(v)
      BY <3>2 DEF Keeps
    <3> QED BY <1>6, <3>3 DEF ProcessLookup
  <2> QED BY <1>6, <2>1, <2>2, LookupOutcome
<1>7. CASE ProcessUpdate(w)
  BY <1>1, <1>7 DEF ProcessUpdate
<1> QED BY <1>2, <1>3, <1>4, <1>5, <1>6, <1>7 DEF HandleWebhook

\* Every step does one of the three, or is a step of the installations.
LEMMA DeliveryMoves ==
    ASSUME TypeOK, DeliveryControl, [Next]_vars
    PROVE  \/ /\ UNCHANGED clientsVars \/ ClientsNext
              /\ \A v \in Deliveries : Keeps(v)
           \/ \E w \in Deliveries : Admits(w) \/ Records(w)
<1>1. CASE UNCHANGED vars
  BY <1>1 DEF vars, Keeps
<1>2. CASE LedgerNext /\ UNCHANGED <<clientsVars, delivery, query>>
  BY <1>2 DEF Keeps
<1>3. CASE ClientsNext
  BY <1>3 DEF ClientsNext, Install, InstallEvent, RegisterProvider, Uninstall, Keeps
<1>4. CASE \E w \in Deliveries : HandleWebhook(w) \/ DeliveryFails(w)
  BY <1>4, WebhookMoves
<1>5. CASE \E q \in Queries : HandleQuery(q) \/ QueryFails(q)
  BY <1>5, QueryLeaves DEF Keeps
<1> QED BY <1>1, <1>2, <1>3, <1>4, <1>5 DEF Next

-------------------------------------------------------------------------------
(* An event is charged once *)

\* What the argument needs: an API key is generated once, so it leads a
\* location's event to one integration for ever; that integration's
\* webhook_events hold the event until the integration, never to come back
\* under its id, is gone.
ChargeInv ==
    /\ KeysAreOwned
    /\ KeysAreSpent
    /\ OneTarget
    /\ RecordsLast
    /\ EventChargedOnce

\* What a step of the installations does to the keys and the records.
ClientsMove ==
    /\ usedKeys \subseteq usedKeys'
    /\ \A i \in Ids : config'[i].key # None /\ config'[i].key # config[i].key =>
         /\ config'[i].key \in usedKeys' \ usedKeys
         /\ \A j \in Ids : j # i => config'[j].key = config[j].key
    /\ \A i \in Ids : integration[i] = "GONE" => integration'[i] = "GONE"
    /\ \A i \in Ids, e \in Events :
         <<i, e>> \in events => <<i, e>> \in events' \/ integration'[i] = "GONE"

\* Install, InstallEvent, RegisterProvider and Uninstall do no more than that.
LEMMA ClientsMoves ==
    ASSUME TypeOK, ClientsNext
    PROVE  ClientsMove
<1>0. /\ config \in [Ids -> [location : Locations \cup {None}, key : Keys \cup {None}]]
      /\ integration \in [Ids -> {"NONE", "LIVE", "GONE"}]
  BY DEF TypeOK
<1>1. ASSUME NEW i \in Ids, Install(i) PROVE ClientsMove
  BY <1>0, <1>1 DEF Install, ClientsMove
<1>2. ASSUME NEW i \in Ids, InstallEvent(i) PROVE ClientsMove
  <2>1. \A j \in Ids : config'[j].key = config[j].key
    BY <1>0, <1>2 DEF InstallEvent
  <2> QED BY <1>2, <2>1 DEF InstallEvent, ClientsMove
<1>3. ASSUME NEW i \in Ids, RegisterProvider(i) PROVE ClientsMove
  <2>1. PICK l \in Locations, k \in Keys \ usedKeys :
          /\ config' = [config EXCEPT ![i] = [location |-> l, key |-> k]]
          /\ usedKeys' = usedKeys \cup {k}
    BY <1>3 DEF RegisterProvider
  <2>2. config'[i].key = k /\ \A j \in Ids : j # i => config'[j].key = config[j].key
    BY <1>0, <2>1
  <2> QED BY <1>3, <2>1, <2>2 DEF RegisterProvider, ClientsMove
<1>4. ASSUME NEW i \in Ids, Uninstall(i) PROVE ClientsMove
  <2>1. config'[i].key = None /\ \A j \in Ids : j # i => config'[j].key = config[j].key
    BY <1>0, <1>4 DEF Uninstall
  <2>2. integration'[i] = "GONE" /\ \A j \in Ids : j # i => integration'[j] = integration[j]
    BY <1>0, <1>4 DEF Uninstall
  <2>3. \A j \in Ids, e \in Events : <<j, e>> \in events => <<j, e>> \in events' \/ j = i
    BY <1>4 DEF Uninstall
  <2> QED BY <1>4, <2>1, <2>2, <2>3 DEF Uninstall, ClientsMove
<1> QED BY <1>1, <1>2, <1>3, <1>4 DEF ClientsNext

\* A delivery let in names an integration and an event.
LEMMA DeliveryIds ==
    ASSUME TypeOK, NEW w \in Deliveries
    PROVE  /\ delivery[w].id # None => delivery[w].id \in Ids
           /\ delivery[w].event # None => delivery[w].event \in Events
<1>1. delivery[w] \in DeliveryState
  BY DEF TypeOK
<1>2. delivery[w].id \in Ids \cup {None} /\ delivery[w].event \in Events \cup {None}
  BY <1>1, Zenon DEF DeliveryState
<1> QED BY <1>2

\* The installations cannot make a second delivery of an event count.
LEMMA ChargeKeepsStep ==
    ASSUME TypeOK, ChargeInv, UNCHANGED clientsVars \/ ClientsNext,
           \A v \in Deliveries : Keeps(v)
    PROVE  ChargeInv'
<1>1. ClientsMove
  BY ClientsMoves DEF clientsVars, ClientsMove
<1>2. KeysAreOwned'
  BY <1>1 DEF ClientsMove, ChargeInv, KeysAreOwned
<1>3. KeysAreSpent'
  <2> SUFFICES ASSUME NEW w \in Deliveries, delivery'[w].id # None
               PROVE  /\ delivery'[w].event # None
                      /\ Body(w)'.key \in usedKeys'
                      /\ \A j \in Ids : config'[j].key = Body(w)'.key =>
                                         j = delivery'[w].id
    BY DEF KeysAreSpent
  <2> DEFINE k == Body(w).key
  <2>1. delivery[w].id = delivery'[w].id /\ Body(w)' = Body(w)
        /\ delivery[w].event = delivery'[w].event
    BY DEF Keeps, Body
  <2>2. /\ delivery[w].event # None /\ k \in usedKeys
        /\ \A j \in Ids : config[j].key = k => j = delivery[w].id
    BY <2>1 DEF ChargeInv, KeysAreSpent
  <2>3. k # None
    BY <2>2, ProviderAssumption DEF TypeOK
  <2> HIDE DEF k
  <2>4. \A j \in Ids : config'[j].key = k => j = delivery[w].id
    BY <1>1, <2>2, <2>3 DEF ClientsMove
  <2>5. k \in usedKeys'
    BY <1>1, <2>2 DEF ClientsMove
  <2> QED BY <2>1, <2>2, <2>4, <2>5 DEF k
<1>4. OneTarget'
  BY DEF ChargeInv, OneTarget, Keeps
<1>5. RecordsLast'
  <2> SUFFICES ASSUME NEW w \in Deliveries, delivery'[w].recorded
               PROVE  /\ delivery'[w].id # None
                      /\ \/ <<delivery'[w].id, delivery'[w].event>> \in events'
                         \/ integration'[delivery'[w].id] = "GONE"
    BY DEF RecordsLast
  <2>1. /\ delivery[w].id = delivery'[w].id /\ delivery[w].event = delivery'[w].event
        /\ delivery[w].recorded
    BY DEF Keeps
  <2>2. /\ delivery[w].id # None /\ delivery[w].event # None
        /\ \/ <<delivery[w].id, delivery[w].event>> \in events
           \/ integration[delivery[w].id] = "GONE"
    BY <2>1 DEF ChargeInv, RecordsLast, KeysAreSpent
  <2>3. delivery[w].id \in Ids /\ delivery[w].event \in Events
    BY <2>2, DeliveryIds
  <2> QED BY <1>1, <2>1, <2>2, <2>3 DEF ClientsMove
<1>6. EventChargedOnce'
  BY DEF ChargeInv, EventChargedOnce, Keeps
<1> QED BY <1>2, <1>3, <1>4, <1>5, <1>6 DEF ChargeInv

\* A delivery let in by its key joins the others of its event at the one
\* integration that has, or had, that key.
LEMMA ChargeAdmitsStep ==
    ASSUME TypeOK, ChargeInv, NEW w \in Deliveries, Admits(w)
    PROVE  ChargeInv'
<1> DEFINE i == delivery'[w].id
           e == delivery'[w].event
           k == EventOf[e].key
<1>1. /\ i \in Ids /\ e \in Events /\ k # None /\ config[i].key = k
      /\ \A v \in Deliveries : v # w => Keeps(v)
      /\ ~ delivery'[w].recorded
      /\ UNCHANGED <<integration, config, usedKeys, events>>
  BY DEF Admits, clientsVars
<1>2. /\ k \in usedKeys
      /\ \A j \in Ids : config[j].key = k => j = i
  BY <1>1 DEF ChargeInv, KeysAreOwned
<1>3. Body(w)'.key = k /\ e # None /\ i # None
  BY <1>1, ProviderAssumption DEF Body
<1>4. \A v \in Deliveries : v # w =>
        /\ delivery'[v].id = delivery[v].id
        /\ delivery'[v].event = delivery[v].event
        /\ delivery'[v].recorded = delivery[v].recorded
        /\ Body(v)' = Body(v)
  BY <1>1 DEF Keeps, Body
<1>5. \A v \in Deliveries : v # w /\ delivery[v].id # None /\ delivery[v].event = e
        => delivery[v].id = i
  BY <1>1 DEF ChargeInv, KeysAreSpent, Body
<1> HIDE DEF k
<1>6. KeysAreOwned'
  BY <1>1 DEF ChargeInv, KeysAreOwned
<1>7. KeysAreSpent'
  BY <1>1, <1>2, <1>3, <1>4 DEF ChargeInv, KeysAreSpent
<1>8. OneTarget'
  BY <1>4, <1>5 DEF ChargeInv, OneTarget
<1>9. RecordsLast'
  BY <1>1, <1>4 DEF ChargeInv, RecordsLast
<1>10. EventChargedOnce'
  BY <1>1, <1>4 DEF ChargeInv, EventChargedOnce
<1> QED BY <1>6, <1>7, <1>8, <1>9, <1>10 DEF ChargeInv

\* A delivery that records its event is the first: an earlier one would have
\* left its record with the same integration, which is still there.
LEMMA RecordsFirst ==
    ASSUME ChargeInv, NEW w \in Deliveries, Records(w)
    PROVE  \A v \in Deliveries : delivery[v].recorded => delivery[v].event # delivery[w].event
BY DEF Records, ChargeInv, RecordsLast, OneTarget

\* So it is the only one.
LEMMA ChargeRecordsStep ==
    ASSUME TypeOK, ChargeInv, NEW w \in Deliveries, Records(w)
    PROVE  ChargeInv'
<1>1. /\ delivery[w].id # None
      /\ integration[delivery[w].id] = "LIVE"
      /\ <<delivery[w].id, delivery[w].event>> \notin events
      /\ events' = events \cup {<<delivery[w].id, delivery[w].event>>}
      /\ UNCHANGED <<integration, config, usedKeys>>
      /\ delivery'[w].recorded
  BY DEF Records
<1>2. \A v \in Deliveries :
        /\ delivery'[v].id = delivery[v].id
        /\ delivery'[v].event = delivery[v].event
        /\ Body(v)' = Body(v)
        /\ v # w => delivery'[v].recorded = delivery[v].recorded
  BY DEF Records, Keeps, Body
<1>3. \A v \in Deliveries : delivery[v].recorded => delivery[v].event # delivery[w].event
  BY RecordsFirst
<1>4. KeysAreOwned'
  BY <1>1 DEF ChargeInv, KeysAreOwned
<1>5. KeysAreSpent'
  BY <1>1, <1>2 DEF ChargeInv, KeysAreSpent
<1>6. OneTarget'
  BY <1>2 DEF ChargeInv, OneTarget
<1>7. RecordsLast'
  BY <1>1, <1>2 DEF ChargeInv, RecordsLast
<1>8. EventChargedOnce'
  BY <1>1, <1>2, <1>3 DEF ChargeInv, EventChargedOnce
<1> QED BY <1>4, <1>5, <1>6, <1>7, <1>8 DEF ChargeInv

-------------------------------------------------------------------------------
(* Control and acknowledgement *)

\* DeliveryControl and AcknowledgedCaptureIsRecorded, of one delivery.
ControlAt(w) ==
    /\ delivery[w].pc = "idle" => delivery[w].id = None
    /\ delivery[w].pc \in {"integration", "record", "lookup", "update"} =>
         delivery[w].id # None
    /\ delivery[w].pc # "done" => delivery[w].code = 0
    /\ delivery[w].pc \in {"idle", "integration", "record", "lookup"} =>
         delivery[w].deposit = None
    /\ delivery[w].pc \in {"idle", "integration", "record"} => ~ delivery[w].recorded
    /\ delivery[w].deposit # None => delivery[w].event # None
    /\ delivery[w].pc = "update" =>
         /\ delivery[w].deposit # None
         /\ Body(w).charge # None /\ Body(w).transaction # None
         /\ deposit[delivery[w].deposit].transaction = Body(w).transaction
    /\ delivery[w].code = 200 /\ delivery[w].deposit # None /\ Body(w).charge # None
         => deposit[delivery[w].deposit].charge # None

\* The two properties are the conjunction over the deliveries.
LEMMA ControlParts ==
    (DeliveryControl /\ AcknowledgedCaptureIsRecorded) <=> \A w \in Deliveries : ControlAt(w)
BY DEF DeliveryControl, AcknowledgedCaptureIsRecorded, ControlAt

\* The deposit a delivery holds is one.
LEMMA DeliveryDeposit ==
    ASSUME TypeOK, NEW w \in Deliveries, delivery[w].deposit # None
    PROVE  delivery[w].deposit \in Deposits
<1>1. delivery[w] \in DeliveryState
  BY DEF TypeOK
<1>2. delivery[w].deposit \in Deposits \cup {None}
  BY <1>1, Zenon DEF DeliveryState
<1> QED BY <1>2

\* Other deliveries, calls and queries do not disturb a delivery.
LEMMA ControlFrame ==
    ASSUME TypeOK, NEW w \in Deliveries, ControlAt(w), delivery'[w] = delivery[w],
           \A d \in Deposits : DepositMove(d)
    PROVE  ControlAt(w)'
<1>1. Body(w)' = Body(w)
  BY DEF Body
<1>2. CASE delivery[w].deposit = None
  BY <1>1, <1>2 DEF ControlAt
<1>3. CASE delivery[w].deposit # None
  <2>1. DepositMove(delivery[w].deposit)
    BY <1>3, DeliveryDeposit
  <2> QED BY <1>1, <2>1 DEF ControlAt, DepositMove
<1> QED BY <1>2, <1>3

\* An answered delivery: only an acknowledgement owes anything.
LEMMA ControlRespond ==
    ASSUME TypeOK, NEW w \in Deliveries, ControlAt(w), NEW code, Respond(w, code),
           code = 200 /\ delivery[w].deposit # None
             => deposit'[delivery[w].deposit].charge # None
    PROVE  ControlAt(w)'
<1>1. /\ delivery'[w].pc = "done" /\ delivery'[w].code = code
      /\ delivery'[w].event = delivery[w].event
      /\ delivery'[w].deposit = delivery[w].deposit
  BY RespondFields
<1> QED BY <1>1 DEF ControlAt

\* Every statement of HandleWebhook keeps the control of its delivery.
LEMMA ControlWebhook ==
    ASSUME TypeOK, NEW w \in Deliveries, ControlAt(w),
           delivery[w].id # None => delivery[w].event # None,
           HandleWebhook(w) \/ DeliveryFails(w)
    PROVE  ControlAt(w)'
<1> USE LedgerAssumption, ProviderAssumption
<1>1. CASE WebhookInvalid(w) \/ DeliveryFails(w)
  BY <1>1, ControlRespond DEF WebhookInvalid, DeliveryFails
<1>2. CASE WebhookConfig(w)
  <2>1. CASE \E code \in {400, 404, 500} : Respond(w, code)
    BY <2>1, ControlRespond
  <2>2. CASE ~ \E code \in {400, 404, 500} : Respond(w, code)
    <3>1. PICK e \in Events, i \in Ids :
            delivery' = [delivery EXCEPT ![w].pc = "integration",
                                         ![w].event = e, ![w].id = i]
      BY <1>2, <2>2, ConfigOutcome, Zenon
    <3>2. /\ delivery'[w].pc = "integration"
          /\ delivery'[w].event = e
          /\ delivery'[w].id = i
          /\ delivery'[w].deposit = delivery[w].deposit
          /\ delivery'[w].recorded = delivery[w].recorded
          /\ delivery'[w].code = delivery[w].code
          /\ \A v \in Deliveries : v # w => delivery'[v] = delivery[v]
      BY <3>1, AdmitFields, Zenon
    <3>3. /\ delivery[w].pc = "idle" /\ i # None
      BY <1>2 DEF WebhookConfig
    <3> QED BY <3>2, <3>3 DEF ControlAt
  <2> QED BY <2>1, <2>2
<1>3. CASE WebhookIntegration(w)
  <2>1. CASE Respond(w, 404)
    BY <2>1, ControlRespond
  <2>2. CASE delivery' = [delivery EXCEPT ![w].pc = "record"]
    <3>1. /\ delivery'[w].pc = "record"
          /\ delivery'[w].event = delivery[w].event
          /\ delivery'[w].id = delivery[w].id
          /\ delivery'[w].deposit = delivery[w].deposit
          /\ delivery'[w].recorded = delivery[w].recorded
          /\ delivery'[w].code = delivery[w].code
      BY <2>2, PointFields
    <3> QED BY <1>3, <3>1 DEF WebhookIntegration, ControlAt
  <2> QED BY <1>3, <2>1, <2>2 DEF WebhookIntegration
<1>4. CASE WebhookRecord(w)
  <2>1. CASE Respond(w, 400) \/ Respond(w, 500)
    BY <2>1, ControlRespond
  <2>2. CASE delivery' = [delivery EXCEPT ![w].pc = "lookup", ![w].recorded = TRUE]
    <3>1. /\ delivery'[w].pc = "lookup"
          /\ delivery'[w].event = delivery[w].event
          /\ delivery'[w].id = delivery[w].id
          /\ delivery'[w].deposit = delivery[w].deposit
          /\ delivery'[w].code = delivery[w].code
      BY <2>2, RecordFields
    <3> QED BY <1>4, <3>1 DEF WebhookRecord, ControlAt
  <2> QED BY <1>4, <2>1, <2>2 DEF WebhookRecord
<1>5. CASE ProcessLookup(w)
  <2>0. /\ delivery[w].pc = "lookup" /\ delivery[w].id # None
        /\ delivery[w].deposit = None /\ UNCHANGED deposit
    BY <1>5 DEF ProcessLookup, ControlAt, ledgerVars
  <2>1. CASE \E code \in {200, 500} : Respond(w, code)
    BY <2>0, <2>1, ControlRespond
  <2>2. CASE ~ \E code \in {200, 500} : Respond(w, code)
    <3> DEFINE p == IF Body(w).charge = None THEN "done" ELSE "update"
               c == IF Body(w).charge = None THEN 200 ELSE 0
    <3>1. PICK d \in Deposits :
            /\ Body(w).transaction # None /\ deposit[d].transaction = Body(w).transaction
            /\ delivery' = [delivery EXCEPT ![w].deposit = d, ![w].pc = p, ![w].code = c]
      BY <1>5, <2>2, LookupOutcome
    <3>2. /\ Body(w).charge = None => p = "done" /\ c = 200
          /\ Body(w).charge # None => p = "update" /\ c = 0
      OBVIOUS
    <3> HIDE DEF p, c
    <3>3. delivery' = [delivery EXCEPT ![w].deposit = d, ![w].pc = p, ![w].code = c]
      BY <3>1
    <3>4. /\ delivery'[w].pc = p
          /\ delivery'[w].event = delivery[w].event
          /\ delivery'[w].id = delivery[w].id
          /\ delivery'[w].deposit = d
          /\ delivery'[w].recorded = delivery[w].recorded
          /\ delivery'[w].code = c
          /\ \A v \in Deliveries : v # w => delivery'[v] = delivery[v]
      BY <3>3, LookupFields, Zenon
    <3>5. Body(w)' = Body(w) /\ d # None
      BY <3>4 DEF Body
    <3>6. delivery[w].event # None
      BY <2>0 DEF ControlAt
    <3> QED BY <2>0, <3>1, <3>2, <3>4, <3>5, <3>6 DEF ControlAt
  <2> QED BY <2>1, <2>2
<1>6. CASE ProcessUpdate(w)
  <2> DEFINE e == delivery[w].deposit
             t == Body(w).transaction
             ch == Body(w).charge
  <2>2. e # None /\ ch # None
    BY <1>6 DEF ProcessUpdate, ControlAt
  <2>3. deposit' = [deposit EXCEPT ![e].transaction = t, ![e].charge = ch]
    BY <1>6 DEF ProcessUpdate
  <2>4. deposit \in [Deposits -> DepositRow] /\ e \in Deposits
    BY <2>2, DeliveryDeposit DEF TypeOK, LedgerTypeOK
  <2>5. deposit[e] \in DepositRow
    BY <2>4
  <2> HIDE DEF e, t, ch
  <2>6. deposit'[e] = [deposit[e] EXCEPT !.transaction = t, !.charge = ch]
    BY <2>3, <2>4, Zenon
  <2>7. deposit'[e].charge = ch
    BY <2>5, <2>6, Zenon DEF DepositRow
  <2>8. deposit'[delivery[w].deposit].charge # None
    BY <2>2, <2>7 DEF e
  <2>9. PICK code \in {200, 500} : Respond(w, code)
    BY <1>6 DEF ProcessUpdate
  <2> QED BY <2>9, <2>8, ControlRespond
<1> QED BY <1>1, <1>2, <1>3, <1>4, <1>5, <1>6 DEF HandleWebhook

-------------------------------------------------------------------------------
(* Verdicts *)

\* VerdictStands and VerdictHasDeposit, of one query.
VerdictAt(q) ==
    /\ query[q].verdict # "none" => query[q].deposit # None
    /\ query[q].verdict = "success" => deposit[query[q].deposit].status = "COMPLETED"
    /\ query[q].verdict = "failed" => deposit[query[q].deposit].status = "FAILED"

\* The two properties are the conjunction over the queries.
LEMMA VerdictParts ==
    (VerdictStands /\ VerdictHasDeposit) <=> \A q \in Queries : VerdictAt(q)
BY DEF VerdictStands, VerdictHasDeposit, VerdictAt

\* A verdict once given is undisturbed, for settled deposits stay settled.
LEMMA VerdictFrame ==
    ASSUME TypeOK, NEW q \in Queries, VerdictAt(q),
           query'[q].verdict = query[q].verdict, query'[q].deposit = query[q].deposit,
           \A d \in Deposits : DepositMove(d)
    PROVE  VerdictAt(q)'
<1>1. CASE query[q].deposit = None
  BY <1>1 DEF VerdictAt
<1>2. CASE query[q].deposit # None
  <2>1. query[q] \in QueryState
    BY DEF TypeOK
  <2>2. query[q].deposit \in Deposits \cup {None}
    BY <2>1, Zenon DEF QueryState
  <2>3. DepositMove(query[q].deposit)
    BY <1>2, <2>2
  <2> QED BY <2>3 DEF VerdictAt, DepositMove
<1> QED BY <1>1, <1>2

\* What the answers of HandleQuery assign.
LEMMA ReplyFields ==
    ASSUME TypeOK, NEW q \in Queries, NEW code, Reply(q, code)
    PROVE  /\ query'[q].verdict = query[q].verdict
           /\ query'[q].deposit = query[q].deposit
           /\ \A r \in Queries : r # q => query'[r] = query[r]
<1>1. query \in [Queries -> QueryState]
  BY DEF TypeOK
<1>2. PICK P, T, H, D, V, C :
        query[q] \in
          [pc : P, transaction : T, charge : H, deposit : D, verdict : V, code : C]
  BY <1>1, QueryRecord
<1>3. query'[q] = [query[q] EXCEPT !.pc = "done", !.code = code]
  BY <1>1, Zenon DEF Reply
<1>4. \A r \in Queries : r # q => query'[r] = query[r]
  BY <1>1, Zenon DEF Reply
<1>5. query'[q].verdict = query[q].verdict /\ query'[q].deposit = query[q].deposit
  BY <1>2, <1>3, Zenon
<1> QED BY <1>4, <1>5

\* What a verdict assigns.
LEMMA VerdictFields ==
    ASSUME TypeOK, NEW q \in Queries, NEW d, ReplyVerdict(q, d)
    PROVE  /\ query'[q].verdict = Verdict(d)
           /\ query'[q].deposit = d
           /\ \A r \in Queries : r # q => query'[r] = query[r]
<1>1. query \in [Queries -> QueryState]
  BY DEF TypeOK
<1>2. PICK P, T, H, D, V, C :
        query[q] \in
          [pc : P, transaction : T, charge : H, deposit : D, verdict : V, code : C]
  BY <1>1, QueryRecord
<1>3. query'[q] = [query[q] EXCEPT !.pc = "done", !.code = 200, !.deposit = d,
                                   !.verdict = Verdict(d)]
  BY <1>1, Zenon DEF ReplyVerdict
<1>4. \A r \in Queries : r # q => query'[r] = query[r]
  BY <1>1, ZenonT(40) DEF ReplyVerdict
<1>5. query'[q].verdict = Verdict(d)
  BY <1>2, <1>3, Zenon
<1>6. query'[q].deposit = d
  BY <1>2, <1>3, Zenon
<1> QED BY <1>4, <1>5, <1>6

\* What findConfigByAPIKey leaves alone.
LEMMA ConfigFields ==
    ASSUME TypeOK, NEW q \in Queries, NEW p, NEW t, NEW ch,
           query' = [query EXCEPT ![q].pc = p, ![q].transaction = t, ![q].charge = ch]
    PROVE  /\ query'[q].verdict = query[q].verdict
           /\ query'[q].deposit = query[q].deposit
           /\ \A r \in Queries : r # q => query'[r] = query[r]
<1>1. query \in [Queries -> QueryState]
  BY DEF TypeOK
<1>2. PICK P, T, H, D, V, C :
        query[q] \in
          [pc : P, transaction : T, charge : H, deposit : D, verdict : V, code : C]
  BY <1>1, QueryRecord
<1>3. query'[q] = [query[q] EXCEPT !.pc = p, !.transaction = t, !.charge = ch]
  BY <1>1, Zenon
<1>4. \A r \in Queries : r # q => query'[r] = query[r]
  BY <1>1, Zenon
<1>5. query'[q].verdict = query[q].verdict
  BY <1>2, <1>3, Zenon
<1>6. query'[q].deposit = query[q].deposit
  BY <1>2, <1>3, Zenon
<1> QED BY <1>4, <1>5, <1>6

\* What the fall-back to the charge leaves alone.
LEMMA ChargeFields ==
    ASSUME TypeOK, NEW q \in Queries, query' = [query EXCEPT ![q].pc = "charge"]
    PROVE  /\ query'[q].verdict = query[q].verdict
           /\ query'[q].deposit = query[q].deposit
           /\ \A r \in Queries : r # q => query'[r] = query[r]
<1>1. query \in [Queries -> QueryState]
  BY DEF TypeOK
<1>2. PICK P, T, H, D, V, C :
        query[q] \in
          [pc : P, transaction : T, charge : H, deposit : D, verdict : V, code : C]
  BY <1>1, QueryRecord
<1>3. query'[q] = [query[q] EXCEPT !.pc = "charge"]
  BY <1>1, Zenon
<1>4. \A r \in Queries : r # q => query'[r] = query[r]
  BY <1>1, Zenon
<1>5. query'[q].verdict = query[q].verdict /\ query'[q].deposit = query[q].deposit
  BY <1>2, <1>3, Zenon
<1> QED BY <1>4, <1>5

\* A statement of VerifyPayment leaves every verdict alone or gives a true one.
LEMMA VerdictStep ==
    ASSUME TypeOK, NEW q \in Queries, HandleQuery(q) \/ QueryFails(q),
           \A r \in Queries : VerdictAt(r),
           \A d \in Deposits : DepositMove(d)
    PROVE  \A r \in Queries : VerdictAt(r)'
<1> USE LedgerAssumption
<1>0. ASSUME query'[q].verdict = query[q].verdict,
             query'[q].deposit = query[q].deposit,
             \A r \in Queries : r # q => query'[r] = query[r]
      PROVE  \A r \in Queries : VerdictAt(r)'
  BY <1>0, VerdictFrame
<1>1. CASE \E code : Reply(q, code)
  BY <1>0, <1>1, ReplyFields
<1>2. ASSUME NEW d \in Deposits, ReplyVerdict(q, d), UNCHANGED deposit
      PROVE  \A r \in Queries : VerdictAt(r)'
  <2>1. /\ query'[q].verdict = Verdict(d)
        /\ query'[q].deposit = d
        /\ \A r \in Queries : r # q => query'[r] = query[r]
    BY <1>2, VerdictFields
  <2>2. VerdictAt(q)'
    BY <1>2, <2>1 DEF VerdictAt, Verdict
  <2>3. \A r \in Queries : r # q => VerdictAt(r)'
    BY <2>1, VerdictFrame
  <2> QED BY <2>2, <2>3
<1>3. CASE QueryInvalid(q) \/ QueryFails(q)
  BY <1>1, <1>3 DEF QueryInvalid, QueryFails
<1>4. CASE QueryConfig(q)
  <2>1. CASE ~ Reply(q, 401)
    <3>1. PICK t \in Transactions \cup {None}, ch \in Charges \cup {None},
               p \in {"transaction", "charge"} :
            query' = [query EXCEPT ![q].pc = p, ![q].transaction = t, ![q].charge = ch]
      BY <1>4, <2>1 DEF QueryConfig
    <3>2. /\ query'[q].verdict = query[q].verdict
          /\ query'[q].deposit = query[q].deposit
          /\ \A r \in Queries : r # q => query'[r] = query[r]
      BY <3>1, ConfigFields, Zenon
    <3> QED BY <1>0, <3>2
  <2> QED BY <1>1, <2>1
<1>5. CASE ResolveTransaction(q)
  <2>1. CASE query' = [query EXCEPT ![q].pc = "charge"]
    BY <1>0, <2>1, ChargeFields
  <2>2. CASE \E d \in Deposits : ReplyVerdict(q, d)
    BY <1>2, <1>5, <2>2 DEF ResolveTransaction, ledgerVars
  <2> QED BY <1>1, <1>5, <2>1, <2>2 DEF ResolveTransaction, DepositsOf
<1>6. CASE ResolveCharge(q)
  <2>1. CASE \E d \in Deposits : ReplyVerdict(q, d)
    BY <1>2, <1>6, <2>1 DEF ResolveCharge, ledgerVars
  <2> QED BY <1>1, <1>6, <2>1 DEF ResolveCharge, DepositsCharged
<1> QED BY <1>3, <1>4, <1>5, <1>6 DEF HandleQuery

-------------------------------------------------------------------------------
(* Tenants *)

\* Merchants and customers are never changed nor deleted, and a customer is
\* inserted for a merchant that exists.
RowsGrow ==
    /\ \A m \in Merchants : merchant[m] # None => merchant'[m] # None
    /\ \A u \in Customers :
         /\ customer[u] # NoOwner => customer'[u] = customer[u]
         /\ customer'[u] # customer[u] =>
              /\ customer'[u].merchant \in Merchants
              /\ merchant'[customer'[u].merchant] # None

\* Every step of the Transactions handlers only adds merchants and customers.
LEMMA RowsStep ==
    ASSUME LedgerTypeOK, LedgerNext
    PROVE  RowsGrow
<1> USE LedgerAssumption
<1>1. merchant \in [Merchants -> Slugs \cup {None}] /\ customer \in [Customers -> Owner]
  BY DEF LedgerTypeOK
<1>2. CASE UNCHANGED <<merchant, customer>>
  BY <1>2 DEF RowsGrow
<1>3. ASSUME NEW c \in Calls, CreateMerchant(c) PROVE RowsGrow
  <2>1. UNCHANGED customer
    BY <1>3 DEF CreateMerchant
  <2>2. \A m \in Merchants : merchant[m] # None => merchant'[m] # None
    BY <1>1, <1>3 DEF CreateMerchant
  <2> QED BY <2>1, <2>2 DEF RowsGrow
<1>4. ASSUME NEW c \in Calls, CreateCustomer(c) PROVE RowsGrow
  <2>1. CASE UNCHANGED customer
    BY <1>2, <1>4, <2>1 DEF CreateCustomer
  <2>2. CASE ~ UNCHANGED customer
    <3>1. PICK cl \in Clients, m \in Merchants, ph \in Phones, u \in Customers :
            /\ MerchantRow(m)
            /\ customer[u] = NoOwner
            /\ customer' = [customer EXCEPT
                 ![u] = [client |-> cl, merchant |-> m, phone |-> ph]]
      BY <1>4, <2>2 DEF CreateCustomer
    <3>2. customer'[u].merchant = m /\ \A v \in Customers : v # u => customer'[v] = customer[v]
      BY <1>1, <3>1
    <3>3. UNCHANGED merchant
      BY <1>4 DEF CreateCustomer
    <3> QED BY <3>1, <3>2, <3>3 DEF RowsGrow, MerchantRow
  <2> QED BY <2>1, <2>2
<1> QED BY <1>2, <1>3, <1>4
        DEF LedgerNext, Reject, InitiateDeposit, DepositCustomer, DepositInsert,
            RequestPayout, CallFails, Settle, Backfill

\* Rows only grow: what held of the customers, and of the deposits that keep
\* their status, owner and customer, still holds.
LEMMA TenantFrame ==
    ASSUME LedgerTypeOK, TenantInv, RowsGrow
    PROVE  /\ CustomerHasMerchant'
           /\ \A u \in Customers, o \in Owner \ {NoOwner} :
                customer[u] = o => customer'[u] = o /\ MerchantRow(o.merchant)'
<1>1. \A m : MerchantRow(m) => MerchantRow(m)'
  BY DEF RowsGrow, MerchantRow
<1>2. CustomerHasMerchant'
  BY <1>1 DEF TenantInv, CustomerHasMerchant, RowsGrow, MerchantRow
<1>3. ASSUME NEW u \in Customers, NEW o \in Owner \ {NoOwner}, customer[u] = o
      PROVE  customer'[u] = o /\ MerchantRow(o.merchant)'
  <2>1. customer'[u] = o
    BY <1>3 DEF RowsGrow
  <2> QED BY <1>1, <1>3, <2>1 DEF TenantInv, CustomerHasMerchant
<1> QED BY <1>2, <1>3

\* DepositKeepsTenant and DepositHasCustomer, of one deposit.
TenantAt(d) ==
    DepositExists(d) =>
        /\ customer[deposit[d].customer] = deposit[d].owner
        /\ MerchantRow(deposit[d].owner.merchant)
        /\ deposit[d].customer # None /\ deposit[d].owner # NoOwner

\* A deposit that was there before keeps its tenant.
LEMMA TenantKept ==
    ASSUME LedgerTypeOK, TenantInv, RowsGrow, NEW d \in Deposits, DepositMove(d),
           deposit'[d] # deposit[d] => DepositExists(d)
    PROVE  TenantAt(d)'
<1>1. CASE ~ DepositExists(d)
  BY <1>1 DEF TenantAt, DepositExists
<1>2. CASE DepositExists(d)
  <2>1. /\ customer[deposit[d].customer] = deposit[d].owner
        /\ deposit[d].customer # None /\ deposit[d].owner # NoOwner
    BY <1>2 DEF TenantInv, DepositKeepsTenant, DepositHasCustomer
  <2>2. deposit'[d].owner = deposit[d].owner /\ deposit'[d].customer = deposit[d].customer
    BY <1>2 DEF DepositMove, DepositExists
  <2>3. deposit[d] \in DepositRow
    BY DEF LedgerTypeOK
  <2>4. deposit[d].owner \in Owner /\ deposit[d].customer \in Customers \cup {None}
    BY <2>3, Zenon DEF DepositRow
  <2>5. /\ customer'[deposit[d].customer] = deposit[d].owner
        /\ deposit[d].owner.merchant \in Merchants
        /\ merchant'[deposit[d].owner.merchant] # None
    BY <2>1, <2>4, TenantFrame DEF MerchantRow
  <2>6. MerchantRow(deposit[d].owner.merchant)'
    BY <2>2, <2>5 DEF MerchantRow
  <2> QED BY <2>1, <2>2, <2>5, <2>6 DEF TenantAt
<1> QED BY <1>1, <1>2

\* Only DepositInsert changes a deposit that is not there.
LEMMA DepositsOnlyInserted ==
    ASSUME TypeOK, CorrelationIsBackfilled, DeliveryControl, [Next]_vars,
           ~ \E c \in Calls : DepositInsert(c), NEW d \in Deposits,
           deposit'[d] # deposit[d]
    PROVE  DepositExists(d)
<1>1. deposit \in [Deposits -> DepositRow]
  BY DEF TypeOK, LedgerTypeOK
<1>2. ASSUME NEW e \in Deposits, Settle(e) PROVE DepositExists(d)
  <2>1. deposit[e].status \in {"INITIATED", "PROCESSING"}
    BY <1>2 DEF Settle
  <2>2. PICK s \in {"PROCESSING", "COMPLETED", "FAILED"} :
          deposit' = [deposit EXCEPT ![e].status = s]
    BY <1>2 DEF Settle
  <2>3. d = e
    BY <1>1, <2>2
  <2> QED BY <2>1, <2>3 DEF DepositExists
<1>3. ASSUME NEW e \in Deposits, Backfill(e) PROVE DepositExists(d)
  <2>1. PICK t \in Transactions :
          deposit' = [deposit EXCEPT ![e].nulls = FALSE, ![e].transaction = t]
    BY <1>3 DEF Backfill
  <2>2. d = e
    BY <1>1, <2>1, Zenon
  <2> QED BY <1>3, <2>2 DEF Backfill
<1>4. ASSUME NEW w \in Deliveries, ProcessUpdate(w) PROVE DepositExists(d)
  <2> DEFINE e == delivery[w].deposit
             t == Body(w).transaction
             ch == Body(w).charge
  <2>1. deposit' = [deposit EXCEPT ![e].transaction = t, ![e].charge = ch]
    BY <1>4 DEF ProcessUpdate
  <2>2. t # None /\ deposit[e].transaction = t
    BY <1>4 DEF ProcessUpdate, DeliveryControl
  <2> HIDE DEF e, t, ch
  <2>3. d = e
    BY <1>1, <2>1, Zenon
  <2> QED BY <2>2, <2>3 DEF CorrelationIsBackfilled
<1>5. ~ UNCHANGED deposit
  OBVIOUS
<1>6. CASE LedgerNext
  BY <1>2, <1>3, <1>5, <1>6
     DEF LedgerNext, Reject, CreateMerchant, CreateCustomer, InitiateDeposit,
         DepositCustomer, RequestPayout, CallFails
<1>7. CASE ClientsNext
  BY <1>5, <1>7
     DEF ClientsNext, Install, InstallEvent, RegisterProvider, Uninstall, ledgerVars
<1>8. ASSUME NEW w \in Deliveries, HandleWebhook(w) \/ DeliveryFails(w)
      PROVE  DepositExists(d)
  BY <1>4, <1>5, <1>8
     DEF HandleWebhook, WebhookInvalid, WebhookConfig, WebhookIntegration,
         WebhookRecord, ProcessLookup, DeliveryFails, ledgerVars
<1>9. ASSUME NEW q \in Queries, HandleQuery(q) \/ QueryFails(q)
      PROVE  DepositExists(d)
  BY <1>5, <1>9
     DEF HandleQuery, QueryInvalid, QueryConfig, ResolveTransaction,
         ResolveCharge, QueryFails, ledgerVars
<1>10. CASE UNCHANGED vars
  BY <1>5, <1>10 DEF vars, ledgerVars
<1> QED BY <1>6, <1>7, <1>8, <1>9, <1>10 DEF Next

\* A call about to insert a deposit keeps hold of a customer of its tenant.
LEMMA CallStep ==
    ASSUME LedgerTypeOK, TenantInv, RowsGrow, LedgerNext
    PROVE  InsertHoldsCustomer'
<1> USE LedgerAssumption
<1>1. call \in [Calls -> CallState]
  BY DEF LedgerTypeOK
<1> DEFINE Holds(c) ==
      /\ call[c].pc \in {"customer", "insert"} => call[c].owner # NoOwner
      /\ call[c].pc = "insert" =>
           call[c].customer # None /\ customer[call[c].customer] = call[c].owner
<1>2. \A c \in Calls : Holds(c)
  BY DEF TenantInv, InsertHoldsCustomer
<1>3. ASSUME NEW c \in Calls, call'[c] = call[c] PROVE Holds(c)'
  <2>1. call[c] \in CallState
    BY <1>1
  <2>2. call[c].owner \in Owner /\ call[c].customer \in Customers \cup {None}
    BY <2>1 DEF CallState
  <2> QED BY <1>2, <1>3, <2>2, TenantFrame
<1>4. ASSUME NEW c \in Calls, call'[c].pc \notin {"customer", "insert"} PROVE Holds(c)'
  BY <1>4
<1>5. ASSUME NEW c \in Calls, NEW result, Answer(c, result)
      PROVE  /\ call'[c].pc = "done"
             /\ \A b \in Calls : b # c => call'[b] = call[b]
  BY <1>1, <1>5 DEF Answer, CallState
<1> HIDE DEF Holds
<1>6. ASSUME NEW c \in Calls, NEW result, Answer(c, result)
      PROVE  \A b \in Calls : Holds(b)'
  BY <1>3, <1>4, <1>5, <1>6
<1>7. ASSUME NEW c \in Calls, InitiateDeposit(c) PROVE \A b \in Calls : Holds(b)'
  <2>1. PICK cl \in Clients, m \in Merchants, ph \in Phones :
          call' = [call EXCEPT
            ![c].pc = "customer",
            ![c].owner = [client |-> cl, merchant |-> m, phone |-> ph]]
    BY <1>7 DEF InitiateDeposit
  <2>2. /\ call'[c].pc = "customer"
        /\ call'[c].owner = [client |-> cl, merchant |-> m, phone |-> ph]
        /\ \A b \in Calls : b # c => call'[b] = call[b]
    BY <1>1, <2>1 DEF CallState
  <2>3. Holds(c)'
    BY <2>2 DEF Holds, NoOwner
  <2> QED BY <1>3, <2>2, <2>3
<1>8. ASSUME NEW c \in Calls, DepositCustomer(c) PROVE \A b \in Calls : Holds(b)'
  <2>1. CASE Answer(c, "NotFound")
    BY <1>6, <2>1
  <2>2. CASE ~ Answer(c, "NotFound")
    <3>1. PICK u \in Customers :
            /\ customer[u] = call[c].owner
            /\ call' = [call EXCEPT ![c].pc = "insert", ![c].customer = u]
      BY <1>8, <2>2 DEF DepositCustomer, GetByClientAndMerchantAndPhone
    <3>2. /\ call'[c].pc = "insert" /\ call'[c].customer = u
          /\ call'[c].owner = call[c].owner
          /\ \A b \in Calls : b # c => call'[b] = call[b]
      BY <1>1, <3>1 DEF CallState
    <3>3. call[c].owner # NoOwner /\ UNCHANGED customer
      BY <1>2, <1>8 DEF DepositCustomer, Holds
    <3>4. Holds(c)'
      BY <3>1, <3>2, <3>3 DEF Holds
    <3> QED BY <1>3, <3>2, <3>4
  <2> QED BY <2>1, <2>2
<1>9. ASSUME NEW c \in Calls, DepositInsert(c) PROVE \A b \in Calls : Holds(b)'
  <2>1. CASE Answer(c, "NotFound")
    BY <1>6, <2>1
  <2>2. CASE ~ Answer(c, "NotFound")
    <3>1. PICK d \in Deposits, res \in {"OK", "Internal"} :
            call' = [call EXCEPT ![c].pc = "done", ![c].deposit = d, ![c].result = res]
      BY <1>9, <2>2 DEF DepositInsert, ReadBack
    <3>2. call'[c].pc = "done" /\ \A b \in Calls : b # c => call'[b] = call[b]
      BY <1>1, <3>1 DEF CallState
    <3> QED BY <1>3, <1>4, <3>2
  <2> QED BY <2>1, <2>2
<1>10. ASSUME UNCHANGED call PROVE \A b \in Calls : Holds(b)'
  BY <1>3, <1>10
<1>11. \A c \in Calls : Holds(c)'
  <2>1. ASSUME NEW c \in Calls,
               \/ Reject(c) \/ CreateMerchant(c) \/ CreateCustomer(c)
               \/ RequestPayout(c) \/ CallFails(c)
        PROVE  \E result : Answer(c, result)
    BY <2>1 DEF Reject, CreateMerchant, CreateCustomer, RequestPayout, CallFails
  <2> QED BY <1>6, <1>7, <1>8, <1>9, <1>10, <2>1 DEF LedgerNext, Settle, Backfill
<1> QED BY <1>11 DEF InsertHoldsCustomer, Holds

\* Whichever step is taken, deposits stay within their tenants.
LEMMA TenantStep ==
    ASSUME TypeOK, TenantInv, CorrelationIsBackfilled, DeliveryControl, [Next]_vars
    PROVE  TenantInv'
<1> USE LedgerAssumption
<1>1. RowsGrow /\ InsertHoldsCustomer'
  <2>1. CASE LedgerNext
    BY <2>1, RowsStep, CallStep DEF TypeOK
  <2>2. CASE UNCHANGED <<merchant, customer, call>>
    BY <2>2 DEF RowsGrow, TenantInv, InsertHoldsCustomer
  <2>3. LedgerNext \/ UNCHANGED <<merchant, customer, call>>
    <3>1. ClientsNext => UNCHANGED <<merchant, customer, call>>
      BY DEF ClientsNext, Install, InstallEvent, RegisterProvider, Uninstall, ledgerVars
    <3>2. (\E w \in Deliveries : HandleWebhook(w) \/ DeliveryFails(w))
            => UNCHANGED <<merchant, customer, call>>
      BY WebhookLeaves
    <3>3. (\E q \in Queries : HandleQuery(q) \/ QueryFails(q))
            => UNCHANGED <<merchant, customer, call>>
      BY QueryLeaves DEF ledgerVars
    <3> QED BY <3>1, <3>2, <3>3 DEF Next, vars, ledgerVars
  <2> QED BY <2>1, <2>2, <2>3
<1>2. CustomerHasMerchant'
  BY <1>1, TenantFrame DEF TypeOK
<1>3. ASSUME NEW d \in Deposits PROVE TenantAt(d)'
  <2>1. DepositMove(d)
    BY DepositStep
  <2>2. CASE deposit'[d] # deposit[d] => DepositExists(d)
    BY <1>1, <2>1, <2>2, TenantKept DEF TypeOK
  <2>3. CASE ~ (deposit'[d] # deposit[d] => DepositExists(d))
    <3>1. PICK c \in Calls : DepositInsert(c)
      BY <2>3, DepositsOnlyInserted
    <3>2. PICK e \in Deposits :
            /\ MerchantRow(call[c].owner.merchant)
            /\ deposit' = [deposit EXCEPT ![e] =
                   [status |-> "INITIATED", owner |-> call[c].owner,
                    customer |-> call[c].customer, nulls |-> TRUE,
                    transaction |-> None, charge |-> None]]
      BY <2>3, <3>1 DEF DepositInsert
    <3>3. deposit \in [Deposits -> DepositRow]
      BY DEF TypeOK, LedgerTypeOK
    <3>4. d = e
      BY <2>3, <3>2, <3>3
    <3>5. deposit'[d].owner = call[c].owner /\ deposit'[d].customer = call[c].customer
      BY <3>2, <3>3, <3>4
    <3>6. /\ call[c].owner # NoOwner /\ call[c].customer # None
          /\ customer[call[c].customer] = call[c].owner
          /\ UNCHANGED <<merchant, customer>>
      BY <3>1 DEF DepositInsert, TenantInv, InsertHoldsCustomer
    <3> QED BY <3>2, <3>5, <3>6 DEF TenantAt, MerchantRow
  <2> QED BY <2>2, <2>3
<1> QED BY <1>1, <1>2, <1>3
        DEF TenantInv, TenantAt, DepositKeepsTenant, DepositHasCustomer

-------------------------------------------------------------------------------
(* The theorems *)

\* A delivery changes by its own handler only.
LEMMA DeliveryFrame ==
    ASSUME TypeOK, [Next]_vars, NEW w \in Deliveries
    PROVE  delivery'[w] = delivery[w] \/ HandleWebhook(w) \/ DeliveryFails(w)
<1>1. CASE UNCHANGED delivery
  BY <1>1
<1>2. ASSUME NEW v \in Deliveries, HandleWebhook(v) \/ DeliveryFails(v), v # w
      PROVE  delivery'[w] = delivery[w]
  <2>1. ASSUME NEW code, Respond(v, code) PROVE delivery'[w] = delivery[w]
    BY <1>2, <2>1, RespondFields
  <2>2. delivery \in [Deliveries -> DeliveryState]
    BY DEF TypeOK
  <2>3. CASE WebhookConfig(v)
    <3>1. CASE ~ \E code \in {400, 404, 500} : Respond(v, code)
      <4>1. PICK e \in Events, i \in Ids :
              delivery' = [delivery EXCEPT ![v].pc = "integration",
                                           ![v].event = e, ![v].id = i]
        BY <2>3, <3>1, ConfigOutcome
      <4> QED BY <1>2, <2>2, <4>1, Zenon
    <3> QED BY <2>1, <3>1
  <2>4. CASE WebhookIntegration(v)
    <3>1. CASE delivery' = [delivery EXCEPT ![v].pc = "record"]
      BY <1>2, <2>2, <3>1, Zenon
    <3> QED BY <2>1, <2>4, <3>1 DEF WebhookIntegration
  <2>5. CASE WebhookRecord(v)
    <3>1. CASE delivery' = [delivery EXCEPT ![v].pc = "lookup", ![v].recorded = TRUE]
      BY <1>2, <2>2, <3>1, Zenon
    <3> QED BY <2>1, <2>5, <3>1 DEF WebhookRecord
  <2>6. CASE ProcessLookup(v)
    <3>1. CASE ~ \E code \in {200, 500} : Respond(v, code)
      <4> DEFINE p == IF Body(v).charge = None THEN "done" ELSE "update"
                 c == IF Body(v).charge = None THEN 200 ELSE 0
      <4>1. PICK d \in Deposits :
              delivery' = [delivery EXCEPT ![v].deposit = d, ![v].pc = p, ![v].code = c]
        BY <2>6, <3>1, LookupOutcome
      <4> HIDE DEF p, c
      <4> QED BY <1>2, <2>2, <4>1, Zenon
    <3> QED BY <2>1, <3>1
  <2> QED BY <1>2, <2>1, <2>3, <2>4, <2>5, <2>6
          DEF HandleWebhook, WebhookInvalid, ProcessUpdate, DeliveryFails
<1>3. CASE \E v \in Deliveries : HandleWebhook(v) \/ DeliveryFails(v)
  BY <1>2, <1>3
<1>4. ClientsNext => UNCHANGED delivery
  BY DEF ClientsNext, Install, InstallEvent, RegisterProvider, Uninstall
<1>5. (\E q \in Queries : HandleQuery(q) \/ QueryFails(q)) => UNCHANGED delivery
  BY DEF HandleQuery, QueryInvalid, QueryConfig, ResolveTransaction,
         ResolveCharge, QueryFails
<1> QED BY <1>1, <1>3, <1>4, <1>5 DEF Next, vars

\* So does a query.
LEMMA QueryFrame ==
    ASSUME [Next]_vars
    PROVE  UNCHANGED query \/ \E q \in Queries : HandleQuery(q) \/ QueryFails(q)
<1>1. ClientsNext => UNCHANGED query
  BY DEF ClientsNext, Install, InstallEvent, RegisterProvider, Uninstall
<1>2. (\E w \in Deliveries : HandleWebhook(w) \/ DeliveryFails(w)) => UNCHANGED query
  BY WebhookLeaves
<1> QED BY <1>1, <1>2 DEF Next, vars

\* The inductive invariant of the payment provider.
ProviderInv ==
    /\ TypeOK
    /\ ChargeInv
    /\ DeliveryControl /\ AcknowledgedCaptureIsRecorded
    /\ CorrelationIsBackfilled
    /\ VerdictStands /\ VerdictHasDeposit
    /\ TenantInv

\* It holds before the first request.
LEMMA ProviderInit ==
    Init => ProviderInv
<1> SUFFICES ASSUME Init PROVE ProviderInv
  OBVIOUS
<1> USE LedgerAssumption, ProviderAssumption
<1>1. LedgerTypeOK
  BY DEF Init, LedgerInit, LedgerTypeOK, Owner, NoOwner, DepositRow, CallState
<1>2. delivery \in [Deliveries -> DeliveryState]
  BY DEF Init, DeliveryState, DeliveryPoints, DeliveryCodes
<1>3. query \in [Queries -> QueryState]
  BY DEF Init, QueryState, QueryPoints, QueryCodes, QueryVerdicts
<1>4. TypeOK
  BY <1>1, <1>2, <1>3 DEF Init, TypeOK
<1>5. ChargeInv
  BY DEF Init, ChargeInv, KeysAreOwned, KeysAreSpent, OneTarget, RecordsLast, EventChargedOnce
<1>6. DeliveryControl /\ AcknowledgedCaptureIsRecorded
  BY DEF Init, DeliveryControl, AcknowledgedCaptureIsRecorded
<1>7. CorrelationIsBackfilled /\ TenantInv
  BY DEF Init, LedgerInit, CorrelationIsBackfilled, TenantInv, DepositKeepsTenant,
         CustomerHasMerchant, InsertHoldsCustomer, DepositHasCustomer, DepositExists
<1>8. VerdictStands /\ VerdictHasDeposit
  BY DEF Init, VerdictStands, VerdictHasDeposit
<1> QED BY <1>4, <1>5, <1>6, <1>7, <1>8 DEF ProviderInv

\* Every step keeps it.
LEMMA ProviderStep ==
    ProviderInv /\ [Next]_vars => ProviderInv'
<1> SUFFICES ASSUME ProviderInv, [Next]_vars PROVE ProviderInv'
  OBVIOUS
<1>1. /\ TypeOK /\ ChargeInv /\ DeliveryControl /\ AcknowledgedCaptureIsRecorded
      /\ CorrelationIsBackfilled /\ TenantInv
      /\ VerdictStands /\ VerdictHasDeposit
      /\ KeysAreSpent
  BY DEF ProviderInv, ChargeInv
<1>2. \A d \in Deposits : DepositMove(d)
  BY <1>1, DepositStep
<1>3. TypeOK'
  <2>1. CASE UNCHANGED vars
    BY <1>1, <2>1 DEF TypeOK, LedgerTypeOK, vars, ledgerVars, clientsVars
  <2>2. CASE LedgerNext /\ UNCHANGED <<clientsVars, delivery, query>>
    <3>1. LedgerTypeOK'
      BY <1>1, <2>2, LedgerTypeStep DEF TypeOK
    <3> QED BY <1>1, <2>2, <3>1 DEF TypeOK, clientsVars
  <2> QED BY <1>1, <2>1, <2>2, ClientsTypeStep, WebhookTypeStep, QueryTypeStep DEF Next
<1>4. ChargeInv'
  BY <1>1, DeliveryMoves, ChargeKeepsStep, ChargeAdmitsStep, ChargeRecordsStep
<1>5. DeliveryControl' /\ AcknowledgedCaptureIsRecorded'
  <2>1. \A w \in Deliveries : ControlAt(w)
    BY <1>1, ControlParts
  <2>2. ASSUME NEW w \in Deliveries PROVE ControlAt(w)'
    <3>1. CASE delivery'[w] = delivery[w]
      BY <1>1, <1>2, <2>1, <3>1, ControlFrame
    <3>2. CASE HandleWebhook(w) \/ DeliveryFails(w)
      <4>1. delivery[w].id # None => delivery[w].event # None
        BY <1>1 DEF KeysAreSpent
      <4> QED BY <1>1, <2>1, <3>2, <4>1, ControlWebhook
    <3>3. delivery'[w] = delivery[w] \/ HandleWebhook(w) \/ DeliveryFails(w)
      BY <1>1, DeliveryFrame
    <3> QED BY <3>1, <3>2, <3>3
  <2> QED BY <2>2 DEF DeliveryControl, AcknowledgedCaptureIsRecorded, ControlAt
<1>6. CorrelationIsBackfilled'
  BY <1>2 DEF CorrelationIsBackfilled, DepositMove, DepositExists
<1>7. VerdictStands' /\ VerdictHasDeposit'
  <2>1. \A q \in Queries : VerdictAt(q)
    BY <1>1, VerdictParts
  <2>2. CASE UNCHANGED query
    <3>1. \A q \in Queries : VerdictAt(q)'
      BY <1>1, <1>2, <2>1, <2>2, VerdictFrame
    <3> QED BY <3>1 DEF VerdictStands, VerdictHasDeposit, VerdictAt
  <2>3. CASE \E q \in Queries : HandleQuery(q) \/ QueryFails(q)
    <3>1. \A q \in Queries : VerdictAt(q)'
      BY <1>1, <1>2, <2>1, <2>3, VerdictStep
    <3> QED BY <3>1 DEF VerdictStands, VerdictHasDeposit, VerdictAt
  <2> QED BY <2>2, <2>3, QueryFrame
<1>8. TenantInv'
  BY <1>1, TenantStep
<1> QED BY <1>3, <1>4, <1>5, <1>6, <1>7, <1>8 DEF ProviderInv

\* Hence it always holds.
LEMMA ProviderInductive ==
    Spec => []ProviderInv
BY ProviderInit, ProviderStep, PTL DEF Spec

\* No table, handler or request ever holds a value of the wrong type: a
\* recorded event names an integration and an event, a verdict is one of three.
THEOREM TypeCorrect ==
    Spec => []TypeOK
<1>1. ProviderInv => TypeOK
  BY DEF ProviderInv
<1> QED BY <1>1, ProviderInductive, PTL

\* However many times, in whatever order and under whichever failures HighLevel
\* delivers an event, HandleWebhook hands it to the Transactions service once.
THEOREM ChargedOnce ==
    Spec => []EventChargedOnce
<1>1. ProviderInv => EventChargedOnce
  BY DEF ProviderInv, ChargeInv
<1> QED BY <1>1, ProviderInductive, PTL

\* A verdict VerifyPayment gave remains the deposit's.
THEOREM VerdictsStand ==
    Spec => []VerdictStands
<1>1. ProviderInv => VerdictStands
  BY DEF ProviderInv
<1> QED BY <1>1, ProviderInductive, PTL

\* A 200 to a capture that found its deposit means the charge is on the deposit.
THEOREM AcknowledgedIsRecorded ==
    Spec => []AcknowledgedCaptureIsRecorded
<1>1. ProviderInv => AcknowledgedCaptureIsRecorded
  BY DEF ProviderInv
<1> QED BY <1>1, ProviderInductive, PTL

\* InitiateDeposit books every deposit on a customer of its own tenant.
THEOREM TenantsKept ==
    Spec => []DepositKeepsTenant
<1>1. ProviderInv => DepositKeepsTenant
  BY DEF ProviderInv, TenantInv
<1> QED BY <1>1, ProviderInductive, PTL

\* UpdateGHLReference never moves a deposit to another transaction.
THEOREM CorrelationStays ==
    Spec => CorrelationIsStable
<1>1. ProviderInv /\ [Next]_vars =>
        [\A d \in Deposits : deposit[d].transaction # None =>
           deposit'[d].transaction = deposit[d].transaction]_vars
  BY DepositStep DEF ProviderInv, DepositMove
<1> QED BY <1>1, ProviderInductive, PTL DEF Spec, CorrelationIsStable

-------------------------------------------------------------------------------
(* PaymentProvider implements EventLog *)

\* What a step of one delivery may mean for the log.
StaysOut(w) ==
    /\ delivery[w].pc \notin {"lookup", "update"}
    /\ delivery'[w].pc \notin {"lookup", "update"}
    /\ delivery[w].code # 200 /\ delivery'[w].code # 200
    /\ delivery'[w].recorded = delivery[w].recorded
    /\ delivery[w].recorded => delivery'[w].event = delivery[w].event

TakesUp(w) ==
    /\ delivery[w].pc = "record" /\ delivery'[w].pc = "lookup"
    /\ delivery[w].code # 200 /\ delivery'[w].code # 200
    /\ delivery'[w].event = delivery[w].event
    /\ Records(w)

GoesOn(w) ==
    /\ delivery[w].pc \in {"lookup", "update"}
    /\ delivery'[w].pc \in {"lookup", "update"}
    /\ delivery[w].code # 200 /\ delivery'[w].code # 200
    /\ delivery'[w].event = delivery[w].event
    /\ delivery'[w].recorded = delivery[w].recorded

Ends(w) ==
    /\ delivery[w].pc \in {"lookup", "update"} /\ delivery'[w].pc = "done"
    /\ delivery[w].code # 200
    /\ delivery'[w].event = delivery[w].event
    /\ delivery'[w].recorded = delivery[w].recorded

\* Every statement of HandleWebhook is one of these.
LEMMA LogCases ==
    ASSUME TypeOK, DeliveryControl, NEW w \in Deliveries,
           HandleWebhook(w) \/ DeliveryFails(w)
    PROVE  /\ StaysOut(w) \/ TakesUp(w) \/ GoesOn(w) \/ Ends(w)
           /\ \A v \in Deliveries : v # w => delivery'[v] = delivery[v]
<1> DEFINE Goal == /\ StaysOut(w) \/ TakesUp(w) \/ GoesOn(w) \/ Ends(w)
                   /\ \A v \in Deliveries : v # w => delivery'[v] = delivery[v]
<1>0. /\ delivery[w].pc # "done" => delivery[w].code = 0
      /\ delivery[w].pc = "idle" => ~ delivery[w].recorded
  BY DEF DeliveryControl
<1>1. ASSUME NEW code, Respond(w, code), delivery[w].pc # "done",
             code # 200 \/ delivery[w].pc \in {"lookup", "update"}
      PROVE  Goal
  BY <1>0, <1>1, RespondFields DEF StaysOut, Ends
<1>2. CASE WebhookInvalid(w) \/ DeliveryFails(w)
  BY <1>1, <1>2 DEF WebhookInvalid, DeliveryFails
<1>3. CASE WebhookConfig(w)
  <2>0. delivery[w].pc = "idle"
    BY <1>3 DEF WebhookConfig
  <2>1. CASE \E code \in {400, 404, 500} : Respond(w, code)
    BY <1>1, <2>0, <2>1
  <2>2. CASE ~ \E code \in {400, 404, 500} : Respond(w, code)
    <3>1. PICK e \in Events, i \in Ids :
            delivery' = [delivery EXCEPT ![w].pc = "integration",
                                         ![w].event = e, ![w].id = i]
      BY <1>3, <2>2, ConfigOutcome
    <3>2. /\ delivery'[w].pc = "integration"
          /\ delivery'[w].recorded = delivery[w].recorded
          /\ delivery'[w].code = delivery[w].code
          /\ \A v \in Deliveries : v # w => delivery'[v] = delivery[v]
      BY <3>1, AdmitFields, Zenon
    <3> QED BY <1>0, <2>0, <3>2 DEF StaysOut
  <2> QED BY <2>1, <2>2
<1>4. CASE WebhookIntegration(w)
  <2>0. delivery[w].pc = "integration"
    BY <1>4 DEF WebhookIntegration
  <2>1. CASE Respond(w, 404)
    BY <1>1, <2>0, <2>1
  <2>2. CASE delivery' = [delivery EXCEPT ![w].pc = "record"]
    BY <1>0, <2>0, <2>2, PointFields DEF StaysOut
  <2> QED BY <1>4, <2>1, <2>2 DEF WebhookIntegration
<1>5. CASE WebhookRecord(w)
  <2>0. delivery[w].pc = "record" /\ delivery[w].id # None
    BY <1>5 DEF WebhookRecord, DeliveryControl
  <2>1. CASE Respond(w, 400) \/ Respond(w, 500)
    BY <1>1, <2>0, <2>1
  <2>2. CASE /\ integration[delivery[w].id] = "LIVE"
             /\ NewEvent(delivery[w].id, delivery[w].event)
             /\ events' = events \cup {<<delivery[w].id, delivery[w].event>>}
             /\ delivery' = [delivery EXCEPT ![w].pc = "lookup", ![w].recorded = TRUE]
    <3>1. /\ delivery'[w].pc = "lookup" /\ delivery'[w].code = delivery[w].code
          /\ delivery'[w].event = delivery[w].event
          /\ delivery'[w].id = delivery[w].id
          /\ delivery'[w].recorded
          /\ \A v \in Deliveries : v # w => delivery'[v] = delivery[v]
      BY <2>2, RecordFields
    <3>2. UNCHANGED <<integration, config, usedKeys>>
      BY <1>5 DEF WebhookRecord
    <3>3. \A v \in Deliveries : v # w => Keeps(v)
      BY <3>1 DEF Keeps
    <3>4. Records(w)
      BY <2>0, <2>2, <3>1, <3>2, <3>3 DEF Records, NewEvent
    <3> QED BY <1>0, <2>0, <3>1, <3>4 DEF TakesUp
  <2> QED BY <1>5, <2>1, <2>2 DEF WebhookRecord
<1>6. CASE ProcessLookup(w)
  <2>0. delivery[w].pc = "lookup"
    BY <1>6 DEF ProcessLookup
  <2>1. CASE \E code \in {200, 500} : Respond(w, code)
    BY <1>1, <2>0, <2>1
  <2>2. CASE ~ \E code \in {200, 500} : Respond(w, code)
    <3> DEFINE p == IF Body(w).charge = None THEN "done" ELSE "update"
               c == IF Body(w).charge = None THEN 200 ELSE 0
    <3>1. PICK d \in Deposits :
            delivery' = [delivery EXCEPT ![w].deposit = d, ![w].pc = p, ![w].code = c]
      BY <1>6, <2>2, LookupOutcome
    <3>2. p = "done" \/ (p = "update" /\ c = 0)
      OBVIOUS
    <3> HIDE DEF p, c
    <3>3. /\ delivery'[w].pc = p
          /\ delivery'[w].event = delivery[w].event
          /\ delivery'[w].id = delivery[w].id
          /\ delivery'[w].deposit = d
          /\ delivery'[w].recorded = delivery[w].recorded
          /\ delivery'[w].code = c
          /\ \A v \in Deliveries : v # w => delivery'[v] = delivery[v]
      BY <3>1, LookupFields, Zenon
    <3> QED BY <1>0, <2>0, <3>2, <3>3 DEF GoesOn, Ends
  <2> QED BY <2>1, <2>2
<1>7. CASE ProcessUpdate(w)
  BY <1>1, <1>7 DEF ProcessUpdate
<1> QED BY <1>2, <1>3, <1>4, <1>5, <1>6, <1>7 DEF HandleWebhook

\* And each of these is a step of the log or none.
LEMMA LogStep ==
    ASSUME TypeOK, ChargeInv, DeliveryControl, NEW w \in Deliveries,
           HandleWebhook(w) \/ DeliveryFails(w)
    PROVE  [Log!Next]_(Log!vars)
<1>0. /\ StaysOut(w) \/ TakesUp(w) \/ GoesOn(w) \/ Ends(w)
      /\ \A v \in Deliveries : v # w => delivery'[v] = delivery[v]
  BY LogCases
<1>1. CASE StaysOut(w) \/ GoesOn(w)
  <2>1. Working' = Working
    BY <1>0, <1>1 DEF Working, StaysOut, GoesOn
  <2>2. \A v \in Deliveries :
          /\ delivery'[v].recorded = delivery[v].recorded
          /\ delivery[v].recorded => delivery'[v].event = delivery[v].event
          /\ delivery'[v].code = 200 <=> delivery[v].code = 200
          /\ delivery[v].code = 200 => delivery'[v].event = delivery[v].event
    BY <1>0, <1>1 DEF StaysOut, GoesOn
  <2>3. Taken' = Taken /\ Confirmed' = Confirmed
    BY <2>2 DEF Taken, Confirmed
  <2> QED BY <2>1, <2>3 DEF Log!vars
<1>2. CASE TakesUp(w)
  <2> DEFINE e == delivery[w].event
  <2>1. e \in Events /\ e # None
    BY <1>2, DeliveryIds, ProviderAssumption
       DEF TakesUp, DeliveryControl, ChargeInv, KeysAreSpent
  <2>2. \A v \in Deliveries : delivery[v].recorded => delivery[v].event # e
    BY <1>2, RecordsFirst DEF TakesUp
  <2>3. \A v \in Deliveries :
          /\ delivery'[v].recorded <=> delivery[v].recorded \/ v = w
          /\ delivery'[v].event = delivery[v].event
          /\ delivery'[v].code = 200 <=> delivery[v].code = 200
    BY <1>0, <1>2 DEF TakesUp, Records
  <2>4. Taken' = Taken \cup {e} /\ e \notin Taken
    BY <2>2, <2>3 DEF Taken
  <2>5. Confirmed' = Confirmed
    BY <2>3 DEF Confirmed
  <2>6. Working[w] = None /\ Working' = [Working EXCEPT ![w] = e]
    <3>1. Working[w] = None /\ Working'[w] = e
      BY <1>2 DEF Working, TakesUp
    <3>2. \A v \in Deliveries : v # w => Working'[v] = Working[v]
      BY <1>0 DEF Working
    <3>3. Working = [v \in Deliveries |-> Working[v]]
          /\ Working' = [v \in Deliveries |-> Working'[v]]
      BY DEF Working
    <3> HIDE DEF e
    <3> QED BY <3>1, <3>2, <3>3, Zenon
  <2> HIDE DEF e
  <2>7. Log!Take(w, e)
    BY <2>4, <2>5, <2>6, ZenonT(60) DEF Log!Take
  <2> QED BY <2>1, <2>7, Zenon DEF Log!Next
<1>3. CASE Ends(w)
  <2> DEFINE e == delivery[w].event
  <2>1. e \in Events /\ e # None
    BY <1>3, DeliveryIds, ProviderAssumption
       DEF Ends, DeliveryControl, ChargeInv, KeysAreSpent
  <2>2. \A v \in Deliveries :
          /\ delivery'[v].recorded = delivery[v].recorded
          /\ delivery'[v].event = delivery[v].event
          /\ v # w => delivery'[v].code = delivery[v].code
    BY <1>0, <1>3 DEF Ends
  <2>3. Taken' = Taken
    BY <2>2 DEF Taken
  <2>4. Working[w] = e /\ Working' = [Working EXCEPT ![w] = None]
    BY <1>0, <1>3 DEF Working, Ends
  <2>5. CASE delivery'[w].code = 200
    <3>1. Confirmed' = Confirmed \cup {e}
      BY <1>3, <2>2, <2>5 DEF Confirmed, Ends
    <3>2. [f \in Events |-> f][Working[w]] = e
      BY <2>1, <2>4
    <3> HIDE DEF e
    <3> QED BY <2>1, <2>3, <2>4, <3>1, <3>2 DEF Log!Next, Log!Confirm
  <2>6. CASE delivery'[w].code # 200
    <3>1. Confirmed' = Confirmed
      BY <1>3, <2>2, <2>6 DEF Confirmed, Ends
    <3> HIDE DEF e
    <3> QED BY <2>1, <2>3, <2>4, <3>1 DEF Log!Next, Log!Abandon
  <2> QED BY <2>5, <2>6
<1> QED BY <1>0, <1>1, <1>2, <1>3

\* HandleWebhook is an EventLog whose jobs are the events: an event is handed
\* to the Transactions service once, and HighLevel is answered 2xx by the
\* delivery that did, whichever integration it was recorded for.
THEOREM PaymentsImplementEventLog ==
    Spec => ImplementsEventLog
<1>1. Init => Log!Init
  <2> SUFFICES ASSUME Init PROVE Log!Init
    OBVIOUS
  <2>1. Working = [w \in Deliveries |-> None]
    BY DEF Init, Working
  <2>2. Taken = {} /\ Confirmed = {}
    BY DEF Init, Taken, Confirmed
  <2> QED BY <2>1, <2>2 DEF Log!Init
<1>2. ProviderInv /\ [Next]_vars => [Log!Next]_(Log!vars)
  <2> SUFFICES ASSUME ProviderInv, [Next]_vars PROVE [Log!Next]_(Log!vars)
    OBVIOUS
  <2>1. CASE UNCHANGED delivery
    <3>1. Working' = Working /\ Taken' = Taken /\ Confirmed' = Confirmed
      BY <2>1 DEF Working, Taken, Confirmed
    <3> QED BY <3>1 DEF Log!vars
  <2>2. CASE \E w \in Deliveries : HandleWebhook(w) \/ DeliveryFails(w)
    BY <2>2, LogStep DEF ProviderInv
  <2>3. ClientsNext => UNCHANGED delivery
    BY DEF ClientsNext, Install, InstallEvent, RegisterProvider, Uninstall
  <2>4. (\E q \in Queries : HandleQuery(q) \/ QueryFails(q)) => UNCHANGED delivery
    BY DEF HandleQuery, QueryInvalid, QueryConfig, ResolveTransaction,
           ResolveCharge, QueryFails
  <2> QED BY <2>1, <2>2, <2>3, <2>4 DEF Next, vars
<1> QED BY <1>1, <1>2, ProviderInductive, PTL DEF Spec, ImplementsEventLog, Log!Spec
===============================================================================
