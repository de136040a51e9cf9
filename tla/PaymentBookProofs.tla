-------------------------- MODULE PaymentBookProofs --------------------------
(***************************************************************************)
(* PaymentProvider, with its Ledger, implements DepositBook, for any       *)
(* number of customers, deposits, integrations, events and requests.       *)
(***************************************************************************)
EXTENDS PaymentProviderProofs

-------------------------------------------------------------------------------
(* What a delivery and a query hold *)

\* CaptureInHand, of one delivery.
CaptureAt(w) ==
    /\ delivery[w].pc \in {"lookup", "update"} => delivery[w].recorded
    /\ delivery[w].pc = "update" => Body(w).type = "payment.captured"

\* The lookup goes on to the update for a capture only.
LEMMA UpdateIsOfCapture ==
    ASSUME NEW w \in Deliveries, ProcessLookup(w),
           ~ \E code \in {200, 500} : Respond(w, code)
    PROVE  Body(w).type = "payment.captured"
<1>1. ~ Respond(w, 200) /\ ~ Respond(w, 500)
  OBVIOUS
<1>2. CASE Body(w).type # "payment.captured"
  BY <1>1, <1>2 DEF ProcessLookup
<1> QED BY <1>2

\* A statement of HandleWebhook leaves its delivery with what it needs.
LEMMA CaptureWebhook ==
    ASSUME TypeOK, NEW w \in Deliveries, CaptureAt(w),
           HandleWebhook(w) \/ DeliveryFails(w)
    PROVE  CaptureAt(w)'
<1>1. ASSUME NEW code, Respond(w, code) PROVE CaptureAt(w)'
  BY <1>1, RespondFields DEF CaptureAt
<1>2. CASE WebhookInvalid(w) \/ DeliveryFails(w)
  BY <1>1, <1>2 DEF WebhookInvalid, DeliveryFails
<1>3. CASE WebhookConfig(w)
  <2>1. CASE ~ \E code \in {400, 404, 500} : Respond(w, code)
    <3>1. PICK e \in Events, i \in Ids :
            delivery' = [delivery EXCEPT ![w].pc = "integration",
                                         ![w].event = e, ![w].id = i]
      BY <1>3, <2>1, ConfigOutcome, Zenon
    <3>2. delivery'[w].pc = "integration"
      BY <3>1, AdmitFields, Zenon
    <3> QED BY <3>2 DEF CaptureAt
  <2> QED BY <1>1, <2>1
<1>4. CASE WebhookIntegration(w)
  <2>1. CASE delivery' = [delivery EXCEPT ![w].pc = "record"]
    <3>1. delivery'[w].pc = "record"
      BY <2>1, PointFields
    <3> QED BY <3>1 DEF CaptureAt
  <2> QED BY <1>1, <1>4, <2>1 DEF WebhookIntegration
<1>5. CASE WebhookRecord(w)
  <2>1. CASE delivery' = [delivery EXCEPT ![w].pc = "lookup", ![w].recorded = TRUE]
    <3>1. delivery'[w].pc = "lookup" /\ delivery'[w].recorded
      BY <2>1, RecordFields
    <3> QED BY <3>1 DEF CaptureAt
  <2> QED BY <1>1, <1>5, <2>1 DEF WebhookRecord
<1>6. CASE ProcessLookup(w)
  <2>1. CASE ~ \E code \in {200, 500} : Respond(w, code)
    <3> DEFINE p == IF Body(w).charge = None THEN "done" ELSE "update"
               c == IF Body(w).charge = None THEN 200 ELSE 0
    <3>1. PICK d \in Deposits :
            delivery' = [delivery EXCEPT ![w].deposit = d, ![w].pc = p, ![w].code = c]
      BY <1>6, <2>1, LookupOutcome
    <3> HIDE DEF p, c
    <3>2. /\ delivery'[w].event = delivery[w].event
          /\ delivery'[w].recorded = delivery[w].recorded
      BY <3>1, LookupFields, Zenon
    <3>3. delivery[w].pc = "lookup" /\ Body(w)' = Body(w)
      BY <1>6, <3>2 DEF ProcessLookup, Body
    <3>4. Body(w).type = "payment.captured"
      BY <1>6, <2>1, UpdateIsOfCapture
    <3> QED BY <3>2, <3>3, <3>4 DEF CaptureAt
  <2> QED BY <1>1, <2>1
<1>7. CASE ProcessUpdate(w)
  BY <1>1, <1>7 DEF ProcessUpdate
<1> QED BY <1>2, <1>3, <1>4, <1>5, <1>6, <1>7 DEF HandleWebhook

\* A query that is answered is done.
LEMMA ReplyIsLast ==
    ASSUME TypeOK, NEW q \in Queries, NEW code, Reply(q, code)
    PROVE  query'[q].pc = "done"
<1>1. query \in [Queries -> QueryState]
  BY DEF TypeOK
<1>2. PICK P, T, H, D, V, C :
        query[q] \in
          [pc : P, transaction : T, charge : H, deposit : D, verdict : V, code : C]
  BY <1>1, QueryRecord
<1>3. query'[q] = [query[q] EXCEPT !.pc = "done", !.code = code]
  BY <1>1, Zenon DEF Reply
<1> QED BY <1>2, <1>3, Zenon

\* And so is one that is given a verdict.
LEMMA ReplyVerdictIsLast ==
    ASSUME TypeOK, NEW q \in Queries, NEW d, ReplyVerdict(q, d)
    PROVE  query'[q].pc = "done"
<1>1. query \in [Queries -> QueryState]
  BY DEF TypeOK
<1>2. PICK P, T, H, D, V, C :
        query[q] \in
          [pc : P, transaction : T, charge : H, deposit : D, verdict : V, code : C]
  BY <1>1, QueryRecord
<1>3. query'[q] = [query[q] EXCEPT !.pc = "done", !.code = 200, !.deposit = d,
                                   !.verdict = Verdict(d)]
  BY <1>1, Zenon DEF ReplyVerdict
<1> QED BY <1>2, <1>3, Zenon

\* A statement of VerifyPayment gives a verdict, and is the last, or gives none.
GivesVerdict(q) ==
    \E d \in Deposits :
        /\ deposit[d].transaction # None \/ deposit[d].charge # None
        /\ query'[q].verdict = Verdict(d) /\ query'[q].deposit = d

LEMMA QueryMoves ==
    ASSUME TypeOK, VerdictIsLast, NEW q \in Queries, HandleQuery(q) \/ QueryFails(q)
    PROVE  /\ query[q].verdict = "none"
           /\ \A r \in Queries : r # q => query'[r] = query[r]
           /\ \/ GivesVerdict(q) /\ query'[q].pc = "done"
              \/ /\ query'[q].verdict = "none"
                 /\ query'[q].deposit = query[q].deposit
<1> DEFINE Goal ==
      /\ \A r \in Queries : r # q => query'[r] = query[r]
      /\ \/ GivesVerdict(q) /\ query'[q].pc = "done"
         \/ query'[q].verdict = "none" /\ query'[q].deposit = query[q].deposit
<1>1. query[q].verdict = "none"
  <2>1. QueryInvalid(q) => query[q].pc = "idle"
    BY DEF QueryInvalid
  <2>2. QueryConfig(q) => query[q].pc = "idle"
    BY Zenon DEF QueryConfig
  <2>3. ResolveTransaction(q) => query[q].pc = "transaction"
    BY Zenon DEF ResolveTransaction
  <2>4. ResolveCharge(q) => query[q].pc = "charge"
    BY DEF ResolveCharge
  <2>5. QueryFails(q) => query[q].pc # "done"
    BY DEF QueryFails
  <2> QED BY <2>1, <2>2, <2>3, <2>4, <2>5 DEF HandleQuery, VerdictIsLast
<1>2. ASSUME NEW code, Reply(q, code) PROVE Goal
  BY <1>1, <1>2, ReplyFields
<1>3. ASSUME NEW d \in Deposits, ReplyVerdict(q, d),
             deposit[d].transaction # None \/ deposit[d].charge # None
      PROVE  Goal
  BY <1>3, VerdictFields, ReplyVerdictIsLast DEF GivesVerdict
<1>4. CASE QueryConfig(q)
  <2>1. CASE Reply(q, 401)
    BY <1>1, <1>2, <2>1
  <2>2. CASE \E k \in Keys, t \in Transactions \cup {None}, ch \in Charges \cup {None} :
               query' = [query EXCEPT
                 ![q].pc = IF t # None THEN "transaction" ELSE "charge",
                 ![q].transaction = t, ![q].charge = ch]
    <3>1. PICK t, ch, p :
            query' = [query EXCEPT ![q].pc = p, ![q].transaction = t, ![q].charge = ch]
      BY <2>2, Zenon
    <3> QED BY <1>1, <3>1, ConfigFields
  <2> QED BY <1>4, <2>1, <2>2, Zenon DEF QueryConfig
<1>5. CASE ResolveTransaction(q)
  <2>1. CASE query' = [query EXCEPT ![q].pc = "charge"]
    BY <1>1, <2>1, ChargeFields
  <2>2. CASE \E d \in DepositsOf(query[q].transaction) : ReplyVerdict(q, d)
    <3>1. PICK d \in Deposits : ReplyVerdict(q, d) /\ deposit[d].transaction # None
      BY <2>2 DEF DepositsOf
    <3> QED BY <1>1, <1>3, <3>1
  <2>3. CASE Reply(q, 404)
    BY <1>1, <1>2, <2>3
  <2> QED BY <1>5, <2>1, <2>2, <2>3, Zenon DEF ResolveTransaction
<1>6. CASE ResolveCharge(q)
  <2>1. CASE \E d \in DepositsCharged(query[q].charge) : ReplyVerdict(q, d)
    <3>1. PICK d \in Deposits : ReplyVerdict(q, d) /\ deposit[d].charge # None
      BY <2>1 DEF DepositsCharged
    <3> QED BY <1>1, <1>3, <3>1
  <2>2. CASE Reply(q, 404)
    BY <1>1, <1>2, <2>2
  <2> QED BY <1>6, <2>1, <2>2, Zenon DEF ResolveCharge
<1>7. CASE QueryInvalid(q) \/ QueryFails(q)
  BY <1>1, <1>2, <1>7 DEF QueryInvalid, QueryFails
<1>8. Goal
  BY <1>4, <1>5, <1>6, <1>7 DEF HandleQuery
<1> QED BY <1>1, <1>8

\* The inductive invariant of the refinement.
BookInv == ProviderInv /\ CaptureInHand /\ VerdictIsLast

LEMMA BookInductive ==
    Spec => []BookInv
<1>1. Init => CaptureInHand /\ VerdictIsLast
  BY DEF Init, CaptureInHand, VerdictIsLast
<1>2. ProviderInv /\ CaptureInHand /\ [Next]_vars => CaptureInHand'
  <2> SUFFICES ASSUME ProviderInv, CaptureInHand, [Next]_vars, NEW w \in Deliveries
               PROVE  CaptureAt(w)'
    BY DEF CaptureInHand, CaptureAt
  <2>1. CaptureAt(w) /\ TypeOK
    BY DEF CaptureInHand, CaptureAt, ProviderInv
  <2>2. CASE delivery'[w] = delivery[w]
    BY <2>1, <2>2 DEF CaptureAt, Body
  <2> QED BY <2>1, <2>2, CaptureWebhook, DeliveryFrame
<1>3. ProviderInv /\ VerdictIsLast /\ [Next]_vars => VerdictIsLast'
  <2> SUFFICES ASSUME ProviderInv, VerdictIsLast, [Next]_vars PROVE VerdictIsLast'
    OBVIOUS
  <2>1. TypeOK
    BY DEF ProviderInv
  <2>2. CASE UNCHANGED query
    BY <2>2 DEF VerdictIsLast
  <2>3. CASE \E q \in Queries : HandleQuery(q) \/ QueryFails(q)
    BY <2>1, <2>3, QueryMoves DEF VerdictIsLast
  <2> QED BY <2>2, <2>3, QueryFrame
<1> QED BY <1>1, <1>2, <1>3, ProviderInductive, PTL DEF Spec, BookInv

-------------------------------------------------------------------------------
(* The book, column by column *)

\* What the book says of the deposits is what their rows say.
SameDeposits ==
    /\ StatusOf' = StatusOf /\ OwnerOf' = OwnerOf
    /\ TransactionOf' = TransactionOf /\ ChargeOf' = ChargeOf

LEMMA DepositsUnchanged ==
    ASSUME UNCHANGED deposit
    PROVE  SameDeposits
BY DEF SameDeposits, StatusOf, OwnerOf, TransactionOf, ChargeOf

\* A capture once recorded stays reported, for the delivery keeps its event.
LEMMA ReportsKept ==
    ASSUME \A v \in Deliveries : Keeps(v)
    PROVE  Reported' = Reported
<1>1. ASSUME NEW v \in Deliveries PROVE IsReport(v)' = IsReport(v) /\ Body(v)' = Body(v)
  BY DEF IsReport, Keeps, Body
<1> QED BY <1>1 DEF Reported

\* A delivery let in has recorded nothing.
LEMMA ReportsAdmit ==
    ASSUME NEW w \in Deliveries, Admits(w)
    PROVE  Reported' = Reported
<1>1. ASSUME NEW v \in Deliveries, v # w
      PROVE  IsReport(v)' = IsReport(v) /\ Body(v)' = Body(v)
  BY <1>1 DEF IsReport, Admits, Keeps, Body
<1>2. ~ IsReport(w) /\ ~ IsReport(w)'
  BY DEF IsReport, Admits
<1> QED BY <1>1, <1>2 DEF Reported

\* A delivery that records its event reports it when it is a full capture.
LEMMA ReportsRecord ==
    ASSUME NEW w \in Deliveries, Records(w)
    PROVE  \/ Reported' = Reported
           \/ /\ Body(w).transaction # None /\ Body(w).charge # None
              /\ Reported' = Reported \cup {<<Body(w).transaction, Body(w).charge>>}
<1>1. ASSUME NEW v \in Deliveries
      PROVE  /\ Body(v)' = Body(v)
             /\ v # w => IsReport(v)' = IsReport(v)
  BY <1>1 DEF IsReport, Records, Keeps, Body
<1>2. CASE IsReport(w)' /\ ~ IsReport(w)
  <2>1. Body(w).transaction # None /\ Body(w).charge # None
    BY <1>1, <1>2 DEF IsReport
  <2>2. Reported' = Reported \cup {<<Body(w).transaction, Body(w).charge>>}
    BY <1>1, <1>2 DEF Reported
  <2> QED BY <2>1, <2>2
<1>3. CASE IsReport(w)' = IsReport(w)
  BY <1>1, <1>3 DEF Reported
<1>4. CASE IsReport(w) /\ ~ IsReport(w)'
  BY <1>1, <1>4 DEF IsReport, Records
<1>5. IsReport(w) \in BOOLEAN /\ IsReport(w)' \in BOOLEAN
  BY DEF IsReport
<1> QED BY <1>2, <1>3, <1>4, <1>5

\* The ids of an event's body are HighLevel's.
LEMMA BodyIds ==
    ASSUME TypeOK, NEW w \in Deliveries, delivery[w].event # None
    PROVE  /\ Body(w).transaction \in Transactions \cup {None}
           /\ Body(w).charge \in Charges \cup {None}
<1>1. Body(w) \in EventBody
  BY DeliveryIds, ProviderAssumption DEF Body
<1> QED BY <1>1 DEF EventBody

\* What a change of one deposit means for the book: a field is written, the
\* others are kept.
LEMMA OneDeposit ==
    ASSUME TypeOK, NEW d \in Deposits, NEW s, NEW o, NEW t, NEW ch,
           \A e \in Deposits : e # d => deposit'[e] = deposit[e],
           deposit'[d].status = s, deposit'[d].owner = o,
           deposit'[d].transaction = t, deposit'[d].charge = ch
    PROVE  /\ StatusOf' = [StatusOf EXCEPT ![d] = s]
           /\ OwnerOf' = [OwnerOf EXCEPT ![d] = o]
           /\ TransactionOf' = [TransactionOf EXCEPT ![d] = t]
           /\ ChargeOf' = [ChargeOf EXCEPT ![d] = ch]
<1>1. StatusOf' = [StatusOf EXCEPT ![d] = s]
  BY DEF StatusOf
<1>2. OwnerOf' = [OwnerOf EXCEPT ![d] = o]
  BY DEF OwnerOf
<1>3. TransactionOf' = [TransactionOf EXCEPT ![d] = t]
  BY DEF TransactionOf
<1>4. ChargeOf' = [ChargeOf EXCEPT ![d] = ch]
  BY DEF ChargeOf
<1> QED BY <1>1, <1>2, <1>3, <1>4

\* Writing back what is there changes nothing.
LEMMA SameEntry ==
    ASSUME NEW d \in Deposits
    PROVE  /\ [StatusOf EXCEPT ![d] = deposit[d].status] = StatusOf
           /\ [OwnerOf EXCEPT ![d] = deposit[d].owner] = OwnerOf
           /\ [TransactionOf EXCEPT ![d] = deposit[d].transaction] = TransactionOf
           /\ [ChargeOf EXCEPT ![d] = deposit[d].charge] = ChargeOf
BY DEF StatusOf, OwnerOf, TransactionOf, ChargeOf

\* The book's entries are the rows'.
LEMMA Entries ==
    ASSUME NEW d \in Deposits
    PROVE  /\ StatusOf[d] = deposit[d].status /\ OwnerOf[d] = deposit[d].owner
           /\ TransactionOf[d] = deposit[d].transaction /\ ChargeOf[d] = deposit[d].charge
BY DEF StatusOf, OwnerOf, TransactionOf, ChargeOf

-------------------------------------------------------------------------------
(* Every step is a step of the book or none *)

\* The constants of the book.
LEMMA Rows ==
    ASSUME LedgerTypeOK, NEW d \in Deposits
    PROVE  /\ deposit \in [Deposits -> DepositRow]
           /\ deposit[d].owner \in Owner
           /\ deposit[d].status \in DepositStatus \cup {"NONE"}
<1>1. deposit \in [Deposits -> DepositRow]
  BY DEF LedgerTypeOK
<1>2. deposit[d] \in DepositRow
  BY <1>1
<1> QED BY <1>1, <1>2, Zenon DEF DepositRow

\* CreateCustomer opens an account.
LEMMA CustomerOpens ==
    ASSUME LedgerTypeOK, NEW c \in Calls, CreateCustomer(c),
           UNCHANGED <<delivery, query>>
    PROVE  [Book!Next]_(Book!vars)
<1>1. SameDeposits /\ Reported' = Reported /\ Told' = Told
  <2>1. UNCHANGED deposit
    BY DEF CreateCustomer
  <2> QED BY <2>1, DepositsUnchanged DEF Reported, IsReport, Body, Told
<1>2. CASE UNCHANGED customer
  <2>1. AccountsOpen' = AccountsOpen
    BY <1>2 DEF AccountsOpen
  <2> QED BY <1>1, <2>1 DEF SameDeposits, Book!vars
<1>3. CASE ~ UNCHANGED customer
  <2>1. PICK cl \in Clients, m \in Merchants, ph \in Phones, u \in Customers :
          /\ customer[u] = NoOwner
          /\ customer' = [customer EXCEPT
               ![u] = [client |-> cl, merchant |-> m, phone |-> ph]]
    BY <1>3 DEF CreateCustomer
  <2> DEFINE row == [client |-> cl, merchant |-> m, phone |-> ph]
  <2>2. row \in Owner \ {NoOwner}
    BY LedgerAssumption DEF Owner, NoOwner
  <2>3. customer \in [Customers -> Owner] /\ customer' = [customer EXCEPT ![u] = row]
    BY <2>1 DEF LedgerTypeOK
  <2> HIDE DEF row
  <2>4. AccountsOpen' = AccountsOpen \cup {row}
    BY <2>1, <2>2, <2>3 DEF AccountsOpen
  <2>5. Book!Open(row)
    BY <1>1, <2>4 DEF SameDeposits, Book!Open
  <2> QED BY <2>2, <2>5 DEF Book!Next
<1> QED BY <1>2, <1>3

\* DepositInsert books the deposit on the account the call looked up.
LEMMA InsertBooks ==
    ASSUME LedgerTypeOK, TypeOK, TenantInv, CorrelationIsBackfilled,
           NEW c \in Calls, DepositInsert(c), UNCHANGED <<delivery, query>>
    PROVE  [Book!Next]_(Book!vars)
<1>1. AccountsOpen' = AccountsOpen /\ Reported' = Reported /\ Told' = Told
  <2>1. UNCHANGED customer
    BY DEF DepositInsert
  <2> QED BY <2>1 DEF AccountsOpen, Reported, IsReport, Body, Told
<1>2. CASE UNCHANGED deposit
  BY <1>1, <1>2, DepositsUnchanged DEF SameDeposits, Book!vars
<1>3. CASE ~ UNCHANGED deposit
  <2>1. PICK d \in Deposits :
          /\ ~ DepositExists(d)
          /\ deposit' = [deposit EXCEPT ![d] =
                 [status |-> "INITIATED", owner |-> call[c].owner,
                  customer |-> call[c].customer, nulls |-> TRUE,
                  transaction |-> None, charge |-> None]]
    BY <1>3 DEF DepositInsert
  <2> DEFINE a == call[c].owner
  <2>2. a \in AccountsOpen
    <3>1. /\ call[c].customer # None /\ a # NoOwner
          /\ customer[call[c].customer] = a
      BY DEF DepositInsert, TenantInv, InsertHoldsCustomer
    <3>2. call[c] \in CallState
      BY DEF LedgerTypeOK
    <3>3. call[c].customer \in Customers
      BY <3>1, <3>2 DEF CallState
    <3> QED BY <3>1, <3>3 DEF AccountsOpen
  <2>3. a \in Owner \ {NoOwner}
    BY <2>2 DEF AccountsOpen, LedgerTypeOK
  <2>4. deposit \in [Deposits -> DepositRow]
    BY DEF LedgerTypeOK
  <2>5. /\ deposit'[d].status = "INITIATED" /\ deposit'[d].owner = a
        /\ deposit'[d].transaction = None /\ deposit'[d].charge = None
        /\ \A e \in Deposits : e # d => deposit'[e] = deposit[e]
    BY <2>1, <2>4
  <2>6. /\ deposit[d].status = "NONE" /\ deposit[d].transaction = None
        /\ deposit[d].charge = None
    BY <2>1 DEF DepositExists, CorrelationIsBackfilled
  <2> HIDE DEF a
  <2>7. /\ StatusOf' = [StatusOf EXCEPT ![d] = "INITIATED"]
        /\ OwnerOf' = [OwnerOf EXCEPT ![d] = a]
        /\ TransactionOf' = [TransactionOf EXCEPT ![d] = None]
        /\ ChargeOf' = [ChargeOf EXCEPT ![d] = None]
    BY <2>5, OneDeposit
  <2>8. TransactionOf' = TransactionOf /\ ChargeOf' = ChargeOf
    BY <2>6, <2>7, SameEntry
  <2>9. StatusOf[d] = "NONE"
    BY <2>6, Entries
  <2>10. Book!Book(d, a)
    BY <1>1, <2>2, <2>7, <2>8, <2>9 DEF Book!Book
  <2> QED BY <2>3, <2>10 DEF Book!Next
<1> QED BY <1>2, <1>3

\* Settle advances a deposit.
LEMMA SettleAdvances ==
    ASSUME LedgerTypeOK, TypeOK, NEW d \in Deposits, Settle(d),
           UNCHANGED <<delivery, query>>
    PROVE  [Book!Next]_(Book!vars)
<1>1. AccountsOpen' = AccountsOpen /\ Reported' = Reported /\ Told' = Told
  <2>1. UNCHANGED customer
    BY DEF Settle
  <2> QED BY <2>1 DEF AccountsOpen, Reported, IsReport, Body, Told
<1>2. PICK s \in {"PROCESSING", "COMPLETED", "FAILED"} :
        /\ \/ deposit[d].status = "INITIATED"
           \/ deposit[d].status = "PROCESSING" /\ s # "PROCESSING"
        /\ deposit' = [deposit EXCEPT ![d].status = s]
  BY DEF Settle
<1>3. deposit \in [Deposits -> DepositRow] /\ deposit[d] \in DepositRow
  BY DEF LedgerTypeOK
<1>4. deposit'[d] = [deposit[d] EXCEPT !.status = s]
  BY <1>2, <1>3, Zenon
<1>5. /\ deposit'[d].status = s
      /\ deposit'[d].owner = deposit[d].owner
      /\ deposit'[d].transaction = deposit[d].transaction
      /\ deposit'[d].charge = deposit[d].charge
  BY <1>3, <1>4, Zenon DEF DepositRow
<1>6. \A e \in Deposits : e # d => deposit'[e] = deposit[e]
  BY <1>2, <1>3, Zenon
<1>7. /\ StatusOf' = [StatusOf EXCEPT ![d] = s]
      /\ OwnerOf' = OwnerOf /\ TransactionOf' = TransactionOf /\ ChargeOf' = ChargeOf
  BY <1>5, <1>6, OneDeposit, SameEntry
<1>8. StatusOf[d] \in {"INITIATED", "PROCESSING"} /\ s # StatusOf[d]
  BY <1>2, Entries
<1>9. Book!Advance(d, s)
  BY <1>1, <1>7, <1>8 DEF Book!Advance
<1> QED BY <1>9 DEF Book!Next

\* Backfill correlates a deposit that had no transaction.
LEMMA BackfillCorrelates ==
    ASSUME LedgerTypeOK, TypeOK, CorrelationIsBackfilled, NEW d \in Deposits,
           Backfill(d), UNCHANGED <<delivery, query>>
    PROVE  [Book!Next]_(Book!vars)
<1>1. AccountsOpen' = AccountsOpen /\ Reported' = Reported /\ Told' = Told
  <2>1. UNCHANGED customer
    BY DEF Backfill
  <2> QED BY <2>1 DEF AccountsOpen, Reported, IsReport, Body, Told
<1>2. PICK t \in Transactions :
        deposit' = [deposit EXCEPT ![d].nulls = FALSE, ![d].transaction = t]
  BY DEF Backfill
<1>3. deposit \in [Deposits -> DepositRow] /\ deposit[d] \in DepositRow
  BY DEF LedgerTypeOK
<1>4. deposit'[d] = [deposit[d] EXCEPT !.nulls = FALSE, !.transaction = t]
  BY <1>2, <1>3, Zenon
<1>5. /\ deposit'[d].status = deposit[d].status
      /\ deposit'[d].owner = deposit[d].owner
      /\ deposit'[d].transaction = t
      /\ deposit'[d].charge = deposit[d].charge
  BY <1>3, <1>4, Zenon DEF DepositRow
<1>6. \A e \in Deposits : e # d => deposit'[e] = deposit[e]
  BY <1>2, <1>3, Zenon
<1>7. /\ TransactionOf' = [TransactionOf EXCEPT ![d] = t]
      /\ StatusOf' = StatusOf /\ OwnerOf' = OwnerOf /\ ChargeOf' = ChargeOf
  BY <1>5, <1>6, OneDeposit, SameEntry
<1>8. StatusOf[d] # "NONE" /\ TransactionOf[d] = None
  <2>1. deposit[d].status # "NONE" /\ deposit[d].nulls
    BY DEF Backfill, DepositExists
  <2> QED BY <2>1, Entries DEF CorrelationIsBackfilled
<1>9. Book!Correlate(d, t)
  BY <1>1, <1>7, <1>8 DEF Book!Correlate
<1> QED BY <1>9 DEF Book!Next

\* UpdateGHLReference charges a deposit with what was reported for its own
\* transaction: the row read one statement earlier is still the event's.
LEMMA UpdateCharges ==
    ASSUME TypeOK, ChargeInv, DeliveryControl, CaptureInHand,
           NEW w \in Deliveries, ProcessUpdate(w)
    PROVE  [Book!Next]_(Book!vars)
<1> DEFINE d == delivery[w].deposit
           t == Body(w).transaction
           ch == Body(w).charge
<1>1. /\ delivery[w].pc = "update" /\ UNCHANGED <<customer, query>>
      /\ \E code \in {200, 500} : Respond(w, code)
  BY DEF ProcessUpdate
<1>0. deposit' = [deposit EXCEPT ![d].transaction = t, ![d].charge = ch]
  BY DEF ProcessUpdate
<1>2. /\ d # None /\ ch # None /\ t # None /\ deposit[d].transaction = t
      /\ delivery[w].recorded /\ Body(w).type = "payment.captured"
  BY <1>1 DEF DeliveryControl, CaptureInHand
<1>3. AccountsOpen' = AccountsOpen /\ Told' = Told
  BY <1>1 DEF AccountsOpen, Told
<1>4. Reported' = Reported
  BY <1>1, RespondFields, ReportsKept DEF Keeps
<1>5. <<t, ch>> \in Reported
  BY <1>2 DEF Reported, IsReport
<1>6. ch \in Charges
  <2>1. delivery[w].event # None
    BY <1>1 DEF DeliveryControl, ChargeInv, KeysAreSpent
  <2> QED BY <1>2, <2>1, BodyIds
<1>7. d \in Deposits
  BY <1>2, DeliveryDeposit
<1>8. deposit \in [Deposits -> DepositRow] /\ deposit[d] \in DepositRow
  BY <1>7 DEF TypeOK, LedgerTypeOK
<1> HIDE DEF d, t, ch
<1>9. deposit'[d] = [deposit[d] EXCEPT !.transaction = t, !.charge = ch]
  BY <1>0, <1>7, <1>8, Zenon
<1>10. /\ deposit'[d].status = deposit[d].status
       /\ deposit'[d].owner = deposit[d].owner
       /\ deposit'[d].transaction = t
       /\ deposit'[d].charge = ch
  BY <1>8, <1>9, Zenon DEF DepositRow
<1>11. \A e \in Deposits : e # d => deposit'[e] = deposit[e]
  BY <1>0, <1>7, <1>8, Zenon
<1>12. /\ ChargeOf' = [ChargeOf EXCEPT ![d] = ch]
       /\ StatusOf' = StatusOf /\ OwnerOf' = OwnerOf /\ TransactionOf' = TransactionOf
  BY <1>2, <1>7, <1>10, <1>11, OneDeposit, SameEntry
<1>13. TransactionOf[d] = t
  BY <1>2, <1>7, Entries
<1>14. Book!Charge(d, ch)
  BY <1>2, <1>3, <1>4, <1>5, <1>12, <1>13 DEF Book!Charge
<1> QED BY <1>6, <1>7, <1>14 DEF Book!Next

\* The other statements of HandleWebhook report a capture or leave the book alone.
LEMMA WebhookReports ==
    ASSUME TypeOK, ChargeInv, DeliveryControl, NEW w \in Deliveries,
           HandleWebhook(w) \/ DeliveryFails(w), ~ ProcessUpdate(w)
    PROVE  [Book!Next]_(Book!vars)
<1>1. UNCHANGED <<customer, deposit, query>>
  <2>1. UNCHANGED deposit
    BY DEF HandleWebhook, WebhookInvalid, WebhookConfig, WebhookIntegration,
           WebhookRecord, ProcessLookup, DeliveryFails, ledgerVars
  <2> QED BY <2>1, WebhookLeaves
<1>2. AccountsOpen' = AccountsOpen /\ Told' = Told /\ SameDeposits
  BY <1>1, DepositsUnchanged DEF AccountsOpen, Told
<1>3. CASE Reported' = Reported
  BY <1>2, <1>3 DEF SameDeposits, Book!vars
<1>4. CASE Records(w)
  <2>1. CASE /\ Body(w).transaction # None /\ Body(w).charge # None
             /\ Reported' = Reported \cup {<<Body(w).transaction, Body(w).charge>>}
    <3> DEFINE t == Body(w).transaction
               ch == Body(w).charge
    <3>1. delivery[w].event # None
      BY <1>4 DEF Records, ChargeInv, KeysAreSpent
    <3>2. t \in Transactions /\ ch \in Charges
      BY <2>1, <3>1, BodyIds
    <3>3. Book!Report(t, ch)
      BY <1>2, <2>1 DEF SameDeposits, Book!Report
    <3> HIDE DEF t, ch
    <3> QED BY <3>2, <3>3 DEF Book!Next
  <2> QED BY <1>3, <1>4, <2>1, ReportsRecord
<1> QED BY <1>3, <1>4, WebhookMoves, ReportsKept, ReportsAdmit

\* VerifyPayment tells a query where a deposit stands, or leaves the book alone.
LEMMA QueryTells ==
    ASSUME TypeOK, VerdictIsLast, NEW q \in Queries, HandleQuery(q) \/ QueryFails(q)
    PROVE  [Book!Next]_(Book!vars)
<1>1. /\ query[q].verdict = "none"
      /\ \A r \in Queries : r # q => query'[r] = query[r]
      /\ \/ GivesVerdict(q) /\ query'[q].pc = "done"
         \/ query'[q].verdict = "none" /\ query'[q].deposit = query[q].deposit
  BY QueryMoves
<1>2. UNCHANGED <<customer, deposit, delivery>>
  BY QueryLeaves DEF ledgerVars
<1>3. AccountsOpen' = AccountsOpen /\ SameDeposits /\ Reported' = Reported
  BY <1>2, DepositsUnchanged DEF AccountsOpen, Reported, IsReport, Body
<1>4. Told[q] = None /\ \A r \in Queries : r # q => Told'[r] = Told[r]
  BY <1>1 DEF Told
<1>5. CASE query'[q].verdict = "none"
  <2>1. \A r \in Queries : Told'[r] = Told[r]
    BY <1>4, <1>5 DEF Told
  <2>2. Told' = Told
    BY <2>1 DEF Told
  <2> QED BY <1>3, <2>2 DEF SameDeposits, Book!vars
<1>6. CASE GivesVerdict(q)
  <2>1. PICK d \in Deposits :
          /\ deposit[d].transaction # None \/ deposit[d].charge # None
          /\ query'[q].verdict = Verdict(d) /\ query'[q].deposit = d
    BY <1>6 DEF GivesVerdict
  <2>2. Verdict(d) = Book!Meaning(StatusOf[d]) /\ Verdict(d) # "none"
    BY Entries DEF Verdict, Book!Meaning
  <2>3. Told'[q] = <<d, Book!Meaning(StatusOf[d])>>
    BY <2>1, <2>2 DEF Told
  <2>4. Told' = [Told EXCEPT ![q] = <<d, Book!Meaning(StatusOf[d])>>]
    BY <1>4, <2>3 DEF Told
  <2>5. TransactionOf[d] # None \/ ChargeOf[d] # None
    BY <2>1, Entries
  <2>6. Book!Tell(q, d)
    BY <1>3, <1>4, <2>4, <2>5 DEF SameDeposits, Book!Tell
  <2> QED BY <2>6 DEF Book!Next
<1> QED BY <1>1, <1>5, <1>6

\* The Transactions handlers and the world outside them keep the book.
LEMMA LedgerKeepsBook ==
    ASSUME TypeOK, TenantInv, CorrelationIsBackfilled,
           LedgerNext, UNCHANGED <<clientsVars, delivery, query>>
    PROVE  [Book!Next]_(Book!vars)
<1>1. LedgerTypeOK
  BY DEF TypeOK
<1>2. CASE UNCHANGED <<customer, deposit>>
  <2>1. /\ AccountsOpen' = AccountsOpen /\ SameDeposits
        /\ Reported' = Reported /\ Told' = Told
    BY <1>2, DepositsUnchanged DEF AccountsOpen, Reported, IsReport, Body, Told
  <2> QED BY <2>1 DEF SameDeposits, Book!vars
<1>3. ASSUME NEW c \in Calls,
             \/ Reject(c) \/ CreateMerchant(c) \/ InitiateDeposit(c)
             \/ DepositCustomer(c) \/ RequestPayout(c) \/ CallFails(c)
      PROVE  UNCHANGED <<customer, deposit>>
  BY <1>3 DEF Reject, CreateMerchant, InitiateDeposit, DepositCustomer,
              RequestPayout, CallFails
<1> QED BY <1>1, <1>2, <1>3, CustomerOpens, InsertBooks, SettleAdvances,
           BackfillCorrelates
        DEF LedgerNext

\* Every step of both services is a step of the book or none.
LEMMA BookStep ==
    ASSUME BookInv, [Next]_vars
    PROVE  [Book!Next]_(Book!vars)
<1>1. /\ TypeOK /\ TenantInv /\ CorrelationIsBackfilled /\ ChargeInv
      /\ DeliveryControl /\ CaptureInHand /\ VerdictIsLast
  BY DEF BookInv, ProviderInv
<1>2. CASE UNCHANGED <<customer, deposit, delivery, query>>
  <2>1. /\ AccountsOpen' = AccountsOpen /\ SameDeposits
        /\ Reported' = Reported /\ Told' = Told
    BY <1>2, DepositsUnchanged DEF AccountsOpen, Reported, IsReport, Body, Told
  <2> QED BY <2>1 DEF SameDeposits, Book!vars
<1>3. CASE LedgerNext /\ UNCHANGED <<clientsVars, delivery, query>>
  BY <1>1, <1>3, LedgerKeepsBook
<1>4. CASE ClientsNext
  <2>1. UNCHANGED <<customer, deposit, delivery, query>>
    BY <1>4 DEF ClientsNext, Install, InstallEvent, RegisterProvider, Uninstall,
                ledgerVars
  <2> QED BY <1>2, <2>1
<1>5. CASE \E w \in Deliveries : HandleWebhook(w) \/ DeliveryFails(w)
  BY <1>1, <1>5, UpdateCharges, WebhookReports
<1>6. CASE \E q \in Queries : HandleQuery(q) \/ QueryFails(q)
  BY <1>1, <1>6, QueryTells
<1>7. CASE UNCHANGED vars
  BY <1>2, <1>7 DEF vars, ledgerVars
<1> QED BY <1>3, <1>4, <1>5, <1>6, <1>7 DEF Next

\* The Transactions service and the Clients adapter together keep a deposit
\* book: a deposit is booked on an account that exists, settles once and is
\* correlated once; UpdateGHLReference writes only a charge HighLevel reported
\* for that very transaction; VerifyPayment tells a query the deposit's status.
THEOREM ServicesImplementDepositBook ==
    Spec => ImplementsDepositBook
<1>1. Init => Book!Init
  <2> SUFFICES ASSUME Init PROVE Book!Init
    OBVIOUS
  <2>1. AccountsOpen = {}
    BY DEF Init, LedgerInit, AccountsOpen
  <2>2. /\ StatusOf = [d \in Deposits |-> "NONE"]
        /\ OwnerOf = [d \in Deposits |-> NoOwner]
        /\ TransactionOf = [d \in Deposits |-> None]
        /\ ChargeOf = [d \in Deposits |-> None]
    BY DEF Init, LedgerInit, StatusOf, OwnerOf, TransactionOf, ChargeOf
  <2>3. Reported = {}
    BY DEF Init, Reported, IsReport
  <2>4. Told = [q \in Queries |-> None]
    BY DEF Init, Told
  <2> QED BY <2>1, <2>2, <2>3, <2>4 DEF Book!Init
<1>2. BookInv /\ [Next]_vars => [Book!Next]_(Book!vars)
  BY BookStep
<1> QED BY <1>1, <1>2, BookInductive, PTL DEF Spec, ImplementsDepositBook, Book!Spec

-------------------------------------------------------------------------------
(* What the book promises, and so the services do *)

\* The strengthening: a charge is on a correlated deposit only, which keeps
\* Correlate from moving it to another transaction, and a query is told of a
\* deposit.
Promises ==
    /\ Book!BookedOnAccount /\ Book!ChargedAsReported /\ Book!ToldTheTruth
    /\ \A d \in Deposits : ChargeOf[d] # None => TransactionOf[d] # None
    /\ \A q \in Queries : Told[q] # None => Told[q][1] \in Deposits

\* The columns are functions of the deposits and the queries.
LEMMA Columns ==
    /\ StatusOf = [d \in Deposits |-> StatusOf[d]]
    /\ OwnerOf = [d \in Deposits |-> OwnerOf[d]]
    /\ TransactionOf = [d \in Deposits |-> TransactionOf[d]]
    /\ ChargeOf = [d \in Deposits |-> ChargeOf[d]]
    /\ Told = [q \in Queries |-> Told[q]]
BY DEF StatusOf, OwnerOf, TransactionOf, ChargeOf, Told

\* The argument is the book's own: no statement of either service matters here.
LEMMA PromisesKept ==
    ASSUME Promises, [Book!Next]_(Book!vars)
    PROVE  Promises'
<1> USE DEF Promises, Book!BookedOnAccount, Book!ChargedAsReported, Book!ToldTheTruth
<1>1. ASSUME NEW a, Book!Open(a) PROVE Promises'
  BY <1>1 DEF Book!Open
<1>2. ASSUME NEW d \in Deposits, NEW a, Book!Book(d, a) PROVE Promises'
  <2>1. \A e \in Deposits :
          /\ StatusOf'[e] = IF e = d THEN "INITIATED" ELSE StatusOf[e]
          /\ OwnerOf'[e] = IF e = d THEN a ELSE OwnerOf[e]
    BY <1>2, Columns DEF Book!Book
  <2> QED BY <1>2, <2>1 DEF Book!Book
<1>3. ASSUME NEW d \in Deposits, NEW s, Book!Advance(d, s) PROVE Promises'
  <2>1. \A e \in Deposits : StatusOf'[e] = IF e = d THEN s ELSE StatusOf[e]
    BY <1>3, Columns DEF Book!Advance
  <2>2. StatusOf[d] \in {"INITIATED", "PROCESSING"}
    BY <1>3 DEF Book!Advance
  <2> QED BY <1>3, <2>1, <2>2 DEF Book!Advance
<1>4. ASSUME NEW d \in Deposits, NEW t, Book!Correlate(d, t) PROVE Promises'
  <2>1. \A e \in Deposits : TransactionOf'[e] = IF e = d THEN t ELSE TransactionOf[e]
    BY <1>4, Columns DEF Book!Correlate
  <2> QED BY <1>4, <2>1 DEF Book!Correlate
<1>5. ASSUME NEW t, NEW ch, Book!Report(t, ch) PROVE Promises'
  BY <1>5 DEF Book!Report
<1>6. ASSUME NEW d \in Deposits, NEW ch, Book!Charge(d, ch) PROVE Promises'
  <2>1. \A e \in Deposits : ChargeOf'[e] = IF e = d THEN ch ELSE ChargeOf[e]
    BY <1>6, Columns DEF Book!Charge
  <2> QED BY <1>6, <2>1 DEF Book!Charge
<1>7. ASSUME NEW q \in Queries, NEW d \in Deposits, Book!Tell(q, d) PROVE Promises'
  <2>1. \A r \in Queries :
          Told'[r] = IF r = q THEN <<d, Book!Meaning(StatusOf[d])>> ELSE Told[r]
    BY <1>7, Columns DEF Book!Tell
  <2>2. /\ Book!Meaning(StatusOf[d]) = "success" => StatusOf[d] = "COMPLETED"
        /\ Book!Meaning(StatusOf[d]) = "failed" => StatusOf[d] = "FAILED"
    BY DEF Book!Meaning
  <2>3. Told'[q][1] = d /\ Told'[q][2] = Book!Meaning(StatusOf[d])
    BY <2>1
  <2> QED BY <1>7, <2>1, <2>2, <2>3 DEF Book!Tell
<1>8. CASE UNCHANGED Book!vars
  BY <1>8 DEF Book!vars
<1> QED BY <1>1, <1>2, <1>3, <1>4, <1>5, <1>6, <1>7, <1>8 DEF Book!Next

\* Hence of the services: a deposit that is booked has its customer, a charge on
\* a deposit was reported by HighLevel for the transaction the deposit pays, and
\* no verify query was ever told what the deposit's status does not say.
THEOREM ServicesKeepTheBook ==
    Spec => [](Book!BookedOnAccount /\ Book!ChargedAsReported /\ Book!ToldTheTruth)
<1>1. Book!Init => Promises
  BY DEF Book!Init, Promises, Book!BookedOnAccount, Book!ChargedAsReported,
         Book!ToldTheTruth
<1>2. Promises /\ [Book!Next]_(Book!vars) => Promises'
  BY PromisesKept
<1>3. Promises => Book!BookedOnAccount /\ Book!ChargedAsReported /\ Book!ToldTheTruth
  BY DEF Promises
<1> QED BY <1>1, <1>2, <1>3, ServicesImplementDepositBook, PTL
        DEF ImplementsDepositBook, Book!Spec

===============================================================================
