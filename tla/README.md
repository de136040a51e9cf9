# rvpay-go: formal models and proofs

TLA+ models of the RVPay back end, the TLC configurations that check them on
small instances, and TLAPS proofs of their main properties for every instance.
`PROJECT.json` maps every definition to the lines it models and lists runs,
mutants, hazards, findings and theorems.

## 1. The system

Two services carry the logic, each with a PostgreSQL database of its own; two
older ones (`deposits/`, `integrations/`) are superseded by them.

| component | state | operations | talks to |
|---|---|---|---|
| Clients: integrations RPCs (`clients/service/integrations_service.go`) | `integrations` | Install, Uninstall, Reconnect, Disconnect, Sync, Get, List | database |
| Clients: OAuth service (`clients/oauth`) | `oauth_states`, `oauth_tokens`, `integrations`, `payment_provider_configs` | BeginAuthorization, HandleCallback, ProcessCallback, RegisterProvider, RefreshAccessToken, ValidateToken | HighLevel, database |
| Clients: HighLevel webhooks (`clients/webhooks`, `clients/providers/highlevel_webhook.go`) | `webhook_events`, `webhook_subscriptions`, `payment_provider_configs` | RegisterWebhook, UnregisterWebhook, ProcessWebhook, Dispatch | HighLevel calls it |
| Clients: payment provider adapter (`clients/payments`) | reads `payment_provider_configs`, writes `webhook_events` | HandleQuery, HandleWebhook | HighLevel calls it, it calls Transactions by gRPC |
| Clients: clients and platforms RPCs (`clients/service/{clients,platforms}_service.go`) | `clients`, `platforms` | Create, Update, Activate, Deactivate, Delete, Enable, Disable | database |
| Transactions: ledger (`transactions/{merchants,customers,deposits,payouts}`) | `merchants`, `customers`, `deposits`, `payouts` | CreateMerchant, CreateCustomer, InitiateDeposit, RequestPayout and reads | database |
| Transactions: payments (`transactions/payments`) | `deposits` | VerifyPayment, ProcessPaymentWebhook | called by Clients |
| Service process (`cmd/grpc-service/main.go`, the same in every service) | the connection pool, two servers, health | start, serve, report a failure, shut down, exit | database, both servers |
| configuration, logging, generated code | none of its own | - | - |

**What is hard about it.** Every request is a goroutine, a handler issues
several SQL statements, and no handler opens a transaction. So the statements
of concurrent requests interleave freely, a value read in one statement is old
in the next, and a failure leaves the statements before it committed. HighLevel
repeats what is not answered 2xx, may repeat what was, and may do so
concurrently. Only unique constraints and foreign keys (with cascades) arbitrate.

**What makes each part correct.**

- OAuth: a state is redeemed once; an integration is installed once; a client gets
  the tokens of no location it did not name itself; one exchange of a code installs one
  integration; ACTIVE means tokens; a registered API key is not lost to an INSTALL
  event; REVOKED lasts.
- Webhooks: an event is processed once, acknowledged only when processed, and
  processed eventually.
- Payments: an event is charged once, a capture is acknowledged only with its
  charge on the deposit, a charge on a deposit was reported for its transaction, a
  verdict once given stays true, a deposit never changes transaction.
- Ledger: a deposit is booked on a customer of exactly its tenant.
- Registry: clients share a name only if their creations overlapped, a status is
  the one last decided unless a rename raced with the decision, a deletion
  succeeds once and lasts.
- Token refresh: the token HighLevel accepts is not lost by overlapping
  refreshes, no older token overwrites what a successful one stored, and a token
  that is lost is lost for good.
- Process: exit status 0 means that no request was cut off and no server failed;
  a failed server or a signal leads to the exit, its goroutines never all waiting for
  one another, unless a client holds a gRPC stream open.

## 2. The modules

| module | models | state | steps |
|---|---|---|---|
| `Installation` | integrations RPCs, OAuth service, the INSTALL handler | the four tables, the codes HighLevel has exchanged, one record per request | one per SQL statement or provider call |
| `WebhookDelivery` | `/webhooks/highlevel`, ProcessWebhook, Dispatch, (un)registration | the four tables, deliveries in flight, what HighLevel has seen acknowledged | one per SQL statement |
| `Ledger` | merchants, customers, deposits, payouts | the four tables, one record per gRPC call | one per SQL statement |
| `PaymentProvider` (extends `Ledger`) | HandleQuery, HandleWebhook, VerifyPayment, ProcessPaymentWebhook | integrations, configs, recorded events, deliveries, queries | one per SQL statement |
| `ClientRegistry` | the clients and platforms RPCs | the two tables, which clients have integrations, calls in flight | one per SQL statement |
| `TokenRefresh` | RefreshAccessToken against HighLevel's token rotation | status and token row of each integration, the token HighLevel accepts, calls in flight | one per SQL statement or provider call |
| `ServiceLifecycle` | `main`, `run` and its three goroutines | where `run`, the servers and the shutdown are, health, pool, exit status, requests being served | one per blocking call of a goroutine |
| `Authorization` | what the OAuth flow promises | states, whom a callback acts for, owners and credentials of integrations | abstract |
| `EventLog` | what an endpoint for events promises | jobs taken, jobs at work, events confirmed | abstract |
| `DepositBook` | what both services together promise of deposits | accounts, the deposits' columns, HighLevel's reports, what queries were told | abstract |
| `TokenCustody` | what refreshing tokens promises | who has an integration's newest token, how refreshes ended | abstract |
| `*Proofs` (eight of them) | theorems | | |
| `MC*` | instances for TLC | | |

`Installation` composes the RPCs, the OAuth service and the INSTALL handler, which
meet in the tables of the Clients database; `PaymentProvider` composes the adapter
in Clients with the Transactions service. `Installation` implements
`Authorization`, `WebhookDelivery` and `PaymentProvider` both implement `EventLog`,
`PaymentProvider` with its `Ledger` implements `DepositBook`, and `TokenRefresh`
implements `TokenCustody`.
The other modules take what they share with a neighbour as steps of their
environment: `ClientRegistry` has `Link` and `Unlink` for the rows Installation
inserts and deletes, `TokenRefresh` has `Authorize`, `SetStatus` and `Uninstall`.

Conventions. A request's `pc` names the statement it is about to issue; a step
is that statement together with the checks the code makes on its answer. A
request runs once, so its record is also its history. Ids are drawn from sets of
values never used before, as UUIDs are. `None` is NULL, a blank string or
nothing yet. A definition marked `Mutant:` is a plausible mistake in the
definition that follows it; it is used by no specification.

**Installation.** `Fail(r)` ends a request after any statement: a database
error, a cancelled context, a provider call that failed, a killed process. The
result `"partial"` is an error answered after the integration had been made
ACTIVE. Tokens are identified with the authorization code they were exchanged
for, an API key with the request that generated it. Clients and platforms change
status at any time (`SetClientStatus`, `DeleteClient`, `SetPlatformEnabled`).
`SingleUseCodes` says whether HighLevel honours a code twice. A callback without
a state exchanges its code twice (`oauth/service.go:228` and again in
ProcessCallback): with single-use codes the second exchange is refused and the
request ends there. The passing runs set the constant to FALSE, which lets that
callback go on and has every other behaviour too, since a refused exchange ends a
request as any failed call does; the theorems hold for both values.

**WebhookDelivery.** A delivery slot can be used again: HighLevel resends an
event until it has seen a 2xx, and answers may be lost. `handled`, `completed`
and `acked` are history. The status ACTIVE stands for REVOKED as well: only
RegisterWebhook reads it. A delivery without a location is InvalidArgument, as its
`appId` would have to be the UUID of an integration and is not one
(`clients/providers/highlevel_webhook.go:83`). The signature check is the set `Valid`. Failures happen
at the points `FailAt`, at most `MaxFailures` times.

**Ledger.** A deposit's `external_reference` and `failure_reason` are NULL when
it is inserted and are read back into Go strings, which the driver refuses: the
row is committed and the handler answers Internal (`ReadBack`). No code in the
repository settles a deposit or writes its first `ghl_transaction_id`. `Settle`
and `Backfill` stand for whoever does, outside the repository, for the deposits
in `Backfilled`; with `Backfilled = {}` the repository is on its own.

**PaymentProvider.** An event's body is reduced to the fields the code branches
on. `ON CONFLICT DO NOTHING RETURNING *` returns no row for a duplicate, which
the repository layer takes for an internal error; so a duplicate of a payment
event is answered 500 although the handler maps AlreadyExists to 200. A wrong key
is Unauthenticated, which `writeWebhookError` has no case for: 500.
`ProcessUpdate` may commit and lose its answer.

**ClientRegistry.** A handler is a read (`Read`, which answers at once when there is
nothing to do) and a write of what it decided. `decided` is the status that the last
Create, Activate, Deactivate, Enable or Disable wrote; `raced` tells whether an
UpdateClient that had read an older one was in flight then. UpdateClient never
writes the name it is given (`clients_service.go:117`); what is left of it is a
status written back. The initial table is any one whose names are distinct.

**TokenRefresh.** A refresh token is good for one refresh, so it is its number in the
sequence HighLevel issues. `Rotate` may succeed at HighLevel and fail for the
caller. `dropped` is history: a call got a token and ended without storing it.

**ServiceLifecycle.** `stop[t]` says what the shutdown has asked of a server, `serve[t]`
where its goroutine is. ListenAndServe returns as soon as Shutdown is called, Serve
only when GracefulStop is done (`Released`). A server that failed does not bring
the process down by itself: `Report` puts the error into the channel and cancels
the context, which the shutdown goroutine waits for. Draining HTTP may end by the
5 seconds (`DrainTimesOut`), which counts as a failure; GracefulStop has no limit.
`Streams` are the calls of the reflection service and of the health service's Watch
(`main.go:179-181`), which end when their client leaves. `Open(t)` says when a
request may still arrive: on a connection that is there already, during Shutdown and
after one that was given up, and until the client has read GracefulStop's GOAWAY.
When `run` returns, the deferred calls close the pool while the shutdown goroutine
and HTTP handlers may still be at work, until `Exit`.

**Authorization and EventLog.** `Authorization`: a state is issued to one owner (a
client and a platform), redeemed by one bearer or void; a bearer acts for that
owner only; an integration gets credentials once, from a bearer of its own owner,
and loses them when it goes. `EventLog`: a job is taken up once ever, and only who
took it up may confirm its event.

**DepositBook and TokenCustody.** `DepositBook`: a deposit is booked on an account
that is open, advances until it is settled, is correlated once, and is charged with
what HighLevel reported for its own transaction; a query is told once, of a deposit
that is correlated or charged, what its status means at that moment.
`TokenCustody`: of the tokens issued for an integration the newest is held, until a
refresh that fails loses it, after which none succeeds. The refinement mappings are
at the end of the modules that implement the abstract ones.

## 3. What TLC checks

Runs that pass:

| run | instance | shows |
|---|---|---|
| `lifecycle` | one client, two integration ids, one state, two codes, nine requests, at most six of them in one behaviour | `StateRedeemedOnce`, `ActiveHasToken`, `OneInstallationPerIntegration`, `RevokedStaysRevoked`, `KeyNeverBlanked` |
| `clients` | two clients, one location that either may name or not, two callbacks, an Install, an INSTALL event | `OneIntegrationPerPair`, `CredentialsStayWithTheirClient`, `CodesServeOnce`, `ImplementsAuthorization` |
| `webhook_safety` | two integrations, three events (one without a location), two deliveries at a time, a failure anywhere | `HandledOnce`, `AcknowledgedIsProcessed` |
| `webhook_liveness` | two integrations on one location, an INSTALL event, two deliveries at a time, a failure before the record | `InstallEventuallyProcessed`, `ImplementsEventLog` |
| `payments` | two integrations and keys on one location, four events, two deliveries, a query, five ledger calls | `EventChargedOnce`, `VerdictStands`, `AcknowledgedCaptureIsRecorded`, `CorrelationIsStable`, `DepositKeepsTenant`, `ImplementsEventLog`, `ImplementsDepositBook` |
| `registry` | two clients, a platform, two names, three calls, every initial table | `NamesakesOverlapped`, `StatusIsLastDecision`, `DeletedOnce`, `DeletedStaysDeleted` |
| `refresh` | two integrations, four refreshes, a failure anywhere | `CurrentTokenIsKept`, `SuccessIsStored`, `LossIsFinal`, `ImplementsTokenCustody` |
| `shutdown` | two HTTP requests, a unary RPC and a stream, failures of start, of either server and of draining | `CleanExitIsDrained`, `FailureIsReported`, `StopIsNeverStuck`, `EveryStepCounts`, `ShutdownTerminates`, `FailureIsAnnounced` |

Runs that find what a document or comment says refuted (details and quotations
under `findings`):

| run | the code |
|---|---|
| `webhook_duplicate` | a duplicate is answered 500, so HighLevel goes on sending it |
| `webhook_retry` | an event whose dispatch failed is never processed: its retries are duplicates |
| `deposit_insert` | an InitiateDeposit whose row was committed answers Internal |
| `correlation` | with nothing outside the repository, no capture ever finds its deposit |

Some properties that pass spell out a weakness of the code in their premise:
`RevokedStaysRevoked` excepts requests that had read the row before the Disconnect
(a Reconnect or Sync in flight undoes it); `ActiveHasToken` excepts integrations
whose callback failed between activation and INSERT (they stay ACTIVE without
tokens, and later callbacks are refused); `NamesakesOverlapped` excepts overlapping
CreateClient calls; `StatusIsLastDecision` excepts an UpdateClient in flight;
`CurrentTokenIsKept` excepts calls that failed after HighLevel had answered, and
`LossIsFinal` says what that costs; `StopIsNeverStuck` excepts the wait of
GracefulStop for a running RPC, which has no deadline; `ShutdownTerminates` excepts
behaviours in which a client holds a stream open for ever, such as a Watch of the
health service, since the process then never exits, signal or not.
`InstallEventuallyProcessed` excepts an event that is `Misdirected`: ProcessWebhook and
the dispatcher look the location up one after the other, so of two integrations on it
one may record the event and the other be chosen to process it; when that other is
uninstalled in between, the event is recorded for the one that stays and every
redelivery is refused as a duplicate. `CodesServeOnce` lets a
callback without a state install only when HighLevel honoured its code twice, and
`StatelessNeverInstalls` (proved) draws the conclusion: with single-use codes that
path, which the code has for it, never stores a token.

`CredentialsStayWithTheirClient` says that a callback with a state stores tokens for the
client of the state only, and that nothing brings a client the tokens of a location that
neither its InstallIntegration nor a callback with one of its states had named. It does
not say more because the code does not do more: when two clients name one location,
the lookup by location returns any of their rows, and a callback without a state, or an
INSTALL event, for one may be taken for the other. `clients/oauth/service.go:241-243`,
`clients/providers/highlevel_webhook.go:276-278` and
`agents/001-quick-fix-first-installation.md:149-158` promise that an installation of
client B never resolves to client A; that holds as long as no two clients name
one location, which no constraint and no handler checks.

**Bounds and why they are enough.** Two of each kind of racing request exhibit
every race the code has: no step reads more than its own record and one row of
each table, and the proofs below lift most of the properties to any number.
`OneScenario` (lifecycle) limits a behaviour to one of three sets of handlers that
share rows: callbacks competing for one state, callbacks against
Reconnect/Disconnect/Sync, callbacks against Uninstall and an INSTALL event. The
theorems about the same properties have no such limit. `LedgerFirst` (payments)
starts HighLevel's requests only once the deposit exists or the ledger is idle;
the ledger's own handlers do not read what they write. `registry`: the third call
is there for a race of two with a call that had read before both. `refresh`: two
calls race and two more see what they left. `shutdown`: of each transport, a
request that is done and one that is still running; of the two RPCs, a unary one and a
stream. `webhook_liveness`: two integrations on the location, of which the record and
the dispatch may take different ones, either of them uninstalled at any time; one
failure suffices to need a redelivery. Symmetry is used only
where no property is a liveness property and the permuted values are not told
apart by the instance's definitions.

**Deadlock** is checked except in the payment, registry and refresh runs: a request
runs once there, so an instance ends when all have been served. A service process
that has exited stutters explicitly (`Exited`), so `shutdown` finds any other stop.

**Fairness.** `webhook_liveness` and `webhook_retry` assume that a handler that has
started goes on (a goroutine is not descheduled for ever), and that HighLevel
resends an event that was not answered 2xx, and that not every answer is lost.
Nothing is assumed of installs and uninstalls: the property is conditional on
a location that keeps an integration, not always the same one. `correlation` assumes only that started handlers go on.
`shutdown` assumes that the goroutines of the process go on, that a drain ends by
itself or by its 5 seconds, and that a unary RPC that is running ends (a handler is a
few statements and calls without a loop; calls to HighLevel time out after 10
seconds, and of the database it is assumed that it answers); it assumes nothing of
HTTP requests, streams, signals, or failures. That no stream is held open for ever is a
premise of `ShutdownTerminates`, not of the specification; `FailureIsAnnounced` does
without it.

**Mutants.** Every property of a passing run has a mutant, the definition it
replaces and its plausible mistake: a state consumable twice, a lookup that
forgets the client, an upsert that blanks the key, a key check that only
compares locations, a failure acknowledged with 200, a DELETE whose row count is
not looked at, an UPDATE turned upsert, a token response used twice, a drain without
a deadline and so on. TLC must find the property violated.

## 4. What is proved

TLAPS proves, for all values of the constants that satisfy the named assumptions
(`ConstantsAssumption`, `LedgerAssumption`, `ProviderAssumption` and their like in
the other modules: typing of the parameter functions, and `None` distinct from
everything):

`InstallationProofs`

- `TypeCorrect`: `TypeOK`, which includes what a request must hold at each
  control point; without it the other invariants are not inductive.
- `RedeemedOnce`: from `ConsumedStates`, a state with a redeemer is consumed or
  deleted, so the conditional UPDATE cannot succeed again.
- `InstalledOnce`: from `StoredTokens`, a callback that got past its INSERT into
  `oauth_tokens` left its row there until the integration was deleted, and the
  primary key refuses a second.
- `RevocationSettles` (an action property): only Reconnect and Sync write a live
  status over an existing row without looking, and the property lets only
  requests that had already read the row do so.
- `ActiveExplained`: an ACTIVE integration without tokens is covered by a
  callback between activation and INSERT, by one that failed there, or by a
  Sync that read it ACTIVE.
- `KeysStay` (an action property), from `KeysConfigured`: a row without a
  location has no key, and a registration has a location to write, so the only
  statement that writes a blank key finds no key to blank.

`InstallationOwnersProofs`, about who owns what

- `OnePerPair`: the INSERT's unique constraint alone; the lookups before it play
  no part in the proof.
- `CredentialsStay`, from `BearersBound`, `TokensOwned` and `RequestsClaimed`. `BearersBound` is what a
  callback carries from one statement to the next: nobody's owner until it is
  bound, the owner of the state it consumed, and the owner of the row it is
  about to store tokens for, even if that row is deleted under it, because ids are
  not drawn again. `TokensOwned` keeps the callback that stored the tokens as their
  witness. `RowsClaimed` and `RequestsClaimed` follow a location: every row it leads to,
  by account or by config, is of a client that named it, and so is every row a request
  has been led to. Each needs the other, as an INSTALL event writes the location it was
  led by into the config of the row it was led to.
- `CodesInstallOnce` and `StatelessNeverInstalls`, from `ExchangesCounted`: a
  callback past an exchange of its code is counted, two callbacks past theirs with
  one code are counted twice, and so is the callback without a state, once to
  resolve the location and once in ProcessCallback. With `TokensOwned`, two
  integrations with tokens of one code were installed by two such callbacks; with
  `SingleUseCodes`, no count exceeds one.
- `InstallationImplementsAuthorization`: each group of actions maps to one action
  of `Authorization` or to a stutter (`InstallStep`, `RedeemStep`, `AdoptStep`,
  `AuthorizeStep` and so on). It needs `OwnersKnown` too: rows, issued states and
  requests about to create either have a client and a platform, so that a
  deleted client takes no state with it that was never issued.

`WebhookDeliveryProofs`

- `WebhookTypeCorrect`, `WebhookHandledOnce` (a handled event is recorded as long
  as its integration lives) and `WebhookAcknowledgedIsProcessed` (a 200 on its way
  belongs to a completed event; nothing takes a config away but the end of its
  integration).

`PaymentProviderProofs`, with the inductive invariant `ProviderInv`

- `ChargedOnce`. Uniqueness in `webhook_events` is per integration, and
  uninstalling deletes the rows, so it does not suffice. The argument goes through
  the key: a key is drawn once and belongs to one integration (`KeysAreOwned`);
  a delivery that was let in by a key pins it to its integration for ever
  (`KeysAreSpent`), so all admitted deliveries of an event have one target
  (`OneTarget`); the record of the event stays with that target until the target
  is gone (`RecordsLast`), and then nothing can be recorded for it.
- `AcknowledgedIsRecorded` and `CorrelationStays`: between lookup and update the
  deposit keeps the transaction it was found by, because only a deposit with NULL
  columns is backfilled and a correlated one has none
  (`CorrelationIsBackfilled`, `DeliveryControl`).
- `VerdictsStand`: a settled deposit stays settled, whoever else writes it.
- `TenantsKept`: merchants and customers are only ever added, so the customer
  read in one statement is still the tenant's in the next (`TenantInv`).
- `TypeCorrect`. Not inductive alone: recording an event needs `DeliveryControl`
  and `KeysAreSpent` for the pair to be one of an integration and an event.

`DepositMove`, `Admits`, `Records` and `ClientsMove` summarise what any step may do
to a deposit, a delivery or the configs; each invariant is proved from these
summaries, not from the actions.

`WebhookImplementsEventLog` and `PaymentsImplementEventLog`: every step of either
module is a step of `EventLog` or leaves its variables alone. The first rests on
`HandledOnce` (who gets past the INSERT is the first ever), the second on the
argument of `ChargedOnce`.

`PaymentBookProofs`

- `ServicesImplementDepositBook`: one lemma per kind of step. `InsertBooks` rests on
  `TenantInv` (the customer read one statement earlier is still there),
  `BackfillCorrelates` on `CorrelationIsBackfilled` (a deposit with NULL columns has
  no transaction yet), `WebhookReports` on the record being kept by its delivery,
  `UpdateCharges` on `DeliveryControl` and on `CaptureInHand` (what is about to be
  written is a recorded capture of the deposit's own transaction), `QueryTells` on
  `VerdictIsLast` (a query is answered once).
- `ServicesKeepTheBook`: what follows from the book alone, by the inductive invariant
  `Promises` over its seven actions, holds of the services. It says across both
  services, and without mentioning a statement of either, that a deposit has its
  account, that a charge was reported for the deposit's own transaction, and that
  what a query was told is so.

`ClientRegistryProofs`, with the inductive invariant `IInv`

- `NamesakesFromOverlap`: what a CreateClient saw before its INSERT is kept in
  `known`; `LookupsHold` says that none of the clients in it has the name it is about
  to insert.
- `StatusFollowsDecisions`: a stale status is in the hands of an UpdateClient that was
  in flight at the last decision.
- `OneDeletion`, `DeletionIsFinal`, `RegistryTypeOK`: a deleted row is never matched by
  a later UPDATE or DELETE, and the foreign key keeps clients with integrations.

`TokenRefreshProofs`. `StoresCurrent` is the heart: a token about to be stored is the
current one, newer than the row and than any token about to be used. Hence one
call at most has one for an integration, and it is HighLevel's rotation alone that
keeps refreshes apart. `CurrentTokenKept`, `SuccessSticks`, `LossIsForGood` and
`RefreshTypeOK` follow. `RefreshImplementsTokenCustody`: an integration's custody is
computed from its status, its row and the calls in flight (`Custody`), so one step of
a call may change it or leave it to another call that holds the token; the lemmas
from `CustodyKnown` to `KeeperStep` say which, and every step then is one action of
`TokenCustody` or a stutter.

`ServiceLifecycleProofs`. `CleanExit` needs the order of the shutdown
(`ShutdownOrder`): HTTP drained, then gRPC, and only a drained gRPC server lets
`run` return. `NoFailureIsLost` needs `Returned` and `ReturnsOk`: a failure is in the
channel or its goroutine has not returned yet, and `run` waits for both; the drain
timeout, which the WaitGroup does not cover, comes before GracefulStop and so
before Serve returns. A request that arrives late (`Open`) meets neither a clean
exit nor a drained server. `Quiet` and `Alone` say what cannot have happened before
the servers run. `ShutdownNeverStuck` and `StepsCount` are the safety half of
`ShutdownTerminates`, for any number of requests: after a signal or a failure some
goroutine can go on or a unary RPC or stream is still running in GracefulStop (`StopIsAnnounced`: an
error and every point of the shutdown past its first imply a cancelled context), and
each step of a goroutine lowers `Ahead`, which nothing raises. That goroutines which
can go on do so, that unary RPCs end, and what follows when streams do, stays with TLC.

**Only model-checked**: the three liveness properties (`InstallEventuallyProcessed`,
`ShutdownTerminates`, `FailureIsAnnounced`), which rest on fairness and `ENABLED` and
are beyond the prover. Every other property of a passing run is proved. The
strengthenings (`ExchangesCounted`, `CaptureInHand`, `VerdictIsLast` and those the
modules list last) were checked by TLC on the same instances before they were
proved.

## 5. What is not modelled

- RPCs that change nothing: ValidateToken, GetIntegration and the other Get and List
  handlers, pagination included.
- Amounts and currencies. An accepted amount may round to 0.00 in NUMERIC(18,2):
  what a deposit is booked with takes part in no decision of the code.
- `RegisterWebhook` stores a subscription under its endpoint while delivery looks
  it up under the blank endpoint; both are modelled, no property is stated, since
  no transport calls RegisterWebhook yet.
- Nothing in the repository calls RefreshAccessToken yet
  (`clients/docs/oauth-review.md:138`); `TokenRefresh` lets any number of callers do so.
- Writes that commit and whose answer is lost, in `TokenRefresh`, `ClientRegistry` and
  the token INSERT of `Installation`: the handler reports a failure although the write
  is there. In payments they are modelled (`ProcessUpdate`), since there a retry follows.
- A 200 of HighLevel's token endpoint without a refresh token: by HighLevel's contract
  it has one. RefreshToken (`clients/providers/highlevel.go:229-250`) does not check,
  and the blank would be stored (`clients/oauth/service.go:565`).
- A settled deposit that is settled again. `Settle` assumes the lifecycle of
  `docs/transactions-deposits-review.md:105-116` of its future caller, and
  `VerdictStands` rests on it: the UPDATEs (`transactions/db/query/deposits.sql:52-74`)
  do not look at the status.
- A configuration that HighLevel answers for another location than it was asked for
  (`clients/oauth/service.go:492`).
- Signatures, encryption, HTTP and JSON, logging, metrics: data without control.
- The older services `deposits/` and `integrations/`: reference code
  (`agents/platform/05-ci-cd.md:985`). Their handlers are single statements, or one
  INSERT followed by one call, and never meet in a row. Their process is the one
  `ServiceLifecycle` models.
- Generated code. About two thirds of the repository's Go lines are generated
  from the protobuf files and SQL queries, or are mocks; the models stand for the
  hand-written rest, and for the SQL the generated code carries.

## 6. Plan

Done: the seven component modules, the four abstract ones, their refinements and
the theorems above. What could follow:

1. `Money`: parsing, rounding and limits of amounts against reference definitions.
2. A client of RefreshAccessToken, once the code has one, composed with
   `TokenRefresh`.
