--------------------------- MODULE WebhookDelivery ---------------------------
(***************************************************************************)
(* Delivery of HighLevel webhooks: POST /webhooks/highlevel, the           *)
(* ProcessWebhook it calls, and the dispatcher.                            *)
(*                                                                         *)
(* HighLevel delivers an event at least once: it sends it again until it   *)
(* is answered 2xx, an answer may be lost, and deliveries of one event may *)
(* overlap.  A delivery is a goroutine that issues one SQL statement at a  *)
(* time, with no transaction around them: the row in webhook_events that   *)
(* detects duplicates is committed before the event is processed.          *)
(* Integrations are installed and uninstalled meanwhile (that side is the  *)
(* subject of Installation).                                               *)
(***************************************************************************)
EXTENDS Naturals

CONSTANTS
    Ids,         \* integration UUIDs
    Locations,   \* HighLevel location ids
    AccountOf,   \* integrations.external_account_id, None when blank
    Events,      \* webhookIds of the events HighLevel sends
    Installs,    \* the INSTALL events; for every other type Dispatch only logs
    Valid,       \* events whose requests verify and parse
    LocationOf,  \* locationId of an event, None when blank
    Endpoints,   \* callback URLs; Blank among them is ""
    Blank,
    Deliveries,  \* slots for deliveries in flight at the same time
    FailAt,      \* control points at which a delivery may fail
    MaxFailures, \* bound on the failures of one behaviour
    None

ControlPoints ==
    {"idle", "received", "resolve_account", "resolve_config", "record",
     "dispatch_account", "dispatch_config", "dispatch_id", "dispatch_create",
     "subscription", "last_delivery", "answered"}

ASSUME ConstantsAssumption ==
    /\ AccountOf \in [Ids -> Locations \cup {None}]
    /\ LocationOf \in [Events -> Locations \cup {None}]
    /\ Installs \subseteq Events /\ Valid \subseteq Events
    /\ Blank \in Endpoints
    /\ FailAt \subseteq ControlPoints \ {"idle", "answered"}
    /\ MaxFailures \in Nat
    /\ None \notin Ids \cup Locations \cup Events \cup Endpoints \cup (Ids \X Events)

VARIABLES
    status,       \* integrations.status, "NONE" before and "DELETED" after
    config,       \* payment_provider_configs.location_id, None: no row
    recorded,     \* webhook_events: <<integration_id, provider_event_id>>
    subscription, \* webhook_subscriptions: <<integration_id, endpoint>>
    delivery,     \* the deliveries in flight
    admin,        \* a RegisterWebhook or UnregisterWebhook call in flight
    acked,        \* events HighLevel has seen answered 2xx
    handled,      \* history: deliveries that got past the duplicate check
    completed,    \* history: <<i, e>>, e processed to its end, for i
    failures      \* failures so far

rows == <<status, config, recorded, subscription>>
vars == <<rows, delivery, admin, acked, handled, completed, failures>>

-------------------------------------------------------------------------------
(* Types *)

Codes == {"OK", "InvalidArgument", "NotFound", "FailedPrecondition",
          "AlreadyExists", "Internal", "Unknown"}

Delivery == [pc     : ControlPoints,
             event  : Events \cup {None},
             id     : Ids \cup {None},   \* the integration it is recorded for
             target : Ids \cup {None},   \* the one the dispatcher resolved
             code   : Codes]             \* gRPC code of the error returned

Idle == [pc |-> "idle", event |-> None, id |-> None, target |-> None,
         code |-> "OK"]

AdminPoints == {"idle", "register_create", "unregister_integration",
                "unregister_delete"}
Admin == [pc       : AdminPoints,
          id       : Ids \cup {None},
          endpoint : Endpoints \cup {None}]

IdleAdmin == [pc |-> "idle", id |-> None, endpoint |-> None]

Exists(i) == status[i] \in {"CREATED", "ACTIVE"}

\* What a delivery holds at its control point.
WellFormed(q) ==
    /\ q.pc # "idle" => q.event \in Events
    /\ q.pc \notin {"idle", "received", "answered"} =>
         LocationOf[q.event] \in Locations
    /\ q.pc \in {"record", "dispatch_account", "dispatch_config",
                 "dispatch_id", "dispatch_create", "subscription",
                 "last_delivery"} => q.id \in Ids
    /\ q.pc \in {"dispatch_id", "dispatch_create"} => q.target \in Ids
    /\ q.pc \in {"subscription", "last_delivery"} => q.event \notin Installs

RowsOK ==
    /\ status \in [Ids -> {"NONE", "CREATED", "ACTIVE", "DELETED"}]
    /\ config \in [Ids -> Locations \cup {None}]
    /\ recorded \subseteq Ids \X Events
    /\ subscription \subseteq Ids \X Endpoints
ForeignKeysOK ==
    \A i \in Ids : ~ Exists(i) =>
         /\ config[i] = None
         /\ \A e \in Events : <<i, e>> \notin recorded
         /\ \A u \in Endpoints : <<i, u>> \notin subscription
DeliveriesOK ==
    /\ delivery \in [Deliveries -> Delivery]
    /\ \A d \in Deliveries : WellFormed(delivery[d])
AdminOK ==
    /\ admin \in Admin
    /\ admin.pc # "idle" => admin.id \in Ids /\ admin.endpoint \in Endpoints
HistoryOK ==
    /\ acked \subseteq Events
    /\ handled \in [Ids -> [Events -> Nat]]
    /\ completed \subseteq Ids \X Events
    /\ failures \in Nat

\* Every row has the shape the schema gives it, its foreign key included: no
\* event, subscription or config outlives the integration it refers to; and a
\* delivery holds what the code at its control point uses.
TypeOK == RowsOK /\ ForeignKeysOK /\ DeliveriesOK /\ AdminOK /\ HistoryOK

Init ==
    /\ status = [i \in Ids |-> "NONE"]
    /\ config = [i \in Ids |-> None]
    /\ recorded = {}
    /\ subscription = {}
    /\ delivery = [d \in Deliveries |-> Idle]
    /\ admin = IdleAdmin
    /\ acked = {}
    /\ handled = [i \in Ids |-> [e \in Events |-> 0]]
    /\ completed = {}
    /\ failures = 0

-------------------------------------------------------------------------------
(* Control of a delivery *)

At(d, pc) == delivery[d].pc = pc
EventAt(d) == delivery[d].event
LocationAt(d) == LocationOf[EventAt(d)]

Goto(d, pc) == delivery' = [delivery EXCEPT ![d].pc = pc]
Return(d, code) ==
    delivery' = [delivery EXCEPT ![d].pc = "answered", ![d].code = code]

\* writeWebhookError, and the 200 of the handler itself.
HTTPStatus(code) ==
    CASE code \in {"OK", "AlreadyExists"} -> 200
      [] code \in {"InvalidArgument", "FailedPrecondition"} -> 400
      [] code = "NotFound" -> 404
      [] OTHER -> 500

HistoryUnchanged == UNCHANGED <<acked, handled, completed, failures>>

-------------------------------------------------------------------------------
(* HighLevel *)

\* A delivery or redelivery of e reaches the handler.
Send(d, e) ==
    /\ At(d, "idle")
    /\ delivery' = [delivery EXCEPT ![d] = [Idle EXCEPT !.pc = "received",
                                                        !.event = e]]
    /\ UNCHANGED <<rows, admin>> /\ HistoryUnchanged

\* The handler's answer arrives, or is lost.
Answer(d) ==
    /\ At(d, "answered")
    /\ delivery' = [delivery EXCEPT ![d] = Idle]
    /\ \/ /\ HTTPStatus(delivery[d].code) = 200
          /\ acked' = acked \cup {EventAt(d)}
       \/ acked' = acked
    /\ UNCHANGED <<rows, admin, handled, completed, failures>>

-------------------------------------------------------------------------------
(* ProcessWebhook *)

\* VerifyRequest and ParseEvent accept the request.
Accepted(e) == e \in Valid

\* The choice of how to resolve the integration.
\* Without a locationId the appId would have to be an integration's UUID.  It is
\* HighLevel's id of the application, in another format, so that branch always
\* ends in ErrInvalidPayload.
Receive(d) ==
    /\ At(d, "received")
    /\ \/ /\ ~ Accepted(EventAt(d)) \/ LocationAt(d) = None
          /\ Return(d, "InvalidArgument")
       \/ /\ Accepted(EventAt(d)) /\ LocationAt(d) # None
          /\ Goto(d, IF EventAt(d) \in Installs THEN "resolve_account"
                                                ELSE "resolve_config")
    /\ UNCHANGED <<rows, admin>> /\ HistoryUnchanged

\* Neither column is unique and neither query is ordered: any match may come.
AccountsAt(l) == {i \in Ids : Exists(i) /\ AccountOf[i] = l}
ConfigsAt(l) == {i \in Ids : config[i] = l}

ResolveAccount(d) ==
    /\ At(d, "resolve_account")
    /\ \/ \E i \in AccountsAt(LocationAt(d)) :
            delivery' = [delivery EXCEPT ![d].pc = "record", ![d].id = i]
       \/ AccountsAt(LocationAt(d)) = {} /\ Goto(d, "resolve_config")
    /\ UNCHANGED <<rows, admin>> /\ HistoryUnchanged

ResolveConfig(d) ==
    /\ At(d, "resolve_config")
    /\ \/ \E i \in ConfigsAt(LocationAt(d)) :
            delivery' = [delivery EXCEPT ![d].pc = "record", ![d].id = i]
       \/ ConfigsAt(LocationAt(d)) = {} /\ Return(d, "NotFound")
    /\ UNCHANGED <<rows, admin>> /\ HistoryUnchanged

\* Mutant: the INSERT does not notice the row that is there already.
RecordableAgain(i, e) == Exists(i)

\* INSERT INTO webhook_events ... ON CONFLICT DO NOTHING RETURNING *.
Recordable(i, e) == Exists(i) /\ <<i, e>> \notin recorded

\* Mutant: Create reports ErrDuplicate, as its comment says.
ReportedDuplicate == "AlreadyExists"

\* With a conflict the statement returns no row.  wrapError passes the
\* resulting pgx.ErrNoRows through, so Create does not return ErrDuplicate and
\* translateError makes it Internal.
DuplicateCode == "Internal"

Record(d) ==
    /\ At(d, "record")
    /\ LET i == delivery[d].id
           e == EventAt(d)
       IN \/ /\ Recordable(i, e)
             /\ recorded' = recorded \cup {<<i, e>>}
             /\ handled' = [handled EXCEPT ![i][e] = @ + 1]
             /\ Goto(d, IF e \in Installs THEN "dispatch_account"
                                          ELSE "subscription")
          \/ /\ ~ Recordable(i, e)
             /\ Return(d, IF Exists(i) THEN DuplicateCode
                                       ELSE "FailedPrecondition")
             /\ UNCHANGED <<recorded, handled>>
    /\ UNCHANGED <<status, config, subscription, admin, acked, completed,
                   failures>>

\* Events of the other types need a subscription, looked up with endpoint "".
Subscription(d) ==
    /\ At(d, "subscription")
    /\ IF <<delivery[d].id, Blank>> \in subscription
       THEN Goto(d, "last_delivery") ELSE Return(d, "NotFound")
    /\ UNCHANGED <<rows, admin>> /\ HistoryUnchanged

\* UpdateLastDelivery, then Dispatch, which only logs the event.
LastDelivery(d) ==
    /\ At(d, "last_delivery")
    /\ IF <<delivery[d].id, Blank>> \in subscription
       THEN /\ Return(d, "OK")
            /\ completed' = completed \cup {<<delivery[d].id, EventAt(d)>>}
       ELSE Return(d, "NotFound") /\ UNCHANGED completed
    /\ UNCHANGED <<rows, admin, acked, handled, failures>>

-------------------------------------------------------------------------------
(* handleIntegrationInstalled resolves the location once more.  Its errors   *)
(* carry no gRPC code: status.Code is Unknown.                               *)

DispatchAccount(d) ==
    /\ At(d, "dispatch_account")
    /\ \/ \E i \in AccountsAt(LocationAt(d)) :
            delivery' = [delivery EXCEPT ![d].pc = "dispatch_create",
                                         ![d].target = i]
       \/ AccountsAt(LocationAt(d)) = {} /\ Goto(d, "dispatch_config")
    /\ UNCHANGED <<rows, admin>> /\ HistoryUnchanged

DispatchConfig(d) ==
    /\ At(d, "dispatch_config")
    /\ \/ \E i \in ConfigsAt(LocationAt(d)) :
            delivery' = [delivery EXCEPT ![d].pc = "dispatch_id",
                                         ![d].target = i]
       \/ ConfigsAt(LocationAt(d)) = {} /\ Return(d, "Unknown")
    /\ UNCHANGED <<rows, admin>> /\ HistoryUnchanged

DispatchID(d) ==
    /\ At(d, "dispatch_id")
    /\ IF Exists(delivery[d].target)
       THEN Goto(d, "dispatch_create") ELSE Return(d, "Unknown")
    /\ UNCHANGED <<rows, admin>> /\ HistoryUnchanged

\* Mutant: a config that exists already is an error.
DispatchCreateOnly(d) ==
    /\ At(d, "dispatch_create")
    /\ LET i == delivery[d].target
       IN IF Exists(i) /\ config[i] = None
          THEN /\ config' = [config EXCEPT ![i] = LocationAt(d)]
               /\ completed' = completed \cup {<<i, EventAt(d)>>}
               /\ Return(d, "OK")
          ELSE UNCHANGED <<config, completed>> /\ Return(d, "Unknown")
    /\ UNCHANGED <<status, recorded, subscription, admin, acked, handled,
                   failures>>

\* GetByIntegrationID and Create in one step: a config that appears between
\* the two makes Create answer ErrDuplicate, which counts as found.
DispatchCreate(d) ==
    /\ At(d, "dispatch_create")
    /\ LET i == delivery[d].target
       IN IF Exists(i)
          THEN /\ config' = [config EXCEPT
                               ![i] = IF @ = None THEN LocationAt(d) ELSE @]
               /\ completed' = completed \cup {<<i, EventAt(d)>>}
               /\ Return(d, "OK")
          ELSE UNCHANGED <<config, completed>> /\ Return(d, "Unknown")
    /\ UNCHANGED <<status, recorded, subscription, admin, acked, handled,
                   failures>>

-------------------------------------------------------------------------------
(* A statement fails, the request's context is cancelled, or the process is  *)
(* killed.                                                                   *)

Fail(d) ==
    /\ delivery[d].pc \in FailAt
    /\ failures < MaxFailures
    /\ failures' = failures + 1
    /\ Return(d, "Internal")
    /\ UNCHANGED <<rows, admin, acked, handled, completed>>

-------------------------------------------------------------------------------
(* RegisterWebhook and UnregisterWebhook *)

\* GetByID and the check of the status, which is not made again by Create.
RegisterWebhook(i, u) ==
    /\ admin.pc = "idle"
    /\ status[i] = "ACTIVE"
    /\ admin' = [pc |-> "register_create", id |-> i, endpoint |-> u]
    /\ UNCHANGED <<rows, delivery>> /\ HistoryUnchanged

RegisterCreate ==
    /\ admin.pc = "register_create"
    /\ subscription' = IF Exists(admin.id)
                       THEN subscription \cup {<<admin.id, admin.endpoint>>}
                       ELSE subscription
    /\ admin' = IdleAdmin
    /\ UNCHANGED <<status, config, recorded, delivery>> /\ HistoryUnchanged

UnregisterWebhook(i) ==
    /\ admin.pc = "idle"
    /\ <<i, Blank>> \in subscription
    /\ admin' = [pc |-> "unregister_integration", id |-> i, endpoint |-> Blank]
    /\ UNCHANGED <<rows, delivery>> /\ HistoryUnchanged

UnregisterIntegration ==
    /\ admin.pc = "unregister_integration"
    /\ admin' = IF Exists(admin.id) THEN [admin EXCEPT !.pc = "unregister_delete"]
                                    ELSE IdleAdmin
    /\ UNCHANGED <<rows, delivery>> /\ HistoryUnchanged

UnregisterDelete ==
    /\ admin.pc = "unregister_delete"
    /\ subscription' = subscription \ {<<admin.id, admin.endpoint>>}
    /\ admin' = IdleAdmin
    /\ UNCHANGED <<status, config, recorded, delivery>> /\ HistoryUnchanged

-------------------------------------------------------------------------------
(* The rest of the service, as far as it touches these rows *)

\* InstallIntegration's INSERT.
Provision(i) ==
    /\ status[i] = "NONE"
    /\ status' = [status EXCEPT ![i] = "CREATED"]
    /\ UNCHANGED <<config, recorded, subscription, delivery, admin>>
    /\ HistoryUnchanged

\* ProcessCallback's activation of the row.  ACTIVE stands for REVOKED as well, which
\* DisconnectIntegration makes of it: only RegisterWebhook looks at the status, and
\* it need not be called.
Activate(i) ==
    /\ status[i] = "CREATED"
    /\ status' = [status EXCEPT ![i] = "ACTIVE"]
    /\ UNCHANGED <<config, recorded, subscription, delivery, admin>>
    /\ HistoryUnchanged

\* RegisterProvider's upsert of the config.
RegisterProvider(i, l) ==
    /\ status[i] = "ACTIVE"
    /\ config[i] # l
    /\ config' = [config EXCEPT ![i] = l]
    /\ UNCHANGED <<status, recorded, subscription, delivery, admin>>
    /\ HistoryUnchanged

\* Mutant: the events of a deleted integration stay.
UninstallKeepsEvents(i) ==
    /\ Exists(i)
    /\ status' = [status EXCEPT ![i] = "DELETED"]
    /\ config' = [config EXCEPT ![i] = None]
    /\ subscription' = {s \in subscription : s[1] # i}
    /\ UNCHANGED <<recorded, delivery, admin>> /\ HistoryUnchanged

\* UninstallIntegration's DELETE, with its cascades.
Uninstall(i) ==
    /\ Exists(i)
    /\ status' = [status EXCEPT ![i] = "DELETED"]
    /\ config' = [config EXCEPT ![i] = None]
    /\ recorded' = {x \in recorded : x[1] # i}
    /\ subscription' = {s \in subscription : s[1] # i}
    /\ UNCHANGED <<delivery, admin>> /\ HistoryUnchanged

-------------------------------------------------------------------------------
Process(d) ==
    \/ Receive(d) \/ ResolveAccount(d) \/ ResolveConfig(d) \/ Record(d)
    \/ Subscription(d) \/ LastDelivery(d)
    \/ DispatchAccount(d) \/ DispatchConfig(d) \/ DispatchID(d)
    \/ DispatchCreate(d)

Administer ==
    \/ \E i \in Ids, u \in Endpoints : RegisterWebhook(i, u)
    \/ \E i \in Ids : UnregisterWebhook(i)
    \/ RegisterCreate \/ UnregisterIntegration \/ UnregisterDelete

Installation ==
    \/ \E i \in Ids : Provision(i) \/ Activate(i) \/ Uninstall(i)
    \/ \E i \in Ids, l \in Locations : RegisterProvider(i, l)

Next ==
    \/ \E d \in Deliveries, e \in Events : Send(d, e)
    \/ \E d \in Deliveries : Answer(d) \/ Process(d) \/ Fail(d)
    \/ Administer
    \/ Installation

Spec == Init /\ [][Next]_vars

\* The runtime schedules every goroutine and the server writes an answer to
\* every request.  HighLevel sends an event again while it has seen no 2xx for
\* it: strong fairness, as the slots limit the model, not the server.
Fairness ==
    /\ \A d \in Deliveries : WF_vars(Process(d)) /\ WF_vars(Answer(d))
    /\ \A e \in Events :
         SF_vars(e \notin acked /\ \E d \in Deliveries : Send(d, e))

FairSpec == Spec /\ Fairness

-------------------------------------------------------------------------------
(* Correctness *)

\* However deliveries of one event overlap or repeat, at most one of them gets
\* past ProcessWebhook's duplicate check for a given integration: the unique
\* constraint on webhook_events decides, not the order of the reads.
HandledOnce ==
    \A i \in Ids, e \in Events : handled[i][e] <= 1

\* The event's effect for i is in place.
Effective(i, e) == /\ <<i, e>> \in completed
                   /\ e \in Installs => config[i] # None \/ status[i] = "DELETED"

\* An event answered 2xx is one HighLevel forgets.  It was processed to its
\* end, and an INSTALL left its integration with a provider config: a failure
\* after the event was recorded is never covered up by the answer to a
\* redelivery (ProcessWebhook, writeWebhookError).
AcknowledgedIsProcessed ==
    \A e \in acked : \E i \in Ids : Effective(i, e)

\* The dispatcher has resolved the location of e to another integration than the
\* one the event was recorded for, and that one was uninstalled under it.
Misdirected(e) ==
    \E d \in Deliveries :
        /\ At(d, "answered") /\ EventAt(d) = e /\ delivery[d].code = "Unknown"
        /\ delivery[d].target \in Ids \ {delivery[d].id}
        /\ status[delivery[d].target] = "DELETED"

\* As long as deliveries fail only before the event is recorded, redelivery
\* gets an INSTALL processed whose location belongs to an integration that
\* stays.  ProcessWebhook and the dispatcher resolve the location separately, so
\* there is one way to lose it, and only with several integrations at the
\* location: one records the event, the other is uninstalled during its dispatch.
InstallEventuallyProcessed ==
    \A e \in Installs \cap Valid :
        <>[](LocationOf[e] # None /\ AccountsAt(LocationOf[e]) # {})
            => <>((\E i \in Ids : <<i, e>> \in completed) \/ Misdirected(e))

\* The job of a delivery in state q: what it took up, from the INSERT of the
\* event until the 200 it ends with is written, or an error is.
JobOf(q) ==
    IF \/ q.pc \in {"dispatch_account", "dispatch_config", "dispatch_id",
                    "dispatch_create", "subscription", "last_delivery"}
       \/ q.pc = "answered" /\ HTTPStatus(q.code) = 200
    THEN <<q.id, q.event>> ELSE None

Taken == {j \in Ids \X Events : handled[j[1]][j[2]] # 0}
Working == [d \in Deliveries |-> JobOf(delivery[d])]

Log == INSTANCE EventLog WITH
    Jobs <- Ids \X Events, Subject <- [j \in Ids \X Events |-> j[2]],
    taken <- Taken, working <- Working, confirmed <- acked

\* The endpoint is an EventLog: HighLevel is told 2xx by the one delivery that
\* recorded the event, and by no duplicate or late delivery of it, so that an
\* event can only be forgotten by HighLevel when its processing has ended.
ImplementsEventLog == Log!Spec

(* What the documentation says, and the code does not do. *)

\* clients/docs/webhook-review.md: processing is retry-safe, and errors are
\* returned so that the event is delivered again, wherever the delivery failed.
RetriedUntilProcessed == InstallEventuallyProcessed

\* clients/README.md, webhook_handler.go: duplicates are acknowledged with 200.
DuplicatesAcknowledged ==
    [][\A d \in Deliveries :
         /\ At(d, "record") /\ <<delivery[d].id, EventAt(d)>> \in recorded
         /\ delivery'[d].pc = "answered"
         => HTTPStatus(delivery'[d].code) = 200]_vars

-------------------------------------------------------------------------------
(* The inductive invariant behind the theorems of WebhookDeliveryProofs *)

\* The row that records a handled event stays as long as its integration.
HandledIsRecorded ==
    \A i \in Ids, e \in Events : handled[i][e] # 0 =>
        /\ handled[i][e] = 1
        /\ <<i, e>> \in recorded \/ status[i] = "DELETED"

\* Nothing removes a config but the end of its integration.
CompletedConfigured ==
    \A i \in Ids, e \in Installs : <<i, e>> \in completed =>
        config[i] # None \/ status[i] = "DELETED"

\* A 200 on its way to HighLevel belongs to a completed event, recorded for
\* one of the integrations.
AnsweredCompleted ==
    \A d \in Deliveries :
        At(d, "answered") /\ HTTPStatus(delivery[d].code) = 200
            => /\ delivery[d].id \in Ids
               /\ \E i \in Ids : <<i, EventAt(d)>> \in completed

AckedCompleted == \A e \in acked : \E i \in Ids : <<i, e>> \in completed

IInv == TypeOK /\ HandledIsRecorded /\ CompletedConfigured
        /\ AnsweredCompleted /\ AckedCompleted
===============================================================================
