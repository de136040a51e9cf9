------------------------- MODULE WebhookDeliveryProofs -------------------------
(* What webhook delivery guarantees for every set of events, integrations    *)
(* and overlapping deliveries, and any failures.                             *)
EXTENDS WebhookDelivery, TLAPS

(* Steps of one delivery *)

\* The control points the proofs name, so that the set is expanded once.
LEMMA Points ==
    {"idle", "received", "resolve_account", "resolve_config", "record",
     "dispatch_account", "dispatch_config", "dispatch_id", "dispatch_create",
     "subscription", "last_delivery", "answered"} \subseteq ControlPoints
  BY DEF ControlPoints

\* A step of delivery d to a well-formed record keeps the deliveries typed.
LEMMA StepType ==
    ASSUME DeliveriesOK, NEW d \in Deliveries,
           NEW q \in Delivery, WellFormed(q),
           delivery' = [delivery EXCEPT ![d] = q]
    PROVE  DeliveriesOK'
<1>1. delivery' \in [Deliveries -> Delivery]
  BY DEF DeliveriesOK
<1>2. \A x \in Deliveries : WellFormed(delivery'[x])
  BY DEF DeliveriesOK
<1>. QED  BY <1>1, <1>2 DEF DeliveriesOK, WellFormed

\* Return is a typed step from any point but "idle".
LEMMA ReturnType ==
    ASSUME DeliveriesOK, NEW d \in Deliveries, NEW code \in Codes,
           ~ At(d, "idle"), Return(d, code)
    PROVE  DeliveriesOK'
<1>. DEFINE q == [delivery[d] EXCEPT !.pc = "answered", !.code = code]
<1>1. delivery[d] \in Delivery /\ delivery[d].event \in Events
  BY DEF DeliveriesOK, WellFormed, At
<1>2. q \in Delivery /\ q.pc = "answered" /\ q.event = delivery[d].event
  BY <1>1, Points DEF Delivery
<1>3. WellFormed(q)
  BY <1>1, <1>2 DEF WellFormed
<1>4. delivery' = [delivery EXCEPT ![d] = q]
  BY DEF Return, DeliveriesOK
<1>. HIDE DEF q
<1>. QED  BY <1>2, <1>3, <1>4, StepType

\* A delivery that goes on, past "received", has an event with a location; the
\* step sets the control point, the integration and the dispatcher's target.
LEMMA AdvanceType ==
    ASSUME DeliveriesOK, NEW d \in Deliveries, NEW pc \in ControlPoints,
           NEW i \in Ids \cup {None}, NEW t \in Ids \cup {None},
           ~ At(d, "idle"), LocationAt(d) \in Locations,
           pc \in {"record", "dispatch_account", "dispatch_config",
                   "dispatch_id", "dispatch_create", "subscription",
                   "last_delivery"} => i \in Ids,
           pc \in {"dispatch_id", "dispatch_create"} => t \in Ids,
           pc \in {"subscription", "last_delivery"} => EventAt(d) \notin Installs,
           delivery' = [delivery EXCEPT ![d] =
                          [@ EXCEPT !.pc = pc, !.id = i, !.target = t]]
    PROVE  DeliveriesOK'
<1>. DEFINE q == [delivery[d] EXCEPT !.pc = pc, !.id = i, !.target = t]
<1>1. delivery[d] \in Delivery /\ delivery[d].event \in Events
  BY DEF DeliveriesOK, WellFormed, At
<1>2. /\ q \in Delivery /\ q.pc = pc /\ q.event = delivery[d].event
      /\ q.id = i /\ q.target = t
  BY <1>1 DEF Delivery
<1>3. WellFormed(q)
  BY <1>1, <1>2 DEF WellFormed, LocationAt, EventAt
<1>4. delivery' = [delivery EXCEPT ![d] = q]
  BY DEF DeliveriesOK
<1>. HIDE DEF q
<1>. QED  BY <1>2, <1>3, <1>4, StepType

\* The same for a step that moves the control point only.
LEMMA GotoType ==
    ASSUME DeliveriesOK, NEW d \in Deliveries, NEW pc \in ControlPoints,
           ~ At(d, "idle"), LocationAt(d) \in Locations,
           pc \in {"record", "dispatch_account", "dispatch_config",
                   "dispatch_id", "dispatch_create", "subscription",
                   "last_delivery"} => delivery[d].id \in Ids,
           pc \in {"dispatch_id", "dispatch_create"} =>
             delivery[d].target \in Ids,
           pc \in {"subscription", "last_delivery"} => EventAt(d) \notin Installs,
           Goto(d, pc)
    PROVE  DeliveriesOK'
<1>. DEFINE i == delivery[d].id
            t == delivery[d].target
<1>1. delivery[d] \in Delivery
  BY DEF DeliveriesOK
<1>2. i \in Ids \cup {None} /\ t \in Ids \cup {None}
  BY <1>1 DEF Delivery
<1>3. delivery' = [delivery EXCEPT ![d] =
                     [@ EXCEPT !.pc = pc, !.id = i, !.target = t]]
  BY <1>1 DEF Goto, DeliveriesOK, Delivery
<1>. HIDE DEF i, t
<1>. QED  BY <1>2, <1>3, AdvanceType DEF i, t

\* Past "received" and before its answer, a delivery's event has a location.
LEMMA Located ==
    ASSUME DeliveriesOK, NEW d \in Deliveries,
           ~ At(d, "idle"), ~ At(d, "received"), ~ At(d, "answered")
    PROVE  LocationAt(d) \in Locations /\ EventAt(d) \in Events
  BY DEF DeliveriesOK, WellFormed, At, LocationAt, EventAt

-------------------------------------------------------------------------------
(* Type correctness *)

\* Receiving an event and resolving its integration keep the deliveries typed.
LEMMA ResolveType ==
    ASSUME TypeOK, NEW d \in Deliveries,
           Receive(d) \/ ResolveAccount(d) \/ ResolveConfig(d)
    PROVE  TypeOK'
<1>. USE DEF At
<1>0. /\ RowsOK /\ ForeignKeysOK /\ DeliveriesOK /\ AdminOK /\ HistoryOK
      /\ delivery[d] \in Delivery
  BY DEF TypeOK, DeliveriesOK
<1>1. CASE Receive(d)
  <2>1. EventAt(d) \in Events
    BY <1>0, <1>1 DEF Receive, DeliveriesOK, WellFormed, EventAt
  <2>2. ASSUME Return(d, "InvalidArgument") PROVE DeliveriesOK'
    BY <1>0, <1>1, <2>2, ReturnType DEF Receive, Codes
  <2>3. ASSUME LocationAt(d) # None,
               Goto(d, IF EventAt(d) \in Installs THEN "resolve_account"
                                                  ELSE "resolve_config")
        PROVE  DeliveriesOK'
    <3>1. LocationAt(d) \in Locations
      BY <2>1, <2>3, ConstantsAssumption DEF LocationAt
    <3>. QED  BY <1>0, <1>1, <2>3, <3>1, GotoType, Points DEF Receive
  <2>4. DeliveriesOK'
    BY <1>1, <2>2, <2>3 DEF Receive
  <2>. QED  BY <1>0, <1>1, <2>4 DEF Receive, TypeOK, rows, HistoryUnchanged,
              RowsOK, ForeignKeysOK, Exists, AdminOK, HistoryOK
<1>2. CASE ResolveAccount(d) \/ ResolveConfig(d)
  <2>1. LocationAt(d) \in Locations
    BY <1>0, <1>2, Located DEF ResolveAccount, ResolveConfig
  <2>2. ASSUME NEW i \in Ids,
               delivery' = [delivery EXCEPT ![d].pc = "record", ![d].id = i]
        PROVE  DeliveriesOK'
    <3>1. delivery[d].target \in Ids \cup {None}
      BY <1>0 DEF Delivery
    <3>2. delivery' = [delivery EXCEPT ![d] =
                         [@ EXCEPT !.pc = "record", !.id = i,
                                   !.target = delivery[d].target]]
      BY <1>0, <2>2 DEF DeliveriesOK, Delivery
    <3>. QED  BY <1>0, <1>2, <2>1, <3>1, <3>2, AdvanceType, Points
                 DEF ResolveAccount, ResolveConfig
  <2>3. ASSUME Goto(d, "resolve_config") PROVE DeliveriesOK'
    BY <1>0, <1>2, <2>1, <2>3, GotoType, Points
       DEF ResolveAccount, ResolveConfig
  <2>4. ASSUME Return(d, "NotFound") PROVE DeliveriesOK'
    BY <1>0, <1>2, <2>4, ReturnType DEF ResolveAccount, ResolveConfig, Codes
  <2>5. DeliveriesOK'
    BY <1>2, <2>2, <2>3, <2>4
       DEF ResolveAccount, ResolveConfig, AccountsAt, ConfigsAt
  <2>. QED  BY <1>0, <1>2, <2>5 DEF ResolveAccount, ResolveConfig, TypeOK, rows,
              HistoryUnchanged, RowsOK, ForeignKeysOK, Exists, AdminOK, HistoryOK
<1>. QED  BY <1>1, <1>2

\* Recording an event respects the schema of webhook_events.
LEMMA RecordType ==
    ASSUME TypeOK, NEW d \in Deliveries, Record(d)
    PROVE  TypeOK'
<1>. USE DEF At
<1>. DEFINE i == delivery[d].id
            e == EventAt(d)
<1>0. /\ RowsOK /\ ForeignKeysOK /\ DeliveriesOK /\ AdminOK /\ HistoryOK
      /\ i \in Ids /\ e \in Events /\ LocationAt(d) \in Locations
      /\ delivery[d].pc = "record"
  BY Located DEF TypeOK, Record, DeliveriesOK, WellFormed
<1>1. CASE /\ Recordable(i, e)
           /\ recorded' = recorded \cup {<<i, e>>}
           /\ handled' = [handled EXCEPT ![i][e] = @ + 1]
           /\ Goto(d, IF e \in Installs THEN "dispatch_account"
                                        ELSE "subscription")
  <2>1. DeliveriesOK'
    BY <1>0, <1>1, GotoType, Points
  <2>2. RowsOK'
    BY <1>0, <1>1 DEF Record, RowsOK
  <2>3. ForeignKeysOK'
    BY <1>0, <1>1 DEF Record, ForeignKeysOK, Recordable, Exists
  <2>4. handled' \in [Ids -> [Events -> Nat]]
    BY <1>0, <1>1 DEF HistoryOK
  <2>. QED  BY <1>0, <1>1, <2>1, <2>2, <2>3, <2>4
               DEF Record, TypeOK, AdminOK, HistoryOK
<1>2. CASE /\ Return(d, IF Exists(i) THEN DuplicateCode
                                     ELSE "FailedPrecondition")
           /\ UNCHANGED <<recorded, handled>>
  <2>1. DeliveriesOK'
    BY <1>0, <1>2, ReturnType DEF Codes, DuplicateCode
  <2>. QED  BY <1>0, <1>2, <2>1 DEF Record, TypeOK, RowsOK, ForeignKeysOK,
              Exists, AdminOK, HistoryOK
<1>. QED  BY <1>1, <1>2 DEF Record

\* The steps after the event is recorded.
LEMMA DispatchType ==
    ASSUME TypeOK, NEW d \in Deliveries,
           \/ Subscription(d) \/ LastDelivery(d) \/ DispatchAccount(d)
           \/ DispatchConfig(d) \/ DispatchID(d) \/ DispatchCreate(d)
    PROVE  TypeOK'
<1>. USE DEF At
<1>0. /\ RowsOK /\ ForeignKeysOK /\ DeliveriesOK /\ AdminOK /\ HistoryOK
      /\ delivery[d].id \in Ids /\ EventAt(d) \in Events
      /\ LocationAt(d) \in Locations /\ delivery[d] \in Delivery
      /\ delivery[d].pc # "idle"
  BY Located DEF TypeOK, DeliveriesOK, WellFormed, Subscription, LastDelivery,
     DispatchAccount, DispatchConfig, DispatchID, DispatchCreate
<1>1. CASE Subscription(d)
  <2>1. EventAt(d) \notin Installs
    BY <1>0, <1>1 DEF Subscription, DeliveriesOK, WellFormed, EventAt
  <2>2. DeliveriesOK'
    BY <1>0, <1>1, <2>1, GotoType, ReturnType, Points DEF Subscription, Codes
  <2>. QED  BY <1>0, <1>1, <2>2 DEF Subscription, TypeOK, rows, HistoryUnchanged,
              RowsOK, ForeignKeysOK, Exists, AdminOK, HistoryOK
<1>2. CASE LastDelivery(d)
  <2>1. DeliveriesOK'
    BY <1>0, <1>2, ReturnType DEF LastDelivery, Codes
  <2>2. completed' \subseteq Ids \X Events
    BY <1>0, <1>2 DEF LastDelivery, HistoryOK
  <2>. QED  BY <1>0, <1>2, <2>1, <2>2 DEF LastDelivery, TypeOK, rows,
              RowsOK, ForeignKeysOK, Exists, AdminOK, HistoryOK
<1>3. CASE DispatchAccount(d) \/ DispatchConfig(d)
  <2>1. ASSUME NEW t \in Ids, NEW pc \in {"dispatch_create", "dispatch_id"},
               delivery' = [delivery EXCEPT ![d].pc = pc, ![d].target = t]
        PROVE  DeliveriesOK'
    <3>1. delivery' = [delivery EXCEPT ![d] =
                         [@ EXCEPT !.pc = pc, !.id = delivery[d].id,
                                   !.target = t]]
      BY <1>0, <2>1 DEF DeliveriesOK, Delivery
    <3>. QED  BY <1>0, <3>1, AdvanceType, Points
  <2>2. DeliveriesOK'
    BY <1>0, <1>3, <2>1, GotoType, ReturnType, Points
       DEF DispatchAccount, DispatchConfig, AccountsAt, ConfigsAt, Codes
  <2>. QED  BY <1>0, <1>3, <2>2 DEF DispatchAccount, DispatchConfig, TypeOK, rows,
              HistoryUnchanged, RowsOK, ForeignKeysOK, Exists, AdminOK, HistoryOK
<1>4. CASE DispatchID(d)
  <2>1. delivery[d].target \in Ids
    BY <1>0, <1>4 DEF DispatchID, DeliveriesOK, WellFormed
  <2>2. DeliveriesOK'
    BY <1>0, <1>4, <2>1, GotoType, ReturnType, Points DEF DispatchID, Codes
  <2>. QED  BY <1>0, <1>4, <2>2 DEF DispatchID, TypeOK, rows, HistoryUnchanged,
              RowsOK, ForeignKeysOK, Exists, AdminOK, HistoryOK
<1>5. CASE DispatchCreate(d)
  <2>1. delivery[d].target \in Ids
    BY <1>0, <1>5 DEF DispatchCreate, DeliveriesOK, WellFormed
  <2>2. DeliveriesOK'
    BY <1>0, <1>5, ReturnType DEF DispatchCreate, Codes
  <2>3. RowsOK' /\ ForeignKeysOK'
    BY <1>0, <1>5, <2>1 DEF DispatchCreate, RowsOK, ForeignKeysOK, Exists
  <2>4. completed' \subseteq Ids \X Events
    BY <1>0, <1>5, <2>1 DEF DispatchCreate, HistoryOK
  <2>. QED  BY <1>0, <1>5, <2>2, <2>3, <2>4
               DEF DispatchCreate, TypeOK, AdminOK, HistoryOK
<1>. QED  BY <1>1, <1>2, <1>3, <1>4, <1>5

\* HighLevel's side of a delivery, and its failure.
LEMMA TransportType ==
    ASSUME TypeOK, NEW d \in Deliveries,
           (\E e \in Events : Send(d, e)) \/ Answer(d) \/ Fail(d)
    PROVE  TypeOK'
<1>. USE DEF At
<1>0. /\ RowsOK /\ ForeignKeysOK /\ DeliveriesOK /\ AdminOK /\ HistoryOK
  BY DEF TypeOK
<1>1. ASSUME NEW e \in Events, Send(d, e)
      PROVE  TypeOK'
  <2>. DEFINE q == [Idle EXCEPT !.pc = "received", !.event = e]
  <2>1. q \in Delivery /\ q.pc = "received" /\ q.event = e
    BY Points DEF Idle, Delivery, Codes
  <2>2. WellFormed(q)
    BY <2>1 DEF WellFormed
  <2>3. delivery' = [delivery EXCEPT ![d] = q]
    BY <1>1 DEF Send
  <2>. HIDE DEF q
  <2>4. DeliveriesOK'
    BY <1>0, <2>1, <2>2, <2>3, StepType
  <2>. QED  BY <1>0, <1>1, <2>4 DEF Send, TypeOK, rows, HistoryUnchanged, RowsOK,
              ForeignKeysOK, Exists, AdminOK, HistoryOK
<1>2. CASE Answer(d)
  <2>1. Idle \in Delivery /\ WellFormed(Idle)
    BY Points DEF Idle, Delivery, Codes, WellFormed
  <2>2. DeliveriesOK'
    BY <1>0, <1>2, <2>1, StepType DEF Answer
  <2>3. acked' \subseteq Events
    BY <1>0, <1>2 DEF Answer, HistoryOK, DeliveriesOK, WellFormed, EventAt
  <2>. QED  BY <1>0, <1>2, <2>2, <2>3 DEF Answer, TypeOK, rows, RowsOK,
              ForeignKeysOK, Exists, AdminOK, HistoryOK
<1>3. CASE Fail(d)
  <2>1. delivery[d].pc # "idle"
    BY <1>3, ConstantsAssumption DEF Fail
  <2>2. DeliveriesOK'
    BY <1>0, <1>3, <2>1, ReturnType DEF Fail, Codes
  <2>3. failures' \in Nat
    BY <1>0, <1>3 DEF Fail, HistoryOK
  <2>. QED  BY <1>0, <1>3, <2>2, <2>3 DEF Fail, TypeOK, rows, RowsOK,
              ForeignKeysOK, Exists, AdminOK, HistoryOK
<1>. QED  BY <1>1, <1>2, <1>3

\* Subscriptions are registered and removed.
LEMMA AdministerType ==
    ASSUME TypeOK, Administer
    PROVE  TypeOK'
<1>0. /\ RowsOK /\ ForeignKeysOK /\ DeliveriesOK /\ AdminOK /\ HistoryOK
      /\ IdleAdmin \in Admin /\ IdleAdmin.pc = "idle"
  BY DEF TypeOK, IdleAdmin, Admin, AdminPoints
<1>1. ASSUME NEW i \in Ids, NEW u \in Endpoints, RegisterWebhook(i, u)
      PROVE  TypeOK'
  <2>1. AdminOK'
    BY <1>1 DEF RegisterWebhook, AdminOK, Admin, AdminPoints
  <2>. QED  BY <1>0, <1>1, <2>1 DEF RegisterWebhook, TypeOK, rows,
              HistoryUnchanged, RowsOK, ForeignKeysOK, Exists, DeliveriesOK,
              HistoryOK
<1>2. ASSUME NEW i \in Ids, UnregisterWebhook(i)
      PROVE  TypeOK'
  <2>1. AdminOK'
    BY <1>2, ConstantsAssumption
       DEF UnregisterWebhook, AdminOK, Admin, AdminPoints
  <2>. QED  BY <1>0, <1>2, <2>1 DEF UnregisterWebhook, TypeOK, rows,
              HistoryUnchanged, RowsOK, ForeignKeysOK, Exists, DeliveriesOK,
              HistoryOK
<1>3. CASE RegisterCreate
  <2>1. AdminOK'
    BY <1>0, <1>3 DEF RegisterCreate, AdminOK
  <2>2. RowsOK' /\ ForeignKeysOK'
    BY <1>0, <1>3 DEF RegisterCreate, AdminOK, RowsOK, ForeignKeysOK, Exists
  <2>. QED  BY <1>0, <1>3, <2>1, <2>2 DEF RegisterCreate, TypeOK,
              HistoryUnchanged, DeliveriesOK, HistoryOK
<1>4. CASE UnregisterIntegration
  <2>1. AdminOK'
    BY <1>0, <1>4 DEF UnregisterIntegration, AdminOK, Admin, AdminPoints
  <2>. QED  BY <1>0, <1>4, <2>1 DEF UnregisterIntegration, TypeOK, rows,
              HistoryUnchanged, RowsOK, ForeignKeysOK, Exists, DeliveriesOK,
              HistoryOK
<1>5. CASE UnregisterDelete
  <2>1. AdminOK'
    BY <1>0, <1>5 DEF UnregisterDelete, AdminOK
  <2>2. RowsOK' /\ ForeignKeysOK'
    BY <1>0, <1>5 DEF UnregisterDelete, RowsOK, ForeignKeysOK, Exists
  <2>. QED  BY <1>0, <1>5, <2>1, <2>2 DEF UnregisterDelete, TypeOK,
              HistoryUnchanged, DeliveriesOK, HistoryOK
<1>. QED  BY <1>1, <1>2, <1>3, <1>4, <1>5 DEF Administer

\* Integrations come, change and go, and take their rows with them.
LEMMA InstallationType ==
    ASSUME TypeOK, Installation
    PROVE  TypeOK'
<1>0. /\ RowsOK /\ ForeignKeysOK /\ DeliveriesOK /\ AdminOK /\ HistoryOK
  BY DEF TypeOK
<1>1. ASSUME NEW i \in Ids, Provision(i) \/ Activate(i)
      PROVE  TypeOK'
  <2>1. RowsOK'
    BY <1>0, <1>1 DEF Provision, Activate, RowsOK
  <2>2. ForeignKeysOK'
    BY <1>0, <1>1 DEF Provision, Activate, RowsOK, ForeignKeysOK, Exists
  <2>. QED  BY <1>0, <1>1, <2>1, <2>2 DEF Provision, Activate, TypeOK,
              HistoryUnchanged, DeliveriesOK, AdminOK, HistoryOK
<1>2. ASSUME NEW i \in Ids, Uninstall(i)
      PROVE  TypeOK'
  <2>1. RowsOK'
    BY <1>0, <1>2 DEF Uninstall, RowsOK
  <2>2. ForeignKeysOK'
    <3>1. ASSUME NEW j \in Ids, ~ Exists(j)'
          PROVE  j = i \/ ~ Exists(j)
      BY <1>0, <1>2, <3>1 DEF Uninstall, RowsOK, Exists
    <3>2. \A j \in Ids : ~ Exists(j)' => config'[j] = None
      BY <1>0, <1>2, <3>1 DEF Uninstall, RowsOK, ForeignKeysOK
    <3>3. \A j \in Ids, e \in Events : ~ Exists(j)' => <<j, e>> \notin recorded'
      BY <1>0, <1>2, <3>1 DEF Uninstall, ForeignKeysOK
    <3>4. \A j \in Ids, u \in Endpoints :
            ~ Exists(j)' => <<j, u>> \notin subscription'
      BY <1>0, <1>2, <3>1 DEF Uninstall, ForeignKeysOK
    <3>. QED  BY <3>2, <3>3, <3>4 DEF ForeignKeysOK
  <2>. QED  BY <1>0, <1>2, <2>1, <2>2 DEF Uninstall, TypeOK,
              HistoryUnchanged, DeliveriesOK, AdminOK, HistoryOK
<1>3. ASSUME NEW i \in Ids, NEW l \in Locations, RegisterProvider(i, l)
      PROVE  TypeOK'
  <2>1. RowsOK' /\ ForeignKeysOK'
    BY <1>0, <1>3 DEF RegisterProvider, RowsOK, ForeignKeysOK, Exists
  <2>. QED  BY <1>0, <1>3, <2>1 DEF RegisterProvider, TypeOK,
              HistoryUnchanged, DeliveriesOK, AdminOK, HistoryOK
<1>. QED  BY <1>1, <1>2, <1>3 DEF Installation

\* Every step keeps the types.
LEMMA NextType ==
    ASSUME TypeOK, [Next]_vars
    PROVE  TypeOK'
<1>1. CASE UNCHANGED vars
  BY <1>1 DEF vars, rows, TypeOK, RowsOK, ForeignKeysOK, Exists, DeliveriesOK,
              AdminOK, HistoryOK
<1>2. CASE Next
  BY <1>2, ResolveType, RecordType, DispatchType, TransportType,
     AdministerType, InstallationType DEF Next, Process
<1>. QED  BY <1>1, <1>2

\* The empty tables are typed.
LEMMA InitType == Init => TypeOK
<1>. SUFFICES ASSUME Init PROVE TypeOK
  OBVIOUS
<1>1. Idle \in Delivery /\ WellFormed(Idle)
  BY Points DEF Idle, Delivery, Codes, WellFormed
<1>2. DeliveriesOK
  BY <1>1 DEF Init, DeliveriesOK
<1>3. AdminOK
  BY DEF Init, AdminOK, IdleAdmin, Admin, AdminPoints
<1>. QED  BY <1>2, <1>3 DEF Init, TypeOK, RowsOK, ForeignKeysOK, Exists, HistoryOK

\* ProcessWebhook and the foreign keys of the schema keep every row and every
\* delivery in the shape TypeOK describes.
THEOREM WebhookTypeCorrect == Spec => []TypeOK
  BY InitType, NextType, PTL DEF Spec

-------------------------------------------------------------------------------
(* The duplicate check *)

\* Only Record, and what happens to integrations, touch what the duplicate
\* check depends on.
LEMMA CheckFrame ==
    ASSUME [Next]_vars
    PROVE  \/ \E d \in Deliveries : Record(d)
           \/ Installation
           \/ UNCHANGED <<status, recorded, handled>>
<1>1. ASSUME NEW d \in Deliveries, Process(d), ~ Record(d)
      PROVE  UNCHANGED <<status, recorded, handled>>
  BY <1>1 DEF Process, Receive, ResolveAccount, ResolveConfig, Subscription,
     LastDelivery, DispatchAccount, DispatchConfig, DispatchID, DispatchCreate,
     rows, HistoryUnchanged
<1>2. ASSUME NEW d \in Deliveries,
             (\E e \in Events : Send(d, e)) \/ Answer(d) \/ Fail(d)
      PROVE  UNCHANGED <<status, recorded, handled>>
  BY <1>2 DEF Send, Answer, Fail, rows, HistoryUnchanged
<1>3. ASSUME Administer
      PROVE  UNCHANGED <<status, recorded, handled>>
  BY <1>3 DEF Administer, RegisterWebhook, UnregisterWebhook, RegisterCreate,
     UnregisterIntegration, UnregisterDelete, rows, HistoryUnchanged
<1>. QED  BY <1>1, <1>2, <1>3 DEF Next, vars, rows

\* A recorded event is handled once, and the record stays with the integration.
LEMMA HandledNext ==
    ASSUME TypeOK, HandledIsRecorded, [Next]_vars
    PROVE  HandledIsRecorded'
<1>0. RowsOK /\ DeliveriesOK /\ handled \in [Ids -> [Events -> Nat]]
  BY DEF TypeOK, HistoryOK
<1>1. ASSUME NEW d \in Deliveries, Record(d)
      PROVE  HandledIsRecorded'
  <2>. DEFINE i == delivery[d].id
              e == EventAt(d)
  <2>1. i \in Ids /\ e \in Events
    BY <1>0, <1>1 DEF Record, At, DeliveriesOK, WellFormed, EventAt
  <2>2. CASE /\ Recordable(i, e)
             /\ recorded' = recorded \cup {<<i, e>>}
             /\ handled' = [handled EXCEPT ![i][e] = @ + 1]
    <3>1. handled[i][e] = 0
      BY <2>1, <2>2 DEF Recordable, Exists, HandledIsRecorded
    <3>2. handled'[i][e] = 1
      BY <1>0, <2>1, <2>2, <3>1
    <3>3. ASSUME NEW j \in Ids, NEW f \in Events, j # i \/ f # e
          PROVE  handled'[j][f] = handled[j][f]
      BY <1>0, <2>1, <2>2, <3>3
    <3>4. status' = status
      BY <1>1 DEF Record
    <3>. QED  BY <2>2, <3>2, <3>3, <3>4 DEF HandledIsRecorded
  <2>3. CASE UNCHANGED <<recorded, handled>>
    BY <1>1, <2>3 DEF Record, HandledIsRecorded
  <2>. QED  BY <1>1, <2>2, <2>3 DEF Record
<1>2. ASSUME Installation
      PROVE  HandledIsRecorded'
  <2>1. ASSUME NEW i \in Ids, Uninstall(i)
        PROVE  HandledIsRecorded'
    <3>1. status'[i] = "DELETED" /\ handled' = handled
      BY <1>0, <2>1 DEF Uninstall, RowsOK, HistoryUnchanged
    <3>2. ASSUME NEW j \in Ids, j # i
          PROVE  /\ status'[j] = status[j]
                 /\ \A e \in Events : <<j, e>> \in recorded => <<j, e>> \in recorded'
      BY <1>0, <2>1, <3>2 DEF Uninstall, RowsOK
    <3>. QED  BY <3>1, <3>2 DEF HandledIsRecorded
  <2>2. ASSUME NEW i \in Ids, Provision(i) \/ Activate(i)
        PROVE  HandledIsRecorded'
    BY <1>0, <2>2 DEF Provision, Activate, RowsOK, HistoryUnchanged,
                      HandledIsRecorded
  <2>3. ASSUME NEW i \in Ids, NEW l \in Locations, RegisterProvider(i, l)
        PROVE  HandledIsRecorded'
    BY <2>3 DEF RegisterProvider, HistoryUnchanged, HandledIsRecorded
  <2>. QED  BY <1>2, <2>1, <2>2, <2>3 DEF Installation
<1>3. ASSUME UNCHANGED <<status, recorded, handled>>
      PROVE  HandledIsRecorded'
  BY <1>3 DEF HandledIsRecorded
<1>. QED  BY <1>1, <1>2, <1>3, CheckFrame

\* At most one delivery of an event gets past ProcessWebhook's duplicate check
\* for an integration, however many deliveries overlap and wherever they fail.
THEOREM WebhookHandledOnce == Spec => []HandledOnce
<1>1. Init => TypeOK /\ HandledIsRecorded
  BY InitType DEF Init, HandledIsRecorded
<1>2. TypeOK /\ HandledIsRecorded /\ [Next]_vars => (TypeOK /\ HandledIsRecorded)'
  BY NextType, HandledNext
<1>3. TypeOK /\ HandledIsRecorded => HandledOnce
  <2>. SUFFICES ASSUME TypeOK, HandledIsRecorded, NEW i \in Ids, NEW e \in Events
                PROVE  handled[i][e] <= 1
    BY DEF HandledOnce
  <2>1. handled[i][e] = 0 \/ handled[i][e] = 1
    BY DEF HandledIsRecorded
  <2>. QED  BY <2>1
<1>. QED  BY <1>1, <1>2, <1>3, PTL DEF Spec

-------------------------------------------------------------------------------
(* What an acknowledgement means *)

\* The answers writeWebhookError turns into 200.
LEMMA Acknowledging ==
    ASSUME NEW code
    PROVE  HTTPStatus(code) = 200 <=> code \in {"OK", "AlreadyExists"}
  BY DEF HTTPStatus

\* Events stay completed.
LEMMA CompletedGrows ==
    ASSUME [Next]_vars
    PROVE  completed \subseteq completed'
<1>1. ASSUME NEW d \in Deliveries, Process(d)
      PROVE  completed \subseteq completed'
  BY <1>1 DEF Process, Receive, ResolveAccount, ResolveConfig, Record,
     Subscription, LastDelivery, DispatchAccount, DispatchConfig, DispatchID,
     DispatchCreate, HistoryUnchanged
<1>2. ASSUME NEW d \in Deliveries,
             (\E e \in Events : Send(d, e)) \/ Answer(d) \/ Fail(d)
      PROVE  completed' = completed
  BY <1>2 DEF Send, Answer, Fail, HistoryUnchanged
<1>3. ASSUME Administer \/ Installation
      PROVE  completed' = completed
  BY <1>3 DEF Administer, RegisterWebhook, UnregisterWebhook, RegisterCreate,
     UnregisterIntegration, UnregisterDelete, Installation, Provision, Activate,
     Uninstall, RegisterProvider, HistoryUnchanged
<1>. QED  BY <1>1, <1>2, <1>3 DEF Next, vars

\* A step of d that does not answer it 200 keeps AnsweredCompleted.
LEMMA QuietStep ==
    ASSUME DeliveriesOK, AnsweredCompleted, NEW d \in Deliveries,
           NEW q, delivery' = [delivery EXCEPT ![d] = q],
           q.pc # "answered" \/ HTTPStatus(q.code) # 200,
           completed \subseteq completed'
    PROVE  AnsweredCompleted'
<1>. SUFFICES ASSUME NEW x \in Deliveries, delivery'[x].pc = "answered",
                     HTTPStatus(delivery'[x].code) = 200
              PROVE  \E i \in Ids : <<i, delivery'[x].event>> \in completed'
  BY DEF AnsweredCompleted, At, EventAt, HTTPStatus
<1>1. x # d /\ delivery'[x] = delivery[x]
  BY DEF DeliveriesOK
<1>. QED  BY <1>1 DEF AnsweredCompleted, At, EventAt

\* In particular an error that is not mapped to 200.
LEMMA QuietReturn ==
    ASSUME DeliveriesOK, AnsweredCompleted, NEW d \in Deliveries, NEW code,
           Return(d, code), code \notin {"OK", "AlreadyExists"},
           completed \subseteq completed'
    PROVE  AnsweredCompleted'
<1>. DEFINE q == [delivery[d] EXCEPT !.pc = "answered", !.code = code]
<1>1. delivery[d] \in Delivery /\ delivery' = [delivery EXCEPT ![d] = q]
  BY DEF Return, DeliveriesOK
<1>2. q.code = code
  BY <1>1 DEF Delivery
<1>3. HTTPStatus(code) # 200
  BY Acknowledging
<1>4. HTTPStatus(q.code) # 200
  BY <1>2, <1>3
<1>. HIDE DEF q
<1>. QED  BY <1>1, <1>4, QuietStep

\* And a step that goes on.
LEMMA QuietGoto ==
    ASSUME DeliveriesOK, AnsweredCompleted, NEW d \in Deliveries, NEW pc,
           Goto(d, pc), pc # "answered", completed \subseteq completed'
    PROVE  AnsweredCompleted'
<1>. DEFINE q == [delivery[d] EXCEPT !.pc = pc]
<1>1. delivery[d] \in Delivery /\ delivery' = [delivery EXCEPT ![d] = q]
  BY DEF Goto, DeliveriesOK
<1>2. q.pc = pc
  BY <1>1 DEF Delivery
<1>. HIDE DEF q
<1>. QED  BY <1>1, <1>2, QuietStep

\* The two places that return nil have just completed the event.
LEMMA CompletingStep ==
    ASSUME DeliveriesOK, AnsweredCompleted, NEW d \in Deliveries,
           NEW i \in Ids, delivery[d].id \in Ids, Return(d, "OK"),
           completed' = completed \cup {<<i, EventAt(d)>>}
    PROVE  AnsweredCompleted'
<1>. SUFFICES ASSUME NEW x \in Deliveries, delivery'[x].pc = "answered",
                     HTTPStatus(delivery'[x].code) = 200
              PROVE  /\ delivery'[x].id \in Ids
                     /\ \E j \in Ids : <<j, delivery'[x].event>> \in completed'
  BY DEF AnsweredCompleted, At, EventAt, HTTPStatus
<1>1. CASE x = d
  <2>1. delivery'[x].event = EventAt(d) /\ delivery'[x].id = delivery[d].id
    BY <1>1 DEF DeliveriesOK, Delivery, Return, EventAt
  <2>. QED  BY <2>1
<1>2. CASE x # d
  <2>1. delivery'[x] = delivery[x]
    BY <1>2 DEF DeliveriesOK, Return
  <2>2. delivery[x].pc = "answered" /\ HTTPStatus(delivery[x].code) = 200
    BY <2>1
  <2>3. PICK j \in Ids : <<j, delivery[x].event>> \in completed
    BY <2>2, Zenon DEF AnsweredCompleted, At, EventAt
  <2>4. delivery[x].id \in Ids
    BY <2>2, Zenon DEF AnsweredCompleted, At
  <2>5. <<j, delivery[x].event>> \in completed'
    BY <2>3
  <2>. QED  BY <2>1, <2>4, <2>5, Zenon
<1>. QED  BY <1>1, <1>2

\* A 200 is only ever on its way for a completed event.
LEMMA AnsweredNext ==
    ASSUME TypeOK, AnsweredCompleted, [Next]_vars
    PROVE  AnsweredCompleted'
<1>0. /\ DeliveriesOK /\ completed \subseteq completed'
      /\ \A d \in Deliveries : delivery[d] \in Delivery
  BY CompletedGrows DEF TypeOK, DeliveriesOK
<1>1. ASSUME NEW d \in Deliveries, NEW i, NEW pc, pc # "answered",
             \/ delivery' = [delivery EXCEPT ![d].pc = pc, ![d].id = i]
             \/ delivery' = [delivery EXCEPT ![d].pc = pc, ![d].target = i]
      PROVE  AnsweredCompleted'
  <2>1. CASE delivery' = [delivery EXCEPT ![d].pc = pc, ![d].id = i]
    <3>. DEFINE q == [delivery[d] EXCEPT !.pc = pc, !.id = i]
    <3>1. delivery' = [delivery EXCEPT ![d] = q] /\ q.pc = pc
      BY <1>0, <2>1 DEF DeliveriesOK, Delivery
    <3>. HIDE DEF q
    <3>. QED  BY <1>0, <1>1, <3>1, QuietStep
  <2>2. CASE delivery' = [delivery EXCEPT ![d].pc = pc, ![d].target = i]
    <3>. DEFINE q == [delivery[d] EXCEPT !.pc = pc, !.target = i]
    <3>1. delivery' = [delivery EXCEPT ![d] = q] /\ q.pc = pc
      BY <1>0, <2>2 DEF DeliveriesOK, Delivery
    <3>. HIDE DEF q
    <3>. QED  BY <1>0, <1>1, <3>1, QuietStep
  <2>. QED  BY <1>1, <2>1, <2>2
<1>2. ASSUME NEW d \in Deliveries, Process(d)
      PROVE  AnsweredCompleted'
  <2>1. CASE Receive(d)
    BY <1>0, <2>1, QuietReturn, QuietGoto DEF Receive
  <2>2. CASE ResolveAccount(d) \/ ResolveConfig(d)
    BY <1>0, <1>1, <2>2, QuietReturn, QuietGoto DEF ResolveAccount, ResolveConfig
  <2>3. CASE Record(d)
    BY <1>0, <2>3, QuietReturn, QuietGoto DEF Record, DuplicateCode
  <2>4. CASE Subscription(d) \/ DispatchID(d)
    BY <1>0, <2>4, QuietReturn, QuietGoto DEF Subscription, DispatchID
  <2>5. CASE DispatchAccount(d) \/ DispatchConfig(d)
    BY <1>0, <1>1, <2>5, QuietReturn, QuietGoto DEF DispatchAccount, DispatchConfig
  <2>6. CASE LastDelivery(d)
    <3>1. delivery[d].id \in Ids
      BY <1>0, <2>6 DEF LastDelivery, At, DeliveriesOK, WellFormed
    <3>. QED  BY <1>0, <2>6, <3>1, QuietReturn, CompletingStep DEF LastDelivery
  <2>7. CASE DispatchCreate(d)
    <3>1. delivery[d].target \in Ids /\ delivery[d].id \in Ids
      BY <1>0, <2>7 DEF DispatchCreate, At, DeliveriesOK, WellFormed
    <3>. QED  BY <1>0, <2>7, <3>1, QuietReturn, CompletingStep DEF DispatchCreate
  <2>. QED  BY <1>2, <2>1, <2>2, <2>3, <2>4, <2>5, <2>6, <2>7 DEF Process
<1>3. ASSUME NEW d \in Deliveries, NEW e \in Events, Send(d, e)
      PROVE  AnsweredCompleted'
  <2>. DEFINE q == [Idle EXCEPT !.pc = "received", !.event = e]
  <2>1. q.pc = "received" /\ delivery' = [delivery EXCEPT ![d] = q]
    BY <1>3 DEF Send, Idle
  <2>. HIDE DEF q
  <2>. QED  BY <1>0, <2>1, QuietStep
<1>4. ASSUME NEW d \in Deliveries, Answer(d)
      PROVE  AnsweredCompleted'
  <2>1. Idle.pc = "idle" /\ delivery' = [delivery EXCEPT ![d] = Idle]
    BY <1>4 DEF Answer, Idle
  <2>. QED  BY <1>0, <2>1, QuietStep
<1>5. ASSUME NEW d \in Deliveries, Fail(d)
      PROVE  AnsweredCompleted'
  BY <1>0, <1>5, QuietReturn DEF Fail
<1>6. ASSUME UNCHANGED delivery
      PROVE  AnsweredCompleted'
  BY <1>0, <1>6 DEF AnsweredCompleted, At, EventAt, HTTPStatus
<1>7. ASSUME Administer \/ Installation
      PROVE  UNCHANGED delivery
  BY <1>7 DEF Administer, RegisterWebhook, UnregisterWebhook, RegisterCreate,
     UnregisterIntegration, UnregisterDelete, Installation, Provision, Activate,
     Uninstall, RegisterProvider
<1>. QED  BY <1>2, <1>3, <1>4, <1>5, <1>6, <1>7 DEF Next, vars

\* HighLevel only forgets completed events.
LEMMA AckedNext ==
    ASSUME AckedCompleted, AnsweredCompleted, [Next]_vars
    PROVE  AckedCompleted'
<1>0. completed \subseteq completed'
  BY CompletedGrows
<1>1. ASSUME NEW d \in Deliveries, Answer(d)
      PROVE  AckedCompleted'
  BY <1>0, <1>1 DEF Answer, AckedCompleted, AnsweredCompleted
<1>2. ASSUME UNCHANGED acked
      PROVE  AckedCompleted'
  BY <1>0, <1>2 DEF AckedCompleted
<1>3. ASSUME NEW d \in Deliveries,
             (\E e \in Events : Send(d, e)) \/ Process(d) \/ Fail(d)
      PROVE  UNCHANGED acked
  BY <1>3 DEF Send, Fail, Process, Receive, ResolveAccount, ResolveConfig, Record,
     Subscription, LastDelivery, DispatchAccount, DispatchConfig, DispatchID,
     DispatchCreate, HistoryUnchanged
<1>4. ASSUME Administer \/ Installation
      PROVE  UNCHANGED acked
  BY <1>4 DEF Administer, RegisterWebhook, UnregisterWebhook, RegisterCreate,
     UnregisterIntegration, UnregisterDelete, Installation, Provision, Activate,
     Uninstall, RegisterProvider, HistoryUnchanged
<1>. QED  BY <1>1, <1>2, <1>3, <1>4 DEF Next, vars

\* The config an INSTALL left stays as long as the integration.
LEMMA ConfiguredNext ==
    ASSUME TypeOK, CompletedConfigured, [Next]_vars
    PROVE  CompletedConfigured'
<1>0. RowsOK /\ DeliveriesOK /\ None \notin Locations
  BY ConstantsAssumption DEF TypeOK
<1>1. ASSUME NEW d \in Deliveries, DispatchCreate(d)
      PROVE  CompletedConfigured'
  <2>1. LocationAt(d) \in Locations /\ delivery[d].target \in Ids
    BY <1>0, <1>1, Located DEF DispatchCreate, At, DeliveriesOK, WellFormed
  <2>2. \A i \in Ids : config[i] # None => config'[i] # None
    BY <1>0, <1>1, <2>1 DEF DispatchCreate, RowsOK
  <2>3. \/ config'[delivery[d].target] # None
        \/ completed' = completed
    BY <1>0, <1>1, <2>1 DEF DispatchCreate, RowsOK
  <2>4. completed' \subseteq completed \cup {<<delivery[d].target, EventAt(d)>>}
    BY <1>1 DEF DispatchCreate
  <2>5. status' = status
    BY <1>1 DEF DispatchCreate
  <2>. QED  BY <2>2, <2>3, <2>4, <2>5 DEF CompletedConfigured
<1>2. ASSUME NEW d \in Deliveries, LastDelivery(d)
      PROVE  CompletedConfigured'
  <2>1. EventAt(d) \notin Installs
    BY <1>0, <1>2 DEF LastDelivery, At, DeliveriesOK, WellFormed, EventAt
  <2>. QED  BY <1>2, <2>1 DEF LastDelivery, rows, CompletedConfigured
<1>3. ASSUME Installation
      PROVE  CompletedConfigured'
  BY <1>0, <1>3 DEF Installation, Provision, Activate, Uninstall,
     RegisterProvider, HistoryUnchanged, RowsOK, CompletedConfigured
<1>4. ASSUME UNCHANGED <<status, config, completed>>
      PROVE  CompletedConfigured'
  BY <1>4 DEF CompletedConfigured
<1>5. ASSUME NEW d \in Deliveries, Process(d),
             ~ DispatchCreate(d), ~ LastDelivery(d)
      PROVE  UNCHANGED <<status, config, completed>>
  BY <1>5 DEF Process, Receive, ResolveAccount, ResolveConfig, Record,
     Subscription, DispatchAccount, DispatchConfig, DispatchID, rows,
     HistoryUnchanged
<1>6. ASSUME NEW d \in Deliveries,
             (\E e \in Events : Send(d, e)) \/ Answer(d) \/ Fail(d)
      PROVE  UNCHANGED <<status, config, completed>>
  BY <1>6 DEF Send, Answer, Fail, rows, HistoryUnchanged
<1>7. ASSUME Administer
      PROVE  UNCHANGED <<status, config, completed>>
  BY <1>7 DEF Administer, RegisterWebhook, UnregisterWebhook, RegisterCreate,
     UnregisterIntegration, UnregisterDelete, rows, HistoryUnchanged
<1>. QED  BY <1>1, <1>2, <1>3, <1>4, <1>5, <1>6, <1>7 DEF Next, vars, rows

\* HighLevel stops sending an event only when ProcessWebhook has carried it
\* through, INSTALL's provider config included: no failure, no duplicate and no
\* overlap of deliveries gets an unprocessed event acknowledged.
THEOREM WebhookAcknowledgedIsProcessed == Spec => []AcknowledgedIsProcessed
<1>. DEFINE J == /\ TypeOK /\ CompletedConfigured
                 /\ AnsweredCompleted /\ AckedCompleted
<1>1. Init => J
  <2>. SUFFICES ASSUME Init PROVE J
    OBVIOUS
  <2>1. AnsweredCompleted
    BY DEF Init, AnsweredCompleted, At, Idle
  <2>. QED  BY <2>1, InitType DEF Init, CompletedConfigured, AckedCompleted
<1>2. J /\ [Next]_vars => J'
  BY NextType, ConfiguredNext, AnsweredNext, AckedNext
<1>3. J => AcknowledgedIsProcessed
  BY DEF AckedCompleted, CompletedConfigured, AcknowledgedIsProcessed, Effective
<1>. QED  BY <1>1, <1>2, <1>3, PTL DEF Spec
-------------------------------------------------------------------------------
(* WebhookDelivery implements EventLog *)

\* A step of one delivery changes its job and no other.
LEMMA JobStep ==
    ASSUME DeliveriesOK, NEW d \in Deliveries, NEW q,
           delivery' = [delivery EXCEPT ![d] = q]
    PROVE  Working' = [Working EXCEPT ![d] = JobOf(q)]
  BY DEF DeliveriesOK, Working

\* A step that neither takes up a job nor confirms one: the log does not move,
\* or the delivery lets go of its job.
LEMMA QuietLog ==
    ASSUME DeliveriesOK, NEW d \in Deliveries, NEW q,
           delivery' = [delivery EXCEPT ![d] = q],
           JobOf(q) \in {JobOf(delivery[d]), None},
           UNCHANGED <<handled, acked>>
    PROVE  [Log!Next]_(Log!vars)
<1>1. /\ Working' = [Working EXCEPT ![d] = JobOf(q)]
      /\ Working[d] = JobOf(delivery[d])
      /\ Taken' = Taken
  BY JobStep DEF Working, Taken
<1>2. CASE JobOf(q) = JobOf(delivery[d])
  <2>1. Working' = Working
    BY <1>1, <1>2 DEF Working
  <2>. QED  BY <1>1, <2>1 DEF Log!vars
<1>3. CASE JobOf(delivery[d]) # None /\ JobOf(q) = None
  BY <1>1, <1>3 DEF Log!Next, Log!Abandon
<1>. QED  BY <1>2, <1>3

\* An error lets go of the job.
LEMMA LogReturn ==
    ASSUME DeliveriesOK, NEW d \in Deliveries, NEW code, Return(d, code),
           code \notin {"OK", "AlreadyExists"}, UNCHANGED <<handled, acked>>
    PROVE  [Log!Next]_(Log!vars)
<1>. DEFINE q == [delivery[d] EXCEPT !.pc = "answered", !.code = code]
<1>1. delivery[d] \in Delivery /\ delivery' = [delivery EXCEPT ![d] = q]
  BY DEF Return, DeliveriesOK
<1>2. q.pc = "answered" /\ q.code = code
  BY <1>1 DEF Delivery
<1>. HIDE DEF q
<1>3. JobOf(q) = None
  BY <1>2, Acknowledging DEF JobOf
<1>. QED  BY <1>1, <1>3, QuietLog

\* The points before the INSERT of the event, and those after it.
Before(pc) == pc \in {"idle", "received", "resolve_account", "resolve_config", "record"}
After(pc) == pc \in {"dispatch_account", "dispatch_config", "dispatch_id",
                     "dispatch_create", "subscription", "last_delivery"}

\* Going on before the INSERT, or after it, leaves the log alone.
LEMMA LogGoto ==
    ASSUME DeliveriesOK, NEW d \in Deliveries, NEW q,
           delivery' = [delivery EXCEPT ![d] = q],
           \/ Before(q.pc)
           \/ /\ After(q.pc) /\ After(delivery[d].pc)
              /\ q.id = delivery[d].id /\ q.event = delivery[d].event,
           UNCHANGED <<handled, acked>>
    PROVE  [Log!Next]_(Log!vars)
<1>1. JobOf(q) \in {JobOf(delivery[d]), None}
  BY DEF JobOf, Before, After
<1>. QED  BY <1>1, QuietLog

\* Updates of a delivery's control point, with or without a field beside it.
LEMMA LogMove ==
    ASSUME DeliveriesOK, NEW d \in Deliveries, NEW pc, NEW i,
           \/ delivery' = [delivery EXCEPT ![d].pc = pc]
           \/ delivery' = [delivery EXCEPT ![d].pc = pc, ![d].target = i]
           \/ /\ delivery' = [delivery EXCEPT ![d].pc = pc, ![d].id = i]
              /\ Before(pc),
           Before(pc) \/ (After(pc) /\ After(delivery[d].pc)),
           UNCHANGED <<handled, acked>>
    PROVE  [Log!Next]_(Log!vars)
<1>1. delivery[d] \in Delivery
  BY DEF DeliveriesOK
<1>2. CASE delivery' = [delivery EXCEPT ![d].pc = pc]
  <2>. DEFINE q == [delivery[d] EXCEPT !.pc = pc]
  <2>1. /\ delivery' = [delivery EXCEPT ![d] = q]
        /\ q.pc = pc /\ q.id = delivery[d].id /\ q.event = delivery[d].event
    BY <1>1, <1>2 DEF Delivery, DeliveriesOK
  <2>. HIDE DEF q
  <2>. QED  BY <2>1, LogGoto
<1>3. CASE delivery' = [delivery EXCEPT ![d].pc = pc, ![d].target = i]
  <2>. DEFINE q == [delivery[d] EXCEPT !.pc = pc, !.target = i]
  <2>1. /\ delivery' = [delivery EXCEPT ![d] = q]
        /\ q.pc = pc /\ q.id = delivery[d].id /\ q.event = delivery[d].event
    BY <1>1, <1>3 DEF Delivery, DeliveriesOK
  <2>. HIDE DEF q
  <2>. QED  BY <2>1, LogGoto
<1>4. CASE /\ delivery' = [delivery EXCEPT ![d].pc = pc, ![d].id = i]
           /\ Before(pc)
  <2>. DEFINE q == [delivery[d] EXCEPT !.pc = pc, !.id = i]
  <2>1. delivery' = [delivery EXCEPT ![d] = q] /\ q.pc = pc
    BY <1>1, <1>4 DEF Delivery, DeliveriesOK
  <2>. HIDE DEF q
  <2>. QED  BY <1>4, <2>1, LogGoto
<1>. QED  BY <1>2, <1>3, <1>4

\* The INSERT that succeeds takes up its job, for the first time.
LEMMA RecordTakes ==
    ASSUME TypeOK, HandledIsRecorded, NEW d \in Deliveries, Record(d)
    PROVE  [Log!Next]_(Log!vars)
<1>. DEFINE i == delivery[d].id
            e == EventAt(d)
<1>0. /\ DeliveriesOK /\ RowsOK /\ delivery[d] \in Delivery
      /\ handled \in [Ids -> [Events -> Nat]]
  BY DEF TypeOK, DeliveriesOK, HistoryOK
<1>1. i \in Ids /\ e \in Events /\ delivery[d].pc = "record"
  BY <1>0 DEF Record, At, DeliveriesOK, WellFormed, EventAt
<1>2. CASE /\ Recordable(i, e)
           /\ handled' = [handled EXCEPT ![i][e] = @ + 1]
           /\ Goto(d, IF e \in Installs THEN "dispatch_account"
                                        ELSE "subscription")
  <2>. DEFINE pc == IF e \in Installs THEN "dispatch_account" ELSE "subscription"
              q == [delivery[d] EXCEPT !.pc = pc]
              j == <<i, e>>
  <2>1. handled[i][e] = 0
    BY <1>1, <1>2 DEF Recordable, Exists, HandledIsRecorded
  <2>2. j \in Ids \X Events /\ j \notin Taken /\ j # None
    BY <1>1, <2>1, ConstantsAssumption DEF Taken
  <2>3. \A k \in Ids, f \in Events :
           handled'[k][f] # 0 <=> handled[k][f] # 0 \/ (k = i /\ f = e)
    BY <1>0, <1>1, <1>2, <2>1
  <2>4. Taken' = Taken \cup {j}
    <3>1. Taken' = {k \in Ids \X Events : handled'[k[1]][k[2]] # 0}
      BY DEF Taken
    <3>2. ASSUME NEW k \in Ids \X Events
          PROVE  handled'[k[1]][k[2]] # 0 <=> handled[k[1]][k[2]] # 0 \/ k = j
      BY <2>3, <1>1
    <3>. QED  BY <2>2, <3>1, <3>2 DEF Taken
  <2>5. delivery' = [delivery EXCEPT ![d] = q]
    BY <1>0, <1>2 DEF Goto, DeliveriesOK
  <2>6. q.pc = pc /\ q.id = i /\ q.event = e
    BY <1>0 DEF Delivery, EventAt
  <2>7. JobOf(q) = j
    <3>. HIDE DEF q
    <3>1. After(q.pc)
      BY <2>6 DEF After
    <3>. QED  BY <2>6, <3>1 DEF JobOf, After
  <2>8. Working[d] = None
    BY <1>1 DEF Working, JobOf
  <2>9. Working' = [Working EXCEPT ![d] = j]
    <3>. HIDE DEF q
    <3>. QED  BY <1>0, <2>5, <2>7, JobStep
  <2>10. acked' = acked
    BY DEF Record
  <2>. HIDE DEF j
  <2>. QED  BY <2>2, <2>4, <2>8, <2>9, <2>10 DEF Log!Next, Log!Take
<1>3. CASE /\ Return(d, IF Exists(i) THEN DuplicateCode ELSE "FailedPrecondition")
           /\ UNCHANGED <<recorded, handled>>
  <2>1. acked' = acked
    BY DEF Record
  <2>. QED  BY <1>0, <1>3, <2>1, LogReturn DEF DuplicateCode
<1>. QED  BY <1>2, <1>3 DEF Record

\* Completing an event keeps its job until the answer is written.
LEMMA LogCompletes ==
    ASSUME DeliveriesOK, NEW d \in Deliveries, After(delivery[d].pc),
           Return(d, "OK"), UNCHANGED <<handled, acked>>
    PROVE  [Log!Next]_(Log!vars)
<1>. DEFINE q == [delivery[d] EXCEPT !.pc = "answered", !.code = "OK"]
<1>1. delivery[d] \in Delivery /\ delivery' = [delivery EXCEPT ![d] = q]
  BY DEF Return, DeliveriesOK
<1>2. /\ q.pc = "answered" /\ q.code = "OK"
      /\ q.id = delivery[d].id /\ q.event = delivery[d].event
  BY <1>1 DEF Delivery
<1>. HIDE DEF q
<1>3. JobOf(q) = JobOf(delivery[d])
  BY <1>2, Acknowledging DEF JobOf, After
<1>. QED  BY <1>1, <1>3, QuietLog

\* The answer confirms the job it ends, or is lost.
LEMMA LogAnswer ==
    ASSUME TypeOK, NEW d \in Deliveries, Answer(d),
           delivery[d].id \in Ids \/ HTTPStatus(delivery[d].code) # 200
    PROVE  [Log!Next]_(Log!vars)
<1>0. DeliveriesOK /\ delivery[d] \in Delivery
  BY DEF TypeOK, DeliveriesOK
<1>1. /\ delivery[d].pc = "answered" /\ EventAt(d) \in Events
      /\ delivery' = [delivery EXCEPT ![d] = Idle]
  BY <1>0 DEF Answer, At, DeliveriesOK, WellFormed, EventAt
<1>2. JobOf(Idle) = None
  BY DEF JobOf, Idle
<1>3. CASE UNCHANGED acked
  <2>1. handled' = handled
    BY DEF Answer
  <2>. QED  BY <1>0, <1>1, <1>2, <1>3, <2>1, QuietLog
<1>4. CASE /\ HTTPStatus(delivery[d].code) = 200
           /\ acked' = acked \cup {EventAt(d)}
  <2>. DEFINE j == <<delivery[d].id, EventAt(d)>>
  <2>1. j \in Ids \X Events /\ j[2] = EventAt(d) /\ j # None
    BY <1>1, <1>4, ConstantsAssumption
  <2>2. Working[d] = j
    BY <1>1, <1>4 DEF Working, JobOf, EventAt
  <2>3. Working' = [Working EXCEPT ![d] = None]
    BY <1>0, <1>1, <1>2, JobStep
  <2>4. Taken' = Taken
    BY DEF Answer, Taken
  <2>5. acked' = acked \cup {[k \in Ids \X Events |-> k[2]][Working[d]]}
    BY <1>4, <2>1, <2>2
  <2>. HIDE DEF j
  <2>. QED  BY <2>1, <2>2, <2>3, <2>4, <2>5 DEF Log!Next, Log!Confirm
<1>. QED  BY <1>3, <1>4 DEF Answer

\* Every step of the code is one of the log's, or leaves it alone.
LEMMA LogStep ==
    ASSUME TypeOK, HandledIsRecorded, AnsweredCompleted, [Next]_vars
    PROVE  [Log!Next]_(Log!vars)
<1>0. DeliveriesOK
  BY DEF TypeOK
<1>1. ASSUME NEW d \in Deliveries, Process(d)
      PROVE  [Log!Next]_(Log!vars)
  <2>1. CASE Record(d)
    BY <2>1, RecordTakes
  <2>2. CASE ~ Record(d)
    <3>1. UNCHANGED <<handled, acked>>
      BY <1>1, <2>2 DEF Process, Receive, ResolveAccount, ResolveConfig,
         Subscription, LastDelivery, DispatchAccount, DispatchConfig, DispatchID,
         DispatchCreate, HistoryUnchanged
    <3>2. CASE Receive(d)
      <4>1. \/ Return(d, "InvalidArgument")
            \/ Goto(d, "resolve_account") \/ Goto(d, "resolve_config")
        BY <3>2 DEF Receive
      <4>. QED  BY <1>0, <3>1, <4>1, LogReturn, LogMove DEF Goto, Before
    <3>3. CASE ResolveAccount(d) \/ ResolveConfig(d)
      BY <1>0, <3>1, <3>3, LogReturn, LogMove
         DEF ResolveAccount, ResolveConfig, Goto, Before
    <3>4. CASE Subscription(d) \/ DispatchID(d)
      BY <1>0, <3>1, <3>4, LogReturn, LogMove
         DEF Subscription, DispatchID, Goto, At, After
    <3>5. CASE DispatchAccount(d) \/ DispatchConfig(d)
      BY <1>0, <3>1, <3>5, LogReturn, LogMove
         DEF DispatchAccount, DispatchConfig, Goto, At, After
    <3>6. CASE LastDelivery(d) \/ DispatchCreate(d)
      BY <1>0, <3>1, <3>6, LogReturn, LogCompletes
         DEF LastDelivery, DispatchCreate, At, After
    <3>. QED  BY <1>1, <2>2, <3>2, <3>3, <3>4, <3>5, <3>6 DEF Process
  <2>. QED  BY <2>1, <2>2
<1>2. ASSUME NEW d \in Deliveries, NEW e \in Events, Send(d, e)
      PROVE  [Log!Next]_(Log!vars)
  <2>. DEFINE q == [Idle EXCEPT !.pc = "received", !.event = e]
  <2>1. q.pc = "received" /\ delivery' = [delivery EXCEPT ![d] = q]
    BY <1>2 DEF Send, Idle
  <2>. HIDE DEF q
  <2>2. UNCHANGED <<handled, acked>>
    BY <1>2 DEF Send, HistoryUnchanged
  <2>. QED  BY <1>0, <2>1, <2>2, LogGoto DEF Before
<1>3. ASSUME NEW d \in Deliveries, Answer(d)
      PROVE  [Log!Next]_(Log!vars)
  <2>1. delivery[d].id \in Ids \/ HTTPStatus(delivery[d].code) # 200
    BY <1>3 DEF Answer, AnsweredCompleted
  <2>. QED  BY <1>3, <2>1, LogAnswer
<1>4. ASSUME NEW d \in Deliveries, Fail(d)
      PROVE  [Log!Next]_(Log!vars)
  BY <1>0, <1>4, LogReturn DEF Fail
<1>5. ASSUME UNCHANGED <<delivery, handled, acked>>
      PROVE  [Log!Next]_(Log!vars)
  <2>1. Working' = Working /\ Taken' = Taken
    BY <1>5 DEF Working, Taken
  <2>. QED  BY <1>5, <2>1 DEF Log!vars
<1>6. ASSUME Administer \/ Installation
      PROVE  UNCHANGED <<delivery, handled, acked>>
  BY <1>6 DEF Administer, RegisterWebhook, UnregisterWebhook, RegisterCreate,
     UnregisterIntegration, UnregisterDelete, Installation, Provision, Activate,
     Uninstall, RegisterProvider, HistoryUnchanged
<1>. QED  BY <1>1, <1>2, <1>3, <1>4, <1>5, <1>6 DEF Next, vars

\* The endpoint for HighLevel's webhooks is an EventLog: each event is taken up
\* at most once for an integration, and confirmed to HighLevel by no delivery
\* but the one that took it up (ProcessWebhook, writeWebhookError).
THEOREM WebhookImplementsEventLog == Spec => ImplementsEventLog
<1>. DEFINE J == TypeOK /\ HandledIsRecorded /\ CompletedConfigured
                 /\ AnsweredCompleted
<1>1. Init => J
  <2>. SUFFICES ASSUME Init PROVE J
    OBVIOUS
  <2>1. AnsweredCompleted
    BY DEF Init, AnsweredCompleted, At, Idle
  <2>2. HandledIsRecorded
    BY DEF Init, HandledIsRecorded
  <2>. QED  BY <2>1, <2>2, InitType DEF Init, CompletedConfigured
<1>2. Init => Log!Init
  <2>. SUFFICES ASSUME Init PROVE Log!Init
    OBVIOUS
  <2>1. Taken = {}
    BY DEF Init, Taken
  <2>2. Working = [d \in Deliveries |-> None]
    BY DEF Init, Working, JobOf, Idle
  <2>. QED  BY <2>1, <2>2 DEF Init, Log!Init
<1>3. J /\ [Next]_vars => J'
  BY NextType, HandledNext, ConfiguredNext, AnsweredNext
<1>4. J /\ [Next]_vars => [Log!Next]_(Log!vars)
  BY LogStep
<1>. QED  BY <1>1, <1>2, <1>3, <1>4, PTL DEF Spec, ImplementsEventLog, Log!Spec
===============================================================================
