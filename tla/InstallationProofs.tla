-------------------------- MODULE InstallationProofs --------------------------
(***************************************************************************)
(* Theorems about Installation, for any number of clients, platforms,      *)
(* integrations, states, codes and concurrent requests.                    *)
(***************************************************************************)
EXTENDS Installation, TLAPS

USE DEF environment, tables

-------------------------------------------------------------------------------
(* Type correctness *)

\* The control points, in groups small enough for the provers.
LEMMA Points ==
    /\ {"idle", "done", "install_platform", "install_lookup",
        "install_create"} \subseteq ControlPoints
    /\ {"uninstall_revoke", "uninstall_delete", "reconnect_update",
        "disconnect_update", "sync_update"} \subseteq ControlPoints
    /\ {"begin_client", "begin_create", "resolve_account", "resolve_config",
        "resolve_id"} \subseteq ControlPoints
    /\ {"callback_platform", "callback_client", "callback_exchange",
        "callback_lookup", "callback_activate", "callback_create",
        "callback_token"} \subseteq ControlPoints
    /\ {"register_get", "register_create", "register_update",
        "installed_config", "installed_create"} \subseteq ControlPoints
  BY DEF ControlPoints

\* The step of one request replaces its record, and only its own.
LEMMA StepType ==
    ASSUME RequestsOK, NEW r \in Requests, NEW q \in Request, WellFormed(r, q),
           req' = [req EXCEPT ![r] = q]
    PROVE  RequestsOK'
<1>1. req' \in [Requests -> Request]
  BY DEF RequestsOK
<1>2. ASSUME NEW t \in Requests PROVE WellFormed(t, req[t])'
  <2>1. WellFormed(t, req'[t])
    BY DEF RequestsOK
  <2>. QED  BY <2>1 DEF WellFormed, IsCallback
<1>. QED  BY <1>1, <1>2 DEF RequestsOK

\* Moving on to another control point is a typed step.
LEMMA GotoType ==
    ASSUME RequestsOK, NEW r \in Requests, NEW pc \in ControlPoints,
           WellFormed(r, [req[r] EXCEPT !.pc = pc]), Goto(r, pc)
    PROVE  RequestsOK'
<1>1. [req[r] EXCEPT !.pc = pc] \in Request
  BY DEF RequestsOK, Request
<1>2. req' = [req EXCEPT ![r] = [req[r] EXCEPT !.pc = pc]]
  BY DEF Goto, RequestsOK
<1>. QED  BY <1>1, <1>2, StepType

\* A finished request need hold nothing.
LEMMA DoneWellFormed ==
    ASSUME NEW r, NEW q, q.pc = "done"
    PROVE  WellFormed(r, q)
  BY DEF WellFormed, IdPoints, CallbackPoints

\* Returning is a typed step from anywhere.
LEMMA FinishType ==
    ASSUME RequestsOK, NEW r \in Requests, NEW x \in Results, Finish(r, x)
    PROVE  RequestsOK'
<1>1. [req[r] EXCEPT !.pc = "done", !.result = x] \in Request
  BY Points DEF RequestsOK, Request
<1>2. WellFormed(r, [req[r] EXCEPT !.pc = "done", !.result = x])
  <2>1. [req[r] EXCEPT !.pc = "done", !.result = x].pc = "done"
    BY DEF RequestsOK, Request
  <2>. QED  BY <2>1, DoneWellFormed
<1>3. req' = [req EXCEPT ![r] = [req[r] EXCEPT !.pc = "done", !.result = x]]
  BY DEF Finish, RequestsOK
<1>. QED  BY <1>1, <1>2, <1>3, StepType

\* So is a check, which does one or the other.
LEMMA CheckType ==
    ASSUME RequestsOK, NEW r \in Requests, NEW pc \in ControlPoints, NEW b,
           WellFormed(r, [req[r] EXCEPT !.pc = pc]), Check(r, b, pc)
    PROVE  RequestsOK'
  BY GotoType, FinishType DEF Check, Results

\* So is moving on with the id of a row just found.
LEMMA GotoWithIDType ==
    ASSUME RequestsOK, NEW r \in Requests, NEW pc \in ControlPoints,
           NEW i \in Ids, WellFormed(r, [req[r] EXCEPT !.pc = pc, !.id = i]),
           req' = [req EXCEPT ![r].pc = pc, ![r].id = i]
    PROVE  RequestsOK'
<1>1. [req[r] EXCEPT !.pc = pc, !.id = i] \in Request
  BY DEF RequestsOK, Request
<1>2. req' = [req EXCEPT ![r] = [req[r] EXCEPT !.pc = pc, !.id = i]]
  BY DEF RequestsOK
<1>. QED  BY <1>1, <1>2, StepType

\* UPDATE integrations SET status keeps the rows typed.
LEMMA UpdateStatusType ==
    ASSUME IntegrationsOK, NEW i,
           NEW x \in {"CREATED", "ACTIVE", "REVOKED", "DELETED"},
           UpdateStatus(i, x)
    PROVE  IntegrationsOK'
  BY SMTT(20), ZenonT(40) DEF IntegrationsOK, UpdateStatus, IntegrationRow

\* INSERT INTO integrations keeps the rows typed.
LEMMA CreateRowType ==
    ASSUME IntegrationsOK, NEW i \in Ids, NEW c \in Clients \cup {None},
           NEW p \in Platforms \cup {None}, NEW a \in Locations \cup {User, None},
           NEW x \in {"CREATED", "ACTIVE"}, CreateRow(i, c, p, a, x)
    PROVE  IntegrationsOK'
  BY DEF IntegrationsOK, CreateRow, IntegrationRow

\* The fields of a typed request, one by one.
LEMMA FieldTypes ==
    ASSUME RequestsOK, NEW r \in Requests
    PROVE  /\ req[r] \in Request
           /\ req[r].pc \in ControlPoints
           /\ req[r].client \in Clients \cup {None}
           /\ req[r].platform \in Platforms \cup {None}
           /\ req[r].id \in Ids \cup {None}
           /\ req[r].state \in States \cup {None}
           /\ req[r].code \in Codes \cup {None}
           /\ req[r].location \in Locations \cup {None}
           /\ WellFormed(r, req[r])
  BY DEF RequestsOK, Request

\* A handler moves on, keeping what it holds.
LEMMA AdvanceWellFormed ==
    ASSUME RequestsOK, NEW r \in Requests, NEW pc \in ControlPoints,
           pc \in IdPoints => req[r].id \in Ids,
           pc \in CallbackPoints => req[r].pc \in CallbackPoints,
           req[r].pc \in ResolvePoints =>
               pc \in ResolvePoints \cup CallbackPoints \cup {"idle", "done"},
           req[r].pc \in CallbackPoints => pc \in CallbackPoints \cup {"idle", "done"},
           ~ IsCallback(r) \/ req[r].pc \notin {"idle", "done"}
    PROVE  WellFormed(r, [req[r] EXCEPT !.pc = pc])
<1>1. /\ [req[r] EXCEPT !.pc = pc].pc = pc
      /\ [req[r] EXCEPT !.pc = pc].id = req[r].id
      /\ [req[r] EXCEPT !.pc = pc].code = req[r].code
  BY DEF RequestsOK, Request
<1>2. WellFormed(r, req[r])
  BY DEF RequestsOK
<1>. QED  BY <1>1, <1>2 DEF WellFormed

\* The first step of a handler that takes an integration id.
LEMMA GetByIDType ==
    ASSUME RequestsOK, NEW r \in Requests, NEW op, op # "HandleCallback",
           NEW S, NEW next \in [S -> ControlPoints \ CallbackPoints],
           GetByID(r, op, next)
    PROVE  RequestsOK'
<1>1. PICK i \in Ids :
        req' = [req EXCEPT ![r] =
                  IF integration[i].status \in DOMAIN next
                  THEN [@ EXCEPT !.pc = next[integration[i].status], !.id = i]
                  ELSE [@ EXCEPT !.pc = "done", !.id = i, !.result = "err"]]
  BY DEF GetByID
<1>2. ~ IsCallback(r)
  BY DEF GetByID, Arrives, IsCallback
<1>3. DEFINE q == [req[r] EXCEPT !.pc = "done", !.id = i, !.result = "err"]
<1>4. q \in Request /\ WellFormed(r, q)
  <2>1. q \in Request
    BY Points, SMTT(20), ZenonT(40) DEF RequestsOK, Request, Results
  <2>2. q.pc = "done"
    BY DEF RequestsOK, Request
  <2>. QED  BY <2>1, <2>2, DoneWellFormed
<1>5. ASSUME NEW x \in ControlPoints \ CallbackPoints
      PROVE  LET p == [req[r] EXCEPT !.pc = x, !.id = i]
             IN  p \in Request /\ WellFormed(r, p)
  <2>. DEFINE p == [req[r] EXCEPT !.pc = x, !.id = i]
  <2>1. p \in Request /\ p.pc = x /\ p.id = i
    BY DEF RequestsOK, Request
  <2>2. WellFormed(r, p)
    BY <2>1, <1>2 DEF WellFormed
  <2>. QED  BY <2>1, <2>2
<1>. QED
  BY <1>1, <1>4, <1>5, StepType DEF RequestsOK

\* Its second step, the write.
LEMMA UpdateByIDType ==
    ASSUME TypeOK, NEW r \in Requests, NEW pc,
           NEW x \in {"CREATED", "ACTIVE", "REVOKED"}, UpdateByID(r, pc, x)
    PROVE  TypeOK'
<1>1. RequestsOK'
  BY FinishType DEF TypeOK, UpdateByID, Results
<1>2. IntegrationsOK'
  BY UpdateStatusType DEF TypeOK, UpdateByID, IntegrationsOK
<1>. QED
  BY <1>1, <1>2 DEF TypeOK, UpdateByID, EnvironmentOK, CredentialsOK, StatesOK

\* An exchange is counted.
LEMMA ExchangeType ==
    ASSUME exchanged \in [Codes -> Nat], NEW k \in Codes, Exchange(k)
    PROVE  exchanged' \in [Codes -> Nat]
  BY DEF Exchange

\* Steps that only read the tables change nothing but the request.
LEMMA ReadOnlyType ==
    ASSUME TypeOK, RequestsOK',
           UNCHANGED <<environment, tables, exchanged, redeemers>>
    PROVE  TypeOK'
  BY DEF TypeOK, EnvironmentOK, IntegrationsOK, CredentialsOK, StatesOK

\* The control points outside the callback's own.
LEMMA OtherPoints ==
    /\ {"install_platform", "install_lookup", "install_create", "begin_client",
        "begin_create", "uninstall_revoke", "uninstall_delete",
        "reconnect_update", "disconnect_update", "sync_update",
        "installed_config", "installed_create"}
          \subseteq ControlPoints \ CallbackPoints
    /\ CallbackPoints \subseteq ControlPoints
  BY DEF ControlPoints, CallbackPoints

\* The steps that move a handler on without touching what it holds.
Edges ==
    {<<"install_platform", "install_lookup">>,
     <<"install_lookup", "install_create">>,
     <<"uninstall_revoke", "uninstall_delete">>,
     <<"begin_client", "begin_create">>,
     <<"resolve_account", "resolve_config">>,
     <<"callback_platform", "callback_client">>,
     <<"callback_client", "callback_exchange">>,
     <<"callback_lookup", "callback_create">>,
     <<"callback_activate", "callback_token">>,
     <<"callback_token", "register_get">>,
     <<"register_get", "register_create">>,
     <<"register_create", "register_update">>,
     <<"installed_config", "installed_create">>}

\* Along an edge of the handlers' control flow nothing a request must hold
\* is missing.
LEMMA EdgeWellFormed ==
    ASSUME RequestsOK, NEW r \in Requests, NEW x, NEW y, <<x, y>> \in Edges,
           At(r, x)
    PROVE  y \in ControlPoints /\ WellFormed(r, [req[r] EXCEPT !.pc = y])
<1>1. y \in ControlPoints
  BY Points DEF Edges
<1>2. y \in IdPoints => req[r].id \in Ids
  <2>1. y \in IdPoints => x \in IdPoints
    BY DEF Edges, IdPoints
  <2>. QED  BY <2>1, FieldTypes DEF At, WellFormed
<1>3. /\ y \in CallbackPoints <=> x \in CallbackPoints
      /\ x \in ResolvePoints => y \in ResolvePoints
      /\ x \notin {"idle", "done"}
  BY DEF Edges, CallbackPoints, ResolvePoints
<1>. QED  BY <1>1, <1>2, <1>3, AdvanceWellFormed DEF At

\* Moving along an edge is a typed step.
LEMMA GotoEdge ==
    ASSUME RequestsOK, NEW r \in Requests, NEW x, NEW y, <<x, y>> \in Edges,
           At(r, x), Goto(r, y)
    PROVE  RequestsOK'
  BY EdgeWellFormed, GotoType

\* And so is a check that guards an edge.
LEMMA CheckEdge ==
    ASSUME RequestsOK, NEW r \in Requests, NEW x, NEW y, <<x, y>> \in Edges,
           NEW b, At(r, x), Check(r, b, y)
    PROVE  RequestsOK'
  BY EdgeWellFormed, CheckType

\* The RPCs of integrations_service.go keep the types.
LEMMA ManageIntegrationType ==
    ASSUME TypeOK, NEW r \in Requests, ManageIntegration(r)
    PROVE  TypeOK'
<1>0. RequestsOK /\ IntegrationsOK
  BY DEF TypeOK
<1>1. CASE InstallIntegration(r)
  <2>1. PICK c \in Clients, p \in Platforms, l \in Locations \cup {None} :
         req' = [req EXCEPT ![r] =
                   [@ EXCEPT !.pc = IF clientStatus[c] = "ACTIVE"
                                    THEN "install_platform" ELSE "done",
                             !.result = IF clientStatus[c] = "ACTIVE"
                                        THEN "none" ELSE "err",
                             !.client = c, !.platform = p, !.location = l]]
    BY <1>1 DEF InstallIntegration
  <2>2. ASSUME NEW pc \in {"install_platform", "done"}, NEW x \in Results
        PROVE  LET q == [req[r] EXCEPT !.pc = pc, !.result = x, !.client = c,
                                       !.platform = p, !.location = l]
               IN  q \in Request /\ WellFormed(r, q)
    <3>. DEFINE q == [req[r] EXCEPT !.pc = pc, !.result = x, !.client = c,
                                    !.platform = p, !.location = l]
    <3>1. q \in Request /\ q.pc = pc
      BY <1>0, Points, SMTT(20), ZenonT(40) DEF RequestsOK, Request
    <3>2. ~ IsCallback(r)
      BY <1>1 DEF InstallIntegration, Arrives, IsCallback
    <3>. QED  BY <3>1, <3>2 DEF WellFormed, IdPoints, CallbackPoints
  <2>3. RequestsOK'
    BY <1>0, <2>1, <2>2, StepType DEF RequestsOK, Results
  <2>. QED  BY <1>1, <2>3, ReadOnlyType DEF InstallIntegration
<1>2. CASE InstallPlatform(r)
  <2>1. RequestsOK'
    BY <1>0, <1>2, CheckEdge DEF InstallPlatform, Edges
  <2>. QED  BY <1>2, <2>1, ReadOnlyType DEF InstallPlatform
<1>3. CASE InstallLookup(r)
  <2>1. RequestsOK'
    BY <1>0, <1>3, CheckEdge DEF InstallLookup, Edges
  <2>. QED  BY <1>3, <2>1, ReadOnlyType DEF InstallLookup
<1>4. CASE InstallCreate(r)
  <2>1. ASSUME NEW i \in Ids,
               req' = [req EXCEPT ![r].pc = "done", ![r].result = "ok",
                                  ![r].id = i]
        PROVE  RequestsOK'
    <3>. DEFINE q == [req[r] EXCEPT !.pc = "done", !.result = "ok", !.id = i]
    <3>1. q \in Request /\ q.pc = "done"
      BY <1>0, Points DEF RequestsOK, Request, Results
    <3>2. req' = [req EXCEPT ![r] = q]
      BY <1>0, <2>1 DEF RequestsOK
    <3>. HIDE DEF q
    <3>. QED  BY <1>0, <3>1, <3>2, DoneWellFormed, StepType
  <2>2. RequestsOK'
    BY <1>0, <1>4, <2>1, FinishType DEF InstallCreate, Results
  <2>3. IntegrationsOK'
    BY <1>0, <1>4, FieldTypes, CreateRowType DEF InstallCreate, IntegrationsOK
  <2>. QED
    BY <1>4, <2>2, <2>3
    DEF InstallCreate, TypeOK, EnvironmentOK, CredentialsOK, StatesOK
<1>5. CASE ReconnectIntegration(r)
  <2>1. RequestsOK'
    BY <1>0, <1>5, GetByIDType, OtherPoints DEF ReconnectIntegration
  <2>. QED  BY <1>5, <2>1, ReadOnlyType DEF ReconnectIntegration, GetByID
<1>6. CASE ReconnectUpdate(r)
  BY <1>6, UpdateByIDType DEF ReconnectUpdate
<1>7. CASE DisconnectIntegration(r)
  <2>1. RequestsOK'
    BY <1>0, <1>7, GetByIDType, OtherPoints DEF DisconnectIntegration
  <2>. QED  BY <1>7, <2>1, ReadOnlyType DEF DisconnectIntegration, GetByID
<1>8. CASE DisconnectUpdate(r)
  BY <1>8, UpdateByIDType DEF DisconnectUpdate
<1>9. CASE SyncIntegration(r)
  <2>1. RequestsOK'
    BY <1>0, <1>9, GetByIDType, OtherPoints DEF SyncIntegration
  <2>. QED  BY <1>9, <2>1, ReadOnlyType DEF SyncIntegration, GetByID
<1>10. CASE SyncUpdate(r)
  BY <1>10, UpdateByIDType DEF SyncUpdate
<1>11. CASE UninstallIntegration(r)
  <2>1. RequestsOK'
    BY <1>0, <1>11, GetByIDType, OtherPoints DEF UninstallIntegration
  <2>. QED  BY <1>11, <2>1, ReadOnlyType DEF UninstallIntegration, GetByID
<1>12. CASE UninstallRevoke(r)
  <2>1. RequestsOK'
    BY <1>0, <1>12, GotoEdge, FinishType DEF UninstallRevoke, Edges, Results
  <2>2. IntegrationsOK'
    BY <1>0, <1>12, UpdateStatusType DEF UninstallRevoke, IntegrationsOK
  <2>. QED
    BY <1>12, <2>1, <2>2
    DEF UninstallRevoke, TypeOK, EnvironmentOK, CredentialsOK, StatesOK
<1>13. CASE UninstallDelete(r)
  <2>1. RequestsOK'
    BY <1>0, <1>13, FinishType DEF UninstallDelete, Results
  <2>2. IntegrationsOK'
    BY <1>0, <1>13, UpdateStatusType DEF UninstallDelete, IntegrationsOK
  <2>3. CredentialsOK'
    BY <1>13 DEF UninstallDelete, TypeOK, CredentialsOK
  <2>. QED
    BY <1>13, <2>1, <2>2, <2>3
    DEF UninstallDelete, TypeOK, EnvironmentOK, StatesOK
<1>. QED
  BY <1>1, <1>2, <1>3, <1>4, <1>5, <1>6, <1>7, <1>8, <1>9, <1>10, <1>11,
     <1>12, <1>13 DEF ManageIntegration

\* The client and platform of a resolved row, and the id, are well typed.
LEMMA ResolvedType ==
    ASSUME RequestsOK, IntegrationsOK, NEW r \in Requests, NEW i \in Ids,
           req[r].pc \in ResolvePoints, Resolved(r, i)
    PROVE  RequestsOK'
<1>1. integration[i].client \in Clients \cup {None}
      /\ integration[i].platform \in Platforms \cup {None}
  BY DEF IntegrationsOK, IntegrationRow
<1>2. CASE IsCallback(r)
  <2>. DEFINE q == [req[r] EXCEPT !.pc = "callback_platform", !.id = None,
                                  !.client = integration[i].client,
                                  !.platform = integration[i].platform]
  <2>1. q \in Request /\ q.pc = "callback_platform" /\ q.code = req[r].code
    BY <1>1, Points, SMTT(20), ZenonT(40) DEF RequestsOK, Request
  <2>2. req[r].code \in Codes
    BY <1>2, FieldTypes DEF WellFormed, ResolvePoints
  <2>3. req' = [req EXCEPT ![r] = q]
    BY <1>2 DEF Resolved, RequestsOK, IsCallback
  <2>4. WellFormed(r, q)
    BY <1>2, <2>1, <2>2 DEF WellFormed, IdPoints, CallbackPoints
  <2>. QED  BY <2>1, <2>3, <2>4, StepType
<1>3. CASE ~ IsCallback(r)
  <2>. DEFINE q == [req[r] EXCEPT !.pc = "installed_config", !.id = i]
  <2>1. q \in Request /\ q.pc = "installed_config" /\ q.id = i
    BY Points DEF RequestsOK, Request
  <2>2. req' = [req EXCEPT ![r] = q]
    BY <1>3 DEF Resolved, RequestsOK, IsCallback
  <2>3. WellFormed(r, q)
    BY <1>3, <2>1 DEF WellFormed, CallbackPoints
  <2>. QED  BY <2>1, <2>2, <2>3, StepType
<1>. QED  BY <1>2, <1>3

\* BeginAuthorization keeps the types.
LEMMA BeginType ==
    ASSUME TypeOK, NEW r \in Requests,
           BeginAuthorization(r) \/ BeginClient(r) \/ BeginCreate(r)
    PROVE  TypeOK'
<1>0. RequestsOK /\ StatesOK
  BY DEF TypeOK
<1>1. CASE BeginAuthorization(r)
  <2>1. PICK c \in Clients, p \in Platforms :
         req' = [req EXCEPT ![r] =
                   [@ EXCEPT !.pc = IF platformEnabled[p]
                                    THEN "begin_client" ELSE "done",
                             !.result = IF platformEnabled[p]
                                        THEN "none" ELSE "err",
                             !.client = c, !.platform = p]]
    BY <1>1 DEF BeginAuthorization
  <2>2. ASSUME NEW pc \in {"begin_client", "done"}, NEW x \in Results
        PROVE  LET q == [req[r] EXCEPT !.pc = pc, !.result = x, !.client = c,
                                       !.platform = p]
               IN  q \in Request /\ WellFormed(r, q)
    <3>. DEFINE q == [req[r] EXCEPT !.pc = pc, !.result = x, !.client = c,
                                    !.platform = p]
    <3>1. q \in Request /\ q.pc = pc
      BY <1>0, Points DEF RequestsOK, Request
    <3>2. ~ IsCallback(r)
      BY <1>1 DEF BeginAuthorization, Arrives, IsCallback
    <3>. QED  BY <3>1, <3>2 DEF WellFormed, IdPoints, CallbackPoints
  <2>3. RequestsOK'
    BY <1>0, <2>1, <2>2, StepType DEF RequestsOK, Results
  <2>. QED  BY <1>1, <2>3, ReadOnlyType DEF BeginAuthorization
<1>2. CASE BeginClient(r)
  <2>. DEFINE b == /\ clientStatus[req[r].client] = "ACTIVE"
                   /\ req[r].platform \in Supported
  <2>1. At(r, "begin_client") /\ Check(r, b, "begin_create")
    BY <1>2 DEF BeginClient
  <2>. HIDE DEF b
  <2>2. RequestsOK'
    BY <1>0, <2>1, CheckEdge DEF Edges
  <2>. QED  BY <1>2, <2>2, ReadOnlyType DEF BeginClient
<1>3. CASE BeginCreate(r)
  <2>1. ASSUME NEW s \in States,
               req' = [req EXCEPT ![r].pc = "done", ![r].result = "ok",
                                  ![r].state = s]
        PROVE  RequestsOK'
    <3>. DEFINE q == [req[r] EXCEPT !.pc = "done", !.result = "ok", !.state = s]
    <3>1. q \in Request /\ q.pc = "done"
      BY <1>0, Points DEF RequestsOK, Request, Results
    <3>2. req' = [req EXCEPT ![r] = q]
      BY <1>0, <2>1 DEF RequestsOK
    <3>. HIDE DEF q
    <3>. QED  BY <1>0, <3>1, <3>2, DoneWellFormed, StepType
  <2>2. RequestsOK'
    BY <1>0, <1>3, <2>1, FinishType DEF BeginCreate, Results
  <2>3. StatesOK'
    BY <1>0, <1>3, FieldTypes DEF BeginCreate, StatesOK, OAuthStateRow
  <2>. QED
    BY <1>3, <2>2, <2>3
    DEF BeginCreate, TypeOK, EnvironmentOK, IntegrationsOK, CredentialsOK
<1>. QED  BY <1>1, <1>2, <1>3

\* A callback holds its code from its first step on.
LEMMA CallbackStartType ==
    ASSUME TypeOK, NEW r \in Requests,
           CallbackWithState(r) \/ CallbackWithoutState(r)
    PROVE  TypeOK'
<1>0. RequestsOK /\ StatesOK /\ IsCallback(r)
  BY DEF TypeOK, CallbackWithState, CallbackWithoutState, Arrives, IsCallback
<1>1. CASE CallbackWithState(r)
  <2>1. ASSUME NEW k \in Codes, NEW s \in States,
               req' = [req EXCEPT ![r] =
                         [@ EXCEPT !.pc = "callback_platform",
                                   !.code = k, !.state = s,
                                   !.client = oauthState[s].client,
                                   !.platform = oauthState[s].platform]]
        PROVE  RequestsOK'
    <3>. DEFINE q == [req[r] EXCEPT !.pc = "callback_platform",
                                    !.code = k, !.state = s,
                                    !.client = oauthState[s].client,
                                    !.platform = oauthState[s].platform]
    <3>1. /\ oauthState[s].client \in Clients \cup {None}
          /\ oauthState[s].platform \in Platforms \cup {None}
      BY <1>0 DEF StatesOK, OAuthStateRow
    <3>2. q \in Request /\ q.pc = "callback_platform" /\ q.code = k
      BY <1>0, <3>1, Points DEF RequestsOK, Request
    <3>3. req' = [req EXCEPT ![r] = q]
      BY <1>0, <2>1 DEF RequestsOK
    <3>4. WellFormed(r, q)
      BY <1>0, <3>2 DEF WellFormed, IdPoints, CallbackPoints
    <3>. HIDE DEF q
    <3>. QED  BY <1>0, <3>2, <3>3, <3>4, StepType
  <2>2. RequestsOK'
    BY <1>0, <1>1, <2>1, FinishType DEF CallbackWithState, Results
  <2>3. \/ UNCHANGED <<oauthState, redeemers>>
        \/ \E s \in States :
             /\ oauthState' = [oauthState EXCEPT ![s].phase = "consumed"]
             /\ redeemers' = [redeemers EXCEPT ![s] = @ \cup {r}]
    BY <1>1 DEF CallbackWithState
  <2>4. oauthState' \in [States -> OAuthStateRow]
    BY <1>0, <2>3, SMTT(20), ZenonT(40) DEF StatesOK, OAuthStateRow
  <2>5. redeemers' \in [States -> SUBSET Requests]
    BY <1>0, <2>3 DEF StatesOK
  <2>. QED
    BY <1>1, <2>2, <2>4, <2>5 DEF CallbackWithState, TypeOK, StatesOK,
       EnvironmentOK, IntegrationsOK, CredentialsOK
<1>2. CASE CallbackWithoutState(r)
  <2>1. ASSUME NEW k \in Codes,
               req' = [req EXCEPT ![r] =
                         [@ EXCEPT !.pc = IF CodeLocation[k] = None
                                          THEN "done" ELSE "resolve_account",
                                   !.result = IF CodeLocation[k] = None
                                              THEN "err" ELSE "none",
                                   !.code = k, !.location = CodeLocation[k]]]
        PROVE  RequestsOK'
    <3>1. CodeLocation[k] \in Locations \cup {None}
      BY ConstantsAssumption
    <3>2. ASSUME NEW pc \in {"resolve_account", "done"}, NEW x \in Results
          PROVE  LET q == [req[r] EXCEPT !.pc = pc, !.result = x, !.code = k,
                                         !.location = CodeLocation[k]]
                 IN  q \in Request /\ WellFormed(r, q)
      <4>. DEFINE q == [req[r] EXCEPT !.pc = pc, !.result = x, !.code = k,
                                      !.location = CodeLocation[k]]
      <4>1. q \in Request /\ q.pc = pc /\ q.code = k
        BY <1>0, <3>1, Points DEF RequestsOK, Request
      <4>. HIDE DEF q
      <4>2. WellFormed(r, q)
        BY <4>1 DEF WellFormed, IdPoints, CallbackPoints, ResolvePoints
      <4>. QED  BY <4>1, <4>2 DEF q
    <3>. QED  BY <1>0, <2>1, <3>2, StepType DEF RequestsOK, Results
  <2>2. RequestsOK'
    BY <1>0, <1>2, <2>1, FinishType DEF CallbackWithoutState, Results
  <2>3. CredentialsOK'
    BY <1>2, ExchangeType DEF CallbackWithoutState, TypeOK, CredentialsOK
  <2>. QED
    BY <1>2, <2>2, <2>3
    DEF CallbackWithoutState, TypeOK, EnvironmentOK, IntegrationsOK, StatesOK
<1>. QED  BY <1>1, <1>2

\* Resolving a location keeps the types.
LEMMA ResolveType ==
    ASSUME TypeOK, NEW r \in Requests,
           ResolveAccount(r) \/ ResolveConfig(r) \/ ResolveID(r)
    PROVE  TypeOK'
<1>0. RequestsOK /\ IntegrationsOK
  BY DEF TypeOK
<1>1. CASE ResolveAccount(r)
  <2>1. RequestsOK'
    BY <1>0, <1>1, ResolvedType, GotoEdge
    DEF ResolveAccount, RowsOfAccount, At, ResolvePoints, Edges
  <2>. QED  BY <1>1, <2>1, ReadOnlyType DEF ResolveAccount
<1>2. CASE ResolveConfig(r)
  <2>1. ASSUME NEW i \in Ids,
               req' = [req EXCEPT ![r].pc = "resolve_id", ![r].id = i]
        PROVE  RequestsOK'
    <3>. DEFINE q == [req[r] EXCEPT !.pc = "resolve_id", !.id = i]
    <3>1. q.pc = "resolve_id" /\ q.id = i /\ q.code = req[r].code
      BY <1>0 DEF RequestsOK, Request
    <3>2. IsCallback(r) => req[r].code \in Codes
      BY <1>0, <1>2, FieldTypes
      DEF ResolveConfig, At, WellFormed, ResolvePoints
    <3>3. WellFormed(r, q)
      BY <3>1, <3>2 DEF WellFormed, IdPoints, CallbackPoints, ResolvePoints
    <3>. QED  BY <1>0, <2>1, <3>3, Points, GotoWithIDType
  <2>2. RequestsOK'
    BY <1>0, <1>2, <2>1, FinishType DEF ResolveConfig, ConfigsOf, Results
  <2>. QED  BY <1>2, <2>2, ReadOnlyType DEF ResolveConfig
<1>3. CASE ResolveID(r)
  <2>1. req[r].id \in Ids
    BY <1>0, <1>3, FieldTypes DEF ResolveID, At, WellFormed, IdPoints
  <2>2. RequestsOK'
    BY <1>0, <1>3, <2>1, ResolvedType, FinishType
    DEF ResolveID, At, ResolvePoints, Results
  <2>. QED  BY <1>3, <2>2, ReadOnlyType DEF ResolveID
<1>. QED  BY <1>1, <1>2, <1>3

\* ProcessCallback keeps the types.
LEMMA ProcessCallbackType ==
    ASSUME TypeOK, NEW r \in Requests,
           \/ CallbackPlatform(r) \/ CallbackClient(r) \/ CallbackExchange(r)
           \/ CallbackLookup(r) \/ CallbackActivate(r) \/ CallbackCreate(r)
           \/ CallbackToken(r)
    PROVE  TypeOK'
<1>0. RequestsOK /\ IntegrationsOK /\ CredentialsOK
  BY DEF TypeOK
<1>a. IsCallback(r) /\ req[r].code \in Codes
  <2>1. req[r].pc \in CallbackPoints
    BY DEF CallbackPlatform, CallbackClient, CallbackExchange, CallbackLookup,
           CallbackActivate, CallbackCreate, CallbackToken, At, CallbackPoints
  <2>. QED  BY <1>0, <2>1, FieldTypes DEF WellFormed
\* The id found or created is recorded with the next control point.
<1>b. ASSUME NEW i \in Ids, NEW pc \in {"callback_activate", "callback_token"},
             req' = [req EXCEPT ![r].pc = pc, ![r].id = i]
      PROVE  RequestsOK'
  <2>. DEFINE q == [req[r] EXCEPT !.pc = pc, !.id = i]
  <2>1. q.pc = pc /\ q.id = i /\ q.code = req[r].code
    BY <1>0 DEF RequestsOK, Request
  <2>2. pc \in CallbackPoints /\ pc \in ControlPoints
    BY Points DEF CallbackPoints
  <2>3. WellFormed(r, q)
    BY <1>a, <2>1, <2>2 DEF WellFormed
  <2>. QED  BY <1>0, <1>b, <2>2, <2>3, GotoWithIDType
<1>1. CASE CallbackPlatform(r)
  <2>. DEFINE b == /\ platformEnabled[req[r].platform]
                   /\ req[r].platform \in Supported
  <2>1. At(r, "callback_platform") /\ Check(r, b, "callback_client")
    BY <1>1 DEF CallbackPlatform
  <2>. HIDE DEF b
  <2>2. RequestsOK'
    BY <1>0, <2>1, CheckEdge DEF Edges
  <2>. QED  BY <1>1, <2>2, ReadOnlyType DEF CallbackPlatform
<1>2. CASE CallbackClient(r)
  <2>1. RequestsOK'
    BY <1>0, <1>2, CheckEdge DEF CallbackClient, Edges
  <2>. QED  BY <1>2, <2>1, ReadOnlyType DEF CallbackClient
<1>3. CASE CallbackExchange(r)
  <2>. DEFINE k == req[r].code
              q == [req[r] EXCEPT !.pc = "callback_lookup",
                                  !.location = CodeLocation[k]]
  <2>1. CodeLocation[k] \in Locations \cup {None}
    BY <1>a, ConstantsAssumption
  <2>2. q \in Request /\ q.pc = "callback_lookup" /\ q.code = k
    BY <1>0, <2>1, Points DEF RequestsOK, Request
  <2>3. WellFormed(r, q)
    BY <1>a, <2>2 DEF WellFormed, IdPoints, CallbackPoints
  <2>4. ASSUME req' = [req EXCEPT ![r].pc = "callback_lookup",
                                  ![r].location = CodeLocation[k]]
        PROVE  RequestsOK'
    <3>1. req' = [req EXCEPT ![r] = q]
      BY <1>0, <2>4 DEF RequestsOK
    <3>. QED  BY <1>0, <2>2, <2>3, <3>1, StepType
  <2>5. RequestsOK'
    BY <1>0, <1>3, <2>4, FinishType DEF CallbackExchange, Results
  <2>6. CredentialsOK'
    BY <1>0, <1>a, <1>3, ExchangeType DEF CallbackExchange, CredentialsOK
  <2>. QED
    BY <1>3, <2>5, <2>6
    DEF CallbackExchange, TypeOK, EnvironmentOK, IntegrationsOK, StatesOK
<1>4. CASE CallbackLookup(r)
  <2>1. RequestsOK'
    BY <1>0, <1>4, <1>b, GotoEdge, FinishType
    DEF CallbackLookup, RowsOf, Edges, Results
  <2>. QED  BY <1>4, <2>1, ReadOnlyType DEF CallbackLookup
<1>5. CASE CallbackActivate(r)
  <2>1. RequestsOK'
    BY <1>0, <1>5, GotoEdge, FinishType DEF CallbackActivate, Edges, Results
  <2>2. IntegrationsOK'
    BY <1>0, <1>5, UpdateStatusType DEF CallbackActivate, IntegrationsOK
  <2>. QED
    BY <1>5, <2>1, <2>2
    DEF CallbackActivate, TypeOK, EnvironmentOK, CredentialsOK, StatesOK
<1>6. CASE CallbackCreate(r)
  <2>1. RequestsOK'
    BY <1>0, <1>6, <1>b, FinishType DEF CallbackCreate, Results
  <2>2. IntegrationsOK'
    BY <1>0, <1>6, FieldTypes, CreateRowType DEF CallbackCreate, IntegrationsOK
  <2>. QED
    BY <1>6, <2>1, <2>2
    DEF CallbackCreate, TypeOK, EnvironmentOK, CredentialsOK, StatesOK
<1>7. CASE CallbackToken(r)
  <2>1. RequestsOK'
    BY <1>0, <1>7, GotoEdge, FinishType DEF CallbackToken, Edges, Results
  <2>2. CredentialsOK'
    BY <1>0, <1>a, <1>7 DEF CallbackToken, CredentialsOK
  <2>. QED
    BY <1>7, <2>1, <2>2
    DEF CallbackToken, TypeOK, EnvironmentOK, IntegrationsOK, StatesOK
<1>. QED  BY <1>1, <1>2, <1>3, <1>4, <1>5, <1>6, <1>7

\* RegisterProvider and the INSTALL handler keep the types.
LEMMA RegisterType ==
    ASSUME TypeOK, NEW r \in Requests, Register(r)
    PROVE  TypeOK'
<1>0. RequestsOK /\ IntegrationsOK /\ CredentialsOK
  BY DEF TypeOK
<1>a. req[r].location \in Locations \cup {None}
  BY <1>0, FieldTypes
<1>1. CASE RegisterGet(r)
  <2>1. RequestsOK'
    BY <1>0, <1>1, GotoEdge, FinishType DEF RegisterGet, Edges, Results
  <2>. QED  BY <1>1, <2>1, ReadOnlyType DEF RegisterGet
<1>2. CASE RegisterCreate(r)
  <2>1. RequestsOK'
    BY <1>0, <1>2, GotoEdge, FinishType DEF RegisterCreate, Edges, Results
  <2>2. CredentialsOK'
    BY <1>0, <1>a, <1>2 DEF RegisterCreate, CredentialsOK, NewAPIKey
  <2>. QED
    BY <1>2, <2>1, <2>2
    DEF RegisterCreate, TypeOK, EnvironmentOK, IntegrationsOK, StatesOK
<1>3. CASE RegisterUpdate(r)
  <2>1. RequestsOK'
    BY <1>0, <1>3, FinishType DEF RegisterUpdate, Results
  <2>2. CredentialsOK'
    BY <1>0, <1>a, <1>3 DEF RegisterUpdate, CredentialsOK, NewAPIKey
  <2>. QED
    BY <1>3, <2>1, <2>2
    DEF RegisterUpdate, TypeOK, EnvironmentOK, IntegrationsOK, StatesOK
<1>4. CASE HandleIntegrationInstalled(r)
  <2>1. PICK l \in Locations :
          req' = [req EXCEPT ![r].pc = "resolve_account", ![r].location = l]
    BY <1>4 DEF HandleIntegrationInstalled
  <2>. DEFINE q == [req[r] EXCEPT !.pc = "resolve_account", !.location = l]
  <2>2. q \in Request /\ q.pc = "resolve_account"
    BY <1>0, Points DEF RequestsOK, Request
  <2>3. ~ IsCallback(r)
    BY <1>4 DEF HandleIntegrationInstalled, Arrives, IsCallback
  <2>4. WellFormed(r, q)
    BY <2>2, <2>3 DEF WellFormed, IdPoints, CallbackPoints
  <2>5. req' = [req EXCEPT ![r] = q]
    BY <1>0, <2>1 DEF RequestsOK
  <2>6. RequestsOK'
    BY <1>0, <2>2, <2>4, <2>5, StepType
  <2>. QED  BY <1>4, <2>6, ReadOnlyType DEF HandleIntegrationInstalled
<1>5. CASE InstalledConfig(r)
  <2>1. RequestsOK'
    BY <1>0, <1>5, GotoEdge, FinishType DEF InstalledConfig, Edges, Results
  <2>. QED  BY <1>5, <2>1, ReadOnlyType DEF InstalledConfig
<1>6. CASE InstalledCreate(r)
  <2>1. RequestsOK'
    BY <1>0, <1>6, FinishType DEF InstalledCreate, Results
  <2>2. CredentialsOK'
    BY <1>0, <1>a, <1>6 DEF InstalledCreate, CredentialsOK
  <2>. QED
    BY <1>6, <2>1, <2>2
    DEF InstalledCreate, TypeOK, EnvironmentOK, IntegrationsOK, StatesOK
<1>. QED  BY <1>1, <1>2, <1>3, <1>4, <1>5, <1>6 DEF Register

\* The steps of no request in particular.
Environment ==
    \/ \E s \in States : StateExpires(s)
    \/ \E c \in Clients : SetClientStatus(c) \/ DeleteClient(c)
    \/ \E p \in Platforms : SetPlatformEnabled(p)

\* Writes to clients, platforms and the clock keep the types.
LEMMA EnvironmentType ==
    ASSUME TypeOK, Environment
    PROVE  TypeOK'
<1>1. EnvironmentOK'
  BY DEF Environment, StateExpires, SetClientStatus, DeleteClient,
         SetPlatformEnabled, TypeOK, EnvironmentOK, ClientStatus
<1>2. StatesOK'
  <2>1. ASSUME NEW s \in States, StateExpires(s) PROVE StatesOK'
    BY <2>1 DEF StateExpires, TypeOK, StatesOK, OAuthStateRow
  <2>2. ASSUME NEW c \in Clients, DeleteClient(c) PROVE StatesOK'
    <3>1. StatesOK
      BY DEF TypeOK
    <3>2. \A s \in States : [oauthState[s] EXCEPT !.phase = "DELETED"]
                               \in OAuthStateRow
      BY <3>1 DEF StatesOK, OAuthStateRow
    <3>. QED  BY <2>2, <3>1, <3>2 DEF DeleteClient, StatesOK
  <2>. QED  BY <2>1, <2>2
       DEF Environment, SetClientStatus, SetPlatformEnabled, TypeOK, StatesOK
<1>3. UNCHANGED <<integration, token, configLocation, configKey, exchanged, req>>
  BY DEF Environment, StateExpires, SetClientStatus, DeleteClient,
         SetPlatformEnabled
<1>. QED
  BY <1>1, <1>2, <1>3 DEF TypeOK, IntegrationsOK, CredentialsOK, RequestsOK,
     WellFormed, IsCallback

\* A request that fails is left typed.
LEMMA FailType ==
    ASSUME TypeOK, NEW r \in Requests, Fail(r)
    PROVE  TypeOK'
<1>1. RequestsOK'
  BY FinishType DEF Fail, TypeOK, Results
<1>. QED  BY <1>1, ReadOnlyType DEF Fail

\* The empty tables are typed.
LEMMA InitType == Init => TypeOK
<1>. SUFFICES ASSUME Init PROVE TypeOK
  OBVIOUS
<1>1. EnvironmentOK /\ IntegrationsOK /\ CredentialsOK /\ StatesOK
  BY DEF Init, EnvironmentOK, ClientStatus, IntegrationsOK, IntegrationRow,
         CredentialsOK, StatesOK, OAuthStateRow
<1>2. req \in [Requests -> Request]
  BY Points DEF Init, Request, Results
<1>3. \A r \in Requests : req[r].pc = "idle"
  BY DEF Init
<1>4. \A r \in Requests : WellFormed(r, req[r])
  BY <1>3 DEF WellFormed, IdPoints, CallbackPoints
<1>. QED  BY <1>1, <1>2, <1>4 DEF TypeOK, RequestsOK

\* Every step keeps the types.
LEMMA NextType == TypeOK /\ [Next]_vars => TypeOK'
<1>. SUFFICES ASSUME TypeOK, [Next]_vars PROVE TypeOK'
  OBVIOUS
<1>1. CASE UNCHANGED vars
  BY <1>1 DEF vars, TypeOK, EnvironmentOK, IntegrationsOK, CredentialsOK,
     StatesOK, RequestsOK, WellFormed, IsCallback
<1>2. CASE Environment
  BY <1>2, EnvironmentType
<1>3. ASSUME NEW r \in Requests,
             ManageIntegration(r) \/ Authorize(r) \/ Register(r) \/ Fail(r)
      PROVE  TypeOK'
  BY <1>3, ManageIntegrationType, BeginType, CallbackStartType, ResolveType,
     ProcessCallbackType, RegisterType, FailType DEF Authorize
<1>. QED  BY <1>1, <1>2, <1>3 DEF Next, Environment

\* Whatever requests run concurrently, every table row keeps the shape of its
\* schema and every handler holds, at each of its statements, the id or the
\* code that the statement needs.
THEOREM TypeCorrect == Spec => []TypeOK
<1>. QED  BY InitType, NextType, PTL DEF Spec

-------------------------------------------------------------------------------
(* A state is redeemed once *)

\* Every step keeps consumed what let a callback through.
LEMMA ConsumedNext ==
    ASSUME TypeOK, ConsumedStates, [Next]_vars
    PROVE  ConsumedStates'
<1>0. StatesOK
  BY DEF TypeOK
<1>1. CASE UNCHANGED <<oauthState, redeemers>>
  BY <1>1 DEF ConsumedStates, StateRedeemedOnce
<1>2. ASSUME NEW r \in Requests, BeginCreate(r) PROVE ConsumedStates'
  \* A fresh state has no redeemer: its phase was "NONE".
  BY <1>0, <1>2 DEF BeginCreate, ConsumedStates, StateRedeemedOnce, StatesOK,
     OAuthStateRow
<1>3. ASSUME NEW r \in Requests, CallbackWithState(r) PROVE ConsumedStates'
  <2>1. CASE UNCHANGED <<oauthState, redeemers>>
    BY <2>1, <1>1
  <2>2. ASSUME NEW s \in States, Consumable(s),
               oauthState' = [oauthState EXCEPT ![s].phase = "consumed"],
               redeemers' = [redeemers EXCEPT ![s] = @ \cup {r}]
        PROVE  ConsumedStates'
    \* An open state has not let anyone through yet.
    <3>1. redeemers[s] = {}
      BY <2>2 DEF ConsumedStates, Consumable
    <3>2. \A t \in States : redeemers'[t] = IF t = s THEN {r} ELSE redeemers[t]
      BY <1>0, <2>2, <3>1 DEF StatesOK
    <3>3. \A t \in States : oauthState'[t].phase =
                    IF t = s THEN "consumed" ELSE oauthState[t].phase
      BY <1>0, <2>2 DEF StatesOK, OAuthStateRow
    <3>. QED  BY <3>2, <3>3 DEF ConsumedStates, StateRedeemedOnce
  <2>. QED  BY <1>3, <2>1, <2>2 DEF CallbackWithState
<1>4. ASSUME NEW s \in States, StateExpires(s) PROVE ConsumedStates'
  BY <1>0, <1>4 DEF StateExpires, ConsumedStates, StateRedeemedOnce, StatesOK,
     OAuthStateRow
<1>5. ASSUME NEW c \in Clients, DeleteClient(c) PROVE ConsumedStates'
  BY <1>0, <1>5 DEF DeleteClient, ConsumedStates, StateRedeemedOnce, StatesOK,
     OAuthStateRow
<1>6. ASSUME NEW r \in Requests, ManageIntegration(r) PROVE ConsumedStates'
  BY <1>1, <1>6 DEF ManageIntegration, InstallIntegration, InstallPlatform,
     InstallLookup, InstallCreate, ReconnectIntegration, ReconnectUpdate,
     DisconnectIntegration, DisconnectUpdate, SyncIntegration, SyncUpdate,
     UninstallIntegration, UninstallRevoke, UninstallDelete, GetByID, UpdateByID
<1>7. ASSUME NEW r \in Requests, Authorize(r) PROVE ConsumedStates'
  BY <1>1, <1>2, <1>3, <1>7 DEF Authorize, BeginAuthorization, BeginClient,
     CallbackWithoutState, ResolveAccount, ResolveConfig, ResolveID,
     CallbackPlatform, CallbackClient, CallbackExchange, CallbackLookup,
     CallbackActivate, CallbackCreate, CallbackToken
<1>8. ASSUME NEW r \in Requests, Register(r) \/ Fail(r) PROVE ConsumedStates'
  BY <1>1, <1>8 DEF Register, Fail, RegisterGet, RegisterCreate,
     RegisterUpdate, HandleIntegrationInstalled, InstalledConfig, InstalledCreate
<1>9. ASSUME NEW c \in Clients, SetClientStatus(c) PROVE ConsumedStates'
  BY <1>1, <1>9 DEF SetClientStatus
<1>10. ASSUME NEW p \in Platforms, SetPlatformEnabled(p) PROVE ConsumedStates'
  BY <1>1, <1>10 DEF SetPlatformEnabled
<1>. QED  BY <1>1, <1>4, <1>5, <1>6, <1>7, <1>8, <1>9, <1>10 DEF Next, vars

\* ConsumeOAuthState stops replays: for any number of callbacks, states and
\* clients, no state ever lets two callbacks past HandleCallback's check.
THEOREM RedeemedOnce == Spec => []StateRedeemedOnce
<1>1. Init => ConsumedStates
  BY DEF Init, ConsumedStates, StateRedeemedOnce
<1>2. TypeOK /\ ConsumedStates /\ [Next]_vars => ConsumedStates'
  BY ConsumedNext
<1>3. ConsumedStates => StateRedeemedOnce
  BY DEF ConsumedStates
<1>. QED  BY <1>1, <1>2, <1>3, TypeCorrect, PTL DEF Spec

-------------------------------------------------------------------------------
(* What one step leaves alone *)

\* A step changes the request of its own handler only, and a finished handler
\* does not move.
Moves(r) == /\ ~ At(r, "done")
            /\ \A t \in Requests \ {r} : req'[t] = req[t]

\* A request's step leaves the other requests alone.
LEMMA OwnRequest ==
    ASSUME RequestsOK, NEW r \in Requests,
           \/ \E pc, b : Goto(r, pc) \/ Finish(r, b) \/ Check(r, b, pc)
           \/ \E q : req' = [req EXCEPT ![r] = q]
    PROVE  \A t \in Requests \ {r} : req'[t] = req[t]
  BY DEF RequestsOK, Goto, Finish, Check

\* The RPCs of integrations_service.go run in requests of their own.
LEMMA ManageMoves ==
    ASSUME TypeOK, NEW r \in Requests, ManageIntegration(r)
    PROVE  ~ IsCallback(r) /\ Moves(r)
<1>0. RequestsOK
  BY DEF TypeOK
<1>1. ~ IsCallback(r) /\ ~ At(r, "done")
  <2>1. CASE \/ InstallIntegration(r) \/ ReconnectIntegration(r)
             \/ DisconnectIntegration(r) \/ SyncIntegration(r)
             \/ UninstallIntegration(r)
    BY <2>1 DEF InstallIntegration, ReconnectIntegration, At, IsCallback,
       DisconnectIntegration, SyncIntegration, UninstallIntegration, GetByID,
       Arrives
  <2>2. CASE req[r].pc \in {"install_platform", "install_lookup",
                "install_create", "reconnect_update", "disconnect_update",
                "sync_update", "uninstall_revoke", "uninstall_delete"}
    BY <1>0, <2>2, FieldTypes
    DEF WellFormed, CallbackPoints, ResolvePoints, At
  <2>. QED
    BY <2>1, <2>2 DEF ManageIntegration, InstallPlatform, InstallLookup,
       InstallCreate, ReconnectUpdate, DisconnectUpdate, SyncUpdate,
       UninstallRevoke, UninstallDelete, UpdateByID, At
<1>2. CASE \/ InstallIntegration(r) \/ ReconnectIntegration(r)
           \/ DisconnectIntegration(r) \/ SyncIntegration(r)
           \/ UninstallIntegration(r) \/ InstallCreate(r)
  BY <1>0, <1>1, <1>2 DEF RequestsOK, InstallIntegration, ReconnectIntegration,
     DisconnectIntegration, SyncIntegration, UninstallIntegration, GetByID,
     InstallCreate, Finish, Moves
<1>3. CASE \/ InstallPlatform(r) \/ InstallLookup(r) \/ ReconnectUpdate(r)
           \/ DisconnectUpdate(r) \/ SyncUpdate(r) \/ UninstallRevoke(r)
           \/ UninstallDelete(r)
  BY <1>0, <1>1, <1>3, OwnRequest
  DEF InstallPlatform, InstallLookup, ReconnectUpdate, DisconnectUpdate,
      SyncUpdate, UninstallRevoke, UninstallDelete, UpdateByID, Moves
<1>. QED  BY <1>2, <1>3 DEF ManageIntegration

\* The steps of an authorization move one request.
LEMMA AuthorizeMoves ==
    ASSUME TypeOK, NEW r \in Requests, Authorize(r)
    PROVE  Moves(r)
<1>0. RequestsOK
  BY DEF TypeOK
<1>1. CASE BeginAuthorization(r) \/ BeginClient(r) \/ BeginCreate(r)
  BY <1>0, <1>1, OwnRequest DEF BeginAuthorization, BeginClient, BeginCreate,
     Arrives, At, Moves, Finish, RequestsOK
<1>2. CASE CallbackWithState(r) \/ CallbackWithoutState(r)
  BY <1>0, <1>2 DEF CallbackWithState, CallbackWithoutState, Arrives, At, Moves,
     Finish, RequestsOK
<1>3. CASE ResolveAccount(r) \/ ResolveConfig(r) \/ ResolveID(r)
  BY <1>0, <1>3 DEF ResolveAccount, ResolveConfig, ResolveID, Resolved, At,
     Moves, Goto, Finish, RequestsOK
<1>4. CASE \/ CallbackPlatform(r) \/ CallbackClient(r) \/ CallbackActivate(r)
           \/ CallbackToken(r)
  BY <1>0, <1>4, OwnRequest DEF CallbackPlatform, CallbackClient,
     CallbackActivate, CallbackToken, At, Moves
<1>5. CASE CallbackExchange(r) \/ CallbackLookup(r) \/ CallbackCreate(r)
  BY <1>0, <1>5 DEF CallbackExchange, CallbackLookup, CallbackCreate, At,
     Moves, Goto, Finish, RequestsOK
<1>. QED  BY <1>1, <1>2, <1>3, <1>4, <1>5 DEF Authorize

\* The steps of a registration, and a failure, move one request.
LEMMA RegisterMoves ==
    ASSUME TypeOK, NEW r \in Requests, Register(r) \/ Fail(r)
    PROVE  Moves(r)
<1>0. RequestsOK
  BY DEF TypeOK
<1>1. CASE RegisterGet(r) \/ RegisterCreate(r) \/ RegisterUpdate(r) \/ Fail(r)
  BY <1>0, <1>1, OwnRequest DEF RegisterGet, RegisterCreate, RegisterUpdate,
     Fail, At, Moves
<1>2. CASE \/ HandleIntegrationInstalled(r) \/ InstalledConfig(r)
           \/ InstalledCreate(r)
  BY <1>0, <1>2 DEF HandleIntegrationInstalled, InstalledConfig,
     InstalledCreate, Arrives, At, Moves, Goto, Finish, RequestsOK
<1>. QED  BY <1>1, <1>2 DEF Register

\* The rest of the step, in the terms the invariants need: a deleted row stays
\* deleted, and stored tokens go only with their row.
TablesKept ==
    \A i \in Ids :
        /\ integration[i].status = "DELETED" => integration'[i].status = "DELETED"
        /\ token[i] # None => token'[i] = token[i]
                              \/ integration'[i].status = "DELETED"

\* What UPDATE integrations SET status does to a row.
LEMMA UpdateStatusEffect ==
    ASSUME IntegrationsOK, NEW j, NEW x, UpdateStatus(j, x), NEW i \in Ids
    PROVE  integration'[i].status = IF i = j THEN x ELSE integration[i].status
  BY DEF IntegrationsOK, IntegrationRow, UpdateStatus

\* What INSERT INTO integrations does to a row.
LEMMA CreateRowEffect ==
    ASSUME IntegrationsOK, NEW j, NEW c, NEW p, NEW a, NEW x,
           CreateRow(j, c, p, a, x), NEW i \in Ids
    PROVE  /\ integration'[i].status = IF i = j THEN x ELSE integration[i].status
           /\ integration[j].status = "NONE"
  BY DEF IntegrationsOK, IntegrationRow, CreateRow

\* Neither of them loses tokens or brings a deleted row back.
LEMMA StatusKept ==
    ASSUME IntegrationsOK, UNCHANGED token,
           \/ UNCHANGED integration
           \/ \E j, x : Exists(j) /\ UpdateStatus(j, x)
           \/ \E j, c, p, a, x : CreateRow(j, c, p, a, x)
    PROVE  TablesKept
  BY UpdateStatusEffect, CreateRowEffect DEF TablesKept, Exists

\* No step but a deletion loses tokens, and none undoes a deletion.
LEMMA NextTablesKept ==
    ASSUME TypeOK, [Next]_vars
    PROVE  TablesKept
<1>0. IntegrationsOK /\ CredentialsOK
  BY DEF TypeOK
<1>1. CASE UNCHANGED <<integration, token>>
  BY <1>1 DEF TablesKept
<1>2. ASSUME NEW r \in Requests, ManageIntegration(r), ~ UninstallDelete(r)
      PROVE  TablesKept
  <2>1. CASE \/ InstallIntegration(r) \/ InstallPlatform(r) \/ InstallLookup(r)
             \/ ReconnectIntegration(r) \/ DisconnectIntegration(r)
             \/ SyncIntegration(r) \/ UninstallIntegration(r)
    BY <1>1, <2>1 DEF InstallIntegration, InstallPlatform, InstallLookup,
       ReconnectIntegration, DisconnectIntegration, SyncIntegration,
       UninstallIntegration, GetByID
  <2>2. CASE InstallCreate(r)
    BY <1>0, <2>2, StatusKept DEF InstallCreate
  <2>3. CASE \/ ReconnectUpdate(r) \/ DisconnectUpdate(r) \/ SyncUpdate(r)
             \/ UninstallRevoke(r)
    BY <1>0, <2>3, StatusKept DEF ReconnectUpdate, DisconnectUpdate, SyncUpdate,
       UpdateByID, UninstallRevoke
  <2>. QED  BY <1>2, <2>1, <2>2, <2>3 DEF ManageIntegration
<1>3. ASSUME NEW r \in Requests, UninstallDelete(r)
      PROVE  TablesKept
  <2>1. CASE Exists(req[r].id)
    BY <1>0, <1>3, <2>1, UpdateStatusEffect
    DEF UninstallDelete, TablesKept, CredentialsOK, Exists
  <2>. QED  BY <1>1, <1>3, <2>1 DEF UninstallDelete
<1>4. ASSUME NEW r \in Requests, Authorize(r), ~ CallbackToken(r)
      PROVE  TablesKept
  <2>1. CASE CallbackActivate(r)
    BY <1>0, <2>1, StatusKept DEF CallbackActivate
  <2>2. CASE CallbackCreate(r)
    BY <1>0, <2>2, StatusKept DEF CallbackCreate
  <2>3. CASE UNCHANGED <<integration, token>>
    BY <1>1, <2>3
  <2>. QED
    BY <1>4, <2>1, <2>2, <2>3 DEF Authorize, BeginAuthorization, BeginClient,
       BeginCreate, CallbackWithState, CallbackWithoutState, ResolveAccount,
       ResolveConfig, ResolveID, CallbackPlatform, CallbackClient,
       CallbackExchange, CallbackLookup
<1>5. ASSUME NEW r \in Requests, CallbackToken(r)
      PROVE  TablesKept
  BY <1>0, <1>5 DEF CallbackToken, CanStoreToken, TablesKept, CredentialsOK
<1>6. ASSUME NEW r \in Requests, Register(r) \/ Fail(r)
      PROVE  TablesKept
  BY <1>1, <1>6 DEF Register, Fail, RegisterGet, RegisterCreate,
     RegisterUpdate, HandleIntegrationInstalled, InstalledConfig, InstalledCreate
<1>7. CASE Environment
  BY <1>1, <1>7 DEF Environment, StateExpires, SetClientStatus, DeleteClient,
     SetPlatformEnabled
<1>. QED
  BY <1>1, <1>2, <1>3, <1>4, <1>5, <1>6, <1>7 DEF Next, Environment, vars

-------------------------------------------------------------------------------
(* One installation per integration *)

\* Control points only other handlers reach.
LEMMA NotCallback ==
    ASSUME RequestsOK, NEW r \in Requests,
           \/ BeginAuthorization(r) \/ BeginClient(r) \/ BeginCreate(r)
           \/ HandleIntegrationInstalled(r) \/ InstalledConfig(r)
           \/ InstalledCreate(r)
    PROVE  ~ IsCallback(r)
<1>1. CASE req[r].pc \in {"begin_client", "begin_create", "installed_config",
                          "installed_create"}
  BY <1>1, FieldTypes DEF WellFormed, CallbackPoints, ResolvePoints
<1>. QED
  BY <1>1 DEF BeginAuthorization, BeginClient, BeginCreate, At, Arrives,
     HandleIntegrationInstalled, InstalledConfig, InstalledCreate, IsCallback

\* The request after Finish.
LEMMA FinishEffect ==
    ASSUME RequestsOK, NEW r \in Requests, NEW x, Finish(r, x)
    PROVE  /\ req'[r].pc = "done" /\ req'[r].result = x
           /\ req'[r].id = req[r].id
  BY DEF RequestsOK, Request, Finish

\* The request after Goto.
LEMMA GotoEffect ==
    ASSUME RequestsOK, NEW r \in Requests, NEW pc, Goto(r, pc)
    PROVE  req'[r].pc = pc /\ req'[r].id = req[r].id
  BY DEF RequestsOK, Request, Goto

\* The request after Check.
LEMMA CheckEffect ==
    ASSUME RequestsOK, NEW r \in Requests, NEW b, NEW pc, Check(r, b, pc)
    PROVE  \/ req'[r].pc = pc
           \/ req'[r].pc = "done" /\ req'[r].result = "err"
<1>1. CASE Goto(r, pc)
  BY <1>1, GotoEffect
<1>2. CASE Finish(r, "err")
  BY <1>2, FinishEffect
<1>. QED  BY <1>1, <1>2 DEF Check

\* Before it stores its tokens, a callback only reports errors.
LEMMA NotStoredYet ==
    ASSUME TypeOK, NEW r \in Requests, Authorize(r), ~ CallbackToken(r),
           IsCallback(r)
    PROVE  ~ Stored(r)'
<1>0. RequestsOK
  BY DEF TypeOK
<1>1. CASE \/ req'[r].pc \in {"resolve_account", "resolve_config",
                  "resolve_id", "callback_platform", "callback_client",
                  "callback_exchange", "callback_lookup", "callback_activate",
                  "callback_create", "callback_token"}
           \/ req'[r].pc = "done" /\ req'[r].result = "err"
  BY <1>1 DEF Stored, Registering, Ended, At
<1>2. CASE CallbackWithState(r)
  <2>1. CASE Finish(r, "err")
    BY <1>0, <1>1, <2>1, FinishEffect
  <2>2. CASE ~ Finish(r, "err")
    <3>1. PICK k, s :
             req' = [req EXCEPT ![r] =
                       [@ EXCEPT !.pc = "callback_platform",
                                 !.code = k, !.state = s,
                                 !.client = oauthState[s].client,
                                 !.platform = oauthState[s].platform]]
      BY <1>2, <2>2 DEF CallbackWithState
    <3>2. req'[r].pc = "callback_platform"
      BY <1>0, <3>1 DEF RequestsOK, Request
    <3>. QED  BY <1>1, <3>2
  <2>. QED  BY <2>1, <2>2
<1>6. CASE CallbackWithoutState(r)
  <2>1. CASE Finish(r, "err")
    BY <1>0, <1>1, <2>1, FinishEffect
  <2>2. CASE ~ Finish(r, "err")
    <3>1. PICK k \in Codes :
            req' = [req EXCEPT ![r] =
                     [@ EXCEPT !.pc = IF CodeLocation[k] = None
                                      THEN "done" ELSE "resolve_account",
                               !.result = IF CodeLocation[k] = None
                                          THEN "err" ELSE "none",
                               !.code = k, !.location = CodeLocation[k]]]
      BY <1>6, <2>2, Zenon DEF CallbackWithoutState
    <3>2. CASE CodeLocation[k] = None
      <4>1. req'[r].pc = "done" /\ req'[r].result = "err"
        BY <1>0, <3>1, <3>2 DEF RequestsOK, Request
      <4>. QED  BY <1>1, <4>1
    <3>3. CASE CodeLocation[k] # None
      <4>1. req'[r].pc = "resolve_account"
        BY <1>0, <3>1, <3>3 DEF RequestsOK, Request
      <4>. QED  BY <1>1, <4>1
    <3>. QED  BY <3>2, <3>3
  <2>. QED  BY <2>1, <2>2
<1>3. CASE ResolveAccount(r) \/ ResolveConfig(r) \/ ResolveID(r)
  <2>1. ASSUME NEW i, Resolved(r, i) PROVE req'[r].pc = "callback_platform"
    BY <1>0, <2>1 DEF Resolved, IsCallback, RequestsOK, Request
  <2>2. CASE ResolveConfig(r)
    BY <1>0, <1>1, <2>2, FinishEffect DEF ResolveConfig, RequestsOK, Request
  <2>. QED  BY <1>0, <1>1, <1>3, <2>1, <2>2, GotoEffect, FinishEffect
            DEF ResolveAccount, ResolveID
<1>4. CASE CallbackPlatform(r) \/ CallbackClient(r) \/ CallbackActivate(r)
  <2>1. ASSUME NEW pc \in {"callback_client", "callback_exchange"}, NEW b,
               Check(r, b, pc)
        PROVE  ~ Stored(r)'
    BY <1>0, <1>1, <2>1, CheckEffect
  <2>2. CASE Goto(r, "callback_token") \/ Finish(r, "err")
    BY <1>0, <1>1, <2>2, GotoEffect, FinishEffect
  <2>. QED  BY <1>4, <2>1, <2>2
            DEF CallbackPlatform, CallbackClient, CallbackActivate
<1>5. CASE CallbackExchange(r) \/ CallbackLookup(r) \/ CallbackCreate(r)
  BY <1>0, <1>1, <1>5, GotoEffect, FinishEffect
  DEF CallbackExchange, CallbackLookup, CallbackCreate, RequestsOK, Request
<1>. QED  BY <1>0, <1>2, <1>3, <1>4, <1>5, <1>6, NotCallback DEF Authorize

\* A callback counts as stored from its INSERT into oauth_tokens on, and keeps
\* its integration id.
LEMMA StoredStep ==
    ASSUME TypeOK, [Next]_vars, NEW t \in Requests, Stored(t)'
    PROVE  /\ req'[t].id = req[t].id
           /\ \/ Stored(t)
              \/ /\ CallbackToken(t)
                 /\ CanStoreToken(req[t].id)
                 /\ token' = [token EXCEPT ![req[t].id] = req[t].code]
<1>0. RequestsOK /\ IsCallback(t)
  BY DEF TypeOK, Stored, IsCallback
<1>1. CASE req'[t] = req[t]
  BY <1>1 DEF Stored, IsCallback, Registering, Ended, At
<1>2. ASSUME NEW r \in Requests, r # t, Moves(r) PROVE req'[t] = req[t]
  BY <1>2 DEF Moves
<1>3. CASE Authorize(t)
  <2>1. CallbackToken(t)
    BY <1>0, <1>3, NotStoredYet
  <2>2. Finish(t, "partial") => ~ Stored(t)'
    BY <1>0, FinishEffect DEF Stored, Registering, Ended, At
  <2>. QED  BY <1>0, <2>1, <2>2, GotoEffect DEF CallbackToken
<1>4. CASE Register(t)
  <2>1. RegisterGet(t) \/ RegisterCreate(t) \/ RegisterUpdate(t)
    BY <1>0, <1>4, NotCallback DEF Register
  <2>2. Stored(t)
    BY <1>0, <2>1
    DEF RegisterGet, RegisterCreate, RegisterUpdate, Stored, Registering, At
  <2>. QED  BY <1>0, <2>1, <2>2, GotoEffect, FinishEffect
            DEF RegisterGet, RegisterCreate, RegisterUpdate
<1>5. CASE Fail(t)
  <2>1. CASE Registering(t)
    BY <1>0, <1>5, <2>1, FinishEffect DEF Fail, Stored
  <2>2. CASE ~ Registering(t)
    BY <1>0, <1>5, <2>2, FinishEffect DEF Fail, Stored, Registering, Ended, At
  <2>. QED  BY <2>1, <2>2
<1>6. CASE Environment \/ UNCHANGED vars
  BY <1>1, <1>6 DEF Environment, StateExpires, SetClientStatus, DeleteClient,
     SetPlatformEnabled, vars
<1>. QED
  BY <1>0, <1>1, <1>2, <1>3, <1>4, <1>5, <1>6, ManageMoves, AuthorizeMoves,
     RegisterMoves DEF Next, Environment

\* What the INSERT relies on: tokens of earlier callbacks are still there.
LEMMA StoredTokensNext ==
    ASSUME TypeOK, StoredTokens, [Next]_vars
    PROVE  StoredTokens'
<1>. SUFFICES ASSUME NEW t \in Requests, Stored(t)'
              PROVE  /\ req'[t].id \in Ids
                     /\ \/ integration'[req'[t].id].status = "DELETED"
                        \/ token'[req'[t].id] # None
  BY DEF StoredTokens
<1>0. RequestsOK /\ CredentialsOK
  BY DEF TypeOK
<1>1. CASE Stored(t)
  BY <1>1, StoredStep, NextTablesKept DEF StoredTokens, TablesKept
<1>2. CASE CallbackToken(t) /\ token' = [token EXCEPT ![req[t].id] = req[t].code]
  <2>1. req[t].id \in Ids /\ req[t].code \in Codes
    BY <1>0, <1>2, FieldTypes
    DEF CallbackToken, At, WellFormed, IdPoints, CallbackPoints
  <2>. QED  BY <1>0, <1>2, <2>1, StoredStep, ConstantsAssumption
            DEF CredentialsOK
<1>. QED  BY <1>1, <1>2, StoredStep

\* Two callbacks never both store tokens for one integration.
LEMMA OneInstallationNext ==
    ASSUME TypeOK, StoredTokens, OneInstallationPerIntegration, [Next]_vars
    PROVE  OneInstallationPerIntegration'
<1>. SUFFICES ASSUME NEW t \in Requests, NEW u \in Requests, Stored(t)',
                     Stored(u)', req'[t].id = req'[u].id, t # u
              PROVE  FALSE
  BY DEF OneInstallationPerIntegration
<1>1. req[t].id = req[u].id
  BY StoredStep
<1>2. CASE Stored(t) /\ Stored(u)
  BY <1>1, <1>2 DEF OneInstallationPerIntegration
\* A second INSERT for the same integration is refused.
<1>3. CASE Stored(t) /\ CanStoreToken(req[u].id)
  BY <1>1, <1>3 DEF StoredTokens, CanStoreToken, Exists
<1>4. CASE Stored(u) /\ CanStoreToken(req[t].id)
  BY <1>1, <1>4 DEF StoredTokens, CanStoreToken, Exists
\* And two handlers do not move in one step.
<1>5. CASE CallbackToken(t) /\ CallbackToken(u) /\ ~ Stored(t) /\ ~ Stored(u)
  <2>1. req'[u] = req[u]
    BY <1>5, AuthorizeMoves DEF Authorize, Moves
  <2>. QED  BY <1>5, <2>1 DEF Stored, IsCallback, Registering, Ended, At
<1>. QED  BY <1>2, <1>3, <1>4, <1>5, StoredStep

\* The plain INSERT of oauthRepo.Create keeps reinstallations apart: whatever
\* Reconnect, Sync, Disconnect and Uninstall do in between, at most one
\* callback ever reports a given integration as installed.
THEOREM InstalledOnce == Spec => []OneInstallationPerIntegration
<1>1. Init => StoredTokens /\ OneInstallationPerIntegration
  BY DEF Init, StoredTokens, OneInstallationPerIntegration, Stored,
     Registering, Ended, At
<1>2. TypeOK /\ StoredTokens /\ OneInstallationPerIntegration /\ [Next]_vars
        => StoredTokens' /\ OneInstallationPerIntegration'
  BY StoredTokensNext, OneInstallationNext
<1>. QED  BY <1>1, <1>2, TypeCorrect, PTL DEF Spec

-------------------------------------------------------------------------------
(* Who changes a status, and on the strength of what *)

\* Request r has made integration i ACTIVE and stands before its INSERT.
Activated(r, i) == /\ IsCallback(r)
                   /\ req'[r].pc = "callback_token" /\ req'[r].id = i

\* Every way the status of a row changes.
StatusChange(i) ==
    LET old == integration[i].status
        new == integration'[i].status
    IN  \/ new = old
        \/ new \in {"REVOKED", "DELETED"}
        \/ old = "NONE" /\ new = "CREATED"
        \/ old = "NONE" /\ \E r \in Requests : Activated(r, i)
        \/ \E r \in Requests :
             /\ Reviving(r) /\ req[r].id = i
             /\ \/ new = "CREATED"
                \/ At(r, "sync_update")
                \/ Activated(r, i)

\* Every change of an integration's status is one of those StatusChange lists.
LEMMA StatusStep ==
    ASSUME TypeOK, [Next]_vars, NEW i \in Ids
    PROVE  StatusChange(i)
<1>0. IntegrationsOK /\ RequestsOK
  BY DEF TypeOK
<1>1. CASE UNCHANGED integration
  BY <1>1 DEF StatusChange
<1>2. ASSUME NEW r \in Requests, InstallCreate(r) PROVE StatusChange(i)
  BY <1>0, <1>2, CreateRowEffect DEF InstallCreate, StatusChange
<1>3. ASSUME NEW r \in Requests, ReconnectUpdate(r) PROVE StatusChange(i)
  BY <1>0, <1>3, UpdateStatusEffect
  DEF ReconnectUpdate, UpdateByID, At, Reviving, StatusChange
<1>4. ASSUME NEW r \in Requests, SyncUpdate(r) PROVE StatusChange(i)
  BY <1>0, <1>4, UpdateStatusEffect
  DEF SyncUpdate, UpdateByID, At, Reviving, StatusChange
<1>5. ASSUME NEW r \in Requests,
             DisconnectUpdate(r) \/ UninstallRevoke(r) \/ UninstallDelete(r)
      PROVE  StatusChange(i)
  BY <1>0, <1>5, UpdateStatusEffect
  DEF DisconnectUpdate, UpdateByID, UninstallRevoke, UninstallDelete,
      StatusChange
<1>6. ASSUME NEW r \in Requests, CallbackActivate(r) PROVE StatusChange(i)
  <2>1. IsCallback(r)
    BY <1>0, <1>6, FieldTypes
    DEF CallbackActivate, At, WellFormed, CallbackPoints
  <2>. QED  BY <1>0, <1>6, <2>1, UpdateStatusEffect, GotoEffect
            DEF CallbackActivate, At, Reviving, Activated, StatusChange
<1>7. ASSUME NEW r \in Requests, CallbackCreate(r) PROVE StatusChange(i)
  <2>1. IsCallback(r)
    BY <1>0, <1>7, FieldTypes DEF CallbackCreate, At, WellFormed, CallbackPoints
  <2>2. ASSUME NEW j \in Ids,
               CreateRow(j, req[r].client, req[r].platform, User, "ACTIVE"),
               req' = [req EXCEPT ![r].pc = "callback_token", ![r].id = j]
        PROVE  StatusChange(i)
    <3>1. req'[r].pc = "callback_token" /\ req'[r].id = j
      BY <1>0, <2>2 DEF RequestsOK, Request
    <3>. QED  BY <1>0, <2>1, <2>2, <3>1, CreateRowEffect, SMTT(20), ZenonT(40)
              DEF Activated, StatusChange
  <2>. QED  BY <1>1, <1>7, <2>2 DEF CallbackCreate
<1>8. ASSUME NEW r \in Requests, ManageIntegration(r) PROVE StatusChange(i)
  BY <1>1, <1>2, <1>3, <1>4, <1>5, <1>8 DEF ManageIntegration,
     InstallIntegration, InstallPlatform, InstallLookup, ReconnectIntegration,
     DisconnectIntegration, SyncIntegration, UninstallIntegration, GetByID
<1>9. ASSUME NEW r \in Requests, Authorize(r) PROVE StatusChange(i)
  BY <1>1, <1>6, <1>7, <1>9 DEF Authorize, BeginAuthorization, BeginClient,
     BeginCreate, CallbackWithState, CallbackWithoutState, ResolveAccount,
     ResolveConfig, ResolveID, CallbackPlatform, CallbackClient,
     CallbackExchange, CallbackLookup, CallbackToken
<1>10. ASSUME NEW r \in Requests, Register(r) \/ Fail(r) PROVE StatusChange(i)
  BY <1>1, <1>10 DEF Register, Fail, RegisterGet, RegisterCreate,
     RegisterUpdate, HandleIntegrationInstalled, InstalledConfig, InstalledCreate
<1>11. CASE Environment
  BY <1>1, <1>11 DEF Environment, StateExpires, SetClientStatus, DeleteClient,
     SetPlatformEnabled
<1>. QED  BY <1>1, <1>8, <1>9, <1>10, <1>11 DEF Next, Environment, vars

\* A handler that takes an id goes where `next` sends the status it read.
LEMMA GetByIDEffect ==
    ASSUME RequestsOK, NEW r \in Requests, NEW op, NEW S, NEW P,
           NEW next \in [S -> P], GetByID(r, op, next)
    PROVE  \/ req'[r].pc = "done"
           \/ /\ req'[r].id \in Ids
              /\ integration[req'[r].id].status \in S
              /\ req'[r].pc = next[integration[req'[r].id].status]
              /\ req'[r].pc \in P
<1>1. PICK i \in Ids :
        req' = [req EXCEPT ![r] =
                  IF integration[i].status \in DOMAIN next
                  THEN [@ EXCEPT !.pc = next[integration[i].status], !.id = i]
                  ELSE [@ EXCEPT !.pc = "done", !.id = i, !.result = "err"]]
  BY DEF GetByID
<1>2. CASE integration[i].status \in S
  BY <1>1, <1>2 DEF RequestsOK, Request
<1>3. CASE integration[i].status \notin S
  BY <1>1, <1>3 DEF RequestsOK, Request
<1>. QED  BY <1>2, <1>3

\* A handler about to revive a row has just read it CREATED or ACTIVE, and
\* SyncIntegration has read it ACTIVE.
LEMMA RevivingStep ==
    ASSUME TypeOK, [Next]_vars, NEW t \in Requests, Reviving(t)'
    PROVE  \/ req'[t] = req[t]
           \/ /\ UNCHANGED integration
              /\ integration[req'[t].id].status \in {"CREATED", "ACTIVE"}
              /\ req'[t].pc = "sync_update" =>
                   integration[req'[t].id].status = "ACTIVE"
<1>0. RequestsOK
  BY DEF TypeOK
<1>a. req'[t].pc \in {"reconnect_update", "sync_update", "callback_activate"}
  BY DEF Reviving
<1>b. /\ \A pc : Goto(t, pc) => req'[t].pc = pc
      /\ \A x : ~ Finish(t, x)
      /\ \A b, pc : Check(t, b, pc) => req'[t].pc = pc
  <2>1. \A x : ~ Finish(t, x)
    BY <1>0, <1>a, FinishEffect
  <2>2. \A pc : Goto(t, pc) => req'[t].pc = pc
    BY <1>0, GotoEffect
  <2>. QED  BY <2>1, <2>2 DEF Check
<1>1. ASSUME NEW r \in Requests, r # t, Moves(r) PROVE req'[t] = req[t]
  BY <1>1 DEF Moves
<1>2. CASE ManageIntegration(t)
  <2>1. ASSUME NEW op, NEW x, GetByID(t, op, [s \in {"ACTIVE"} |-> x])
        PROVE  UNCHANGED integration /\ integration[req'[t].id].status = "ACTIVE"
    <3>1. [s \in {"ACTIVE"} |-> x] \in [{"ACTIVE"} -> {x}]
      OBVIOUS
    <3>2. \/ req'[t].pc = "done"
          \/ integration[req'[t].id].status \in {"ACTIVE"}
      BY <1>0, <2>1, <3>1, GetByIDEffect
    <3>. QED  BY <1>a, <2>1, <3>2 DEF GetByID
  <2>2. CASE ReconnectIntegration(t) \/ SyncIntegration(t)
    BY <2>1, <2>2 DEF ReconnectIntegration, SyncIntegration
  <2>3. ASSUME NEW op, NEW S,
               NEW next \in [S -> {"disconnect_update", "uninstall_revoke",
                                   "uninstall_delete"}],
               GetByID(t, op, next)
        PROVE  FALSE
    <3>1. \/ req'[t].pc = "done"
          \/ req'[t].pc \in {"disconnect_update", "uninstall_revoke",
                             "uninstall_delete"}
      BY <1>0, <2>3, GetByIDEffect
    <3>. QED  BY <1>a, <3>1
  <2>4. ~ DisconnectIntegration(t) /\ ~ UninstallIntegration(t)
    <3>. DEFINE S == {"CREATED", "ACTIVE", "REVOKED"}
                T == {"disconnect_update", "uninstall_revoke",
                      "uninstall_delete"}
    <3>1. [s \in S |-> "disconnect_update"] \in [S -> T]
      OBVIOUS
    <3>2. [s \in S |-> IF s = "ACTIVE" THEN "uninstall_revoke"
                                       ELSE "uninstall_delete"] \in [S -> T]
      OBVIOUS
    <3>. QED  BY <2>3, <3>1, <3>2 DEF DisconnectIntegration, UninstallIntegration
  <2>5. ~ InstallIntegration(t)
    <3>1. ASSUME NEW pc \in {"install_platform", "done"}, NEW x, NEW c, NEW p,
                 NEW l,
                 req' = [req EXCEPT ![t] =
                   [@ EXCEPT !.pc = pc, !.result = x, !.client = c,
                             !.platform = p, !.location = l]]
          PROVE  FALSE
      BY <1>0, <1>a, <3>1 DEF RequestsOK, Request
    <3>2. ASSUME NEW c \in Clients, NEW p \in Platforms, NEW l \in Locations \cup {None},
                 req' = [req EXCEPT ![t] =
                   [@ EXCEPT !.pc = IF clientStatus[c] = "ACTIVE"
                                    THEN "install_platform" ELSE "done",
                             !.result = IF clientStatus[c] = "ACTIVE"
                                        THEN "none" ELSE "err",
                             !.client = c, !.platform = p, !.location = l]]
          PROVE  FALSE
      <4>1. CASE clientStatus[c] = "ACTIVE"
        BY <3>1, <3>2, <4>1
      <4>2. CASE clientStatus[c] # "ACTIVE"
        BY <3>1, <3>2, <4>2
      <4>. QED  BY <4>1, <4>2
    <3>. QED  BY <3>2 DEF InstallIntegration
  <2>6. ~ InstallCreate(t)
    BY <1>0, <1>a, <1>b DEF InstallCreate, RequestsOK, Request
  <2>. QED
    BY <1>a, <1>b, <1>2, <2>2, <2>4, <2>5, <2>6
    DEF ManageIntegration, InstallPlatform, InstallLookup, ReconnectUpdate,
        DisconnectUpdate, SyncUpdate, UpdateByID, UninstallRevoke,
        UninstallDelete
<1>3. CASE Authorize(t)
  <2>1. CASE CallbackLookup(t)
    <3>1. PICK i \in Ids : /\ integration[i].status = "CREATED"
                          /\ req' = [req EXCEPT ![t].pc = "callback_activate",
                                                ![t].id = i]
      BY <1>a, <1>b, <2>1 DEF CallbackLookup, RowsOf
    <3>2. req'[t].pc = "callback_activate" /\ req'[t].id = i
      BY <1>0, <3>1 DEF RequestsOK, Request
    <3>. QED  BY <2>1, <3>1, <3>2 DEF CallbackLookup
  <2>2. ~ BeginAuthorization(t) /\ ~ BeginCreate(t)
    <3>1. ASSUME NEW pc \in {"begin_client", "done"}, NEW x, NEW c, NEW p,
                 req' = [req EXCEPT ![t] =
                   [@ EXCEPT !.pc = pc, !.result = x, !.client = c,
                             !.platform = p]]
          PROVE  FALSE
      BY <1>0, <1>a, <3>1 DEF RequestsOK, Request
    <3>2. ~ BeginCreate(t)
      BY <1>0, <1>a, <1>b DEF BeginCreate, RequestsOK, Request
    <3>. QED  BY <3>1, <3>2 DEF BeginAuthorization
  <2>3. ~ CallbackWithState(t)
    <3>1. ASSUME NEW k, NEW s,
                 req' = [req EXCEPT ![t] =
                           [@ EXCEPT !.pc = "callback_platform",
                                     !.code = k, !.state = s,
                                     !.client = oauthState[s].client,
                                     !.platform = oauthState[s].platform]]
          PROVE  FALSE
      BY <1>0, <1>a, <3>1 DEF RequestsOK, Request
    <3>. QED  BY <1>b, <3>1 DEF CallbackWithState
  <2>4. ~ CallbackWithoutState(t)
    <3>1. ASSUME NEW pc \in {"resolve_account", "done"}, NEW x, NEW k, NEW l,
                 req' = [req EXCEPT ![t] =
                   [@ EXCEPT !.pc = pc, !.result = x, !.code = k,
                             !.location = l]]
          PROVE  FALSE
      BY <1>0, <1>a, <3>1 DEF RequestsOK, Request
    <3>. QED  BY <1>b, <3>1 DEF CallbackWithoutState
  <2>5. ASSUME NEW i, Resolved(t, i) PROVE FALSE
    BY <1>0, <1>a, <2>5 DEF Resolved, RequestsOK, Request
  <2>6. ~ ResolveConfig(t) /\ ~ CallbackExchange(t) /\ ~ CallbackCreate(t)
    BY <1>0, <1>a, <1>b DEF ResolveConfig, CallbackExchange, CallbackCreate,
       RequestsOK, Request
  <2>7. ~ CallbackPlatform(t) /\ ~ CallbackClient(t) /\ ~ BeginClient(t)
    BY <1>a, <1>b DEF CallbackPlatform, CallbackClient, BeginClient
  <2>. QED
    BY <1>a, <1>b, <1>3, <2>1, <2>2, <2>3, <2>4, <2>5, <2>6, <2>7
    DEF Authorize, ResolveAccount, ResolveID, CallbackActivate, CallbackToken
<1>4. ~ Register(t) /\ ~ Fail(t)
  <2>1. ~ HandleIntegrationInstalled(t)
    BY <1>0, <1>a DEF HandleIntegrationInstalled, RequestsOK, Request
  <2>. QED  BY <1>a, <1>b, <2>1 DEF Register, Fail, RegisterGet, RegisterCreate,
     RegisterUpdate, InstalledConfig, InstalledCreate
<1>5. CASE Environment \/ UNCHANGED vars
  BY <1>5 DEF Environment, StateExpires, SetClientStatus, DeleteClient,
     SetPlatformEnabled, vars
<1>. QED
  BY <1>1, <1>2, <1>3, <1>4, <1>5, ManageMoves, AuthorizeMoves, RegisterMoves
  DEF Next, Environment

\* Once no handler in flight holds an older reading of it, a revoked
\* integration stays revoked until UninstallIntegration deletes it: for any
\* number of concurrent Reconnect, Sync and callback requests.
THEOREM RevocationSettles == Spec => RevokedStaysRevoked
<1>1. TypeOK /\ [Next]_vars =>
        \A i \in Ids : Settled(i) => Settled(i)' \/ ~ Exists(i)'
  <2>. SUFFICES ASSUME TypeOK, [Next]_vars, NEW i \in Ids, Settled(i),
                       Exists(i)'
                PROVE  Settled(i)'
    OBVIOUS
  <2>1. integration'[i].status = "REVOKED"
    BY StatusStep DEF StatusChange, Settled, Exists
  <2>2. ASSUME NEW t \in Requests, Reviving(t)' PROVE req'[t].id # i
    BY <2>1, <2>2, RevivingStep DEF Settled, Reviving
  <2>. QED  BY <2>1, <2>2 DEF Settled
<1>. QED  BY <1>1, TypeCorrect, PTL DEF Spec, RevokedStaysRevoked

-------------------------------------------------------------------------------
(* An ACTIVE integration has tokens, or a callback to blame *)

\* The only ways on from the INSERT of the tokens.
LEMMA TokenStep ==
    ASSUME NEW r \in Requests, At(r, "callback_token"),
           ManageIntegration(r) \/ Authorize(r) \/ Register(r) \/ Fail(r)
    PROVE  CallbackToken(r) \/ Fail(r)
<1>1. ~ ManageIntegration(r)
  BY DEF At, Arrives, ManageIntegration, InstallIntegration, InstallPlatform,
     InstallLookup, InstallCreate, ReconnectIntegration, ReconnectUpdate,
     DisconnectIntegration, DisconnectUpdate, SyncIntegration, SyncUpdate,
     UninstallIntegration, UninstallRevoke, UninstallDelete, GetByID, UpdateByID
<1>2. Authorize(r) => CallbackToken(r)
  BY DEF At, Arrives, Authorize, BeginAuthorization, BeginClient, BeginCreate,
     CallbackWithState, CallbackWithoutState, ResolveAccount, ResolveConfig,
     ResolveID, CallbackPlatform, CallbackClient, CallbackExchange,
     CallbackLookup, CallbackActivate, CallbackCreate
<1>3. ~ Register(r)
  BY DEF At, Arrives, Register, RegisterGet, RegisterCreate, RegisterUpdate,
     HandleIntegrationInstalled, InstalledConfig, InstalledCreate
<1>. QED  BY <1>1, <1>2, <1>3

\* A covered integration stays covered until it is deleted.
LEMMA CoveredKept ==
    ASSUME TypeOK, [Next]_vars, NEW i \in Ids, Covered(i),
           integration'[i].status # "DELETED"
    PROVE  Covered(i)'
<1>0. RequestsOK /\ CredentialsOK
  BY DEF TypeOK
<1>1. CASE token[i] # None
  BY <1>1, NextTablesKept DEF TablesKept, Covered
<1>2. ASSUME NEW r \in Requests, IsCallback(r), req[r].id = i,
             At(r, "callback_token") \/ Ended(r, "partial")
      PROVE  Covered(i)'
  <2>1. CASE req'[r] = req[r]
    BY <1>2, <2>1 DEF Covered, IsCallback, At, Ended
  <2>2. CASE CallbackToken(r) /\ CanStoreToken(i)
    <3>1. token'[i] \in Codes
      BY <1>0, <1>2, <2>2, FieldTypes
      DEF CallbackToken, At, WellFormed, CallbackPoints, CredentialsOK
    <3>. QED  BY <3>1, ConstantsAssumption DEF Covered
  <2>3. CASE Finish(r, "partial")
    BY <1>0, <1>2, <2>3, FinishEffect DEF Covered, IsCallback, At, Ended
  <2>4. CASE CallbackToken(r) \/ (Fail(r) /\ At(r, "callback_token"))
    BY <1>2, <2>2, <2>3, <2>4 DEF CallbackToken, Fail, At, Registering
  <2>5. ASSUME NEW t \in Requests,
               \/ ManageIntegration(t) \/ Authorize(t) \/ Register(t) \/ Fail(t)
        PROVE  Covered(i)'
    <3>1. Moves(t)
      BY <2>5, ManageMoves, AuthorizeMoves, RegisterMoves
    <3>2. CASE t # r
      BY <2>1, <3>1, <3>2 DEF Moves
    <3>3. CASE t = r
      BY <1>2, <2>4, <2>5, <3>1, <3>3, TokenStep DEF Moves, Ended
    <3>. QED  BY <3>2, <3>3
  <2>6. CASE Environment \/ UNCHANGED vars
    BY <2>1, <2>6 DEF Environment, StateExpires, SetClientStatus, DeleteClient,
       SetPlatformEnabled, vars
  <2>. QED  BY <2>5, <2>6 DEF Next, Environment
<1>. QED  BY <1>1, <1>2 DEF Covered

\* Every step keeps ACTIVE integrations covered by tokens or by a callback.
LEMMA ActiveCoveredNext ==
    ASSUME TypeOK, ActiveCovered, [Next]_vars
    PROVE  ActiveCovered'
<1>. SUFFICES ASSUME NEW i \in Ids, integration'[i].status # "DELETED",
                     \/ integration'[i].status = "ACTIVE"
                     \/ \E t \in Requests : /\ req'[t].pc = "sync_update"
                                            /\ req'[t].id = i
              PROVE  Covered(i)'
  BY DEF ActiveCovered, At
<1>0. integration[i].status # "DELETED"
  BY NextTablesKept DEF TablesKept
<1>1. CASE integration[i].status = "ACTIVE"
  BY <1>0, <1>1, CoveredKept DEF ActiveCovered
<1>2. ASSUME NEW t \in Requests, At(t, "sync_update"), req[t].id = i
      PROVE  Covered(i)'
  BY <1>0, <1>2, CoveredKept DEF ActiveCovered
<1>3. ASSUME NEW r \in Requests, Activated(r, i) PROVE Covered(i)'
  BY <1>3 DEF Activated, Covered, IsCallback, At
\* SyncIntegration starts only from a row it read ACTIVE.
<1>4. ASSUME NEW t \in Requests, req'[t].pc = "sync_update", req'[t].id = i
      PROVE  Covered(i)'
  <2>1. Reviving(t)'
    BY <1>4 DEF Reviving
  <2>. QED  BY <1>1, <1>2, <1>4, <2>1, RevivingStep DEF At
<1>5. CASE integration'[i].status = "ACTIVE"
  BY <1>1, <1>2, <1>3, <1>5, StatusStep DEF StatusChange
<1>. QED  BY <1>4, <1>5

\* ProcessCallback writes ACTIVE before the tokens, and SyncIntegration writes
\* an ACTIVE it read earlier: still, for any interleaving, an ACTIVE row without
\* tokens is the mark of a callback that is about to store them or that failed
\* to, and of nothing else.
THEOREM ActiveExplained == Spec => []ActiveHasToken
<1>1. Init => ActiveCovered
  BY DEF Init, ActiveCovered, At
<1>2. TypeOK /\ ActiveCovered /\ [Next]_vars => ActiveCovered'
  BY ActiveCoveredNext
<1>3. ActiveCovered => ActiveHasToken
  BY DEF ActiveCovered, ActiveHasToken, Covered
<1>. QED  BY <1>1, <1>2, <1>3, TypeCorrect, PTL DEF Spec

-------------------------------------------------------------------------------
(* A key that was generated is never blanked *)

\* What a step does to the config of integration i.
ConfigStep(i) ==
    \/ UNCHANGED <<configLocation, configKey>>
    \/ configLocation'[i] = configLocation[i] /\ configKey'[i] = configKey[i]
    \/ configLocation'[i] = None /\ configKey'[i] = None
    \/ \E r \in Requests :
         /\ req[r].pc \in {"register_create", "register_update"}
         /\ req[r].id = i
         /\ configLocation'[i] = req[r].location /\ configKey'[i] = r
    \/ \E r \in Requests :
         /\ At(r, "installed_create") /\ req[r].id = i
         /\ configLocation[i] = None
         /\ configLocation'[i] = req[r].location /\ configKey'[i] = None

\* RegisterProvider writes the config with a key, the INSTALL handler only
\* where there is none yet.
LEMMA NextConfigs ==
    ASSUME TypeOK, [Next]_vars, NEW i \in Ids
    PROVE  ConfigStep(i)
<1>0. CredentialsOK
  BY DEF TypeOK
<1>1. CASE UNCHANGED <<configLocation, configKey>>
  BY <1>1 DEF ConfigStep
<1>2. ASSUME NEW r \in Requests, UninstallDelete(r) PROVE ConfigStep(i)
  BY <1>0, <1>2 DEF UninstallDelete, ConfigStep, CredentialsOK
<1>3. ASSUME NEW r \in Requests, RegisterCreate(r) \/ RegisterUpdate(r)
      PROVE  ConfigStep(i)
  <2>1. ASSUME NEW j,
               configLocation' = [configLocation EXCEPT ![j] = req[r].location],
               configKey' = [configKey EXCEPT ![j] = r]
        PROVE  \/ /\ configLocation'[i] = configLocation[i]
                  /\ configKey'[i] = configKey[i]
               \/ /\ j = i
                  /\ configLocation'[i] = req[r].location /\ configKey'[i] = r
    BY <1>0, <2>1 DEF CredentialsOK
  <2>2. req[r].pc \in {"register_create", "register_update"}
    BY <1>3 DEF RegisterCreate, RegisterUpdate, At
  <2>. QED
    BY <1>1, <1>3, <2>1, <2>2
    DEF RegisterCreate, RegisterUpdate, NewAPIKey, ConfigStep
<1>4. ASSUME NEW r \in Requests, InstalledCreate(r) PROVE ConfigStep(i)
  <2>1. CASE UNCHANGED <<configLocation, configKey>>
    BY <1>1, <2>1
  <2>2. CASE ~ UNCHANGED <<configLocation, configKey>>
    <3>1. /\ configLocation' = [configLocation EXCEPT ![req[r].id] = req[r].location]
          /\ configKey' = [configKey EXCEPT ![req[r].id] = None]
          /\ configLocation[req[r].id] = None /\ At(r, "installed_create")
      BY <1>4, <2>2 DEF InstalledCreate
    <3>2. CASE req[r].id = i
      <4>1. configLocation'[i] = req[r].location /\ configKey'[i] = None
        BY <1>0, <3>1, <3>2 DEF CredentialsOK
      <4>. QED  BY <3>1, <3>2, <4>1 DEF ConfigStep
    <3>3. CASE req[r].id # i
      <4>1. configLocation'[i] = configLocation[i] /\ configKey'[i] = configKey[i]
        BY <1>0, <3>1, <3>3 DEF CredentialsOK
      <4>. QED  BY <4>1 DEF ConfigStep
    <3>. QED  BY <3>2, <3>3
  <2>. QED  BY <2>1, <2>2
<1>5. ASSUME NEW r \in Requests, ManageIntegration(r) PROVE ConfigStep(i)
  BY <1>1, <1>2, <1>5 DEF ManageIntegration, InstallIntegration,
     InstallPlatform, InstallLookup, InstallCreate, ReconnectIntegration,
     ReconnectUpdate, DisconnectIntegration, DisconnectUpdate, SyncIntegration,
     SyncUpdate, UninstallIntegration, UninstallRevoke, GetByID, UpdateByID
<1>6. ASSUME NEW r \in Requests, Authorize(r) PROVE ConfigStep(i)
  BY <1>1, <1>6 DEF Authorize, BeginAuthorization, BeginClient, BeginCreate,
     CallbackWithState, CallbackWithoutState, ResolveAccount, ResolveConfig,
     ResolveID, CallbackPlatform, CallbackClient, CallbackExchange,
     CallbackLookup, CallbackActivate, CallbackCreate, CallbackToken
<1>7. ASSUME NEW r \in Requests, Register(r) \/ Fail(r) PROVE ConfigStep(i)
  BY <1>1, <1>3, <1>4, <1>7 DEF Register, Fail, RegisterGet,
     HandleIntegrationInstalled, InstalledConfig
<1>8. CASE Environment
  BY <1>1, <1>8 DEF Environment, StateExpires, SetClientStatus, DeleteClient,
     SetPlatformEnabled
<1>. QED  BY <1>1, <1>5, <1>6, <1>7, <1>8 DEF Next, Environment, vars

\* A registration that is about to write a config has a location.
LEMMA LocationStep ==
    ASSUME TypeOK, KeysConfigured, [Next]_vars, NEW t \in Requests,
           req'[t].pc \in {"register_create", "register_update"}
    PROVE  req'[t].location # None
<1>0. RequestsOK /\ RequestsOK'
  BY NextType DEF TypeOK
<1>1. CASE req'[t] = req[t]
  BY <1>1 DEF KeysConfigured
<1>2. IsCallback(t) /\ Stored(t)'
  <2>1. WellFormed(t, req'[t])
    BY <1>0 DEF RequestsOK, WellFormed, IsCallback
  <2>. QED  BY <2>1 DEF WellFormed, CallbackPoints, Stored, Registering,
            IsCallback
<1>3. ~ (\E x : Finish(t, x)) /\ ~ CallbackToken(t)
  <2>1. ~ \E x : Finish(t, x)
    BY <1>0, FinishEffect
  <2>. QED  BY <1>0, <2>1, GotoEffect DEF CallbackToken
<1>4. ~ Authorize(t) /\ ~ ManageIntegration(t)
  BY <1>2, <1>3, NotStoredYet, ManageMoves
<1>5. CASE Register(t) \/ Fail(t)
  <2>1. RegisterGet(t) \/ RegisterCreate(t)
    BY <1>0, <1>2, <1>3, <1>5, NotCallback DEF Register, Fail, RegisterUpdate
  <2>2. req[t].location # None
    BY <1>3, <2>1 DEF RegisterGet, RegisterCreate, At, KeysConfigured
  <2>3. ASSUME NEW pc, Goto(t, pc) PROVE req'[t].location = req[t].location
    BY <1>0, <2>3 DEF Goto, RequestsOK, Request
  <2>. QED  BY <1>3, <2>1, <2>2, <2>3 DEF RegisterGet, RegisterCreate
<1>6. ASSUME NEW r \in Requests, r # t,
             ManageIntegration(r) \/ Authorize(r) \/ Register(r) \/ Fail(r)
      PROVE  req'[t] = req[t]
  BY <1>6, ManageMoves, AuthorizeMoves, RegisterMoves DEF Moves
<1>7. CASE Environment \/ UNCHANGED vars
  BY <1>1, <1>7 DEF Environment, StateExpires, SetClientStatus, DeleteClient,
     SetPlatformEnabled, vars
<1>. QED  BY <1>1, <1>4, <1>5, <1>6, <1>7 DEF Next, Environment

\* Every step keeps keys with their configs.
LEMMA KeysConfiguredNext ==
    ASSUME TypeOK, KeysConfigured, [Next]_vars
    PROVE  KeysConfigured'
<1>1. ASSUME NEW i \in Ids, configLocation'[i] = None PROVE configKey'[i] = None
  BY <1>1, NextConfigs DEF ConfigStep, KeysConfigured
<1>. QED  BY <1>1, LocationStep DEF KeysConfigured

\* RegisterProvider and the INSTALL handler race to write one config, and the
\* latter writes a blank key: for any number of either, a key that has been
\* generated is replaced by another or goes with the integration, but is never
\* blanked.
THEOREM KeysStay == Spec => KeyNeverBlanked
<1>1. Init => KeysConfigured
  BY DEF Init, KeysConfigured
<1>2. TypeOK /\ KeysConfigured /\ [Next]_vars => KeysConfigured'
  BY KeysConfiguredNext
<1>3. TypeOK /\ KeysConfigured /\ [Next]_vars =>
        \A i \in Ids : configKey[i] # None /\ configLocation'[i] # None
                         => configKey'[i] # None
  <2>. SUFFICES ASSUME TypeOK, KeysConfigured, [Next]_vars, NEW i \in Ids,
                       configKey[i] # None, configLocation'[i] # None
                PROVE  configKey'[i] # None
    OBVIOUS
  <2>1. \A r \in Requests : r # None
    BY ConstantsAssumption
  <2>. QED  BY <2>1, NextConfigs DEF ConfigStep, KeysConfigured
<1>. QED  BY <1>1, <1>2, <1>3, TypeCorrect, PTL DEF Spec, KeyNeverBlanked
===============================================================================
