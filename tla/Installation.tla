----------------------------- MODULE Installation -----------------------------
(***************************************************************************)
(* Installing an integration: the part of the Clients service that writes  *)
(* the tables integrations, oauth_tokens, payment_provider_configs and     *)
(* oauth_states.                                                           *)
(*                                                                         *)
(* Every RPC, OAuth callback and dispatched INSTALL event is a request: a  *)
(* goroutine of its own that issues one SQL statement or one call to       *)
(* HighLevel at a time.  No handler opens a transaction, so the steps of   *)
(* concurrent requests interleave between any two statements, and a        *)
(* request may stop after any of them (database error, cancelled context,  *)
(* failed provider call, killed process).  One action is one such step     *)
(* together with the checks the code makes on its answer; a request runs   *)
(* once, so its record is also the history of what it did.                 *)
(***************************************************************************)
EXTENDS Naturals

CONSTANTS
    Clients,        \* ids of client rows
    Platforms,      \* ids of platform rows (platforms are never deleted)
    Supported,      \* platforms whose slug names a registered provider
    Ids,            \* integration UUIDs
    States,         \* OAuth state strings (32 random bytes: never drawn twice)
    Codes,          \* authorization codes; a code also stands for the token
                    \* response obtained with it
    Locations,      \* HighLevel location ids
    CodeLocation,   \* locationId in a code's token response, None when blank
    SingleUseCodes, \* does HighLevel refuse a code it has already exchanged?
    User,           \* the HighLevel user id returned by GetUserInfo
    Requests,       \* the requests of one behaviour
    OpOf,           \* the handler each request runs
    None

Ops == {"InstallIntegration", "UninstallIntegration", "ReconnectIntegration",
        "DisconnectIntegration", "SyncIntegration", "BeginAuthorization",
        "HandleCallback", "handleIntegrationInstalled"}

ASSUME ConstantsAssumption ==
    /\ Supported \subseteq Platforms
    /\ CodeLocation \in [Codes -> Locations \cup {None}]
    /\ SingleUseCodes \in BOOLEAN
    /\ OpOf \in [Requests -> Ops]
    /\ User \notin Locations
    /\ None \notin Clients \cup Platforms \cup Ids \cup States
    /\ None \notin Codes \cup Locations \cup Requests \cup {User}

VARIABLES
    clientStatus,     \* clients.status, "NONE" when there is no row
    platformEnabled,  \* platforms.enabled
    integration,      \* integrations rows
    token,            \* oauth_tokens: the code whose tokens are stored, or None
    configLocation,   \* payment_provider_configs.location_id, None: no row
    configKey,        \* payment_provider_configs.provider_api_key: the request
                      \* that generated it, None when blank
    oauthState,       \* oauth_states rows
    exchanged,        \* code -> how often HighLevel has exchanged it
    redeemers,        \* history: the callbacks each state let through
    req               \* the requests

vars == <<clientStatus, platformEnabled, integration, token, configLocation,
          configKey, oauthState, exchanged, redeemers, req>>

tables == <<integration, token, configLocation, configKey, oauthState>>
environment == <<clientStatus, platformEnabled>>

-------------------------------------------------------------------------------
(* Types *)

ClientStatus == {"NONE", "REGISTERED", "ACTIVE", "SUSPENDED", "CLOSED"}

\* "NONE": the id was never used; "DELETED": the row is gone, and a UUID is
\* never drawn again.  The other fields survive deletion as history.
IntegrationRow ==
    [status   : {"NONE", "CREATED", "ACTIVE", "REVOKED", "DELETED"},
     client   : Clients \cup {None},
     platform : Platforms \cup {None},
     account  : Locations \cup {User, None}]

\* "expired" is expires_at <= NOW() with consumed_at still NULL.
OAuthStateRow ==
    [phase    : {"NONE", "open", "expired", "consumed", "DELETED"},
     client   : Clients \cup {None},
     platform : Platforms \cup {None}]

ControlPoints ==
    {"idle", "done",
     "install_platform", "install_lookup", "install_create",
     "uninstall_revoke", "uninstall_delete",
     "reconnect_update", "disconnect_update", "sync_update",
     "begin_client", "begin_create",
     "resolve_account", "resolve_config", "resolve_id",
     "callback_platform", "callback_client",
     "callback_exchange", "callback_lookup", "callback_activate",
     "callback_create", "callback_token",
     "register_get", "register_create", "register_update",
     "installed_config", "installed_create"}

ResolvePoints == {"resolve_account", "resolve_config", "resolve_id"}
CallbackPoints ==
    {"callback_platform", "callback_client", "callback_exchange",
     "callback_lookup", "callback_activate", "callback_create",
     "callback_token", "register_get", "register_create", "register_update"}
IdPoints ==
    {"uninstall_revoke", "uninstall_delete", "reconnect_update",
     "disconnect_update", "sync_update", "resolve_id", "callback_activate",
     "callback_token", "register_get", "register_create", "register_update",
     "installed_config", "installed_create"}

IsCallback(r) == OpOf[r] = "HandleCallback"

\* "partial": the handler returned an error although it had already made the
\* integration ACTIVE.
Results == {"none", "ok", "err", "partial"}

Request ==
    [pc       : ControlPoints,
     client   : Clients \cup {None},
     platform : Platforms \cup {None},
     id       : Ids \cup {None},
     state    : States \cup {None},
     code     : Codes \cup {None},
     location : Locations \cup {None},
     result   : Results]

EnvironmentOK ==
    /\ clientStatus \in [Clients -> ClientStatus]
    /\ platformEnabled \in [Platforms -> BOOLEAN]
IntegrationsOK == integration \in [Ids -> IntegrationRow]
CredentialsOK ==
    /\ token \in [Ids -> Codes \cup {None}]
    /\ configLocation \in [Ids -> Locations \cup {None}]
    /\ configKey \in [Ids -> Requests \cup {None}]
    /\ exchanged \in [Codes -> Nat]
StatesOK ==
    /\ oauthState \in [States -> OAuthStateRow]
    /\ redeemers \in [States -> SUBSET Requests]
\* What handler r holds at its control point: the id it looked up, the code of
\* its callback; and no callback strays into another handler's code.
WellFormed(r, q) ==
    /\ q.pc \in IdPoints => q.id \in Ids
    /\ q.pc \in CallbackPoints => IsCallback(r) /\ q.code \in Codes
    /\ IsCallback(r) =>
         \/ q.pc \in {"idle", "done"}
         \/ q.pc \in ResolvePoints \cup CallbackPoints /\ q.code \in Codes
RequestsOK ==
    /\ req \in [Requests -> Request]
    /\ \A r \in Requests : WellFormed(r, req[r])

\* Every row and every request has the shape the schema and the handlers give
\* it; in particular a request never leaves the control points of the code.
TypeOK == /\ EnvironmentOK /\ IntegrationsOK /\ CredentialsOK
          /\ StatesOK /\ RequestsOK

Init ==
    /\ clientStatus \in [Clients -> {"REGISTERED", "ACTIVE"}]
    /\ platformEnabled \in [Platforms -> BOOLEAN]
    /\ integration = [i \in Ids |-> [status |-> "NONE", client |-> None,
                                     platform |-> None, account |-> None]]
    /\ token = [i \in Ids |-> None]
    /\ configLocation = [i \in Ids |-> None]
    /\ configKey = [i \in Ids |-> None]
    /\ oauthState = [s \in States |-> [phase |-> "NONE", client |-> None,
                                       platform |-> None]]
    /\ exchanged = [k \in Codes |-> 0]
    /\ redeemers = [s \in States |-> {}]
    /\ req = [r \in Requests |->
                [pc |-> "idle", client |-> None, platform |-> None,
                 id |-> None, state |-> None, code |-> None,
                 location |-> None, result |-> "none"]]

-------------------------------------------------------------------------------
(* SQL statements of the integrations table *)

Exists(i) == integration[i].status \in {"CREATED", "ACTIVE", "REVOKED"}

\* GetByClientAndPlatform
RowsOf(c, p) == {i \in Ids : /\ Exists(i)
                             /\ integration[i].client = c
                             /\ integration[i].platform = p}

\* Mutant: a row without an account matches every location.
RowsOfBlankAccount(l) ==
    {i \in Ids : Exists(i) /\ integration[i].account \in {l, None}}

\* GetByExternalAccountID: the column has no unique constraint and the query
\* no ORDER BY, so any matching row may be returned.
RowsOfAccount(l) == {i \in Ids : Exists(i) /\ integration[i].account = l}

\* GetByLocationID on payment_provider_configs, likewise not unique.
ConfigsOf(l) == {i \in Ids : configLocation[i] = l}

\* Mutant: no unique constraint on (client_id, platform_id).
CanCreateAnyway(c, p) == clientStatus[c] # "NONE"

\* CreateIntegration succeeds: the client row exists (foreign key), the pair
\* is free (uq_integration_client_platform), and the UUID is new.
CanCreate(c, p) == clientStatus[c] # "NONE" /\ RowsOf(c, p) = {}

CreateRow(i, c, p, account, status) ==
    /\ integration[i].status = "NONE"
    /\ integration' = [integration EXCEPT ![i] =
                         [status |-> status, client |-> c, platform |-> p,
                          account |-> account]]

UpdateStatus(i, status) ==
    integration' = [integration EXCEPT ![i].status = status]

-------------------------------------------------------------------------------
(* Control of a request *)

Arrives(r, op) == req[r].pc = "idle" /\ OpOf[r] = op
At(r, pc) == req[r].pc = pc
Ended(r, result) == At(r, "done") /\ req[r].result = result

Goto(r, pc) == req' = [req EXCEPT ![r].pc = pc]
Finish(r, result) ==
    req' = [req EXCEPT ![r].pc = "done", ![r].result = result]

\* A check on what was read: the code returns an error or carries on.
Check(r, condition, pc) == IF condition THEN Goto(r, pc) ELSE Finish(r, "err")

-------------------------------------------------------------------------------
(* InstallIntegration: client, platform and pair are read, then the row is  *)
(* inserted.  The request may leave external_account_id blank.              *)

InstallIntegration(r) ==
    /\ Arrives(r, "InstallIntegration")
    /\ \E c \in Clients, p \in Platforms, l \in Locations \cup {None} :
         req' = [req EXCEPT ![r] =
                   [@ EXCEPT !.pc = IF clientStatus[c] = "ACTIVE"
                                    THEN "install_platform" ELSE "done",
                             !.result = IF clientStatus[c] = "ACTIVE"
                                        THEN "none" ELSE "err",
                             !.client = c, !.platform = p, !.location = l]]
    /\ UNCHANGED <<environment, tables, exchanged, redeemers>>

InstallPlatform(r) ==
    /\ At(r, "install_platform")
    /\ Check(r, platformEnabled[req[r].platform], "install_lookup")
    /\ UNCHANGED <<environment, tables, exchanged, redeemers>>

InstallLookup(r) ==
    /\ At(r, "install_lookup")
    /\ Check(r, RowsOf(req[r].client, req[r].platform) = {}, "install_create")
    /\ UNCHANGED <<environment, tables, exchanged, redeemers>>

InstallCreate(r) ==
    /\ At(r, "install_create")
    /\ LET c == req[r].client
           p == req[r].platform
       IN \/ /\ CanCreate(c, p)
             /\ \E i \in Ids :
                  /\ CreateRow(i, c, p, req[r].location, "CREATED")
                  /\ req' = [req EXCEPT ![r].pc = "done", ![r].result = "ok",
                                        ![r].id = i]
          \/ /\ ~ CanCreate(c, p)
             /\ Finish(r, "err")
             /\ UNCHANGED integration
    /\ UNCHANGED <<environment, token, configLocation, configKey, oauthState,
                   exchanged, redeemers>>

-------------------------------------------------------------------------------
(* The handlers that take an integration id: GetByID, a check of the status *)
(* read, then a write that does not look at the status again.               *)

\* The id arrives with the request; `next` gives, for each status the handler
\* accepts, where it goes.
GetByID(r, op, next) ==
    /\ Arrives(r, op)
    /\ \E i \in Ids :
         req' = [req EXCEPT ![r] =
                   IF integration[i].status \in DOMAIN next
                   THEN [@ EXCEPT !.pc = next[integration[i].status], !.id = i]
                   ELSE [@ EXCEPT !.pc = "done", !.id = i, !.result = "err"]]
    /\ UNCHANGED <<environment, tables, exchanged, redeemers>>

\* UPDATE integrations SET status ... WHERE id: no row, no effect and an error.
UpdateByID(r, pc, status) ==
    /\ At(r, pc)
    /\ IF Exists(req[r].id)
       THEN UpdateStatus(req[r].id, status) /\ Finish(r, "ok")
       ELSE UNCHANGED integration /\ Finish(r, "err")
    /\ UNCHANGED <<environment, token, configLocation, configKey, oauthState,
                   exchanged, redeemers>>

\* Mutant: Reconnect also accepts a revoked integration.
ReconnectRevoked(r) ==
    GetByID(r, "ReconnectIntegration",
            [s \in {"ACTIVE", "REVOKED"} |-> "reconnect_update"])

ReconnectIntegration(r) ==
    GetByID(r, "ReconnectIntegration",
            [s \in {"ACTIVE"} |-> "reconnect_update"])
ReconnectUpdate(r) == UpdateByID(r, "reconnect_update", "CREATED")

DisconnectIntegration(r) ==
    GetByID(r, "DisconnectIntegration",
            [s \in {"CREATED", "ACTIVE", "REVOKED"} |-> "disconnect_update"])
DisconnectUpdate(r) == UpdateByID(r, "disconnect_update", "REVOKED")

\* Mutant: Sync also accepts an integration that awaits its OAuth callback.
SyncCreated(r) ==
    GetByID(r, "SyncIntegration",
            [s \in {"CREATED", "ACTIVE"} |-> "sync_update"])

SyncIntegration(r) ==
    GetByID(r, "SyncIntegration", [s \in {"ACTIVE"} |-> "sync_update"])
SyncUpdate(r) == UpdateByID(r, "sync_update", "ACTIVE")

UninstallIntegration(r) ==
    GetByID(r, "UninstallIntegration",
            [s \in {"CREATED", "ACTIVE", "REVOKED"} |->
                IF s = "ACTIVE" THEN "uninstall_revoke" ELSE "uninstall_delete"])

UninstallRevoke(r) ==
    /\ At(r, "uninstall_revoke")
    /\ IF Exists(req[r].id)
       THEN UpdateStatus(req[r].id, "REVOKED") /\ Goto(r, "uninstall_delete")
       ELSE UNCHANGED integration /\ Finish(r, "err")
    /\ UNCHANGED <<environment, token, configLocation, configKey, oauthState,
                   exchanged, redeemers>>

\* DELETE cascades to oauth_tokens and payment_provider_configs.
UninstallDelete(r) ==
    /\ At(r, "uninstall_delete")
    /\ LET i == req[r].id
       IN IF Exists(i)
          THEN /\ UpdateStatus(i, "DELETED")
               /\ token' = [token EXCEPT ![i] = None]
               /\ configLocation' = [configLocation EXCEPT ![i] = None]
               /\ configKey' = [configKey EXCEPT ![i] = None]
               /\ Finish(r, "ok")
          ELSE /\ UNCHANGED <<integration, token, configLocation, configKey>>
               /\ Finish(r, "err")
    /\ UNCHANGED <<environment, oauthState, exchanged, redeemers>>

-------------------------------------------------------------------------------
(* BeginAuthorization: issues an OAuth state bound to a client and platform. *)

BeginAuthorization(r) ==
    /\ Arrives(r, "BeginAuthorization")
    /\ \E c \in Clients, p \in Platforms :
         req' = [req EXCEPT ![r] =
                   [@ EXCEPT !.pc = IF platformEnabled[p]
                                    THEN "begin_client" ELSE "done",
                             !.result = IF platformEnabled[p]
                                        THEN "none" ELSE "err",
                             !.client = c, !.platform = p]]
    /\ UNCHANGED <<environment, tables, exchanged, redeemers>>

BeginClient(r) ==
    /\ At(r, "begin_client")
    /\ Check(r, /\ clientStatus[req[r].client] = "ACTIVE"
                /\ req[r].platform \in Supported, "begin_create")
    /\ UNCHANGED <<environment, tables, exchanged, redeemers>>

BeginCreate(r) ==
    /\ At(r, "begin_create")
    /\ \/ /\ clientStatus[req[r].client] # "NONE"
          /\ \E s \in States :
               /\ oauthState[s].phase = "NONE"
               /\ oauthState' = [oauthState EXCEPT ![s] =
                                   [phase |-> "open", client |-> req[r].client,
                                    platform |-> req[r].platform]]
               /\ req' = [req EXCEPT ![r].pc = "done", ![r].result = "ok",
                                     ![r].state = s]
       \/ /\ clientStatus[req[r].client] = "NONE"
          /\ Finish(r, "err")
          /\ UNCHANGED oauthState
    /\ UNCHANGED <<environment, integration, token, configLocation, configKey,
                   exchanged, redeemers>>

\* The ten minutes of stateTTL pass before the state is consumed.
StateExpires(s) ==
    /\ oauthState[s].phase = "open"
    /\ oauthState' = [oauthState EXCEPT ![s].phase = "expired"]
    /\ UNCHANGED <<environment, integration, token, configLocation, configKey,
                   exchanged, redeemers, req>>

-------------------------------------------------------------------------------
(* HandleCallback *)

\* Mutant: the UPDATE does not ask for consumed_at IS NULL.
ConsumableAgain(s) == oauthState[s].phase \in {"open", "consumed"}

\* The UPDATE of ConsumeOAuthState: checks and consumes in one statement.
Consumable(s) == oauthState[s].phase = "open"

CallbackWithState(r) ==
    /\ Arrives(r, "HandleCallback")
    /\ \E k \in Codes, s \in States :
         \/ /\ Consumable(s)
            /\ oauthState' = [oauthState EXCEPT ![s].phase = "consumed"]
            /\ redeemers' = [redeemers EXCEPT ![s] = @ \cup {r}]
            /\ req' = [req EXCEPT ![r] =
                         [@ EXCEPT !.pc = "callback_platform",
                                   !.code = k, !.state = s,
                                   !.client = oauthState[s].client,
                                   !.platform = oauthState[s].platform]]
         \/ /\ ~ Consumable(s)
            /\ Finish(r, "err")
            /\ UNCHANGED <<oauthState, redeemers>>
    /\ UNCHANGED <<environment, integration, token, configLocation, configKey,
                   exchanged>>

\* HighLevel's answer to ExchangeCode; a refusal is ErrTokenExchangeFailed.
Exchangeable(k) == ~ SingleUseCodes \/ exchanged[k] = 0
Exchange(k) == exchanged' = [exchanged EXCEPT ![k] = @ + 1]

\* Without a state the code is exchanged first, to learn the locationId.
CallbackWithoutState(r) ==
    /\ Arrives(r, "HandleCallback")
    /\ \E k \in Codes :
         IF Exchangeable(k)
         THEN /\ Exchange(k)
              /\ req' = [req EXCEPT ![r] =
                           [@ EXCEPT !.pc = IF CodeLocation[k] = None
                                            THEN "done" ELSE "resolve_account",
                                     !.result = IF CodeLocation[k] = None
                                                THEN "err" ELSE "none",
                                     !.code = k, !.location = CodeLocation[k]]]
         ELSE Finish(r, "err") /\ UNCHANGED exchanged
    /\ UNCHANGED <<environment, tables, redeemers>>

\* The integration a location resolved to gives the callback its client and
\* platform, and the INSTALL dispatcher its integration.
Resolved(r, i) ==
    req' = [req EXCEPT ![r] =
              IF OpOf[r] = "HandleCallback"
              THEN [@ EXCEPT !.pc = "callback_platform", !.id = None,
                             !.client = integration[i].client,
                             !.platform = integration[i].platform]
              ELSE [@ EXCEPT !.pc = "installed_config", !.id = i]]

ResolveAccount(r) ==
    /\ At(r, "resolve_account")
    /\ LET found == RowsOfAccount(req[r].location)
       IN \/ \E i \in found : Resolved(r, i)
          \/ found = {} /\ Goto(r, "resolve_config")
    /\ UNCHANGED <<environment, tables, exchanged, redeemers>>

ResolveConfig(r) ==
    /\ At(r, "resolve_config")
    /\ LET found == ConfigsOf(req[r].location)
       IN \/ \E i \in found :
               req' = [req EXCEPT ![r].pc = "resolve_id", ![r].id = i]
          \/ found = {} /\ Finish(r, "err")
    /\ UNCHANGED <<environment, tables, exchanged, redeemers>>

ResolveID(r) ==
    /\ At(r, "resolve_id")
    /\ IF Exists(req[r].id) THEN Resolved(r, req[r].id) ELSE Finish(r, "err")
    /\ UNCHANGED <<environment, tables, exchanged, redeemers>>

-------------------------------------------------------------------------------
(* ProcessCallback *)

CallbackPlatform(r) ==
    /\ At(r, "callback_platform")
    /\ Check(r, /\ platformEnabled[req[r].platform]
                /\ req[r].platform \in Supported, "callback_client")
    /\ UNCHANGED <<environment, tables, exchanged, redeemers>>

CallbackClient(r) ==
    /\ At(r, "callback_client")
    /\ Check(r, clientStatus[req[r].client] = "ACTIVE", "callback_exchange")
    /\ UNCHANGED <<environment, tables, exchanged, redeemers>>

\* Mutant: the token response of an earlier exchange is kept and used.
CallbackExchangeKept(r) ==
    /\ At(r, "callback_exchange")
    /\ LET k == req[r].code
       IN /\ IF exchanged[k] = 0 THEN Exchange(k) ELSE UNCHANGED exchanged
          /\ req' = [req EXCEPT ![r].pc = "callback_lookup",
                                ![r].location = CodeLocation[k]]
    /\ UNCHANGED <<environment, tables, redeemers>>

\* ExchangeCode and GetUserInfo.
CallbackExchange(r) ==
    /\ At(r, "callback_exchange")
    /\ LET k == req[r].code
       IN IF Exchangeable(k)
          THEN /\ Exchange(k)
               /\ req' = [req EXCEPT ![r].pc = "callback_lookup",
                                     ![r].location = CodeLocation[k]]
          ELSE Finish(r, "err") /\ UNCHANGED exchanged
    /\ UNCHANGED <<environment, tables, redeemers>>

\* Mutant: the id of the row found is not kept for the UPDATE that follows.
CallbackLookupForgets(r) ==
    /\ At(r, "callback_lookup")
    /\ Goto(r, IF RowsOf(req[r].client, req[r].platform) = {}
               THEN "callback_create" ELSE "callback_activate")
    /\ UNCHANGED <<environment, tables, exchanged, redeemers>>

CallbackLookup(r) ==
    /\ At(r, "callback_lookup")
    /\ LET found == RowsOf(req[r].client, req[r].platform)
       IN \/ \E i \in found :
               IF integration[i].status = "CREATED"
               THEN req' = [req EXCEPT ![r].pc = "callback_activate",
                                       ![r].id = i]
               ELSE Finish(r, "err")
          \/ found = {} /\ Goto(r, "callback_create")
    /\ UNCHANGED <<environment, tables, exchanged, redeemers>>

CallbackActivate(r) ==
    /\ At(r, "callback_activate")
    /\ IF Exists(req[r].id)
       THEN UpdateStatus(req[r].id, "ACTIVE") /\ Goto(r, "callback_token")
       ELSE UNCHANGED integration /\ Finish(r, "err")
    /\ UNCHANGED <<environment, token, configLocation, configKey, oauthState,
                   exchanged, redeemers>>

\* external_account_id is set to the user id, not to the locationId.
CallbackCreate(r) ==
    /\ At(r, "callback_create")
    /\ LET c == req[r].client
           p == req[r].platform
       IN \/ /\ CanCreate(c, p)
             /\ \E i \in Ids :
                  /\ CreateRow(i, c, p, User, "ACTIVE")
                  /\ req' = [req EXCEPT ![r].pc = "callback_token",
                                        ![r].id = i]
          \/ /\ ~ CanCreate(c, p)
             /\ Finish(r, "err")
             /\ UNCHANGED integration
    /\ UNCHANGED <<environment, token, configLocation, configKey, oauthState,
                   exchanged, redeemers>>

\* Mutant: the INSERT replaces the tokens already there.
CanReplaceToken(i) == Exists(i)

\* INSERT INTO oauth_tokens: foreign key and uq_oauth_token_integration.
CanStoreToken(i) == Exists(i) /\ token[i] = None

\* (An INSERT that commits and whose answer is lost is left out: the tokens are
\* there, and the callback reports a failure.)
CallbackToken(r) ==
    /\ At(r, "callback_token")
    /\ LET i == req[r].id
       IN IF CanStoreToken(i)
          THEN token' = [token EXCEPT ![i] = req[r].code]
               /\ Goto(r, "register_get")
          ELSE UNCHANGED token /\ Finish(r, "partial")
    /\ UNCHANGED <<environment, integration, configLocation, configKey,
                   oauthState, exchanged, redeemers>>

-------------------------------------------------------------------------------
(* RegisterProvider, whose failures do not fail the callback *)

\* The guards, the reads, and the calls that create the association and the
\* configuration at HighLevel; any may fail.  A configuration fetched because
\* it exists already is taken to name the location it was asked for.
RegisterGet(r) ==
    /\ At(r, "register_get")
    /\ \/ /\ req[r].location # None
          /\ Exists(req[r].id)
          /\ Goto(r, "register_create")
       \/ Finish(r, "ok")
    /\ UNCHANGED <<environment, tables, exchanged, redeemers>>

\* The API key of a registration is drawn at random: one per request.
NewAPIKey(r) == r

RegisterCreate(r) ==
    /\ At(r, "register_create")
    /\ LET i == req[r].id
       IN \/ /\ Exists(i) /\ configLocation[i] = None
             /\ configLocation' = [configLocation EXCEPT ![i] = req[r].location]
             /\ configKey' = [configKey EXCEPT ![i] = NewAPIKey(r)]
             /\ Finish(r, "ok")
          \/ /\ Exists(i) /\ configLocation[i] # None
             /\ Goto(r, "register_update")
             /\ UNCHANGED <<configLocation, configKey>>
          \/ /\ ~ Exists(i)
             /\ Finish(r, "ok")
             /\ UNCHANGED <<configLocation, configKey>>
    /\ UNCHANGED <<environment, integration, token, oauthState, exchanged,
                   redeemers>>

RegisterUpdate(r) ==
    /\ At(r, "register_update")
    /\ LET i == req[r].id
       IN IF configLocation[i] # None
          THEN /\ configLocation' = [configLocation EXCEPT
                                       ![i] = req[r].location]
               /\ configKey' = [configKey EXCEPT ![i] = NewAPIKey(r)]
          ELSE UNCHANGED <<configLocation, configKey>>
    /\ Finish(r, "ok")
    /\ UNCHANGED <<environment, integration, token, oauthState, exchanged,
                   redeemers>>

-------------------------------------------------------------------------------
(* The dispatcher's handler of an INSTALL event *)

HandleIntegrationInstalled(r) ==
    /\ Arrives(r, "handleIntegrationInstalled")
    /\ \E l \in Locations :
         req' = [req EXCEPT ![r].pc = "resolve_account", ![r].location = l]
    /\ UNCHANGED <<environment, tables, exchanged, redeemers>>

InstalledConfig(r) ==
    /\ At(r, "installed_config")
    /\ IF configLocation[req[r].id] # None
       THEN Finish(r, "ok") ELSE Goto(r, "installed_create")
    /\ UNCHANGED <<environment, tables, exchanged, redeemers>>

\* Mutant: an upsert, which overwrites the row RegisterProvider stored.
InstalledUpsert(r) ==
    /\ At(r, "installed_create")
    /\ configLocation' = [configLocation EXCEPT ![req[r].id] = req[r].location]
    /\ configKey' = [configKey EXCEPT ![req[r].id] = None]
    /\ Finish(r, "ok")
    /\ UNCHANGED <<environment, integration, token, oauthState, exchanged,
                   redeemers>>

\* INSERT with a blank key; ErrDuplicate means "reuse it" and leaves the row.
InstalledCreate(r) ==
    /\ At(r, "installed_create")
    /\ LET i == req[r].id
       IN \/ /\ Exists(i) /\ configLocation[i] = None
             /\ configLocation' = [configLocation EXCEPT ![i] = req[r].location]
             /\ configKey' = [configKey EXCEPT ![i] = None]
             /\ Finish(r, "ok")
          \/ /\ Exists(i) /\ configLocation[i] # None
             /\ Finish(r, "ok")
             /\ UNCHANGED <<configLocation, configKey>>
          \/ /\ ~ Exists(i)
             /\ Finish(r, "err")
             /\ UNCHANGED <<configLocation, configKey>>
    /\ UNCHANGED <<environment, integration, token, oauthState, exchanged,
                   redeemers>>

-------------------------------------------------------------------------------
(* A request stops: a statement or call fails, the context is cancelled, or  *)
(* the process is killed.  Once the tokens are stored the callback counts as *)
(* done: RegisterProvider's errors are only logged.                          *)

Registering(r) == req[r].pc \in {"register_get", "register_create",
                                 "register_update"}

Fail(r) ==
    /\ req[r].pc \notin {"idle", "done"}
    /\ Finish(r, IF Registering(r) THEN "ok"
                 ELSE IF At(r, "callback_token") THEN "partial" ELSE "err")
    /\ UNCHANGED <<environment, tables, exchanged, redeemers>>

-------------------------------------------------------------------------------
(* The rows of clients and platforms, written by the handlers of             *)
(* clients_service.go and platforms_service.go; here only the statement that *)
(* takes effect.                                                             *)

\* UpdateClient writes back the status it read, which may be any earlier one.
SetClientStatus(c) ==
    /\ clientStatus[c] # "NONE"
    /\ \E status \in {"REGISTERED", "ACTIVE", "CLOSED"} \ {clientStatus[c]} :
         clientStatus' = [clientStatus EXCEPT ![c] = status]
    /\ UNCHANGED <<platformEnabled, tables, exchanged, redeemers, req>>

\* DELETE FROM clients: restricted by integrations, cascades to oauth_states.
\* The handler's check of the status may be out of date by then.
DeleteClient(c) ==
    /\ clientStatus[c] # "NONE"
    /\ \A i \in Ids : Exists(i) => integration[i].client # c
    /\ clientStatus' = [clientStatus EXCEPT ![c] = "NONE"]
    /\ oauthState' = [s \in States |->
                        IF oauthState[s].client = c
                        THEN [oauthState[s] EXCEPT !.phase = "DELETED"]
                        ELSE oauthState[s]]
    /\ UNCHANGED <<platformEnabled, integration, token, configLocation,
                   configKey, exchanged, redeemers, req>>

SetPlatformEnabled(p) ==
    /\ platformEnabled' = [platformEnabled EXCEPT ![p] = ~ @]
    /\ UNCHANGED <<clientStatus, tables, exchanged, redeemers, req>>

-------------------------------------------------------------------------------
ManageIntegration(r) ==
    \/ InstallIntegration(r) \/ InstallPlatform(r) \/ InstallLookup(r)
    \/ InstallCreate(r)
    \/ ReconnectIntegration(r) \/ ReconnectUpdate(r)
    \/ DisconnectIntegration(r) \/ DisconnectUpdate(r)
    \/ SyncIntegration(r) \/ SyncUpdate(r)
    \/ UninstallIntegration(r) \/ UninstallRevoke(r) \/ UninstallDelete(r)

Authorize(r) ==
    \/ BeginAuthorization(r) \/ BeginClient(r) \/ BeginCreate(r)
    \/ CallbackWithState(r) \/ CallbackWithoutState(r)
    \/ ResolveAccount(r) \/ ResolveConfig(r) \/ ResolveID(r)
    \/ CallbackPlatform(r) \/ CallbackClient(r) \/ CallbackExchange(r)
    \/ CallbackLookup(r) \/ CallbackActivate(r) \/ CallbackCreate(r)
    \/ CallbackToken(r)

Register(r) ==
    \/ RegisterGet(r) \/ RegisterCreate(r) \/ RegisterUpdate(r)
    \/ HandleIntegrationInstalled(r) \/ InstalledConfig(r) \/ InstalledCreate(r)

Next ==
    \/ \E r \in Requests :
         ManageIntegration(r) \/ Authorize(r) \/ Register(r) \/ Fail(r)
    \/ \E s \in States : StateExpires(s)
    \/ \E c \in Clients : SetClientStatus(c) \/ DeleteClient(c)
    \/ \E p \in Platforms : SetPlatformEnabled(p)

Spec == Init /\ [][Next]_vars

-------------------------------------------------------------------------------
(* Correctness *)

\* ConsumeOAuthState (oauth_states.sql) is what keeps a callback from being
\* replayed: however callbacks carrying the same state interleave, at most one
\* of them ever gets past HandleCallback's state check.
StateRedeemedOnce ==
    \A s \in States : \A r1, r2 \in redeemers[s] : r1 = r2

\* No handler locks the pair it looked up, so only the unique constraint stands
\* between two installs that both found nothing: a client and a platform have
\* at most one integration whatever InstallIntegration and callbacks race.
OneIntegrationPerPair ==
    \A i, j \in Ids :
        /\ Exists(i) /\ Exists(j)
        /\ integration[i].client = integration[j].client
        /\ integration[i].platform = integration[j].platform
        => i = j

\* Callback r has stored its tokens.
Stored(r) == IsCallback(r) /\ (Registering(r) \/ Ended(r, "ok"))

\* Client c itself named location l for platform p: its InstallIntegration gave
\* the location, or a callback did that carried a state issued to it.
Claimed(c, p, l) ==
    /\ l # None
    /\ \E q \in Requests :
         /\ req[q].client = c /\ req[q].platform = p /\ req[q].location = l
         /\ \/ OpOf[q] = "InstallIntegration" /\ Ended(q, "ok")
            \/ req[q].state # None /\ Stored(q)

\* The tokens stored for an integration come from a callback with a state that
\* was issued to the integration's own client and platform, or from one without
\* a state whose location that client has itself named: neither an INSTALL event
\* nor a callback without a state ever brings a client the tokens of a location
\* it did not name (HandleCallback, handleIntegrationInstalled).  Of two clients
\* that name one location either may get the tokens of its callbacks.
CredentialsStayWithTheirClient ==
    \A i \in Ids : token[i] # None =>
        \E r \in Requests :
            /\ IsCallback(r)
            /\ req[r].id = i /\ req[r].code = token[i]
            /\ req[r].client = integration[i].client
            /\ req[r].platform = integration[i].platform
            /\ \/ /\ req[r].state # None
                  /\ r \in redeemers[req[r].state]
                  /\ oauthState[req[r].state].client = req[r].client
                  /\ oauthState[req[r].state].platform = req[r].platform
               \/ /\ req[r].state = None
                  /\ Claimed(req[r].client, req[r].platform,
                             CodeLocation[token[i]])

\* ProcessCallback marks the integration ACTIVE one statement before it stores
\* the tokens.  An ACTIVE integration without tokens is always the trace of a
\* callback caught, or stopped, between the two: no other handler makes one,
\* SyncIntegration's write of a stale ACTIVE included.
ActiveHasToken ==
    \A i \in Ids : integration[i].status = "ACTIVE" /\ token[i] = None =>
        \E r \in Requests :
            /\ IsCallback(r) /\ req[r].id = i
            /\ At(r, "callback_token") \/ Ended(r, "partial")

\* The plain INSERT of oauthRepo.Create lets one callback per integration
\* through, whatever ReconnectIntegration and SyncIntegration do to the status
\* in between: two callbacks never both report one integration as installed.
OneInstallationPerIntegration ==
    \A r1, r2 \in Requests :
        Stored(r1) /\ Stored(r2) /\ req[r1].id = req[r2].id => r1 = r2

\* An authorization code stands for one grant.  Two integrations never hold the
\* tokens of one exchange, and a callback without a state, which exchanges its code
\* once to learn the location and once more in ProcessCallback, installs nothing
\* unless HighLevel exchanges a code twice.
CodesServeOnce ==
    /\ \A i, j \in Ids : i # j /\ token[i] = token[j] /\ token[i] # None =>
         exchanged[token[i]] > 1
    /\ \A r \in Requests : Stored(r) /\ req[r].state = None =>
         exchanged[req[r].code] > 1

\* An INSTALL event that found no config and inserts one with a blank key may
\* race RegisterProvider's Create and Update: a key that has been generated is
\* never blanked while the row lives.
KeyNeverBlanked ==
    [][\A i \in Ids :
         configKey[i] # None /\ configLocation'[i] # None
            => configKey'[i] # None]_vars

\* A request that read a status and is about to write another one than REVOKED.
Reviving(r) == req[r].pc \in {"reconnect_update", "sync_update",
                              "callback_activate"}

Settled(i) == /\ integration[i].status = "REVOKED"
              /\ \A r \in Requests : Reviving(r) => req[r].id # i

\* A revoked integration that no request in flight read before it was revoked
\* stays revoked until it is deleted: Reconnect, Sync and callbacks that start
\* afterwards all refuse it, and Disconnect and Uninstall leave it settled.
RevokedStaysRevoked ==
    [][\A i \in Ids : Settled(i) => Settled(i)' \/ ~ Exists(i)']_vars

\* The abstract state of Authorization: whom a pair of columns names, what has
\* become of a state and of an integration.
Owner(c, p) == IF c = None THEN None ELSE <<c, p>>

GrantPhase(s) ==
    CASE oauthState[s].phase = "NONE" -> "none"
      [] oauthState[s].phase = "open" -> "open"
      [] OTHER -> IF redeemers[s] = {} THEN "void" ELSE "spent"

Stage(i) == IF Exists(i) THEN "live"
            ELSE IF integration[i].status = "NONE" THEN "none" ELSE "gone"

Abstract == INSTANCE Authorization WITH
    Grants <- States, Bearers <- Requests, Integrations <- Ids,
    Owners <- Clients \X Platforms,
    phase <- [s \in States |-> GrantPhase(s)],
    grantee <- [s \in States |->
                  Owner(oauthState[s].client, oauthState[s].platform)],
    acting <- [r \in Requests |->
                 IF IsCallback(r) THEN Owner(req[r].client, req[r].platform)
                                  ELSE None],
    stage <- [i \in Ids |-> Stage(i)],
    owner <- [i \in Ids |-> Owner(integration[i].client, integration[i].platform)],
    credentials <- token

\* All the statements of the handlers together do what Authorization allows: a
\* callback acts for one owner and no other from the statement that let it in
\* to the one that stores its tokens, although the integration it found may be
\* uninstalled, reinstalled or given to another callback in between.
ImplementsAuthorization == Abstract!Spec

-------------------------------------------------------------------------------
(* The inductive invariant behind the theorems of InstallationProofs *)

\* A state that let a callback through is consumed, or gone with its client.
ConsumedStates ==
    /\ StateRedeemedOnce
    /\ \A s \in States : redeemers[s] # {} =>
         oauthState[s].phase \in {"consumed", "DELETED"}

\* A callback that stored its tokens leaves them in the table until the
\* integration is deleted.
StoredTokens ==
    \A r \in Requests : Stored(r) =>
        /\ req[r].id \in Ids
        /\ \/ integration[req[r].id].status = "DELETED"
           \/ token[req[r].id] # None

\* Tokens are stored for i, or a callback activated i and has yet to store
\* them, or never will.
Covered(i) ==
    \/ token[i] # None
    \/ \E r \in Requests :
         /\ IsCallback(r) /\ req[r].id = i
         /\ At(r, "callback_token") \/ Ended(r, "partial")

\* What SyncIntegration read stays true of the row it is about to write.
ActiveCovered ==
    \A i \in Ids :
        /\ integration[i].status # "DELETED"
        /\ \/ integration[i].status = "ACTIVE"
           \/ \E r \in Requests : At(r, "sync_update") /\ req[r].id = i
        => Covered(i)

\* Request r has the client and the platform of row i.
ActsFor(r, i) == /\ integration[i].status # "NONE"
                 /\ integration[i].client = req[r].client
                 /\ integration[i].platform = req[r].platform

\* A callback that has neither consumed a state nor found an integration.
Unbound(r) == req[r].pc = "idle" \/ req[r].pc \in ResolvePoints

\* A callback acts for nobody until it is bound, for the owner of its state if
\* it has one, and for the owner of the row whose tokens it is to store.
BearersBound ==
    \A r \in Requests : IsCallback(r) =>
        /\ Unbound(r) => req[r].client = None /\ req[r].state = None
        /\ req[r].state # None =>
             /\ r \in redeemers[req[r].state]
             /\ oauthState[req[r].state].client = req[r].client
             /\ oauthState[req[r].state].platform = req[r].platform
        /\ At(r, "callback_activate") \/ At(r, "callback_token") =>
             ActsFor(r, req[r].id)

\* Tokens belong to a row that exists and were stored by a callback, which
\* keeps its client and platform, as the row does.
TokensOwned ==
    \A i \in Ids : token[i] # None =>
        /\ Exists(i)
        /\ \E r \in Requests : /\ Stored(r) /\ ActsFor(r, i)
                               /\ req[r].id = i /\ req[r].code = token[i]

\* Where a callback has its code exchanged, by HandleCallback and ProcessCallback.
ExchangedPoints == {"callback_lookup", "callback_activate", "callback_create",
                    "callback_token", "register_get", "register_create",
                    "register_update"}
Exchanged(r) == IsCallback(r) /\ (req[r].pc \in ExchangedPoints \/ Stored(r))
ExchangedEarly(r) ==
    IsCallback(r) /\ req[r].state = None /\ req[r].pc \in ResolvePoints \cup CallbackPoints

\* Each callback past ProcessCallback's exchange had one for itself, and one more
\* before it when it came without a state.
ExchangesCounted ==
    /\ \A r \in Requests : Exchanged(r) =>
         /\ req[r].code \in Codes
         /\ exchanged[req[r].code] > IF req[r].state = None THEN 1 ELSE 0
    /\ \A r \in Requests : ExchangedEarly(r) => exchanged[req[r].code] > 0
    /\ \A q, r \in Requests :
         q # r /\ Exchanged(q) /\ Exchanged(r) /\ req[q].code = req[r].code =>
         exchanged[req[r].code] > 1

\* Keys go with their config, and a registration has a location to configure.
KeysConfigured ==
    /\ \A i \in Ids : configLocation[i] = None => configKey[i] = None
    /\ \A r \in Requests : req[r].pc \in {"register_create", "register_update"} =>
         req[r].location # None

\* Where a request is bound to a client and a platform.
OwnerPoints == CallbackPoints \cup
    {"install_platform", "install_lookup", "install_create",
     "begin_client", "begin_create"}

\* A row, an issued state and a request that is to create one have an owner.
OwnersKnown ==
    /\ \A i \in Ids : integration[i].status # "NONE" =>
         integration[i].client \in Clients /\ integration[i].platform \in Platforms
    /\ \A s \in States :
         IF oauthState[s].phase = "NONE" THEN oauthState[s].client = None
         ELSE /\ oauthState[s].client \in Clients
              /\ oauthState[s].platform \in Platforms
    /\ \A r \in Requests : req[r].pc \in OwnerPoints =>
         req[r].client \in Clients /\ req[r].platform \in Platforms

\* The client of row i named location l.
Vouched(i, l) == /\ integration[i].status # "NONE"
                 /\ Claimed(integration[i].client, integration[i].platform, l)

\* No row leads from a location to a client that did not name it.
RowsClaimed ==
    \A i \in Ids :
        /\ integration[i].status # "NONE" /\ integration[i].account \in Locations
             => Vouched(i, integration[i].account)
        /\ configLocation[i] # None => Vouched(i, configLocation[i])

\* Nor does a request: from where its location has led it to a row, the client of
\* the row named the location, and the one it then acts for.
RequestClaimed(r) ==
    /\ req[r].pc \in {"install_platform", "install_lookup", "install_create"}
         => OpOf[r] = "InstallIntegration"
    /\ req[r].pc \in ResolvePoints =>
         /\ req[r].location \in Locations
         /\ IsCallback(r) => /\ req[r].location = CodeLocation[req[r].code]
                             /\ req[r].state = None
    /\ req[r].pc \in {"resolve_id", "installed_config", "installed_create"}
         => Vouched(req[r].id, req[r].location)
    /\ IsCallback(r) /\ req[r].pc \in ExchangedPoints
         => req[r].location = CodeLocation[req[r].code]
    /\ IsCallback(r) /\ req[r].state = None
         /\ (req[r].pc \in CallbackPoints \/ Stored(r))
         => Claimed(req[r].client, req[r].platform, CodeLocation[req[r].code])
    /\ Registering(r) => ActsFor(r, req[r].id)

RequestsClaimed == \A r \in Requests : RequestClaimed(r)

IInv == TypeOK /\ ConsumedStates /\ StoredTokens
        /\ OneInstallationPerIntegration /\ ActiveCovered
        /\ OneIntegrationPerPair /\ BearersBound /\ TokensOwned
        /\ KeysConfigured /\ OwnersKnown /\ ExchangesCounted
        /\ RowsClaimed /\ RequestsClaimed
===============================================================================
