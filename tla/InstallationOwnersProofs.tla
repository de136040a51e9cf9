----------------------- MODULE InstallationOwnersProofs -----------------------
(***************************************************************************)
(* Theorems about who owns what in Installation: one integration per       *)
(* client and platform, credentials that stay with their client, and the   *)
(* refinement of Authorization.                                            *)
(***************************************************************************)
EXTENDS InstallationProofs

USE DEF environment, tables

-------------------------------------------------------------------------------
(* One integration per client and platform *)

\* Every statement that writes integrations: an UPDATE or DELETE of a row that
\* exists, or the INSERT of a handler whose pair is free.
RowsStep ==
    \/ UNCHANGED integration
    \/ \E j, x : /\ Exists(j) /\ UpdateStatus(j, x)
                 /\ x \in {"CREATED", "ACTIVE", "REVOKED", "DELETED"}
    \/ \E r \in Requests, j \in Ids : \E a, x :
         /\ At(r, "install_create") \/ At(r, "callback_create")
         /\ (a = User \/ (InstallCreate(r) /\ a = req[r].location))
         /\ CanCreate(req[r].client, req[r].platform)
         /\ CreateRow(j, req[r].client, req[r].platform, a, x)
         /\ x \in {"CREATED", "ACTIVE"}

\* No step writes integrations otherwise.
LEMMA NextRows ==
    ASSUME [Next]_vars
    PROVE  RowsStep
<1>1. CASE UNCHANGED integration
  BY <1>1 DEF RowsStep
<1>2. ASSUME NEW r \in Requests, ManageIntegration(r) PROVE RowsStep
  <2>1. CASE InstallCreate(r)
    <3>1. ASSUME NEW j \in Ids, CanCreate(req[r].client, req[r].platform),
                 CreateRow(j, req[r].client, req[r].platform, req[r].location,
                           "CREATED")
          PROVE  RowsStep
      <4>1. At(r, "install_create")
        BY <2>1 DEF InstallCreate
      <4>. QED  BY <2>1, <3>1, <4>1 DEF RowsStep
    <3>. QED  BY <1>1, <2>1, <3>1 DEF InstallCreate
  <2>2. CASE \/ ReconnectUpdate(r) \/ DisconnectUpdate(r) \/ SyncUpdate(r)
             \/ UninstallRevoke(r) \/ UninstallDelete(r)
    BY <1>1, <2>2 DEF ReconnectUpdate, DisconnectUpdate, SyncUpdate, UpdateByID,
       UninstallRevoke, UninstallDelete, RowsStep
  <2>. QED
    BY <1>1, <1>2, <2>1, <2>2 DEF ManageIntegration, InstallIntegration,
       InstallPlatform, InstallLookup, ReconnectIntegration, GetByID,
       DisconnectIntegration, SyncIntegration, UninstallIntegration
<1>3. ASSUME NEW r \in Requests, Authorize(r) PROVE RowsStep
  <2>1. CASE CallbackActivate(r)
    BY <1>1, <2>1 DEF CallbackActivate, RowsStep
  <2>2. CASE CallbackCreate(r)
    <3>1. ASSUME NEW j \in Ids, CanCreate(req[r].client, req[r].platform),
                 CreateRow(j, req[r].client, req[r].platform, User, "ACTIVE")
          PROVE  RowsStep
      <4>1. At(r, "callback_create")
        BY <2>2 DEF CallbackCreate
      <4>. QED  BY <3>1, <4>1 DEF RowsStep
    <3>. QED  BY <1>1, <2>2, <3>1 DEF CallbackCreate
  <2>3. CASE \/ BeginAuthorization(r) \/ BeginClient(r) \/ BeginCreate(r)
             \/ CallbackWithState(r) \/ CallbackWithoutState(r)
    BY <1>1, <2>3 DEF BeginAuthorization, BeginClient, BeginCreate,
       CallbackWithState, CallbackWithoutState
  <2>4. CASE \/ ResolveAccount(r) \/ ResolveConfig(r) \/ ResolveID(r)
             \/ CallbackPlatform(r) \/ CallbackClient(r) \/ CallbackExchange(r)
             \/ CallbackLookup(r) \/ CallbackToken(r)
    BY <1>1, <2>4 DEF ResolveAccount, ResolveConfig, ResolveID,
       CallbackPlatform, CallbackClient, CallbackExchange, CallbackLookup,
       CallbackToken
  <2>. QED  BY <1>3, <2>1, <2>2, <2>3, <2>4 DEF Authorize
<1>4. ASSUME NEW r \in Requests, Register(r) \/ Fail(r) PROVE RowsStep
  BY <1>1, <1>4 DEF Register, Fail, RegisterGet, RegisterCreate,
     RegisterUpdate, HandleIntegrationInstalled, InstalledConfig, InstalledCreate
<1>5. CASE Environment
  BY <1>1, <1>5 DEF Environment, StateExpires, SetClientStatus, DeleteClient,
     SetPlatformEnabled
<1>. QED  BY <1>1, <1>2, <1>3, <1>4, <1>5 DEF Next, Environment, vars

\* UPDATE integrations SET status leaves the owners alone.
LEMMA UpdateStatusOwner ==
    ASSUME IntegrationsOK, NEW j, NEW x, UpdateStatus(j, x), NEW i \in Ids
    PROVE  /\ integration'[i].client = integration[i].client
           /\ integration'[i].platform = integration[i].platform
           /\ integration'[i].account = integration[i].account
  BY DEF IntegrationsOK, IntegrationRow, UpdateStatus

\* INSERT INTO integrations gives the new row its owner.
LEMMA CreateRowOwner ==
    ASSUME IntegrationsOK, NEW j \in Ids, NEW c, NEW p, NEW a, NEW x,
           CreateRow(j, c, p, a, x)
    PROVE  /\ \A i \in Ids \ {j} : integration'[i] = integration[i]
           /\ integration'[j].client = c /\ integration'[j].platform = p
           /\ integration'[j].status = x /\ integration'[j].account = a
  BY DEF IntegrationsOK, IntegrationRow, CreateRow

\* Once it is there a row keeps its owner, deleted or not.
LEMMA OwnerKept ==
    ASSUME TypeOK, RowsStep, NEW i \in Ids, integration[i].status # "NONE"
    PROVE  /\ integration'[i].status # "NONE"
           /\ integration'[i].client = integration[i].client
           /\ integration'[i].platform = integration[i].platform
<1>0. IntegrationsOK
  BY DEF TypeOK
<1>1. CASE UNCHANGED integration
  BY <1>1
<1>2. ASSUME NEW j, NEW x \in {"CREATED", "ACTIVE", "REVOKED", "DELETED"},
             UpdateStatus(j, x)
      PROVE  /\ integration'[i].status # "NONE"
             /\ integration'[i].client = integration[i].client
             /\ integration'[i].platform = integration[i].platform
  BY <1>0, <1>2, UpdateStatusOwner, UpdateStatusEffect
<1>3. ASSUME NEW j \in Ids, NEW c, NEW p, NEW a, NEW x, CreateRow(j, c, p, a, x)
      PROVE  integration'[i] = integration[i]
  <2>1. i # j
    BY <1>3 DEF CreateRow
  <2>. QED  BY <1>0, <1>3, <2>1, CreateRowOwner
<1>. QED  BY <1>1, <1>2, <1>3 DEF RowsStep

\* The unique constraint holds after each statement.
LEMMA OnePairNext ==
    ASSUME TypeOK, OneIntegrationPerPair, [Next]_vars
    PROVE  OneIntegrationPerPair'
<1>0. IntegrationsOK
  BY DEF TypeOK
<1>1. CASE UNCHANGED integration
  BY <1>1 DEF OneIntegrationPerPair, Exists
<1>2. ASSUME NEW j, NEW x, Exists(j), UpdateStatus(j, x)
      PROVE  OneIntegrationPerPair'
  <2>1. \A i \in Ids : /\ Exists(i)' => Exists(i)
                       /\ integration'[i].client = integration[i].client
                       /\ integration'[i].platform = integration[i].platform
    BY <1>0, <1>2, UpdateStatusOwner, UpdateStatusEffect DEF Exists
  <2>. QED  BY <2>1 DEF OneIntegrationPerPair
<1>3. ASSUME NEW j \in Ids, NEW c, NEW p, NEW a, NEW x, CanCreate(c, p),
             CreateRow(j, c, p, a, x)
      PROVE  OneIntegrationPerPair'
  <2>1. \A i \in Ids \ {j} : /\ integration'[i] = integration[i]
                             /\ Exists(i)' <=> Exists(i)
    BY <1>0, <1>3, CreateRowOwner DEF Exists
  <2>2. integration'[j].client = c /\ integration'[j].platform = p
    BY <1>0, <1>3, CreateRowOwner
  \* Nobody has the pair of the new row.
  <2>3. \A i \in Ids \ {j} :
           ~ (Exists(i) /\ integration[i].client = c /\ integration[i].platform = p)
    BY <1>3 DEF CanCreate, RowsOf
  <2>. QED  BY <2>1, <2>2, <2>3 DEF OneIntegrationPerPair
<1>. QED  BY <1>1, <1>2, <1>3, NextRows DEF RowsStep

\* For any number of concurrent installs and callbacks, all of which look the
\* pair up before they insert, a client and a platform never have two
\* integrations.
THEOREM OnePerPair == Spec => []OneIntegrationPerPair
<1>1. Init => OneIntegrationPerPair
  BY DEF Init, OneIntegrationPerPair, Exists
<1>2. TypeOK /\ OneIntegrationPerPair /\ [Next]_vars => OneIntegrationPerPair'
  BY OnePairNext
<1>. QED  BY <1>1, <1>2, TypeCorrect, PTL DEF Spec

-------------------------------------------------------------------------------
(* What a step does to the states and to the callbacks *)

\* Every statement that writes oauth_states, as far as ownership goes.
StatesStep ==
    \/ UNCHANGED <<oauthState, redeemers>>
    \/ \E r \in Requests, s \in States :
         /\ At(r, "begin_create")
         /\ oauthState[s].phase = "NONE"
         /\ oauthState' = [oauthState EXCEPT ![s] =
                             [phase |-> "open", client |-> req[r].client,
                              platform |-> req[r].platform]]
         /\ UNCHANGED redeemers
    \/ \E r \in Requests, s \in States :
         /\ Consumable(s)
         /\ oauthState' = [oauthState EXCEPT ![s].phase = "consumed"]
         /\ redeemers' = [redeemers EXCEPT ![s] = @ \cup {r}]
    \/ (\E s \in States : StateExpires(s)) \/ (\E c \in Clients : DeleteClient(c))

\* No step writes oauth_states otherwise.
LEMMA NextStates ==
    ASSUME [Next]_vars
    PROVE  StatesStep
<1>1. CASE UNCHANGED <<oauthState, redeemers>>
  BY <1>1 DEF StatesStep
<1>2. ASSUME NEW r \in Requests, BeginCreate(r) PROVE StatesStep
  BY <1>2 DEF BeginCreate, StatesStep
<1>3. ASSUME NEW r \in Requests, CallbackWithState(r) PROVE StatesStep
  BY <1>1, <1>3 DEF CallbackWithState, StatesStep
<1>6. ASSUME NEW r \in Requests, ManageIntegration(r) PROVE StatesStep
  BY <1>1, <1>6 DEF ManageIntegration, InstallIntegration, InstallPlatform,
     InstallLookup, InstallCreate, ReconnectIntegration, ReconnectUpdate,
     DisconnectIntegration, DisconnectUpdate, SyncIntegration, SyncUpdate,
     UninstallIntegration, UninstallRevoke, UninstallDelete, GetByID, UpdateByID
<1>7. ASSUME NEW r \in Requests, Authorize(r) PROVE StatesStep
  <2>1. CASE \/ BeginAuthorization(r) \/ BeginClient(r) \/ CallbackWithoutState(r)
             \/ ResolveAccount(r) \/ ResolveConfig(r) \/ ResolveID(r)
    BY <1>1, <2>1 DEF BeginAuthorization, BeginClient, CallbackWithoutState,
       ResolveAccount, ResolveConfig, ResolveID
  <2>2. CASE \/ CallbackPlatform(r) \/ CallbackClient(r) \/ CallbackExchange(r)
             \/ CallbackLookup(r) \/ CallbackActivate(r) \/ CallbackCreate(r)
             \/ CallbackToken(r)
    BY <1>1, <2>2 DEF CallbackPlatform, CallbackClient, CallbackExchange,
       CallbackLookup, CallbackActivate, CallbackCreate, CallbackToken
  <2>. QED  BY <1>2, <1>3, <1>7, <2>1, <2>2 DEF Authorize
<1>8. ASSUME NEW r \in Requests, Register(r) \/ Fail(r) PROVE StatesStep
  BY <1>1, <1>8 DEF Register, Fail, RegisterGet, RegisterCreate,
     RegisterUpdate, HandleIntegrationInstalled, InstalledConfig, InstalledCreate
<1>9. CASE Environment
  BY <1>1, <1>9 DEF Environment, SetClientStatus, SetPlatformEnabled, StatesStep
<1>. QED  BY <1>1, <1>6, <1>7, <1>8, <1>9 DEF Next, Environment, vars

\* A state that let a callback through keeps its owner and its redeemers.
LEMMA RedeemedKept ==
    ASSUME TypeOK, ConsumedStates, [Next]_vars, NEW s \in States,
           redeemers[s] # {}
    PROVE  /\ redeemers[s] \subseteq redeemers'[s]
           /\ oauthState'[s].client = oauthState[s].client
           /\ oauthState'[s].platform = oauthState[s].platform
<1>0. StatesOK /\ oauthState[s].phase \in {"consumed", "DELETED"}
  BY DEF TypeOK, ConsumedStates
<1>1. ASSUME NEW t \in States, StateExpires(t)
      PROVE  oauthState'[s] = oauthState[s] /\ UNCHANGED redeemers
  BY <1>0, <1>1 DEF StateExpires, StatesOK
<1>2. ASSUME NEW c \in Clients, DeleteClient(c)
      PROVE  /\ oauthState'[s].client = oauthState[s].client
             /\ oauthState'[s].platform = oauthState[s].platform
             /\ UNCHANGED redeemers
  BY <1>0, <1>2 DEF DeleteClient, StatesOK, OAuthStateRow
<1>3. ASSUME NEW r \in Requests, NEW t \in States, Consumable(t),
             oauthState' = [oauthState EXCEPT ![t].phase = "consumed"],
             redeemers' = [redeemers EXCEPT ![t] = @ \cup {r}]
      PROVE  oauthState'[s] = oauthState[s] /\ redeemers'[s] = redeemers[s]
  BY <1>0, <1>3 DEF Consumable, StatesOK
<1>4. ASSUME NEW q, NEW t \in States, oauthState[t].phase = "NONE",
             oauthState' = [oauthState EXCEPT ![t] = q], UNCHANGED redeemers
      PROVE  oauthState'[s] = oauthState[s] /\ redeemers'[s] = redeemers[s]
  BY <1>0, <1>4 DEF StatesOK
<1>. QED  BY <1>1, <1>2, <1>3, <1>4, NextStates DEF StatesStep

\* The request keeps what it acts with.
KeepsOwner(r) == /\ req'[r].client = req[r].client
                 /\ req'[r].platform = req[r].platform
                 /\ req'[r].state = req[r].state

\* The row a callback is about to write: the one it just looked up, the one it
\* just activated, or the one it just created.
Finds(r) ==
    \/ /\ UNCHANGED integration
       /\ req'[r].id \in RowsOf(req[r].client, req[r].platform)
    \/ At(r, "callback_activate") /\ req'[r].id = req[r].id
    \/ /\ req'[r].id \in Ids
       /\ \E x \in {"ACTIVE"} : CreateRow(req'[r].id, req[r].client,
                                          req[r].platform, User, x)

\* A step that neither binds the callback to an owner nor changes its owner.
Proceeds(r) ==
    /\ KeepsOwner(r)
    /\ Unbound(r)' => Unbound(r)
    /\ req'[r].pc \in CallbackPoints => req[r].pc \in CallbackPoints
    /\ req'[r].pc \in {"callback_activate", "callback_token"} => Finds(r)
    /\ Stored(r) => req'[r].id = req[r].id /\ req'[r].code = req[r].code
                    /\ Stored(r)'

\* HandleCallback consumes state s.
Redeems(r, s) ==
    /\ Arrives(r, "HandleCallback")
    /\ Consumable(s)
    /\ oauthState' = [oauthState EXCEPT ![s].phase = "consumed"]
    /\ redeemers' = [redeemers EXCEPT ![s] = @ \cup {r}]
    /\ UNCHANGED <<integration, token>>
    /\ req'[r].pc = "callback_platform" /\ req'[r].state = s
    /\ req'[r].client = oauthState[s].client
    /\ req'[r].platform = oauthState[s].platform

\* A callback without a state is led to row i.
Adopts(r, i) ==
    /\ req[r].pc \in ResolvePoints
    /\ Exists(i)
    /\ UNCHANGED <<integration, token, oauthState, redeemers>>
    /\ req'[r].pc = "callback_platform" /\ req'[r].state = req[r].state
    /\ req'[r].client = integration[i].client
    /\ req'[r].platform = integration[i].platform

\* The fields after Finish, Goto and Check.
LEMMA FieldsKept ==
    ASSUME RequestsOK, NEW r \in Requests,
           \/ \E x : Finish(r, x)
           \/ \E pc : Goto(r, pc)
           \/ \E b, pc : Check(r, b, pc)
    PROVE  /\ KeepsOwner(r) /\ req'[r].location = req[r].location
           /\ req'[r].id = req[r].id /\ req'[r].code = req[r].code
<1>1. ASSUME NEW x, Finish(r, x)
      PROVE  /\ KeepsOwner(r) /\ req'[r].location = req[r].location
             /\ req'[r].id = req[r].id /\ req'[r].code = req[r].code
  BY <1>1 DEF RequestsOK, Request, Finish, KeepsOwner
<1>2. ASSUME NEW pc, Goto(r, pc)
      PROVE  /\ KeepsOwner(r) /\ req'[r].location = req[r].location
             /\ req'[r].id = req[r].id /\ req'[r].code = req[r].code
  BY <1>2 DEF RequestsOK, Request, Goto, KeepsOwner
<1>. QED  BY <1>1, <1>2 DEF Check

\* Finishing proceeds; so does an edge inside ProcessCallback.
LEMMA FinishProceeds ==
    ASSUME RequestsOK, NEW r \in Requests, NEW x, Finish(r, x),
           Stored(r) => Registering(r) /\ x = "ok"
    PROVE  Proceeds(r)
<1>1. /\ KeepsOwner(r) /\ req'[r].pc = "done" /\ req'[r].result = x
      /\ req'[r].id = req[r].id /\ req'[r].code = req[r].code
  BY FieldsKept, FinishEffect
<1>2. Stored(r) => Stored(r)'
  BY <1>1 DEF Stored, Ended, At, IsCallback
<1>. QED  BY <1>1, <1>2 DEF Proceeds, Unbound, ResolvePoints, CallbackPoints

\* A callback moves on without storing or looking for anything.
LEMMA GotoProceeds ==
    ASSUME RequestsOK, NEW r \in Requests,
           NEW pc \in CallbackPoints \ {"callback_activate", "callback_token"},
           req[r].pc \in CallbackPoints, Goto(r, pc),
           Registering(r) => pc \in {"register_create", "register_update"}
    PROVE  Proceeds(r)
<1>1. /\ KeepsOwner(r) /\ req'[r].pc = pc
      /\ req'[r].id = req[r].id /\ req'[r].code = req[r].code
  BY FieldsKept, GotoEffect
<1>2. pc \notin ResolvePoints \cup {"idle", "done"}
      /\ req[r].pc \notin {"idle", "done"}
  BY DEF CallbackPoints, ResolvePoints
<1>3. Stored(r) => Stored(r)'
  BY <1>1, <1>2 DEF Stored, Registering, Ended, At, IsCallback
<1>. QED  BY <1>1, <1>2, <1>3 DEF Proceeds, Unbound

\* The first step of a callback.
LEMMA StartStep ==
    ASSUME TypeOK, NEW r \in Requests,
           CallbackWithState(r) \/ CallbackWithoutState(r)
    PROVE  \/ Proceeds(r) /\ UNCHANGED <<oauthState, redeemers>>
           \/ \E s \in States : Redeems(r, s)
<1>0. RequestsOK /\ req[r].pc = "idle" /\ ~ Stored(r)
  BY DEF TypeOK, CallbackWithState, CallbackWithoutState, Arrives, Stored,
     Registering, Ended, At
<1>1. ASSUME NEW x, Finish(r, x) PROVE Proceeds(r)
  BY <1>0, <1>1, FinishProceeds
<1>2. ASSUME NEW k, NEW s \in States, CallbackWithState(r), Consumable(s),
             oauthState' = [oauthState EXCEPT ![s].phase = "consumed"],
             redeemers' = [redeemers EXCEPT ![s] = @ \cup {r}],
             req' = [req EXCEPT ![r] =
                       [@ EXCEPT !.pc = "callback_platform",
                                 !.code = k, !.state = s,
                                 !.client = oauthState[s].client,
                                 !.platform = oauthState[s].platform]]
      PROVE  Redeems(r, s)
  <2>1. /\ req'[r].pc = "callback_platform" /\ req'[r].state = s
        /\ req'[r].client = oauthState[s].client
        /\ req'[r].platform = oauthState[s].platform
    BY <1>0, <1>2 DEF RequestsOK, Request
  <2>. QED  BY <1>2, <2>1 DEF Redeems, CallbackWithState
<1>3. ASSUME NEW pc \in {"resolve_account", "done"}, NEW x, NEW k, NEW l,
             req' = [req EXCEPT ![r] =
                       [@ EXCEPT !.pc = pc, !.result = x, !.code = k,
                                 !.location = l]]
      PROVE  Proceeds(r)
  <2>1. KeepsOwner(r) /\ req'[r].pc = pc
    BY <1>0, <1>3 DEF RequestsOK, Request, KeepsOwner
  <2>. QED  BY <1>0, <1>3, <2>1 DEF Proceeds, Unbound, CallbackPoints
<1>4. ASSUME CallbackWithoutState(r) PROVE Proceeds(r)
  <2>1. CASE \E x : Finish(r, x)
    BY <1>1, <2>1
  <2>2. CASE ~ \E x : Finish(r, x)
    <3>1. PICK k \in Codes :
            req' = [req EXCEPT ![r] =
                     [@ EXCEPT !.pc = IF CodeLocation[k] = None
                                      THEN "done" ELSE "resolve_account",
                               !.result = IF CodeLocation[k] = None
                                          THEN "err" ELSE "none",
                               !.code = k, !.location = CodeLocation[k]]]
      BY <1>4, <2>2, Zenon DEF CallbackWithoutState
    <3>2. CASE CodeLocation[k] = None
      BY <1>3, <3>1, <3>2
    <3>3. CASE CodeLocation[k] # None
      BY <1>3, <3>1, <3>3
    <3>. QED  BY <3>2, <3>3
  <2>. QED  BY <2>1, <2>2
<1>. QED  BY <1>1, <1>2, <1>4 DEF CallbackWithState, CallbackWithoutState

\* The steps that lead a callback without a state to an integration.
LEMMA ResolveStep ==
    ASSUME TypeOK, NEW r \in Requests, IsCallback(r),
           ResolveAccount(r) \/ ResolveConfig(r) \/ ResolveID(r)
    PROVE  Proceeds(r) \/ \E i \in Ids : Adopts(r, i)
<1>0. RequestsOK /\ req[r].pc \in ResolvePoints /\ ~ Stored(r)
  BY DEF TypeOK, ResolveAccount, ResolveConfig, ResolveID, ResolvePoints, At,
     Stored, Registering, Ended
<1>1. ASSUME NEW x, Finish(r, x) PROVE Proceeds(r)
  BY <1>0, <1>1, FinishProceeds
<1>2. ASSUME NEW i, Resolved(r, i)
      PROVE  /\ req'[r].pc = "callback_platform" /\ req'[r].state = req[r].state
             /\ req'[r].client = integration[i].client
             /\ req'[r].platform = integration[i].platform
  BY <1>0, <1>2 DEF Resolved, IsCallback, RequestsOK, Request
<1>3. ASSUME KeepsOwner(r), req'[r].pc \in ResolvePoints PROVE Proceeds(r)
  BY <1>0, <1>3 DEF Proceeds, Unbound, ResolvePoints, CallbackPoints
<1>4. CASE ResolveAccount(r)
  <2>1. ASSUME NEW i \in Ids, Exists(i), Resolved(r, i) PROVE Adopts(r, i)
    BY <1>0, <1>2, <1>4, <2>1 DEF ResolveAccount, Adopts
  <2>2. CASE Goto(r, "resolve_config")
    BY <1>0, <1>3, <2>2, FieldsKept, GotoEffect DEF ResolvePoints
  <2>. QED  BY <1>4, <2>1, <2>2 DEF ResolveAccount, RowsOfAccount
<1>5. CASE ResolveConfig(r)
  <2>1. ASSUME NEW i, req' = [req EXCEPT ![r].pc = "resolve_id", ![r].id = i]
        PROVE  Proceeds(r)
    <3>1. KeepsOwner(r) /\ req'[r].pc = "resolve_id"
      BY <1>0, <2>1 DEF RequestsOK, Request, KeepsOwner
    <3>. QED  BY <1>3, <3>1 DEF ResolvePoints
  <2>. QED  BY <1>1, <1>5, <2>1 DEF ResolveConfig
<1>6. CASE ResolveID(r)
  <2>1. req[r].id \in Ids
    BY <1>0, <1>6, FieldTypes DEF ResolveID, At, WellFormed, IdPoints
  <2>2. ASSUME Exists(req[r].id), Resolved(r, req[r].id)
        PROVE  Adopts(r, req[r].id)
    BY <1>0, <1>2, <1>6, <2>2 DEF ResolveID, Adopts
  <2>. QED  BY <1>1, <1>6, <2>1, <2>2 DEF ResolveID
<1>. QED  BY <1>4, <1>5, <1>6

\* The steps of ProcessCallback act for the owner the callback is bound to.
LEMMA ProcessStep ==
    ASSUME TypeOK, NEW r \in Requests,
           \/ CallbackPlatform(r) \/ CallbackClient(r) \/ CallbackExchange(r)
           \/ CallbackLookup(r) \/ CallbackActivate(r) \/ CallbackCreate(r)
           \/ CallbackToken(r)
    PROVE  Proceeds(r)
<1>0. /\ RequestsOK
      /\ req[r].pc \in CallbackPoints \ {"register_get", "register_create",
                                         "register_update"}
      /\ ~ Stored(r)
  BY DEF TypeOK, CallbackPoints, At, Stored, Registering, Ended,
     CallbackPlatform, CallbackClient, CallbackExchange, CallbackLookup,
     CallbackActivate, CallbackCreate, CallbackToken
<1>1. ASSUME NEW x, Finish(r, x) PROVE Proceeds(r)
  BY <1>0, <1>1, FinishProceeds
<1>2. ASSUME NEW pc \in {"callback_client", "callback_exchange",
                         "callback_create", "register_get"},
             Goto(r, pc)
      PROVE  Proceeds(r)
  BY <1>0, <1>2, GotoProceeds DEF CallbackPoints, Registering
<1>3. ASSUME KeepsOwner(r), Finds(r),
             req'[r].pc \in {"callback_activate", "callback_token"}
      PROVE  Proceeds(r)
  BY <1>0, <1>3 DEF Proceeds, Unbound, ResolvePoints
<1>4. CASE CallbackPlatform(r) \/ CallbackClient(r) \/ CallbackToken(r)
  BY <1>1, <1>2, <1>4
  DEF CallbackPlatform, CallbackClient, CallbackToken, Check
<1>5. CASE CallbackExchange(r)
  <2>1. ASSUME NEW l, req' = [req EXCEPT ![r].pc = "callback_lookup",
                                         ![r].location = l]
        PROVE  Proceeds(r)
    <3>1. KeepsOwner(r) /\ req'[r].pc = "callback_lookup"
      BY <1>0, <2>1 DEF RequestsOK, Request, KeepsOwner
    <3>. QED  BY <1>0, <3>1 DEF Proceeds, Unbound, ResolvePoints
  <2>. QED  BY <1>1, <1>5, <2>1 DEF CallbackExchange
<1>6. CASE CallbackLookup(r)
  <2>1. ASSUME NEW i \in RowsOf(req[r].client, req[r].platform),
               req' = [req EXCEPT ![r].pc = "callback_activate", ![r].id = i]
        PROVE  Proceeds(r)
    <3>1. KeepsOwner(r) /\ req'[r].pc = "callback_activate" /\ req'[r].id = i
      BY <1>0, <2>1 DEF RequestsOK, Request, KeepsOwner
    <3>2. Finds(r)
      BY <1>6, <2>1, <3>1 DEF Finds, CallbackLookup
    <3>. QED  BY <1>3, <3>1, <3>2
  <2>. QED  BY <1>1, <1>2, <1>6, <2>1 DEF CallbackLookup
<1>7. CASE CallbackActivate(r)
  <2>1. CASE Goto(r, "callback_token")
    BY <1>0, <1>3, <1>7, <2>1, FieldsKept, GotoEffect
    DEF Finds, CallbackActivate
  <2>. QED  BY <1>1, <1>7, <2>1 DEF CallbackActivate
<1>8. CASE CallbackCreate(r)
  <2>1. ASSUME NEW i \in Ids,
               CreateRow(i, req[r].client, req[r].platform, User, "ACTIVE"),
               req' = [req EXCEPT ![r].pc = "callback_token", ![r].id = i]
        PROVE  Proceeds(r)
    <3>1. KeepsOwner(r) /\ req'[r].pc = "callback_token" /\ req'[r].id = i
      BY <1>0, <2>1 DEF RequestsOK, Request, KeepsOwner
    <3>2. Finds(r)
      BY <2>1, <3>1 DEF Finds
    <3>. QED  BY <1>3, <3>1, <3>2
  <2>. QED  BY <1>1, <1>8, <2>1 DEF CallbackCreate
<1>. QED  BY <1>4, <1>5, <1>6, <1>7, <1>8

\* RegisterProvider, and a failure, do not change the owner either.
LEMMA RegisterStep ==
    ASSUME TypeOK, NEW r \in Requests,
           \/ RegisterGet(r) \/ RegisterCreate(r) \/ RegisterUpdate(r) \/ Fail(r)
    PROVE  Proceeds(r)
<1>0. RequestsOK
  BY DEF TypeOK
<1>1. ASSUME Registering(r), Finish(r, "ok") PROVE Proceeds(r)
  BY <1>0, <1>1, FinishProceeds
<1>2. ASSUME Registering(r), Goto(r, "register_create") \/ Goto(r, "register_update")
      PROVE  Proceeds(r)
  BY <1>0, <1>2, GotoProceeds DEF CallbackPoints, Registering
<1>3. CASE Fail(r) /\ ~ Registering(r)
  <2>1. ~ Stored(r)
    BY <1>3 DEF Fail, Stored, Ended, At
  <2>. QED  BY <1>0, <1>3, <2>1, FinishProceeds DEF Fail
<1>. QED  BY <1>1, <1>2, <1>3
          DEF RegisterGet, RegisterCreate, RegisterUpdate, Fail, Registering, At

\* What one step can do to a callback.
BearerStep(t) ==
    \/ req'[t] = req[t]
    \/ Proceeds(t)
    \/ \E s \in States : Redeems(t, s)
    \/ \E i \in Ids : Adopts(t, i)

\* The handlers do no more than BearerStep to a callback.
LEMMA NextBearers ==
    ASSUME TypeOK, [Next]_vars, NEW t \in Requests, IsCallback(t)
    PROVE  BearerStep(t)
<1>0. RequestsOK
  BY DEF TypeOK
<1>1. ASSUME NEW r \in Requests, r # t,
             ManageIntegration(r) \/ Authorize(r) \/ Register(r) \/ Fail(r)
      PROVE  BearerStep(t)
  BY <1>1, ManageMoves, AuthorizeMoves, RegisterMoves DEF Moves, BearerStep
<1>2. CASE Authorize(t)
  <2>1. ~ BeginAuthorization(t) /\ ~ BeginClient(t) /\ ~ BeginCreate(t)
    BY <1>0, NotCallback
  <2>. QED  BY <1>2, <2>1, StartStep, ResolveStep, ProcessStep
            DEF Authorize, BearerStep
<1>3. CASE Register(t) \/ Fail(t)
  <2>1. /\ ~ HandleIntegrationInstalled(t) /\ ~ InstalledConfig(t)
        /\ ~ InstalledCreate(t)
    BY <1>0, NotCallback
  <2>. QED  BY <1>3, <2>1, RegisterStep DEF Register, BearerStep
<1>4. ~ ManageIntegration(t)
  BY ManageMoves
<1>5. CASE Environment \/ UNCHANGED vars
  BY <1>5 DEF Environment, StateExpires, SetClientStatus, DeleteClient,
     SetPlatformEnabled, vars, BearerStep
<1>. QED  BY <1>1, <1>2, <1>3, <1>4, <1>5 DEF Next, Environment

-------------------------------------------------------------------------------
(* Credentials stay with their client *)

\* A callback keeps acting for the owner it was bound to, and for a row of it.
LEMMA BearersBoundNext ==
    ASSUME TypeOK, ConsumedStates, BearersBound, [Next]_vars
    PROVE  BearersBound'
<1>. SUFFICES ASSUME NEW t \in Requests, IsCallback(t)
              PROVE  /\ Unbound(t)' => req'[t].client = None /\ req'[t].state = None
                     /\ req'[t].state # None =>
                          /\ t \in redeemers'[req'[t].state]
                          /\ oauthState'[req'[t].state].client = req'[t].client
                          /\ oauthState'[req'[t].state].platform = req'[t].platform
                     /\ req'[t].pc \in {"callback_activate", "callback_token"} =>
                          ActsFor(t, req[t].id)'
  BY DEF BearersBound, At, IsCallback
<1>0. RequestsOK /\ IntegrationsOK /\ StatesOK
  BY DEF TypeOK
\* What its state says of it stays true as long as it keeps its owner.
<1>1. ASSUME KeepsOwner(t), req'[t].state # None
      PROVE  /\ t \in redeemers'[req'[t].state]
             /\ oauthState'[req'[t].state].client = req'[t].client
             /\ oauthState'[req'[t].state].platform = req'[t].platform
  <2>. DEFINE s == req[t].state
  <2>1. /\ s \in States /\ req'[t].state = s
        /\ t \in redeemers[s]
        /\ oauthState[s].client = req[t].client
        /\ oauthState[s].platform = req[t].platform
    BY <1>0, <1>1, FieldTypes DEF BearersBound, KeepsOwner
  <2>. HIDE DEF s
  <2>2. /\ t \in redeemers'[s]
        /\ oauthState'[s].client = oauthState[s].client
        /\ oauthState'[s].platform = oauthState[s].platform
    BY <2>1, RedeemedKept
  <2>. QED  BY <1>1, <2>1, <2>2 DEF KeepsOwner
\* And what its row says, since rows never change hands.
<1>2. ASSUME KeepsOwner(t), req'[t].id = req[t].id,
             req[t].pc \in {"callback_activate", "callback_token"}
      PROVE  ActsFor(t, req[t].id)'
  <2>. DEFINE i == req[t].id
  <2>1. i \in Ids
    BY <1>0, <1>2, FieldTypes DEF WellFormed, IdPoints
  <2>2. ActsFor(t, i)
    BY <1>2 DEF BearersBound, At
  <2>. HIDE DEF i
  <2>3. /\ integration'[i].status # "NONE"
        /\ integration'[i].client = req'[t].client
        /\ integration'[i].platform = req'[t].platform
    BY <1>2, <2>1, <2>2, NextRows, OwnerKept DEF ActsFor, KeepsOwner
  <2>. QED  BY <1>2, <2>3 DEF ActsFor, i
<1>3. CASE req'[t] = req[t]
  <2>1. KeepsOwner(t)
    BY <1>3 DEF KeepsOwner
  <2>. QED  BY <1>1, <1>2, <1>3, <2>1 DEF BearersBound, Unbound
<1>4. CASE Proceeds(t)
  <2>1. KeepsOwner(t)
    BY <1>4 DEF Proceeds
  <2>2. Unbound(t)' => req'[t].client = None /\ req'[t].state = None
    BY <1>4, <2>1 DEF Proceeds, KeepsOwner, BearersBound
  <2>3. ASSUME req'[t].pc \in {"callback_activate", "callback_token"}
        PROVE  ActsFor(t, req[t].id)'
    <3>1. Finds(t)
      BY <1>4, <2>3 DEF Proceeds
    <3>2. CASE /\ UNCHANGED integration
               /\ req'[t].id \in RowsOf(req[t].client, req[t].platform)
      BY <2>1, <3>2 DEF RowsOf, Exists, ActsFor, KeepsOwner
    <3>3. CASE At(t, "callback_activate") /\ req'[t].id = req[t].id
      BY <1>2, <2>1, <3>3 DEF At
    <3>4. CASE /\ req'[t].id \in Ids
               /\ \E x \in {"ACTIVE"} : CreateRow(req'[t].id, req[t].client,
                                                  req[t].platform, User, x)
      BY <1>0, <2>1, <3>4, CreateRowOwner DEF ActsFor, KeepsOwner
    <3>. QED  BY <3>1, <3>2, <3>3, <3>4 DEF Finds
  <2>. QED  BY <1>1, <2>1, <2>2, <2>3
<1>5. ASSUME NEW s \in States, Redeems(t, s)
      PROVE  /\ ~ Unbound(t)'
             /\ req'[t].pc \notin {"callback_activate", "callback_token"}
             /\ req'[t].state = s /\ t \in redeemers'[s]
             /\ oauthState'[s].client = req'[t].client
             /\ oauthState'[s].platform = req'[t].platform
  <2>1. /\ oauthState'[s].client = oauthState[s].client
        /\ oauthState'[s].platform = oauthState[s].platform
    BY <1>0, <1>5 DEF Redeems, StatesOK, OAuthStateRow
  <2>2. t \in redeemers'[s]
    BY <1>0, <1>5 DEF Redeems, StatesOK
  <2>. QED  BY <1>5, <2>1, <2>2 DEF Redeems, Unbound, ResolvePoints
<1>6. ASSUME NEW i \in Ids, Adopts(t, i)
      PROVE  /\ ~ Unbound(t)' /\ req'[t].state = None
             /\ req'[t].pc \notin {"callback_activate", "callback_token"}
  BY <1>6 DEF Adopts, Unbound, ResolvePoints, BearersBound
<1>. QED  BY <1>3, <1>4, <1>5, <1>6, NextBearers DEF BearerStep

\* Callback r stores its tokens for row i.
Stores(r, i) ==
    /\ IsCallback(r) /\ At(r, "callback_token") /\ req[r].id = i
    /\ CanStoreToken(i)
    /\ UNCHANGED <<integration, oauthState, redeemers>>
    /\ token' = [token EXCEPT ![i] = req[r].code]
    /\ Stored(r)' /\ KeepsOwner(r)
    /\ req'[r].id = i /\ req'[r].code = req[r].code

\* Tokens come from a callback and go with their row.
TokenChange(i) ==
    \/ token'[i] = token[i] /\ (Exists(i) => Exists(i)')
    \/ token'[i] = None
    \/ \E r \in Requests : Stores(r, i)

\* The INSERT of ProcessCallback.
LEMMA StoresStep ==
    ASSUME TypeOK, NEW r \in Requests, CallbackToken(r), CanStoreToken(req[r].id)
    PROVE  Stores(r, req[r].id)
<1>0. RequestsOK
  BY DEF TypeOK
<1>1. IsCallback(r)
  BY <1>0, FieldTypes DEF CallbackToken, At, WellFormed, CallbackPoints
<1>2. Goto(r, "register_get")
  BY DEF CallbackToken
<1>3. /\ req'[r].pc = "register_get" /\ KeepsOwner(r)
      /\ req'[r].id = req[r].id /\ req'[r].code = req[r].code
  BY <1>0, <1>2, FieldsKept, GotoEffect
<1>4. Stored(r)'
  BY <1>1, <1>3 DEF Stored, Registering, IsCallback
<1>. QED  BY <1>1, <1>3, <1>4 DEF CallbackToken, Stores

\* Every step does one of the three.
LEMMA NextTokens ==
    ASSUME TypeOK, [Next]_vars, NEW i \in Ids
    PROVE  TokenChange(i)
<1>0. IntegrationsOK /\ CredentialsOK
  BY DEF TypeOK
<1>1. CASE UNCHANGED <<integration, token>>
  BY <1>1 DEF TokenChange, Exists
<1>2. ASSUME NEW j, NEW x \in {"CREATED", "ACTIVE", "REVOKED"},
             UpdateStatus(j, x), Exists(j), UNCHANGED token
      PROVE  TokenChange(i)
  BY <1>0, <1>2, UpdateStatusEffect DEF TokenChange, Exists
<1>3. ASSUME NEW j, NEW c, NEW p, NEW a, NEW x \in {"CREATED", "ACTIVE"},
             CreateRow(j, c, p, a, x), UNCHANGED token
      PROVE  TokenChange(i)
  BY <1>0, <1>3, CreateRowEffect DEF TokenChange, Exists
<1>4. ASSUME NEW r \in Requests, ManageIntegration(r) PROVE TokenChange(i)
  <2>1. CASE InstallCreate(r)
    BY <1>1, <1>3, <2>1 DEF InstallCreate
  <2>2. CASE \/ ReconnectUpdate(r) \/ DisconnectUpdate(r) \/ SyncUpdate(r)
             \/ UninstallRevoke(r)
    BY <1>1, <1>2, <2>2 DEF ReconnectUpdate, DisconnectUpdate, SyncUpdate,
       UpdateByID, UninstallRevoke
  <2>3. CASE UninstallDelete(r)
    <3>1. CASE Exists(req[r].id) /\ i = req[r].id
      BY <1>0, <2>3, <3>1 DEF UninstallDelete, TokenChange, CredentialsOK
    <3>2. CASE Exists(req[r].id) /\ i # req[r].id
      BY <1>0, <2>3, <3>2, UpdateStatusEffect
      DEF UninstallDelete, TokenChange, CredentialsOK, Exists
    <3>. QED  BY <1>1, <2>3, <3>1, <3>2 DEF UninstallDelete
  <2>. QED
    BY <1>1, <1>4, <2>1, <2>2, <2>3 DEF ManageIntegration, InstallIntegration,
       InstallPlatform, InstallLookup, ReconnectIntegration, GetByID,
       DisconnectIntegration, SyncIntegration, UninstallIntegration
<1>5. ASSUME NEW r \in Requests, Authorize(r) PROVE TokenChange(i)
  <2>1. CASE CallbackActivate(r)
    BY <1>1, <1>2, <2>1 DEF CallbackActivate
  <2>2. CASE CallbackCreate(r)
    BY <1>1, <1>3, <2>2 DEF CallbackCreate
  <2>3. CASE CallbackToken(r)
    <3>1. CASE CanStoreToken(req[r].id)
      <4>1. CASE i = req[r].id
        BY <2>3, <3>1, <4>1, StoresStep DEF TokenChange
      <4>2. CASE i # req[r].id
        BY <1>0, <2>3, <3>1, <4>2
        DEF CallbackToken, TokenChange, CredentialsOK, Exists
      <4>. QED  BY <4>1, <4>2
    <3>. QED  BY <1>1, <2>3, <3>1 DEF CallbackToken
  <2>. QED
    BY <1>1, <1>5, <2>1, <2>2, <2>3 DEF Authorize, BeginAuthorization,
       BeginClient, BeginCreate, CallbackWithState, CallbackWithoutState,
       ResolveAccount, ResolveConfig, ResolveID, CallbackPlatform,
       CallbackClient, CallbackExchange, CallbackLookup
<1>6. ASSUME NEW r \in Requests, Register(r) \/ Fail(r) PROVE TokenChange(i)
  BY <1>1, <1>6 DEF Register, Fail, RegisterGet, RegisterCreate,
     RegisterUpdate, HandleIntegrationInstalled, InstalledConfig, InstalledCreate
<1>7. CASE Environment
  BY <1>1, <1>7 DEF Environment, StateExpires, SetClientStatus, DeleteClient,
     SetPlatformEnabled
<1>. QED  BY <1>1, <1>4, <1>5, <1>6, <1>7 DEF Next, Environment, vars

\* The callback that stored a row's tokens stays there to vouch for them.
LEMMA TokensOwnedNext ==
    ASSUME TypeOK, BearersBound, TokensOwned, [Next]_vars
    PROVE  TokensOwned'
<1>. SUFFICES ASSUME NEW i \in Ids, token'[i] # None
              PROVE  /\ Exists(i)'
                     /\ \E r \in Requests :
                          /\ Stored(r)' /\ ActsFor(r, i)'
                          /\ req'[r].id = i /\ req'[r].code = token'[i]
  BY DEF TokensOwned
<1>0. RequestsOK /\ CredentialsOK
  BY DEF TypeOK
<1>1. CASE token'[i] = token[i] /\ (Exists(i) => Exists(i)')
  <2>1. PICK r \in Requests : /\ Stored(r) /\ ActsFor(r, i)
                              /\ req[r].id = i /\ req[r].code = token[i]
    BY <1>1 DEF TokensOwned
  <2>2. Exists(i)'
    BY <1>1 DEF TokensOwned
  <2>3. IsCallback(r) /\ ~ Unbound(r)
    BY <2>1 DEF Stored, Registering, Ended, At, Unbound, ResolvePoints
  <2>4. /\ Stored(r)' /\ KeepsOwner(r)
        /\ req'[r].id = req[r].id /\ req'[r].code = req[r].code
    <3>1. CASE req'[r] = req[r]
      BY <2>1, <3>1
      DEF Stored, Registering, Ended, At, KeepsOwner, IsCallback
    <3>2. CASE Proceeds(r)
      BY <2>1, <3>2 DEF Proceeds
    <3>3. ~ (\E s \in States : Redeems(r, s)) /\ ~ (\E j \in Ids : Adopts(r, j))
      BY <2>3 DEF Redeems, Adopts, Arrives, Unbound
    <3>. QED  BY <2>3, <3>1, <3>2, <3>3, NextBearers DEF BearerStep
  <2>5. ActsFor(r, i)'
    BY <2>1, <2>4, NextRows, OwnerKept DEF ActsFor, KeepsOwner
  <2>. QED  BY <1>1, <2>1, <2>2, <2>4, <2>5
<1>2. ASSUME NEW r \in Requests, Stores(r, i)
      PROVE  /\ Exists(i)' /\ Stored(r)' /\ ActsFor(r, i)'
             /\ req'[r].id = i /\ req'[r].code = token'[i]
  <2>1. ActsFor(r, i)
    BY <1>2 DEF Stores, BearersBound
  <2>2. ActsFor(r, i)' /\ Exists(i)'
    BY <1>2, <2>1 DEF Stores, ActsFor, KeepsOwner, CanStoreToken, Exists
  <2>3. token'[i] = req[r].code
    BY <1>0, <1>2 DEF Stores, CredentialsOK
  <2>. QED  BY <1>2, <2>2, <2>3 DEF Stores
<1>. QED  BY <1>1, <1>2, NextTokens DEF TokenChange

\* What the callbacks are bound to, as an invariant.
LEMMA BearersInvariant == Spec => [](ConsumedStates /\ BearersBound)
<1>1. Init => ConsumedStates /\ BearersBound
  BY DEF Init, ConsumedStates, StateRedeemedOnce, BearersBound, At
<1>2. TypeOK /\ ConsumedStates /\ BearersBound /\ [Next]_vars
        => ConsumedStates' /\ BearersBound'
  BY ConsumedNext, BearersBoundNext
<1>. QED  BY <1>1, <1>2, TypeCorrect, PTL DEF Spec

\* And who vouches for the tokens.
LEMMA TokensInvariant == Spec => []TokensOwned
<1>1. Init => TokensOwned
  BY DEF Init, TokensOwned
<1>2. TypeOK /\ BearersBound /\ TokensOwned /\ [Next]_vars => TokensOwned'
  BY TokensOwnedNext
<1>. QED  BY <1>1, <1>2, TypeCorrect, BearersInvariant, PTL DEF Spec

-------------------------------------------------------------------------------
(* Whom a location leads to *)

\* What a claim rests on is not taken back: a request that ended stays as it is,
\* and a callback that stored its tokens keeps what it acts with.
LEMMA VoucherKept ==
    ASSUME TypeOK, [Next]_vars, NEW q \in Requests,
           At(q, "done") \/ Stored(q)
    PROVE  \/ req'[q] = req[q]
           \/ /\ Stored(q)' /\ KeepsOwner(q)
              /\ req'[q].location = req[q].location
              /\ Registering(q)
<1>0. RequestsOK
  BY DEF TypeOK
<1>1. ASSUME NEW r \in Requests, Moves(r), r # q PROVE req'[q] = req[q]
  BY <1>1 DEF Moves
<1>2. ASSUME Moves(q)
      PROVE  IsCallback(q) /\ Registering(q) /\ Stored(q)
  BY <1>2 DEF Moves, Stored, Ended
<1>3. ~ ManageIntegration(q)
  BY <1>2, ManageMoves
<1>4. ~ Authorize(q)
  <2>1. ASSUME Registering(q), Authorize(q) PROVE FALSE
    <3>1. /\ ~ BeginAuthorization(q) /\ ~ BeginClient(q) /\ ~ BeginCreate(q)
          /\ ~ CallbackWithState(q) /\ ~ CallbackWithoutState(q)
          /\ ~ ResolveAccount(q) /\ ~ ResolveConfig(q) /\ ~ ResolveID(q)
      BY <2>1 DEF Registering, BeginAuthorization, BeginClient, BeginCreate,
         CallbackWithState, CallbackWithoutState, ResolveAccount, ResolveConfig,
         ResolveID, Arrives, At
    <3>2. /\ ~ CallbackPlatform(q) /\ ~ CallbackClient(q)
          /\ ~ CallbackExchange(q) /\ ~ CallbackLookup(q)
          /\ ~ CallbackActivate(q) /\ ~ CallbackCreate(q) /\ ~ CallbackToken(q)
      BY <2>1 DEF Registering, CallbackPlatform, CallbackClient,
         CallbackExchange, CallbackLookup, CallbackActivate, CallbackCreate,
         CallbackToken, At
    <3>. QED  BY <2>1, <3>1, <3>2 DEF Authorize
  <2>. QED  BY <1>2, <2>1, AuthorizeMoves
<1>5. CASE Register(q) \/ Fail(q)
  <2>0. IsCallback(q) /\ Registering(q) /\ Stored(q)
    BY <1>2, <1>5, RegisterMoves
  <2>1. RegisterGet(q) \/ RegisterCreate(q) \/ RegisterUpdate(q) \/ Fail(q)
    BY <1>0, <1>5, <2>0, NotCallback DEF Register
  <2>2. Stored(q)'
    BY <2>0, <2>1, RegisterStep DEF Proceeds
  <2>3. (\E x : Finish(q, x)) \/ (\E pc : Goto(q, pc))
    BY <2>1 DEF RegisterGet, RegisterCreate, RegisterUpdate, Fail
  <2>. QED  BY <1>0, <2>0, <2>2, <2>3, FieldsKept
<1>6. CASE Environment \/ UNCHANGED vars
  BY <1>6 DEF Environment, StateExpires, SetClientStatus, DeleteClient,
     SetPlatformEnabled, vars
<1>. QED  BY <1>1, <1>3, <1>4, <1>5, <1>6, ManageMoves, AuthorizeMoves,
          RegisterMoves DEF Next, Environment

\* So a claim stands once it is made.
LEMMA ClaimKept ==
    ASSUME TypeOK, [Next]_vars, NEW c, NEW p, NEW l, Claimed(c, p, l)
    PROVE  Claimed(c, p, l)'
<1>1. PICK q \in Requests :
         /\ req[q].client = c /\ req[q].platform = p /\ req[q].location = l
         /\ \/ OpOf[q] = "InstallIntegration" /\ Ended(q, "ok")
            \/ req[q].state # None /\ Stored(q)
  BY DEF Claimed
<1>2. CASE req'[q] = req[q]
  <2>1. /\ Ended(q, "ok") => Ended(q, "ok")'
        /\ Stored(q) => Stored(q)'
    BY <1>2 DEF Ended, At, Stored, Registering, IsCallback
  <2>. QED  BY <1>1, <1>2, <2>1 DEF Claimed
<1>3. CASE /\ Stored(q)' /\ KeepsOwner(q) /\ req'[q].location = req[q].location
           /\ Registering(q)
  <2>1. ~ Ended(q, "ok")
    BY <1>3 DEF Registering, Ended, At
  <2>. QED  BY <1>1, <1>3, <2>1 DEF Claimed, KeepsOwner
<1>4. At(q, "done") \/ Stored(q)
  BY <1>1 DEF Ended
<1>. QED  BY <1>2, <1>3, <1>4, VoucherKept

\* And so does what was claimed for the owner of a row.
LEMMA VouchedKept ==
    ASSUME TypeOK, [Next]_vars, NEW i \in Ids, NEW l, Vouched(i, l)
    PROVE  Vouched(i, l)'
<1>1. /\ integration'[i].status # "NONE"
      /\ integration'[i].client = integration[i].client
      /\ integration'[i].platform = integration[i].platform
  BY NextRows, OwnerKept DEF Vouched
<1>2. ASSUME NEW c, NEW p, c = integration[i].client, p = integration[i].platform
      PROVE  Claimed(c, p, l)'
  BY <1>2, ClaimKept DEF Vouched
<1>. QED  BY <1>1, <1>2 DEF Vouched, Claimed

\* Where a row got its account from.
LEMMA AccountStep ==
    ASSUME TypeOK, RequestsClaimed, [Next]_vars, NEW i \in Ids,
           integration'[i].status # "NONE", integration'[i].account \in Locations
    PROVE  \/ /\ integration[i].status # "NONE"
              /\ integration'[i].account = integration[i].account
           \/ \E r \in Requests :
                /\ OpOf[r] = "InstallIntegration" /\ Ended(r, "ok")'
                /\ req'[r].client = integration'[i].client
                /\ req'[r].platform = integration'[i].platform
                /\ req'[r].location = integration'[i].account
<1>0. IntegrationsOK /\ RequestsOK
  BY DEF TypeOK
<1>1. CASE UNCHANGED integration
  BY <1>1
<1>2. ASSUME NEW j, NEW x, Exists(j), UpdateStatus(j, x)
      PROVE  /\ integration[i].status # "NONE"
             /\ integration'[i].account = integration[i].account
  BY <1>0, <1>2, UpdateStatusOwner, UpdateStatusEffect DEF Exists
<1>3. ASSUME NEW j \in Ids, NEW c, NEW p, NEW a, NEW x, CreateRow(j, c, p, a, x),
             i # j
      PROVE  integration'[i] = integration[i]
  BY <1>0, <1>3, CreateRowOwner
<1>4. ASSUME NEW r \in Requests, NEW j \in Ids, NEW x, InstallCreate(r),
             CanCreate(req[r].client, req[r].platform),
             CreateRow(j, req[r].client, req[r].platform, req[r].location, x)
      PROVE  /\ OpOf[r] = "InstallIntegration" /\ Ended(r, "ok")'
             /\ req'[r].client = integration'[j].client
             /\ req'[r].platform = integration'[j].platform
             /\ req'[r].location = integration'[j].account
  <2>1. OpOf[r] = "InstallIntegration"
    BY <1>4 DEF InstallCreate, At, RequestsClaimed, RequestClaimed
  <2>2. PICK k : req' = [req EXCEPT ![r].pc = "done", ![r].result = "ok",
                                    ![r].id = k]
    BY <1>4 DEF InstallCreate
  <2>3. /\ Ended(r, "ok")' /\ KeepsOwner(r)
        /\ req'[r].location = req[r].location
    BY <1>0, <2>2 DEF RequestsOK, Request, Ended, At, KeepsOwner
  <2>. QED  BY <1>0, <1>4, <2>1, <2>3, CreateRowOwner DEF KeepsOwner
<1>5. ASSUME NEW j \in Ids, NEW c, NEW p, NEW x, CreateRow(j, c, p, User, x)
      PROVE  integration'[j].account \notin Locations
  BY <1>0, <1>5, CreateRowOwner, ConstantsAssumption
<1>. QED  BY <1>1, <1>2, <1>3, <1>4, <1>5, NextRows DEF RowsStep

\* No statement makes a row lead to a client that did not name the location.
LEMMA RowsClaimedNext ==
    ASSUME TypeOK, KeysConfigured, BearersBound, RowsClaimed, RequestsClaimed,
           [Next]_vars
    PROVE  RowsClaimed'
<1>0. RequestsOK
  BY DEF TypeOK
<1>1. ASSUME NEW i \in Ids, integration'[i].status # "NONE",
             integration'[i].account \in Locations
      PROVE  Vouched(i, integration[i].account)'
  <2>1. CASE /\ integration[i].status # "NONE"
             /\ integration'[i].account = integration[i].account
    <3>1. ASSUME NEW l, l = integration[i].account PROVE Vouched(i, l)'
      BY <1>1, <2>1, <3>1, VouchedKept DEF RowsClaimed
    <3>. QED  BY <2>1, <3>1 DEF Vouched, Claimed
  <2>2. ASSUME NEW r \in Requests, OpOf[r] = "InstallIntegration",
               Ended(r, "ok")',
               req'[r].client = integration'[i].client,
               req'[r].platform = integration'[i].platform,
               req'[r].location = integration'[i].account
        PROVE  Vouched(i, integration[i].account)'
    BY <1>1, <2>2, ConstantsAssumption DEF Vouched, Claimed
  <2>. QED  BY <1>1, <2>1, <2>2, AccountStep
<1>2. ASSUME NEW i \in Ids, configLocation'[i] # None
      PROVE  Vouched(i, configLocation[i])'
  <2>1. CASE configLocation'[i] = configLocation[i]
    <3>1. ASSUME NEW l, l = configLocation[i] PROVE Vouched(i, l)'
      BY <1>2, <2>1, <3>1, VouchedKept DEF RowsClaimed
    <3>. QED  BY <2>1, <3>1 DEF Vouched, Claimed
  <2>2. ASSUME NEW r \in Requests, req[r].id = i, Vouched(i, req[r].location),
               configLocation'[i] = req[r].location
        PROVE  Vouched(i, configLocation[i])'
    <3>1. ASSUME NEW l, l = req[r].location PROVE Vouched(i, l)'
      BY <2>2, <3>1, VouchedKept
    <3>. QED  BY <2>2, <3>1 DEF Vouched, Claimed
  <2>3. ASSUME NEW r \in Requests, req[r].id = i,
               req[r].pc \in {"register_create", "register_update"}
        PROVE  Vouched(i, req[r].location)
    <3>1. /\ IsCallback(r) /\ Stored(r) /\ req[r].location # None
          /\ req[r].location = CodeLocation[req[r].code]
          /\ ActsFor(r, i)
      <4>1. IsCallback(r) /\ Stored(r)
        BY <1>0, <2>3, FieldTypes
        DEF WellFormed, CallbackPoints, Stored, Registering
      <4>2. req[r].pc \in ExchangedPoints /\ Registering(r)
        BY <2>3 DEF ExchangedPoints, Registering
      <4>. QED  BY <2>3, <4>1, <4>2
                DEF RequestsClaimed, RequestClaimed, KeysConfigured
    <3>2. Claimed(req[r].client, req[r].platform, req[r].location)
      <4>1. CASE req[r].state = None
        BY <3>1, <4>1 DEF RequestsClaimed, RequestClaimed
      <4>2. CASE req[r].state # None
        BY <3>1, <4>2 DEF Claimed
      <4>. QED  BY <4>1, <4>2
    <3>. QED  BY <3>1, <3>2 DEF Vouched, ActsFor
  <2>4. ASSUME NEW r \in Requests, req[r].id = i, At(r, "installed_create")
        PROVE  Vouched(i, req[r].location)
    BY <2>4 DEF At, RequestsClaimed, RequestClaimed
  <2>. QED  BY <1>2, <2>1, <2>2, <2>3, <2>4, NextConfigs DEF ConfigStep
<1>. QED  BY <1>1, <1>2 DEF RowsClaimed

\* Where the RPCs of integrations_service.go go on, and the Install handler's own
\* points.
InstallerPoints == {"install_platform", "install_lookup", "install_create"}
ManagerPoints == {"done", "uninstall_revoke", "uninstall_delete",
                "reconnect_update", "disconnect_update", "sync_update"}

\* Nobody but InstallIntegration gets to its points.
LEMMA ManagePoints ==
    ASSUME TypeOK, NEW t \in Requests, ManageIntegration(t)
    PROVE  \/ req'[t].pc \in ManagerPoints
           \/ /\ req'[t].pc \in InstallerPoints
              /\ OpOf[t] = "InstallIntegration" \/ req[t].pc \in InstallerPoints
<1>0. RequestsOK
  BY DEF TypeOK
<1>1. ASSUME NEW x, Finish(t, x) PROVE req'[t].pc \in ManagerPoints
  BY <1>0, <1>1, FinishEffect DEF ManagerPoints
<1>2. CASE InstallIntegration(t)
  <2>1. OpOf[t] = "InstallIntegration"
    BY <1>2 DEF InstallIntegration, Arrives
  <2>2. ASSUME NEW pc, NEW c, NEW p, NEW l, NEW x,
               req' = [req EXCEPT ![t] =
                         [@ EXCEPT !.pc = pc, !.result = x,
                                   !.client = c, !.platform = p, !.location = l]]
        PROVE  req'[t].pc = pc
    BY <1>0, <2>2 DEF RequestsOK, Request
  <2>3. PICK c \in Clients, p \in Platforms, l \in Locations \cup {None} :
          req' = [req EXCEPT ![t] =
                    [@ EXCEPT !.pc = IF clientStatus[c] = "ACTIVE"
                                     THEN "install_platform" ELSE "done",
                              !.result = IF clientStatus[c] = "ACTIVE"
                                         THEN "none" ELSE "err",
                              !.client = c, !.platform = p, !.location = l]]
    BY <1>2 DEF InstallIntegration
  <2>4. req'[t].pc \in {"install_platform", "done"}
    BY <2>2, <2>3
  <2>. QED  BY <2>1, <2>4 DEF InstallerPoints, ManagerPoints
<1>3. CASE InstallPlatform(t) \/ InstallLookup(t)
  <2>1. req[t].pc \in InstallerPoints
    BY <1>3 DEF InstallPlatform, InstallLookup, At, InstallerPoints
  <2>2. ASSUME NEW pc \in InstallerPoints, NEW b, Check(t, b, pc)
        PROVE  req'[t].pc \in ManagerPoints \cup InstallerPoints
    BY <1>0, <1>1, <2>2, GotoEffect DEF Check
  <2>. QED  BY <1>3, <2>1, <2>2 DEF InstallPlatform, InstallLookup, InstallerPoints
<1>4. CASE InstallCreate(t)
  BY <1>0, <1>1, <1>4 DEF InstallCreate, RequestsOK, Request, ManagerPoints
<1>5. ASSUME NEW op, NEW S, NEW next \in [S -> ManagerPoints], GetByID(t, op, next)
      PROVE  req'[t].pc \in ManagerPoints
  BY <1>0, <1>5, GetByIDEffect DEF ManagerPoints
<1>6. CASE \/ ReconnectIntegration(t) \/ SyncIntegration(t)
           \/ DisconnectIntegration(t) \/ UninstallIntegration(t)
  <2>. DEFINE S == {"CREATED", "ACTIVE", "REVOKED"}
  <2>1. /\ [s \in S |-> "disconnect_update"] \in [S -> ManagerPoints]
        /\ [s \in {"ACTIVE"} |-> "reconnect_update"] \in [{"ACTIVE"} -> ManagerPoints]
        /\ [s \in {"ACTIVE"} |-> "sync_update"] \in [{"ACTIVE"} -> ManagerPoints]
    BY DEF ManagerPoints
  <2>2. [s \in S |-> IF s = "ACTIVE" THEN "uninstall_revoke"
                                     ELSE "uninstall_delete"] \in [S -> ManagerPoints]
    BY DEF ManagerPoints
  <2>. QED  BY <1>5, <1>6, <2>1, <2>2 DEF DisconnectIntegration,
            UninstallIntegration, ReconnectIntegration, SyncIntegration
<1>7. CASE \/ ReconnectUpdate(t) \/ DisconnectUpdate(t) \/ SyncUpdate(t)
           \/ UninstallRevoke(t) \/ UninstallDelete(t)
  <2>1. Goto(t, "uninstall_delete") => req'[t].pc \in ManagerPoints
    BY <1>0, GotoEffect DEF ManagerPoints
  <2>. QED  BY <1>1, <1>7, <2>1 DEF ReconnectUpdate, DisconnectUpdate,
            SyncUpdate, UpdateByID, UninstallRevoke, UninstallDelete
<1>. QED  BY <1>2, <1>3, <1>4, <1>6, <1>7 DEF ManageIntegration

\* A request that is neither a callback nor on its way to or from a location
\* claims nothing.
LEMMA NothingClaimed ==
    ASSUME NEW t, req'[t].pc \notin ResolvePoints \cup InstallerPoints
                     \cup {"installed_config", "installed_create"},
           req'[t].pc \notin CallbackPoints, ~ IsCallback(t) \/ ~ Stored(t)'
    PROVE  RequestClaimed(t)'
<1>1. /\ req'[t].pc \notin ExchangedPoints /\ ~ Registering(t)'
      /\ req'[t].pc # "resolve_id"
  BY DEF ExchangedPoints, CallbackPoints, Registering, ResolvePoints
<1>. QED  BY <1>1 DEF RequestClaimed, InstallerPoints, IsCallback, Stored

\* A handler that a location has led to a row.
LEMMA LedToRow ==
    ASSUME TypeOK, [Next]_vars, NEW t \in Requests, ~ IsCallback(t),
           NEW i \in Ids, NEW l \in Locations, Vouched(i, l),
           req'[t].id = i, req'[t].location = l,
           req'[t].pc \in {"resolve_id", "installed_config", "installed_create"}
    PROVE  RequestClaimed(t)'
<1>1. Vouched(i, l)'
  BY VouchedKept
<1>2. Vouched(req[t].id, req[t].location)'
  BY <1>1 DEF Vouched, Claimed
<1>3. ~ Registering(t)' /\ req'[t].pc \notin InstallerPoints
  BY DEF Registering, InstallerPoints
<1>. QED  BY <1>2, <1>3 DEF RequestClaimed, IsCallback, InstallerPoints

\* What a step inside ProcessCallback and RegisterProvider keeps: the code, the
\* location once it is known, and the row once it is found.
LEMMA ProcessFields ==
    ASSUME TypeOK, NEW t \in Requests,
           \/ CallbackPlatform(t) \/ CallbackClient(t) \/ CallbackExchange(t)
           \/ CallbackLookup(t) \/ CallbackActivate(t) \/ CallbackCreate(t)
           \/ CallbackToken(t) \/ RegisterGet(t) \/ RegisterCreate(t)
           \/ RegisterUpdate(t)
    PROVE  /\ req'[t].code = req[t].code
           /\ req'[t].pc \in CallbackPoints \cup {"done"}
           /\ req'[t].pc \in ExchangedPoints =>
                \/ req[t].pc \in ExchangedPoints /\ req'[t].location = req[t].location
                \/ req'[t].location = CodeLocation[req'[t].code]
           /\ Registering(t)' =>
                /\ At(t, "callback_token") \/ Registering(t)
                /\ req'[t].id = req[t].id
<1>0. RequestsOK
  BY DEF TypeOK
<1>. DEFINE Goal == /\ req'[t].code = req[t].code
                    /\ req'[t].pc \in CallbackPoints \cup {"done"}
                    /\ req'[t].pc \in ExchangedPoints =>
                         \/ /\ req[t].pc \in ExchangedPoints
                            /\ req'[t].location = req[t].location
                         \/ req'[t].location = CodeLocation[req'[t].code]
                    /\ Registering(t)' =>
                         /\ At(t, "callback_token") \/ Registering(t)
                         /\ req'[t].id = req[t].id
<1>1. ASSUME NEW x, Finish(t, x) PROVE Goal
  <2>1. /\ req'[t].pc = "done" /\ req'[t].code = req[t].code
        /\ ~ Registering(t)' /\ req'[t].pc \notin ExchangedPoints
    BY <1>0, <1>1, FinishEffect, FieldsKept DEF Registering, ExchangedPoints
  <2>. QED  BY <2>1
<1>2. ASSUME NEW pc \in CallbackPoints, Goto(t, pc),
             pc \in ExchangedPoints => req[t].pc \in ExchangedPoints,
             pc \in {"register_get", "register_create", "register_update"} =>
                 At(t, "callback_token") \/ Registering(t)
      PROVE  Goal
  <2>1. /\ req'[t].pc = pc /\ req'[t].code = req[t].code
        /\ req'[t].location = req[t].location /\ req'[t].id = req[t].id
    BY <1>0, <1>2, GotoEffect, FieldsKept
  <2>. QED  BY <1>2, <2>1 DEF Registering
<1>3. CASE CallbackPlatform(t) \/ CallbackClient(t)
  <2>1. /\ {"callback_client", "callback_exchange"} \subseteq CallbackPoints
        /\ {"callback_client", "callback_exchange"} \cap ExchangedPoints = {}
    BY DEF CallbackPoints, ExchangedPoints
  <2>. QED  BY <1>1, <1>2, <1>3, <2>1 DEF CallbackPlatform, CallbackClient, Check
<1>4. CASE CallbackActivate(t) \/ CallbackToken(t)
  BY <1>1, <1>2, <1>4
  DEF CallbackActivate, CallbackToken, At, CallbackPoints, ExchangedPoints
<1>5. CASE CallbackExchange(t)
  <2>1. CASE req' = [req EXCEPT ![t].pc = "callback_lookup",
                                ![t].location = CodeLocation[req[t].code]]
    <3>1. /\ req'[t].pc = "callback_lookup" /\ req'[t].code = req[t].code
          /\ req'[t].location = CodeLocation[req[t].code]
      BY <1>0, <2>1 DEF RequestsOK, Request
    <3>. QED  BY <3>1 DEF CallbackPoints, Registering
  <2>. QED  BY <1>1, <1>5, <2>1 DEF CallbackExchange
<1>6. ASSUME NEW pc \in {"callback_activate", "callback_token"}, NEW i,
             req[t].pc \in ExchangedPoints,
             req' = [req EXCEPT ![t].pc = pc, ![t].id = i]
      PROVE  Goal
  <2>1. /\ req'[t].pc = pc /\ req'[t].code = req[t].code
        /\ req'[t].location = req[t].location
    BY <1>0, <1>6 DEF RequestsOK, Request
  <2>. QED  BY <1>6, <2>1 DEF CallbackPoints, Registering
<1>7. CASE CallbackLookup(t)
  <2>1. req[t].pc \in ExchangedPoints
    BY <1>7 DEF CallbackLookup, At, ExchangedPoints
  <2>2. "callback_create" \in CallbackPoints
    BY DEF CallbackPoints
  <2>. QED  BY <1>1, <1>2, <1>6, <1>7, <2>1, <2>2 DEF CallbackLookup
<1>8. CASE CallbackCreate(t)
  <2>1. req[t].pc \in ExchangedPoints
    BY <1>8 DEF CallbackCreate, At, ExchangedPoints
  <2>. QED  BY <1>1, <1>6, <1>8, <2>1 DEF CallbackCreate
<1>9. CASE RegisterGet(t) \/ RegisterCreate(t) \/ RegisterUpdate(t)
  <2>1. Registering(t) /\ req[t].pc \in ExchangedPoints
    BY <1>9 DEF RegisterGet, RegisterCreate, RegisterUpdate, At, Registering,
       ExchangedPoints
  <2>2. {"register_create", "register_update"} \subseteq CallbackPoints
    BY DEF CallbackPoints
  <2>. QED  BY <1>1, <1>2, <1>9, <2>1, <2>2
            DEF RegisterGet, RegisterCreate, RegisterUpdate
<1>. QED  BY <1>3, <1>4, <1>5, <1>7, <1>8, <1>9

\* A callback that is bound to its owner.
LEMMA ProcessClaims ==
    ASSUME TypeOK, BearersBound, RequestsClaimed, [Next]_vars, NEW t \in Requests,
           IsCallback(t),
           \/ CallbackPlatform(t) \/ CallbackClient(t) \/ CallbackExchange(t)
           \/ CallbackLookup(t) \/ CallbackActivate(t) \/ CallbackCreate(t)
           \/ CallbackToken(t) \/ RegisterGet(t) \/ RegisterCreate(t)
           \/ RegisterUpdate(t)
    PROVE  RequestClaimed(t)'
<1>0. RequestsOK /\ RequestClaimed(t)
  BY DEF TypeOK, RequestsClaimed
<1>1. Proceeds(t) /\ KeepsOwner(t)
  BY ProcessStep, RegisterStep DEF Proceeds
<1>2. req[t].pc \in CallbackPoints
  BY DEF CallbackPlatform, CallbackClient, CallbackExchange, CallbackLookup,
     CallbackActivate, CallbackCreate, CallbackToken, RegisterGet,
     RegisterCreate, RegisterUpdate, At, CallbackPoints
<1>3. /\ req'[t].pc \notin {"install_platform", "install_lookup", "install_create"}
      /\ req'[t].pc \notin ResolvePoints
      /\ req'[t].pc \notin {"resolve_id", "installed_config", "installed_create"}
  BY ProcessFields DEF CallbackPoints, ResolvePoints
<1>4. req'[t].pc \in ExchangedPoints => req'[t].location = CodeLocation[req'[t].code]
  BY <1>0, ProcessFields DEF RequestClaimed
<1>5. ASSUME req'[t].state = None
      PROVE  Claimed(req[t].client, req[t].platform, CodeLocation[req[t].code])'
  <2>1. Claimed(req[t].client, req[t].platform, CodeLocation[req[t].code])
    BY <1>0, <1>1, <1>2, <1>5 DEF RequestClaimed, KeepsOwner
  <2>2. ASSUME NEW c, NEW p, NEW l, Claimed(c, p, l), req'[t].client = c,
               req'[t].platform = p, CodeLocation[req'[t].code] = l
        PROVE  Claimed(req[t].client, req[t].platform, CodeLocation[req[t].code])'
    <3>1. Claimed(c, p, l)'
      BY <2>2, ClaimKept
    <3>. QED  BY <2>2, <3>1 DEF Claimed
  <2>. QED  BY <1>1, <2>1, <2>2, ProcessFields DEF KeepsOwner
<1>6. ASSUME Registering(t)' PROVE ActsFor(t, req[t].id)'
  <2>1. /\ At(t, "callback_token") \/ Registering(t)
        /\ req'[t].id = req[t].id
    BY <1>6, ProcessFields
  <2>2. ActsFor(t, req[t].id) /\ req[t].id \in Ids
    BY <1>0, <2>1, FieldTypes
    DEF BearersBound, RequestClaimed, At, WellFormed, IdPoints, Registering
  <2>3. /\ integration'[req[t].id].status # "NONE"
        /\ integration'[req[t].id].client = integration[req[t].id].client
        /\ integration'[req[t].id].platform = integration[req[t].id].platform
    BY <2>2, NextRows, OwnerKept DEF ActsFor
  <2>. QED  BY <1>1, <2>1, <2>2, <2>3 DEF ActsFor, KeepsOwner
<1>. QED  BY <1>3, <1>4, <1>5, <1>6 DEF RequestClaimed

\* A callback that has yet to be bound.
LEMMA StartClaims ==
    ASSUME TypeOK, NEW t \in Requests,
           CallbackWithState(t) \/ CallbackWithoutState(t),
           BearersBound, RequestsClaimed
    PROVE  RequestClaimed(t)'
<1>0. RequestsOK /\ IsCallback(t) /\ Unbound(t)
  BY DEF TypeOK, CallbackWithState, CallbackWithoutState, Arrives, IsCallback,
     Unbound
<1>1. ASSUME req'[t].pc = "done", req'[t].result = "err"
      PROVE  RequestClaimed(t)'
  <2>1. ~ Stored(t)'
    BY <1>1 DEF Stored, Registering, Ended, At
  <2>. QED  BY <1>1, <2>1, NothingClaimed
            DEF ResolvePoints, InstallerPoints, CallbackPoints
<1>2. CASE Finish(t, "err")
  BY <1>0, <1>1, <1>2, FinishEffect
<1>3. ASSUME NEW k, NEW s \in States,
             req' = [req EXCEPT ![t] =
                       [@ EXCEPT !.pc = "callback_platform",
                                 !.code = k, !.state = s,
                                 !.client = oauthState[s].client,
                                 !.platform = oauthState[s].platform]]
      PROVE  RequestClaimed(t)'
  <2>1. req'[t].pc = "callback_platform" /\ req'[t].state # None
    BY <1>0, <1>3, ConstantsAssumption DEF RequestsOK, Request
  <2>2. ~ Registering(t)' /\ req'[t].pc \notin ExchangedPoints \cup ResolvePoints
    BY <2>1 DEF Registering, ExchangedPoints, ResolvePoints
  <2>. QED  BY <2>1, <2>2 DEF RequestClaimed
<1>4. ASSUME NEW k \in Codes, CodeLocation[k] # None, NEW x,
             req' = [req EXCEPT ![t] =
                       [@ EXCEPT !.pc = "resolve_account", !.result = x,
                                 !.code = k, !.location = CodeLocation[k]]]
      PROVE  RequestClaimed(t)'
  <2>1. /\ req'[t].pc = "resolve_account" /\ req'[t].code = k
        /\ req'[t].location = CodeLocation[k] /\ req'[t].state = req[t].state
    BY <1>0, <1>4 DEF RequestsOK, Request
  <2>2. req'[t].location \in Locations /\ req'[t].state = None
    BY <1>0, <1>4, <2>1, ConstantsAssumption DEF BearersBound
  <2>3. /\ ~ Registering(t)' /\ ~ Stored(t)'
        /\ req'[t].pc \notin ExchangedPoints \cup CallbackPoints
    BY <2>1 DEF Registering, Stored, Ended, At, ExchangedPoints, CallbackPoints
  <2>. QED  BY <2>1, <2>2, <2>3 DEF RequestClaimed
<1>5. CASE CallbackWithoutState(t) /\ ~ Finish(t, "err")
  <2>1. PICK k \in Codes :
          req' = [req EXCEPT ![t] =
                   [@ EXCEPT !.pc = IF CodeLocation[k] = None
                                    THEN "done" ELSE "resolve_account",
                             !.result = IF CodeLocation[k] = None
                                        THEN "err" ELSE "none",
                             !.code = k, !.location = CodeLocation[k]]]
    BY <1>5, Zenon DEF CallbackWithoutState
  <2>2. CASE CodeLocation[k] = None
    <3>1. req'[t].pc = "done" /\ req'[t].result = "err"
      BY <1>0, <2>1, <2>2 DEF RequestsOK, Request
    <3>. QED  BY <1>1, <3>1
  <2>3. CASE CodeLocation[k] # None
    BY <1>4, <2>1, <2>3
  <2>. QED  BY <2>2, <2>3
<1>. QED  BY <1>2, <1>3, <1>5 DEF CallbackWithState

\* The statements that find the row of a location.
LEMMA ResolveClaims ==
    ASSUME TypeOK, RowsClaimed, RequestsClaimed, [Next]_vars, NEW t \in Requests,
           ResolveAccount(t) \/ ResolveConfig(t) \/ ResolveID(t)
    PROVE  RequestClaimed(t)'
<1>. DEFINE l == req[t].location
<1>0. RequestsOK /\ RequestClaimed(t) /\ req[t].pc \in ResolvePoints
  BY DEF TypeOK, RequestsClaimed, ResolveAccount, ResolveConfig, ResolveID, At,
     ResolvePoints
<1>a. /\ l \in Locations /\ l # None
      /\ IsCallback(t) => l = CodeLocation[req[t].code] /\ req[t].state = None
  BY <1>0, ConstantsAssumption DEF RequestClaimed
<1>. HIDE DEF l
<1>1. CASE Finish(t, "err")
  <2>1. req'[t].pc = "done" /\ ~ Stored(t)'
    BY <1>0, <1>1, FinishEffect DEF Stored, Registering, Ended, At
  <2>. QED  BY <2>1, NothingClaimed
            DEF ResolvePoints, InstallerPoints, CallbackPoints
\* Nothing is bound yet: the request only looks further.
<1>2. ASSUME req'[t].pc \in {"resolve_config", "resolve_id"},
             req'[t].location = l, req'[t].code = req[t].code,
             req'[t].state = req[t].state,
             req'[t].pc = "resolve_id" =>
                 req'[t].id \in Ids /\ Vouched(req'[t].id, l)
      PROVE  RequestClaimed(t)'
  <2>1. Vouched(req[t].id, req[t].location)' \/ req'[t].pc # "resolve_id"
    <3>1. ASSUME NEW i \in Ids, Vouched(i, l), req'[t].id = i
          PROVE  Vouched(req[t].id, req[t].location)'
      <4>1. ASSUME NEW k, k = l PROVE Vouched(i, k)'
        BY <3>1, <4>1, VouchedKept
      <4>. QED  BY <1>2, <3>1, <4>1 DEF Vouched, Claimed
    <3>. QED  BY <1>2, <3>1
  <2>2. /\ ~ Registering(t)' /\ ~ Stored(t)'
        /\ req'[t].pc \notin ExchangedPoints \cup CallbackPoints
    BY <1>2 DEF Registering, Stored, Ended, At, ExchangedPoints, CallbackPoints
  <2>. QED  BY <1>2, <1>a, <2>1, <2>2 DEF RequestClaimed, IsCallback
\* The location has led to row i.
<1>3. ASSUME NEW i \in Ids, Vouched(i, l), Resolved(t, i)
      PROVE  RequestClaimed(t)'
  <2>1. CASE ~ IsCallback(t)
    <3>1. /\ req'[t].pc = "installed_config" /\ req'[t].id = i
          /\ req'[t].location = l
      BY <1>0, <1>3, <2>1 DEF Resolved, IsCallback, RequestsOK, Request, l
    <3>2. ASSUME NEW k \in Locations, k = l PROVE RequestClaimed(t)'
      BY <1>3, <2>1, <3>1, <3>2, LedToRow
    <3>. QED  BY <1>a, <3>2
  <2>2. CASE IsCallback(t)
    <3>1. /\ req'[t].pc = "callback_platform"
          /\ req'[t].client = integration[i].client
          /\ req'[t].platform = integration[i].platform
          /\ req'[t].code = req[t].code
      BY <1>0, <1>3, <2>2 DEF Resolved, IsCallback, RequestsOK, Request
    <3>2. Claimed(req[t].client, req[t].platform, CodeLocation[req[t].code])'
      <4>1. ASSUME NEW c, NEW p, NEW k, c = integration[i].client,
                   p = integration[i].platform, k = l
            PROVE  Claimed(c, p, k)'
        BY <1>3, <4>1, ClaimKept DEF Vouched
      <4>. QED  BY <1>a, <2>2, <3>1, <4>1 DEF Claimed
    <3>3. /\ ~ Registering(t)'
          /\ req'[t].pc \notin ExchangedPoints \cup ResolvePoints
      BY <3>1 DEF Registering, ExchangedPoints, ResolvePoints
    <3>. QED  BY <3>1, <3>2, <3>3 DEF RequestClaimed
  <2>. QED  BY <2>1, <2>2
<1>4. CASE ResolveAccount(t)
  <2>1. ASSUME NEW i \in Ids, Exists(i), integration[i].account = l
        PROVE  Vouched(i, l)
    BY <1>a, <2>1 DEF RowsClaimed, Exists
  <2>2. CASE Goto(t, "resolve_config")
    <3>1. /\ req'[t].pc = "resolve_config" /\ req'[t].location = l
          /\ req'[t].code = req[t].code /\ req'[t].state = req[t].state
      BY <1>0, <2>2, GotoEffect, FieldsKept DEF KeepsOwner, l
    <3>. QED  BY <1>2, <3>1
  <2>. QED  BY <1>3, <1>4, <2>1, <2>2 DEF ResolveAccount, RowsOfAccount, l
<1>5. CASE ResolveConfig(t)
  <2>1. ASSUME NEW i \in Ids, configLocation[i] = l,
               req' = [req EXCEPT ![t].pc = "resolve_id", ![t].id = i]
        PROVE  RequestClaimed(t)'
    <3>1. Vouched(i, l)
      BY <1>a, <2>1 DEF RowsClaimed
    <3>2. /\ req'[t].pc = "resolve_id" /\ req'[t].location = l
          /\ req'[t].code = req[t].code /\ req'[t].state = req[t].state
          /\ req'[t].id = i
      BY <1>0, <2>1 DEF RequestsOK, Request, l
    <3>. QED  BY <1>2, <3>1, <3>2
  <2>. QED  BY <1>1, <1>5, <2>1 DEF ResolveConfig, ConfigsOf, l
<1>6. CASE ResolveID(t)
  <2>1. req[t].id \in Ids /\ Vouched(req[t].id, l)
    BY <1>0, <1>6, FieldTypes
    DEF ResolveID, At, WellFormed, IdPoints, RequestClaimed, l
  <2>. QED  BY <1>1, <1>3, <1>6, <2>1 DEF ResolveID
<1>. QED  BY <1>4, <1>5, <1>6

\* The handlers that are not callbacks.
LEMMA OtherClaims ==
    ASSUME TypeOK, RequestsClaimed, [Next]_vars, NEW t \in Requests,
           \/ ManageIntegration(t)
           \/ BeginAuthorization(t) \/ BeginClient(t) \/ BeginCreate(t)
           \/ HandleIntegrationInstalled(t) \/ InstalledConfig(t)
           \/ InstalledCreate(t)
    PROVE  RequestClaimed(t)'
<1>0. RequestsOK /\ RequestClaimed(t) /\ ~ IsCallback(t)
  BY ManageMoves, NotCallback DEF TypeOK, RequestsClaimed
<1>1. ASSUME req'[t].pc \in ManagerPoints \cup {"begin_client", "begin_create"}
      PROVE  RequestClaimed(t)'
  BY <1>0, <1>1, NothingClaimed
  DEF ManagerPoints, InstallerPoints, ResolvePoints, CallbackPoints
<1>2. ASSUME NEW x, Finish(t, x) PROVE RequestClaimed(t)'
  BY <1>0, <1>1, <1>2, FinishEffect DEF ManagerPoints
<1>3. CASE ManageIntegration(t)
  <2>1. CASE /\ req'[t].pc \in InstallerPoints
             /\ OpOf[t] = "InstallIntegration" \/ req[t].pc \in InstallerPoints
    <3>1. OpOf[t] = "InstallIntegration"
      BY <1>0, <2>1 DEF RequestClaimed, InstallerPoints
    <3>2. /\ ~ Registering(t)' /\ req'[t].pc \notin ResolvePoints
          /\ req'[t].pc \notin {"resolve_id", "installed_config",
                                "installed_create"}
      BY <2>1 DEF InstallerPoints, Registering, ResolvePoints
    <3>. QED  BY <1>0, <3>1, <3>2 DEF RequestClaimed, IsCallback
  <2>. QED  BY <1>1, <1>3, <2>1, ManagePoints
<1>4. CASE BeginAuthorization(t) \/ BeginClient(t) \/ BeginCreate(t)
  <2>1. CASE BeginAuthorization(t)
    <3>1. ASSUME NEW pc, NEW x, NEW c, NEW p,
                 req' = [req EXCEPT ![t] =
                   [@ EXCEPT !.pc = pc, !.result = x,
                             !.client = c, !.platform = p]]
          PROVE  req'[t].pc = pc
      BY <1>0, <3>1 DEF RequestsOK, Request
    <3>2. PICK c \in Clients, p \in Platforms :
            req' = [req EXCEPT ![t] =
                      [@ EXCEPT !.pc = IF platformEnabled[p]
                                       THEN "begin_client" ELSE "done",
                                !.result = IF platformEnabled[p]
                                           THEN "none" ELSE "err",
                                !.client = c, !.platform = p]]
      BY <2>1 DEF BeginAuthorization
    <3>3. req'[t].pc \in {"begin_client", "done"}
      BY <3>1, <3>2
    <3>. QED  BY <1>1, <3>3 DEF ManagerPoints
  <2>2. CASE BeginClient(t)
    BY <1>0, <1>1, <1>2, <2>2, GotoEffect DEF BeginClient, Check
  <2>3. CASE BeginCreate(t)
    <3>1. ASSUME NEW s, req' = [req EXCEPT ![t].pc = "done",
                                           ![t].result = "ok", ![t].state = s]
          PROVE  req'[t].pc = "done"
      BY <1>0, <3>1 DEF RequestsOK, Request
    <3>. QED  BY <1>1, <1>2, <2>3, <3>1 DEF BeginCreate, ManagerPoints
  <2>. QED  BY <1>4, <2>1, <2>2, <2>3
<1>5. CASE HandleIntegrationInstalled(t)
  <2>1. PICK l \in Locations :
          req' = [req EXCEPT ![t].pc = "resolve_account", ![t].location = l]
    BY <1>5 DEF HandleIntegrationInstalled
  <2>2. req'[t].pc = "resolve_account" /\ req'[t].location \in Locations
    BY <1>0, <2>1 DEF RequestsOK, Request
  <2>3. ~ Registering(t)'
    BY <2>2 DEF Registering
  <2>. QED  BY <1>0, <2>2, <2>3 DEF RequestClaimed, IsCallback
<1>6. CASE InstalledConfig(t) /\ Goto(t, "installed_create")
  <2>1. /\ req[t].id \in Ids /\ Vouched(req[t].id, req[t].location)
        /\ req[t].location \in Locations
    BY <1>0, <1>6, FieldTypes, ConstantsAssumption
    DEF InstalledConfig, At, WellFormed, IdPoints, RequestClaimed, Vouched, Claimed
  <2>2. /\ req'[t].pc = "installed_create" /\ req'[t].id = req[t].id
        /\ req'[t].location = req[t].location
    BY <1>0, <1>6, GotoEffect, FieldsKept
  <2>3. ASSUME NEW i \in Ids, NEW l \in Locations, i = req[t].id,
               l = req[t].location
        PROVE  RequestClaimed(t)'
    BY <1>0, <2>1, <2>2, <2>3, LedToRow
  <2>. QED  BY <2>1, <2>3
<1>7. CASE InstalledCreate(t)
  BY <1>2, <1>7 DEF InstalledCreate
<1>. QED  BY <1>2, <1>3, <1>4, <1>5, <1>6, <1>7 DEF InstalledConfig

\* A request that stops: a callback that has stored its tokens keeps its claim.
LEMMA FailClaims ==
    ASSUME TypeOK, RequestsClaimed, [Next]_vars, NEW t \in Requests, Fail(t)
    PROVE  RequestClaimed(t)'
<1>0. RequestsOK /\ RequestClaimed(t)
  BY DEF TypeOK, RequestsClaimed
<1>1. PICK x : Finish(t, x)
  BY DEF Fail
<1>2. /\ req'[t].pc = "done" /\ KeepsOwner(t) /\ req'[t].code = req[t].code
  BY <1>0, <1>1, FinishEffect, FieldsKept
<1>3. CASE ~ Stored(t)'
  BY <1>2, <1>3, NothingClaimed DEF ResolvePoints, InstallerPoints, CallbackPoints
<1>4. CASE Stored(t)'
  <2>1. Stored(t) /\ IsCallback(t)
    <3>1. At(t, "callback_token") => req'[t].result = "partial"
      BY <1>0, FinishEffect DEF Fail, At, Registering
    <3>2. ~ CallbackToken(t)
      BY <1>2, <1>4, <3>1 DEF CallbackToken, Stored, Registering, Ended, At
    <3>. QED  BY <1>4, <3>2, StoredStep DEF Stored
  <2>2. ASSUME req'[t].state = None
        PROVE  Claimed(req[t].client, req[t].platform, CodeLocation[req[t].code])'
    <3>1. Claimed(req[t].client, req[t].platform, CodeLocation[req[t].code])
      BY <1>0, <1>2, <2>1, <2>2 DEF RequestClaimed, KeepsOwner
    <3>2. ASSUME NEW c, NEW p, NEW l, Claimed(c, p, l), req'[t].client = c,
                 req'[t].platform = p, CodeLocation[req'[t].code] = l
          PROVE  Claimed(req[t].client, req[t].platform, CodeLocation[req[t].code])'
      <4>1. Claimed(c, p, l)'
        BY <3>2, ClaimKept
      <4>. QED  BY <3>2, <4>1 DEF Claimed
    <3>. QED  BY <1>2, <3>1, <3>2 DEF KeepsOwner
  <2>3. ~ Registering(t)' /\ req'[t].pc \notin ExchangedPoints \cup ResolvePoints
    BY <1>2 DEF Registering, ExchangedPoints, ResolvePoints
  <2>. QED  BY <1>2, <2>2, <2>3 DEF RequestClaimed
<1>. QED  BY <1>3, <1>4

\* No request comes to act for a client that did not name its location.
LEMMA RequestsClaimedNext ==
    ASSUME TypeOK, BearersBound, RowsClaimed, RequestsClaimed, [Next]_vars
    PROVE  RequestsClaimed'
<1>. SUFFICES ASSUME NEW t \in Requests PROVE RequestClaimed(t)'
  BY DEF RequestsClaimed
<1>0. RequestsOK
  BY DEF TypeOK
<1>1. ASSUME req'[t] = req[t] PROVE RequestClaimed(t)'
  <2>1. RequestClaimed(t)
    BY DEF RequestsClaimed
  <2>2. ASSUME NEW c, NEW p, NEW l, c = req[t].client, p = req[t].platform,
               l = CodeLocation[req[t].code], Claimed(c, p, l)
        PROVE  Claimed(req[t].client, req[t].platform, CodeLocation[req[t].code])'
    <3>1. Claimed(c, p, l)'
      BY <2>2, ClaimKept
    <3>. QED  BY <1>1, <2>2, <3>1 DEF Claimed
  <2>3. ASSUME NEW i \in Ids, NEW l, i = req[t].id, l = req[t].location,
               Vouched(i, l)
        PROVE  Vouched(req[t].id, req[t].location)'
    <3>1. Vouched(i, l)'
      BY <2>3, VouchedKept
    <3>. QED  BY <1>1, <2>3, <3>1 DEF Vouched, Claimed
  <2>4. req[t].pc \in {"resolve_id", "installed_config", "installed_create"}
          => req[t].id \in Ids
    BY <1>0, FieldTypes DEF WellFormed, IdPoints
  <2>5. Registering(t) => ActsFor(t, req[t].id)'
    <3>1. Registering(t) => req[t].id \in Ids
      BY <1>0, FieldTypes DEF WellFormed, IdPoints, Registering
    <3>. QED  BY <1>1, <2>1, <3>1, NextRows, OwnerKept DEF RequestClaimed, ActsFor
  <2>6. /\ Registering(t)' <=> Registering(t)
        /\ Stored(t)' <=> Stored(t)
    BY <1>1 DEF Registering, Stored, Ended, At, IsCallback
  <2>. QED  BY <1>1, <2>1, <2>2, <2>3, <2>4, <2>5, <2>6
            DEF RequestClaimed, IsCallback
<1>2. ASSUME NEW r \in Requests, r # t,
             ManageIntegration(r) \/ Authorize(r) \/ Register(r) \/ Fail(r)
      PROVE  RequestClaimed(t)'
  BY <1>1, <1>2, ManageMoves, AuthorizeMoves, RegisterMoves DEF Moves
<1>3. CASE Authorize(t)
  <2>1. CASE \/ CallbackPlatform(t) \/ CallbackClient(t) \/ CallbackExchange(t)
             \/ CallbackLookup(t) \/ CallbackActivate(t) \/ CallbackCreate(t)
             \/ CallbackToken(t)
    <3>1. req[t].pc \in CallbackPoints
      BY <2>1 DEF CallbackPlatform, CallbackClient, CallbackExchange,
         CallbackLookup, CallbackActivate, CallbackCreate, CallbackToken, At,
         CallbackPoints
    <3>2. IsCallback(t)
      BY <1>0, <3>1, FieldTypes DEF WellFormed
    <3>. QED  BY <2>1, <3>2, ProcessClaims
  <2>. QED  BY <1>3, <2>1, StartClaims, ResolveClaims, OtherClaims DEF Authorize
<1>4. CASE Register(t)
  <2>1. CASE RegisterGet(t) \/ RegisterCreate(t) \/ RegisterUpdate(t)
    <3>1. req[t].pc \in CallbackPoints
      BY <2>1 DEF RegisterGet, RegisterCreate, RegisterUpdate, At, CallbackPoints
    <3>2. IsCallback(t)
      BY <1>0, <3>1, FieldTypes DEF WellFormed
    <3>. QED  BY <2>1, <3>2, ProcessClaims
  <2>. QED  BY <1>4, <2>1, OtherClaims DEF Register
<1>5. CASE Environment \/ UNCHANGED vars
  BY <1>1, <1>5 DEF Environment, StateExpires, SetClientStatus, DeleteClient,
     SetPlatformEnabled, vars
<1>. QED  BY <1>2, <1>3, <1>4, <1>5, OtherClaims, FailClaims DEF Next, Environment

\* Whom a location leads to, as an invariant.
LEMMA ClaimsInvariant == Spec => [](RowsClaimed /\ RequestsClaimed)
<1>1. Init => KeysConfigured /\ RowsClaimed /\ RequestsClaimed
  <2>. SUFFICES ASSUME Init PROVE KeysConfigured /\ RowsClaimed /\ RequestsClaimed
    OBVIOUS
  <2>1. KeysConfigured /\ RowsClaimed
    BY DEF Init, KeysConfigured, RowsClaimed
  <2>2. ASSUME NEW r \in Requests PROVE RequestClaimed(r)
    BY DEF Init, RequestClaimed, ResolvePoints, ExchangedPoints, CallbackPoints,
       Stored, Registering, Ended, At
  <2>. QED  BY <2>1, <2>2 DEF RequestsClaimed
<1>2. TypeOK /\ KeysConfigured /\ BearersBound /\ RowsClaimed /\ RequestsClaimed
        /\ [Next]_vars => KeysConfigured' /\ RowsClaimed' /\ RequestsClaimed'
  BY KeysConfiguredNext, RowsClaimedNext, RequestsClaimedNext
<1>. QED  BY <1>1, <1>2, TypeCorrect, BearersInvariant, PTL DEF Spec

\* For any number of clients, states, events and concurrent callbacks, the tokens
\* of an integration were stored by a callback for that integration's client and
\* platform, which are those its state was issued to, or, without a state, those
\* of a client that has itself named the location of the tokens.
THEOREM CredentialsStay == Spec => []CredentialsStayWithTheirClient
<1>1. TypeOK /\ BearersBound /\ TokensOwned /\ RequestsClaimed
        => CredentialsStayWithTheirClient
  <2>. SUFFICES ASSUME TypeOK, BearersBound, TokensOwned, RequestsClaimed,
                       NEW i \in Ids, token[i] # None
                PROVE  \E r \in Requests :
                         /\ IsCallback(r)
                         /\ req[r].id = i /\ req[r].code = token[i]
                         /\ req[r].client = integration[i].client
                         /\ req[r].platform = integration[i].platform
                         /\ \/ /\ req[r].state # None
                               /\ r \in redeemers[req[r].state]
                               /\ oauthState[req[r].state].client = req[r].client
                               /\ oauthState[req[r].state].platform
                                    = req[r].platform
                            \/ /\ req[r].state = None
                               /\ Claimed(req[r].client, req[r].platform,
                                          CodeLocation[token[i]])
    BY DEF CredentialsStayWithTheirClient
  <2>1. PICK r \in Requests : /\ Stored(r) /\ ActsFor(r, i)
                              /\ req[r].id = i /\ req[r].code = token[i]
    BY DEF TokensOwned
  <2>2. IsCallback(r)
    BY <2>1 DEF Stored
  <2>3. req[r].state = None =>
          Claimed(req[r].client, req[r].platform, CodeLocation[token[i]])
    BY <2>1, <2>2 DEF RequestsClaimed, RequestClaimed
  <2>4. req[r].state # None =>
          /\ r \in redeemers[req[r].state]
          /\ oauthState[req[r].state].client = req[r].client
          /\ oauthState[req[r].state].platform = req[r].platform
    BY <2>2 DEF BearersBound
  <2>. QED  BY <2>1, <2>2, <2>3, <2>4 DEF ActsFor
<1>. QED  BY <1>1, TypeCorrect, TokensInvariant, BearersInvariant,
          ClaimsInvariant, PTL

-------------------------------------------------------------------------------
(* A code serves once *)

\* A callback whose code is exchanged, early or late, was so before, and has
\* the same code.
KeepsExchange(t) ==
    /\ Exchanged(t)' => Exchanged(t)
    /\ ExchangedEarly(t)' => ExchangedEarly(t)
    /\ Exchanged(t)' \/ ExchangedEarly(t)' =>
         req'[t].code = req[t].code /\ req'[t].state = req[t].state

\* HandleCallback exchanges the code of a callback without a state.
Learns(t) ==
    /\ req'[t].code \in Codes /\ Exchange(req'[t].code)
    /\ ~ Exchanged(t)'

\* ProcessCallback exchanges the code.
Trades(t) ==
    /\ At(t, "callback_exchange")
    /\ req[t].code \in Codes /\ Exchange(req[t].code)
    /\ req'[t].code = req[t].code /\ req'[t].state = req[t].state

\* A callback that is past the exchange keeps its code and its state.
LEMMA ExchangedKeeps ==
    ASSUME NEW t \in Requests, IsCallback(t), req[t].pc \in ExchangedPoints,
           req'[t].code = req[t].code, req'[t].state = req[t].state
    PROVE  KeepsExchange(t)
  BY DEF KeepsExchange, Exchanged, ExchangedEarly, ExchangedPoints, CallbackPoints

\* One that is before it, and does not get there, does too.
LEMMA EarlyKeeps ==
    ASSUME NEW t \in Requests, IsCallback(t),
           req[t].pc \in ResolvePoints \cup CallbackPoints,
           req'[t].code = req[t].code, req'[t].state = req[t].state,
           req'[t].pc \notin ExchangedPoints, ~ Stored(t)'
    PROVE  KeepsExchange(t)
  BY DEF KeepsExchange, Exchanged, ExchangedEarly

\* A callback that ends with an error has nothing to keep.
LEMMA FailedKeeps ==
    ASSUME RequestsOK, NEW t \in Requests, NEW x \in {"err", "partial"}, Finish(t, x)
    PROVE  KeepsExchange(t)
<1>1. req'[t].pc = "done" /\ req'[t].result = x
  BY FinishEffect
<1>. QED  BY <1>1 DEF KeepsExchange, Exchanged, ExchangedEarly, ExchangedPoints,
          Stored, Registering, Ended, At, ResolvePoints, CallbackPoints

\* The first step of a callback exchanges its code, or leaves it for later.
LEMMA StartExchange ==
    ASSUME TypeOK, NEW t \in Requests,
           CallbackWithState(t) \/ CallbackWithoutState(t)
    PROVE  KeepsExchange(t) \/ Learns(t)
<1>0. RequestsOK
  BY DEF TypeOK
<1>1. ASSUME NEW x \in {"err", "partial"}, Finish(t, x) PROVE KeepsExchange(t)
  BY <1>0, <1>1, FailedKeeps
<1>2. ASSUME NEW k, NEW s \in States,
             req' = [req EXCEPT ![t] =
                       [@ EXCEPT !.pc = "callback_platform",
                                 !.code = k, !.state = s,
                                 !.client = oauthState[s].client,
                                 !.platform = oauthState[s].platform]]
      PROVE  KeepsExchange(t)
  <2>1. req'[t].pc = "callback_platform" /\ req'[t].state = s
    BY <1>0, <1>2 DEF RequestsOK, Request
  <2>2. s # None
    BY ConstantsAssumption
  <2>. QED  BY <2>1, <2>2 DEF KeepsExchange, Exchanged, ExchangedEarly,
            ExchangedPoints, Stored, Registering, Ended, At
<1>3. ASSUME NEW pc \in {"resolve_account", "done"}, NEW x \in {"err", "none"},
             NEW k \in Codes, NEW l, Exchange(k),
             req' = [req EXCEPT ![t] =
                       [@ EXCEPT !.pc = pc, !.result = x, !.code = k,
                                 !.location = l]]
      PROVE  Learns(t)
  <2>1. req'[t].pc = pc /\ req'[t].result = x /\ req'[t].code = k
    BY <1>0, <1>3 DEF RequestsOK, Request
  <2>. QED  BY <1>3, <2>1 DEF Learns, Exchanged, ExchangedPoints, Stored,
            Registering, Ended, At
<1>4. CASE CallbackWithoutState(t)
  <2>1. CASE Finish(t, "err")
    BY <1>1, <2>1
  <2>2. CASE ~ Finish(t, "err")
    <3>1. PICK k \in Codes :
            /\ Exchange(k)
            /\ req' = [req EXCEPT ![t] =
                     [@ EXCEPT !.pc = IF CodeLocation[k] = None
                                      THEN "done" ELSE "resolve_account",
                               !.result = IF CodeLocation[k] = None
                                          THEN "err" ELSE "none",
                               !.code = k, !.location = CodeLocation[k]]]
      BY <1>4, <2>2, Zenon DEF CallbackWithoutState
    <3>2. CASE CodeLocation[k] = None
      BY <1>3, <3>1, <3>2
    <3>3. CASE CodeLocation[k] # None
      BY <1>3, <3>1, <3>3
    <3>. QED  BY <3>2, <3>3
  <2>. QED  BY <2>1, <2>2
<1>5. CASE CallbackWithState(t)
  BY <1>1, <1>2, <1>5 DEF CallbackWithState
<1>. QED  BY <1>4, <1>5

\* A callback under way keeps its code and its state.
LEMMA CodeKept ==
    ASSUME TypeOK, NEW t \in Requests, IsCallback(t),
           \/ Authorize(t) /\ ~ At(t, "idle")
           \/ RegisterGet(t) \/ RegisterCreate(t) \/ RegisterUpdate(t)
    PROVE  req'[t].code = req[t].code /\ req'[t].state = req[t].state
<1>0. RequestsOK
  BY DEF TypeOK
<1>1. ASSUME \/ \E x : Finish(t, x)
             \/ \E pc : Goto(t, pc)
             \/ \E b, pc : Check(t, b, pc)
      PROVE  req'[t].code = req[t].code /\ req'[t].state = req[t].state
  BY <1>0, <1>1, FieldsKept DEF KeepsOwner
<1>2. ASSUME NEW i, NEW pc,
             \/ Resolved(t, i)
             \/ req' = [req EXCEPT ![t].pc = pc, ![t].id = i]
             \/ req' = [req EXCEPT ![t].pc = pc, ![t].location = i]
      PROVE  req'[t].code = req[t].code /\ req'[t].state = req[t].state
  BY <1>0, <1>2 DEF RequestsOK, Request, Resolved, IsCallback
<1>3. CASE \/ CallbackPlatform(t) \/ CallbackClient(t) \/ CallbackActivate(t)
           \/ CallbackToken(t) \/ RegisterGet(t) \/ RegisterCreate(t)
           \/ RegisterUpdate(t)
  BY <1>1, <1>3 DEF CallbackPlatform, CallbackClient, CallbackActivate,
     CallbackToken, RegisterGet, RegisterCreate, RegisterUpdate
<1>4. CASE ResolveAccount(t) \/ ResolveConfig(t) \/ ResolveID(t)
  BY <1>1, <1>2, <1>4 DEF ResolveAccount, ResolveConfig, ResolveID
<1>5. CASE CallbackExchange(t) \/ CallbackLookup(t) \/ CallbackCreate(t)
  BY <1>1, <1>2, <1>5 DEF CallbackExchange, CallbackLookup, CallbackCreate
<1>6. CASE Authorize(t) /\ ~ At(t, "idle")
  <2>1. /\ ~ BeginAuthorization(t) /\ ~ BeginClient(t) /\ ~ BeginCreate(t)
        /\ ~ CallbackWithState(t) /\ ~ CallbackWithoutState(t)
    BY <1>0, <1>6, NotCallback DEF CallbackWithState, CallbackWithoutState,
       Arrives, At
  <2>. QED  BY <1>3, <1>4, <1>5, <1>6, <2>1 DEF Authorize
<1>. QED  BY <1>3, <1>6

\* What a step does to the code of the callback that takes it.
LEMMA OwnExchange ==
    ASSUME TypeOK, NEW t \in Requests, IsCallback(t),
           Authorize(t) \/ Register(t) \/ Fail(t)
    PROVE  KeepsExchange(t) \/ Learns(t) \/ Trades(t)
<1>0. RequestsOK
  BY DEF TypeOK
<1>1. CASE CallbackWithState(t) \/ CallbackWithoutState(t)
  BY <1>1, StartExchange
<1>2. CASE CallbackExchange(t)
  <2>1. req[t].code \in Codes /\ ~ At(t, "idle")
    BY <1>0, <1>2, FieldTypes DEF CallbackExchange, At, WellFormed, CallbackPoints
  <2>2. CASE Finish(t, "err")
    BY <1>0, <2>2, FailedKeeps
  <2>3. CASE Exchange(req[t].code)
    BY <1>2, <2>1, <2>3, CodeKept DEF Trades, CallbackExchange, Authorize
  <2>. QED  BY <1>2, <2>2, <2>3 DEF CallbackExchange
<1>3. CASE \/ ResolveAccount(t) \/ ResolveConfig(t) \/ ResolveID(t)
           \/ CallbackPlatform(t) \/ CallbackClient(t)
  <2>1. /\ req[t].pc \in ResolvePoints \cup CallbackPoints /\ ~ At(t, "idle")
        /\ Authorize(t) /\ ~ CallbackToken(t)
    BY <1>3 DEF ResolveAccount, ResolveConfig, ResolveID, CallbackPlatform,
       CallbackClient, CallbackToken, At, ResolvePoints, CallbackPoints, Authorize
  <2>2. req'[t].pc \in {"resolve_config", "resolve_id", "callback_platform",
                        "callback_client", "callback_exchange", "done"}
    <3>1. ASSUME NEW i, Resolved(t, i) PROVE req'[t].pc = "callback_platform"
      BY <1>0, <3>1 DEF Resolved, IsCallback, RequestsOK, Request
    <3>2. ASSUME NEW i, req' = [req EXCEPT ![t].pc = "resolve_id", ![t].id = i]
          PROVE  req'[t].pc = "resolve_id"
      BY <1>0, <3>2 DEF RequestsOK, Request
    <3>. QED  BY <1>0, <1>3, <3>1, <3>2, GotoEffect, FinishEffect, CheckEffect
              DEF ResolveAccount, ResolveConfig, ResolveID, CallbackPlatform,
              CallbackClient
  <2>3. req'[t].pc \notin ExchangedPoints /\ ~ Stored(t)'
    BY <2>1, <2>2, NotStoredYet DEF ExchangedPoints
  <2>. QED  BY <2>1, <2>3, CodeKept, EarlyKeeps
<1>4. CASE \/ CallbackLookup(t) \/ CallbackActivate(t) \/ CallbackCreate(t)
           \/ CallbackToken(t) \/ RegisterGet(t) \/ RegisterCreate(t)
           \/ RegisterUpdate(t)
  <2>1. req[t].pc \in ExchangedPoints /\ ~ At(t, "idle")
    BY <1>4 DEF CallbackLookup, CallbackActivate, CallbackCreate, CallbackToken,
       RegisterGet, RegisterCreate, RegisterUpdate, At, ExchangedPoints
  <2>2. req'[t].code = req[t].code /\ req'[t].state = req[t].state
    BY <1>4, <2>1, CodeKept DEF Authorize
  <2>. QED  BY <2>1, <2>2, ExchangedKeeps
<1>5. CASE Fail(t)
  <2>1. CASE Registering(t)
    <3>1. req[t].pc \in ExchangedPoints
      BY <2>1 DEF Registering, ExchangedPoints
    <3>. QED  BY <1>0, <1>5, <3>1, FieldsKept, ExchangedKeeps DEF Fail, KeepsOwner
  <2>2. CASE ~ Registering(t)
    BY <1>0, <1>5, <2>2, FailedKeeps DEF Fail
  <2>. QED  BY <2>1, <2>2
<1>. QED  BY <1>0, <1>1, <1>2, <1>3, <1>4, <1>5, NotCallback
          DEF Authorize, Register

\* Only the two calls of ExchangeCode count, and only what HighLevel exchanges.
LEMMA OnlyExchanges ==
    ASSUME TypeOK, [Next]_vars
    PROVE  UNCHANGED exchanged \/ \E k \in Codes : Exchangeable(k) /\ Exchange(k)
<1>0. RequestsOK
  BY DEF TypeOK
<1>1. ASSUME NEW r \in Requests, ManageIntegration(r) PROVE UNCHANGED exchanged
  BY <1>1 DEF ManageIntegration, InstallIntegration, InstallPlatform,
     InstallLookup, InstallCreate, ReconnectIntegration, ReconnectUpdate,
     DisconnectIntegration, DisconnectUpdate, SyncIntegration, SyncUpdate,
     UninstallIntegration, UninstallRevoke, UninstallDelete, GetByID, UpdateByID
<1>2. ASSUME NEW r \in Requests, Authorize(r) \/ Register(r) \/ Fail(r),
             ~ CallbackWithoutState(r), ~ CallbackExchange(r)
      PROVE  UNCHANGED exchanged
  BY <1>2 DEF Authorize, Register, Fail, BeginAuthorization, BeginClient,
     BeginCreate, CallbackWithState, ResolveAccount, ResolveConfig, ResolveID,
     CallbackPlatform, CallbackClient, CallbackLookup, CallbackActivate,
     CallbackCreate, CallbackToken, RegisterGet, RegisterCreate, RegisterUpdate,
     HandleIntegrationInstalled, InstalledConfig, InstalledCreate
<1>3. ASSUME NEW r \in Requests, CallbackWithoutState(r)
      PROVE  UNCHANGED exchanged \/ \E k \in Codes : Exchangeable(k) /\ Exchange(k)
  BY <1>3, Zenon DEF CallbackWithoutState
<1>4. ASSUME NEW r \in Requests, CallbackExchange(r)
      PROVE  UNCHANGED exchanged \/ \E k \in Codes : Exchangeable(k) /\ Exchange(k)
  <2>1. req[r].code \in Codes
    BY <1>0, <1>4, FieldTypes DEF CallbackExchange, At, WellFormed, CallbackPoints
  <2>. QED  BY <1>4, <2>1, Zenon DEF CallbackExchange
<1>5. CASE Environment \/ UNCHANGED vars
  BY <1>5 DEF Environment, StateExpires, SetClientStatus, DeleteClient,
     SetPlatformEnabled, vars
<1>. QED  BY <1>1, <1>2, <1>3, <1>4, <1>5, Zenon DEF Next, Environment

\* Exchanges are counted up, and by the step of one callback.
CountsUp == \A k \in Codes : exchanged'[k] >= exchanged[k]

LEMMA NextExchanges ==
    ASSUME TypeOK, [Next]_vars
    PROVE  /\ CountsUp
           /\ \/ \A t \in Requests : IsCallback(t) => KeepsExchange(t)
              \/ \E r \in Requests :
                   /\ IsCallback(r) /\ (Learns(r) \/ Trades(r))
                   /\ \A t \in Requests \ {r} : IsCallback(t) => KeepsExchange(t)
<1>0. exchanged \in [Codes -> Nat]
  BY DEF TypeOK, CredentialsOK
<1>1. ASSUME NEW t, req'[t] = req[t] PROVE KeepsExchange(t)
  BY <1>1 DEF KeepsExchange, Exchanged, ExchangedEarly, Stored, Registering,
     Ended, At, IsCallback
<1>2. CountsUp
  <2>1. CASE UNCHANGED exchanged
    BY <1>0, <2>1 DEF CountsUp
  <2>2. ASSUME NEW k \in Codes, Exchange(k) PROVE CountsUp
    BY <1>0, <2>2 DEF CountsUp, Exchange
  <2>. QED  BY <2>1, <2>2, OnlyExchanges, Zenon
<1>3. ASSUME NEW r \in Requests, ManageIntegration(r)
      PROVE  \A t \in Requests : IsCallback(t) => KeepsExchange(t)
  BY <1>1, <1>3, ManageMoves DEF Moves
<1>4. ASSUME NEW r \in Requests, Authorize(r) \/ Register(r) \/ Fail(r)
      PROVE  /\ \A t \in Requests \ {r} : IsCallback(t) => KeepsExchange(t)
             /\ IsCallback(r) => KeepsExchange(r) \/ Learns(r) \/ Trades(r)
  <2>1. \A t \in Requests \ {r} : IsCallback(t) => KeepsExchange(t)
    BY <1>1, <1>4, AuthorizeMoves, RegisterMoves DEF Moves
  <2>. QED  BY <1>4, <2>1, OwnExchange
<1>5. CASE Environment \/ UNCHANGED vars
  BY <1>1, <1>2, <1>5 DEF Environment, StateExpires, SetClientStatus, DeleteClient,
     SetPlatformEnabled, vars
<1>. QED  BY <1>2, <1>3, <1>4, <1>5, Zenon DEF Next, Environment

\* Each callback past an exchange had one of its own.
LEMMA ExchangesCountedNext ==
    ASSUME TypeOK, ExchangesCounted, [Next]_vars
    PROVE  ExchangesCounted'
<1>0. RequestsOK /\ exchanged \in [Codes -> Nat] /\ exchanged' \in [Codes -> Nat]
  BY NextType DEF TypeOK, CredentialsOK
<1>1. CountsUp
  BY NextExchanges
\* A callback that keeps its code keeps what is counted for it.
<1>2. ASSUME NEW t \in Requests, IsCallback(t), KeepsExchange(t)
      PROVE  /\ Exchanged(t)' =>
                  /\ Exchanged(t) /\ req'[t].code = req[t].code
                  /\ req'[t].state = req[t].state /\ req[t].code \in Codes
                  /\ exchanged'[req[t].code] >= exchanged[req[t].code]
             /\ ExchangedEarly(t)' => exchanged'[req'[t].code] > 0
  <2>1. Exchanged(t) => req[t].code \in Codes
    BY DEF ExchangesCounted
  <2>2. ExchangedEarly(t) => req[t].code \in Codes
    BY <1>0, <1>2, FieldTypes DEF ExchangedEarly, WellFormed, ResolvePoints,
       CallbackPoints
  <2>3. ASSUME NEW k \in Codes, exchanged[k] > 0 PROVE exchanged'[k] > 0
    BY <1>0, <1>1, <2>3 DEF CountsUp
  <2>. QED  BY <1>1, <1>2, <2>1, <2>2, <2>3
            DEF KeepsExchange, CountsUp, ExchangesCounted
\* One that trades its code has it counted, after the one without a state did.
<1>3. ASSUME NEW r \in Requests, IsCallback(r), Trades(r)
      PROVE  /\ req'[r].code = req[r].code /\ req[r].code \in Codes
             /\ exchanged'[req[r].code] = exchanged[req[r].code] + 1
             /\ req'[r].state = None => exchanged[req[r].code] > 0
  <2>1. req[r].state = None => ExchangedEarly(r)
    BY <1>3 DEF Trades, ExchangedEarly, At, CallbackPoints
  <2>. QED  BY <1>0, <1>3, <2>1 DEF Trades, Exchange, ExchangesCounted
<1>4. ASSUME NEW r \in Requests, IsCallback(r), Learns(r)
      PROVE  ~ Exchanged(r)' /\ exchanged'[req'[r].code] > 0
  BY <1>0, <1>4 DEF Learns, Exchange
<1>5. ASSUME NEW t \in Requests, IsCallback(t)
      PROVE  KeepsExchange(t) \/ Learns(t) \/ Trades(t)
  BY <1>5, NextExchanges
<1>6. ASSUME NEW t \in Requests, Exchanged(t)'
      PROVE  /\ req'[t].code \in Codes
             /\ exchanged'[req'[t].code] > IF req'[t].state = None THEN 1 ELSE 0
  <2>1. IsCallback(t)
    BY <1>6 DEF Exchanged, IsCallback
  <2>2. CASE KeepsExchange(t)
    <3>1. /\ Exchanged(t) /\ req'[t].code = req[t].code /\ req[t].code \in Codes
          /\ req'[t].state = req[t].state
          /\ exchanged'[req[t].code] >= exchanged[req[t].code]
      BY <1>2, <1>6, <2>1, <2>2
    <3>2. exchanged[req[t].code] > IF req[t].state = None THEN 1 ELSE 0
      BY <3>1 DEF ExchangesCounted
    <3>. QED  BY <1>0, <3>1, <3>2
  <2>3. CASE Trades(t)
    BY <1>0, <1>3, <2>1, <2>3
  <2>. QED  BY <1>4, <1>5, <1>6, <2>1, <2>2, <2>3
<1>7. ASSUME NEW t \in Requests, ExchangedEarly(t)'
      PROVE  exchanged'[req'[t].code] > 0
  <2>1. IsCallback(t)
    BY <1>7 DEF ExchangedEarly, IsCallback
  <2>2. CASE Trades(t)
    BY <1>0, <1>3, <2>1, <2>2
  <2>. QED  BY <1>2, <1>4, <1>5, <1>7, <2>1, <2>2
<1>8. ASSUME NEW q \in Requests, NEW r \in Requests, q # r, Exchanged(q)',
             Exchanged(r)', req'[q].code = req'[r].code
      PROVE  exchanged'[req'[r].code] > 1
  <2>1. IsCallback(q) /\ IsCallback(r)
    BY <1>8 DEF Exchanged, IsCallback
  <2>2. CASE KeepsExchange(q) /\ KeepsExchange(r)
    <3>1. /\ Exchanged(q) /\ Exchanged(r) /\ req[q].code = req[r].code
          /\ req'[r].code = req[r].code /\ req[r].code \in Codes
          /\ exchanged'[req[r].code] >= exchanged[req[r].code]
      BY <1>2, <1>8, <2>1, <2>2
    <3>2. exchanged[req[r].code] > 1
      BY <1>8, <3>1 DEF ExchangesCounted
    <3>. QED  BY <1>0, <3>1, <3>2
  <2>3. ASSUME NEW s \in Requests, NEW t \in Requests, IsCallback(s), IsCallback(t),
               Trades(s), KeepsExchange(t), Exchanged(t)',
               req'[s].code = req'[t].code
        PROVE  exchanged'[req'[s].code] > 1
    <3>1. /\ Exchanged(t) /\ req'[t].code = req[t].code /\ req[t].code \in Codes
          /\ exchanged'[req[t].code] = exchanged[req[t].code] + 1
      BY <1>2, <1>3, <2>3
    <3>2. exchanged[req[t].code] > 0
      BY <1>0, <3>1 DEF ExchangesCounted
    <3>. QED  BY <1>0, <2>3, <3>1, <3>2
  <2>4. KeepsExchange(q) \/ KeepsExchange(r)
    BY <1>8, <2>1, NextExchanges
  <2>5. ~ Learns(q) /\ ~ Learns(r)
    BY <1>4, <1>8, <2>1
  <2>6. CASE Trades(q) /\ KeepsExchange(r)
    BY <1>8, <2>1, <2>3, <2>6
  <2>7. CASE Trades(r) /\ KeepsExchange(q)
    BY <1>8, <2>1, <2>3, <2>7
  <2>. QED  BY <1>5, <2>1, <2>2, <2>4, <2>5, <2>6, <2>7
<1>. QED  BY <1>6, <1>7, <1>8 DEF ExchangesCounted

\* The count, as an invariant.
LEMMA ExchangesInvariant == Spec => []ExchangesCounted
<1>1. Init => ExchangesCounted
  BY DEF Init, ExchangesCounted, Exchanged, ExchangedEarly, ExchangedPoints, Stored,
     Registering, Ended, At, ResolvePoints, CallbackPoints
<1>2. TypeOK /\ ExchangesCounted /\ [Next]_vars => ExchangesCounted'
  BY ExchangesCountedNext
<1>. QED  BY <1>1, <1>2, TypeCorrect, PTL DEF Spec

\* One exchange of a code installs one integration, and the callback without a
\* state, which exchanges its code twice, never gets by with one (HandleCallback,
\* ProcessCallback): for any number of concurrent callbacks.
THEOREM CodesInstallOnce == Spec => []CodesServeOnce
<1>1. TypeOK /\ ExchangesCounted /\ TokensOwned => CodesServeOnce
  <2>. SUFFICES ASSUME TypeOK, ExchangesCounted, TokensOwned PROVE CodesServeOnce
    OBVIOUS
  <2>1. \A r \in Requests : Stored(r) => Exchanged(r)
    BY DEF Stored, Exchanged
  <2>2. ASSUME NEW i \in Ids, NEW j \in Ids, i # j, token[i] = token[j],
               token[i] # None
        PROVE  exchanged[token[i]] > 1
    <3>1. PICK q \in Requests : Stored(q) /\ req[q].id = i /\ req[q].code = token[i]
      BY <2>2 DEF TokensOwned
    <3>2. PICK r \in Requests : Stored(r) /\ req[r].id = j /\ req[r].code = token[j]
      BY <2>2 DEF TokensOwned
    <3>. QED  BY <2>1, <2>2, <3>1, <3>2 DEF ExchangesCounted
  <2>3. ASSUME NEW r \in Requests, Stored(r), req[r].state = None
        PROVE  exchanged[req[r].code] > 1
    BY <2>1, <2>3 DEF ExchangesCounted
  <2>. QED  BY <2>2, <2>3 DEF CodesServeOnce
<1>. QED  BY <1>1, TypeCorrect, TokensInvariant, ExchangesInvariant, PTL

\* While HighLevel exchanges a code once, as OAuth requires, a callback without a
\* state never installs anything: its own first exchange uses the code up.
THEOREM StatelessNeverInstalls ==
    SingleUseCodes => (Spec => [](\A r \in Requests : Stored(r) => req[r].state # None))
<1>. DEFINE Once == \A k \in Codes : exchanged[k] <= 1
            Stateful == \A r \in Requests : Stored(r) => req[r].state # None
<1>. SUFFICES ASSUME SingleUseCodes PROVE Spec => []Stateful
  OBVIOUS
<1>1. Init => Once
  BY DEF Init
<1>2. TypeOK /\ Once /\ [Next]_vars => Once'
  <2>. SUFFICES ASSUME TypeOK, Once, [Next]_vars PROVE Once'
    OBVIOUS
  <2>0. exchanged \in [Codes -> Nat]
    BY DEF TypeOK, CredentialsOK
  <2>1. CASE UNCHANGED exchanged
    BY <2>1
  <2>2. ASSUME NEW k \in Codes, Exchangeable(k), Exchange(k) PROVE Once'
    BY <2>0, <2>2 DEF Exchangeable, Exchange
  <2>. QED  BY <2>1, <2>2, OnlyExchanges
<1>3. TypeOK /\ ExchangesCounted /\ Once => Stateful
  BY DEF ExchangesCounted, Exchanged, Stored, TypeOK, CredentialsOK
<1>. QED  BY <1>1, <1>2, <1>3, TypeCorrect, ExchangesInvariant, PTL DEF Spec

-------------------------------------------------------------------------------
(* Rows, states and requests have known owners *)

\* The handlers that are not callbacks learn their owner from the request.
InstallPoints == {"install_platform", "install_lookup", "install_create",
                  "begin_client", "begin_create"}

\* They keep it until they create a row or a state for it.
LEMMA InstallerStep ==
    ASSUME TypeOK, OwnersKnown, NEW t \in Requests, ~ IsCallback(t),
           \/ ManageIntegration(t) \/ Authorize(t) \/ Register(t) \/ Fail(t),
           req'[t].pc \in InstallPoints
    PROVE  req'[t].client \in Clients /\ req'[t].platform \in Platforms
<1>0. RequestsOK
  BY DEF TypeOK
<1>a. req'[t].pc \in InstallPoints
  OBVIOUS
<1>b. /\ \A x : ~ Finish(t, x)
      /\ \A pc : Goto(t, pc) => req'[t].pc = pc
      /\ \A b, pc : Check(t, b, pc) => req'[t].pc = pc
  <2>1. \A x : ~ Finish(t, x)
    BY <1>0, <1>a, FinishEffect DEF InstallPoints
  <2>2. \A pc : Goto(t, pc) => req'[t].pc = pc
    BY <1>0, GotoEffect
  <2>. QED  BY <2>1, <2>2 DEF Check
<1>1. CASE req[t].pc \in InstallPoints /\ \E b, pc : Check(t, b, pc)
  <2>1. req[t].client \in Clients /\ req[t].platform \in Platforms
    BY <1>1 DEF OwnersKnown, OwnerPoints, InstallPoints
  <2>2. KeepsOwner(t)
    BY <1>0, <1>1, FieldsKept
  <2>. QED  BY <2>1, <2>2 DEF KeepsOwner
<1>2. CASE ManageIntegration(t)
  <2>1. CASE InstallIntegration(t)
    <3>1. ASSUME NEW c \in Clients, NEW p \in Platforms, NEW pc, NEW x, NEW l,
                 req' = [req EXCEPT ![t] =
                   [@ EXCEPT !.pc = pc, !.result = x,
                             !.client = c, !.platform = p, !.location = l]]
          PROVE  req'[t].client = c /\ req'[t].platform = p
      BY <1>0, <3>1 DEF RequestsOK, Request
    <3>2. PICK c \in Clients, p \in Platforms, l \in Locations \cup {None} :
            req' = [req EXCEPT ![t] =
                      [@ EXCEPT !.pc = IF clientStatus[c] = "ACTIVE"
                                       THEN "install_platform" ELSE "done",
                                !.result = IF clientStatus[c] = "ACTIVE"
                                           THEN "none" ELSE "err",
                                !.client = c, !.platform = p, !.location = l]]
      BY <2>1 DEF InstallIntegration
    <3>3. req'[t].client = c /\ req'[t].platform = p
      <4>1. CASE clientStatus[c] = "ACTIVE"
        BY <3>1, <3>2, <4>1
      <4>2. CASE clientStatus[c] # "ACTIVE"
        BY <3>1, <3>2, <4>2
      <4>. QED  BY <4>1, <4>2
    <3>. QED  BY <3>3
  <2>2. CASE InstallPlatform(t) \/ InstallLookup(t)
    BY <1>1, <2>2 DEF InstallPlatform, InstallLookup, At, InstallPoints
  <2>3. ~ InstallCreate(t)
    BY <1>0, <1>a, <1>b DEF InstallCreate, RequestsOK, Request, InstallPoints
  <2>4. ASSUME NEW op, NEW S,
               NEW next \in [S -> {"reconnect_update", "sync_update",
                                   "disconnect_update", "uninstall_revoke",
                                   "uninstall_delete"}],
               GetByID(t, op, next)
        PROVE  FALSE
    <3>1. \/ req'[t].pc = "done"
          \/ req'[t].pc \in {"reconnect_update", "sync_update",
                             "disconnect_update", "uninstall_revoke",
                             "uninstall_delete"}
      BY <1>0, <2>4, GetByIDEffect
    <3>. QED  BY <1>a, <3>1 DEF InstallPoints
  <2>5. /\ ~ ReconnectIntegration(t) /\ ~ SyncIntegration(t)
        /\ ~ DisconnectIntegration(t) /\ ~ UninstallIntegration(t)
    <3>. DEFINE S == {"CREATED", "ACTIVE", "REVOKED"}
                T == {"reconnect_update", "sync_update", "disconnect_update",
                      "uninstall_revoke", "uninstall_delete"}
    <3>1. /\ [s \in S |-> "disconnect_update"] \in [S -> T]
          /\ [s \in {"ACTIVE"} |-> "reconnect_update"] \in [{"ACTIVE"} -> T]
          /\ [s \in {"ACTIVE"} |-> "sync_update"] \in [{"ACTIVE"} -> T]
      OBVIOUS
    <3>2. [s \in S |-> IF s = "ACTIVE" THEN "uninstall_revoke"
                                       ELSE "uninstall_delete"] \in [S -> T]
      OBVIOUS
    <3>. QED  BY <2>4, <3>1, <3>2 DEF DisconnectIntegration,
              UninstallIntegration, ReconnectIntegration, SyncIntegration
  <2>. QED
    BY <1>a, <1>b, <1>2, <2>1, <2>2, <2>3, <2>5
    DEF ManageIntegration, ReconnectUpdate, DisconnectUpdate, SyncUpdate,
        UpdateByID, UninstallRevoke, UninstallDelete, InstallPoints
<1>3. CASE Authorize(t)
  <2>1. CASE BeginAuthorization(t)
    <3>1. ASSUME NEW c \in Clients, NEW p \in Platforms, NEW pc, NEW x,
                 req' = [req EXCEPT ![t] =
                   [@ EXCEPT !.pc = pc, !.result = x,
                             !.client = c, !.platform = p]]
          PROVE  req'[t].client = c /\ req'[t].platform = p
      BY <1>0, <3>1 DEF RequestsOK, Request
    <3>2. PICK c \in Clients, p \in Platforms :
            req' = [req EXCEPT ![t] =
                      [@ EXCEPT !.pc = IF platformEnabled[p]
                                       THEN "begin_client" ELSE "done",
                                !.result = IF platformEnabled[p]
                                           THEN "none" ELSE "err",
                                !.client = c, !.platform = p]]
      BY <2>1 DEF BeginAuthorization
    <3>3. req'[t].client = c /\ req'[t].platform = p
      <4>1. CASE platformEnabled[p]
        BY <3>1, <3>2, <4>1
      <4>2. CASE ~ platformEnabled[p]
        BY <3>1, <3>2, <4>2
      <4>. QED  BY <4>1, <4>2
    <3>. QED  BY <3>3
  <2>2. CASE BeginClient(t)
    BY <1>1, <2>2 DEF BeginClient, At, InstallPoints
  <2>3. ~ BeginCreate(t)
    BY <1>0, <1>a, <1>b DEF BeginCreate, RequestsOK, Request, InstallPoints
  <2>4. ~ CallbackWithState(t) /\ ~ CallbackWithoutState(t)
    BY DEF CallbackWithState, CallbackWithoutState, Arrives, IsCallback
  <2>5. ASSUME NEW i, Resolved(t, i) PROVE FALSE
    BY <1>0, <1>a, <2>5 DEF Resolved, RequestsOK, Request, IsCallback,
       InstallPoints
  <2>6. ~ ResolveAccount(t) /\ ~ ResolveID(t)
    BY <1>a, <1>b, <2>5 DEF ResolveAccount, ResolveID, InstallPoints
  <2>7. ~ ResolveConfig(t)
    BY <1>0, <1>a, <1>b DEF ResolveConfig, RequestsOK, Request, InstallPoints
  <2>8. req[t].pc \notin CallbackPoints
    BY <1>0, FieldTypes DEF WellFormed
  <2>9. /\ ~ CallbackPlatform(t) /\ ~ CallbackClient(t) /\ ~ CallbackExchange(t)
        /\ ~ CallbackLookup(t) /\ ~ CallbackActivate(t) /\ ~ CallbackCreate(t)
        /\ ~ CallbackToken(t)
    BY <2>8 DEF CallbackPlatform, CallbackClient, CallbackExchange,
       CallbackLookup, CallbackActivate, CallbackCreate, CallbackToken, At,
       CallbackPoints
  <2>. QED  BY <1>3, <2>1, <2>2, <2>3, <2>4, <2>6, <2>7, <2>9 DEF Authorize
<1>4. ~ Register(t) /\ ~ Fail(t)
  <2>1. ~ HandleIntegrationInstalled(t)
    BY <1>0, <1>a DEF HandleIntegrationInstalled, RequestsOK, Request,
       InstallPoints
  <2>. QED  BY <1>a, <1>b, <2>1 DEF Register, Fail, RegisterGet, RegisterCreate,
     RegisterUpdate, InstalledConfig, InstalledCreate, InstallPoints
<1>. QED  BY <1>2, <1>3, <1>4

\* Owners are passed on from requests to rows and states, and back.
LEMMA OwnersKnownNext ==
    ASSUME TypeOK, OwnersKnown, [Next]_vars
    PROVE  OwnersKnown'
<1>0. IntegrationsOK /\ StatesOK /\ RequestsOK /\ RequestsOK'
  BY NextType DEF TypeOK
<1>1. ASSUME NEW i \in Ids, integration'[i].status # "NONE"
      PROVE  integration'[i].client \in Clients /\ integration'[i].platform \in Platforms
  <2>1. CASE integration[i].status # "NONE"
    BY <2>1, NextRows, OwnerKept DEF OwnersKnown
  <2>2. ASSUME integration[i].status = "NONE", NEW j, NEW x,
               Exists(j), UpdateStatus(j, x)
        PROVE  FALSE
    BY <1>0, <1>1, <2>2, UpdateStatusEffect DEF Exists
  <2>3. ASSUME integration[i].status = "NONE",
               NEW r \in Requests, NEW j \in Ids, NEW a, NEW x,
               At(r, "install_create") \/ At(r, "callback_create"),
               CreateRow(j, req[r].client, req[r].platform, a, x)
        PROVE  /\ integration'[i].client \in Clients
               /\ integration'[i].platform \in Platforms
    <3>1. req[r].client \in Clients /\ req[r].platform \in Platforms
      BY <2>3 DEF OwnersKnown, OwnerPoints, CallbackPoints, At
    <3>2. i = j
      BY <1>0, <1>1, <2>3, CreateRowOwner
    <3>. QED  BY <1>0, <2>3, <3>1, <3>2, CreateRowOwner
  <2>. QED  BY <1>1, <2>1, <2>2, <2>3, NextRows DEF RowsStep
<1>2. ASSUME NEW s \in States
      PROVE  IF oauthState'[s].phase = "NONE" THEN oauthState'[s].client = None
             ELSE /\ oauthState'[s].client \in Clients
                  /\ oauthState'[s].platform \in Platforms
  <2>1. CASE oauthState'[s] = oauthState[s]
    BY <2>1 DEF OwnersKnown
  <2>2. ASSUME NEW r \in Requests, NEW t \in States, At(r, "begin_create"),
               oauthState' = [oauthState EXCEPT ![t] =
                                [phase |-> "open", client |-> req[r].client,
                                 platform |-> req[r].platform]], s = t
        PROVE  oauthState'[s].client \in Clients /\ oauthState'[s].platform \in Platforms
               /\ oauthState'[s].phase = "open"
    BY <1>0, <2>2 DEF OwnersKnown, OwnerPoints, At, StatesOK
  <2>3. ASSUME NEW t \in States, NEW x \in {"consumed", "expired"},
               oauthState[t].phase = "open",
               oauthState' = [oauthState EXCEPT ![t].phase = x], s = t
        PROVE  oauthState'[s].client \in Clients /\ oauthState'[s].platform \in Platforms
               /\ oauthState'[s].phase = x
    BY <1>0, <2>3 DEF OwnersKnown, StatesOK, OAuthStateRow
  <2>4. ASSUME NEW c \in Clients, DeleteClient(c), oauthState[s].client = c
        PROVE  oauthState'[s].client \in Clients /\ oauthState'[s].platform \in Platforms
               /\ oauthState'[s].phase = "DELETED"
    <3>1. oauthState[s].phase # "NONE"
      BY <2>4, ConstantsAssumption DEF OwnersKnown
    <3>. QED  BY <1>0, <2>4, <3>1 DEF OwnersKnown, DeleteClient, StatesOK, OAuthStateRow
  <2>5. ASSUME NEW t \in States, NEW q, oauthState' = [oauthState EXCEPT ![t] = q],
               s # t
        PROVE  oauthState'[s] = oauthState[s]
    BY <1>0, <2>5 DEF StatesOK
  <2>6. ASSUME NEW c \in Clients, DeleteClient(c), oauthState[s].client # c
        PROVE  oauthState'[s] = oauthState[s]
    BY <1>0, <2>6 DEF DeleteClient
  <2>7. CASE UNCHANGED oauthState
    BY <2>1, <2>7
  <2>8. ASSUME NEW r \in Requests, NEW t \in States, At(r, "begin_create"),
               oauthState' = [oauthState EXCEPT ![t] =
                                [phase |-> "open", client |-> req[r].client,
                                 platform |-> req[r].platform]]
        PROVE  IF oauthState'[s].phase = "NONE" THEN oauthState'[s].client = None
               ELSE /\ oauthState'[s].client \in Clients
                    /\ oauthState'[s].platform \in Platforms
    BY <2>1, <2>2, <2>5, <2>8
  <2>9. ASSUME NEW t \in States, NEW x \in {"consumed", "expired"},
               oauthState[t].phase = "open",
               oauthState' = [oauthState EXCEPT ![t].phase = x]
        PROVE  IF oauthState'[s].phase = "NONE" THEN oauthState'[s].client = None
               ELSE /\ oauthState'[s].client \in Clients
                    /\ oauthState'[s].platform \in Platforms
    BY <2>1, <2>3, <2>5, <2>9
  <2>. QED  BY <2>1, <2>4, <2>6, <2>7, <2>8, <2>9, NextStates
            DEF StatesStep, StateExpires, Consumable
<1>3. ASSUME NEW t \in Requests, req'[t].pc \in OwnerPoints
      PROVE  req'[t].client \in Clients /\ req'[t].platform \in Platforms
  <2>1. CASE req'[t] = req[t]
    BY <1>3, <2>1 DEF OwnersKnown
  <2>2. CASE IsCallback(t)
    <3>1. req'[t].pc \in CallbackPoints
      <4>1. WellFormed(t, req'[t])
        BY <1>0 DEF RequestsOK, WellFormed, IsCallback
      <4>2. req'[t].pc \in {"idle", "done"} \cup ResolvePoints \cup CallbackPoints
        BY <2>2, <4>1 DEF WellFormed
      <4>. QED  BY <1>3, <4>2 DEF OwnerPoints, ResolvePoints
    <3>2. CASE Proceeds(t)
      BY <3>1, <3>2 DEF Proceeds, KeepsOwner, OwnersKnown, OwnerPoints
    <3>3. ASSUME NEW s \in States, Redeems(t, s)
          PROVE  req'[t].client \in Clients /\ req'[t].platform \in Platforms
      BY <3>3 DEF Redeems, Consumable, OwnersKnown
    <3>4. ASSUME NEW i \in Ids, Adopts(t, i)
          PROVE  req'[t].client \in Clients /\ req'[t].platform \in Platforms
      BY <3>4 DEF Adopts, Exists, OwnersKnown
    <3>. QED  BY <2>1, <2>2, <3>2, <3>3, <3>4, NextBearers DEF BearerStep
  <2>3. CASE ~ IsCallback(t)
    <3>1. req'[t].pc \in InstallPoints
      <4>1. WellFormed(t, req'[t])
        BY <1>0 DEF RequestsOK, WellFormed, IsCallback
      <4>. QED  BY <1>3, <2>3, <4>1 DEF WellFormed, OwnerPoints, InstallPoints
    <3>2. ASSUME NEW r \in Requests, r # t,
                 ManageIntegration(r) \/ Authorize(r) \/ Register(r) \/ Fail(r)
          PROVE  req'[t] = req[t]
      BY <3>2, ManageMoves, AuthorizeMoves, RegisterMoves DEF Moves
    <3>3. CASE Environment \/ UNCHANGED vars
      BY <2>1, <3>3 DEF Environment, StateExpires, SetClientStatus,
         DeleteClient, SetPlatformEnabled, vars
    <3>. QED  BY <2>1, <2>3, <3>1, <3>2, <3>3, InstallerStep
              DEF Next, Environment
  <2>. QED  BY <2>2, <2>3
<1>. QED  BY <1>1, <1>2, <1>3 DEF OwnersKnown

-------------------------------------------------------------------------------
(* Installation implements Authorization *)

\* Nobody's owner changes: no callback's, no row's, no state's.
ActingKept ==
    \A r \in Requests : IsCallback(r) => /\ req'[r].client = req[r].client
                                         /\ req'[r].platform = req[r].platform
RowsKept ==
    \A i \in Ids : /\ Stage(i)' = Stage(i)
                   /\ Owner(integration[i].client, integration[i].platform)'
                        = Owner(integration[i].client, integration[i].platform)
StatesKept == UNCHANGED <<oauthState, redeemers>>

\* Then no abstract variable changes: not whom the callbacks act for,
LEMMA ActingView ==
    ASSUME ActingKept
    PROVE  [r \in Requests |->
               IF IsCallback(r) THEN Owner(req[r].client, req[r].platform)
                                ELSE None]'
             = [r \in Requests |->
                  IF IsCallback(r) THEN Owner(req[r].client, req[r].platform)
                                   ELSE None]
<1>1. \A r \in Requests :
        (IF IsCallback(r) THEN Owner(req[r].client, req[r].platform) ELSE None)'
          = IF IsCallback(r) THEN Owner(req[r].client, req[r].platform) ELSE None
  BY DEF ActingKept, Owner, IsCallback
<1>. QED  BY <1>1

\* nor what has become of the integrations and whose they are,
LEMMA RowsView ==
    ASSUME RowsKept
    PROVE  /\ [i \in Ids |-> Stage(i)]' = [i \in Ids |-> Stage(i)]
           /\ [i \in Ids |-> Owner(integration[i].client, integration[i].platform)]'
                = [i \in Ids |-> Owner(integration[i].client, integration[i].platform)]
  BY DEF RowsKept

\* nor what has become of the states and to whom they were issued.
LEMMA StatesView ==
    ASSUME StatesKept
    PROVE  /\ [s \in States |-> GrantPhase(s)]' = [s \in States |-> GrantPhase(s)]
           /\ [s \in States |-> Owner(oauthState[s].client, oauthState[s].platform)]'
                = [s \in States |-> Owner(oauthState[s].client, oauthState[s].platform)]
<1>1. \A s \in States : GrantPhase(s)' = GrantPhase(s)
  BY DEF StatesKept, GrantPhase
<1>2. \A s \in States :
         Owner(oauthState[s].client, oauthState[s].platform)'
           = Owner(oauthState[s].client, oauthState[s].platform)
  BY DEF StatesKept, Owner
<1>. QED  BY <1>1, <1>2

\* A step that changes none of them is a stutter.
LEMMA StutterStep ==
    ASSUME ActingKept, RowsKept, StatesKept, UNCHANGED token
    PROVE  UNCHANGED Abstract!vars
  BY ActingView, RowsView, StatesView DEF Abstract!vars

\* A handler that is no callback, or that keeps its owner, changes no owner.
LEMMA OwnActing ==
    ASSUME NEW r \in Requests, Moves(r), ~ IsCallback(r) \/ KeepsOwner(r)
    PROVE  ActingKept
  BY DEF Moves, ActingKept, KeepsOwner

\* An UPDATE of the status does not show.
LEMMA UpdateKeepsRows ==
    ASSUME TypeOK, NEW j, NEW x \in {"CREATED", "ACTIVE", "REVOKED"},
           Exists(j), UpdateStatus(j, x)
    PROVE  RowsKept
<1>0. IntegrationsOK
  BY DEF TypeOK
<1>1. ASSUME NEW i \in Ids
      PROVE  /\ integration'[i].status = IF i = j THEN x ELSE integration[i].status
             /\ integration'[i].client = integration[i].client
             /\ integration'[i].platform = integration[i].platform
  BY <1>0, UpdateStatusEffect, UpdateStatusOwner
<1>2. ASSUME NEW i \in Ids PROVE Stage(i)' = Stage(i)
  BY <1>1 DEF Stage, Exists
<1>. QED  BY <1>1, <1>2 DEF RowsKept, Owner

\* An unchanged table does not either.
LEMMA SameRows ==
    ASSUME UNCHANGED integration
    PROVE  RowsKept
  BY DEF RowsKept, Stage, Exists, Owner

\* The owner of a client and a platform that are known.
LEMMA KnownOwner ==
    ASSUME NEW c \in Clients, NEW p \in Platforms
    PROVE  Owner(c, p) = <<c, p>> /\ Owner(c, p) \in Clients \X Platforms
  BY ConstantsAssumption DEF Owner

\* The INSERT of an integration is Install.
LEMMA InstallStep ==
    ASSUME TypeOK, OwnersKnown, NEW c \in Clients, NEW p \in Platforms,
           NEW i \in Ids, NEW a, NEW x \in {"CREATED", "ACTIVE"},
           CanCreate(c, p), CreateRow(i, c, p, a, x),
           ActingKept, StatesKept, UNCHANGED token
    PROVE  Abstract!Install(i, <<c, p>>)
<1>0. IntegrationsOK
  BY DEF TypeOK
<1>1. /\ \A j \in Ids \ {i} : integration'[j] = integration[j]
      /\ integration'[i].client = c /\ integration'[i].platform = p
      /\ integration'[i].status = x
  BY <1>0, CreateRowOwner
<1>2. Stage(i) = "none"
  BY DEF CreateRow, Stage, Exists
<1>3. \A j \in Ids : Stage(j)' = IF j = i THEN "live" ELSE Stage(j)
  BY <1>1 DEF Stage, Exists
<1>4. \A j \in Ids : Owner(integration[j].client, integration[j].platform)'
                       = IF j = i THEN <<c, p>>
                         ELSE Owner(integration[j].client, integration[j].platform)
  BY <1>1, KnownOwner DEF Owner
<1>5. ASSUME NEW j \in Ids, Stage(j) = "live"
      PROVE  Owner(integration[j].client, integration[j].platform) # <<c, p>>
  <2>1. Exists(j)
    BY <1>5 DEF Stage
  <2>2. integration[j].client \in Clients /\ integration[j].platform \in Platforms
    BY <2>1 DEF Exists, OwnersKnown
  <2>3. integration[j].client # c \/ integration[j].platform # p
    BY <2>1 DEF CanCreate, RowsOf
  <2>. QED  BY <2>2, <2>3, KnownOwner
<1>6. [j \in Ids |-> Stage(j)]' = [[j \in Ids |-> Stage(j)] EXCEPT ![i] = "live"]
  BY <1>3
<1>7. [j \in Ids |-> Owner(integration[j].client, integration[j].platform)]'
        = [[j \in Ids |-> Owner(integration[j].client, integration[j].platform)]
             EXCEPT ![i] = <<c, p>>]
  BY <1>4
<1>. QED  BY <1>2, <1>5, <1>6, <1>7, ActingView, StatesView DEF Abstract!Install

\* The DELETE is Uninstall.
LEMMA UninstallStep ==
    ASSUME TypeOK, NEW i \in Ids, Exists(i), UpdateStatus(i, "DELETED"),
           token' = [token EXCEPT ![i] = None], ActingKept, StatesKept
    PROVE  Abstract!Uninstall(i)
<1>0. IntegrationsOK
  BY DEF TypeOK
<1>1. \A j \in Ids : 
        /\ integration'[j].status = IF j = i THEN "DELETED" ELSE integration[j].status
        /\ integration'[j].client = integration[j].client
        /\ integration'[j].platform = integration[j].platform
  BY <1>0, UpdateStatusEffect, UpdateStatusOwner
<1>2. \A j \in Ids : Stage(j)' = IF j = i THEN "gone" ELSE Stage(j)
  BY <1>1 DEF Stage, Exists
<1>3. \A j \in Ids : Owner(integration[j].client, integration[j].platform)'
                       = Owner(integration[j].client, integration[j].platform)
  BY <1>1 DEF Owner
<1>4. [j \in Ids |-> Stage(j)]' = [[j \in Ids |-> Stage(j)] EXCEPT ![i] = "gone"]
  BY <1>2
<1>5. [j \in Ids |-> Owner(integration[j].client, integration[j].platform)]'
        = [j \in Ids |-> Owner(integration[j].client, integration[j].platform)]
  BY <1>3
<1>6. Stage(i) = "live"
  BY DEF Stage
<1>. QED  BY <1>4, <1>5, <1>6, ActingView, StatesView DEF Abstract!Uninstall

\* The INSERT of the tokens is Authorize.
LEMMA AuthorizeStep ==
    ASSUME TypeOK, BearersBound, NEW r \in Requests, NEW i \in Ids,
           Moves(r), Stores(r, i)
    PROVE  Abstract!Authorize(i, r, req[r].code)
<1>1. ActsFor(r, i)
  BY DEF Stores, BearersBound
<1>2. Owner(req[r].client, req[r].platform)
        = Owner(integration[i].client, integration[i].platform)
  BY <1>1 DEF ActsFor
<1>3. ActingKept /\ RowsKept /\ StatesKept
  BY OwnActing, SameRows DEF Stores, StatesKept
<1>4. Stage(i) = "live"
  BY DEF Stores, CanStoreToken, Stage
<1>5. /\ IsCallback(r) /\ token[i] = None
      /\ token' = [token EXCEPT ![i] = req[r].code]
  BY DEF Stores, CanStoreToken
<1>. QED  BY <1>2, <1>3, <1>4, <1>5, ActingView, RowsView, StatesView
          DEF Abstract!Authorize

\* A callback that is bound acts for that owner from then on.
LEMMA BoundView ==
    ASSUME NEW r \in Requests, IsCallback(r), Moves(r), NEW o,
           Owner(req'[r].client, req'[r].platform) = o
    PROVE  [t \in Requests |->
               IF IsCallback(t) THEN Owner(req[t].client, req[t].platform)
                                ELSE None]'
             = [[t \in Requests |->
                   IF IsCallback(t) THEN Owner(req[t].client, req[t].platform)
                                    ELSE None] EXCEPT ![r] = o]
<1>1. \A t \in Requests :
        (IF IsCallback(t) THEN Owner(req[t].client, req[t].platform) ELSE None)'
          = IF t = r THEN o
            ELSE IF IsCallback(t) THEN Owner(req[t].client, req[t].platform)
            ELSE None
  BY DEF Moves, Owner, IsCallback
<1>. QED  BY <1>1

\* Resolving the location is Adopt.
LEMMA AdoptStep ==
    ASSUME BearersBound, NEW r \in Requests, NEW i \in Ids, IsCallback(r),
           Moves(r), Adopts(r, i)
    PROVE  Abstract!Adopt(r, i)
<1>1. Owner(req[r].client, req[r].platform) = None
  BY DEF BearersBound, Adopts, Unbound, Owner
<1>2. Owner(req'[r].client, req'[r].platform)
        = Owner(integration[i].client, integration[i].platform)
  BY DEF Adopts, Owner
<1>3. RowsKept /\ StatesKept /\ UNCHANGED token
  BY SameRows DEF Adopts, StatesKept
<1>4. Stage(i) = "live"
  BY DEF Adopts, Stage
<1>5. [t \in Requests |->
         IF IsCallback(t) THEN Owner(req[t].client, req[t].platform) ELSE None]'
        = [[t \in Requests |->
              IF IsCallback(t) THEN Owner(req[t].client, req[t].platform)
                               ELSE None]
             EXCEPT ![r] = Owner(integration[i].client, integration[i].platform)]
  BY <1>2, BoundView
<1>. QED  BY <1>1, <1>3, <1>4, <1>5, RowsView, StatesView DEF Abstract!Adopt

\* Consuming the state is Redeem.
LEMMA RedeemStep ==
    ASSUME TypeOK, BearersBound, NEW r \in Requests, NEW s \in States,
           IsCallback(r), Moves(r), Redeems(r, s)
    PROVE  Abstract!Redeem(r, s)
<1>0. StatesOK
  BY DEF TypeOK
<1>1. Owner(req[r].client, req[r].platform) = None
  BY DEF BearersBound, Redeems, Arrives, Unbound, Owner
<1>2. Owner(req'[r].client, req'[r].platform)
        = Owner(oauthState[s].client, oauthState[s].platform)
  BY DEF Redeems, Owner
<1>3. RowsKept /\ UNCHANGED token
  BY SameRows DEF Redeems
<1>4. GrantPhase(s) = "open"
  BY DEF Redeems, Consumable, GrantPhase
<1>5. \A t \in States :
        /\ oauthState'[t].phase = IF t = s THEN "consumed" ELSE oauthState[t].phase
        /\ oauthState'[t].client = oauthState[t].client
        /\ oauthState'[t].platform = oauthState[t].platform
        /\ redeemers'[t] = IF t = s THEN redeemers[s] \cup {r} ELSE redeemers[t]
  BY <1>0 DEF Redeems, StatesOK, OAuthStateRow
<1>6. \A t \in States : GrantPhase(t)' = IF t = s THEN "spent" ELSE GrantPhase(t)
  BY <1>5 DEF GrantPhase
<1>7. \A t \in States : Owner(oauthState[t].client, oauthState[t].platform)'
                          = Owner(oauthState[t].client, oauthState[t].platform)
  BY <1>5 DEF Owner
<1>8. [t \in States |-> GrantPhase(t)]'
        = [[t \in States |-> GrantPhase(t)] EXCEPT ![s] = "spent"]
  BY <1>6
<1>9. [t \in States |-> Owner(oauthState[t].client, oauthState[t].platform)]'
        = [t \in States |-> Owner(oauthState[t].client, oauthState[t].platform)]
  BY <1>7
<1>10. [t \in Requests |->
          IF IsCallback(t) THEN Owner(req[t].client, req[t].platform) ELSE None]'
         = [[t \in Requests |->
               IF IsCallback(t) THEN Owner(req[t].client, req[t].platform)
                                ELSE None]
              EXCEPT ![r] = Owner(oauthState[s].client, oauthState[s].platform)]
  BY <1>2, BoundView
<1>. QED  BY <1>1, <1>3, <1>4, <1>8, <1>9, <1>10, RowsView DEF Abstract!Redeem

\* The INSERT of a state is Issue.
LEMMA IssueStep ==
    ASSUME TypeOK, NEW c \in Clients, NEW p \in Platforms, NEW s \in States,
           oauthState[s].phase = "NONE",
           oauthState' = [oauthState EXCEPT ![s] =
                            [phase |-> "open", client |-> c, platform |-> p]],
           ActingKept, RowsKept, UNCHANGED <<redeemers, token>>
    PROVE  Abstract!Issue(s, <<c, p>>)
<1>0. StatesOK
  BY DEF TypeOK
<1>1. \A t \in States :
        oauthState'[t] = IF t = s
                         THEN [phase |-> "open", client |-> c, platform |-> p]
                         ELSE oauthState[t]
  BY <1>0 DEF StatesOK
<1>2. GrantPhase(s) = "none"
  BY DEF GrantPhase
<1>3. \A t \in States : GrantPhase(t)' = IF t = s THEN "open" ELSE GrantPhase(t)
  BY <1>1 DEF GrantPhase
<1>4. \A t \in States : Owner(oauthState[t].client, oauthState[t].platform)'
                          = IF t = s THEN <<c, p>>
                            ELSE Owner(oauthState[t].client, oauthState[t].platform)
  BY <1>1, KnownOwner DEF Owner
<1>5. [t \in States |-> GrantPhase(t)]'
        = [[t \in States |-> GrantPhase(t)] EXCEPT ![s] = "open"]
  BY <1>3
<1>6. [t \in States |-> Owner(oauthState[t].client, oauthState[t].platform)]'
        = [[t \in States |-> Owner(oauthState[t].client, oauthState[t].platform)]
             EXCEPT ![s] = <<c, p>>]
  BY <1>4
<1>. QED  BY <1>2, <1>5, <1>6, ActingView, RowsView DEF Abstract!Issue

\* States that expire, or go with their client, are Lapse.
LEMMA LapseStep ==
    ASSUME TypeOK, ConsumedStates, NEW lapsed \in SUBSET States,
           \A t \in States :
               /\ oauthState'[t].client = oauthState[t].client
               /\ oauthState'[t].platform = oauthState[t].platform
               /\ IF t \in lapsed
                  THEN /\ oauthState[t].phase = "open"
                       /\ oauthState'[t].phase \in {"expired", "DELETED"}
                  ELSE \/ oauthState'[t].phase = oauthState[t].phase
                       \/ /\ oauthState[t].phase \notin {"NONE", "open"}
                          /\ oauthState'[t].phase \notin {"NONE", "open"},
           ActingKept, RowsKept, UNCHANGED <<redeemers, token>>
    PROVE  Abstract!Lapse(lapsed)
<1>1. \A t \in lapsed : GrantPhase(t) = "open" /\ redeemers[t] = {}
  BY DEF GrantPhase, ConsumedStates
<1>2. \A t \in States : GrantPhase(t)' = IF t \in lapsed THEN "void" ELSE GrantPhase(t)
  <2>1. ASSUME NEW t \in lapsed PROVE GrantPhase(t)' = "void"
    BY <1>1, <2>1 DEF GrantPhase
  <2>2. ASSUME NEW t \in States, t \notin lapsed PROVE GrantPhase(t)' = GrantPhase(t)
    BY <2>2 DEF GrantPhase
  <2>. QED  BY <2>1, <2>2
<1>3. \A t \in States : Owner(oauthState[t].client, oauthState[t].platform)'
                          = Owner(oauthState[t].client, oauthState[t].platform)
  BY DEF Owner
<1>4. [t \in States |-> GrantPhase(t)]'
        = [t \in States |-> IF t \in lapsed THEN "void"
                            ELSE [u \in States |-> GrantPhase(u)][t]]
  BY <1>2
<1>5. [t \in States |-> Owner(oauthState[t].client, oauthState[t].platform)]'
        = [t \in States |-> Owner(oauthState[t].client, oauthState[t].platform)]
  BY <1>3
<1>. QED  BY <1>1, <1>4, <1>5, ActingView, RowsView DEF Abstract!Lapse

\* The RPCs of integrations_service.go implement Install and Uninstall.
LEMMA ManageImplements ==
    ASSUME TypeOK, OwnersKnown, NEW r \in Requests, ManageIntegration(r)
    PROVE  [Abstract!Next]_(Abstract!vars)
<1>0. /\ ActingKept
      /\ StatesKept
  <2>1. ActingKept
    BY ManageMoves, OwnActing
  <2>2. StatesKept
    BY DEF ManageIntegration, InstallIntegration, InstallPlatform,
       InstallLookup, InstallCreate, ReconnectIntegration, ReconnectUpdate,
       DisconnectIntegration, DisconnectUpdate, SyncIntegration, SyncUpdate,
       UninstallIntegration, UninstallRevoke, UninstallDelete, GetByID,
       UpdateByID, StatesKept
  <2>. QED  BY <2>1, <2>2
<1>1. CASE UNCHANGED <<integration, token>>
  BY <1>0, <1>1, SameRows, StutterStep
<1>2. CASE InstallCreate(r)
  <2>1. req[r].client \in Clients /\ req[r].platform \in Platforms
    BY <1>2 DEF InstallCreate, At, OwnersKnown, OwnerPoints
  <2>2. ASSUME NEW i \in Ids, CanCreate(req[r].client, req[r].platform),
               CreateRow(i, req[r].client, req[r].platform, req[r].location,
                         "CREATED"),
               UNCHANGED token
        PROVE  Abstract!Next
    <3>1. Abstract!Install(i, <<req[r].client, req[r].platform>>)
      BY <1>0, <2>1, <2>2, InstallStep
    <3>. QED  BY <2>1, <3>1 DEF Abstract!Next
  <2>. QED  BY <1>1, <1>2, <2>2 DEF InstallCreate
<1>3. CASE \/ ReconnectUpdate(r) \/ DisconnectUpdate(r) \/ SyncUpdate(r)
           \/ UninstallRevoke(r)
  <2>1. ASSUME NEW x \in {"CREATED", "ACTIVE", "REVOKED"}, Exists(req[r].id),
               UpdateStatus(req[r].id, x), UNCHANGED token
        PROVE  UNCHANGED Abstract!vars
    BY <1>0, <2>1, UpdateKeepsRows, StutterStep
  <2>. QED  BY <1>1, <1>3, <2>1 DEF ReconnectUpdate, DisconnectUpdate,
            SyncUpdate, UpdateByID, UninstallRevoke
<1>4. CASE UninstallDelete(r)
  <2>1. req[r].id \in Ids
    BY <1>4, FieldTypes DEF TypeOK, UninstallDelete, At, WellFormed, IdPoints
  <2>2. CASE Exists(req[r].id)
    <3>1. Abstract!Uninstall(req[r].id)
      BY <1>0, <1>4, <2>1, <2>2, UninstallStep DEF UninstallDelete
    <3>. QED  BY <2>1, <3>1 DEF Abstract!Next
  <2>. QED  BY <1>1, <1>4, <2>2 DEF UninstallDelete
<1>. QED
  BY <1>1, <1>2, <1>3, <1>4 DEF ManageIntegration, InstallIntegration,
     InstallPlatform, InstallLookup, ReconnectIntegration, GetByID,
     DisconnectIntegration, SyncIntegration, UninstallIntegration

\* The OAuth flow implements Issue, Redeem, Adopt, Install and Authorize.
LEMMA AuthorizeImplements ==
    ASSUME TypeOK, BearersBound, OwnersKnown, NEW r \in Requests, Authorize(r)
    PROVE  [Abstract!Next]_(Abstract!vars)
<1>0. RequestsOK /\ Moves(r)
  BY AuthorizeMoves DEF TypeOK
<1>1. ASSUME ActingKept, UNCHANGED <<oauthState, redeemers, integration, token>>
      PROVE  UNCHANGED Abstract!vars
  BY <1>1, SameRows, StutterStep DEF StatesKept
<1>2. CASE BeginAuthorization(r) \/ BeginClient(r) \/ BeginCreate(r)
  <2>1. ActingKept
    BY <1>0, <1>2, NotCallback, OwnActing
  <2>2. ASSUME BeginCreate(r) PROVE [Abstract!Next]_(Abstract!vars)
    <3>1. req[r].client \in Clients /\ req[r].platform \in Platforms
      BY <2>2 DEF BeginCreate, At, OwnersKnown, OwnerPoints
    <3>2. ASSUME NEW s \in States, oauthState[s].phase = "NONE",
                 oauthState' = [oauthState EXCEPT ![s] =
                                  [phase |-> "open", client |-> req[r].client,
                                   platform |-> req[r].platform]],
                 UNCHANGED <<integration, redeemers, token>>
          PROVE  Abstract!Next
      <4>1. Abstract!Issue(s, <<req[r].client, req[r].platform>>)
        BY <2>1, <3>1, <3>2, SameRows, IssueStep
      <4>. QED  BY <3>1, <4>1 DEF Abstract!Next
    <3>. QED  BY <1>1, <2>1, <2>2, <3>2 DEF BeginCreate
  <2>. QED  BY <1>1, <1>2, <2>1, <2>2 DEF BeginAuthorization, BeginClient
<1>3. CASE CallbackWithState(r) \/ CallbackWithoutState(r)
  <2>1. IsCallback(r) /\ UNCHANGED <<integration, token>>
    BY <1>3 DEF CallbackWithState, CallbackWithoutState, Arrives, IsCallback
  <2>2. ASSUME NEW s \in States, Redeems(r, s) PROVE Abstract!Next
    <3>1. Abstract!Redeem(r, s)
      BY <1>0, <2>1, <2>2, RedeemStep
    <3>. QED  BY <3>1 DEF Abstract!Next
  <2>3. ASSUME Proceeds(r), UNCHANGED <<oauthState, redeemers>>
        PROVE  UNCHANGED Abstract!vars
    BY <1>0, <1>1, <2>1, <2>3, OwnActing DEF Proceeds
  <2>. QED  BY <1>3, <2>2, <2>3, StartStep
<1>4. CASE ResolveAccount(r) \/ ResolveConfig(r) \/ ResolveID(r)
  <2>1. UNCHANGED <<oauthState, redeemers, integration, token>>
    BY <1>4 DEF ResolveAccount, ResolveConfig, ResolveID
  <2>2. ASSUME NEW i \in Ids, IsCallback(r), Adopts(r, i) PROVE Abstract!Next
    <3>1. Abstract!Adopt(r, i)
      BY <1>0, <2>2, AdoptStep
    <3>. QED  BY <3>1 DEF Abstract!Next
  <2>3. ASSUME ~ IsCallback(r) \/ Proceeds(r) PROVE UNCHANGED Abstract!vars
    BY <1>0, <1>1, <2>1, <2>3, OwnActing DEF Proceeds
  <2>. QED  BY <1>4, <2>2, <2>3, ResolveStep
<1>5. CASE \/ CallbackPlatform(r) \/ CallbackClient(r) \/ CallbackExchange(r)
           \/ CallbackLookup(r) \/ CallbackActivate(r) \/ CallbackCreate(r)
           \/ CallbackToken(r)
  <2>1. ActingKept
    BY <1>0, <1>5, ProcessStep, OwnActing DEF Proceeds
  <2>2. CASE \/ CallbackPlatform(r) \/ CallbackClient(r) \/ CallbackExchange(r)
             \/ CallbackLookup(r)
    BY <1>1, <2>1, <2>2 DEF CallbackPlatform, CallbackClient, CallbackExchange,
       CallbackLookup
  <2>3. CASE CallbackActivate(r)
    <3>1. CASE Exists(req[r].id)
      <4>1. /\ UpdateStatus(req[r].id, "ACTIVE")
            /\ UNCHANGED <<oauthState, redeemers, token>>
        BY <2>3, <3>1 DEF CallbackActivate
      <4>. QED  BY <2>1, <3>1, <4>1, UpdateKeepsRows, StutterStep DEF StatesKept
    <3>. QED  BY <1>1, <2>1, <2>3, <3>1 DEF CallbackActivate
  <2>4. CASE CallbackCreate(r)
    <3>1. req[r].client \in Clients /\ req[r].platform \in Platforms
      BY <2>4 DEF CallbackCreate, At, OwnersKnown, OwnerPoints, CallbackPoints
    <3>2. ASSUME NEW i \in Ids, CanCreate(req[r].client, req[r].platform),
                 CreateRow(i, req[r].client, req[r].platform, User, "ACTIVE"),
                 UNCHANGED <<token, oauthState, redeemers>>
          PROVE  Abstract!Next
      <4>1. Abstract!Install(i, <<req[r].client, req[r].platform>>)
        BY <2>1, <3>1, <3>2, InstallStep DEF StatesKept
      <4>. QED  BY <3>1, <4>1 DEF Abstract!Next
    <3>. QED  BY <1>1, <2>1, <2>4, <3>2 DEF CallbackCreate
  <2>5. CASE CallbackToken(r)
    <3>1. req[r].id \in Ids /\ req[r].code \in Codes
      BY <1>0, <2>5, FieldTypes
      DEF CallbackToken, At, WellFormed, IdPoints, CallbackPoints
    <3>2. CASE CanStoreToken(req[r].id)
      <4>1. Abstract!Authorize(req[r].id, r, req[r].code)
        BY <1>0, <2>5, <3>1, <3>2, StoresStep, AuthorizeStep
      <4>. QED  BY <3>1, <4>1 DEF Abstract!Next
    <3>. QED  BY <1>1, <2>1, <2>5, <3>2 DEF CallbackToken
  <2>. QED  BY <1>5, <2>2, <2>3, <2>4, <2>5
<1>. QED  BY <1>2, <1>3, <1>4, <1>5 DEF Authorize

\* Registering the provider, and failing, do not show.
LEMMA RegisterImplements ==
    ASSUME TypeOK, NEW r \in Requests, Register(r) \/ Fail(r)
    PROVE  UNCHANGED Abstract!vars
<1>0. RequestsOK /\ Moves(r)
  BY RegisterMoves DEF TypeOK
<1>1. UNCHANGED <<oauthState, redeemers, integration, token>>
  BY DEF Register, Fail, RegisterGet, RegisterCreate, RegisterUpdate,
     HandleIntegrationInstalled, InstalledConfig, InstalledCreate
<1>2. ~ IsCallback(r) \/ Proceeds(r)
  BY <1>0, NotCallback, RegisterStep DEF Register
<1>. QED  BY <1>0, <1>1, <1>2, OwnActing, SameRows, StutterStep
          DEF Proceeds, StatesKept

\* The clock and the other RPCs implement Lapse.
LEMMA EnvironmentImplements ==
    ASSUME TypeOK, ConsumedStates, OwnersKnown, Environment
    PROVE  [Abstract!Next]_(Abstract!vars)
<1>0. /\ StatesOK /\ ActingKept /\ RowsKept
      /\ UNCHANGED <<redeemers, token>>
  <2>1. UNCHANGED <<req, integration, redeemers, token>>
    BY DEF Environment, StateExpires, SetClientStatus, DeleteClient,
       SetPlatformEnabled
  <2>. QED  BY <2>1, SameRows DEF TypeOK, ActingKept
<1>1. ASSUME NEW s \in States, StateExpires(s) PROVE Abstract!Next
  <2>1. \A t \in States :
          /\ oauthState'[t].client = oauthState[t].client
          /\ oauthState'[t].platform = oauthState[t].platform
          /\ IF t \in {s}
             THEN /\ oauthState[t].phase = "open"
                  /\ oauthState'[t].phase = "expired"
             ELSE oauthState'[t].phase = oauthState[t].phase
    BY <1>0, <1>1 DEF StateExpires, StatesOK, OAuthStateRow
  <2>2. Abstract!Lapse({s})
    BY <1>0, <2>1, LapseStep
  <2>. QED  BY <2>2 DEF Abstract!Next
<1>2. ASSUME NEW c \in Clients, DeleteClient(c) PROVE Abstract!Next
  <2>. DEFINE lapsed == {t \in States : /\ oauthState[t].phase = "open"
                                        /\ oauthState[t].client = c}
  <2>1. \A t \in States :
          /\ oauthState'[t].client = oauthState[t].client
          /\ oauthState'[t].platform = oauthState[t].platform
          /\ oauthState'[t].phase = IF oauthState[t].client = c THEN "DELETED"
                                    ELSE oauthState[t].phase
    BY <1>0, <1>2 DEF DeleteClient, StatesOK, OAuthStateRow
  <2>2. \A t \in States : oauthState[t].client = c => oauthState[t].phase # "NONE"
    BY ConstantsAssumption DEF OwnersKnown
  <2>3. \A t \in States :
          /\ oauthState'[t].client = oauthState[t].client
          /\ oauthState'[t].platform = oauthState[t].platform
          /\ IF t \in lapsed
             THEN /\ oauthState[t].phase = "open"
                  /\ oauthState'[t].phase \in {"expired", "DELETED"}
             ELSE \/ oauthState'[t].phase = oauthState[t].phase
                  \/ /\ oauthState[t].phase \notin {"NONE", "open"}
                     /\ oauthState'[t].phase \notin {"NONE", "open"}
    BY <2>1, <2>2
  <2>4. lapsed \in SUBSET States
    OBVIOUS
  <2>. HIDE DEF lapsed
  <2>5. Abstract!Lapse(lapsed)
    BY <1>0, <2>3, <2>4, LapseStep
  <2>. QED  BY <2>4, <2>5 DEF Abstract!Next
<1>3. ASSUME UNCHANGED oauthState PROVE UNCHANGED Abstract!vars
  BY <1>0, <1>3, StutterStep DEF StatesKept
<1>. QED  BY <1>1, <1>2, <1>3 DEF Environment, SetClientStatus, SetPlatformEnabled

\* Before anything happened there are no grants and no integrations.
LEMMA InitImplements == Init => Abstract!Init
<1>. SUFFICES ASSUME Init PROVE Abstract!Init
  OBVIOUS
<1>1. \A s \in States :
        /\ GrantPhase(s) = "none"
        /\ Owner(oauthState[s].client, oauthState[s].platform) = None
  BY DEF Init, GrantPhase, Owner
<1>2. \A i \in Ids :
        /\ Stage(i) = "none"
        /\ Owner(integration[i].client, integration[i].platform) = None
  BY DEF Init, Stage, Exists, Owner
<1>3. \A r \in Requests :
        (IF IsCallback(r) THEN Owner(req[r].client, req[r].platform) ELSE None) = None
  BY DEF Init, Owner
<1>4. token = [i \in Ids |-> None]
  BY DEF Init
<1>. QED  BY <1>1, <1>2, <1>3, <1>4 DEF Abstract!Init

\* All the statements of the handlers, in any interleaving and with failures
\* between any two of them, do only what Authorization allows: a callback acts
\* for the one owner that its state or its location gave it, and an integration
\* gets its credentials once, from a callback that acts for its owner.
THEOREM InstallationImplementsAuthorization == Spec => ImplementsAuthorization
<1>. DEFINE J == TypeOK /\ ConsumedStates /\ BearersBound
<1>1. Init => OwnersKnown
  BY DEF Init, OwnersKnown, OwnerPoints, CallbackPoints
<1>2. J /\ OwnersKnown /\ [Next]_vars => OwnersKnown'
  BY OwnersKnownNext
<1>3. J /\ OwnersKnown /\ [Next]_vars => [Abstract!Next]_(Abstract!vars)
  <2>. SUFFICES ASSUME J, OwnersKnown, [Next]_vars
                PROVE  [Abstract!Next]_(Abstract!vars)
    OBVIOUS
  <2>1. CASE UNCHANGED vars
    <3>1. ActingKept /\ RowsKept /\ StatesKept /\ UNCHANGED token
      BY <2>1, SameRows DEF vars, ActingKept, StatesKept
    <3>. QED  BY <3>1, StutterStep
  <2>2. ASSUME NEW r \in Requests,
               ManageIntegration(r) \/ Authorize(r) \/ Register(r) \/ Fail(r)
        PROVE  [Abstract!Next]_(Abstract!vars)
    BY <2>2, ManageImplements, AuthorizeImplements, RegisterImplements
  <2>. QED  BY <2>1, <2>2, EnvironmentImplements DEF Next, Environment
<1>. QED  BY <1>1, <1>2, <1>3, InitImplements, TypeCorrect, BearersInvariant, PTL
          DEF Spec, ImplementsAuthorization, Abstract!Spec
===============================================================================
