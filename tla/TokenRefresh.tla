----------------------------- MODULE TokenRefresh -----------------------------
(***************************************************************************)
(* RefreshAccessToken of the OAuth service, run by any number of callers   *)
(* at once, while integrations are disconnected, reconnected and           *)
(* uninstalled.                                                            *)
(*                                                                         *)
(* HighLevel rotates refresh tokens: each is good for one refresh, which   *)
(* issues the next.  The tokens of one authorization are therefore a       *)
(* sequence, and a refresh token is its number in it.  Nothing in the      *)
(* service keeps two refreshes of one integration apart: the status, the   *)
(* token row, the call to HighLevel and the UPDATE are separate steps.     *)
(* ValidateToken writes nothing and is left out.                           *)
(***************************************************************************)
EXTENDS Naturals

CONSTANTS
    Integrations,  \* ids; the token row of an integration is written once by
                   \* the OAuth callback and then only by refreshes
    Calls,         \* the calls of RefreshAccessToken
    None

ASSUME RefreshAssumption == None \notin Integrations \cup Nat

VARIABLES
    status,   \* integrations.status
    stored,   \* oauth_tokens.refresh_token, 0 when there is no row
    current,  \* the refresh token HighLevel accepts
    call,     \* the calls
    dropped   \* history: was a token lost after HighLevel had issued it?

vars == <<status, stored, current, call, dropped>>

-------------------------------------------------------------------------------
Statuses == {"none", "CREATED", "ACTIVE", "REVOKED", "deleted"}
Codes == {"none", "OK", "NotFound", "NotActive", "RefreshFailed", "Internal"}

\* `token` is the refresh token the call has read, and after the answer of
\* HighLevel the one it was given.
CallState ==
    [pc    : {"idle", "read", "refresh", "store", "done"},
     id    : Integrations \cup {None},
     token : Nat,
     code  : Codes]

\* Token rows hang on their integrations (ON DELETE CASCADE), and no call
\* holds a token that HighLevel has not issued.
TypeOK ==
    /\ status \in [Integrations -> Statuses]
    /\ stored \in [Integrations -> Nat]
    /\ current \in [Integrations -> Nat]
    /\ \A i \in Integrations : status[i] \in {"none", "deleted"} => stored[i] = 0
    /\ call \in [Calls -> CallState]
    /\ \A c \in Calls : call[c].pc # "idle" =>
         call[c].id \in Integrations /\ call[c].token <= current[call[c].id]
    /\ dropped \in [Integrations -> BOOLEAN]

Init ==
    /\ status = [i \in Integrations |-> "none"]
    /\ stored = [i \in Integrations |-> 0]
    /\ current = [i \in Integrations |-> 0]
    /\ call = [c \in Calls |-> [pc |-> "idle", id |-> None, token |-> 0,
                                code |-> "none"]]
    /\ dropped = [i \in Integrations |-> FALSE]

-------------------------------------------------------------------------------
(* The life of an integration, as far as its token goes; the steps are those *)
(* of Installation.tla.                                                      *)

HasRow(i) == stored[i] # 0
Present(i) == status[i] \notin {"none", "deleted"}

\* Mutant: the callback replaces the tokens that are there.
AuthorizeAgain(i) ==
    /\ status[i] # "deleted"
    /\ status' = [status EXCEPT ![i] = "ACTIVE"]
    /\ stored' = [stored EXCEPT ![i] = current[i] + 1]
    /\ current' = [current EXCEPT ![i] = @ + 1]
    /\ UNCHANGED <<call, dropped>>

\* The OAuth callback; for an integration that has a token row its INSERT fails.
Authorize(i) ==
    /\ status[i] = "none"
    /\ status' = [status EXCEPT ![i] = "ACTIVE"]
    /\ stored' = [stored EXCEPT ![i] = 1]
    /\ current' = [current EXCEPT ![i] = 1]
    /\ UNCHANGED <<call, dropped>>

SetStatus(i, s) ==
    /\ Present(i)
    /\ status' = [status EXCEPT ![i] = s]
    /\ UNCHANGED <<stored, current, call, dropped>>

Uninstall(i) ==
    /\ Present(i)
    /\ status' = [status EXCEPT ![i] = "deleted"]
    /\ stored' = [stored EXCEPT ![i] = 0]
    /\ UNCHANGED <<current, call, dropped>>

-------------------------------------------------------------------------------
(* RefreshAccessToken *)

At(c, pc) == call[c].pc = pc
Answer(c, code) == call' = [call EXCEPT ![c].pc = "done", ![c].code = code]
Hold(c, pc, t) == call' = [call EXCEPT ![c].pc = pc, ![c].token = t]

RefreshAccessToken(c) ==
    /\ At(c, "idle")
    /\ \E i \in Integrations :
         call' = [call EXCEPT ![c] =
                    [pc    |-> IF status[i] = "ACTIVE" THEN "read" ELSE "done",
                     id    |-> i,
                     token |-> 0,
                     code  |-> IF status[i] = "ACTIVE" THEN "none"
                               ELSE IF Present(i) THEN "NotActive" ELSE "NotFound"]]
    /\ UNCHANGED <<status, stored, current, dropped>>

\* GetByIntegrationID, then the platform and its provider.
RefreshRead(c) ==
    LET i == call[c].id IN
    /\ At(c, "read")
    /\ \/ HasRow(i) /\ Hold(c, "refresh", stored[i])
       \/ ~ HasRow(i) /\ Answer(c, "NotFound")
    /\ UNCHANGED <<status, stored, current, dropped>>

\* HighLevel rotates the token, or refuses one that was used before.  Its 200 is
\* taken to carry a refreshToken, as its contract says; RefreshToken does not look,
\* and would store a blank one.
Rotate(c) ==
    LET i == call[c].id IN
    /\ At(c, "refresh") /\ call[c].token = current[i]
    /\ current' = [current EXCEPT ![i] = @ + 1]
    /\ \/ Hold(c, "store", current[i] + 1) /\ UNCHANGED dropped
       \/ \* the answer is lost, or is not the JSON that was expected
          /\ Answer(c, "RefreshFailed")
          /\ dropped' = [dropped EXCEPT ![i] = TRUE]
    /\ UNCHANGED <<status, stored>>

Refused(c) ==
    /\ At(c, "refresh") /\ call[c].token # current[call[c].id]
    /\ Answer(c, "RefreshFailed")
    /\ UNCHANGED <<status, stored, current, dropped>>

\* Mutant: an upsert.
StoreUpsert(c) ==
    /\ At(c, "store")
    /\ stored' = [stored EXCEPT ![call[c].id] = call[c].token]
    /\ Answer(c, "OK")
    /\ UNCHANGED <<status, current, dropped>>

\* Mutant: only the access token is written.
StoreAccessToken(c) ==
    /\ At(c, "store")
    /\ Answer(c, IF HasRow(call[c].id) THEN "OK" ELSE "NotFound")
    /\ UNCHANGED <<status, stored, current, dropped>>

\* UPDATE oauth_tokens ... WHERE id, the row that was read: it is there or gone.
Store(c) ==
    LET i == call[c].id IN
    /\ At(c, "store")
    /\ \/ /\ HasRow(i)
          /\ stored' = [stored EXCEPT ![i] = call[c].token]
          /\ Answer(c, "OK")
       \/ ~ HasRow(i) /\ Answer(c, "NotFound") /\ UNCHANGED stored
    /\ UNCHANGED <<status, current, dropped>>

\* Mutant: the error of the UPDATE is not looked at.
FailIgnored(c) ==
    /\ ~ At(c, "idle") /\ ~ At(c, "done")
    /\ Answer(c, IF At(c, "store") THEN "OK" ELSE "Internal")
    /\ dropped' = [dropped EXCEPT ![call[c].id] = @ \/ At(c, "store")]
    /\ UNCHANGED <<status, stored, current>>

\* A statement fails, or the caller's context ends; after the answer of
\* HighLevel that loses the new token.  (An UPDATE that commits and whose answer is
\* lost is left out: it stores the token and reports less than was done.)
Fail(c) ==
    /\ ~ At(c, "idle") /\ ~ At(c, "done")
    /\ Answer(c, IF At(c, "refresh") THEN "RefreshFailed" ELSE "Internal")
    /\ dropped' = [dropped EXCEPT ![call[c].id] = @ \/ At(c, "store")]
    /\ UNCHANGED <<status, stored, current>>

-------------------------------------------------------------------------------
Next ==
    \/ \E i \in Integrations :
         \/ Authorize(i) \/ Uninstall(i)
         \/ \E s \in {"CREATED", "ACTIVE", "REVOKED"} : SetStatus(i, s)
    \/ \E c \in Calls :
         \/ RefreshAccessToken(c) \/ RefreshRead(c) \/ Rotate(c) \/ Refused(c)
         \/ Store(c) \/ Fail(c)

Spec == Init /\ [][Next]_vars

-------------------------------------------------------------------------------
(* Correctness *)

\* The token HighLevel accepts is in the database, or on its way there, unless
\* a failed call took it away; concurrent refreshes alone never lose it.
CurrentTokenIsKept ==
    \A i \in Integrations :
        HasRow(i) /\ ~ dropped[i] =>
            \/ stored[i] = current[i]
            \/ \E c \in Calls : At(c, "store") /\ call[c].id = i
                                /\ call[c].token = current[i]

\* What a successful refresh has stored is never overwritten by an older token
\* of a slower one.
SuccessIsStored ==
    \A c \in Calls :
        LET i == call[c].id IN
        call[c].code = "OK" => ~ HasRow(i) \/ stored[i] >= call[c].token

\* A token that was lost is lost for good: no later refresh succeeds, and the
\* integration has to be installed anew.
LossIsFinal ==
    [][\A i \in Integrations :
          dropped[i] /\ HasRow(i) => stored'[i] \in {0, stored[i]}]_vars

\* The abstract state of TokenCustody: the token HighLevel accepts is in the row,
\* or in the hands of a call that is about to store it.
Held(i) ==
    \/ stored[i] = current[i]
    \/ \E c \in Calls : At(c, "store") /\ call[c].id = i /\ call[c].token = current[i]

Custody(i) ==
    CASE status[i] = "none" -> "none"
      [] status[i] # "none" /\ ~ HasRow(i) -> "gone"
      [] OTHER -> IF Held(i) THEN "held" ELSE "lost"

Outcome(c) ==
    CASE call[c].code = "none" -> "none"
      [] call[c].code = "OK" -> "ok"
      [] OTHER -> "failed"

Custodies == [i \in Integrations |-> Custody(i)]
Outcomes == [c \in Calls |-> Outcome(c)]

Keeper == INSTANCE TokenCustody WITH
    custody <- Custodies, newest <- current, outcome <- Outcomes

\* Any number of refreshes that overlap, fail at any point and meet an uninstall
\* do together what TokenCustody allows: one of them succeeds only while the newest
\* token is held, only a refresh that fails loses it, and then nothing renews it.
ImplementsTokenCustody == Keeper!Spec

-------------------------------------------------------------------------------
(* The inductive invariant behind the theorems of TokenRefreshProofs *)

\* A token that is to be stored is the current one, newer than the one in the
\* row and than any that is about to be used; so at most one call has one.
StoresCurrent ==
    \A c \in Calls : At(c, "store") =>
        /\ call[c].token = current[call[c].id]
        /\ stored[call[c].id] < call[c].token
        /\ ~ dropped[call[c].id]
        /\ \A d \in Calls : call[d].id = call[c].id =>
             /\ At(d, "store") => d = c
             /\ At(d, "refresh") => call[d].token < call[c].token

StoredIsIssued ==
    /\ \A i \in Integrations :
         /\ stored[i] <= current[i]
         /\ dropped[i] => stored[i] < current[i]
         /\ status[i] = "none" => current[i] = 0
    /\ \A c \in Calls : At(c, "refresh") =>
         /\ call[c].token # 0
         /\ dropped[call[c].id] => call[c].token < current[call[c].id]

Finished == \A c \in Calls : call[c].code = "none" \/ call[c].pc = "done"

IInv == TypeOK /\ StoresCurrent /\ StoredIsIssued /\ Finished
        /\ CurrentTokenIsKept /\ SuccessIsStored
===============================================================================
