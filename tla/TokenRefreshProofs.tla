-------------------------- MODULE TokenRefreshProofs --------------------------
(***************************************************************************)
(* The properties of TokenRefresh for any number of integrations and       *)
(* calls.  The heart of IInv is StoresCurrent: HighLevel's rotation alone  *)
(* keeps two calls from storing tokens of one integration at a time.       *)
(***************************************************************************)
EXTENDS TokenRefresh, TLAPS

\* A call's record, with the sets of its fields made opaque.
LEMMA CallRecord ==
  ASSUME NEW s \in CallState
  PROVE  \E P, I, T, K : s \in [pc : P, id : I, token : T, code : K]
<1> DEFINE P == {"idle", "read", "refresh", "store", "done"}
           I == Integrations \cup {None}
           T == Nat
           K == Codes
<1>1. s \in [pc : P, id : I, token : T, code : K]
  BY DEF CallState
<1> HIDE DEF P, I, T, K
<1> WITNESS P, I, T, K
<1> QED
  BY <1>1

\* What Answer assigns and what it keeps.
LEMMA AnswerFields ==
  ASSUME TypeOK, NEW c \in Calls, NEW k \in Codes, Answer(c, k)
  PROVE  /\ call' \in [Calls -> CallState]
         /\ \A d \in Calls : d # c => call'[d] = call[d]
         /\ call'[c].pc = "done" /\ call'[c].code = k
         /\ call'[c].id = call[c].id /\ call'[c].token = call[c].token
<1> DEFINE q == [call[c] EXCEPT !.pc = "done", !.code = k]
<1>1. call \in [Calls -> CallState] /\ call[c] \in CallState
  BY DEF TypeOK
<1>2. q.pc = "done" /\ q.code = k /\ q.id = call[c].id /\ q.token = call[c].token
  <2>1. PICK P, I, T, K : call[c] \in [pc : P, id : I, token : T, code : K]
    BY <1>1, CallRecord
  <2> QED
    BY <2>1, Zenon
<1>3. q \in CallState
  BY <1>1, Zenon DEF CallState
<1>4. call' = [call EXCEPT ![c] = q]
  BY Zenon DEF Answer
<1> HIDE DEF q
<1> QED
  BY <1>1, <1>2, <1>3, <1>4, Zenon

\* Likewise for Hold.
LEMMA HoldFields ==
  ASSUME TypeOK, NEW c \in Calls, NEW p \in {"refresh", "store"}, NEW t \in Nat,
         Hold(c, p, t)
  PROVE  /\ call' \in [Calls -> CallState]
         /\ \A d \in Calls : d # c => call'[d] = call[d]
         /\ call'[c].pc = p /\ call'[c].token = t
         /\ call'[c].id = call[c].id /\ call'[c].code = call[c].code
<1> DEFINE q == [call[c] EXCEPT !.pc = p, !.token = t]
<1>1. call \in [Calls -> CallState] /\ call[c] \in CallState
  BY DEF TypeOK
<1>2. q.pc = p /\ q.token = t /\ q.id = call[c].id /\ q.code = call[c].code
  <2>1. PICK P, I, T, K : call[c] \in [pc : P, id : I, token : T, code : K]
    BY <1>1, CallRecord
  <2> QED
    BY <2>1, Zenon
<1>3. q \in CallState
  BY <1>1, Zenon DEF CallState
<1>4. call' = [call EXCEPT ![c] = q]
  BY Zenon DEF Hold
<1> HIDE DEF q
<1> QED
  BY <1>1, <1>2, <1>3, <1>4, Zenon

LEMMA InitInv == Init => IInv
<1> SUFFICES ASSUME Init PROVE IInv
  OBVIOUS
<1>1. /\ call \in [Calls -> CallState]
      /\ \A c \in Calls : call[c].pc = "idle" /\ call[c].code = "none"
  BY SMT DEF Init, CallState, Codes
<1>2. /\ status \in [Integrations -> Statuses] /\ stored \in [Integrations -> Nat]
      /\ current \in [Integrations -> Nat] /\ dropped \in [Integrations -> BOOLEAN]
      /\ \A i \in Integrations : stored[i] = 0 /\ current[i] = 0 /\ dropped[i] = FALSE
  BY SMT DEF Init, Statuses
<1>3. TypeOK
  BY <1>1, <1>2, SMT DEF TypeOK
<1> QED
  BY <1>1, <1>2, <1>3, SMT DEF IInv, StoresCurrent, StoredIsIssued, Finished,
     CurrentTokenIsKept, SuccessIsStored, At, HasRow

-----------------------------------------------------------------------------
(* The life of an integration *)

LEMMA AuthorizeInv ==
  ASSUME IInv, NEW i \in Integrations, Authorize(i)
  PROVE  IInv'
<1>1. /\ status[i] = "none" /\ stored[i] = 0 /\ current[i] = 0 /\ dropped[i] = FALSE
      /\ UNCHANGED <<call, dropped>>
  BY SMT DEF IInv, TypeOK, StoredIsIssued, Authorize
<1>2. /\ status' \in [Integrations -> Statuses] /\ stored' \in [Integrations -> Nat]
      /\ current' \in [Integrations -> Nat]
      /\ status'[i] = "ACTIVE" /\ stored'[i] = 1 /\ current'[i] = 1
      /\ \A j \in Integrations : j # i =>
           status'[j] = status[j] /\ stored'[j] = stored[j] /\ current'[j] = current[j]
  BY SMT DEF IInv, TypeOK, Authorize, Statuses
<1>3. TypeOK'
  BY <1>1, <1>2, SMT DEF IInv, TypeOK, CallState
<1>4. \A c \in Calls : At(c, "store") => call[c].id # i
  BY <1>1, SMT DEF IInv, TypeOK, StoresCurrent, At
<1>5. StoresCurrent'
  BY <1>1, <1>2, <1>4, SMT DEF IInv, TypeOK, StoresCurrent, At
<1>6. StoredIsIssued' /\ Finished'
  <2>1. \A c \in Calls : At(c, "refresh") => call[c].id # i /\ call[c].id \in Integrations
    BY <1>1, SMT DEF IInv, TypeOK, StoredIsIssued, CallState, At
  <2> QED
    BY <1>1, <1>2, <2>1, SMT DEF IInv, StoredIsIssued, Finished, At
<1>7. CurrentTokenIsKept'
  BY <1>1, <1>2, SMT DEF IInv, CurrentTokenIsKept, HasRow, At
<1>8. SuccessIsStored'
  BY <1>1, <1>2, SMT DEF IInv, TypeOK, SuccessIsStored, Finished, HasRow, CallState
<1> QED
  BY <1>3, <1>5, <1>6, <1>7, <1>8 DEF IInv

LEMMA SetStatusInv ==
  ASSUME IInv, NEW i \in Integrations, NEW s \in {"CREATED", "ACTIVE", "REVOKED"},
         SetStatus(i, s)
  PROVE  IInv'
<1>1. UNCHANGED <<stored, current, call, dropped>> /\ Present(i)
      /\ status' = [status EXCEPT ![i] = s]
  BY DEF SetStatus
<1>2. /\ status' \in [Integrations -> Statuses]
      /\ status'[i] \notin {"none", "deleted"} /\ status[i] # "none"
      /\ \A j \in Integrations : j # i => status'[j] = status[j]
  BY <1>1, SMT DEF IInv, TypeOK, Statuses, Present
<1>2a. TypeOK'
  BY <1>1, <1>2, SMT DEF IInv, TypeOK
<1>2b. StoredIsIssued'
  BY <1>1, <1>2, SMT DEF IInv, TypeOK, StoredIsIssued, At
<1>3. stored' = stored /\ current' = current /\ call' = call /\ dropped' = dropped
  BY <1>1
<1>4. StoresCurrent' /\ Finished'
  BY <1>3, SMT DEF IInv, StoresCurrent, Finished, At
<1>5. CurrentTokenIsKept' /\ SuccessIsStored'
  BY <1>3, SMT DEF IInv, CurrentTokenIsKept, SuccessIsStored, HasRow, At
<1> QED
  BY <1>2a, <1>2b, <1>4, <1>5 DEF IInv

LEMMA UninstallInv ==
  ASSUME IInv, NEW i \in Integrations, Uninstall(i)
  PROVE  IInv'
<1>1. /\ UNCHANGED <<current, call, dropped>> /\ Present(i)
      /\ status' \in [Integrations -> Statuses] /\ stored' \in [Integrations -> Nat]
      /\ status'[i] = "deleted" /\ stored'[i] = 0
      /\ \A j \in Integrations : j # i => status'[j] = status[j] /\ stored'[j] = stored[j]
  BY SMT DEF IInv, TypeOK, Uninstall, Statuses
<1>2. TypeOK'
  BY <1>1, SMT DEF IInv, TypeOK
<1>3. StoresCurrent'
  BY <1>1, SMT DEF IInv, TypeOK, StoresCurrent, At
<1>4. StoredIsIssued' /\ Finished'
  BY <1>1, SMT DEF IInv, TypeOK, StoredIsIssued, Finished, At
<1>5. CurrentTokenIsKept'
  BY <1>1, SMT DEF IInv, TypeOK, CurrentTokenIsKept, HasRow, At
<1>6. SuccessIsStored'
  BY <1>1, SMT DEF IInv, TypeOK, SuccessIsStored, Finished, HasRow
<1> QED
  BY <1>2, <1>3, <1>4, <1>5, <1>6 DEF IInv

-----------------------------------------------------------------------------
(* RefreshAccessToken *)

\* A call that holds no token another part of the state depends on moves on or
\* answers; `drop` is what its failure does to the history.
LEMMA CallInv ==
  ASSUME IInv, NEW c \in Calls, NEW k \in Codes, k # "OK", Answer(c, k),
         UNCHANGED <<status, stored, current>>,
         call[c].pc # "idle", call[c].pc # "done",
         \/ ~ At(c, "store") /\ dropped' = dropped
         \/ dropped' = [dropped EXCEPT ![call[c].id] = TRUE] /\ At(c, "store")
  PROVE  IInv'
<1> DEFINE i == call[c].id
<1>1. /\ call' \in [Calls -> CallState]
      /\ \A d \in Calls : d # c => call'[d] = call[d]
      /\ call'[c].pc = "done" /\ call'[c].code = k
      /\ call'[c].id = i /\ call'[c].token = call[c].token
  BY AnswerFields, Zenon DEF IInv
<1>2. i \in Integrations /\ call[c].token \in Nat
  BY SMT DEF IInv, TypeOK, CallState
<1>3. /\ dropped' \in [Integrations -> BOOLEAN]
      /\ \A j \in Integrations : j # i => dropped'[j] = dropped[j]
      /\ dropped[i] => dropped'[i]
      /\ dropped'[i] => dropped[i] \/ At(c, "store")
      /\ At(c, "store") => dropped'[i]
  BY <1>2, Zenon DEF IInv, TypeOK
<1>4. TypeOK'
  <2>1. \A d \in Calls : call'[d].pc # "idle" =>
          call'[d].id \in Integrations /\ call'[d].token <= current[call'[d].id]
    BY <1>1, <1>2, SMT DEF IInv, TypeOK
  <2> QED
    BY <1>1, <1>3, <2>1, Zenon DEF IInv, TypeOK
<1>5. StoresCurrent'
  BY <1>1, <1>2, <1>3, SMT DEF IInv, TypeOK, StoresCurrent, At
<1>6. StoredIsIssued' /\ Finished'
  BY <1>1, <1>2, <1>3, SMT DEF IInv, TypeOK, StoresCurrent, StoredIsIssued, Finished, At
<1>7. CurrentTokenIsKept'
  BY <1>1, <1>2, <1>3, SMT DEF IInv, TypeOK, CurrentTokenIsKept, HasRow, At
<1>8. SuccessIsStored'
  BY <1>1, SMT DEF IInv, TypeOK, SuccessIsStored, HasRow
<1> QED
  BY <1>4, <1>5, <1>6, <1>7, <1>8 DEF IInv

LEMMA RefreshAccessTokenInv ==
  ASSUME IInv, NEW c \in Calls, RefreshAccessToken(c)
  PROVE  IInv'
<1>1. /\ UNCHANGED <<status, stored, current, dropped>>
      /\ call' \in [Calls -> CallState]
      /\ \A d \in Calls : d # c => call'[d] = call[d]
      /\ call'[c].pc \in {"read", "done"} /\ call'[c].token = 0
      /\ call'[c].id \in Integrations /\ call'[c].code # "OK"
      /\ call'[c].pc = "read" => call'[c].code = "none"
  BY SMT DEF IInv, TypeOK, RefreshAccessToken, CallState, Codes
<1>2. TypeOK'
  BY <1>1, SMT DEF IInv, TypeOK
<1>3. StoresCurrent' /\ StoredIsIssued' /\ Finished'
  BY <1>1, SMT DEF IInv, TypeOK, StoresCurrent, StoredIsIssued, Finished, At
<1>4. CurrentTokenIsKept'
  BY <1>1, SMT DEF IInv, TypeOK, CurrentTokenIsKept, HasRow, At, RefreshAccessToken
<1>5. SuccessIsStored'
  BY <1>1, SMT DEF IInv, TypeOK, SuccessIsStored, HasRow
<1> QED
  BY <1>2, <1>3, <1>4, <1>5 DEF IInv

LEMMA RefreshReadInv ==
  ASSUME IInv, NEW c \in Calls, RefreshRead(c)
  PROVE  IInv'
<1> DEFINE i == call[c].id
<1>1. /\ UNCHANGED <<status, stored, current, dropped>> /\ At(c, "read")
      /\ i \in Integrations /\ stored[i] \in Nat
      /\ "refresh" \in {"refresh", "store"}
  BY SMT DEF RefreshRead, IInv, TypeOK, CallState, At
<1>2. CASE HasRow(i) /\ Hold(c, "refresh", stored[i])
  <2>1. /\ call' \in [Calls -> CallState]
        /\ \A d \in Calls : d # c => call'[d] = call[d]
        /\ call'[c].pc = "refresh" /\ call'[c].token = stored[i]
        /\ call'[c].id = i /\ call'[c].code = call[c].code
    BY <1>1, <1>2, HoldFields, Zenon DEF IInv
  <2>2. stored[i] <= current[i] /\ stored[i] # 0 /\ call[c].code # "OK"
    BY <1>1, <1>2, SMT DEF IInv, StoredIsIssued, HasRow, Finished, At
  <2>3. TypeOK'
    BY <1>1, <2>1, <2>2, SMT DEF IInv, TypeOK
  <2>4. StoresCurrent' /\ StoredIsIssued' /\ Finished'
    BY <1>1, <2>1, <2>2, SMT DEF IInv, TypeOK, StoresCurrent, StoredIsIssued, Finished, At
  <2>5. CurrentTokenIsKept'
    BY <1>1, <2>1, SMT DEF IInv, TypeOK, CurrentTokenIsKept, HasRow, At
  <2>6. SuccessIsStored'
    BY <1>1, <2>1, <2>2, SMT DEF IInv, TypeOK, SuccessIsStored, HasRow
  <2> QED
    BY <2>3, <2>4, <2>5, <2>6 DEF IInv
<1>3. CASE Answer(c, "NotFound")
  <2>1. "NotFound" \in Codes /\ "NotFound" # "OK"
    BY DEF Codes
  <2>2. call[c].pc # "idle" /\ call[c].pc # "done" /\ ~ At(c, "store") /\ dropped' = dropped
    BY <1>1, SMT DEF At
  <2> QED
    BY <1>1, <1>3, <2>1, <2>2, CallInv, Zenon
<1> QED
  BY <1>2, <1>3 DEF RefreshRead

\* A call in Rotate is the only one to hold the current token, and the row
\* still has it: the token issued next goes to that call alone.
LEMMA RotateInv ==
  ASSUME IInv, NEW c \in Calls, Rotate(c)
  PROVE  IInv'
<1> DEFINE i == call[c].id
           n == current[i] + 1
<1>1. /\ UNCHANGED <<status, stored>> /\ At(c, "refresh")
      /\ i \in Integrations /\ call[c].token = current[i]
      /\ current' = [current EXCEPT ![i] = n]
      /\ \/ Hold(c, "store", n) /\ UNCHANGED dropped
         \/ Answer(c, "RefreshFailed") /\ dropped' = [dropped EXCEPT ![i] = TRUE]
  BY SMT DEF Rotate, IInv, TypeOK, CallState, At
<1>2. /\ current[i] \in Nat /\ n \in Nat /\ n > current[i] /\ current[i] # 0
      /\ current' \in [Integrations -> Nat] /\ current'[i] = n
      /\ \A j \in Integrations : j # i => current'[j] = current[j]
      /\ stored[i] \in Nat /\ stored[i] <= current[i] /\ status[i] # "none"
  BY <1>1, SMT DEF IInv, TypeOK, StoredIsIssued
<1>3. \A d \in Calls : At(d, "store") => call[d].id # i
  BY <1>1, <1>2, SMT DEF IInv, StoresCurrent
<1>4. ~ dropped[i]
  BY <1>1, <1>2, SMT DEF IInv, StoredIsIssued
<1>5. \A d \in Calls : call[d].pc # "idle" /\ call[d].id = i => call[d].token < n
  BY <1>1, <1>2, SMT DEF IInv, TypeOK, CallState
<1>6. CASE Hold(c, "store", n) /\ dropped' = dropped
  <2>1. /\ call' \in [Calls -> CallState]
        /\ \A d \in Calls : d # c => call'[d] = call[d]
        /\ call'[c].pc = "store" /\ call'[c].token = n
        /\ call'[c].id = i /\ call'[c].code = call[c].code
    BY <1>2, <1>6, HoldFields, Zenon DEF IInv
  <2>2. call[c].code # "OK"
    BY <1>1, SMT DEF IInv, Finished, At
  <2>3. TypeOK'
    BY <1>1, <1>2, <1>6, <2>1, SMT DEF IInv, TypeOK, CallState
  <2>4. StoresCurrent'
    BY <1>1, <1>2, <1>3, <1>4, <1>5, <1>6, <2>1, SMT DEF IInv, TypeOK, StoresCurrent, At
  <2>5. StoredIsIssued' /\ Finished'
    BY <1>1, <1>2, <1>3, <1>4, <1>6, <2>1, <2>2, SMTT(40) DEF IInv, TypeOK, StoredIsIssued,
       Finished, At, CallState
  <2>6. CurrentTokenIsKept'
    BY <1>1, <1>2, <1>3, <1>6, <2>1, SMT DEF IInv, TypeOK, CurrentTokenIsKept, HasRow, At
  <2>7. SuccessIsStored'
    BY <1>1, <1>6, <2>1, <2>2, SMT DEF IInv, TypeOK, SuccessIsStored, HasRow
  <2> QED
    BY <2>3, <2>4, <2>5, <2>6, <2>7 DEF IInv
<1>7. CASE Answer(c, "RefreshFailed") /\ dropped' = [dropped EXCEPT ![i] = TRUE]
  <2>1. /\ call' \in [Calls -> CallState]
        /\ \A d \in Calls : d # c => call'[d] = call[d]
        /\ call'[c].pc = "done" /\ call'[c].code = "RefreshFailed"
        /\ call'[c].id = i /\ call'[c].token = call[c].token
    <3>1. "RefreshFailed" \in Codes
      BY DEF Codes
    <3> QED
      BY <1>7, <3>1, AnswerFields, Zenon DEF IInv
  <2>2. /\ dropped' \in [Integrations -> BOOLEAN] /\ dropped'[i]
        /\ \A j \in Integrations : j # i => dropped'[j] = dropped[j]
    BY <1>1, <1>7, Zenon DEF IInv, TypeOK
  <2>3. TypeOK'
    <3>1. \A d \in Calls : call'[d].pc # "idle" =>
            call'[d].id \in Integrations /\ call'[d].token <= current'[call'[d].id]
      BY <1>1, <1>2, <2>1, SMT DEF IInv, TypeOK, CallState
    <3> QED
      BY <1>1, <1>2, <2>1, <2>2, <3>1, Zenon DEF IInv, TypeOK
  <2>4. StoresCurrent'
    BY <1>1, <1>2, <1>3, <2>1, <2>2, SMT DEF IInv, TypeOK, StoresCurrent, At
  <2>5. StoredIsIssued' /\ Finished'
    BY <1>1, <1>2, <1>3, <1>5, <2>1, <2>2, SMTT(40) DEF IInv, TypeOK, StoredIsIssued, Finished,
       At, CallState
  <2>6. CurrentTokenIsKept'
    BY <1>1, <1>2, <2>1, <2>2, SMT DEF IInv, TypeOK, CurrentTokenIsKept, HasRow, At
  <2>7. SuccessIsStored'
    BY <1>1, <2>1, SMT DEF IInv, TypeOK, SuccessIsStored, HasRow
  <2> QED
    BY <2>3, <2>4, <2>5, <2>6, <2>7 DEF IInv
<1> QED
  BY <1>1, <1>6, <1>7

LEMMA RefusedInv ==
  ASSUME IInv, NEW c \in Calls, Refused(c)
  PROVE  IInv'
<1>1. "RefreshFailed" \in Codes /\ "RefreshFailed" # "OK"
  BY DEF Codes
<1>2. /\ UNCHANGED <<status, stored, current>> /\ dropped' = dropped
      /\ Answer(c, "RefreshFailed")
      /\ call[c].pc # "idle" /\ call[c].pc # "done" /\ ~ At(c, "store")
  BY DEF Refused, At
<1> QED
  BY <1>1, <1>2, CallInv, Zenon

LEMMA StoreInv ==
  ASSUME IInv, NEW c \in Calls, Store(c)
  PROVE  IInv'
<1> DEFINE i == call[c].id
           t == call[c].token
<1>1. /\ UNCHANGED <<status, current, dropped>> /\ At(c, "store")
      /\ i \in Integrations /\ t \in Nat /\ t = current[i] /\ stored[i] \in Nat
      /\ stored[i] < t /\ ~ dropped[i]
  BY SMT DEF Store, IInv, TypeOK, StoresCurrent, CallState, At
<1>2. CASE HasRow(i) /\ stored' = [stored EXCEPT ![i] = t] /\ Answer(c, "OK")
  <2>1. /\ call' \in [Calls -> CallState]
        /\ \A d \in Calls : d # c => call'[d] = call[d]
        /\ call'[c].pc = "done" /\ call'[c].code = "OK"
        /\ call'[c].id = i /\ call'[c].token = t
    <3>1. "OK" \in Codes
      BY DEF Codes
    <3> QED
      BY <1>2, <3>1, AnswerFields, Zenon DEF IInv
  <2>2. /\ stored' \in [Integrations -> Nat] /\ stored'[i] = t
        /\ \A j \in Integrations : j # i => stored'[j] = stored[j]
    BY <1>1, <1>2, SMT DEF IInv, TypeOK
  <2>3. status[i] \notin {"none", "deleted"}
    BY <1>1, <1>2, SMT DEF IInv, TypeOK, HasRow
  <2>4. TypeOK'
    BY <1>1, <2>1, <2>2, <2>3, SMT DEF IInv, TypeOK
  <2>5. StoresCurrent'
    BY <1>1, <2>1, <2>2, SMT DEF IInv, TypeOK, StoresCurrent, At
  <2>6. StoredIsIssued' /\ Finished'
    BY <1>1, <2>1, <2>2, SMT DEF IInv, TypeOK, StoredIsIssued, Finished, At
  <2>7. CurrentTokenIsKept'
    BY <1>1, <2>1, <2>2, SMT DEF IInv, TypeOK, CurrentTokenIsKept, HasRow, At
  <2>8. SuccessIsStored'
    BY <1>1, <1>2, <2>1, <2>2, SMT DEF IInv, TypeOK, SuccessIsStored, Finished, HasRow,
       CallState
  <2> QED
    BY <2>4, <2>5, <2>6, <2>7, <2>8 DEF IInv
<1>3. CASE ~ HasRow(i) /\ Answer(c, "NotFound") /\ stored' = stored
  <2>1. /\ call' \in [Calls -> CallState]
        /\ \A d \in Calls : d # c => call'[d] = call[d]
        /\ call'[c].pc = "done" /\ call'[c].code # "OK"
        /\ call'[c].id = i /\ call'[c].token = t
    <3>1. "NotFound" \in Codes /\ "NotFound" # "OK"
      BY DEF Codes
    <3> QED
      BY <1>3, <3>1, AnswerFields, Zenon DEF IInv
  <2>2. TypeOK'
    BY <1>1, <1>3, <2>1, SMT DEF IInv, TypeOK
  <2>3. StoresCurrent' /\ StoredIsIssued' /\ Finished'
    BY <1>1, <1>3, <2>1, SMT DEF IInv, TypeOK, StoresCurrent, StoredIsIssued, Finished, At
  <2>4. CurrentTokenIsKept'
    BY <1>1, <1>3, <2>1, SMT DEF IInv, TypeOK, CurrentTokenIsKept, HasRow, At
  <2>5. SuccessIsStored'
    BY <1>1, <1>3, <2>1, SMT DEF IInv, TypeOK, SuccessIsStored, HasRow
  <2> QED
    BY <2>2, <2>3, <2>4, <2>5 DEF IInv
<1> QED
  BY <1>2, <1>3 DEF Store

LEMMA FailInv ==
  ASSUME IInv, NEW c \in Calls, Fail(c)
  PROVE  IInv'
<1> DEFINE k == IF At(c, "refresh") THEN "RefreshFailed" ELSE "Internal"
<1>1. k \in Codes /\ k # "OK"
  BY DEF Codes
<1>2. /\ UNCHANGED <<status, stored, current>> /\ Answer(c, k)
      /\ call[c].pc # "idle" /\ call[c].pc # "done"
      /\ dropped' = [dropped EXCEPT ![call[c].id] = @ \/ At(c, "store")]
  BY DEF Fail, At
<1>3. call[c].id \in Integrations /\ dropped \in [Integrations -> BOOLEAN]
  BY <1>2, SMT DEF IInv, TypeOK
<1>4. CASE At(c, "store")
  <2>1. dropped' = [dropped EXCEPT ![call[c].id] = TRUE]
    BY <1>2, <1>4, Zenon
  <2> QED
    BY <1>1, <1>2, <1>4, <2>1, CallInv, Zenon
<1>5. CASE ~ At(c, "store")
  <2>1. dropped' = dropped
    BY <1>2, <1>3, <1>5, Zenon
  <2> QED
    BY <1>1, <1>2, <1>5, <2>1, CallInv, Zenon
<1> QED
  BY <1>4, <1>5

LEMMA StutterInv == IInv /\ UNCHANGED vars => IInv'
<1> SUFFICES ASSUME IInv, UNCHANGED vars PROVE IInv'
  OBVIOUS
<1>1. /\ status' = status /\ stored' = stored /\ current' = current /\ call' = call
      /\ dropped' = dropped
  BY DEF vars
<1>2. TypeOK'
  BY <1>1, Zenon DEF IInv, TypeOK
<1>3. StoresCurrent' /\ StoredIsIssued' /\ Finished'
  BY <1>1, SMT DEF IInv, StoresCurrent, StoredIsIssued, Finished, At
<1>4. CurrentTokenIsKept' /\ SuccessIsStored'
  BY <1>1, SMT DEF IInv, CurrentTokenIsKept, SuccessIsStored, HasRow, At
<1> QED
  BY <1>2, <1>3, <1>4 DEF IInv

LEMMA StepInv == IInv /\ [Next]_vars => IInv'
<1> SUFFICES ASSUME IInv, Next PROVE IInv'
  BY StutterInv, Zenon
<1>1. CASE \E i \in Integrations : Authorize(i)
  BY <1>1, AuthorizeInv
<1>2. CASE \E i \in Integrations : Uninstall(i)
  BY <1>2, UninstallInv
<1>3. CASE \E i \in Integrations, s \in {"CREATED", "ACTIVE", "REVOKED"} : SetStatus(i, s)
  BY <1>3, SetStatusInv
<1>4. CASE \E c \in Calls : RefreshAccessToken(c)
  BY <1>4, RefreshAccessTokenInv
<1>5. CASE \E c \in Calls : RefreshRead(c)
  BY <1>5, RefreshReadInv
<1>6. CASE \E c \in Calls : Rotate(c)
  BY <1>6, RotateInv
<1>7. CASE \E c \in Calls : Refused(c)
  BY <1>7, RefusedInv
<1>8. CASE \E c \in Calls : Store(c)
  BY <1>8, StoreInv
<1>9. CASE \E c \in Calls : Fail(c)
  BY <1>9, FailInv
<1> QED
  BY <1>1, <1>2, <1>3, <1>4, <1>5, <1>6, <1>7, <1>8, <1>9, Zenon DEF Next

LEMMA Invariance == Spec => []IInv
  BY InitInv, StepInv, PTL DEF Spec

-----------------------------------------------------------------------------
(* The theorems *)

\* The state of RefreshAccessToken is well typed: no token row outlives its
\* integration, and no call holds a token HighLevel never issued.
THEOREM RefreshTypeOK == Spec => []TypeOK
<1>1. IInv => TypeOK
  BY DEF IInv
<1> QED
  BY <1>1, Invariance, PTL

\* Concurrent calls of RefreshAccessToken never lose the token HighLevel
\* accepts; only a failure between its answer and the UPDATE does.
THEOREM CurrentTokenKept == Spec => []CurrentTokenIsKept
<1>1. IInv => CurrentTokenIsKept
  BY DEF IInv
<1> QED
  BY <1>1, Invariance, PTL

\* The tokens a successful refresh stored are not overwritten by older ones.
THEOREM SuccessSticks == Spec => []SuccessIsStored
<1>1. IInv => SuccessIsStored
  BY DEF IInv
<1> QED
  BY <1>1, Invariance, PTL

\* The row of an integration whose token was lost keeps the used token until
\* the integration goes.
THEOREM LossIsForGood == Spec => LossIsFinal
<1> DEFINE Kept == \A i \in Integrations :
              dropped[i] /\ HasRow(i) => stored'[i] \in {0, stored[i]}
<1>1. IInv /\ [Next]_vars => [Kept]_vars
  <2> SUFFICES ASSUME IInv, Next, NEW i \in Integrations, dropped[i], HasRow(i)
               PROVE  stored'[i] \in {0, stored[i]}
    BY DEF Kept
  <2>0. stored \in [Integrations -> Nat]
    BY DEF IInv, TypeOK
  <2>1. CASE UNCHANGED stored
    BY <2>1
  <2>2. CASE \E j \in Integrations : Authorize(j)
    BY <2>0, <2>2, SMT DEF Authorize, IInv, TypeOK, HasRow
  <2>3. CASE \E j \in Integrations : Uninstall(j)
    BY <2>0, <2>3, SMT DEF Uninstall
  <2>4. CASE \E c \in Calls : Store(c)
    <3>1. PICK c \in Calls : Store(c)
      BY <2>4
    <3>2. call[c].id # i
      BY <3>1, SMT DEF Store, IInv, StoresCurrent
    <3> QED
      BY <2>0, <3>1, <3>2, SMT DEF Store
  <2> QED
    BY <2>1, <2>2, <2>3, <2>4, Zenon DEF Next, SetStatus, RefreshAccessToken,
       RefreshRead, Rotate, Refused, Fail
<1> QED
  BY <1>1, Invariance, PTL DEF Spec, LossIsFinal, Kept
-----------------------------------------------------------------------------
(* The refinement of TokenCustody *)

\* What IInv makes of the custody: a token is lost exactly when a call dropped it.
Known(i) ==
    IF status[i] = "none" THEN "none"
    ELSE IF stored[i] = 0 THEN "gone"
    ELSE IF dropped[i] THEN "lost" ELSE "held"

LEMMA CustodyKnown ==
  ASSUME IInv, NEW i \in Integrations
  PROVE  Custody(i) = Known(i)
<1>1. CASE HasRow(i) /\ dropped[i]
  <2>1. ~ Held(i)
    BY <1>1, SMT DEF IInv, TypeOK, StoredIsIssued, StoresCurrent, Held
  <2> QED
    BY <1>1, <2>1, Zenon DEF Custody, Known, HasRow
<1>2. CASE HasRow(i) /\ ~ dropped[i]
  <2>1. Held(i)
    BY <1>2, Zenon DEF IInv, CurrentTokenIsKept, Held
  <2> QED
    BY <1>2, <2>1, Zenon DEF Custody, Known, HasRow
<1>3. CASE ~ HasRow(i)
  BY <1>3, Zenon DEF Custody, Known, HasRow
<1> QED
  BY <1>1, <1>2, <1>3

\* The same after a step.
LEMMA CustodyKnownNext ==
  ASSUME IInv', NEW i \in Integrations
  PROVE  Custody(i)' = Known(i)'
<1>1. CASE HasRow(i)' /\ dropped'[i]
  <2>1. ~ Held(i)'
    BY <1>1, SMT DEF IInv, TypeOK, StoredIsIssued, StoresCurrent, Held
  <2> QED
    BY <1>1, <2>1, Zenon DEF Custody, Known, HasRow
<1>2. CASE HasRow(i)' /\ ~ dropped'[i]
  <2>1. Held(i)'
    BY <1>2, Zenon DEF IInv, CurrentTokenIsKept, Held
  <2> QED
    BY <1>2, <2>1, Zenon DEF Custody, Known, HasRow
<1>3. CASE ~ HasRow(i)'
  BY <1>3, Zenon DEF Custody, Known, HasRow
<1> QED
  BY <1>1, <1>2, <1>3

\* A step that changes what is known of at most one integration changes its
\* custody alone.
LEMMA CustodyStep ==
  ASSUME IInv, IInv', NEW i \in Integrations, NEW v, Known(i)' = v,
         \A j \in Integrations : j # i => Known(j)' = Known(j)
  PROVE  Custodies' = [Custodies EXCEPT ![i] = v] /\ Custodies[i] = Known(i)
<1>1. \A j \in Integrations : Custody(j) = Known(j)
  BY CustodyKnown
<1>2. \A j \in Integrations : Custody(j)' = Known(j)'
  BY CustodyKnownNext
<1>3. Custodies' = [j \in Integrations |-> Custody(j)']
  BY DEF Custodies
<1>4. Custodies = [j \in Integrations |-> Custody(j)]
  BY DEF Custodies
<1> QED
  BY <1>1, <1>2, <1>3, <1>4, SMT

LEMMA CustodyStays ==
  ASSUME IInv, IInv', \A j \in Integrations : Known(j)' = Known(j)
  PROVE  Custodies' = Custodies
<1>1. \A j \in Integrations : Custody(j) = Known(j) /\ Custody(j)' = Known(j)'
  BY CustodyKnown, CustodyKnownNext
<1> QED
  BY <1>1, SMT DEF Custodies

\* A call whose code is set ends, and no other does.
LEMMA OutcomeStep ==
  ASSUME NEW c \in Calls, NEW k \in Codes \ {"none"},
         call[c].code = "none", call'[c].code = k,
         \A d \in Calls : d # c => call'[d] = call[d]
  PROVE  /\ Outcomes[c] = "none"
         /\ Outcomes' = [Outcomes EXCEPT ![c] = IF k = "OK" THEN "ok" ELSE "failed"]
<1>1. Outcome(c) = "none" /\ Outcome(c)' = (IF k = "OK" THEN "ok" ELSE "failed")
  BY SMT DEF Outcome
<1>2. \A d \in Calls : d # c => Outcome(d)' = Outcome(d)
  BY SMT DEF Outcome
<1>3. Outcomes' = [d \in Calls |-> Outcome(d)']
  BY DEF Outcomes
<1>4. Outcomes = [d \in Calls |-> Outcome(d)]
  BY DEF Outcomes
<1> QED
  BY <1>1, <1>2, <1>3, <1>4, SMT

LEMMA OutcomesStay ==
  ASSUME \A d \in Calls : call'[d].code = call[d].code
  PROVE  Outcomes' = Outcomes
<1>1. \A d \in Calls : Outcome(d)' = Outcome(d)
  BY SMT DEF Outcome
<1> QED
  BY <1>1, SMT DEF Outcomes

\* A call that has not ended has no code.
LEMMA Unfinished ==
  ASSUME IInv, NEW c \in Calls, call[c].pc # "done"
  PROVE  call[c].code = "none"
  BY SMT DEF IInv, Finished

\* A call that answers an error and loses nothing fails.
LEMMA KeeperFails ==
  ASSUME IInv, IInv', NEW c \in Calls, NEW k \in Codes \ {"none", "OK"}, Answer(c, k),
         call[c].pc # "done",
         UNCHANGED <<status, stored, current, dropped>>
  PROVE  Keeper!Next
<1>1. Custodies' = Custodies
  BY CustodyStays, Zenon DEF Known
<1>2. call'[c].code = k /\ \A d \in Calls : d # c => call'[d] = call[d]
  BY AnswerFields, Zenon DEF IInv
<1>3. Outcomes[c] = "none" /\ Outcomes' = [Outcomes EXCEPT ![c] = "failed"]
  BY <1>2, OutcomeStep, Unfinished, Zenon
<1>4. Keeper!Fail(c)
  BY <1>1, <1>3 DEF Keeper!Fail, Keeper!Ends
<1> QED
  BY <1>4, Zenon DEF Keeper!Next

\* The OAuth callback brings in the first token.
LEMMA KeeperObtains ==
  ASSUME IInv, IInv', NEW i \in Integrations, Authorize(i)
  PROVE  Keeper!Next
<1>0. /\ status[i] = "none" /\ current[i] = 0 /\ stored[i] = 0
      /\ dropped[i] => stored[i] < current[i]
  BY Zenon DEF IInv, TypeOK, StoredIsIssued, Authorize
<1>1. /\ status[i] = "none" /\ ~ dropped[i] /\ dropped' = dropped
      /\ status'[i] = "ACTIVE" /\ stored'[i] = 1
      /\ current' = [current EXCEPT ![i] = current[i] + 1]
      /\ \A j \in Integrations : j # i => status'[j] = status[j] /\ stored'[j] = stored[j]
  BY <1>0, SMT DEF IInv, TypeOK, Authorize
<1>2. /\ Known(i)' = "held" /\ Known(i) = "none"
      /\ \A j \in Integrations : j # i => Known(j)' = Known(j)
  BY <1>1, SMT DEF Known
<1>3. Custodies' = [Custodies EXCEPT ![i] = "held"] /\ Custodies[i] = "none"
  BY <1>2, CustodyStep, Zenon
<1>4. Outcomes' = Outcomes
  BY OutcomesStay DEF Authorize
<1>5. Keeper!Obtain(i)
  BY <1>1, <1>3, <1>4 DEF Keeper!Obtain
<1> QED
  BY <1>5, Zenon DEF Keeper!Next

\* An uninstallation takes the row away, or there was none.
LEMMA KeeperReleases ==
  ASSUME IInv, IInv', NEW i \in Integrations, Uninstall(i)
  PROVE  [Keeper!Next]_(Keeper!vars)
<1>1. /\ status[i] # "none" /\ status'[i] = "deleted" /\ stored'[i] = 0
      /\ dropped' = dropped /\ current' = current /\ call' = call
      /\ \A j \in Integrations : j # i => status'[j] = status[j] /\ stored'[j] = stored[j]
  BY SMT DEF IInv, TypeOK, Uninstall, Present
<1>2. /\ Known(i)' = "gone" /\ Known(i) \in {"gone", "held", "lost"}
      /\ \A j \in Integrations : j # i => Known(j)' = Known(j)
  BY <1>1, SMT DEF Known
<1>3. Outcomes' = Outcomes
  BY <1>1, OutcomesStay
<1>4. CASE Known(i) = "gone"
  <2>1. Custodies' = Custodies
    BY <1>2, <1>4, CustodyStays, Zenon
  <2> QED
    BY <1>1, <1>3, <2>1 DEF Keeper!vars
<1>5. CASE Known(i) # "gone"
  <2>1. /\ Custodies' = [Custodies EXCEPT ![i] = "gone"]
        /\ Custodies[i] \in {"held", "lost"}
    BY <1>2, <1>5, CustodyStep, Zenon
  <2>2. Keeper!Release(i)
    BY <1>1, <1>3, <2>1 DEF Keeper!Release
  <2> QED
    BY <2>2, Zenon DEF Keeper!Next
<1> QED
  BY <1>4, <1>5

\* The token HighLevel issues is in the call's hands, or lost.
LEMMA KeeperRenews ==
  ASSUME IInv, IInv', NEW c \in Calls, Rotate(c)
  PROVE  Keeper!Next
<1>0. PICK i \in Integrations : i = call[c].id
  BY SMT DEF Rotate, At, IInv, TypeOK
<1> DEFINE n == current[i] + 1
<1>1. /\ UNCHANGED <<status, stored>> /\ At(c, "refresh") /\ call[c].pc # "done"
      /\ i \in Integrations /\ call[c].token = current[i] /\ n \in Nat
      /\ current' = [current EXCEPT ![i] = n] /\ current \in [Integrations -> Nat]
      /\ \/ Hold(c, "store", n) /\ dropped' = dropped
         \/ Answer(c, "RefreshFailed") /\ dropped' = [dropped EXCEPT ![i] = TRUE]
  BY <1>0, SMT DEF Rotate, IInv, TypeOK, CallState, At
<1>2. ~ dropped[i] /\ status[i] # "none"
  BY <1>0, <1>1, SMT DEF IInv, TypeOK, StoredIsIssued
<1>3. Known(i) \in {"held", "gone"}
  BY <1>2, Zenon DEF Known
<1>4. CASE Hold(c, "store", n) /\ dropped' = dropped
  <2>1. Custodies' = Custodies /\ Custodies[i] = Known(i)
    BY <1>1, <1>4, CustodyStays, CustodyKnown, Zenon DEF Known, Custodies
  <2>2. /\ \A d \in Calls : d # c => call'[d] = call[d]
        /\ call'[c].code = call[c].code
    BY <1>1, <1>4, HoldFields, Zenon DEF IInv
  <2>3. Outcomes' = Outcomes
    BY <2>2, OutcomesStay, Zenon
  <2>4. Keeper!Renew(i)
    BY <1>1, <1>3, <2>1, <2>3 DEF Keeper!Renew
  <2> QED
    BY <1>1, <2>4, Zenon DEF Keeper!Next
<1>5. CASE Answer(c, "RefreshFailed") /\ dropped' = [dropped EXCEPT ![i] = TRUE]
  <2>0. "RefreshFailed" \in Codes \ {"none"} /\ "RefreshFailed" # "OK"
    BY DEF Codes
  <2>1. call'[c].code = "RefreshFailed" /\ \A d \in Calls : d # c => call'[d] = call[d]
    BY <1>5, <2>0, AnswerFields, Zenon DEF IInv
  <2>2. Outcomes[c] = "none" /\ Outcomes' = [Outcomes EXCEPT ![c] = "failed"]
    BY <1>1, <2>0, <2>1, OutcomeStep, Unfinished, Zenon
  <2>3. dropped'[i] /\ \A j \in Integrations : j # i => dropped'[j] = dropped[j]
    BY <1>1, <1>5, Zenon DEF IInv, TypeOK
  <2>4. /\ Known(i)' = IF Known(i) = "held" THEN "lost" ELSE Known(i)
        /\ \A j \in Integrations : j # i => Known(j)' = Known(j)
    BY <1>1, <1>2, <2>3, Zenon DEF Known
  <2>5. /\ Custodies' = [Custodies EXCEPT ![i] = IF Known(i) = "held" THEN "lost"
                                                 ELSE Known(i)]
        /\ Custodies[i] = Known(i)
    BY <1>1, <2>4, CustodyStep, Zenon
  <2>6. Keeper!Lose(c, i)
    BY <1>1, <1>3, <2>2, <2>5 DEF Keeper!Lose, Keeper!Ends
  <2> QED
    BY <1>1, <2>6, Zenon DEF Keeper!Next
<1> QED
  BY <1>1, <1>4, <1>5

\* A refresh succeeds by storing the token that is held.
LEMMA KeeperSucceeds ==
  ASSUME IInv, IInv', NEW c \in Calls, Store(c)
  PROVE  Keeper!Next
<1>0. PICK i \in Integrations : i = call[c].id
  BY SMT DEF Store, At, IInv, TypeOK
<1> DEFINE t == call[c].token
<1>1. /\ status' = status /\ current' = current /\ dropped' = dropped
      /\ i \in Integrations /\ ~ dropped[i] /\ t # 0 /\ call[c].pc # "done"
      /\ stored \in [Integrations -> Nat] /\ t \in Nat
  BY <1>0, SMT DEF Store, IInv, TypeOK, StoresCurrent, CallState, At
<1>2. CASE HasRow(i) /\ stored' = [stored EXCEPT ![i] = t] /\ Answer(c, "OK")
  <2>0. "OK" \in Codes \ {"none"}
    BY DEF Codes
  <2>1. call'[c].code = "OK" /\ \A d \in Calls : d # c => call'[d] = call[d]
    BY <1>2, <2>0, AnswerFields, Zenon DEF IInv
  <2>2. Outcomes[c] = "none" /\ Outcomes' = [Outcomes EXCEPT ![c] = "ok"]
    BY <1>1, <2>0, <2>1, OutcomeStep, Unfinished, Zenon
  <2>3. /\ stored[i] # 0 /\ stored'[i] = t
        /\ \A j \in Integrations : j # i => stored'[j] = stored[j]
    BY <1>1, <1>2, Zenon DEF HasRow
  <2>4. status[i] # "none"
    BY <1>1, <2>3, SMT DEF IInv, TypeOK
  <2>5. Known(i) = "held" /\ Known(i)' = "held"
    BY <1>1, <2>3, <2>4, Zenon DEF Known
  <2>6. \A j \in Integrations : Known(j)' = Known(j)
    BY <1>1, <2>3, <2>5, Zenon DEF Known
  <2>7. Custodies' = Custodies /\ Custodies[i] = "held"
    BY <1>1, <2>5, <2>6, CustodyStays, CustodyKnown, Zenon DEF Custodies
  <2>8. Keeper!Succeed(c, i)
    BY <1>1, <2>2, <2>7 DEF Keeper!Succeed, Keeper!Ends
  <2> QED
    BY <1>1, <2>8, Zenon DEF Keeper!Next
<1>3. CASE Answer(c, "NotFound") /\ stored' = stored
  <2>1. "NotFound" \in Codes \ {"none", "OK"}
    BY DEF Codes
  <2> QED
    BY <1>1, <1>3, <2>1, KeeperFails, Zenon
<1> QED
  BY <1>0, <1>2, <1>3 DEF Store

\* A failure loses the token a call was about to store, and nothing else.
LEMMA KeeperLoses ==
  ASSUME IInv, IInv', NEW c \in Calls, Fail(c)
  PROVE  Keeper!Next
<1>0. PICK i \in Integrations : i = call[c].id
  BY SMT DEF Fail, At, IInv, TypeOK
<1> DEFINE k == IF At(c, "refresh") THEN "RefreshFailed" ELSE "Internal"
<1>1. k \in Codes \ {"none", "OK"}
  BY DEF Codes
<1>2. /\ UNCHANGED <<status, stored, current>> /\ Answer(c, k)
      /\ call[c].pc # "idle" /\ call[c].pc # "done"
      /\ dropped' = [dropped EXCEPT ![i] = @ \/ At(c, "store")]
  BY <1>0 DEF Fail, At
<1>3. /\ i \in Integrations /\ dropped \in [Integrations -> BOOLEAN]
      /\ current \in [Integrations -> Nat]
  BY <1>2, SMT DEF IInv, TypeOK
<1>4. CASE At(c, "store")
  <2>1. dropped'[i] /\ \A j \in Integrations : j # i => dropped'[j] = dropped[j]
    BY <1>2, <1>3, <1>4, Zenon
  <2>2. ~ dropped[i] /\ current[i] # 0
    BY <1>0, <1>3, <1>4, SMT DEF IInv, TypeOK, StoresCurrent, CallState
  <2>3. status[i] # "none"
    BY <1>3, <2>2, SMT DEF IInv, StoredIsIssued
  <2>4. /\ Known(i) \in {"held", "gone"}
        /\ Known(i)' = IF Known(i) = "held" THEN "lost" ELSE Known(i)
        /\ \A j \in Integrations : j # i => Known(j)' = Known(j)
    BY <1>2, <2>1, <2>2, <2>3, Zenon DEF Known
  <2>5. /\ Custodies' = [Custodies EXCEPT ![i] = IF Known(i) = "held" THEN "lost"
                                                 ELSE Known(i)]
        /\ Custodies[i] = Known(i)
    BY <1>3, <2>4, CustodyStep, Zenon
  <2>6. call'[c].code = k /\ \A d \in Calls : d # c => call'[d] = call[d]
    BY <1>1, <1>2, AnswerFields, Zenon DEF IInv
  <2>7. Outcomes[c] = "none" /\ Outcomes' = [Outcomes EXCEPT ![c] = "failed"]
    BY <1>1, <1>2, <2>6, OutcomeStep, Unfinished, Zenon
  <2>8. current' = [current EXCEPT ![i] = current[i]]
    BY <1>2, <1>3, Zenon
  <2>9. Keeper!Lose(c, i)
    BY <1>3, <2>4, <2>5, <2>7, <2>8 DEF Keeper!Lose, Keeper!Ends
  <2> QED
    BY <1>3, <2>9, Zenon DEF Keeper!Next
<1>5. CASE ~ At(c, "store")
  <2>1. dropped' = dropped
    BY <1>2, <1>3, <1>5, Zenon
  <2> QED
    BY <1>1, <1>2, <2>1, KeeperFails, Zenon
<1> QED
  BY <1>4, <1>5

\* A call that starts is refused, or goes on to read the row.
LEMMA KeeperStarts ==
  ASSUME IInv, IInv', NEW c \in Calls, RefreshAccessToken(c)
  PROVE  [Keeper!Next]_(Keeper!vars)
<1>1. /\ UNCHANGED <<status, stored, current, dropped>> /\ call[c].pc # "done"
      /\ \A d \in Calls : d # c => call'[d] = call[d]
      /\ call'[c].code \in {"none", "NotActive", "NotFound"}
  BY SMT DEF IInv, TypeOK, RefreshAccessToken, CallState, At
<1>2. call[c].code = "none"
  BY <1>1, Unfinished
<1>3. Custodies' = Custodies /\ current' = current
  BY <1>1, CustodyStays, Zenon DEF Known
<1>4. CASE call'[c].code = "none"
  <2>1. Outcomes' = Outcomes
    BY <1>1, <1>2, <1>4, OutcomesStay, Zenon
  <2> QED
    BY <1>3, <2>1 DEF Keeper!vars
<1>5. CASE call'[c].code # "none"
  <2>1. call'[c].code \in Codes \ {"none"} /\ call'[c].code # "OK"
    BY <1>1, <1>5 DEF Codes
  <2>2. Outcomes[c] = "none" /\ Outcomes' = [Outcomes EXCEPT ![c] = "failed"]
    BY <1>1, <1>2, <2>1, OutcomeStep, Zenon
  <2>3. Keeper!Fail(c)
    BY <1>3, <2>2 DEF Keeper!Fail, Keeper!Ends
  <2> QED
    BY <2>3, Zenon DEF Keeper!Next
<1> QED
  BY <1>4, <1>5

\* Every step of the refreshes is one of TokenCustody's, or leaves it alone.
LEMMA KeeperStep ==
  ASSUME IInv, IInv', [Next]_vars
  PROVE  [Keeper!Next]_(Keeper!vars)
<1>1. CASE UNCHANGED vars
  <2>1. /\ status' = status /\ stored' = stored /\ current' = current /\ call' = call
        /\ dropped' = dropped
    BY <1>1 DEF vars
  <2>2. Custodies' = Custodies
    BY <2>1, CustodyStays, Zenon DEF Known
  <2>3. Outcomes' = Outcomes
    BY <2>1, OutcomesStay, Zenon
  <2> QED
    BY <2>1, <2>2, <2>3 DEF Keeper!vars
<1>2. ASSUME NEW i \in Integrations, NEW s \in {"CREATED", "ACTIVE", "REVOKED"},
             SetStatus(i, s)
      PROVE  [Keeper!Next]_(Keeper!vars)
  <2>1. /\ stored' = stored /\ current' = current /\ call' = call /\ dropped' = dropped
        /\ status[i] # "none" /\ status'[i] # "none"
        /\ \A j \in Integrations : j # i => status'[j] = status[j]
    BY <1>2, SMT DEF SetStatus, Present, IInv, TypeOK
  <2>2. Custodies' = Custodies
    BY <2>1, CustodyStays, Zenon DEF Known
  <2>3. Outcomes' = Outcomes
    BY <2>1, OutcomesStay, Zenon
  <2> QED
    BY <2>1, <2>2, <2>3 DEF Keeper!vars
<1>3. ASSUME NEW c \in Calls, RefreshRead(c)
      PROVE  [Keeper!Next]_(Keeper!vars)
  <2> DEFINE i == call[c].id
  <2>1. /\ UNCHANGED <<status, stored, current, dropped>> /\ call[c].pc # "done"
        /\ i \in Integrations /\ stored[i] \in Nat
        /\ Hold(c, "refresh", stored[i]) \/ Answer(c, "NotFound")
    BY <1>3, SMT DEF RefreshRead, IInv, TypeOK, CallState, At
  <2>2. CASE Hold(c, "refresh", stored[i])
    <3>1. /\ \A d \in Calls : d # c => call'[d] = call[d]
          /\ call'[c].code = call[c].code
      BY <2>1, <2>2, HoldFields, Zenon DEF IInv
    <3>2. Custodies' = Custodies /\ Outcomes' = Outcomes
      BY <2>1, <3>1, CustodyStays, OutcomesStay, Zenon DEF Known
    <3> QED
      BY <2>1, <3>2 DEF Keeper!vars
  <2>3. CASE Answer(c, "NotFound")
    <3>1. "NotFound" \in Codes \ {"none", "OK"}
      BY DEF Codes
    <3> QED
      BY <2>1, <2>3, <3>1, KeeperFails, Zenon
  <2> QED
    BY <2>1, <2>2, <2>3
<1>4. ASSUME NEW c \in Calls, Refused(c)
      PROVE  Keeper!Next
  <2>1. "RefreshFailed" \in Codes \ {"none", "OK"}
    BY DEF Codes
  <2>2. /\ UNCHANGED <<status, stored, current, dropped>> /\ call[c].pc # "done"
        /\ Answer(c, "RefreshFailed")
    BY <1>4 DEF Refused, At
  <2> QED
    BY <2>1, <2>2, KeeperFails, Zenon
<1> QED
  BY <1>1, <1>2, <1>3, <1>4, KeeperObtains, KeeperReleases, KeeperStarts, KeeperRenews,
     KeeperSucceeds, KeeperLoses, Zenon DEF Next

\* Refreshes that overlap, fail at any point and meet an uninstall implement
\* TokenCustody: the newest token is lost only by a refresh that fails, and a
\* refresh succeeds only with the newest token in hand (RefreshAccessToken).
THEOREM RefreshImplementsTokenCustody == Spec => ImplementsTokenCustody
<1>1. Init => Keeper!Init
  <2> SUFFICES ASSUME Init PROVE Keeper!Init
    OBVIOUS
  <2>1. \A i \in Integrations : Custody(i) = "none"
    BY DEF Init, Custody
  <2>2. \A c \in Calls : Outcome(c) = "none"
    BY DEF Init, Outcome
  <2> QED
    BY <2>1, <2>2 DEF Init, Keeper!Init, Custodies, Outcomes
<1>2. IInv /\ IInv' /\ [Next]_vars => [Keeper!Next]_(Keeper!vars)
  BY KeeperStep
<1> QED
  BY <1>1, <1>2, Invariance, PTL DEF Spec, ImplementsTokenCustody, Keeper!Spec
===============================================================================
