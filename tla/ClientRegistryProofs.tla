------------------------ MODULE ClientRegistryProofs ------------------------
(***************************************************************************)
(* The properties of ClientRegistry for any number of clients, platforms,  *)
(* names and calls.  IInv adds what a call holds between its two           *)
(* statements, and that what a CreateClient found stays true of the rows   *)
(* it saw: names are never written again.                                  *)
(***************************************************************************)
EXTENDS ClientRegistry, TLAPS

\* A call's record, with the sets of its fields made opaque.
LEMMA CallRecord ==
  ASSUME NEW s \in CallState
  PROVE  \E P, O, I, W, K : s \in [pc : P, op : O, id : I, write : W, code : K]
<1> DEFINE P == {"idle", "write", "done"}
           O == Ops \cup {None}
           I == Rows \cup {None}
           W == ClientStatus \cup PlatformStatus \cup Names \cup {None}
           K == Codes
<1>1. s \in [pc : P, op : O, id : I, write : W, code : K]
  BY DEF CallState
<1> HIDE DEF P, O, I, W, K
<1> WITNESS P, O, I, W, K
<1> QED
  BY <1>1

\* What Answer assigns and what it keeps.
LEMMA AnswerFields ==
  ASSUME TypeOK, NEW c \in Calls, NEW k \in Codes, Answer(c, k)
  PROVE  /\ call' \in [Calls -> CallState]
         /\ \A d \in Calls : d # c => call'[d] = call[d]
         /\ call'[c].pc = "done" /\ call'[c].code = k
         /\ call'[c].op = call[c].op /\ call'[c].id = call[c].id
<1> DEFINE q == [call[c] EXCEPT !.pc = "done", !.code = k]
<1>1. call \in [Calls -> CallState] /\ call[c] \in CallState
  BY DEF TypeOK
<1>2. q.pc = "done" /\ q.code = k /\ q.op = call[c].op /\ q.id = call[c].id
  <2>1. PICK P, O, I, W, K : call[c] \in [pc : P, op : O, id : I, write : W, code : K]
    BY <1>1, CallRecord
  <2> QED
    BY <2>1, Zenon
<1>3. q \in CallState
  BY <1>1, Zenon DEF CallState
<1>4. call' = [call EXCEPT ![c] = q]
  BY Zenon DEF Answer
<1> HIDE DEF q
<1> QED
  BY <1>1, <1>2, <1>3, <1>4, Zenon

LEMMA RecordFields ==
  ASSUME TypeOK, NEW c \in Calls, NEW q \in CallState, call' = [call EXCEPT ![c] = q]
  PROVE  /\ call' \in [Calls -> CallState] /\ call'[c] = q
         /\ \A d \in Calls : d # c => call'[d] = call[d]
  BY Zenon DEF TypeOK

LEMMA ReadStep ==
  ASSUME IInv, NEW c \in Calls, NEW q \in CallState,
         call[c].pc = "idle", call' = [call EXCEPT ![c] = q],
         q.pc = "write" => InFlight(q),
         q.op # "CreateClient", q.pc # "idle",
         ~ (q.op = "DeleteClient" /\ q.code = "OK"),
         UNCHANGED <<status, name, linked, history>>
  PROVE  IInv'
<1>1. /\ call' \in [Calls -> CallState] /\ call'[c] = q
      /\ \A d \in Calls : d # c => call'[d] = call[d]
  BY RecordFields, Zenon DEF IInv
<1>2. UNCHANGED <<status, name, linked, decided, raced, maker, known>>
  BY DEF history
<1>3. TypeOK'
  BY <1>1, <1>2, Zenon DEF IInv, TypeOK, Exists
<1>4. CallsOK'
  BY <1>1, <1>2, SMT DEF IInv, CallsOK, InFlight, Exists
<1>5. StatusIsLastDecision' /\ NamesakesOverlapped'
  BY <1>2, Zenon DEF IInv, StatusIsLastDecision, NamesakesOverlapped, Exists
<1>6. LookupsHold'
  BY <1>1, <1>2, SMT DEF IInv, LookupsHold, Creating, Exists
<1>7. MakersDone'
  BY <1>1, <1>2, SMT DEF IInv, TypeOK, MakersDone
<1>8. DeletionsHold' /\ DeletedOnce'
  BY <1>1, <1>2, SMT DEF IInv, DeletionsHold, DeletedOnce
<1> QED
  BY <1>3, <1>4, <1>5, <1>6, <1>7, <1>8 DEF IInv

LEMMA ReadInv ==
  ASSUME IInv, NEW c \in Calls, NEW op \in Ops \ {"CreateClient"},
         NEW rows \in SUBSET Rows, NEW settled, NEW code \in Codes, NEW w,
         Read(c, op, rows, settled, code, w),
         ~ (op = "DeleteClient" /\ code = "OK"),
         \A i \in rows : Exists(i) => w[i] \in ClientStatus \cup PlatformStatus \cup {None},
         \A i \in rows : Exists(i) =>
            InFlight([pc |-> "write", op |-> op, id |-> i, write |-> w[i], code |-> "none"])
  PROVE  IInv'
<1>1. PICK i \in rows :
         \/ AnswerAtOnce(c, op, i, "NotFound")
         \/ AnswerAtOnce(c, op, i, code)
         \/ Exists(i) /\ GoOn(c, op, i, w[i])
  BY DEF Read
<1>2. call[c].pc = "idle" /\ UNCHANGED <<status, name, linked, history>>
  BY DEF Read, Arrives
<1>3. ASSUME NEW k \in Codes, AnswerAtOnce(c, op, i, k),
             ~ (op = "DeleteClient" /\ k = "OK")
      PROVE  IInv'
  <2> DEFINE q == [pc |-> "done", op |-> op, id |-> i, write |-> None, code |-> k]
  <2>1. q \in CallState /\ q.pc = "done" /\ q.op = op /\ q.code = k
    BY DEF CallState
  <2>2. call' = [call EXCEPT ![c] = q]
    BY <1>3 DEF AnswerAtOnce
  <2> HIDE DEF q
  <2> QED
    BY <1>2, <1>3, <2>1, <2>2, ReadStep
<1>4. ASSUME Exists(i), GoOn(c, op, i, w[i])
      PROVE  IInv'
  <2> DEFINE q == [pc |-> "write", op |-> op, id |-> i, write |-> w[i], code |-> "none"]
  <2>1. q \in CallState /\ q.pc = "write" /\ q.op = op /\ q.code = "none"
    BY <1>4, SMT DEF CallState, Codes
  <2>2. call' = [call EXCEPT ![c] = q] /\ InFlight(q)
    BY <1>4 DEF GoOn
  <2> HIDE DEF q
  <2> QED
    BY <1>2, <2>1, <2>2, ReadStep
<1> QED
  BY <1>1, <1>3, <1>4 DEF Codes

-----------------------------------------------------------------------------
LEMMA CreateClientInv ==
  ASSUME IInv, NEW c \in Calls, CreateClient(c)
  PROVE  IInv'
<1>1. PICK n \in Names :
        \/ AnswerAtOnce(c, "CreateClient", None, "AlreadyExists")
        \/ ~ NameTaken(n) /\ GoOn(c, "CreateClient", None, n)
  BY DEF CreateClient
<1>2. /\ call[c].pc = "idle" /\ known' = [known EXCEPT ![c] = {i \in Clients : Exists(i)}]
      /\ UNCHANGED <<status, name, linked, decided, raced, maker>>
  BY DEF CreateClient, Arrives
<1>3. ASSUME NEW q \in CallState, call' = [call EXCEPT ![c] = q],
             q.op = "CreateClient", q.pc \in {"write", "done"},
             q.pc = "write" => q.write \in Names /\ ~ NameTaken(q.write)
      PROVE  IInv'
  <2>1. /\ call' \in [Calls -> CallState] /\ call'[c] = q
        /\ \A d \in Calls : d # c => call'[d] = call[d]
    BY <1>3, RecordFields, Zenon DEF IInv
  <2>2. /\ known' \in [Calls -> SUBSET Clients]
        /\ known'[c] = {i \in Clients : Exists(i)}
        /\ \A d \in Calls : d # c => known'[d] = known[d]
    BY <1>2, SMT DEF IInv, TypeOK
  <2>3. TypeOK'
    BY <1>2, <2>1, <2>2, Zenon DEF IInv, TypeOK, Exists
  <2>4. CallsOK'
    BY <1>2, <1>3, <2>1, SMT DEF IInv, CallsOK, InFlight, Exists
  <2>5. StatusIsLastDecision'
    BY <1>2, Zenon DEF IInv, StatusIsLastDecision, Exists
  <2>6. NamesakesOverlapped'
    BY <1>2, <2>2, SMT DEF IInv, TypeOK, MakersDone, NamesakesOverlapped, Exists
  <2>7. LookupsHold'
    BY <1>2, <1>3, <2>1, <2>2, SMT DEF IInv, LookupsHold, Creating, NameTaken, Exists, Gone
  <2>8. MakersDone'
    BY <1>2, <2>1, SMT DEF IInv, TypeOK, MakersDone
  <2>9. DeletionsHold' /\ DeletedOnce'
    BY <1>2, <1>3, <2>1, SMT DEF IInv, DeletionsHold, DeletedOnce
  <2> QED
    BY <2>3, <2>4, <2>5, <2>6, <2>7, <2>8, <2>9 DEF IInv
<1>4. CASE AnswerAtOnce(c, "CreateClient", None, "AlreadyExists")
  <2> DEFINE q == [pc |-> "done", op |-> "CreateClient", id |-> None,
                   write |-> None, code |-> "AlreadyExists"]
  <2>1. q \in CallState /\ q.pc = "done" /\ q.op = "CreateClient"
    BY SMT DEF CallState, Codes, Ops
  <2>2. call' = [call EXCEPT ![c] = q]
    BY <1>4 DEF AnswerAtOnce
  <2> HIDE DEF q
  <2> QED
    BY <1>3, <2>1, <2>2
<1>5. CASE ~ NameTaken(n) /\ GoOn(c, "CreateClient", None, n)
  <2> DEFINE q == [pc |-> "write", op |-> "CreateClient", id |-> None,
                   write |-> n, code |-> "none"]
  <2>1. q \in CallState /\ q.pc = "write" /\ q.op = "CreateClient" /\ q.write = n
    BY SMT DEF CallState, Codes, Ops
  <2>2. call' = [call EXCEPT ![c] = q]
    BY <1>5 DEF GoOn
  <2> HIDE DEF q
  <2> QED
    BY <1>3, <1>5, <2>1, <2>2
<1> QED
  BY <1>1, <1>4, <1>5

LEMMA CreateInsertInv ==
  ASSUME IInv, NEW c \in Calls, CreateInsert(c)
  PROVE  IInv'
<1>1. PICK i \in Clients :
        /\ status[i] = "absent"
        /\ status' = [status EXCEPT ![i] = "REGISTERED"]
        /\ decided' = [decided EXCEPT ![i] = "REGISTERED"]
        /\ name' = [name EXCEPT ![i] = call[c].write]
        /\ maker' = [maker EXCEPT ![i] = c]
  BY DEF CreateInsert
<1>2. /\ call[c].pc = "write" /\ call[c].op = "CreateClient" /\ call[c].write \in Names
      /\ UNCHANGED <<linked, raced, known>>
  BY DEF CreateInsert, Writes, IInv, CallsOK, InFlight
<1>3. /\ call' \in [Calls -> CallState]
      /\ \A d \in Calls : d # c => call'[d] = call[d]
      /\ call'[c].pc = "done" /\ call'[c].code = "OK"
      /\ call'[c].op = "CreateClient"
  <2>1. Answer(c, "OK") /\ TypeOK
    BY DEF CreateInsert, IInv
  <2> QED
    BY <1>2, <2>1, AnswerFields DEF Codes
<1>4. TypeOK'
  BY <1>1, <1>2, <1>3, RegistryAssumption, SMT DEF IInv, TypeOK, Exists, Gone, Rows,
     ClientStatus, PlatformStatus
<1>5. CallsOK'
  BY <1>1, <1>2, <1>3, SMT DEF IInv, TypeOK, CallsOK, InFlight, Exists, Gone, Rows
<1>6. StatusIsLastDecision'
  BY <1>1, <1>2, RegistryAssumption, SMT DEF IInv, TypeOK, StatusIsLastDecision, Exists, Rows
<1>7. LookupsHold'
  BY <1>1, <1>2, <1>3, RegistryAssumption, SMT DEF IInv, TypeOK, LookupsHold, Creating, Exists, Gone, Rows
<1>8. MakersDone'
  BY <1>1, <1>3, SMT DEF IInv, TypeOK, MakersDone
<1>9. NamesakesOverlapped'
  <2>1. ASSUME NEW j \in Clients, j # i, Exists(j), name[j] = call[c].write
        PROVE  j \notin known[c] /\ maker[j] # None /\ i \notin known[maker[j]]
    <3>1. j \notin known[c] /\ maker[j] # None
      BY <1>2, <2>1, Zenon DEF IInv, LookupsHold, Creating
    <3>2. maker[j] \in Calls
      BY <3>1, SMT DEF IInv, TypeOK
    <3> QED
      BY <1>1, <3>1, <3>2, Zenon DEF IInv, LookupsHold
  <2>2. \A j \in Clients : j # i => /\ name'[j] = name[j] /\ maker'[j] = maker[j]
                                    /\ Exists(j)' = Exists(j)
    BY <1>1, SMT DEF IInv, TypeOK, Exists, Rows
  <2>3. name'[i] = call[c].write /\ maker'[i] = c /\ c # None
    BY <1>1, RegistryAssumption, SMT DEF IInv, TypeOK
  <2> QED
    BY <1>2, <2>1, <2>2, <2>3, SMT DEF IInv, NamesakesOverlapped
<1>10. DeletionsHold' /\ DeletedOnce'
  BY <1>1, <1>3, SMT DEF IInv, TypeOK, DeletionsHold, DeletedOnce, Rows
<1> QED
  BY <1>4, <1>5, <1>6, <1>7, <1>8, <1>9, <1>10 DEF IInv

-----------------------------------------------------------------------------
\* A call that answers without writing anything.
LEMMA AnswerInv ==
  ASSUME IInv, NEW c \in Calls, NEW k \in Codes, Answer(c, k),
         call[c].pc = "write", call[c].op = "DeleteClient" => k # "OK",
         UNCHANGED <<status, name, linked, maker, known>>,
         decided' = decided /\ raced' = raced
  PROVE  IInv'
<1>1. /\ call' \in [Calls -> CallState]
      /\ \A d \in Calls : d # c => call'[d] = call[d]
      /\ call'[c].pc = "done" /\ call'[c].code = k /\ call'[c].op = call[c].op
  BY AnswerFields DEF IInv
<1>2. TypeOK'
  BY <1>1, Zenon DEF IInv, TypeOK, Exists
<1>3. CallsOK'
  BY <1>1, SMT DEF IInv, CallsOK, InFlight, Exists
<1>4. StatusIsLastDecision' /\ NamesakesOverlapped'
  BY Zenon DEF IInv, StatusIsLastDecision, NamesakesOverlapped, Exists
<1>5. LookupsHold'
  BY <1>1, SMT DEF IInv, LookupsHold, Creating, Exists
<1>6. MakersDone'
  BY <1>1, SMT DEF IInv, TypeOK, MakersDone
<1>7. DeletionsHold' /\ DeletedOnce'
  BY <1>1, SMT DEF IInv, DeletionsHold, DeletedOnce
<1> QED
  BY <1>2, <1>3, <1>4, <1>5, <1>6, <1>7 DEF IInv

LEMMA UpdateWriteInv ==
  ASSUME IInv, NEW c \in Calls, UpdateWrite(c)
  PROVE  IInv'
<1> DEFINE i == call[c].id
<1>1. /\ call[c].pc = "write" /\ call[c].op = "UpdateClient"
      /\ UNCHANGED <<name, linked, decided, raced, maker, known>>
  BY DEF UpdateWrite, Writes, history
<1>2. /\ i \in Clients /\ call[c].write \in ClientStatus
      /\ raced[i] \/ ~ Exists(i) \/ call[c].write = status[i]
  BY <1>1 DEF IInv, CallsOK, InFlight
<1>3. CASE ~ Exists(i)
  BY <1>1, <1>3, AnswerInv DEF UpdateWrite, UpdateStatus, Updatable, Codes
<1>4. CASE Exists(i)
  <2>1. status' = [status EXCEPT ![i] = call[c].write] /\ Answer(c, "OK")
    BY <1>4 DEF UpdateWrite, UpdateStatus, Updatable
  <2>2. /\ call' \in [Calls -> CallState]
        /\ \A d \in Calls : d # c => call'[d] = call[d]
        /\ call'[c].pc = "done" /\ call'[c].op = "UpdateClient"
    BY <1>1, <2>1, AnswerFields DEF IInv, Codes
  <2> HIDE DEF i
  <2>3. \A j \in Rows : Exists(j)' = Exists(j)
    BY <1>2, <1>4, <2>1, SMT DEF IInv, TypeOK, Exists, Gone, Rows, ClientStatus
  <2>4. TypeOK'
    BY <1>1, <1>2, <2>1, <2>2, <2>3, RegistryAssumption, SMT DEF IInv, TypeOK, Rows,
       ClientStatus, PlatformStatus
  <2>5. CallsOK'
    BY <1>1, <1>2, <2>1, <2>2, <2>3, SMT DEF IInv, TypeOK, CallsOK, InFlight, Rows,
       Exists, Gone, ClientStatus
  <2>6. StatusIsLastDecision'
    BY <1>1, <1>2, <1>4, <2>1, <2>3, RegistryAssumption, SMT DEF IInv, TypeOK,
       StatusIsLastDecision, Rows
  <2>7. LookupsHold'
    BY <1>1, <1>2, <2>1, <2>2, <2>3, SMT DEF IInv, TypeOK, LookupsHold, Creating, Rows,
       ClientStatus
  <2>8. MakersDone' /\ NamesakesOverlapped'
    BY <1>1, <2>2, <2>3, SMT DEF IInv, TypeOK, MakersDone, NamesakesOverlapped, Rows
  <2>9. DeletionsHold' /\ DeletedOnce'
    BY <1>1, <1>2, <1>4, <2>1, <2>2, SMT DEF IInv, TypeOK, DeletionsHold, DeletedOnce,
       Exists, Gone, Rows
  <2> QED
    BY <2>4, <2>5, <2>6, <2>7, <2>8, <2>9 DEF IInv
<1> QED
  BY <1>3, <1>4

LEMMA DecideWriteInv ==
  ASSUME IInv, NEW c \in Calls, DecideWrite(c)
  PROVE  IInv'
<1> DEFINE i == call[c].id
<1>1. /\ call[c].pc = "write" /\ call[c].op # "UpdateClient"
      /\ call[c].op # "DeleteClient" /\ call[c].op # "CreateClient"
      /\ UNCHANGED <<name, linked, maker, known>>
      /\ decided' = [decided EXCEPT ![i] = call[c].write]
      /\ raced' = [raced EXCEPT ![i] = Updating(i)]
  BY DEF DecideWrite, Writes
<1>2. \/ i \in Clients /\ call[c].write \in ClientStatus
      \/ i \in Platforms /\ call[c].write \in PlatformStatus
  BY <1>1, SMT DEF DecideWrite, Writes, IInv, CallsOK, InFlight
<1>3. \E k \in {"OK", "NotFound"} : Answer(c, k)
  BY DEF DecideWrite, UpdateStatus
<1>4. /\ call' \in [Calls -> CallState]
      /\ \A d \in Calls : d # c => call'[d] = call[d]
      /\ call'[c].pc = "done" /\ call'[c].op = call[c].op
  BY <1>3, AnswerFields DEF IInv, Codes
<1>5. \/ Exists(i) /\ status' = [status EXCEPT ![i] = call[c].write]
      \/ ~ Exists(i) /\ status' = status
  BY DEF DecideWrite, UpdateStatus, Updatable
<1>6. Updating(i) \in BOOLEAN
  BY Zenon DEF Updating
<1> HIDE DEF i
<1>7. \A j \in Rows : Exists(j)' = Exists(j)
  BY <1>2, <1>5, SMT DEF IInv, TypeOK, Exists, Gone, Rows, ClientStatus, PlatformStatus
<1>8. /\ i \in Rows /\ \A j \in Rows : j # i => status'[j] = status[j]
      /\ Exists(i) => status'[i] = call[c].write
      /\ ~ Exists(i) => status' = status
  BY <1>2, <1>5, SMT DEF IInv, TypeOK, Rows
<1>9. TypeOK'
  <2>1. status' \in [Rows -> ClientStatus \cup PlatformStatus \cup Gone]
    BY <1>2, <1>5, SMT DEF IInv, TypeOK
  <2>2. /\ \A j \in Clients : status'[j] \notin PlatformStatus
        /\ \A p \in Platforms : status'[p] \in PlatformStatus
    BY <1>2, <1>8, RegistryAssumption, SMT DEF IInv, TypeOK, Rows, ClientStatus, PlatformStatus
  <2>3. decided' \in [Rows -> ClientStatus \cup PlatformStatus \cup Gone]
    <3>1. call[c].write \in ClientStatus \cup PlatformStatus \cup Gone
      BY <1>2
    <3> QED
      BY <1>1, <3>1, Zenon DEF IInv, TypeOK
  <2>4. raced' \in [Rows -> BOOLEAN]
    BY <1>1, <1>6, Zenon DEF IInv, TypeOK
  <2>5. linked' \subseteq {j \in Clients : Exists(j)'}
    BY <1>1, <1>7, SMT DEF IInv, TypeOK, Rows
  <2> QED
    BY <1>1, <1>4, <2>1, <2>2, <2>3, <2>4, <2>5, Zenon DEF IInv, TypeOK
<1>10. CallsOK'
  <2>1. ASSUME NEW d \in Calls, call'[d].pc = "write"
        PROVE  InFlight(call[d])'
    <3>1. d # c /\ call'[d] = call[d] /\ InFlight(call[d])
      BY <1>4, <2>1, Zenon DEF IInv, CallsOK
    <3>2. call[d].op = "UpdateClient" =>
            raced'[call[d].id] \/ ~ Exists(call[d].id)' \/ call[d].write = status'[call[d].id]
      <4> SUFFICES ASSUME call[d].op = "UpdateClient"
                   PROVE  raced'[call[d].id] \/ ~ Exists(call[d].id)'
                          \/ call[d].write = status'[call[d].id]
        OBVIOUS
      <4>0. call[d].id \in Clients
        BY <3>1, SMT DEF InFlight
      <4>1. CASE call[d].id = i
        <5>1. Updating(i) = TRUE
          BY <2>1, <3>1, <4>1, Zenon DEF Updating, Writes
        <5> QED
          BY <1>1, <1>8, <4>1, <5>1, Zenon DEF IInv, TypeOK
      <4>2. CASE call[d].id # i
        <5>0. \/ raced[call[d].id] \/ ~ Exists(call[d].id)
              \/ call[d].write = status[call[d].id]
          BY <3>1 DEF InFlight
        <5>1. call[d].id \in Rows
          BY <4>0 DEF Rows
        <5>2. raced'[call[d].id] = raced[call[d].id] /\ status'[call[d].id] = status[call[d].id]
          BY <1>1, <1>8, <4>2, <5>1, Zenon DEF IInv, TypeOK
        <5>3. Exists(call[d].id)' = Exists(call[d].id)
          BY <1>7, <3>1, <5>1, Zenon
        <5> QED
          BY <5>0, <5>2, <5>3, Zenon
      <4> QED
        BY <4>1, <4>2
    <3>3. \A j \in Rows : status[j] # "absent" => status'[j] # "absent"
      BY <1>2, <1>8, SMT DEF ClientStatus, PlatformStatus
    <3>4. /\ call'[d].op = "CreateClient" => call'[d].write \in Names
          /\ call'[d].op \in {"UpdateClient", "DeleteClient", "ActivateClient",
                              "DeactivateClient"} =>
               call'[d].id \in Clients /\ status'[call'[d].id] # "absent"
          /\ call'[d].op \in {"UpdateClient", "ActivateClient", "DeactivateClient"} =>
               call'[d].write \in ClientStatus
          /\ call'[d].op \in {"EnablePlatform", "DisablePlatform"} =>
               call'[d].id \in Platforms /\ call'[d].write \in PlatformStatus
      BY <3>1, <3>3, SMT DEF InFlight, Rows
    <3> QED
      BY <3>1, <3>2, <3>4, Zenon DEF InFlight
  <2> QED
    BY <2>1, Zenon DEF CallsOK
<1>11. StatusIsLastDecision'
  <2>1. /\ decided'[i] = call[c].write
        /\ \A j \in Rows : j # i => decided'[j] = decided[j] /\ raced'[j] = raced[j]
    BY <1>1, <1>8, Zenon DEF IInv, TypeOK
  <2>2. \A p \in Platforms : Exists(p)
    BY SMT DEF IInv, TypeOK, Exists, Gone, PlatformStatus
  <2> QED
    BY <1>7, <1>8, <2>1, <2>2, SMT DEF IInv, StatusIsLastDecision, Rows
<1>12. LookupsHold'
  BY <1>1, <1>2, <1>4, <1>7, <1>8, SMT DEF IInv, TypeOK, LookupsHold, Creating, Rows,
     ClientStatus, PlatformStatus
<1>13. MakersDone' /\ NamesakesOverlapped'
  BY <1>1, <1>4, <1>7, SMT DEF IInv, TypeOK, MakersDone, NamesakesOverlapped, Rows
<1>14. DeletionsHold' /\ DeletedOnce'
  BY <1>1, <1>4, <1>8, SMTT(40) DEF IInv, TypeOK, DeletionsHold, DeletedOnce, Exists, Gone, Rows
<1> QED
  BY <1>9, <1>10, <1>11, <1>12, <1>13, <1>14 DEF IInv

LEMMA DeleteWriteInv ==
  ASSUME IInv, NEW c \in Calls, DeleteWrite(c)
  PROVE  IInv'
<1> DEFINE i == call[c].id
<1>1. /\ call[c].pc = "write" /\ call[c].op = "DeleteClient"
      /\ UNCHANGED <<name, linked, decided, raced, maker, known>>
      /\ i \in Clients
  BY DEF DeleteWrite, Writes, history, IInv, CallsOK, InFlight
<1>2. CASE status' = status
  <2>1. \E k \in {"NotFound", "FailedPrecondition"} : Answer(c, k)
    <3>1. Exists(i) /\ status' = [status EXCEPT ![i] = "deleted"] => FALSE
      BY <1>1, <1>2, SMT DEF IInv, TypeOK, Exists, Gone, Rows
    <3> QED
      BY <3>1 DEF DeleteWrite, Remove
  <2> QED
    BY <1>1, <1>2, <2>1, AnswerInv DEF Codes
<1>3. CASE /\ Exists(i) /\ i \notin linked
           /\ status' = [status EXCEPT ![i] = "deleted"] /\ Answer(c, "OK")
  <2>1. /\ call' \in [Calls -> CallState]
        /\ \A d \in Calls : d # c => call'[d] = call[d]
        /\ call'[c].pc = "done" /\ call'[c].op = "DeleteClient" /\ call'[c].id = i
    BY <1>1, <1>3, AnswerFields DEF IInv, Codes
  <2> HIDE DEF i
  <2>2. /\ status'[i] = "deleted" /\ \A j \in Rows : j # i => status'[j] = status[j]
        /\ status[i] # "deleted" /\ status[i] # "absent"
    BY <1>1, <1>3, SMT DEF IInv, TypeOK, Exists, Gone, Rows
  <2>3. \A j \in Rows : Exists(j)' => Exists(j)
    BY <1>1, <2>2, SMT DEF Exists, Gone
  <2>4. TypeOK'
    BY <1>1, <1>3, <2>1, <2>2, RegistryAssumption, SMT DEF IInv, TypeOK, Exists, Gone, Rows,
       PlatformStatus
  <2>5. CallsOK'
    BY <1>1, <2>1, <2>2, SMT DEF IInv, TypeOK, CallsOK, InFlight, Exists, Gone, Rows
  <2>6. StatusIsLastDecision'
    BY <1>1, <2>2, <2>3, RegistryAssumption, SMT DEF IInv, StatusIsLastDecision, Exists, Gone, Rows
  <2>7. LookupsHold'
    BY <1>1, <2>1, <2>2, <2>3, SMT DEF IInv, TypeOK, LookupsHold, Creating, Rows
  <2>8. MakersDone' /\ NamesakesOverlapped'
    BY <1>1, <2>1, <2>3, SMT DEF IInv, TypeOK, MakersDone, NamesakesOverlapped, Rows
  <2>9. DeletionsHold' /\ DeletedOnce'
    BY <1>1, <2>1, <2>2, SMT DEF IInv, DeletionsHold, DeletedOnce, Rows
  <2> QED
    BY <2>4, <2>5, <2>6, <2>7, <2>8, <2>9 DEF IInv
<1> QED
  BY <1>2, <1>3 DEF DeleteWrite, Remove, Removable

LEMMA LinkInv ==
  ASSUME IInv, NEW i \in Clients, Link(i) \/ Unlink(i)
  PROVE  IInv'
<1>1. UNCHANGED <<status, name, call, decided, raced, maker, known>>
  BY DEF Link, Unlink, history
<1>2. linked' \subseteq {j \in Clients : Exists(j)}
  BY SMT DEF Link, Unlink, IInv, TypeOK
<1>3. TypeOK'
  BY <1>1, <1>2, Zenon DEF IInv, TypeOK, Exists
<1>4. CallsOK' /\ StatusIsLastDecision'
  BY <1>1, Zenon DEF IInv, CallsOK, InFlight, StatusIsLastDecision, Exists
<1>5. LookupsHold' /\ MakersDone'
  BY <1>1, Zenon DEF IInv, LookupsHold, MakersDone, Creating, Exists
<1>6. NamesakesOverlapped' /\ DeletionsHold' /\ DeletedOnce'
  BY <1>1, Zenon DEF IInv, NamesakesOverlapped, DeletionsHold, DeletedOnce, Exists
<1> QED
  BY <1>3, <1>4, <1>5, <1>6 DEF IInv

-----------------------------------------------------------------------------
LEMMA InitInv == Init => IInv
<1> SUFFICES ASSUME Init PROVE IInv
  OBVIOUS
<1>1. /\ call = [c \in Calls |-> [pc |-> "idle", op |-> None, id |-> None,
                                  write |-> None, code |-> "none"]]
      /\ decided = status /\ raced = [i \in Rows |-> FALSE]
      /\ maker = [i \in Clients |-> None] /\ known = [c \in Calls |-> {}]
  BY DEF Init
<1>2. /\ call \in [Calls -> CallState]
      /\ \A c \in Calls : call[c].pc = "idle" /\ call[c].op = None /\ call[c].code = "none"
  BY <1>1, SMT DEF CallState, Codes
<1>3. /\ status \in [Rows -> ClientStatus \cup PlatformStatus \cup Gone]
      /\ \A i \in Clients : status[i] \notin PlatformStatus
      /\ \A p \in Platforms : status[p] \in PlatformStatus
  BY SMT DEF Init, Gone
<1>4. raced \in [Rows -> BOOLEAN] /\ maker \in [Clients -> Calls \cup {None}]
      /\ known \in [Calls -> SUBSET Clients]
  BY <1>1, Zenon
<1>5. linked \subseteq {i \in Clients : Exists(i)} /\ name \in [Clients -> Names \cup {None}]
  BY Zenon DEF Init
<1>6. TypeOK
  BY <1>1, <1>2, <1>3, <1>4, <1>5, Zenon DEF TypeOK
<1>7. CallsOK /\ LookupsHold /\ DeletionsHold /\ DeletedOnce
  BY <1>1, <1>2, SMT DEF CallsOK, LookupsHold, DeletionsHold, DeletedOnce, Creating
<1>8. StatusIsLastDecision
  BY <1>1, Zenon DEF StatusIsLastDecision
<1>9. MakersDone
  BY <1>1, Zenon DEF MakersDone
<1>10. NamesakesOverlapped
  BY Zenon DEF Init, NamesakesOverlapped
<1> QED
  BY <1>6, <1>7, <1>8, <1>9, <1>10 DEF IInv

LEMMA ReadsInv ==
  ASSUME IInv, NEW c \in Calls,
         \/ UpdateClient(c) \/ DeleteClient(c) \/ ActivateClient(c)
         \/ DeactivateClient(c) \/ EnablePlatform(c) \/ DisablePlatform(c)
  PROVE  IInv'
<1>1. \A i \in Rows : Exists(i) => status[i] # "absent"
  BY DEF Exists, Gone
<1>2. \A i \in Clients : Exists(i) => status[i] \in ClientStatus
  BY SMT DEF IInv, TypeOK, Exists, Rows
<1>3. ASSUME NEW op \in {"ActivateClient", "DeactivateClient"},
             NEW s \in {"ACTIVE", "CLOSED"}, Decide(c, op, Clients, s)
      PROVE  IInv'
  <2> DEFINE w == [i \in Clients |-> s]
  <2>1. \A i \in Clients : w[i] \in ClientStatus
    BY SMT DEF ClientStatus
  <2>2. Read(c, op, Clients, {s}, "OK", w)
    BY <1>3 DEF Decide
  <2> HIDE DEF w
  <2>3. \A i \in Clients : Exists(i) =>
          InFlight([pc |-> "write", op |-> op, id |-> i, write |-> w[i], code |-> "none"])
    BY <1>1, <2>1, SMT DEF InFlight, Rows
  <2>4. /\ op \in Ops \ {"CreateClient"} /\ op # "DeleteClient" /\ "OK" \in Codes
        /\ Clients \in SUBSET Rows
    BY SMT DEF Ops, Codes, Rows
  <2> QED
    BY <2>1, <2>2, <2>3, <2>4, ReadInv
<1>4. ASSUME NEW op \in {"EnablePlatform", "DisablePlatform"},
             NEW s \in PlatformStatus, Decide(c, op, Platforms, s)
      PROVE  IInv'
  <2> DEFINE w == [i \in Platforms |-> s]
  <2>1. \A i \in Platforms : w[i] \in PlatformStatus
    OBVIOUS
  <2>2. Read(c, op, Platforms, {s}, "OK", w)
    BY <1>4 DEF Decide
  <2> HIDE DEF w
  <2>3. \A i \in Platforms : Exists(i) =>
          InFlight([pc |-> "write", op |-> op, id |-> i, write |-> w[i], code |-> "none"])
    BY <2>1, SMT DEF InFlight
  <2>4. /\ op \in Ops \ {"CreateClient"} /\ op # "DeleteClient" /\ "OK" \in Codes
        /\ Platforms \in SUBSET Rows
    BY SMT DEF Ops, Codes, Rows
  <2> QED
    BY <2>1, <2>2, <2>3, <2>4, ReadInv
<1>5. CASE UpdateClient(c)
  <2>1. \A i \in Clients : Exists(i) =>
          InFlight([pc |-> "write", op |-> "UpdateClient", id |-> i, write |-> status[i],
                    code |-> "none"])
    BY <1>1, <1>2, SMT DEF InFlight, Rows
  <2>2. /\ "UpdateClient" \in Ops \ {"CreateClient"} /\ "OK" \in Codes
        /\ Clients \in SUBSET Rows
    BY SMT DEF Ops, Codes, Rows
  <2> QED
    BY <1>2, <1>5, <2>1, <2>2, ReadInv DEF UpdateClient
<1>6. CASE DeleteClient(c)
  <2> DEFINE w == [i \in Clients |-> None]
  <2>1. \A i \in Clients : w[i] = None
    OBVIOUS
  <2>2. Read(c, "DeleteClient", Clients, {"ACTIVE"}, "FailedPrecondition", w)
    BY <1>6 DEF DeleteClient
  <2> HIDE DEF w
  <2>3. \A i \in Clients : Exists(i) =>
          InFlight([pc |-> "write", op |-> "DeleteClient", id |-> i, write |-> w[i],
                    code |-> "none"])
    BY <1>1, SMT DEF InFlight, Rows
  <2>4. /\ "DeleteClient" \in Ops \ {"CreateClient"} /\ "FailedPrecondition" \in Codes
        /\ Clients \in SUBSET Rows
    BY SMT DEF Ops, Codes, Rows
  <2> QED
    BY <2>1, <2>2, <2>3, <2>4, ReadInv
<1> QED
  BY <1>3, <1>4, <1>5, <1>6 DEF ActivateClient, DeactivateClient, EnablePlatform,
     DisablePlatform, PlatformStatus

-----------------------------------------------------------------------------
LEMMA StutterInv ==
  ASSUME IInv, UNCHANGED vars
  PROVE  IInv'
<1>1. TypeOK'
  BY Zenon DEF IInv, TypeOK, Exists, vars
<1>2. CallsOK' /\ StatusIsLastDecision'
  BY Zenon DEF IInv, CallsOK, InFlight, StatusIsLastDecision, Exists, vars
<1>3. LookupsHold' /\ MakersDone'
  BY Zenon DEF IInv, LookupsHold, MakersDone, Creating, Exists, vars
<1>4. NamesakesOverlapped' /\ DeletionsHold' /\ DeletedOnce'
  BY Zenon DEF IInv, NamesakesOverlapped, DeletionsHold, DeletedOnce, Exists, vars
<1> QED
  BY <1>1, <1>2, <1>3, <1>4 DEF IInv

LEMMA StepInv == IInv /\ [Next]_vars => IInv'
<1> SUFFICES ASSUME IInv, [Next]_vars PROVE IInv'
  OBVIOUS
<1>1. ASSUME NEW c \in Calls, CreateClient(c) \/ CreateInsert(c)
      PROVE  IInv'
  BY <1>1, CreateClientInv, CreateInsertInv
<1>2. ASSUME NEW c \in Calls,
             \/ UpdateClient(c) \/ DeleteClient(c) \/ ActivateClient(c)
             \/ DeactivateClient(c) \/ EnablePlatform(c) \/ DisablePlatform(c)
      PROVE  IInv'
  BY <1>2, ReadsInv
<1>3. ASSUME NEW c \in Calls, UpdateWrite(c) \/ DecideWrite(c) \/ DeleteWrite(c)
      PROVE  IInv'
  BY <1>3, UpdateWriteInv, DecideWriteInv, DeleteWriteInv
<1>4. ASSUME NEW c \in Calls, Fail(c)
      PROVE  IInv'
  <2>1. /\ "Internal" \in Codes /\ Answer(c, "Internal") /\ call[c].pc = "write"
        /\ UNCHANGED <<status, name, linked, maker, known>>
        /\ decided' = decided /\ raced' = raced
    BY <1>4 DEF Fail, history, Codes
  <2> QED
    BY <2>1, AnswerInv
<1>5. ASSUME NEW i \in Clients, Link(i) \/ Unlink(i)
      PROVE  IInv'
  BY <1>5, LinkInv
<1>6. CASE UNCHANGED vars
  BY <1>6, StutterInv
<1> QED
  BY <1>1, <1>2, <1>3, <1>4, <1>5, <1>6 DEF Next

LEMMA Invariance == Spec => []IInv
<1>1. IInv /\ [Next]_vars => IInv'
  BY StepInv
<1> QED
  BY InitInv, <1>1, PTL DEF Spec

\* Rows and calls keep their shape, and no integration loses its client's row.
THEOREM RegistryTypeOK == Spec => []TypeOK
<1>1. IInv => TypeOK
  BY DEF IInv
<1> QED
  BY Invariance, <1>1, PTL

\* CreateClient's lookup and insert (clients_service.go:33-41): namesakes come
\* from overlapping calls only.
THEOREM NamesakesFromOverlap == Spec => []NamesakesOverlapped
<1>1. IInv => NamesakesOverlapped
  BY DEF IInv
<1> QED
  BY Invariance, <1>1, PTL

\* UpdateClient's write-back (clients_service.go:117) undoes a decision only
\* when it overlapped it.
THEOREM StatusFollowsDecisions == Spec => []StatusIsLastDecision
<1>1. IInv => StatusIsLastDecision
  BY DEF IInv
<1> QED
  BY Invariance, <1>1, PTL

\* At most one DeleteClient of a client succeeds (client_repo.go:107-116).
THEOREM OneDeletion == Spec => []DeletedOnce
<1>1. IInv => DeletedOnce
  BY DEF IInv
<1> QED
  BY Invariance, <1>1, PTL

\* A write that comes after the DELETE finds no row (client_repo.go:96-105).
THEOREM DeletionIsFinal == Spec => DeletedStaysDeleted
<1>1. IInv /\ [Next]_vars =>
        [\A i \in Clients : status[i] = "deleted" => status'[i] = "deleted"]_vars
  <2> SUFFICES ASSUME IInv, Next, NEW i \in Clients, status[i] = "deleted"
               PROVE  status'[i] = "deleted"
    OBVIOUS
  <2>1. ~ Exists(i)
    BY DEF Exists, Gone
  <2>2. ASSUME NEW j \in Rows, NEW s, status[j] = "absent" \/ Exists(j),
               status' = [status EXCEPT ![j] = s]
        PROVE  status'[i] = "deleted"
    BY <2>1, <2>2, SMT DEF IInv, TypeOK, Rows
  <2>3. ASSUME NEW c \in Calls, CreateInsert(c)
        PROVE  status'[i] = "deleted"
    BY <2>2, <2>3 DEF CreateInsert, Rows
  <2>4. ASSUME NEW c \in Calls, UpdateWrite(c) \/ DecideWrite(c) \/ DeleteWrite(c)
        PROVE  status'[i] = "deleted"
    <3>1. call[c].id \in Rows
      BY <2>4, SMT DEF UpdateWrite, DecideWrite, DeleteWrite, Writes, IInv, CallsOK,
         InFlight, Rows
    <3>2. \/ status' = status
          \/ /\ Exists(call[c].id)
             /\ \E s : status' = [status EXCEPT ![call[c].id] = s]
      BY <2>4, Zenon DEF UpdateWrite, DecideWrite, DeleteWrite, UpdateStatus, Updatable,
         Remove
    <3> QED
      BY <2>2, <3>1, <3>2
  <2>5. CASE status' = status
    BY <2>5
  <2> QED
    BY <2>3, <2>4, <2>5 DEF Next, CreateClient, UpdateClient, DeleteClient, ActivateClient,
       DeactivateClient, EnablePlatform, DisablePlatform, Decide, Read, Fail, Link, Unlink
<1> QED
  BY Invariance, <1>1, PTL DEF Spec, DeletedStaysDeleted
=============================================================================
