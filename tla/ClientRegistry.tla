---------------------------- MODULE ClientRegistry ----------------------------
(***************************************************************************)
(* The RPCs that write the tables clients and platforms.                   *)
(*                                                                         *)
(* Every RPC reads a row and then writes it without looking again: two     *)
(* statements and no transaction, so calls interleave between them, and a  *)
(* call may fail before either.  clients.client_name has no unique         *)
(* constraint, and an integration keeps its client's row from being        *)
(* deleted (ON DELETE RESTRICT).  GetClient, GetPlatform and the two lists *)
(* write nothing and are left out.                                         *)
(***************************************************************************)
CONSTANTS
    Clients,    \* ids of client rows (UUIDs: never drawn twice)
    Platforms,  \* ids of platform rows; no RPC creates or deletes one
    Names,      \* values of client_name
    Calls,      \* the RPCs of one behaviour
    None

Rows == Clients \cup Platforms
Ops == {"CreateClient", "UpdateClient", "DeleteClient", "ActivateClient",
        "DeactivateClient", "EnablePlatform", "DisablePlatform"}

ASSUME RegistryAssumption ==
    /\ Clients \cap Platforms = {}
    /\ None \notin Rows \cup Names \cup Calls \cup Ops

VARIABLES
    status,   \* clients.status, or platforms.enabled as a status
    name,     \* clients.client_name
    linked,   \* the clients that have an integration
    call,     \* the RPCs
    decided,  \* history: the status that was last decided upon
    raced,    \* history: did an UpdateClient overlap that decision?
    maker,    \* history: the call that inserted the row
    known     \* history: the clients there were when the call looked for its name

vars == <<status, name, linked, call, decided, raced, maker, known>>
history == <<decided, raced, maker, known>>

-------------------------------------------------------------------------------
ClientStatus == {"REGISTERED", "ACTIVE", "SUSPENDED", "CLOSED"}
PlatformStatus == {"ENABLED", "DISABLED"}
Gone == {"absent", "deleted"}
Codes == {"none", "OK", "NotFound", "AlreadyExists", "FailedPrecondition",
          "Internal"}

\* `write` is the status, or the name, that the second statement writes.
CallState ==
    [pc    : {"idle", "write", "done"},
     op    : Ops \cup {None},
     id    : Rows \cup {None},
     write : ClientStatus \cup PlatformStatus \cup Names \cup {None},
     code  : Codes]

Exists(i) == status[i] \notin Gone

\* Rows and calls have their shape, and every integration has its client.
TypeOK ==
    /\ status \in [Rows -> ClientStatus \cup PlatformStatus \cup Gone]
    /\ \A i \in Clients : status[i] \notin PlatformStatus
    /\ \A p \in Platforms : status[p] \in PlatformStatus
    /\ name \in [Clients -> Names \cup {None}]
    /\ linked \subseteq {i \in Clients : Exists(i)}
    /\ call \in [Calls -> CallState]
    /\ decided \in [Rows -> ClientStatus \cup PlatformStatus \cup Gone]
    /\ raced \in [Rows -> BOOLEAN]
    /\ maker \in [Clients -> Calls \cup {None}]
    /\ known \in [Calls -> SUBSET Clients]

\* Any table whose names are distinct; SUSPENDED is in the enum, although
\* no RPC writes it.
Init ==
    /\ status \in {s \in [Rows -> ClientStatus \cup PlatformStatus \cup {"absent"}] :
                     /\ \A i \in Clients : s[i] \notin PlatformStatus
                     /\ \A p \in Platforms : s[p] \in PlatformStatus}
    /\ name \in [Clients -> Names \cup {None}]
    /\ \A i \in Clients : Exists(i) <=> name[i] # None
    /\ \A i, j \in Clients : name[i] = name[j] /\ i # j => name[i] = None
    /\ linked \in SUBSET {i \in Clients : Exists(i)}
    /\ call = [c \in Calls |-> [pc |-> "idle", op |-> None, id |-> None,
                                write |-> None, code |-> "none"]]
    /\ decided = status
    /\ raced = [i \in Rows |-> FALSE]
    /\ maker = [i \in Clients |-> None]
    /\ known = [c \in Calls |-> {}]

-------------------------------------------------------------------------------
(* Control of a call *)

Arrives(c) == call[c].pc = "idle"
Writes(c, ops) == call[c].pc = "write" /\ call[c].op \in ops

Answer(c, code) == call' = [call EXCEPT ![c].pc = "done", ![c].code = code]
AnswerAtOnce(c, op, i, code) ==
    call' = [call EXCEPT ![c] = [pc |-> "done", op |-> op, id |-> i,
                                 write |-> None, code |-> code]]
GoOn(c, op, i, w) ==
    call' = [call EXCEPT ![c] = [pc |-> "write", op |-> op, id |-> i,
                                 write |-> w, code |-> "none"]]

-------------------------------------------------------------------------------
(* CreateClient *)

\* Mutant: only ACTIVE clients hold their names.
ActiveNameTaken(n) == \E i \in Clients : status[i] = "ACTIVE" /\ name[i] = n

\* GetByName
NameTaken(n) == \E i \in Clients : Exists(i) /\ name[i] = n

CreateClient(c) ==
    /\ Arrives(c)
    /\ \E n \in Names :
         IF NameTaken(n) THEN AnswerAtOnce(c, "CreateClient", None, "AlreadyExists")
                         ELSE GoOn(c, "CreateClient", None, n)
    /\ known' = [known EXCEPT ![c] = {i \in Clients : Exists(i)}]
    /\ UNCHANGED <<status, name, linked, decided, raced, maker>>

CreateInsert(c) ==
    /\ Writes(c, {"CreateClient"})
    /\ \E i \in Clients :
         /\ status[i] = "absent"
         /\ status' = [status EXCEPT ![i] = "REGISTERED"]
         /\ decided' = [decided EXCEPT ![i] = "REGISTERED"]
         /\ name' = [name EXCEPT ![i] = call[c].write]
         /\ maker' = [maker EXCEPT ![i] = c]
    /\ Answer(c, "OK")
    /\ UNCHANGED <<linked, raced, known>>

-------------------------------------------------------------------------------
(* The calls that take an id: GetByID, then a write of what was decided upon *)

\* A row whose status is in `settled` is answered with `code` and not written;
\* w gives what is to be written otherwise.
Read(c, op, rows, settled, code, w) ==
    /\ Arrives(c)
    /\ \E i \in rows :
         \/ ~ Exists(i) /\ AnswerAtOnce(c, op, i, "NotFound")
         \/ Exists(i) /\ status[i] \in settled /\ AnswerAtOnce(c, op, i, code)
         \/ Exists(i) /\ status[i] \notin settled /\ GoOn(c, op, i, w[i])
    /\ UNCHANGED <<status, name, linked, history>>

\* A method that sets the status s, unless the row has it.
Decide(c, op, rows, s) == Read(c, op, rows, {s}, "OK", [i \in rows |-> s])

\* Mutant: UpdateClient writes the default status.
UpdateAsRegistered(c) ==
    Read(c, "UpdateClient", Clients, {}, "OK", [i \in Clients |-> "REGISTERED"])

\* Writes back the status it read; the new name goes nowhere.
UpdateClient(c) == Read(c, "UpdateClient", Clients, {}, "OK", status)

DeleteClient(c) ==
    Read(c, "DeleteClient", Clients, {"ACTIVE"}, "FailedPrecondition",
         [i \in Clients |-> None])

ActivateClient(c) == Decide(c, "ActivateClient", Clients, "ACTIVE")
DeactivateClient(c) == Decide(c, "DeactivateClient", Clients, "CLOSED")

\* The UPDATE rewrites the whole row; nothing else writes the other columns.
EnablePlatform(c) == Decide(c, "EnablePlatform", Platforms, "ENABLED")
DisablePlatform(c) == Decide(c, "DisablePlatform", Platforms, "DISABLED")

\* Mutant: an upsert, which brings a deleted row back.
UpdatableAnyway(i) == status[i] # "absent"

\* UPDATE ... WHERE id RETURNING: no row is ErrNotFound.
Updatable(i) == Exists(i)

UpdateStatus(c) ==
    LET i == call[c].id IN
    IF Updatable(i)
    THEN status' = [status EXCEPT ![i] = call[c].write] /\ Answer(c, "OK")
    ELSE UNCHANGED status /\ Answer(c, "NotFound")

UpdateWrite(c) ==
    /\ Writes(c, {"UpdateClient"})
    /\ UpdateStatus(c)
    /\ UNCHANGED <<name, linked, history>>

Updating(i) == \E d \in Calls : Writes(d, {"UpdateClient"}) /\ call[d].id = i

DecideWrite(c) ==
    LET i == call[c].id IN
    /\ Writes(c, {"ActivateClient", "DeactivateClient", "EnablePlatform",
                  "DisablePlatform"})
    /\ UpdateStatus(c)
    /\ decided' = [decided EXCEPT ![i] = call[c].write]
    /\ raced' = [raced EXCEPT ![i] = Updating(i)]
    /\ UNCHANGED <<name, linked, maker, known>>

\* Mutant: no foreign key.
RemovableAnyway(i) == TRUE

\* fk_integration_client
Removable(i) == i \notin linked

\* Mutant: the number of rows is not looked at.
RemoveAnyway(c) ==
    LET i == call[c].id IN
    \/ i \in linked /\ Answer(c, "FailedPrecondition") /\ UNCHANGED status
    \/ /\ i \notin linked
       /\ status' = [status EXCEPT ![i] = "deleted"] /\ Answer(c, "OK")

Remove(c) ==
    LET i == call[c].id IN
    \/ /\ ~ Exists(i) /\ Answer(c, "NotFound") /\ UNCHANGED status
    \/ /\ Exists(i) /\ ~ Removable(i)
       /\ Answer(c, "FailedPrecondition") /\ UNCHANGED status
    \/ /\ Exists(i) /\ Removable(i)
       /\ status' = [status EXCEPT ![i] = "deleted"] /\ Answer(c, "OK")

DeleteWrite(c) ==
    /\ Writes(c, {"DeleteClient"})
    /\ Remove(c)
    /\ UNCHANGED <<name, linked, history>>

\* The second statement fails, or the context of the call ends; a first one
\* that fails has no effect at all.  (A write that commits and whose answer is lost
\* is left out: the call reports less than was done.)
Fail(c) ==
    /\ call[c].pc = "write"
    /\ Answer(c, "Internal")
    /\ UNCHANGED <<status, name, linked, history>>

-------------------------------------------------------------------------------
(* The integrations table, as far as the foreign key goes: rows come and go *)
(* as Installation.tla says.                                                *)

Link(i) ==
    /\ i \notin linked /\ Exists(i)
    /\ linked' = linked \cup {i}
    /\ UNCHANGED <<status, name, call, history>>

Unlink(i) ==
    /\ i \in linked
    /\ linked' = linked \ {i}
    /\ UNCHANGED <<status, name, call, history>>

-------------------------------------------------------------------------------
Next ==
    \/ \E c \in Calls :
         \/ CreateClient(c) \/ CreateInsert(c)
         \/ UpdateClient(c) \/ UpdateWrite(c)
         \/ DeleteClient(c) \/ DeleteWrite(c)
         \/ ActivateClient(c) \/ DeactivateClient(c)
         \/ EnablePlatform(c) \/ DisablePlatform(c) \/ DecideWrite(c)
         \/ Fail(c)
    \/ \E i \in Clients : Link(i) \/ Unlink(i)

Spec == Init /\ [][Next]_vars

-------------------------------------------------------------------------------
(* Correctness *)

\* Two clients share a name only if their CreateClient calls overlapped: each
\* looked for the name before the other had inserted its row.
NamesakesOverlapped ==
    \A i, j \in Clients :
        i # j /\ Exists(i) /\ Exists(j) /\ name[i] = name[j] =>
            /\ maker[i] # None /\ j \notin known[maker[i]]
            /\ maker[j] # None /\ i \notin known[maker[j]]

\* A client has the status it was last given by CreateClient, ActivateClient or
\* DeactivateClient, unless an UpdateClient that had read it before was still
\* to write it back; a platform has it without exception.
StatusIsLastDecision ==
    /\ \A i \in Clients : Exists(i) /\ ~ raced[i] => status[i] = decided[i]
    /\ \A p \in Platforms : status[p] = decided[p]

\* No late write brings a deleted client back.
DeletedStaysDeleted ==
    [][\A i \in Clients : status[i] = "deleted" => status'[i] = "deleted"]_vars

\* Of several DeleteClient calls for one client at most one is told it did it.
DeletedOnce ==
    \A c, d \in Calls :
        /\ call[c].op = "DeleteClient" /\ call[c].code = "OK"
        /\ call[d].op = "DeleteClient" /\ call[d].code = "OK"
        /\ call[c].id = call[d].id
        => c = d

-------------------------------------------------------------------------------
(* The inductive invariant behind the theorems of ClientRegistryProofs *)

\* What call q holds between its two statements: a value of the right kind, an
\* id that was there, and, for UpdateClient, a stale status only if raced.
InFlight(q) ==
    /\ q.op = "CreateClient" => q.write \in Names
    /\ q.op \in {"UpdateClient", "DeleteClient", "ActivateClient",
                 "DeactivateClient"} =>
         q.id \in Clients /\ status[q.id] # "absent"
    /\ q.op \in {"UpdateClient", "ActivateClient", "DeactivateClient"} =>
         q.write \in ClientStatus
    /\ q.op \in {"EnablePlatform", "DisablePlatform"} =>
         q.id \in Platforms /\ q.write \in PlatformStatus
    /\ q.op = "UpdateClient" =>
         raced[q.id] \/ ~ Exists(q.id) \/ q.write = status[q.id]
CallsOK == \A c \in Calls : call[c].pc = "write" => InFlight(call[c])

Creating(c) == call[c].pc = "write" /\ call[c].op = "CreateClient"

\* What a CreateClient found is still true of the rows it saw, and it saw every
\* row that no call has made.
LookupsHold ==
    \A c \in Calls :
        /\ \A i \in known[c] : status[i] # "absent"
        /\ Creating(c) => \A i \in Clients :
             /\ i \in known[c] /\ Exists(i) => name[i] # call[c].write
             /\ Exists(i) /\ maker[i] = None => i \in known[c]
MakersDone ==
    \A i \in Clients : maker[i] # None => call[maker[i]].pc = "done"

\* Whoever was told that the client is deleted finds it deleted.
DeletionsHold ==
    \A c \in Calls :
        call[c].op = "DeleteClient" /\ call[c].code = "OK" =>
            call[c].pc = "done" /\ call[c].id \in Clients
            /\ status[call[c].id] = "deleted"

IInv ==
    /\ TypeOK /\ CallsOK /\ StatusIsLastDecision
    /\ LookupsHold /\ MakersDone /\ NamesakesOverlapped
    /\ DeletionsHold /\ DeletedOnce
===============================================================================
