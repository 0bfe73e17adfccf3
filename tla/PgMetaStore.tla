---------------------------- MODULE PgMetaStore ----------------------------
(***************************************************************************)
(* The meta store as the code runs it: each operation is a transaction of  *)
(* SQL statements that other sessions' statements interleave with          *)
(* (libs/pg-meta-store/src/store/meta.rs).  A session is a connection of   *)
(* the pool serving one request.                                           *)
(*                                                                         *)
(* PostgreSQL is modelled at READ COMMITTED, from how the code uses it:    *)
(*   - a statement sees the rows committed before it, and what a           *)
(*     transaction wrote is published by its COMMIT (variables types and   *)
(*     conns are the committed rows, crow and trow what a session is about *)
(*     to write);                                                          *)
(*   - SELECT ... FOR UPDATE excludes every other row lock, FOR SHARE      *)
(*     excludes FOR UPDATE; a statement that must wait is not enabled, and *)
(*     when it proceeds it sees the latest version of the row, or none;    *)
(*   - writing a name that an uncommitted write uses waits for that        *)
(*     transaction, and fails when a committed row has it;                 *)
(*   - a transaction that ends, either way, releases its locks.            *)
(***************************************************************************)
EXTENDS StoreSchema, Naturals

CONSTANTS
    Sessions,       \* connections of the pool
    Requests,       \* requests the clients may make
    MaxRequests     \* bound: requests made in a behaviour

VARIABLES
    pc,             \* the statement a session executes next
    req,            \* the request a session serves
    crow,           \* the data_connections document a session will write
    trow,           \* the data_connection_types document a session will write
    connUpdate,     \* sessions holding FOR UPDATE on a connection row
    typeShare,      \* sessions holding FOR SHARE on a type row
    typeUpdate,     \* sessions holding FOR UPDATE on a type row
    issued,         \* identifiers drawn so far (Uuid::new_v4 draws a new one)
    result,         \* what the session's last request returned
    made            \* requests made so far

locks == <<connUpdate, typeShare, typeUpdate>>
vars == <<types, conns, pc, req, crow, trow, connUpdate, typeShare, typeUpdate,
          issued, result, made>>

(***************************************************************************)
(* Requests: the operations and their arguments.  An argument an operation *)
(* does not take, or a field a patch leaves out, is Null.                  *)
(***************************************************************************)
ConnUpdateOps == {"update_data_connection", "update_data_connection_status"}
ConnOps == ConnUpdateOps \cup {"create_data_connection"}
TypeOps == {"update_data_connection_type", "update_data_connection_type_status",
            "delete_data_connection_type"}
SingleOps == {"delete_data_connection", "create_data_connection_type"}

Request ==
    [op : {"create_data_connection"}, tenant : Tenants, conn : {Null},
     type : TypeIds, name : Names, status : {Null}]
    \cup
    [op : {"update_data_connection"}, tenant : Tenants, conn : ConnIds,
     type : TypeIds \cup {Null}, name : Names \cup {Null}, status : {Null}]
    \cup
    [op : {"update_data_connection_status"}, tenant : Tenants, conn : ConnIds,
     type : {Null}, name : {Null}, status : Statuses]
    \cup
    [op : {"delete_data_connection"}, tenant : Tenants, conn : ConnIds,
     type : {Null}, name : {Null}, status : {Null}]
    \cup
    [op : {"create_data_connection_type"}, tenant : Tenants, conn : {Null},
     type : {Null}, name : Names, status : {Null}]
    \cup
    [op : {"update_data_connection_type"}, tenant : Tenants, conn : {Null},
     type : TypeIds, name : Names \cup {Null}, status : {Null}]
    \cup
    [op : {"update_data_connection_type_status"}, tenant : Tenants, conn : {Null},
     type : TypeIds, name : {Null}, status : Statuses]
    \cup
    [op : {"delete_data_connection_type"}, tenant : Tenants, conn : {Null},
     type : TypeIds, name : {Null}, status : {Null}]

\* A request being served: create_data_connection draws its identifier late.
Served ==
    [op : ConnOps \cup TypeOps, tenant : Tenants, conn : ConnIds \cup {Null},
     type : TypeIds \cup {Null}, name : Names \cup {Null}, status : Statuses \cup {Null}]

ASSUME RequestsAssumption ==
    /\ Requests \subseteq Request
    /\ MaxRequests \in Nat
    /\ Null \notin Served

Statements == {"idle", "lock", "validate", "insert", "update", "count", "delete", "commit"}
Outcomes == {"none", "ok", "not_found", "unprocessable", "conflict", "error"}

Init ==
    /\ InitTables
    /\ pc = [s \in Sessions |-> "idle"]
    /\ req = [s \in Sessions |-> Null]
    /\ crow = [s \in Sessions |-> Null]
    /\ trow = [s \in Sessions |-> Null]
    /\ connUpdate = [c \in ConnIds |-> {}]
    /\ typeShare = [t \in TypeIds |-> {}]
    /\ typeUpdate = [t \in TypeIds |-> {}]
    /\ issued = {c \in ConnIds : conns[c] # Null} \cup {t \in TypeIds : types[t] # Null}
    /\ result = [s \in Sessions |-> "none"]
    /\ made = 0

(***************************************************************************)
(* Merge patch: a field the patch leaves out keeps its stored value.       *)
(***************************************************************************)
Patched(new, old) == IF new = Null THEN old ELSE new

At(s, statement, ops) == pc[s] = statement /\ req[s].op \in ops
Goto(s, statement) == pc' = [pc EXCEPT ![s] = statement]

(***************************************************************************)
(* The end of a transaction, by COMMIT or by ROLLBACK when the handle is   *)
(* dropped on an early return: the locks go, the session is free.          *)
(***************************************************************************)
Release(s) ==
    /\ connUpdate' = [c \in ConnIds |-> connUpdate[c] \ {s}]
    /\ typeShare' = [t \in TypeIds |-> typeShare[t] \ {s}]
    /\ typeUpdate' = [t \in TypeIds |-> typeUpdate[t] \ {s}]

End(s, outcome) ==
    /\ Goto(s, "idle")
    /\ req' = [req EXCEPT ![s] = Null]
    /\ crow' = [crow EXCEPT ![s] = Null]
    /\ trow' = [trow EXCEPT ![s] = Null]
    /\ result' = [result EXCEPT ![s] = outcome]
    /\ Release(s)
    /\ UNCHANGED made

Rollback(s, outcome) == End(s, outcome) /\ UNCHANGED <<types, conns, issued>>

(***************************************************************************)
(* The unique indexes meet uncommitted writes: another transaction that    *)
(* has executed its write and not yet committed uses the name, in the row  *)
(* it replaces or in the one it writes.                                    *)
(***************************************************************************)
UsesConnName(w, row) ==
    /\ At(w, "commit", ConnOps)
    /\ \/ NameKey(crow[w]) = NameKey(row)
       \/ conns[req[w].conn] # Null /\ NameKey(conns[req[w].conn]) = NameKey(row)

UsesTypeName(w, row) ==
    /\ At(w, "commit", TypeOps)
    /\ \/ NameKey(trow[w]) = NameKey(row)
       \/ NameKey(types[req[w].type]) = NameKey(row)

ConnNameBusy(s, row) == \E w \in Sessions \ {s} : UsesConnName(w, row)
TypeNameBusy(s, row) == \E w \in Sessions \ {s} : UsesTypeName(w, row)

-----------------------------------------------------------------------------
(***************************************************************************)
(* begin(): the session takes a request whose operation is a transaction   *)
(* of several statements.                                                  *)
(***************************************************************************)
Begin(s, r) ==
    /\ pc[s] = "idle"
    /\ made < MaxRequests
    /\ r.op \notin SingleOps
    /\ Goto(s, IF r.op = "create_data_connection" THEN "validate" ELSE "lock")
    /\ req' = [req EXCEPT ![s] = r]
    /\ result' = [result EXCEPT ![s] = "none"]
    /\ made' = made + 1
    /\ UNCHANGED <<types, conns, crow, trow, issued, locks>>

(***************************************************************************)
(* update_data_connection and update_data_connection_status: SELECT ...    *)
(* FOR UPDATE of the connection by id and tenant, then update_fn on the    *)
(* part of the document the operation is about.                            *)
(***************************************************************************)
UpdatedConnection(r, row) ==
    [row EXCEPT !.name = Patched(r.name, row.name),
                !.type = Patched(r.type, row.type),
                !.status = Patched(r.status, row.status)]

ConnMatches(r) == conns[r.conn] # Null /\ conns[r.conn].tenant = r.tenant

LockConnectionNoWait(s) ==
    /\ At(s, "lock", ConnUpdateOps)
    /\ LET c == req[s].conn IN
       IF ConnMatches(req[s])
       THEN /\ connUpdate' = [connUpdate EXCEPT ![c] = @ \cup {s}]
            /\ crow' = [crow EXCEPT ![s] = UpdatedConnection(req[s], conns[c])]
            /\ Goto(s, IF req[s].op = "update_data_connection" THEN "validate" ELSE "update")
            /\ UNCHANGED <<types, conns, req, trow, typeShare, typeUpdate, issued, result, made>>
       ELSE Rollback(s, "not_found")

LockConnection(s) ==
    /\ At(s, "lock", ConnUpdateOps)
    /\ LET c == req[s].conn IN
       IF ConnMatches(req[s])
       THEN /\ connUpdate[c] = {}
            /\ connUpdate' = [connUpdate EXCEPT ![c] = {s}]
            /\ crow' = [crow EXCEPT ![s] = UpdatedConnection(req[s], conns[c])]
            /\ Goto(s, IF req[s].op = "update_data_connection" THEN "validate" ELSE "update")
            /\ UNCHANGED <<types, conns, req, trow, typeShare, typeUpdate, issued, result, made>>
       ELSE Rollback(s, "not_found")

(***************************************************************************)
(* validate_connection_type: SELECT 1 ... FOR SHARE of the type the        *)
(* document being written refers to, if the tenant sees it.                *)
(***************************************************************************)
NewType(s) ==
    IF req[s].op = "create_data_connection" THEN req[s].type ELSE crow[s].type

ValidateConnectionType(s) ==
    /\ pc[s] = "validate"
    /\ LET t == NewType(s) IN
       IF VisibleType(req[s].tenant, t)
       THEN /\ typeUpdate[t] = {}
            /\ typeShare' = [typeShare EXCEPT ![t] = @ \cup {s}]
            /\ Goto(s, IF req[s].op = "create_data_connection" THEN "insert" ELSE "update")
            /\ UNCHANGED <<types, conns, req, crow, trow, connUpdate, typeUpdate,
                           issued, result, made>>
       ELSE Rollback(s, "unprocessable")

(***************************************************************************)
(* create_data_connection: INSERT under a new identifier, status NotReady; *)
(* a violated unique index is a Conflict.                                  *)
(***************************************************************************)
NewConnectionNoStatus(r) ==
    [tenant |-> r.tenant, name |-> r.name, type |-> r.type, status |-> Null]

NewConnection(r) ==
    [tenant |-> r.tenant, name |-> r.name, type |-> r.type, status |-> NotReady]

InsertConnection(s) ==
    /\ pc[s] = "insert"
    /\ LET row == NewConnection(req[s]) IN
       /\ ~ConnNameBusy(s, row)
       /\ \E c \in ConnIds \ issued :
          IF ConnNameTaken(c, row)
          THEN Rollback(s, "conflict")
          ELSE /\ crow' = [crow EXCEPT ![s] = row]
               /\ req' = [req EXCEPT ![s].conn = c]
               /\ issued' = issued \cup {c}
               /\ Goto(s, "commit")
               /\ UNCHANGED <<types, conns, trow, locks, result, made>>

(***************************************************************************)
(* UPDATE data_connections: the new document replaces the stored one; here *)
(* a violated unique index is reported like any other failure.             *)
(***************************************************************************)
UpdateConnection(s) ==
    /\ At(s, "update", ConnUpdateOps)
    /\ ~ConnNameBusy(s, crow[s])
    /\ IF ConnNameTaken(req[s].conn, crow[s])
       THEN Rollback(s, "error")
       ELSE /\ Goto(s, "commit")
            /\ UNCHANGED <<types, conns, req, crow, trow, locks, issued, result, made>>

(***************************************************************************)
(* COMMIT: the write is published.  The answer may be lost with the        *)
(* connection, and then the caller is told the operation failed.           *)
(***************************************************************************)
CommitConnection(s) ==
    /\ At(s, "commit", ConnOps)
    /\ conns' = [conns EXCEPT ![req[s].conn] = crow[s]]
    /\ \E outcome \in {"ok", "error"} : End(s, outcome)
    /\ UNCHANGED <<types, issued>>

-----------------------------------------------------------------------------
(***************************************************************************)
(* update_data_connection_type, update_data_connection_type_status and     *)
(* delete_data_connection_type: SELECT ... FOR UPDATE of the type.  The    *)
(* status update selects by id alone, the others by id and tenant, so a    *)
(* tenant cannot change a global type it sees.                             *)
(***************************************************************************)
UpdatedType(r, row) ==
    [row EXCEPT !.name = Patched(r.name, row.name),
                !.status = Patched(r.status, row.status)]

TypeMatches(r) ==
    /\ types[r.type] # Null
    /\ r.op # "update_data_connection_type_status" => types[r.type].tenant = r.tenant

LockType(s) ==
    /\ At(s, "lock", TypeOps)
    /\ LET t == req[s].type IN
       IF TypeMatches(req[s])
       THEN /\ typeUpdate[t] = {} /\ typeShare[t] = {}
            /\ typeUpdate' = [typeUpdate EXCEPT ![t] = {s}]
            /\ trow' = [trow EXCEPT ![s] = UpdatedType(req[s], types[t])]
            /\ Goto(s, IF req[s].op = "delete_data_connection_type" THEN "count" ELSE "update")
            /\ UNCHANGED <<types, conns, req, crow, connUpdate, typeShare, issued, result, made>>
       ELSE Rollback(s, "not_found")

UpdateType(s) ==
    /\ At(s, "update", TypeOps)
    /\ ~TypeNameBusy(s, trow[s])
    /\ IF TypeNameTaken(req[s].type, trow[s])
       THEN Rollback(s, "error")
       ELSE /\ Goto(s, "commit")
            /\ UNCHANGED <<types, conns, req, crow, trow, locks, issued, result, made>>

(***************************************************************************)
(* delete_data_connection_type: a count of the connections of any tenant  *)
(* that refer to the type, then DELETE.                                    *)
(***************************************************************************)
CountReferencesOfTenant(s) ==
    /\ pc[s] = "count"
    /\ IF {c \in References(req[s].type) : conns[c].tenant = req[s].tenant} # {}
       THEN Rollback(s, "conflict")
       ELSE /\ Goto(s, "delete")
            /\ UNCHANGED <<types, conns, req, crow, trow, locks, issued, result, made>>

\* The refusal is returned from inside a transaction that is left open.
CountReferencesLeavingOpen(s) ==
    /\ pc[s] = "count"
    /\ IF References(req[s].type) # {}
       THEN /\ Goto(s, "idle")
            /\ req' = [req EXCEPT ![s] = Null]
            /\ trow' = [trow EXCEPT ![s] = Null]
            /\ result' = [result EXCEPT ![s] = "conflict"]
            /\ UNCHANGED <<types, conns, crow, locks, issued, made>>
       ELSE /\ Goto(s, "delete")
            /\ UNCHANGED <<types, conns, req, crow, trow, locks, issued, result, made>>

CountReferences(s) ==
    /\ pc[s] = "count"
    /\ IF References(req[s].type) # {}
       THEN Rollback(s, "conflict")
       ELSE /\ Goto(s, "delete")
            /\ UNCHANGED <<types, conns, req, crow, trow, locks, issued, result, made>>

DeleteTypeRow(s) ==
    /\ pc[s] = "delete"
    /\ Goto(s, "commit")
    /\ UNCHANGED <<types, conns, req, crow, trow, locks, issued, result, made>>

CommitType(s) ==
    /\ At(s, "commit", TypeOps)
    /\ types' = [types EXCEPT ![req[s].type] =
                    IF req[s].op = "delete_data_connection_type" THEN Null ELSE trow[s]]
    /\ \E outcome \in {"ok", "error"} : End(s, outcome)
    /\ UNCHANGED <<conns, issued>>

(***************************************************************************)
(* A transaction ends without committing: a statement or update_fn fails,  *)
(* the connection breaks, the request is dropped or the service stops.     *)
(***************************************************************************)
Abort(s) ==
    /\ pc[s] # "idle"
    /\ Rollback(s, "error")

-----------------------------------------------------------------------------
(***************************************************************************)
(* Operations of a single statement on the pool, committed with it: its    *)
(* answer may be lost, or it fails and nothing is written.                 *)
(***************************************************************************)
Single(s, outcome) ==
    /\ made' = made + 1
    /\ result' = [result EXCEPT ![s] = outcome]
    /\ UNCHANGED <<pc, req, crow, trow, locks>>

DeleteConnection(s, r) ==
    /\ pc[s] = "idle"
    /\ made < MaxRequests
    /\ r.op = "delete_data_connection"
    /\ IF ConnMatches(r)
       THEN /\ connUpdate[r.conn] = {}
            /\ conns' = [conns EXCEPT ![r.conn] = Null]
            /\ \E outcome \in {"ok", "error"} : Single(s, outcome)
       ELSE UNCHANGED conns /\ Single(s, "not_found")
    /\ UNCHANGED <<types, issued>>

NewConnectionType(r) == [tenant |-> r.tenant, name |-> r.name, status |-> NoStatus]

CreateType(s, r) ==
    /\ pc[s] = "idle"
    /\ made < MaxRequests
    /\ r.op = "create_data_connection_type"
    /\ LET row == NewConnectionType(r) IN
       /\ ~TypeNameBusy(s, row)
       /\ \E t \in TypeIds \ issued :
          IF TypeNameTaken(t, row)
          THEN UNCHANGED <<types, issued>> /\ Single(s, "conflict")
          ELSE /\ types' = [types EXCEPT ![t] = row]
               /\ issued' = issued \cup {t}
               /\ \E outcome \in {"ok", "error"} : Single(s, outcome)
    /\ UNCHANGED conns

SingleFails(s, r) ==
    /\ pc[s] = "idle"
    /\ made < MaxRequests
    /\ r.op \in SingleOps
    /\ Single(s, "error")
    /\ UNCHANGED <<types, conns, issued>>

Statement(s) ==
    \/ LockConnection(s) \/ ValidateConnectionType(s) \/ InsertConnection(s)
    \/ UpdateConnection(s) \/ CommitConnection(s)
    \/ LockType(s) \/ UpdateType(s) \/ CountReferences(s) \/ DeleteTypeRow(s)
    \/ CommitType(s)

Next ==
    \E s \in Sessions :
        \/ \E r \in Requests :
              \/ Begin(s, r)
              \/ DeleteConnection(s, r) \/ CreateType(s, r) \/ SingleFails(s, r)
        \/ Statement(s)
        \/ Abort(s)

(***************************************************************************)
(* The service polls a transaction it has begun until it ends.             *)
(***************************************************************************)
Fairness == \A s \in Sessions : WF_vars(Statement(s))

Spec == Init /\ [][Next]_vars
FairSpec == Spec /\ Fairness

-----------------------------------------------------------------------------
TypeOK ==
    /\ types \in [TypeIds -> TypeRow \cup {Null}]
    /\ conns \in [ConnIds -> ConnRow \cup {Null}]
    /\ pc \in [Sessions -> Statements]
    /\ req \in [Sessions -> Served \cup {Null}]
    /\ crow \in [Sessions -> ConnRow \cup {Null}]
    /\ trow \in [Sessions -> TypeRow \cup {Null}]
    /\ connUpdate \in [ConnIds -> SUBSET Sessions]
    /\ typeShare \in [TypeIds -> SUBSET Sessions]
    /\ typeUpdate \in [TypeIds -> SUBSET Sessions]
    /\ issued \subseteq ConnIds \cup TypeIds
    /\ result \in [Sessions -> Outcomes]
    /\ made \in 0..MaxRequests

(***************************************************************************)
(* Deadlock freedom.  w stands in the way of the next statement of s.  A   *)
(* transaction only ever waits for one that has come further through its   *)
(* statements, so no two transactions wait for each other, however their   *)
(* statements interleave: the connection row is locked before the type     *)
(* row, and a name is claimed last.                                        *)
(***************************************************************************)
WaitsFor(s, w) ==
    \/ /\ At(s, "lock", ConnUpdateOps) /\ ConnMatches(req[s])
       /\ w \in connUpdate[req[s].conn]
    \/ /\ At(s, "lock", TypeOps) /\ TypeMatches(req[s])
       /\ w \in typeUpdate[req[s].type] \cup typeShare[req[s].type]
    \/ /\ pc[s] = "validate" /\ VisibleType(req[s].tenant, NewType(s))
       /\ w \in typeUpdate[NewType(s)]
    \/ /\ pc[s] = "insert" /\ w # s /\ UsesConnName(w, NewConnection(req[s]))
    \/ /\ At(s, "update", ConnOps) /\ w # s /\ UsesConnName(w, crow[s])
    \/ /\ At(s, "update", TypeOps) /\ w # s /\ UsesTypeName(w, trow[s])

Progress(s) ==
    CASE pc[s] = "idle" -> 0
      [] pc[s] = "lock" /\ req[s].op \in ConnUpdateOps -> 1
      [] pc[s] = "lock" /\ req[s].op \in TypeOps -> 2
      [] pc[s] = "validate" -> 2
      [] pc[s] = "commit" -> 4
      [] OTHER -> 3

WaitsGoForward ==
    \A s, w \in Sessions : WaitsFor(s, w) => Progress(s) < Progress(w)

(***************************************************************************)
(* The transactions behave as the atomic operations of ConnectionStore.    *)
(***************************************************************************)
Atomic == INSTANCE ConnectionStore
AtomicOperations == Atomic!Spec

(***************************************************************************)
(* Every transaction ends once it is begun, whatever it has to wait for.   *)
(***************************************************************************)
TransactionsEnd == \A s \in Sessions : pc[s] # "idle" ~> pc[s] = "idle"
=============================================================================
