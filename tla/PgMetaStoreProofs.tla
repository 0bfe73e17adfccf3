------------------------- MODULE PgMetaStoreProofs -------------------------
(***************************************************************************)
(* Proofs about PgMetaStore, for any sets of sessions, tenants, names,     *)
(* identifiers and requests.  The inductive invariant IInv says what a     *)
(* session may rely on between two of its statements because of the row    *)
(* locks it holds; everything else follows from it.                        *)
(***************************************************************************)
EXTENDS PgMetaStore, TLAPS

Has(s, ops, statements) == pc[s] \in statements /\ req[s].op \in ops

(***************************************************************************)
(* A session's request fits the statement it is at, and is the one that    *)
(* was made until an INSERT has drawn the new identifier.                  *)
(***************************************************************************)
Inserted(s) == Has(s, {"create_data_connection"}, {"commit"})

WellFormed ==
    \A s \in Sessions : pc[s] # "idle" =>
        /\ req[s] # Null
        /\ ~Inserted(s) => req[s] \in Requests
        /\ Inserted(s) => /\ req[s].conn \in ConnIds
                          /\ req[s].type \in TypeIds
                          /\ crow[s] = NewConnection(req[s])
                          /\ crow[s] \in ConnRow
        /\ \/ Has(s, {"create_data_connection"}, {"validate", "insert", "commit"})
           \/ Has(s, {"update_data_connection"}, {"lock", "validate", "update", "commit"})
           \/ Has(s, {"update_data_connection_status"}, {"lock", "update", "commit"})
           \/ Has(s, {"update_data_connection_type", "update_data_connection_type_status"},
                  {"lock", "update", "commit"})
           \/ Has(s, {"delete_data_connection_type"}, {"lock", "count", "delete", "commit"})

(***************************************************************************)
(* Row locks exclude each other, and only a transaction that took one      *)
(* holds it.                                                               *)
(***************************************************************************)
Exclusive ==
    /\ \A c \in ConnIds : \A s, u \in connUpdate[c] : s = u
    /\ \A t \in TypeIds : \A s \in typeUpdate[t] :
          \A u \in typeUpdate[t] \cup typeShare[t] : s = u

Holders ==
    /\ \A c \in ConnIds : \A s \in connUpdate[c] :
          Has(s, ConnUpdateOps, {"validate", "update", "commit"}) /\ req[s].conn = c
    /\ \A t \in TypeIds : \A s \in typeShare[t] :
          \/ Has(s, {"create_data_connection"}, {"insert", "commit"})
          \/ Has(s, {"update_data_connection"}, {"update", "commit"})
    /\ \A t \in TypeIds : \A s \in typeUpdate[t] :
          Has(s, TypeOps, {"update", "count", "delete", "commit"}) /\ req[s].type = t

(***************************************************************************)
(* What a lock protects.  A locked connection is still there and is the    *)
(* one the new document was computed from.                                 *)
(***************************************************************************)
ConnHeld(s) ==
    /\ req[s].conn \in ConnIds
    /\ s \in connUpdate[req[s].conn]
    /\ conns[req[s].conn] # Null
    /\ conns[req[s].conn].tenant = req[s].tenant
    /\ crow[s] # Null
    /\ crow[s].tenant = req[s].tenant
    /\ req[s].op = "update_data_connection" => crow[s].status = conns[req[s].conn].status
    /\ req[s].op = "update_data_connection_status" =>
          /\ crow[s].name = conns[req[s].conn].name
          /\ crow[s].type = conns[req[s].conn].type

ConnsHeld ==
    \A s \in Sessions :
        Has(s, ConnUpdateOps, {"validate", "update", "commit"}) => ConnHeld(s)

\* The type a document refers to stays visible from its validation to the commit.
Validated(s) ==
    \/ Has(s, {"create_data_connection"}, {"insert", "commit"})
    \/ Has(s, {"update_data_connection"}, {"update", "commit"})

TypesShared ==
    \A s \in Sessions : Validated(s) =>
        /\ NewType(s) \in TypeIds
        /\ s \in typeShare[NewType(s)]
        /\ VisibleType(req[s].tenant, NewType(s))

TypeHeld(s) ==
    /\ req[s].type \in TypeIds
    /\ s \in typeUpdate[req[s].type]
    /\ types[req[s].type] # Null
    /\ trow[s] # Null
    /\ trow[s].tenant = types[req[s].type].tenant
    /\ req[s].op = "update_data_connection_type" => trow[s].status = types[req[s].type].status
    /\ req[s].op = "update_data_connection_type_status" => trow[s].name = types[req[s].type].name

TypesHeld ==
    \A s \in Sessions :
        Has(s, TypeOps, {"update", "count", "delete", "commit"}) => TypeHeld(s)

\* The count stays zero until the delete commits.
Unreferenced ==
    \A s \in Sessions : Has(s, {"delete_data_connection_type"}, {"delete", "commit"}) =>
        \A c \in ConnIds : conns[c] # Null => conns[c].type # req[s].type

(***************************************************************************)
(* Identifiers are new, and a name that is about to be committed is free.  *)
(***************************************************************************)
FreshIds ==
    /\ \A c \in ConnIds : conns[c] # Null => c \in issued
    /\ \A t \in TypeIds : types[t] # Null => t \in issued
    /\ \A s \in Sessions : Inserted(s) =>
          req[s].conn \in issued /\ conns[req[s].conn] = Null
    /\ \A s, u \in Sessions :
          Inserted(s) /\ Inserted(u) /\ req[s].conn = req[u].conn => s = u

WritesConn(s) == Has(s, ConnOps, {"commit"})
WritesType(s) == Has(s, TypeOps \ {"delete_data_connection_type"}, {"commit"})

NamesFree ==
    /\ \A s \in Sessions : WritesConn(s) => ~ConnNameTaken(req[s].conn, crow[s])
    /\ \A s \in Sessions : WritesType(s) => ~TypeNameTaken(req[s].type, trow[s])
    /\ \A s, u \in Sessions :
          WritesConn(s) /\ WritesConn(u) /\ NameKey(crow[s]) = NameKey(crow[u]) => s = u
    /\ \A s, u \in Sessions :
          WritesType(s) /\ WritesType(u) /\ NameKey(trow[s]) = NameKey(trow[u]) => s = u

IInv ==
    /\ TypeOK
    /\ WellFormed
    /\ Exclusive
    /\ Holders
    /\ ConnsHeld
    /\ TypesShared
    /\ TypesHeld
    /\ Unreferenced
    /\ FreshIds
    /\ NamesFree
    /\ ReferencesResolve
    /\ UniqueNames

-----------------------------------------------------------------------------
(***************************************************************************)
(* What each kind of request carries.                                      *)
(***************************************************************************)
LEMMA RequestFields ==
    ASSUME NEW r \in Requests
    PROVE  /\ r.op \in ConnOps \cup TypeOps \cup SingleOps
           /\ r.tenant \in Tenants
           /\ r.op \notin SingleOps => r \in Served
           /\ r.op = "create_data_connection" => r.type \in TypeIds /\ r.name \in Names
           /\ r.op \in ConnUpdateOps \cup {"delete_data_connection"} => r.conn \in ConnIds
           /\ r.op = "update_data_connection" =>
                 /\ r.type \in TypeIds \cup {Null}
                 /\ r.name \in Names \cup {Null}
                 /\ r.status = Null
           /\ r.op = "update_data_connection_status" =>
                 r.type = Null /\ r.name = Null /\ r.status \in Statuses
           /\ r.op \in TypeOps => r.type \in TypeIds
           /\ r.op = "create_data_connection_type" => r.name \in Names
           /\ r.op = "update_data_connection_type" =>
                 r.name \in Names \cup {Null} /\ r.status = Null
           /\ r.op = "update_data_connection_type_status" =>
                 r.name = Null /\ r.status \in Statuses
           /\ r.op = "delete_data_connection_type" => r.name = Null /\ r.status = Null
BY RequestsAssumption DEF Request, Served, ConnOps, TypeOps, SingleOps, ConnUpdateOps

LEMMA InitIInv == Init => IInv
<1> SUFFICES ASSUME Init PROVE IInv
    OBVIOUS
<1> USE DEF Init, InitTables
<1>1. TypeOK
    BY InitAssumption, RequestsAssumption DEF TypeOK, Statements, Outcomes
<1>2. WellFormed /\ Exclusive /\ Holders
    BY DEF WellFormed, Exclusive, Holders
<1>3. ConnsHeld /\ TypesShared /\ TypesHeld /\ Unreferenced /\ NamesFree
    BY DEF ConnsHeld, TypesShared, Validated, TypesHeld, Unreferenced, NamesFree,
           WritesConn, WritesType, Has
<1>4. FreshIds
    BY DEF FreshIds, Inserted, Has
<1>5. ReferencesResolve /\ UniqueNames
    BY InitAssumption DEF ReferencesResolve, UniqueNames, VisibleType
<1> QED
    BY <1>1, <1>2, <1>3, <1>4, <1>5 DEF IInv

(***************************************************************************)
(* A transaction that rolls back leaves the tables alone and only gives    *)
(* up what it held.                                                        *)
(***************************************************************************)
LEMMA RollbackIInv ==
    ASSUME IInv, NEW s \in Sessions, NEW outcome \in Outcomes, Rollback(s, outcome)
    PROVE  IInv'
<1> USE DEF IInv, Rollback, End, Release, Goto
<1>1. TypeOK'
    BY DEF TypeOK, Statements
<1>2. WellFormed'
    BY DEF TypeOK, WellFormed, Inserted, Has, NewConnection
<1>3. Exclusive' /\ Holders'
    BY DEF TypeOK, Exclusive, Holders, Has
<1>4. ConnsHeld'
    BY DEF TypeOK, ConnsHeld, ConnHeld, Has, WellFormed
<1>5. TypesShared'
    BY DEF TypeOK, TypesShared, Validated, VisibleType, NewType, Has
<1>6. TypesHeld' /\ Unreferenced'
    BY DEF TypeOK, TypesHeld, TypeHeld, Unreferenced, Has
<1>7. FreshIds' /\ NamesFree'
    BY DEF TypeOK, FreshIds, NamesFree, Inserted, WritesConn, WritesType,
           ConnNameTaken, TypeNameTaken, Has
<1>8. ReferencesResolve' /\ UniqueNames'
    BY DEF ReferencesResolve, UniqueNames, VisibleType
<1> QED
    BY <1>1, <1>2, <1>3, <1>4, <1>5, <1>6, <1>7, <1>8

(***************************************************************************)
(* Beginning a transaction takes no lock and writes nothing.               *)
(***************************************************************************)
LEMMA BeginIInv ==
    ASSUME IInv, NEW s \in Sessions, NEW r \in Requests, Begin(s, r)
    PROVE  IInv'
<1> USE DEF IInv, Begin, Goto, locks
<1>0. r \in Served /\ r # Null
    BY RequestFields, RequestsAssumption
<1>1. TypeOK'
    BY <1>0, RequestsAssumption DEF TypeOK, Statements, Outcomes
<1>2. WellFormed'
    BY <1>0, RequestFields DEF TypeOK, WellFormed, Inserted, Has, NewConnection, SingleOps,
           ConnOps, ConnUpdateOps, TypeOps
<1>3. Exclusive' /\ Holders'
    BY DEF TypeOK, Exclusive, Holders, Has
<1>4. ConnsHeld'
    BY DEF TypeOK, ConnsHeld, ConnHeld, Has, WellFormed, ConnUpdateOps
<1>5. TypesShared'
    BY DEF TypeOK, TypesShared, Validated, VisibleType, NewType, Has
<1>6. TypesHeld' /\ Unreferenced'
    BY DEF TypeOK, TypesHeld, TypeHeld, Unreferenced, Has
<1>7. FreshIds' /\ NamesFree'
    BY DEF TypeOK, FreshIds, NamesFree, Inserted, WritesConn, WritesType,
           ConnNameTaken, TypeNameTaken, Has
<1>8. ReferencesResolve' /\ UniqueNames'
    BY DEF ReferencesResolve, UniqueNames, VisibleType
<1> QED
    BY <1>1, <1>2, <1>3, <1>4, <1>5, <1>6, <1>7, <1>8

(***************************************************************************)
(* A statement that writes nothing yet: whoever is about to commit is      *)
(* another session, with the document and the identifier it had.           *)
(***************************************************************************)
LEMMA NotYetWriting ==
    ASSUME TypeOK, FreshIds, NamesFree, NEW s \in Sessions, NEW x \in Statements \ {"commit"},
           pc' = [pc EXCEPT ![s] = x],
           \A u \in Sessions \ {s} : crow'[u] = crow[u] /\ trow'[u] = trow[u],
           UNCHANGED <<conns, types, issued, req>>
    PROVE  FreshIds' /\ NamesFree'
<1>1. \A u \in Sessions : pc'[u] = "commit" =>
          u # s /\ pc[u] = "commit" /\ crow'[u] = crow[u] /\ trow'[u] = trow[u]
    BY DEF TypeOK
<1>2. \A u \in Sessions : Inserted(u)' => Inserted(u)
    BY <1>1 DEF Inserted, Has
<1>3. \A u \in Sessions : WritesConn(u)' => WritesConn(u) /\ crow'[u] = crow[u]
    BY <1>1 DEF WritesConn, Has
<1>4. \A u \in Sessions : WritesType(u)' => WritesType(u) /\ trow'[u] = trow[u]
    BY <1>1 DEF WritesType, Has
<1>5. FreshIds'
    BY <1>2 DEF FreshIds
<1>6. \A u \in Sessions : WritesConn(u)' => ~ConnNameTaken(req[u].conn, crow[u])'
    BY <1>3 DEF NamesFree, ConnNameTaken
<1>7. \A u \in Sessions : WritesType(u)' => ~TypeNameTaken(req[u].type, trow[u])'
    BY <1>4 DEF NamesFree, TypeNameTaken
<1>8. \A u, v \in Sessions : WritesConn(u)' /\ WritesConn(v)'
          /\ NameKey(crow[u])' = NameKey(crow[v])' => u = v
    BY <1>3 DEF NamesFree, NameKey
<1>9. \A u, v \in Sessions : WritesType(u)' /\ WritesType(v)'
          /\ NameKey(trow[u])' = NameKey(trow[v])' => u = v
    BY <1>4 DEF NamesFree, NameKey
<1> QED
    BY <1>5, <1>6, <1>7, <1>8, <1>9 DEF NamesFree

(***************************************************************************)
(* FOR UPDATE on a connection: the new document is computed from the row   *)
(* the lock protects.                                                      *)
(***************************************************************************)
LEMMA LockConnectionIInv ==
    ASSUME IInv, NEW s \in Sessions, LockConnection(s)
    PROVE  IInv'
<1>1. CASE ~ConnMatches(req[s])
    BY <1>1, RollbackIInv DEF LockConnection, Outcomes
<1>2. CASE ConnMatches(req[s])
  <2> USE DEF IInv, LockConnection, Goto, At, ConnMatches
  <2>1. /\ req[s] \in Requests
        /\ req[s] \in Served
        /\ req[s].conn \in ConnIds
        /\ conns[req[s].conn] \in ConnRow
        /\ req[s].op \in ConnUpdateOps
    BY <1>2, RequestFields DEF WellFormed, Inserted, Has, TypeOK, ConnUpdateOps, ConnOps, TypeOps
  <2> DEFINE old == conns[req[s].conn]
             new == UpdatedConnection(req[s], old)
  <2>2. /\ new \in ConnRow
        /\ new.tenant = old.tenant
        /\ req[s].op = "update_data_connection" => new.status = old.status
        /\ req[s].op = "update_data_connection_status" =>
              new.name = old.name /\ new.type = old.type
    BY <2>1, RequestFields DEF UpdatedConnection, Patched, ConnRow, ConnUpdateOps
  <2>3. TypeOK'
    BY <1>2, <2>1, <2>2 DEF TypeOK, Statements
  <2>4. WellFormed'
    BY <1>2, <2>1 DEF TypeOK, WellFormed, Inserted, Has, NewConnection, ConnUpdateOps
  <2>5. Exclusive' /\ Holders'
    BY <1>2, <2>1 DEF TypeOK, Exclusive, Holders, Has, ConnUpdateOps
  <2>6. ConnsHeld'
    <3>1. crow'[s] = new /\ new # Null /\ s \in connUpdate'[req[s].conn]
      BY <1>2, <2>1, <2>2, ConstantsAssumption DEF TypeOK
    <3> HIDE DEF new
    <3>2. ConnHeld(s)'
      BY <1>2, <2>1, <2>2, <3>1 DEF ConnHeld
    <3> QED
      BY <1>2, <2>1, <3>2 DEF TypeOK, ConnsHeld, ConnHeld, Has
  <2>7. TypesShared'
    BY <1>2, <2>1 DEF TypeOK, TypesShared, Validated, VisibleType, NewType, Has, ConnUpdateOps
  <2>8. TypesHeld' /\ Unreferenced'
    BY <1>2, <2>1 DEF TypeOK, TypesHeld, TypeHeld, Unreferenced, Has, ConnUpdateOps, TypeOps
  <2>9. FreshIds' /\ NamesFree'
    BY <1>2, <2>1, NotYetWriting DEF TypeOK, Statements
  <2>10. ReferencesResolve' /\ UniqueNames'
    BY <1>2 DEF ReferencesResolve, UniqueNames, VisibleType
  <2> QED
    BY <2>3, <2>4, <2>5, <2>6, <2>7, <2>8, <2>9, <2>10
<1> QED
    BY <1>1, <1>2

(***************************************************************************)
(* FOR SHARE on a type that the tenant sees: it stays visible while the    *)
(* lock is held.                                                           *)
(***************************************************************************)
LEMMA ValidateIInv ==
    ASSUME IInv, NEW s \in Sessions, ValidateConnectionType(s)
    PROVE  IInv'
<1> DEFINE t == NewType(s)
<1>1. CASE ~VisibleType(req[s].tenant, t)
    BY <1>1, RollbackIInv DEF ValidateConnectionType, Outcomes
<1>2. CASE VisibleType(req[s].tenant, t)
  <2> USE DEF IInv, ValidateConnectionType, Goto
  <2>1. /\ req[s] \in Requests
        /\ req[s] \in Served
        /\ req[s].op \in {"create_data_connection", "update_data_connection"}
        /\ t \in TypeIds
    <3>1. /\ req[s] \in Requests
          /\ req[s] \in Served
          /\ req[s].op \in {"create_data_connection", "update_data_connection"}
      BY DEF WellFormed, Inserted, Has, TypeOK
    <3>2. CASE req[s].op = "create_data_connection"
      BY <3>1, <3>2, RequestFields DEF NewType
    <3>3. CASE req[s].op = "update_data_connection"
      BY <3>1, <3>3 DEF NewType, ConnsHeld, ConnHeld, Has, ConnUpdateOps, TypeOK, ConnRow
    <3> QED
      BY <3>1, <3>2, <3>3
  <2>2. TypeOK'
    BY <1>2, <2>1 DEF TypeOK, Statements
  <2>3. WellFormed'
    BY <1>2, <2>1 DEF TypeOK, WellFormed, Inserted, Has, NewConnection
  <2>4. Exclusive' /\ Holders'
    <3>1. /\ typeShare' = [typeShare EXCEPT ![t] = @ \cup {s}]
          /\ typeUpdate[t] = {}
          /\ UNCHANGED <<connUpdate, typeUpdate, req>>
          /\ \A u \in Sessions \ {s} : pc'[u] = pc[u]
          /\ pc'[s] = IF req[s].op = "create_data_connection" THEN "insert" ELSE "update"
      BY <1>2 DEF TypeOK
    <3>2. Exclusive'
      BY <2>1, <3>1 DEF TypeOK, Exclusive
    <3>3. /\ \A c \in ConnIds : \A u \in connUpdate'[c] :
                Has(u, ConnUpdateOps, {"validate", "update", "commit"})' /\ req'[u].conn = c
          /\ \A d \in TypeIds : \A u \in typeUpdate'[d] :
                Has(u, TypeOps, {"update", "count", "delete", "commit"})' /\ req'[u].type = d
      BY <2>1, <3>1 DEF TypeOK, Holders, Has, ConnUpdateOps, TypeOps
    <3>4. \A d \in TypeIds : \A u \in typeShare'[d] :
             \/ Has(u, {"create_data_connection"}, {"insert", "commit"})'
             \/ Has(u, {"update_data_connection"}, {"update", "commit"})'
      BY <2>1, <3>1 DEF TypeOK, Holders, Has
    <3> QED
      BY <3>2, <3>3, <3>4 DEF Holders
  <2>5. ConnsHeld'
    BY <1>2, <2>1 DEF TypeOK, ConnsHeld, ConnHeld, Has, ConnUpdateOps
  <2>6. TypesShared'
    BY <1>2, <2>1 DEF TypeOK, TypesShared, Validated, VisibleType, NewType, Has
  <2>7. TypesHeld' /\ Unreferenced'
    BY <1>2, <2>1 DEF TypeOK, TypesHeld, TypeHeld, Unreferenced, Has, TypeOps
  <2>8. FreshIds' /\ NamesFree'
    <3>1. PICK x \in {"insert", "update"} : pc' = [pc EXCEPT ![s] = x]
      BY <1>2
    <3>2. UNCHANGED <<conns, types, issued, req, crow, trow>>
      BY <1>2
    <3> QED
      BY <3>1, <3>2, NotYetWriting DEF Statements
  <2>9. ReferencesResolve' /\ UniqueNames'
    BY <1>2 DEF ReferencesResolve, UniqueNames, VisibleType
  <2> QED
    BY <2>2, <2>3, <2>4, <2>5, <2>6, <2>7, <2>8, <2>9
<1> QED
    BY <1>1, <1>2

(***************************************************************************)
(* INSERT under a new identifier, of a name nobody has or is about to have.*)
(***************************************************************************)
LEMMA InsertConnectionIInv ==
    ASSUME IInv, NEW s \in Sessions, InsertConnection(s)
    PROVE  IInv'
<1> DEFINE row == NewConnection(req[s])
<1>1. PICK c \in ConnIds \ issued :
        IF ConnNameTaken(c, row)
        THEN Rollback(s, "conflict")
        ELSE /\ crow' = [crow EXCEPT ![s] = row]
             /\ req' = [req EXCEPT ![s].conn = c]
             /\ issued' = issued \cup {c}
             /\ Goto(s, "commit")
             /\ UNCHANGED <<types, conns, trow, locks, result, made>>
    BY DEF InsertConnection
<1>2. CASE ConnNameTaken(c, row)
    BY <1>1, <1>2, RollbackIInv DEF Outcomes
<1>3. CASE ~ConnNameTaken(c, row)
  <2> USE DEF IInv, Goto, locks
  <2>1. /\ pc[s] = "insert"
        /\ ~ConnNameBusy(s, row)
        /\ req[s] \in Requests
        /\ req[s] \in Served
        /\ req[s].op = "create_data_connection"
        /\ req[s].type \in TypeIds /\ req[s].name \in Names /\ req[s].tenant \in Tenants
    BY RequestFields DEF InsertConnection, WellFormed, Inserted, Has, TypeOK
  <2>2. row \in ConnRow /\ row.type = req[s].type
    BY <2>1, ConstantsAssumption DEF NewConnection, ConnRow
  <2>3. /\ req'[s] \in Served
        /\ req'[s].conn = c
        /\ req'[s].op = req[s].op /\ req'[s].type = req[s].type
        /\ req'[s].tenant = req[s].tenant /\ req'[s].name = req[s].name
        /\ \A u \in Sessions \ {s} : req'[u] = req[u]
        /\ NewConnection(req'[s]) = row
    BY <1>1, <1>3, <2>1 DEF TypeOK, Served, NewConnection
  <2>4. crow'[s] = row /\ \A u \in Sessions \ {s} : crow'[u] = crow[u]
    BY <1>1, <1>3 DEF TypeOK
  <2>5. pc'[s] = "commit" /\ \A u \in Sessions \ {s} : pc'[u] = pc[u]
    BY <1>1, <1>3 DEF TypeOK
  <2> HIDE DEF row
  <2>6. TypeOK'
    BY <1>1, <1>3, <2>1, <2>2, <2>3 DEF TypeOK, Statements
  <2>7. WellFormed'
    BY <1>1, <1>3, <2>1, <2>2, <2>3, <2>4, <2>5, RequestsAssumption
       DEF TypeOK, WellFormed, Inserted, Has, NewConnection
  <2>8. Exclusive' /\ Holders'
    BY <1>1, <1>3, <2>1, <2>3, <2>5 DEF TypeOK, Exclusive, Holders, Has, ConnUpdateOps, TypeOps
  <2>9. ConnsHeld'
    BY <1>1, <1>3, <2>1, <2>3, <2>4, <2>5 DEF ConnsHeld, ConnHeld, Has, ConnUpdateOps
  <2>10. TypesShared'
    BY <1>1, <1>3, <2>1, <2>3, <2>4, <2>5 DEF TypesShared, Validated, VisibleType, NewType, Has
  <2>11. TypesHeld' /\ Unreferenced'
    BY <1>1, <1>3, <2>1, <2>3, <2>5 DEF TypesHeld, TypeHeld, Unreferenced, Has, TypeOps
  <2>12. FreshIds'
    BY <1>1, <1>3, <2>1, <2>3, <2>5 DEF FreshIds, Inserted, Has
  <2>13. NamesFree'
    <3>1. \A u \in Sessions \ {s} : WritesConn(u) => NameKey(crow[u]) # NameKey(row)
      BY <2>1 DEF ConnNameBusy, UsesConnName, At, WritesConn, Has
    <3>2. /\ \A u \in Sessions \ {s} : WritesConn(u)' <=> WritesConn(u)
          /\ \A u \in Sessions \ {s} : WritesType(u)' <=> WritesType(u)
          /\ ~WritesType(s)'
      BY <2>1, <2>3, <2>5 DEF WritesConn, WritesType, Has, TypeOps
    <3>3. \A d \in ConnIds \ {c} : conns[d] # Null => NameKey(conns[d]) # NameKey(row)
      BY <1>3 DEF ConnNameTaken
    <3> QED
      BY <1>1, <1>3, <2>3, <2>4, <3>1, <3>2, <3>3
         DEF NamesFree, ConnNameTaken, TypeNameTaken, NameKey
  <2>14. ReferencesResolve' /\ UniqueNames'
    BY <1>1, <1>3 DEF ReferencesResolve, UniqueNames, VisibleType
  <2> QED
    BY <2>6, <2>7, <2>8, <2>9, <2>10, <2>11, <2>12, <2>13, <2>14
<1> QED
    BY <1>2, <1>3

(***************************************************************************)
(* UPDATE of a connection: as for the INSERT, the name is free.            *)
(***************************************************************************)
LEMMA UpdateConnectionIInv ==
    ASSUME IInv, NEW s \in Sessions, UpdateConnection(s)
    PROVE  IInv'
<1>1. CASE ConnNameTaken(req[s].conn, crow[s])
    BY <1>1, RollbackIInv DEF UpdateConnection, Outcomes
<1>2. CASE ~ConnNameTaken(req[s].conn, crow[s])
  <2> USE DEF IInv, UpdateConnection, Goto, At, locks
  <2>1. req[s].op \in ConnUpdateOps /\ pc[s] = "update" /\ ~Inserted(s)
    BY DEF Inserted, Has
  <2>2. pc'[s] = "commit" /\ \A u \in Sessions \ {s} : pc'[u] = pc[u]
    BY <1>2 DEF TypeOK
  <2>3. TypeOK'
    BY <1>2 DEF TypeOK, Statements
  <2>4. WellFormed'
    BY <1>2, <2>1, <2>2 DEF WellFormed, Inserted, Has, NewConnection, ConnUpdateOps
  <2>5. Exclusive' /\ Holders'
    BY <1>2, <2>1, <2>2 DEF TypeOK, Exclusive, Holders, Has, ConnUpdateOps, TypeOps
  <2>6. ConnsHeld'
    BY <1>2, <2>1, <2>2 DEF ConnsHeld, ConnHeld, Has
  <2>7. TypesShared'
    BY <1>2, <2>1, <2>2 DEF TypesShared, Validated, VisibleType, NewType, Has, ConnUpdateOps
  <2>8. TypesHeld' /\ Unreferenced'
    BY <1>2, <2>1, <2>2 DEF TypesHeld, TypeHeld, Unreferenced, Has, TypeOps, ConnUpdateOps
  <2>9. FreshIds'
    BY <1>2, <2>1, <2>2 DEF FreshIds, Inserted, Has, ConnUpdateOps
  <2>10. NamesFree'
    <3>1. \A u \in Sessions \ {s} : WritesConn(u) => NameKey(crow[u]) # NameKey(crow[s])
      BY DEF ConnNameBusy, UsesConnName, WritesConn, Has
    <3>2. /\ \A u \in Sessions \ {s} : WritesConn(u)' <=> WritesConn(u)
          /\ \A u \in Sessions \ {s} : WritesType(u)' <=> WritesType(u)
          /\ ~WritesType(s)'
      BY <1>2, <2>1, <2>2 DEF WritesConn, WritesType, Has, TypeOps, ConnUpdateOps
    <3> QED
      BY <1>2, <3>1, <3>2 DEF NamesFree, ConnNameTaken, TypeNameTaken, NameKey
  <2>11. ReferencesResolve' /\ UniqueNames'
    BY <1>2 DEF ReferencesResolve, UniqueNames, VisibleType
  <2> QED
    BY <2>3, <2>4, <2>5, <2>6, <2>7, <2>8, <2>9, <2>10, <2>11
<1> QED
    BY <1>1, <1>2

(***************************************************************************)
(* COMMIT of a connection: the row another session holds is another row,   *)
(* and the type the new document refers to is share-locked, so nobody is   *)
(* past the count of its references.                                       *)
(***************************************************************************)
LEMMA CommitConnectionIInv ==
    ASSUME IInv, NEW s \in Sessions, CommitConnection(s)
    PROVE  IInv'
<1> DEFINE c == req[s].conn
<1>1. PICK outcome \in {"ok", "error"} : End(s, outcome)
    BY DEF CommitConnection
<1> USE <1>1 DEF IInv, CommitConnection, End, Release, Goto, At
<1>2. /\ pc[s] = "commit" /\ req[s].op \in ConnOps
      /\ c \in ConnIds
      /\ crow[s] \in ConnRow
      /\ Inserted(s) \/ (req[s].op \in ConnUpdateOps /\ ConnHeld(s))
  <2>1. CASE req[s].op \in ConnUpdateOps
    BY <2>1 DEF ConnsHeld, ConnHeld, Has, TypeOK
  <2>2. CASE req[s].op = "create_data_connection"
    BY <2>2 DEF WellFormed, Inserted, Has
  <2> QED
    BY <2>1, <2>2 DEF ConnOps
<1>3. /\ conns'[c] = crow[s]
      /\ \A d \in ConnIds \ {c} : conns'[d] = conns[d]
      /\ crow[s] # Null
    BY <1>2, ConstantsAssumption DEF TypeOK
<1>4. /\ pc'[s] = "idle"
      /\ \A u \in Sessions \ {s} :
            /\ pc'[u] = pc[u] /\ req'[u] = req[u] /\ crow'[u] = crow[u] /\ trow'[u] = trow[u]
    BY DEF TypeOK
<1>0. Inserted(s) => crow[s].type = req[s].type /\ crow[s].tenant = req[s].tenant
  <2>1. Inserted(s) => crow[s] = NewConnection(req[s])
    BY DEF WellFormed, Inserted, Has
  <2> QED
    BY <2>1 DEF NewConnection
<1>5. crow[s].type \in TypeIds /\ VisibleType(crow[s].tenant, crow[s].type)
  <2>1. CASE Inserted(s)
    BY <1>0, <1>2, <2>1 DEF TypesShared, Validated, NewType, Inserted, Has
  <2>2. CASE req[s].op = "update_data_connection"
    BY <1>2, <2>2 DEF TypesShared, Validated, NewType, Has, ConnHeld, Inserted
  <2>3. CASE req[s].op = "update_data_connection_status"
    BY <1>2, <2>3 DEF ConnHeld, ReferencesResolve, TypeOK, ConnRow, Inserted, Has
  <2> QED
    BY <1>2, <2>1, <2>2, <2>3 DEF ConnUpdateOps
<1>6. TypeOK'
    BY <1>2 DEF TypeOK, Statements, Outcomes
<1>7. WellFormed'
    BY DEF TypeOK, WellFormed, Inserted, Has, NewConnection
<1>8. Exclusive' /\ Holders'
    BY <1>4 DEF TypeOK, Exclusive, Holders, Has
<1>9. ConnsHeld'
  <2>1. ASSUME NEW u \in Sessions \ {s}, ConnHeld(u)
        PROVE  req[u].conn # c
    BY <1>2, <2>1 DEF ConnHeld, Exclusive, FreshIds
  <2> QED
    BY <1>3, <1>4, <2>1 DEF ConnsHeld, ConnHeld, Has
<1>10. TypesShared'
    BY <1>4 DEF TypesShared, Validated, VisibleType, NewType, Has
<1>11. TypesHeld'
    BY <1>4 DEF TypesHeld, TypeHeld, Has
<1>12. Unreferenced'
  <2>1. ASSUME NEW u \in Sessions \ {s},
               Has(u, {"delete_data_connection_type"}, {"delete", "commit"})
        PROVE  crow[s].type # req[u].type
    <3>1. TypeHeld(u)
      BY <2>1 DEF TypesHeld, Has, TypeOps
    <3>2. CASE req[s].op \in {"create_data_connection", "update_data_connection"}
      <4>1. Validated(s) /\ NewType(s) = crow[s].type
        BY <1>0, <1>2, <3>2 DEF Validated, Has, NewType, Inserted
      <4>2. s \in typeShare[crow[s].type]
        BY <4>1 DEF TypesShared
      <4> QED
        BY <1>5, <3>1, <4>2 DEF TypeHeld, Exclusive
    <3>3. CASE req[s].op = "update_data_connection_status"
      BY <1>2, <2>1, <3>3 DEF ConnHeld, Unreferenced, Inserted, Has
    <3> QED
      BY <1>2, <3>2, <3>3 DEF ConnOps, ConnUpdateOps
  <2> QED
    BY <1>3, <1>4, <2>1 DEF Unreferenced, Has
<1>13. FreshIds'
    BY <1>2, <1>3, <1>4 DEF FreshIds, Inserted, Has, ConnHeld
<1>14. NamesFree'
  <2>1. \A u \in Sessions \ {s} : WritesConn(u) => NameKey(crow[u]) # NameKey(crow[s])
    BY <1>2 DEF NamesFree, WritesConn, Has
  <2>2. /\ \A u \in Sessions \ {s} : WritesConn(u)' <=> WritesConn(u)
        /\ \A u \in Sessions \ {s} : WritesType(u)' <=> WritesType(u)
        /\ ~WritesConn(s)' /\ ~WritesType(s)'
    BY <1>4 DEF WritesConn, WritesType, Has
  <2> QED
    BY <1>3, <1>4, <2>1, <2>2 DEF NamesFree, ConnNameTaken, TypeNameTaken, NameKey
<1>15. ReferencesResolve'
    BY <1>3, <1>5 DEF ReferencesResolve, VisibleType
<1>16. UniqueNames'
  <2>1. \A d \in ConnIds \ {c} : conns[d] # Null => NameKey(conns[d]) # NameKey(crow[s])
    BY <1>2 DEF NamesFree, WritesConn, ConnNameTaken, Has
  <2> QED
    BY <1>3, <2>1 DEF UniqueNames, NameKey
<1> QED
    BY <1>6, <1>7, <1>8, <1>9, <1>10, <1>11, <1>12, <1>13, <1>14, <1>15, <1>16

(***************************************************************************)
(* FOR UPDATE on a type: nobody shares it, so no document about to be      *)
(* written refers to it.                                                   *)
(***************************************************************************)
LEMMA LockTypeIInv ==
    ASSUME IInv, NEW s \in Sessions, LockType(s)
    PROVE  IInv'
<1>1. CASE ~TypeMatches(req[s])
    BY <1>1, RollbackIInv DEF LockType, Outcomes
<1>2. CASE TypeMatches(req[s])
  <2> USE DEF IInv, LockType, Goto, At
  <2>1. /\ req[s] \in Requests
        /\ req[s].type \in TypeIds
        /\ types[req[s].type] \in TypeRow
        /\ types[req[s].type] # Null
        /\ req[s].op \in TypeOps
    BY <1>2, RequestFields DEF TypeMatches, WellFormed, Inserted, Has, TypeOK, TypeOps
  <2> DEFINE old == types[req[s].type]
             new == UpdatedType(req[s], old)
  <2>2. /\ new \in TypeRow
        /\ new.tenant = old.tenant
        /\ req[s].op = "update_data_connection_type" => new.status = old.status
        /\ req[s].op = "update_data_connection_type_status" => new.name = old.name
    BY <2>1, RequestFields DEF UpdatedType, Patched, TypeRow, TypeOps
  <2>3. TypeOK'
    BY <1>2, <2>1, <2>2 DEF TypeOK, Statements
  <2>4. WellFormed'
    BY <1>2, <2>1 DEF TypeOK, WellFormed, Inserted, Has, NewConnection, TypeOps
  <2>5. Exclusive' /\ Holders'
    BY <1>2, <2>1 DEF TypeOK, Exclusive, Holders, Has, ConnUpdateOps, TypeOps
  <2>6. ConnsHeld'
    BY <1>2, <2>1 DEF TypeOK, ConnsHeld, ConnHeld, Has, ConnUpdateOps, TypeOps
  <2>7. TypesShared'
    BY <1>2, <2>1 DEF TypeOK, TypesShared, Validated, VisibleType, NewType, Has, TypeOps
  <2>8. TypesHeld'
    <3>1. trow'[s] = new /\ new # Null /\ s \in typeUpdate'[req[s].type]
      BY <1>2, <2>1, <2>2, ConstantsAssumption DEF TypeOK
    <3> HIDE DEF new
    <3>2. TypeHeld(s)'
      BY <1>2, <2>1, <2>2, <3>1 DEF TypeHeld
    <3>3. ASSUME NEW u \in Sessions \ {s}, TypeHeld(u)
          PROVE  TypeHeld(u)'
      BY <1>2, <2>1, <3>3 DEF TypeOK, TypeHeld
    <3> QED
      BY <1>2, <2>1, <3>2, <3>3 DEF TypeOK, TypesHeld, Has
  <2>9. Unreferenced'
    BY <1>2, <2>1 DEF TypeOK, Unreferenced, Has, TypeOps
  <2>10. FreshIds' /\ NamesFree'
    BY <1>2, <2>1, NotYetWriting DEF TypeOK, Statements
  <2>11. ReferencesResolve' /\ UniqueNames'
    BY <1>2 DEF ReferencesResolve, UniqueNames, VisibleType
  <2> QED
    BY <2>3, <2>4, <2>5, <2>6, <2>7, <2>8, <2>9, <2>10, <2>11
<1> QED
    BY <1>1, <1>2

(***************************************************************************)
(* The steps of a transaction on a type that it goes on with.              *)
(***************************************************************************)
LEMMA UpdateTypeIInv ==
    ASSUME IInv, NEW s \in Sessions, UpdateType(s)
    PROVE  IInv'
<1>1. CASE TypeNameTaken(req[s].type, trow[s])
    BY <1>1, RollbackIInv DEF UpdateType, Outcomes
<1>2. CASE ~TypeNameTaken(req[s].type, trow[s])
  <2> USE DEF IInv, UpdateType, Goto, At, locks
  <2>1. req[s].op \in TypeOps \ {"delete_data_connection_type"} /\ pc[s] = "update"
    BY DEF WellFormed, Has, TypeOps
  <2>2. pc'[s] = "commit" /\ \A u \in Sessions \ {s} : pc'[u] = pc[u]
    BY <1>2 DEF TypeOK
  <2>3. TypeOK'
    BY <1>2 DEF TypeOK, Statements
  <2>4. WellFormed'
    BY <1>2, <2>1, <2>2 DEF WellFormed, Inserted, Has, NewConnection, TypeOps
  <2>5. Exclusive' /\ Holders'
    BY <1>2, <2>1, <2>2 DEF TypeOK, Exclusive, Holders, Has, ConnUpdateOps, TypeOps
  <2>6. ConnsHeld'
    BY <1>2, <2>1, <2>2 DEF ConnsHeld, ConnHeld, Has, ConnUpdateOps, TypeOps
  <2>7. TypesShared'
    BY <1>2, <2>1, <2>2 DEF TypesShared, Validated, VisibleType, NewType, Has, TypeOps
  <2>8. TypesHeld' /\ Unreferenced'
    BY <1>2, <2>1, <2>2 DEF TypesHeld, TypeHeld, Unreferenced, Has, TypeOps
  <2>9. FreshIds'
    BY <1>2, <2>1, <2>2 DEF FreshIds, Inserted, Has, TypeOps
  <2>10. NamesFree'
    <3>1. \A u \in Sessions \ {s} : WritesType(u) => NameKey(trow[u]) # NameKey(trow[s])
      BY DEF TypeNameBusy, UsesTypeName, WritesType, Has
    <3>2. /\ \A u \in Sessions \ {s} : WritesConn(u)' <=> WritesConn(u)
          /\ \A u \in Sessions \ {s} : WritesType(u)' <=> WritesType(u)
          /\ ~WritesConn(s)'
      BY <1>2, <2>1, <2>2 DEF WritesConn, WritesType, Has, TypeOps, ConnOps, ConnUpdateOps
    <3> QED
      BY <1>2, <3>1, <3>2 DEF NamesFree, ConnNameTaken, TypeNameTaken, NameKey
  <2>11. ReferencesResolve' /\ UniqueNames'
    BY <1>2 DEF ReferencesResolve, UniqueNames, VisibleType
  <2> QED
    BY <2>3, <2>4, <2>5, <2>6, <2>7, <2>8, <2>9, <2>10, <2>11
<1> QED
    BY <1>1, <1>2

LEMMA DeletingIInv ==
    ASSUME IInv, NEW s \in Sessions, NEW statement \in {"delete", "commit"},
           Has(s, {"delete_data_connection_type"}, {"count", "delete"}),
           \A c \in ConnIds : conns[c] # Null => conns[c].type # req[s].type,
           Goto(s, statement),
           UNCHANGED <<types, conns, req, crow, trow, locks, issued, result, made>>
    PROVE  IInv'
<1> USE DEF IInv, Goto, locks
<1>1. req[s].op = "delete_data_connection_type" /\ pc[s] \in {"count", "delete"}
    BY DEF Has
<1>2. pc'[s] = statement /\ \A u \in Sessions \ {s} : pc'[u] = pc[u]
    BY DEF TypeOK
<1>3. TypeOK'
    BY DEF TypeOK, Statements
<1>4. WellFormed'
    BY <1>1, <1>2 DEF WellFormed, Inserted, Has, NewConnection
<1>5. Exclusive' /\ Holders'
    BY <1>1, <1>2 DEF TypeOK, Exclusive, Holders, Has, ConnUpdateOps, TypeOps
<1>6. ConnsHeld'
    BY <1>1, <1>2 DEF ConnsHeld, ConnHeld, Has, ConnUpdateOps
<1>7. TypesShared'
    BY <1>1, <1>2 DEF TypesShared, Validated, VisibleType, NewType, Has
<1>8. TypesHeld' /\ Unreferenced'
    BY <1>1, <1>2 DEF TypesHeld, TypeHeld, Unreferenced, Has, TypeOps
<1>9. FreshIds'
    BY <1>1, <1>2 DEF FreshIds, Inserted, Has
<1>10. NamesFree'
    BY <1>1, <1>2 DEF NamesFree, ConnNameTaken, TypeNameTaken, NameKey, WritesConn, WritesType,
           Has, ConnOps, ConnUpdateOps
<1>11. ReferencesResolve' /\ UniqueNames'
    BY DEF ReferencesResolve, UniqueNames, VisibleType
<1> QED
    BY <1>3, <1>4, <1>5, <1>6, <1>7, <1>8, <1>9, <1>10, <1>11

LEMMA CountReferencesIInv ==
    ASSUME IInv, NEW s \in Sessions, CountReferences(s)
    PROVE  IInv'
<1>1. CASE References(req[s].type) # {}
    BY <1>1, RollbackIInv DEF CountReferences, Outcomes
<1>2. CASE References(req[s].type) = {}
  <2>1. Has(s, {"delete_data_connection_type"}, {"count", "delete"})
    BY DEF IInv, WellFormed, Has, CountReferences
  <2>2. \A c \in ConnIds : conns[c] # Null => conns[c].type # req[s].type
    BY <1>2 DEF References
  <2> QED
    BY <1>2, <2>1, <2>2, DeletingIInv DEF CountReferences
<1> QED
    BY <1>1, <1>2

LEMMA DeleteTypeRowIInv ==
    ASSUME IInv, NEW s \in Sessions, DeleteTypeRow(s)
    PROVE  IInv'
<1>1. Has(s, {"delete_data_connection_type"}, {"count", "delete"})
    BY DEF IInv, WellFormed, Has, DeleteTypeRow
<1>2. \A c \in ConnIds : conns[c] # Null => conns[c].type # req[s].type
    BY <1>1 DEF IInv, Unreferenced, Has, DeleteTypeRow
<1> QED
    BY <1>1, <1>2, DeletingIInv DEF DeleteTypeRow

(***************************************************************************)
(* COMMIT of a type: nobody shares the row, so no connection is about to   *)
(* be pointed at it; a deleted one has no references; a changed one keeps  *)
(* its tenant, so whoever saw it still does.                               *)
(***************************************************************************)
LEMMA CommitTypeIInv ==
    ASSUME IInv, NEW s \in Sessions, CommitType(s)
    PROVE  IInv'
<1> DEFINE t == req[s].type
           row == IF req[s].op = "delete_data_connection_type" THEN Null ELSE trow[s]
<1>1. PICK outcome \in {"ok", "error"} : End(s, outcome)
    BY DEF CommitType
<1> USE <1>1 DEF IInv, CommitType, End, Release, Goto, At
<1>2. /\ pc[s] = "commit" /\ req[s].op \in TypeOps
      /\ TypeHeld(s)
      /\ t \in TypeIds
      /\ trow[s] \in TypeRow
      /\ row = Null \/ (row = trow[s] /\ row.tenant = types[t].tenant)
    BY DEF TypesHeld, TypeHeld, Has, TypeOK
<1>3. types'[t] = row /\ \A u \in TypeIds \ {t} : types'[u] = types[u]
    BY <1>2 DEF TypeOK
<1>4. /\ pc'[s] = "idle"
      /\ \A u \in Sessions \ {s} :
            /\ pc'[u] = pc[u] /\ req'[u] = req[u] /\ crow'[u] = crow[u] /\ trow'[u] = trow[u]
    BY DEF TypeOK
<1>5. TypeOK'
    BY <1>2 DEF TypeOK, Statements, Outcomes
<1>6. WellFormed'
    BY DEF TypeOK, WellFormed, Inserted, Has, NewConnection
<1>7. Exclusive' /\ Holders'
    BY <1>4 DEF TypeOK, Exclusive, Holders, Has
<1>8. ConnsHeld'
    BY <1>4 DEF TypeOK, ConnsHeld, ConnHeld, Has
<1>9. TypesShared'
  <2>1. ASSUME NEW u \in Sessions \ {s}, Validated(u)
        PROVE  NewType(u) # t
    BY <1>2, <2>1 DEF TypesShared, TypeHeld, Exclusive
  <2>2. ASSUME NEW u \in Sessions, Validated(u)'
        PROVE  /\ u # s
               /\ Validated(u)
               /\ NewType(u)' = NewType(u)
               /\ req'[u] = req[u]
    BY <1>4, <2>2 DEF Validated, NewType, Has
  <2>3. ASSUME NEW u \in Sessions, Validated(u)'
        PROVE  /\ NewType(u) \in TypeIds
               /\ u \in typeShare'[NewType(u)]
               /\ VisibleType(req[u].tenant, NewType(u))'
    <3>1. NewType(u) \in TypeIds \ {t} /\ u \in typeShare[NewType(u)]
      BY <2>1, <2>2, <2>3 DEF TypesShared
    <3>2. u \in typeShare'[NewType(u)]
      BY <2>2, <2>3, <3>1 DEF TypeOK
    <3>3. VisibleType(req[u].tenant, NewType(u))'
      BY <1>3, <2>2, <2>3, <3>1 DEF TypesShared, VisibleType
    <3> QED
      BY <3>1, <3>2, <3>3
  <2> QED
    <3> SUFFICES ASSUME NEW u \in Sessions, Validated(u)'
                 PROVE  /\ NewType(u)' \in TypeIds
                        /\ u \in typeShare'[NewType(u)']
                        /\ VisibleType(req[u].tenant, NewType(u))'
      BY DEF TypesShared
    <3> QED
      BY <2>2, <2>3
<1>10. TypesHeld'
  <2>1. ASSUME NEW u \in Sessions \ {s}, TypeHeld(u)
        PROVE  req[u].type # t
    BY <1>2, <2>1 DEF TypeHeld, Exclusive
  <2> HIDE DEF row
  <2> QED
    BY <1>3, <1>4, <2>1 DEF TypesHeld, TypeHeld, Has, TypeOK
<1>11. Unreferenced'
    BY <1>4 DEF Unreferenced, Has
<1>12. FreshIds'
    BY <1>2, <1>3, <1>4 DEF FreshIds, Inserted, Has, TypeHeld
<1>13. NamesFree'
  <2>1. \A u \in Sessions \ {s} :
            WritesType(u) /\ row # Null => NameKey(trow[u]) # NameKey(row)
    BY <1>2 DEF NamesFree, WritesType, Has
  <2>2. /\ \A u \in Sessions \ {s} : WritesConn(u)' <=> WritesConn(u)
        /\ \A u \in Sessions \ {s} : WritesType(u)' <=> WritesType(u)
        /\ ~WritesConn(s)' /\ ~WritesType(s)'
    BY <1>4 DEF WritesConn, WritesType, Has
  <2> HIDE DEF row
  <2> QED
    BY <1>3, <1>4, <2>1, <2>2 DEF NamesFree, ConnNameTaken, TypeNameTaken, NameKey
<1>14. ReferencesResolve'
  <2>1. CASE row = Null
    <3>1. \A c \in ConnIds : conns[c] # Null => conns[c].type # t
      BY <1>2, <2>1, ConstantsAssumption DEF Unreferenced, Has
    <3> QED
      BY <1>3, <3>1 DEF ReferencesResolve, VisibleType, TypeOK, ConnRow
  <2>2. CASE row # Null
    BY <1>2, <1>3, <2>2 DEF ReferencesResolve, VisibleType, TypeOK, ConnRow
  <2> QED
    BY <2>1, <2>2
<1>15. UniqueNames'
  <2>1. \A u \in TypeIds \ {t} :
            types[u] # Null /\ row # Null => NameKey(types[u]) # NameKey(row)
    BY <1>2 DEF NamesFree, WritesType, TypeNameTaken, Has
  <2> HIDE DEF row
  <2> QED
    BY <1>3, <2>1 DEF UniqueNames, NameKey
<1> QED
    BY <1>5, <1>6, <1>7, <1>8, <1>9, <1>10, <1>11, <1>12, <1>13, <1>14, <1>15

(***************************************************************************)
(* The operations of one statement.  A connection that is deleted is one   *)
(* nobody has locked; a new type has an identifier and a name of its own.  *)
(***************************************************************************)
LEMMA DeleteConnectionIInv ==
    ASSUME IInv, NEW s \in Sessions, NEW r \in Requests, DeleteConnection(s, r)
    PROVE  IInv'
<1> USE DEF IInv, DeleteConnection, Single, locks
<1>1. r.conn \in ConnIds
    BY RequestFields
<1>2. \A c \in ConnIds :
        conns'[c] = conns[c] \/ (c = r.conn /\ conns'[c] = Null /\ connUpdate[c] = {})
    BY <1>1 DEF TypeOK
<1>3. TypeOK'
    BY <1>1, RequestsAssumption DEF TypeOK, Outcomes
<1>4. WellFormed' /\ Exclusive' /\ Holders'
    BY DEF WellFormed, Inserted, Has, NewConnection, Exclusive, Holders
<1>5. ConnsHeld'
    BY <1>2 DEF ConnsHeld, ConnHeld, Has
<1>6. TypesShared' /\ TypesHeld'
    BY DEF TypesShared, Validated, VisibleType, NewType, Has, TypesHeld, TypeHeld
<1>7. Unreferenced'
    BY <1>2 DEF Unreferenced, Has
<1>8. FreshIds'
    BY <1>2 DEF FreshIds, Inserted, Has, WellFormed
<1>9. NamesFree'
  <2>1. \A c \in ConnIds : conns'[c] # Null => conns'[c] = conns[c]
    BY <1>2
  <2> QED
    BY <2>1 DEF NamesFree, WritesConn, WritesType, Has, ConnNameTaken, TypeNameTaken, NameKey
<1>10. ReferencesResolve' /\ UniqueNames'
    BY <1>2 DEF ReferencesResolve, VisibleType, UniqueNames, NameKey
<1> QED
    BY <1>3, <1>4, <1>5, <1>6, <1>7, <1>8, <1>9, <1>10

LEMMA CreateTypeIInv ==
    ASSUME IInv, NEW s \in Sessions, NEW r \in Requests, CreateType(s, r)
    PROVE  IInv'
<1> DEFINE row == NewConnectionType(r)
<1> USE DEF IInv, Single, locks
<1>1. PICK t \in TypeIds \ issued :
        IF TypeNameTaken(t, row)
        THEN UNCHANGED <<types, issued>> /\ Single(s, "conflict")
        ELSE /\ types' = [types EXCEPT ![t] = row]
             /\ issued' = issued \cup {t}
             /\ \E outcome \in {"ok", "error"} : Single(s, outcome)
    BY DEF CreateType
<1>2. /\ ~TypeNameBusy(s, row)
      /\ pc[s] = "idle"
      /\ made < MaxRequests
      /\ UNCHANGED <<conns, pc, req, crow, trow, locks>>
      /\ made' = made + 1
      /\ result' \in [Sessions -> Outcomes]
    BY <1>1 DEF CreateType, TypeOK, Outcomes
<1>3. row \in TypeRow /\ row # Null
    BY RequestFields, ConstantsAssumption DEF CreateType, NewConnectionType, TypeRow
<1>4. /\ types[t] = Null
      /\ \A u \in TypeIds \ {t} : types'[u] = types[u]
      /\ types'[t] = Null \/ (types'[t] = row /\ ~TypeNameTaken(t, row))
      /\ issued \subseteq issued' /\ (types'[t] # Null => t \in issued')
      /\ issued' \subseteq issued \cup {t}
    BY <1>1 DEF FreshIds, TypeOK
<1> HIDE DEF row, Single
<1>5. TypeOK'
    BY <1>1, <1>2, <1>3, RequestsAssumption DEF TypeOK
<1>6. WellFormed' /\ Exclusive' /\ Holders'
    BY <1>2 DEF WellFormed, Inserted, Has, NewConnection, Exclusive, Holders
<1>7. ConnsHeld' /\ Unreferenced'
    BY <1>2 DEF ConnsHeld, ConnHeld, Has, Unreferenced
<1>8. TypesShared' /\ TypesHeld'
    BY <1>2, <1>4 DEF TypesShared, Validated, VisibleType, NewType, Has, TypesHeld, TypeHeld
<1>9. FreshIds'
    BY <1>2, <1>4 DEF FreshIds, Inserted, Has
<1>10. NamesFree'
  <2>1. \A u \in Sessions : WritesType(u) => NameKey(trow[u]) # NameKey(row)
    BY <1>2 DEF TypeNameBusy, UsesTypeName, WritesType, Has, At
  <2> QED
    BY <1>2, <1>4, <2>1
       DEF NamesFree, WritesConn, WritesType, Has, ConnNameTaken, TypeNameTaken, NameKey
<1>11. ReferencesResolve'
    BY <1>2, <1>4 DEF ReferencesResolve, VisibleType, TypeOK, ConnRow
<1>12. UniqueNames'
    BY <1>2, <1>4 DEF UniqueNames, NameKey, TypeNameTaken
<1> QED
    BY <1>5, <1>6, <1>7, <1>8, <1>9, <1>10, <1>11, <1>12

LEMMA SingleFailsIInv ==
    ASSUME IInv, NEW s \in Sessions, NEW r \in Requests, SingleFails(s, r)
    PROVE  IInv'
<1> USE DEF IInv, SingleFails, Single, locks
<1>1. TypeOK'
    BY RequestsAssumption DEF TypeOK, Outcomes
<1>2. WellFormed' /\ Exclusive' /\ Holders'
    BY DEF WellFormed, Inserted, Has, NewConnection, Exclusive, Holders
<1>3. ConnsHeld' /\ TypesShared' /\ TypesHeld' /\ Unreferenced'
    BY DEF ConnsHeld, ConnHeld, TypesShared, Validated, VisibleType, NewType, Has, TypesHeld,
           TypeHeld, Unreferenced
<1>4. FreshIds' /\ NamesFree' /\ ReferencesResolve' /\ UniqueNames'
    BY DEF FreshIds, Inserted, Has, NamesFree, WritesConn, WritesType, ConnNameTaken,
           TypeNameTaken, ReferencesResolve, VisibleType, UniqueNames, NameKey
<1> QED
    BY <1>1, <1>2, <1>3, <1>4

-----------------------------------------------------------------------------
(***************************************************************************)
(* Every step of every session, whatever the others are in the middle of,  *)
(* keeps the invariant.                                                    *)
(***************************************************************************)
LEMMA NextIInv == IInv /\ [Next]_vars => IInv'
<1> SUFFICES ASSUME IInv, [Next]_vars PROVE IInv'
    OBVIOUS
<1>1. CASE UNCHANGED vars
  <2> USE <1>1 DEF vars, IInv
  <2>1. TypeOK' /\ WellFormed' /\ Exclusive' /\ Holders'
    BY DEF TypeOK, WellFormed, Inserted, Has, NewConnection, Exclusive, Holders
  <2>2. ConnsHeld' /\ TypesShared' /\ TypesHeld' /\ Unreferenced'
    BY DEF ConnsHeld, ConnHeld, TypesShared, Validated, VisibleType, NewType, Has, TypesHeld,
           TypeHeld, Unreferenced
  <2>3. FreshIds' /\ NamesFree' /\ ReferencesResolve' /\ UniqueNames'
    BY DEF FreshIds, Inserted, Has, NamesFree, WritesConn, WritesType, ConnNameTaken,
           TypeNameTaken, ReferencesResolve, VisibleType, UniqueNames, NameKey
  <2> QED
    BY <2>1, <2>2, <2>3
<1>2. ASSUME NEW s \in Sessions, NEW r \in Requests,
             Begin(s, r) \/ DeleteConnection(s, r) \/ CreateType(s, r) \/ SingleFails(s, r)
      PROVE  IInv'
    BY <1>2, BeginIInv, DeleteConnectionIInv, CreateTypeIInv, SingleFailsIInv
<1>3. ASSUME NEW s \in Sessions, Statement(s)
      PROVE  IInv'
    BY <1>3, LockConnectionIInv, ValidateIInv, InsertConnectionIInv, UpdateConnectionIInv,
       CommitConnectionIInv, LockTypeIInv, UpdateTypeIInv, CountReferencesIInv,
       DeleteTypeRowIInv, CommitTypeIInv DEF Statement
<1>4. ASSUME NEW s \in Sessions, Abort(s)
      PROVE  IInv'
    BY <1>4, RollbackIInv DEF Abort, Outcomes
<1> QED
    BY <1>1, <1>2, <1>3, <1>4 DEF Next

(***************************************************************************)
(* The invariant holds in every reachable state of the store, for any      *)
(* number of sessions, requests, rows and tenants.                         *)
(***************************************************************************)
THEOREM Invariance == Spec => []IInv
<1> QED
    BY InitIInv, NextIInv, PTL DEF Spec

(***************************************************************************)
(* Type correctness: no statement of meta.rs stores a row with a missing   *)
(* or misplaced field.                                                     *)
(***************************************************************************)
THEOREM TypeCorrect == Spec => []TypeOK
<1>1. IInv => TypeOK
    BY DEF IInv
<1> QED
    BY <1>1, Invariance, PTL

(***************************************************************************)
(* Referential integrity without a foreign key: no stored connection ever  *)
(* refers to a type that is gone or that its tenant does not see, however  *)
(* creates, patches and deletes interleave, fail or lose their answer.     *)
(***************************************************************************)
THEOREM Integrity == Spec => []ReferencesResolve
<1>1. IInv => ReferencesResolve
    BY DEF IInv
<1> QED
    BY <1>1, Invariance, PTL

(***************************************************************************)
(* Names stay unique in a tenant when transactions claim them at the same  *)
(* time.                                                                   *)
(***************************************************************************)
THEOREM NamesUnique == Spec => []UniqueNames
<1>1. IInv => UniqueNames
    BY DEF IInv
<1> QED
    BY <1>1, Invariance, PTL

(***************************************************************************)
(* Deadlock freedom: a transaction of meta.rs waits only for one that has  *)
(* come further, so the waits of any number of sessions form no cycle.     *)
(***************************************************************************)
THEOREM DeadlockFreedom == Spec => []WaitsGoForward
<1>1. IInv => WaitsGoForward
  <2> SUFFICES ASSUME IInv, NEW s \in Sessions, NEW w \in Sessions, WaitsFor(s, w)
               PROVE  Progress(s) < Progress(w)
    BY DEF WaitsGoForward
  <2> USE DEF IInv, At, Has
  <2>1. CASE At(s, "lock", ConnUpdateOps) /\ w \in connUpdate[req[s].conn]
    <3>1. Progress(s) = 1
      BY <2>1 DEF Progress, TypeOps, ConnUpdateOps
    <3>2. req[s].conn \in ConnIds
      BY <2>1, RequestFields DEF WellFormed, Inserted, ConnUpdateOps
    <3>3. Progress(w) \in {2, 3, 4}
      BY <2>1, <3>2 DEF Holders, Progress
    <3> QED
      BY <3>1, <3>3
  <2>2. CASE At(s, "lock", TypeOps) /\ w \in typeUpdate[req[s].type] \cup typeShare[req[s].type]
    <3>1. Progress(s) = 2
      BY <2>2 DEF Progress, TypeOps, ConnUpdateOps
    <3>2. req[s].type \in TypeIds
      BY <2>2, RequestFields DEF WellFormed, Inserted, TypeOps
    <3>3. Progress(w) \in {3, 4}
      BY <2>2, <3>2 DEF Holders, Progress
    <3> QED
      BY <3>1, <3>3
  <2>3. CASE pc[s] = "validate" /\ w \in typeUpdate[NewType(s)]
    <3>1. Progress(s) = 2
      BY <2>3 DEF Progress
    <3>2. NewType(s) \in TypeIds
      <4>1. req[s].op \in {"create_data_connection", "update_data_connection"}
        BY <2>3 DEF WellFormed
      <4>2. CASE req[s].op = "create_data_connection"
        BY <2>3, <4>2, RequestFields DEF WellFormed, Inserted, NewType
      <4>3. CASE req[s].op = "update_data_connection"
        BY <2>3, <4>3 DEF ConnsHeld, ConnHeld, ConnUpdateOps, NewType, TypeOK, ConnRow
      <4> QED
        BY <4>1, <4>2, <4>3
    <3>3. Progress(w) \in {3, 4}
      BY <2>3, <3>2 DEF Holders, Progress
    <3> QED
      BY <3>1, <3>3
  <2>4. CASE pc[s] \in {"insert", "update"} /\ pc[w] = "commit"
    BY <2>4 DEF Progress
  <2> QED
    BY <2>1, <2>2, <2>3, <2>4 DEF WaitsFor, UsesConnName, UsesTypeName
<1> QED
    BY <1>1, Invariance, PTL

-----------------------------------------------------------------------------
(***************************************************************************)
(* Refinement.  A record is determined by its fields, which is how a       *)
(* document computed when the row was locked is the one ConnectionStore    *)
(* computes from the row at the commit.                                    *)
(***************************************************************************)
LEMMA ConnRowFields ==
    ASSUME NEW a \in ConnRow, NEW b \in ConnRow,
           a.tenant = b.tenant, a.name = b.name, a.type = b.type, a.status = b.status
    PROVE  a = b
BY DEF ConnRow

LEMMA TypeRowFields ==
    ASSUME NEW a \in TypeRow, NEW b \in TypeRow,
           a.tenant = b.tenant, a.name = b.name, a.status = b.status
    PROVE  a = b
BY DEF TypeRow

LEMMA CommitConnectionRefines ==
    ASSUME IInv, NEW s \in Sessions, CommitConnection(s)
    PROVE  Atomic!Next
<1> DEFINE c == req[s].conn
           old == conns[c]
           new == crow[s]
<1> USE DEF IInv
<1>1. /\ pc[s] = "commit" /\ req[s].op \in ConnOps
      /\ conns' = [conns EXCEPT ![c] = new]
      /\ UNCHANGED types
    BY DEF CommitConnection, At
<1>2. ~ConnNameTaken(c, new)
    BY <1>1 DEF NamesFree, WritesConn, Has
<1>3. CASE req[s].op = "create_data_connection"
  <2>1. /\ c \in ConnIds
        /\ new = NewConnection(req[s]) /\ new \in ConnRow
        /\ old = Null
        /\ VisibleType(req[s].tenant, req[s].type)
    BY <1>1, <1>3 DEF WellFormed, Inserted, Has, FreshIds, TypesShared, Validated, NewType
  <2>2. req[s].tenant \in Tenants /\ req[s].name \in Names /\ req[s].type \in TypeIds
    BY <2>1 DEF NewConnection, ConnRow
  <2>3. Atomic!CreateConnection(c)
    <3>1. Atomic!VisibleType(req[s].tenant, req[s].type) /\ ~Atomic!ConnNameTaken(c, new)
      BY <1>2, <2>1
         DEF Atomic!VisibleType, Atomic!SeenBy, Atomic!ConnNameTaken, Atomic!NameKey,
             VisibleType, SeenBy, ConnNameTaken, NameKey
    <3>2. new = [tenant |-> req[s].tenant, name |-> req[s].name, type |-> req[s].type,
                 status |-> NotReady]
      BY <2>1 DEF NewConnection
    <3> QED
      BY <1>1, <2>1, <2>2, <3>1, <3>2 DEF Atomic!CreateConnection
  <2> QED
    BY <2>1, <2>3 DEF Atomic!Next
<1>4. CASE req[s].op \in ConnUpdateOps
  <2>1. ConnHeld(s) /\ old \in ConnRow /\ new \in ConnRow /\ c \in ConnIds /\ old # Null
    BY <1>1, <1>4 DEF ConnsHeld, ConnHeld, Has, TypeOK
  <2>2. CASE req[s].op = "update_data_connection"
    <3> DEFINE row == [old EXCEPT !.name = new.name, !.type = new.type]
    <3>1. row \in ConnRow /\ new.name \in Names /\ new.type \in TypeIds
      BY <2>1 DEF ConnRow
    <3>2. /\ row.tenant = old.tenant /\ row.status = old.status
          /\ row.name = new.name /\ row.type = new.type
      BY <2>1 DEF ConnRow
    <3>3. new.tenant = old.tenant /\ new.status = old.status
      BY <2>1, <2>2 DEF ConnHeld
    <3>4. row = new
      <4> HIDE DEF row
      <4> QED
        BY <2>1, <3>1, <3>2, <3>3, ConnRowFields
    <3>5. VisibleType(old.tenant, new.type)
      BY <1>1, <2>1, <2>2 DEF TypesShared, Validated, NewType, Has, ConnHeld
    <3>6. Atomic!PatchConnection(c)
      <4>1. Atomic!VisibleType(old.tenant, new.type) /\ ~Atomic!ConnNameTaken(c, new)
        BY <1>2, <3>5
           DEF Atomic!VisibleType, Atomic!SeenBy, Atomic!ConnNameTaken, Atomic!NameKey,
               VisibleType, SeenBy, ConnNameTaken, NameKey
      <4> QED
        BY <1>1, <2>1, <3>1, <3>4, <4>1 DEF Atomic!PatchConnection
    <3> QED
      BY <2>1, <3>6 DEF Atomic!Next
  <2>3. CASE req[s].op = "update_data_connection_status"
    <3> DEFINE row == [old EXCEPT !.status = new.status]
    <3>1. /\ row \in ConnRow /\ new.status \in Statuses
          /\ row.tenant = old.tenant /\ row.name = old.name /\ row.type = old.type
          /\ row.status = new.status
      BY <2>1 DEF ConnRow
    <3>2. new.tenant = old.tenant /\ new.name = old.name /\ new.type = old.type
      BY <2>1, <2>3 DEF ConnHeld
    <3>3. row = new
      <4> HIDE DEF row
      <4> QED
        BY <2>1, <3>1, <3>2, ConnRowFields
    <3>4. Atomic!SetConnectionStatus(c)
      BY <1>1, <2>1, <3>1, <3>3 DEF Atomic!SetConnectionStatus
    <3> QED
      BY <2>1, <3>4 DEF Atomic!Next
  <2> QED
    BY <1>4, <2>2, <2>3 DEF ConnUpdateOps
<1> QED
    BY <1>1, <1>3, <1>4 DEF ConnOps

LEMMA CommitTypeRefines ==
    ASSUME IInv, NEW s \in Sessions, CommitType(s)
    PROVE  Atomic!Next
<1> DEFINE t == req[s].type
           old == types[t]
           new == trow[s]
<1> USE DEF IInv
<1>1. /\ pc[s] = "commit" /\ req[s].op \in TypeOps
      /\ types' = [types EXCEPT ![t] =
                     IF req[s].op = "delete_data_connection_type" THEN Null ELSE new]
      /\ UNCHANGED conns
    BY DEF CommitType, At
<1>2. TypeHeld(s) /\ old \in TypeRow /\ new \in TypeRow /\ t \in TypeIds /\ old # Null
    BY <1>1 DEF TypesHeld, TypeHeld, Has, TypeOK
<1>3. CASE req[s].op = "delete_data_connection_type"
  <2>1. Atomic!DeleteType(t)
    BY <1>1, <1>2, <1>3 DEF Unreferenced, Has, Atomic!DeleteType, Atomic!References
  <2> QED
    BY <1>2, <2>1 DEF Atomic!Next
<1>4. CASE req[s].op = "update_data_connection_type"
  <2> DEFINE row == [old EXCEPT !.name = new.name]
  <2>1. /\ row \in TypeRow /\ new.name \in Names
        /\ row.tenant = old.tenant /\ row.name = new.name /\ row.status = old.status
    BY <1>2 DEF TypeRow
  <2>2. new.tenant = old.tenant /\ new.status = old.status
    BY <1>2, <1>4 DEF TypeHeld
  <2>3. row = new
    <3> HIDE DEF row
    <3> QED
      BY <1>2, <2>1, <2>2, TypeRowFields
  <2>4. ~TypeNameTaken(t, new)
    BY <1>1, <1>4 DEF NamesFree, WritesType, Has
  <2>5. Atomic!PatchType(t)
    <3>1. ~Atomic!TypeNameTaken(t, new)
      BY <2>4 DEF Atomic!TypeNameTaken, Atomic!NameKey, TypeNameTaken, NameKey
    <3> QED
      BY <1>1, <1>2, <1>4, <2>1, <2>3, <3>1 DEF Atomic!PatchType
  <2> QED
    BY <1>2, <2>5 DEF Atomic!Next
<1>5. CASE req[s].op = "update_data_connection_type_status"
  <2> DEFINE row == [old EXCEPT !.status = new.status]
  <2>1. /\ row \in TypeRow /\ new.status \in Statuses
        /\ row.tenant = old.tenant /\ row.name = old.name /\ row.status = new.status
    BY <1>2 DEF TypeRow
  <2>2. new.tenant = old.tenant /\ new.name = old.name
    BY <1>2, <1>5 DEF TypeHeld
  <2>3. row = new
    <3> HIDE DEF row
    <3> QED
      BY <1>2, <2>1, <2>2, TypeRowFields
  <2>4. Atomic!SetTypeStatus(t)
    BY <1>1, <1>2, <1>5, <2>1, <2>3 DEF Atomic!SetTypeStatus
  <2> QED
    BY <1>2, <2>4 DEF Atomic!Next
<1> QED
    BY <1>1, <1>3, <1>4, <1>5 DEF TypeOps

LEMMA SingleRefines ==
    ASSUME IInv, NEW s \in Sessions, NEW r \in Requests,
           DeleteConnection(s, r) \/ CreateType(s, r)
    PROVE  Atomic!Next \/ UNCHANGED Atomic!storeVars
<1> USE DEF IInv
<1>1. CASE DeleteConnection(s, r)
  <2>1. r.conn \in ConnIds
    BY <1>1, RequestFields DEF DeleteConnection
  <2> QED
    BY <1>1, <2>1 DEF DeleteConnection, ConnMatches, Atomic!Next, Atomic!DeleteConnection,
           Atomic!storeVars
<1>2. CASE CreateType(s, r)
  <2> DEFINE row == NewConnectionType(r)
  <2>1. PICK t \in TypeIds \ issued :
          IF TypeNameTaken(t, row)
          THEN UNCHANGED types
          ELSE types' = [types EXCEPT ![t] = row]
    BY <1>2 DEF CreateType
  <2>2. UNCHANGED conns /\ types[t] = Null /\ r.tenant \in Tenants /\ r.name \in Names
    BY <1>2, RequestFields DEF CreateType, FreshIds
  <2>3. CASE TypeNameTaken(t, row)
    BY <2>1, <2>2, <2>3 DEF Atomic!storeVars
  <2>4. CASE ~TypeNameTaken(t, row)
    <3>1. Atomic!CreateType(t)
      BY <2>1, <2>2, <2>4
         DEF Atomic!CreateType, Atomic!TypeNameTaken, Atomic!NameKey, TypeNameTaken, NameKey,
             NewConnectionType
    <3> QED
      BY <3>1 DEF Atomic!Next
  <2> QED
    BY <2>3, <2>4
<1> QED
    BY <1>1, <1>2

(***************************************************************************)
(* Serializability of the store's operations: the interleaved transactions *)
(* of meta.rs implement the atomic operations of ConnectionStore.  A       *)
(* commit is the instant at which the operation happens; no other          *)
(* statement changes what callers see, and no update is lost.              *)
(***************************************************************************)
THEOREM Refinement == Spec => AtomicOperations
<1>1. Init => Atomic!InitTables
    BY DEF Init, InitTables, Atomic!InitTables
<1>2. IInv /\ [Next]_vars => [Atomic!Next]_Atomic!storeVars
  <2> SUFFICES ASSUME IInv, [Next]_vars
               PROVE  Atomic!Next \/ UNCHANGED Atomic!storeVars
    BY DEF Atomic!storeVars
  <2>1. CASE UNCHANGED vars
    BY <2>1 DEF vars, Atomic!storeVars
  <2>2. ASSUME NEW s \in Sessions, NEW r \in Requests,
               Begin(s, r) \/ DeleteConnection(s, r) \/ CreateType(s, r) \/ SingleFails(s, r)
        PROVE  Atomic!Next \/ UNCHANGED Atomic!storeVars
    BY <2>2, SingleRefines DEF Begin, SingleFails, Atomic!storeVars
  <2>3. ASSUME NEW s \in Sessions, Statement(s) \/ Abort(s)
        PROVE  Atomic!Next \/ UNCHANGED Atomic!storeVars
    <3>1. CASE CommitConnection(s) \/ CommitType(s)
      BY <3>1, CommitConnectionRefines, CommitTypeRefines
    <3>2. CASE ~(CommitConnection(s) \/ CommitType(s))
      BY <2>3, <3>2 DEF Statement, Abort, LockConnection, ValidateConnectionType,
         InsertConnection, UpdateConnection, LockType, UpdateType, CountReferences,
         DeleteTypeRow, Rollback, Atomic!storeVars
    <3> QED
      BY <3>1, <3>2
  <2> QED
    BY <2>1, <2>2, <2>3 DEF Next
<1> QED
    BY <1>1, <1>2, Invariance, PTL DEF Spec, AtomicOperations, Atomic!Spec
=============================================================================
