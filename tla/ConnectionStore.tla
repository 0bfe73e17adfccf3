-------------------------- MODULE ConnectionStore --------------------------
(***************************************************************************)
(* What the meta store promises its callers: every operation of the        *)
(* MetaStore trait (libs/commons/src/api/storage.rs) that changes a        *)
(* connection or a connection type happens at one instant.  It changes one *)
(* row, of the resource document or of the status document but never of    *)
(* both; it keeps the names of a tenant apart; a connection is only ever   *)
(* pointed at a type its tenant sees; and a type goes only while nothing   *)
(* refers to it.                                                           *)
(***************************************************************************)
EXTENDS StoreSchema

storeVars == <<types, conns>>

CreateConnection(c) ==
    \E tenant \in Tenants, name \in Names, t \in TypeIds :
        LET row == [tenant |-> tenant, name |-> name, type |-> t, status |-> NotReady]
        IN  /\ conns[c] = Null
            /\ VisibleType(tenant, t)
            /\ ~ConnNameTaken(c, row)
            /\ conns' = [conns EXCEPT ![c] = row]
            /\ UNCHANGED types

PatchConnection(c) ==
    \E name \in Names, t \in TypeIds :
        LET row == [conns[c] EXCEPT !.name = name, !.type = t]
        IN  /\ conns[c] # Null
            /\ VisibleType(conns[c].tenant, t)
            /\ ~ConnNameTaken(c, row)
            /\ conns' = [conns EXCEPT ![c] = row]
            /\ UNCHANGED types

SetConnectionStatus(c) ==
    \E status \in Statuses :
        /\ conns[c] # Null
        /\ conns' = [conns EXCEPT ![c] = [conns[c] EXCEPT !.status = status]]
        /\ UNCHANGED types

DeleteConnection(c) ==
    /\ conns[c] # Null
    /\ conns' = [conns EXCEPT ![c] = Null]
    /\ UNCHANGED types

CreateType(t) ==
    \E tenant \in Tenants, name \in Names :
        LET row == [tenant |-> tenant, name |-> name, status |-> NoStatus]
        IN  /\ types[t] = Null
            /\ ~TypeNameTaken(t, row)
            /\ types' = [types EXCEPT ![t] = row]
            /\ UNCHANGED conns

PatchType(t) ==
    \E name \in Names :
        LET row == [types[t] EXCEPT !.name = name]
        IN  /\ types[t] # Null
            /\ ~TypeNameTaken(t, row)
            /\ types' = [types EXCEPT ![t] = row]
            /\ UNCHANGED conns

SetTypeStatus(t) ==
    \E status \in Statuses :
        /\ types[t] # Null
        /\ types' = [types EXCEPT ![t] = [types[t] EXCEPT !.status = status]]
        /\ UNCHANGED conns

DeleteType(t) ==
    /\ types[t] # Null
    /\ References(t) = {}
    /\ types' = [types EXCEPT ![t] = Null]
    /\ UNCHANGED conns

Next ==
    \/ \E c \in ConnIds :
          \/ CreateConnection(c) \/ PatchConnection(c)
          \/ SetConnectionStatus(c) \/ DeleteConnection(c)
    \/ \E t \in TypeIds :
          \/ CreateType(t) \/ PatchType(t) \/ SetTypeStatus(t) \/ DeleteType(t)

Spec == InitTables /\ [][Next]_storeVars
=============================================================================
