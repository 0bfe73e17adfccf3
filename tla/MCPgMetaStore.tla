--------------------------- MODULE MCPgMetaStore ---------------------------
(***************************************************************************)
(* Instances of PgMetaStore for TLC.  The database holds a global type tg, *)
(* a type ta of tenant A and a connection c1 of tenant A that refers to    *)
(* ta.  The requests are the ones that can meet: two creates and two       *)
(* patches of connections, their status updates and deletes, and the       *)
(* creation, renaming, status update and deletion of both types, by the    *)
(* tenants that may and by one that may not.                               *)
(***************************************************************************)
EXTENDS PgMetaStore, TLC

CONSTANTS A, G, tg, ta, t3, t4, c1, c2, c3, c4, c5, n1, n2, pending, ready

MCTypes == (tg :> [tenant |-> G, name |-> n1, status |-> pending]) @@
           (ta :> [tenant |-> A, name |-> n1, status |-> pending]) @@
           (t3 :> Null) @@ (t4 :> Null)

MCConns == (c1 :> [tenant |-> A, name |-> n1, type |-> ta, status |-> pending]) @@
           [c \in ConnIds |-> Null]

Req(op, tenant, conn, type, name, status) ==
    [op |-> op, tenant |-> tenant, conn |-> conn, type |-> type, name |-> name,
     status |-> status]

TypeRequests ==
    {Req("create_data_connection_type", A, Null, Null, n2, Null),
     Req("update_data_connection_type", A, Null, ta, n2, Null),
     Req("update_data_connection_type_status", A, Null, ta, Null, ready),
     Req("delete_data_connection_type", G, Null, tg, Null, Null),
     Req("delete_data_connection_type", A, Null, ta, Null, Null),
     Req("delete_data_connection_type", A, Null, tg, Null, Null)}

ConnRequests ==
    {Req("create_data_connection", A, Null, tg, n2, Null),
     Req("create_data_connection", A, Null, ta, n1, Null),
     Req("update_data_connection", A, c1, tg, Null, Null),
     Req("update_data_connection", A, c1, Null, n2, Null),
     Req("update_data_connection", G, c1, Null, n2, Null),
     Req("update_data_connection_status", A, c1, Null, Null, ready),
     Req("delete_data_connection", A, c1, Null, Null, Null)}

MCRequests == TypeRequests \cup ConnRequests

IdSymmetry == Permutations(Sessions) \cup Permutations({c2, c3, c4, c5}) \cup Permutations({t3, t4})
=============================================================================
