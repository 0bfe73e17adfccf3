---------------------------- MODULE StoreSchema ----------------------------
(***************************************************************************)
(* The two tables of the meta store that refer to each other, as the       *)
(* schema declares them (libs/pg-meta-store/schema/connections.sql):       *)
(* data_connection_types and data_connections, each a table of JSON        *)
(* documents.  A table is a function from identifiers to rows; Null is the *)
(* absence of a row.  A row keeps the fields the statements look at: the   *)
(* tenant, the name (unique per tenant), the type a connection refers to,  *)
(* and the status document, which is written by other operations than the  *)
(* resource document it is stored beside.                                  *)
(***************************************************************************)
CONSTANTS
    Tenants,        \* tenants that make requests
    GlobalTenant,   \* the tenant whose connection types everybody sees
    TypeIds,        \* identifiers of connection types (UUIDs)
    ConnIds,        \* identifiers of connections (UUIDs)
    Names,          \* resource names
    Statuses,       \* status documents
    NotReady,       \* the status a new connection is stored with
    NoStatus,       \* the status a new connection type is stored with
    Null,           \* no row, or a field a patch leaves out
    InitTypes,      \* connection types stored when the service starts
    InitConns       \* connections stored when the service starts

VARIABLES
    types,          \* committed rows of data_connection_types
    conns           \* committed rows of data_connections

TypeRow == [tenant : Tenants, name : Names, status : Statuses]
ConnRow == [tenant : Tenants, name : Names, type : TypeIds, status : Statuses]

ASSUME ConstantsAssumption ==
    /\ GlobalTenant \in Tenants
    /\ NotReady \in Statuses
    /\ NoStatus \in Statuses
    /\ Null \notin Tenants \cup TypeIds \cup ConnIds \cup Names \cup Statuses
    /\ Null \notin TypeRow \cup ConnRow

(***************************************************************************)
(* The filter of the reads a tenant makes of connection types: its own     *)
(* and the global ones.                                                    *)
(***************************************************************************)
SeenBy(tenant) == {tenant, GlobalTenant}

VisibleType(tenant, t) == types[t] # Null /\ types[t].tenant \in SeenBy(tenant)

References(t) == {c \in ConnIds : conns[c] # Null /\ conns[c].type = t}

(***************************************************************************)
(* The unique indexes on (name, tenant).                                   *)
(***************************************************************************)
NameKey(row) == <<row.name, row.tenant>>

ConnNameTakenNot(id, row) == FALSE
ConnNameTaken(id, row) ==
    \E c \in ConnIds \ {id} : conns[c] # Null /\ NameKey(conns[c]) = NameKey(row)

TypeNameTaken(id, row) ==
    \E t \in TypeIds \ {id} : types[t] # Null /\ NameKey(types[t]) = NameKey(row)

(***************************************************************************)
(* The reference a connection holds, which the schema does not declare as  *)
(* a foreign key: "the reference is enforced in the meta store, which      *)
(* validates it on write and refuses to delete a type that connections     *)
(* still reference".  The type exists, and the connection's tenant sees    *)
(* it, so get_data_connection_type finds it.                               *)
(***************************************************************************)
ReferencesResolve ==
    \A c \in ConnIds : conns[c] # Null => VisibleType(conns[c].tenant, conns[c].type)

(***************************************************************************)
(* Two stored connections of a tenant never share a name, nor do two types *)
(* of a tenant, whichever transactions wrote them at the same time.        *)
(***************************************************************************)
UniqueNames ==
    /\ \A c, d \in ConnIds :
         /\ conns[c] # Null /\ conns[d] # Null
         /\ NameKey(conns[c]) = NameKey(conns[d])
         => c = d
    /\ \A t, u \in TypeIds :
         /\ types[t] # Null /\ types[u] # Null
         /\ NameKey(types[t]) = NameKey(types[u])
         => t = u

(***************************************************************************)
(* A service starts on the tables an earlier one left (the schema is       *)
(* created IF NOT EXISTS): empty ones, or rows that satisfy the above.     *)
(***************************************************************************)
InitTables ==
    /\ types = InitTypes
    /\ conns = InitConns

ASSUME InitAssumption ==
    /\ InitTypes \in [TypeIds -> TypeRow \cup {Null}]
    /\ InitConns \in [ConnIds -> ConnRow \cup {Null}]
    /\ \A c \in ConnIds : InitConns[c] # Null =>
         /\ InitTypes[InitConns[c].type] # Null
         /\ InitTypes[InitConns[c].type].tenant \in SeenBy(InitConns[c].tenant)
    /\ \A c, d \in ConnIds :
         /\ InitConns[c] # Null /\ InitConns[d] # Null
         /\ NameKey(InitConns[c]) = NameKey(InitConns[d])
         => c = d
    /\ \A t, u \in TypeIds :
         /\ InitTypes[t] # Null /\ InitTypes[u] # Null
         /\ NameKey(InitTypes[t]) = NameKey(InitTypes[u])
         => t = u
=============================================================================
