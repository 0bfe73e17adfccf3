-------------------------- MODULE MCFlightRegistry --------------------------
(***************************************************************************)
(* Two handlers, a Flight service with the one connector p1, and a         *)
(* connection type t1 for it; nobody offers p2 at first.  The requests     *)
(* change each kind of row under a running audit: the registration is      *)
(* deleted, made not ready, renamed or given another connector, another    *)
(* service that has the same connector too is posted, a type is created,   *)
(* patched to the other connector, or deleted.                             *)
(***************************************************************************)
EXTENDS FlightRegistry, TLC

CONSTANTS f1, t1, t2, p1, p2, n1, n2

MCProviders == (t1 :> p1) @@ (t2 :> Null)

MCRequests ==
    {[op |-> "delete_flight_service", id |-> f1],
     [op |-> "create_flight_service", name |-> n2, connectors |-> {p1, p2}],
     [op |-> "patch_flight_service", id |-> f1, name |-> {}, connectors |-> {}, ready |-> {FALSE}],
     [op |-> "patch_flight_service", id |-> f1, name |-> {n2}, connectors |-> {}, ready |-> {}],
     [op |-> "patch_flight_service", id |-> f1, name |-> {}, connectors |-> {{p2}}, ready |-> {}],
     [op |-> "create_connection_type", provider |-> p1],
     [op |-> "patch_connection_type", id |-> t1, provider |-> p2],
     [op |-> "delete_connection_type", id |-> t1]}
=============================================================================
