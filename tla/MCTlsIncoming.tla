--------------------------- MODULE MCTlsIncoming ---------------------------
(***************************************************************************)
(* Four clients, one of which stalls, against fewer permits than clients   *)
(* and, as in the code (1024 and 128), more permits than channel slots.    *)
(***************************************************************************)
EXTENDS TlsIncoming

CONSTANTS c1, c2, c3, c4

MCClients == {c1, c2, c3, c4}
MCStalled == {c1}
=============================================================================
