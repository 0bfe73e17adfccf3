----------------------- MODULE MCConnectionReadiness -----------------------
(***************************************************************************)
(* Two overlapping checks of a connection that refers to secret s1, which  *)
(* holds credentials old that the source takes.  New credentials and an    *)
(* incomplete secret can be written to s1 or to s2, which is empty.        *)
(***************************************************************************)
EXTENDS ConnectionReadiness, TLC

CONSTANTS s1, s2, old, new, incomplete

MCSecrets == (s1 :> old) @@ (s2 :> Null)
=============================================================================
