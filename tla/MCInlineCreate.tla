--------------------------- MODULE MCInlineCreate ---------------------------
(***************************************************************************)
(* Three requests at a time over two connection names and two secret       *)
(* names: every combination of inline creations that share a connection    *)
(* name, a secret name, both or neither, with references, deletions and    *)
(* exports onto either secret.                                             *)
(***************************************************************************)
EXTENDS InlineCreate, TLC

HandlerSymmetry == Permutations(Handlers) \cup Permutations(Names) \cup Permutations(SecretNames)
=============================================================================
