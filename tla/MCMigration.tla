----------------------------- MODULE MCMigration ----------------------------
(***************************************************************************)
(* A user's own type and a Secret that uses it; a Secret that refers to    *)
(* the legacy name of a built-in type; a ConfigMap with the name of a      *)
(* built-in type; and what is not imported: the legacy ConfigMap, one that *)
(* cannot be read and a Secret without a type.                             *)
(***************************************************************************)
EXTENDS Migration, TLC

World(there, cm, ref, unreadable) ==
    [objects |-> there, name |-> [c |-> cm, s |-> "sales", i |-> "uri"], ref |-> [s |-> ref],
     unreadable |-> unreadable, provider |-> [i |-> "uri"]]

MCWorlds ==
    {World({"c", "s"}, "own", "own", {}), World({"i", "s"}, "own", "uri-v1", {}),
     World({"i", "c"}, "uri", "none", {}), World({"c", "s"}, "uri-v1", "none", {}),
     World({"c", "s"}, "own", "own", {"c"})}

MCAliases == "uri-v1" :> "uri"
=============================================================================
