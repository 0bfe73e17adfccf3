-------------------------- MODULE MCFlightRequests --------------------------
(***************************************************************************)
(* Two requests, of a user and of the discovery account, for connections   *)
(* of two tenants.  The user is granted one tenant at first; the secret s  *)
(* is complete until it is deleted, and r, which a connection may be       *)
(* patched to refer to, is missing; v2 lacks all keys.  A connection of    *)
(* any other type may be patched to become one of PostgreSQL.              *)
(***************************************************************************)
EXTENDS FlightRequests, TLC

CONSTANTS c1, c2

MCCalls == {c1, c2}

Asks(op, token, tenant, id) ==
    [op |-> op, token |-> token, tenant |-> tenant, id |-> id, secret |-> "s", flaw |-> "none"]

Statement == Asks("statement", "t", "n", "pg")
Test == Asks("check_credentials", "t", "n", "postgres")
Review == Asks("rest", "u", "n", "absent")
Health == Asks("health", "absent", "absent", "absent")

\* Requests that share a review or a client, or must not.
Pairs ==
    {<<Asks("statement_info", "t", "n", "pg"), Statement>>,
     <<Test, Test>>, <<Review, Review>>}

\* Requests that are answered without a client, and one of each kind of client.
Singles ==
    {Health, Asks("rest", "absent", "n", "absent"), Asks("rest", "u", "", "absent"),
     Asks("tables_info", "absent", "n", "pg"), Asks("tables_info", "t", "n", "pg"),
     Asks("sql_info", "t", "", "absent"), Asks("supported_connectors", "d", "absent", "absent"),
     Asks("unknown_action", "d", "absent", "absent"), Asks("unknown_command", "t", "n", "pg"),
     Asks("check_connection", "d", "", "pg"), Asks("check_connection", "t", "m", "pg"),
     Asks("statement", "t", "n", "absent"),
     [Statement EXCEPT !.flaw = "payload"], [Test EXCEPT !.flaw = "schema"], Asks("tables", "t", "n", "pg"),
     Asks("check_credentials", "t", "n", "oracle"), Asks("statement", "t", "n", "old"),
     Asks("download_info", "t", "n", "lite"), Asks("download", "t", "n", "bucket"),
     Asks("download", "t", "n", "web")}

Connection(id, provider) == [id |-> id, tenant |-> "n", provider |-> provider, secret |-> "s"]
Connections ==
    {Connection("pg", "postgres"), Connection("lite", "sqlite"), Connection("bucket", "s3"),
     Connection("web", "uri"), Connection("old", "oracle")}

\* What the cluster and the secrets say of what a request may ask.
Truth(c, r) ==
    LET n == {"n", "m"} \cap {r.tenant}
        content == {s \in {"s", "r"} : \E row \in Connections : row.id = r.id}
        tests == {d \in {c} : r.op = "check_credentials"}
    IN  IF r.op = "rest" THEN [q \in {<<"secret", "u", m, "s">> : m \in n} |-> "yes"]
        ELSE [q \in {<<"token", t>> : t \in {"t", "d"} \cap {r.token}} |->
                IF r.token = "d" THEN "account" ELSE "u"]
          @@ [q \in {<<"access", "u", m>> : m \in n} |-> IF n = {"n"} THEN "yes" ELSE "no"]
          @@ [q \in {<<"content", "n", s>> : s \in content} |-> IF q[3] = "s" THEN "v1" ELSE "missing"]
          @@ [q \in {<<"inline", d>> : d \in tests} |-> IF c = c1 THEN "v1" ELSE "v2"]

MCOwner == [id \in {row.id : row \in Connections} |-> "n"]

MCScenarios ==
    {[request |-> (c1 :> p[1]) @@ (c2 :> p[2]),
      rows |-> {row \in Connections : row.id \in {p[1].id, p[2].id}},
      truth |-> Truth(c1, p[1]) @@ Truth(c2, p[2])] : p \in Pairs \cup (Singles \X {Health})}

MCKeysOf == [v1 |-> {"URI", "CA_CERT"}, v2 |-> {}]
=============================================================================
