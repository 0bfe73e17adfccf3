------------------------------ MODULE Clients ------------------------------
(***************************************************************************)
(* What get_reader of each connector makes of the credentials of a         *)
(* connection: a pool, a graph, an operator or an HTTP client.  Of the     *)
(* credentials only the keys that are present matter.  A client says how   *)
(* it authenticates and whose certificates it trusts; {} is an error, of   *)
(* the kind that BuildError names.                                         *)
(***************************************************************************)
EXTENDS FiniteSets

Trust(keys, key) == IF key \in keys THEN "given" ELSE "default"

\* PgConnector: the URL has it all.
PgClient(keys) ==
    IF "URI" \notin keys THEN {} ELSE {[auth |-> "uri", trust |-> Trust(keys, "CA_CERT")]}

\* SqliteConnector: the URL is that of a file.
SqliteClient(keys) == IF "URI" \notin keys THEN {} ELSE {[auth |-> "none", trust |-> "default"]}

\* build_graph: a password is needed, the user has a default.
Neo4jClient(keys) ==
    IF ~ {"URI", "PASSWORD"} \subseteq keys THEN {}
    ELSE {[auth |-> "basic", trust |-> Trust(keys, "CA_CERT")]}

Login(keys) == IF {"USERNAME", "PASSWORD"} \subseteq keys THEN "basic" ELSE "none"

\* build_client of Elasticsearch and EsClient::request: an API key counts
\* more than a user.
EsClient(keys) ==
    IF "URI" \notin keys THEN {}
    ELSE {[auth |-> IF "API_KEY" \in keys THEN "api_key" ELSE Login(keys),
           trust |-> Trust(keys, "CA_CERT")]}

\* get_reader of Milvus: a token or nothing.
MilvusClient(keys) ==
    IF "URI" \notin keys THEN {}
    ELSE {[auth |-> IF "TOKEN" \in keys THEN "token" ELSE "none", trust |-> Trust(keys, "CA_CERT")]}

\* build_operator: the bucket and both halves of the key.
S3Client(keys) ==
    IF ~ {"AWS_S3_BUCKET", "AWS_ACCESS_KEY_ID", "AWS_SECRET_ACCESS_KEY"} \subseteq keys THEN {}
    ELSE {[auth |-> "signature", trust |-> Trust(keys, "AWS_S3_CA_CERT")]}

\* build_client of the URI connector: a token counts more than a user.
UriClient(keys) ==
    IF "URI" \notin keys THEN {}
    ELSE {[auth |-> IF "TOKEN" \in keys THEN "token" ELSE Login(keys),
           trust |-> Trust(keys, "CA_CERT")]}

ClientOf(provider, keys) ==
    CASE provider = "postgres" -> PgClient(keys)
      [] provider = "sqlite" -> SqliteClient(keys)
      [] provider = "neo4j" -> Neo4jClient(keys)
      [] provider = "elasticsearch" -> EsClient(keys)
      [] provider = "milvus" -> MilvusClient(keys)
      [] provider = "s3" -> S3Client(keys)
      [] provider = "uri" -> UriClient(keys)
      [] OTHER -> {}

BuildError(provider) == IF provider = "s3" THEN "ConfigError" ELSE "ConnectionError"
=============================================================================
