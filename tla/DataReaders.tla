---------------------------- MODULE DataReaders ----------------------------
(***************************************************************************)
(* The readers of all connectors: any of them serves one request while its *)
(* source changes and fails.  Every stream is shown to be a TabularStream. *)
(***************************************************************************)
EXTENDS TableReaders, FileReaders

Reader ==
    \/ provider = "postgres" /\ PgReader
    \/ provider = "sqlite" /\ SqliteReader
    \/ provider = "neo4j" /\ Neo4jReader
    \/ provider = "elasticsearch" /\ EsReader
    \/ provider = "milvus" /\ MilvusReader
    \/ provider = "s3" /\ ~ request.binary /\ S3Reader
    \/ provider = "s3" /\ request.binary /\ S3Binary
    \/ provider = "uri" /\ ~ request.binary /\ UriReader
    \/ provider = "uri" /\ request.binary /\ UriBinary

ReadersInit == SessionInit
ReadersNext == Reader \/ World

(***************************************************************************)
(* Unless the reader is stuck (Stalls), the source answers or fails a call *)
(* and the client pulls its stream or goes away.  Elasticsearch expires a  *)
(* point in time that nobody uses.                                         *)
(***************************************************************************)
ReadersSpec ==
    /\ ReadersInit /\ [][ReadersNext]_readerVars
    /\ WF_readerVars(Reader)
    /\ WF_readerVars(PitExpires /\ pc = "done")

Outcomes == {"none", "ok", "error", "dropped"}

\* The state is well formed, and a reader is done exactly when its stream
\* has an outcome.
ReadersTypeOK ==
    /\ provider \in DOMAIN Requests
    /\ request \in Requests[provider]
    /\ source \in Versions[provider]
    /\ pc \in {"schema", "open", "read", "commit", "close", "close_error", "stuck", "done"}
    /\ \A i \in DOMAIN schema : schema[i].type \in ArrowTypes
    /\ view \in Versions[provider] \cup {NoTable}
    /\ pos \in Nat
    /\ outcome \in Outcomes
    /\ (pc = "done") = (outcome # "none")
    /\ held \subseteq {"connection", "transaction", "read_only", "pit"}
    /\ torn \in BOOLEAN
    /\ changes \in 0 .. MaxChanges
    /\ faults \in 0 .. MaxFaults

(***************************************************************************)
(* The stream as its client sees it.  A reader that keeps what it fetched  *)
(* has its moment when it infers the schema, any other when it begins.     *)
(***************************************************************************)
Begun == view # NoTable

StreamStatus ==
    CASE outcome = "ok" -> "complete"
      [] outcome = "error" -> "failed"
      [] outcome = "dropped" -> "dropped"
      [] OTHER -> IF torn THEN "torn" ELSE IF Begun THEN "streaming" ELSE "waiting"

Isolation == IF ~ Live THEN "snapshot" ELSE IF provider = "s3" THEN "none" ELSE "append"
Result == IF Begun THEN WantedRows(Reading) ELSE <<>>

Stream == INSTANCE TabularStream WITH
            isolation <- Isolation, table <- WantedRows(source), result <- Result,
            given <- Given, status <- StreamStatus

\* Every connector's stream gives the rows that were asked for, as of one
\* moment, in order, none missing and none twice, however the source
\* changes, where the source can do that; read_tabular and read_binary.
StreamsAreTabular == Stream!Spec

\* What a column may lose of a number: less than a step of a Float32, of a
\* Float64 beyond its exact integers, or of a timestamp in milliseconds, and
\* nothing of a number that the column can hold.  A Boolean is the truth of it.
Near(type, cell, v) ==
    \/ /\ \/ type = "Float32" /\ (v.k = "float" \/ v.n \notin - Exact[type] .. Exact[type])
          \/ type = "Float64" /\ v.k = "int" /\ v.n \notin - Exact[type] .. Exact[type]
          \/ type \in {"Timestamp_ms", "Timestamp_ms_UTC"}
       /\ cell.k = v.k
       /\ cell.n - v.n \in 1 - Fine .. Fine - 1
       /\ v.n % Fine = 0 => cell.n = v.n
    \/ type = "Boolean" /\ v.k \in {"bool", "int"} /\ cell = Truth(v)

\* Every cell is the value of its row under the label of its column, or its
\* text, or null, or as near as the column's type allows; an integer is never
\* cut to the width of its column, and a value never lands under another
\* label (rows_to_batch, json_values_to_array and their like).  Not so when
\* the columns of PostgreSQL, SQLite or Parquet were renamed between the
\* schema and the rows, or a CSV object replaced (positions are trusted), nor
\* for a date that Neo4j has and chrono has not.
Positional == provider \in {"postgres", "sqlite", "s3", "uri"}
CellsFaithful ==
    \/ torn
    \/ provider \in {"s3", "uri"} /\ request.binary
    \/ Positional /\ Names(view) # [i \in DOMAIN schema |-> schema[i].name]
    \/ \A b \in DOMAIN sent : \A c \in DOMAIN schema : \A r \in DOMAIN sent[b].rows :
         LET cell == sent[b].cells[c][r]
             value == Field(sent[b].rows[r], schema[c].name)
         IN  \/ cell \in {Null, value, Text(value)}
             \/ Near(schema[c].type, cell, value)
             \/ provider = "neo4j" /\ value.n = Far

(***************************************************************************)
(* What a client and a data source can do wrong, said without the code: a  *)
(* value that does not fit its column, a file that changes its mind, a     *)
(* request that asks for nothing.                                          *)
(***************************************************************************)
\* A type of PostgreSQL that is known, a number or date that is finite, and a
\* vector as long as it says.
PgFits(type, v) ==
    LET name == type[Len(type)]
    IN  \/ v = Null
        \/ name \in {"BOOL", "INT2", "INT4", "INT8", "FLOAT4", "FLOAT8", "BYTEA", "TIME", "UUID",
                     "TEXT", "VARCHAR"}
        \/ name \in {"NUMERIC", "DATE", "TIMESTAMP", "TIMESTAMPTZ", "JSON", "JSONB"} /\ v.k # "special"
        \/ name = "vector" /\ v.len = 4 + v.dim * 4
        \/ name = "halfvec" /\ v.len = 4 + v.dim * 2
        \/ name = "sparsevec" /\ v.len = 12 + v.dim * 8

\* A value of the kind that its column was declared with.
SqliteFits(type, v) ==
    \/ v = Null
    \/ type = "BOOLEAN" /\ v.k \in {"bool", "int"}
    \/ type = "INTEGER" /\ v.k = "int"
    \/ type = "REAL" /\ v.k = "float"
    \/ type = "BLOB" /\ v.k \in {"bytes", "str"}
    \/ type \notin {"BOOLEAN", "INTEGER", "REAL", "BLOB"} /\ v.k = "str"

\* An integer within its column, a date that is one.  Columns on whose type
\* the indices do not agree may hold anything.
InRange(type, v) == v.k = "int" => v.n \in IntRange[type]

EsFits(type, v) ==
    /\ type = "byte" => InRange("Int8", v)
    /\ type = "short" => InRange("Int16", v)
    /\ type = "integer" => InRange("Int32", v)
    /\ type \in {"date", "date_nanos"} => v.k \in {"null", "int", "float", "time"}

Agreed(table, i) ==
    \A j \in DOMAIN table.cols :
        table.cols[j].name = table.cols[i].name => table.cols[j].type = table.cols[i].type

\* The values of a column of a file are of one kind, and one of them is
\* among the rows that every sample holds.  In a CSV file that is not sampled
\* whole, only the last column has texts of several lines.
SameKinds(table) ==
    \A i \in DOMAIN table.cols : \A r, q \in DOMAIN table.rows :
        LET k(n) == table.rows[n].fields[i][2].k
            kind(n) == IF k(n) = "lines" THEN "str" ELSE k(n)
        IN  "null" \in {kind(r), kind(q)} \/ kind(r) = kind(q)

Suggested(table, sampled) ==
    \A i \in DOMAIN table.cols : \A r \in DOMAIN table.rows :
        LET kind(n) == table.rows[n].fields[i][2].k
        IN  kind(r) # "null" => \E q \in DOMAIN table.rows : q <= sampled /\ kind(q) # "null"

FileFits(format, data_path) ==
    /\ source.cols # <<>>
    /\ format = "json" \/ provider = "uri" => Len(Bytes(format, source)) <= MaxBytes
    /\ format \in {"csv", "jsonl"} => SameKinds(source)
    /\ format = "csv" /\ Len(Bytes(format, source)) >= MaxSample =>
         \A r \in DOMAIN source.rows : LineBreaks(source.rows[r]) \subseteq {Len(source.cols)}
    /\ format = "jsonl" => MaxSample > 1 /\ Suggested(source, MaxSample \div 2)
    /\ format \in {"jsonl", "json"} => source.rows # <<>>
    /\ format = "json" => source.path = data_path

\* The source holds what fits its columns, and has a column to give.
SourceFits ==
    LET value(i, r) == source.rows[r].fields[i][2]
        field(i, r) == Field(source.rows[r], source.cols[i].name)
        cells == (DOMAIN source.cols) \X (DOMAIN source.rows)
        formats == IF provider = "s3" THEN FormatOf(request.extension, request.hint) ELSE UriFormat(source)
    IN  CASE provider = "postgres" ->
                source.cols # <<>> /\ \A c \in cells : PgFits(source.cols[c[1]].type, value(c[1], c[2]))
          [] provider = "sqlite" ->
                source.cols # <<>> /\ \A c \in cells : SqliteFits(source.cols[c[1]].type, value(c[1], c[2]))
          [] provider = "neo4j" -> \A r \in DOMAIN source.rows : source.rows[r].fields # <<>>
          [] provider = "elasticsearch" ->
                /\ source.cols # <<>>
                /\ \A c \in cells : Agreed(source, c[1]) => EsFits(source.cols[c[1]].type, field(c[1], c[2]))
          [] provider = "milvus" ->
                /\ MilvusSchemaOf(source.cols, MilvusQuery.fields, MilvusQuery.operation) # <<>>
                /\ \A c \in cells : source.cols[c[1]].type \in DOMAIN IntRange =>
                                     InRange(source.cols[c[1]].type, field(c[1], c[2]))
          [] OTHER ->
                \/ request.binary
                \/ /\ formats # {}
                   /\ FileFits(CHOOSE f \in formats : TRUE,
                               IF provider = "s3" THEN {} ELSE UriQuery.data_path)

\* The request only reads, and says of what.
RequestFits ==
    CASE provider \in {"postgres", "sqlite", "neo4j"} -> request.statement = "read"
      [] provider = "elasticsearch" ->
            /\ request.shape = "object" /\ FALSE \notin request.source
            /\ request.index # {} \/ request.default_index # {}
      [] provider = "milvus" -> request.shape = "object" /\ request.collection # {}
      [] provider = "uri" ->
            /\ \A path \in request.path : BelowBase(path)
            /\ request.binary \/ (/\ request.shape = "object" /\ request.path # {}
                                  /\ request.method \subseteq {"GET"})
      [] OTHER -> TRUE

\* A request that makes sense, of a source whose values fit their columns,
\* is only ever refused or broken off because a call failed or the source
\* changed: what is announced and what is built never disagree (schema and
\* build_array of each connector, read_sample, decode_stream).
ErrorsHaveReason ==
    outcome = "error" => faults > 0 \/ changes > 0 \/ ~ RequestFits \/ ~ SourceFits

\* A stream that ends by itself, well or not, leaves nothing behind at the
\* source unless a call failed: every way out of the loop of Elasticsearch
\* passes close_pit, also those on which the batch cannot be built.
NothingLeftBehind == outcome # "none" /\ held # {} => faults > 0

\* Unless the source or the client leaves it stuck, a stream ends, and what it
\* held of the source is given back: pooled connections, transactions, points
\* in time (close_pit, or five minutes).  No loop of a reader goes round
\* without getting on.
EverythingReleased == <>[](pc = "stuck" \/ (outcome # "none" /\ held = {}))
=============================================================================
