--------------------------- MODULE MCDataReaders ---------------------------
(***************************************************************************)
(* Small tables with batches of two rows, so that a stream has a full and  *)
(* a last batch.  A table may grow, lose its first row, have a column      *)
(* renamed or retyped; a file may be replaced.  Some tables hold a value   *)
(* that does not fit its column, and some requests are refused.            *)
(***************************************************************************)
EXTENDS DataReaders

V(k, n) == [k |-> k, n |-> n]
Cols(names, types) == [i \in DOMAIN types |-> [name |-> names[i], type |-> types[i]]]
Row(i, names, vals) == [id |-> i, fields |-> [c \in DOMAIN names |-> <<names[c], vals[c]>>]]
Rows(names, vals) == [i \in DOMAIN vals |-> Row(i, names, vals[i])]
Table(names, types, vals) ==
    [cols |-> Cols(names, types), rows |-> Rows(names, vals)]
WithoutFirst(table) == [table EXCEPT !.rows = Tail(@)]

\* PostgreSQL: an integer and a vector of an extension off the search path.
PgVec(n, len) == [k |-> "vec", n |-> n, dim |-> 2, len |-> len]
PgTypes == <<<<"INT4">>, <<"ext", "vector">>>>
PgVals == <<<<V("int", 1), PgVec(2, 12)>>, <<Null, PgVec(3, 12)>>, <<V("int", 4), Null>>>>
PgWide == <<<<"BOOL">>, <<"INT2">>, <<"INT8">>, <<"FLOAT4">>, <<"FLOAT8">>, <<"BYTEA">>,
            <<"TIMESTAMP">>, <<"TIMESTAMPTZ">>, <<"DATE">>, <<"TIME">>, <<"NUMERIC">>, <<"UUID">>,
            <<"JSON">>, <<"JSONB">>, <<"TEXT">>, <<"halfvec">>, <<"sparsevec">>>>
PgWideRow == [i \in DOMAIN PgWide |->
                CASE PgWide[i] = <<"halfvec">> -> PgVec(i, 8)
                  [] PgWide[i] = <<"sparsevec">> -> PgVec(i, 28)
                  [] OTHER -> V("native", i)]
PgTable == Table(<<"a", "v">>, PgTypes, PgVals)
PgVersions ==
    {PgTable, WithoutFirst(PgTable),
     Table(<<"a", "v">>, PgTypes, PgVals \o <<<<V("int", 5), PgVec(6, 12)>>>>),
     Table(<<"z", "v">>, PgTypes, PgVals),
     Table(<<"a", "v">>, <<<<"INT8">>, <<"ext", "vector">>>>, PgVals),
     Table(<<"a", "v">>, PgTypes, <<<<V("int", 1), PgVec(2, 11)>>>>),
     Table([i \in DOMAIN PgWide |-> ToString(i)], PgWide, <<PgWideRow>>),
     Table(<<"a", "d">>, <<<<"NUMERIC">>, <<"DATE">>>>, <<<<V("native", 1), V("special", 2)>>>>)}

\* SQLite: any value may be in any column.
SqliteVals == <<<<V("int", 1), V("str", 2)>>, <<Null, V("str", 3)>>, <<V("int", 4), V("str", 5)>>>>
SqliteVersions ==
    LET table == Table(<<"a", "b">>, <<"INTEGER", "TEXT">>, SqliteVals)
    IN  {table, WithoutFirst(table),
         Table(<<"b", "a">>, <<"INTEGER", "TEXT">>, SqliteVals),
         Table(<<"a", "b">>, <<"INTEGER", "TEXT">>, <<<<V("str", 1), V("str", 2)>>>>),
         Table(<<"a", "b", "c">>, <<"BOOLEAN", "REAL", "BLOB">>,
               <<<<V("int", 5), V("float", 2), V("bytes", 3)>>>>)}

\* Neo4j: the second row has other kinds of values than the first, among them
\* an integer that is not exact as a float, and an instant between two
\* milliseconds.
Neo4jVersions ==
    LET vals == <<<<V("float", 1), V("datetime", 23), V("str", 3)>>,
                  <<V("int", 200007), V("datetime", Far), V("date", Far)>>,
                  <<V("str", 5), V("local", -17), V("bool", 6)>>>>
        table == Table(<<"a", "b", "c">>, <<>>, vals)
    IN  {table, WithoutFirst(table), Table(<<"a", "b", "c">>, <<>>, <<>>),
         Table(<<"a", "b", "c">>, <<>>, vals \o <<<<V("float", 7), Null, V("str", 8)>>>>)}

\* Elasticsearch: two indices that disagree on the type of t; equal keys;
\* numbers between those that f and d can hold.
EsCols == <<"key", "f", "d", "t", "t">>
EsTypes == <<"short", "float", "date_nanos", "long", "keyword">>
EsVals == <<<<V("int", 2), V("float", 18), V("time", 11), V("int", 12)>>,
            <<V("int", 1), V("int", 40009), V("int", 13), V("str", 14)>>,
            <<V("int", 1), V("int", 7), Null, V("str", 15)>>,
            <<V("int", 1), Null, V("float", -16), Null>>>>
EsTable(vals) == [Table(EsCols, EsTypes, <<>>) EXCEPT !.rows = Rows(<<"key", "f", "d", "t">>, vals)]
EsVersions ==
    {EsTable(EsVals), WithoutFirst(EsTable(EsVals)),
     EsTable(<<<<V("int", 1), Null, V("time", 2), Null>>, <<V("int", 40000), Null, V("time", 3), Null>>>>),
     EsTable(<<<<V("int", 1), Null, V("str", 2), Null>>>>),
     Table(<<>>, <<>>, <<>>)}

\* Milvus: a vector that is left out by default, a distance in each hit.
MilvusVersions ==
    LET vals == <<<<V("int", 1), V("vec", 2), V("float", 3)>>, <<V("int", 4), V("vec", 5), V("float", 6)>>,
                  <<V("int", 7), V("vec", 8), V("float", 9)>>>>
        table(v) == [Table(<<"id", "emb">>, <<"Int8", "FloatVector">>, <<>>)
                       EXCEPT !.rows = Rows(<<"id", "emb", "distance">>, v)]
    IN  {table(vals), WithoutFirst(table(vals)),
         table(vals \o <<<<V("int", 10), Null, V("float", 11)>>>>),
         table(<<<<V("int", 200), V("vec", 5), V("float", 3)>>>>)}

\* Files: the third row may not fit what the first ones suggest; the second
\* may have a text of two lines, which a sample is cut in.
Octets == [top |-> "application", sub |-> "octet-stream", suffix |-> ""]
File(vals, newline, path, type) ==
    [cols |-> Cols(<<"a", "s">>, <<"Int64", "Utf8">>), rows |-> Rows(<<"a", "s">>, vals),
     newline |-> newline, path |-> path, content_type |-> type]
FileVals == <<<<V("int", 1), V("str", 2)>>, <<Null, V("str", 3)>>, <<V("int", 4), V("str", 5)>>>>
NullFirst == <<FileVals[2], FileVals[1], FileVals[3]>>
S3Versions ==
    {File(FileVals, TRUE, {}, Octets), File(FileVals, FALSE, {}, Octets),
     File(<<<<V("int", 6), V("str", 7)>>>>, TRUE, {}, Octets),
     [File(FileVals, TRUE, {}, Octets) EXCEPT
        !.cols = Cols(<<"z", "s">>, <<"Int64", "Utf8">>), !.rows = Rows(<<"z", "s">>, NullFirst)],
     File([FileVals EXCEPT ![3][1] = V("str", 8)], TRUE, {}, Octets),
     File(FileVals \o SubSeq(FileVals, 1, 1), TRUE, {}, Octets),
     File([FileVals EXCEPT ![2][2] = V("lines", 9)], TRUE, {}, Octets),
     File([r \in DOMAIN FileVals |-> <<IF r = 2 THEN V("lines", 9) ELSE V("str", r), V("int", r)>>],
          TRUE, {}, Octets),
     File(<<>>, TRUE, {}, Octets)}
UriVersions ==
    {File(FileVals, TRUE, {"items"}, Octets),
     File(FileVals, FALSE, {"items"}, [top |-> "text", sub |-> "csv", suffix |-> ""]),
     File(<<<<V("int", 6), V("str", 7)>>>>, TRUE, {"items"},
          [top |-> "application", sub |-> "problem", suffix |-> "json"]),
     File(FileVals \o SubSeq(FileVals, 1, 1), TRUE, {"items"}, Octets)}

MCVersions ==
    [postgres |-> PgVersions, sqlite |-> SqliteVersions, neo4j |-> Neo4jVersions,
     elasticsearch |-> EsVersions, milvus |-> MilvusVersions, s3 |-> S3Versions, uri |-> UriVersions]

Statements == {[statement |-> s] : s \in {"read", "write", "script"}}

EsAsk(size, sort) ==
    [shape |-> "object", source |-> {}, index |-> {"i"}, default_index |-> {}, size |-> size,
     sort |-> sort]
EsRequests ==
    {EsAsk(size, sort) : size \in {{}, {0}, {3}}, sort \in {{}, {<<"key">>}, {<<"key", "_shard_doc">>}}}
    \cup {[EsAsk({}, {}) EXCEPT !.index = {}, !.default_index = {"j"}],
          [EsAsk({}, {}) EXCEPT !.index = {}],
          [EsAsk({}, {}) EXCEPT !.source = {FALSE}],
          [EsAsk({}, {}) EXCEPT !.shape = "list"]}

MilvusAsk(data, id, limit, offset, fields) ==
    [shape |-> "object", collection |-> {"c"}, data |-> data, id |-> id, limit |-> limit,
     offset |-> offset, output_fields |-> fields]
MilvusRequests ==
    {MilvusAsk(d, i, l, {}, f) : d \in {{}, {"v"}}, i \in {{}, {1}}, l \in {{}, {3}}, f \in {{}, {<<"*", "id">>}}}
    \cup {MilvusAsk({}, {}, l, {1}, {}) : l \in {{}, {0}, {2}}}
    \cup {[MilvusAsk({}, {}, {}, {}, {}) EXCEPT !.collection = {}]}

S3Request(extension, hint, binary) ==
    [extension |-> extension, hint |-> hint, binary |-> binary]

UriAsk(path, format, data_path) ==
    [shape |-> "object", path |-> {path}, method |-> {}, format |-> format, data_path |-> data_path,
     binary |-> FALSE]
UriRequests ==
    {UriAsk(p, {}, {"items"}) : p \in {"csv", "jsonl", "parquet"}}
    \cup {UriAsk("txt", {"json"}, {"items"}), [UriAsk("csv", {}, {"items"}) EXCEPT !.method = {"GET"}],
          UriAsk("json", {}, {}),
          UriAsk("txt", {}, {"items"}),
          [UriAsk("csv", {}, {}) EXCEPT !.method = {"POST"}],
          [UriAsk("jsonl", {}, {}) EXCEPT !.binary = TRUE],
          UriAsk("..", {"csv"}, {}),
          [UriAsk("..", {}, {}) EXCEPT !.binary = TRUE]}

MCRequests ==
    [postgres |-> Statements, sqlite |-> Statements, neo4j |-> Statements,
     elasticsearch |-> EsRequests, milvus |-> MilvusRequests,
     s3 |-> {S3Request(e, {}, FALSE) : e \in {"csv", "ndjson", "json", "parquet", "txt"}}
            \cup {S3Request("txt", {"jsonl"}, FALSE), S3Request("txt", {}, TRUE)},
     uri |-> UriRequests]
=============================================================================
