---------------------------- MODULE ColumnTypes ----------------------------
(***************************************************************************)
(* What the connectors announce for a column and what they put into it.    *)
(*                                                                         *)
(* Every connector has two tables that have to agree: one from the types   *)
(* of the data source to Arrow types, used for the schema that a stream    *)
(* announces, and one, spelled out separately in the code, from the types  *)
(* or values of the rows to the array that is built.  Both are transcribed *)
(* here.  A type is named as in the code; the spellings of one type that   *)
(* the code treats alike (INT4, INTEGER, SERIAL) are one name.             *)
(*                                                                         *)
(* A value is a record with its kind and a number that identifies it; a    *)
(* cell is a value, Null, or Failed, which makes the whole batch an error. *)
(***************************************************************************)
EXTENDS Integers, Sequences, SequencesExt

Null == [k |-> "null", n |-> 0]
Failed == [k |-> "failed", n |-> 0]

\* The types of Arrow that the connectors announce.
ArrowTypes == {"Null", "Boolean", "Int8", "Int16", "Int32", "Int64", "Float32", "Float64", "Utf8",
               "Binary", "Date32", "Time64_us", "Timestamp_us", "Timestamp_us_UTC",
               "Timestamp_ms", "Timestamp_ms_UTC", "List"}

\* The elements of a sequence that are in a set, in their order.
Only(s, S) ==
    LET only[i \in 0 .. Len(s)] ==
          IF i = 0 THEN <<>> ELSE IF s[i] \in S THEN Append(only[i - 1], s[i]) ELSE only[i - 1]
    IN  only[Len(s)]

\* The places of a sequence at which something appears for the first time.
FirstPlaces(s) ==
    Only([i \in DOMAIN s |-> i], {i \in DOMAIN s : \A j \in 1 .. i - 1 : s[j] # s[i]})

\* A value turned into its text: the same value, spelled out.
Text(v) == [k |-> "str", n |-> v.n]

(***************************************************************************)
(* What a narrower column keeps of a number.  The numbers of floats and    *)
(* times count tenths of the steps that a Float32 or a timestamp in        *)
(* milliseconds can tell apart; integers are exact up to a bound (2^24 and *)
(* 2^53, scaled down) and then only to the step as well.  The stores keep  *)
(* no float beyond the largest of its column.                              *)
(***************************************************************************)
Fine == 10
Exact == [Float32 |-> 40000, Float64 |-> 200000]

Floor(n) == n - (n % Fine)
TowardZero(n) == IF n < 0 THEN - Floor(- n) ELSE Floor(n)
Nearest(n) == Floor(n + Fine \div 2)

\* "as f32", "as f64": to the nearest float.
as_float(type, v) ==
    IF \/ v.k = "int" /\ v.n \in - Exact[type] .. Exact[type]
       \/ v.k = "float" /\ type = "Float64"
    THEN v ELSE [k |-> v.k, n |-> Nearest(v.n)]

\* timestamp_millis, which rounds down, and "as i64", which cuts off.
as_millis(v) == [k |-> v.k, n |-> IF v.k = "float" THEN TowardZero(v.n) ELSE Floor(v.n)]

\* A row is an identity and its fields, <<name, value>>, in order; a row
\* without the field has nothing there.
Field(row, name) ==
    LET at == {i \in DOMAIN row.fields : row.fields[i][1] = name}
    IN  IF at = {} THEN Null ELSE row.fields[CHOOSE i \in at : TRUE][2]

(***************************************************************************)
(* PostgreSQL.  A type name is the sequence of its dotted parts: types of  *)
(* an extension are qualified when their schema is not on the search path. *)
(* The qualifier is stripped before the tables are consulted.              *)
(***************************************************************************)
pg_type_to_arrowUnmapped(pg) == pg[Len(pg)]
pg_type_to_arrow(pg) ==
    LET name  == pg[Len(pg)]
        arrow == [BOOL |-> "Boolean", INT2 |-> "Int16", INT4 |-> "Int32", INT8 |-> "Int64",
                  FLOAT4 |-> "Float32", FLOAT8 |-> "Float64", BYTEA |-> "Binary",
                  TIMESTAMP |-> "Timestamp_us", TIMESTAMPTZ |-> "Timestamp_us_UTC",
                  DATE |-> "Date32", TIME |-> "Time64_us", NUMERIC |-> "Utf8",
                  UUID |-> "Utf8", JSON |-> "Utf8", JSONB |-> "Utf8",
                  vector |-> "List", halfvec |-> "List", sparsevec |-> "Utf8"]
    IN  IF name \in DOMAIN arrow THEN arrow[name] ELSE "Utf8"

(***************************************************************************)
(* The binary layouts of pgvector: a header, then one entry per dimension, *)
(* or per element that is not zero.  A value whose length differs is       *)
(* refused.  A sparse vector becomes text.                                 *)
(***************************************************************************)
PgVectorCell(type, v) ==
    LET layout == [vector    |-> [header |-> 4,  entry |-> 4],
                   halfvec   |-> [header |-> 4,  entry |-> 2],
                   sparsevec |-> [header |-> 12, entry |-> 8]][type]
    IN  IF v.len # layout.header + v.dim * layout.entry THEN Failed
        ELSE IF type = "sparsevec" THEN Text(v)
        ELSE v

PgPartial == {"NUMERIC", "DATE", "TIMESTAMP", "TIMESTAMPTZ", "JSON", "JSONB"}

\* build_array: the array for a column of the row, by the type the row names.
\* Every other type is asked for as a string, which sqlx grants only to the
\* textual types.  A "special" value is one that the type of Rust has not: NaN
\* for BigDecimal, infinity for the dates of chrono, a number of JSON that is
\* too large for serde_json.
PgArrayOf(pg, values) ==
    LET name  == pg[Len(pg)]
        plain == [BOOL |-> "Boolean", INT2 |-> "Int16", INT4 |-> "Int32",
                  INT8 |-> "Int64", FLOAT4 |-> "Float32", FLOAT8 |-> "Float64",
                  BYTEA |-> "Binary", TIMESTAMP |-> "Timestamp_us",
                  TIMESTAMPTZ |-> "Timestamp_us_UTC", DATE |-> "Date32",
                  TIME |-> "Time64_us"]
        cell(v) == IF v = Null THEN Null
                   ELSE IF v.k = "special" /\ name \in PgPartial THEN Failed
                   ELSE IF name \in DOMAIN plain \cup {"TEXT", "VARCHAR"} THEN v
                   ELSE IF name \in {"UUID", "JSON", "JSONB", "NUMERIC"} THEN Text(v)
                   ELSE IF name \in {"vector", "halfvec", "sparsevec"} THEN PgVectorCell(name, v)
                   ELSE Failed
    IN  [type  |-> IF name \in DOMAIN plain THEN plain[name]
                   ELSE IF name \in {"vector", "halfvec"} THEN "List"
                   ELSE "Utf8",
         cells |-> [i \in DOMAIN values |-> cell(values[i])]]

(***************************************************************************)
(* SQLite.  A column has a declared type, but every value has its own; the *)
(* driver refuses a value that does not fit the type asked for.  A number  *)
(* asked for as a Boolean is one, that is, whether it is zero.             *)
(***************************************************************************)
sqlite_type_to_arrow(type) ==
    CASE type = "BOOLEAN" -> "Boolean"
      [] type = "INTEGER" -> "Int64"
      [] type = "REAL"    -> "Float64"
      [] type = "BLOB"    -> "Binary"
      [] OTHER            -> "Utf8"

Truth(v) == [k |-> "bool", n |-> IF v.n = 0 THEN 0 ELSE 1]

SqliteArrayOf(type, values) ==
    LET asked == CASE type = "BOOLEAN" -> [arrow |-> "Boolean", kinds |-> {"bool", "int"}]
                   [] type = "INTEGER" -> [arrow |-> "Int64",   kinds |-> {"int"}]
                   [] type = "REAL"    -> [arrow |-> "Float64", kinds |-> {"float"}]
                   [] type = "BLOB"    -> [arrow |-> "Binary",  kinds |-> {"bytes", "str"}]
                   [] OTHER            -> [arrow |-> "Utf8",    kinds |-> {"str"}]
        cell(v) == IF v = Null THEN Null
                   ELSE IF v.k \notin asked.kinds THEN Failed
                   ELSE IF type = "BOOLEAN" THEN Truth(v) ELSE v
    IN  [type |-> asked.arrow, cells |-> [i \in DOMAIN values |-> cell(values[i])]]

(***************************************************************************)
(* JSON values, as Elasticsearch and Milvus answer them.  The array always *)
(* has the announced type.  A value of another kind becomes Null, except   *)
(* that an integer out of range and a timestamp that cannot be parsed fail *)
(* the batch.                                                              *)
(***************************************************************************)
IntRange == [Int8 |-> -128 .. 127, Int16 |-> -32768 .. 32767, Int32 |-> -99999 .. 99999]

checked_int_cellWrapped(type, v) ==
    IF v.k # "int" THEN Null
    ELSE IF v.n \in IntRange[type] THEN v ELSE [v EXCEPT !.n = v.n % 128]
checked_int_cell(type, v) ==
    IF v.k # "int" THEN Null ELSE IF v.n \in IntRange[type] THEN v ELSE Failed

json_values_to_array(type, values) ==
    LET checked_timestamp_cell(v) ==
            IF v.k \in {"null", "int"} THEN v
            ELSE IF v.k \in {"float", "time"} THEN as_millis(v) ELSE Failed
        cell(v) ==
            CASE type = "Boolean" -> IF v.k = "bool" THEN v ELSE Null
              [] type \in DOMAIN IntRange -> checked_int_cell(type, v)
              [] type = "Int64" -> IF v.k = "int" THEN v ELSE Null
              [] type \in {"Float32", "Float64"} ->
                    IF v.k \in {"int", "float"} THEN as_float(type, v) ELSE Null
              [] type = "Timestamp_ms_UTC" -> checked_timestamp_cell(v)
              [] OTHER -> IF v.k = "null" THEN Null ELSE Text(v)
    IN  [type |-> type, cells |-> [i \in DOMAIN values |-> cell(values[i])]]

(***************************************************************************)
(* Elasticsearch.  The mapping lists the fields of every index behind the  *)
(* name that was queried.  A field that several indices define with        *)
(* different types is read as text.                                        *)
(***************************************************************************)
EsSchemaOf(cols) ==
    LET arrow == [boolean |-> "Boolean", byte |-> "Int8", short |-> "Int16",
                  integer |-> "Int32", long |-> "Int64", half_float |-> "Float32",
                  float |-> "Float32", double |-> "Float64", scaled_float |-> "Float64",
                  date |-> "Timestamp_ms_UTC", date_nanos |-> "Timestamp_ms_UTC"]
        merged(i) == LET types == {cols[j].type : j \in {j \in DOMAIN cols : cols[j].name = cols[i].name}}
                     IN  IF types = {cols[i].type} /\ cols[i].type \in DOMAIN arrow
                         THEN arrow[cols[i].type] ELSE "Utf8"
        distinct == FirstPlaces([i \in DOMAIN cols |-> cols[i].name])
    IN  [k \in DOMAIN distinct |-> [name |-> cols[distinct[k]].name, type |-> merged(distinct[k])]]

(***************************************************************************)
(* Milvus.  The fields that the request lists, "*" standing for all of     *)
(* them; by default all but the vectors.  A search also has the distance.  *)
(* What a request may leave out is a set of at most one element.           *)
(***************************************************************************)
MilvusSchemaOf(cols, fields, operation) ==
    LET arrow == [Bool |-> "Boolean", Int8 |-> "Int8", Int16 |-> "Int16", Int32 |-> "Int32",
                  Int64 |-> "Int64", Float |-> "Float32", Double |-> "Float64"]
        vectors == {"FloatVector", "Float16Vector", "BFloat16Vector", "BinaryVector",
                    "SparseFloatVector"}
        names == [i \in DOMAIN cols |-> cols[i].name]
        plain == Only(cols, {c \in Range(cols) : c.type \notin vectors})
        expand(list) == FlattenSeq([i \in DOMAIN list |->
                                      IF list[i] = "*" THEN names ELSE <<list[i]>>])
        wanted == IF fields = {} THEN [i \in DOMAIN plain |-> plain[i].name]
                  ELSE expand(CHOOSE list \in fields : TRUE)
        field(name) ==
            LET types == {cols[i].type : i \in {i \in DOMAIN cols : cols[i].name = name}} \cap DOMAIN arrow
            IN  [name |-> name, type |-> IF types = {} THEN "Utf8" ELSE arrow[CHOOSE t \in types : TRUE]]
        described == [i \in DOMAIN wanted |-> field(wanted[i])]
    IN  IF operation = "search" /\ \A i \in DOMAIN wanted : wanted[i] # "distance"
        THEN Append(described, [name |-> "distance", type |-> "Float64"])
        ELSE described

(***************************************************************************)
(* Neo4j.  There is no declared type: the kind of the first row's value    *)
(* decides.  A later value of another kind becomes Null, or text in a text *)
(* column; a date that chrono cannot hold (Far) is then 1970-01-01.        *)
(***************************************************************************)
Far == 99

bolt_type_to_arrow(kind) ==
    LET arrow == [bool |-> "Boolean", int |-> "Int64", float |-> "Float64", bytes |-> "Binary",
                  date |-> "Date32", datetime |-> "Timestamp_ms_UTC",
                  zoned |-> "Timestamp_ms_UTC", local |-> "Timestamp_ms"]
    IN  IF kind \in DOMAIN arrow THEN arrow[kind] ELSE "Utf8"

bolt_value_to_json(v) ==
    IF v.k \in {"date", "datetime", "local"} /\ v.n = Far THEN [k |-> "str", n |-> 0] ELSE Text(v)

BoltArrayOf(type, values) ==
    LET kinds == [Boolean |-> {"bool"}, Int64 |-> {"int"}, Binary |-> {"bytes"}, Date32 |-> {"date"}]
        instant == {"datetime", "zoned", "local"}
        cell(v) ==
            CASE type \in DOMAIN kinds ->
                    IF v.k \in kinds[type] /\ v.n # Far THEN v ELSE Null
              [] type = "Float64" -> IF v.k \in {"int", "float"} THEN as_float(type, v) ELSE Null
              [] type \in {"Timestamp_ms", "Timestamp_ms_UTC"} ->
                    IF v.k \in instant /\ v.n # Far THEN as_millis(v) ELSE Null
              [] OTHER -> IF v.k \in {"null", "str"} THEN v ELSE bolt_value_to_json(v)
    IN  [type |-> type, cells |-> [i \in DOMAIN values |-> cell(values[i])]]
=============================================================================
