------------------------- MODULE ReaderErrorsProofs -------------------------
(***************************************************************************)
(* A reader ends with an error only when something failed, changed or is   *)
(* not what the source can give, for any tables, requests and failures.    *)
(***************************************************************************)
EXTENDS ConnectorProofs

(***************************************************************************)
(* Errors have a reason.  While nothing failed and nothing changed, and    *)
(* the request and the source are in order, no reader comes to an error:   *)
(* the schema that was announced takes every value of the source.          *)
(***************************************************************************)
Blameless == changes = 0 /\ faults = 0 /\ RequestFits /\ SourceFits

JsonTakes(type, v) == json_values_to_array(type, <<v>>).cells[1] # Failed
FileTakes(format, type, v) == FileArrayOf(format, type, <<v>>).cells[1] # Failed

SourceFormat ==
    CHOOSE f \in IF provider = "s3" THEN FormatOf(request.extension, request.hint) ELSE UriFormat(source) : TRUE

\* Where rows are built by position, a schema of the columns of the source;
\* else one whose columns take what the rows hold under their names.
Announces == IsSeq(schema) /\ schema # <<>>
ByPosition == Announces /\ Len(schema) = Len(source.cols) /\ DOMAIN schema = DOMAIN source.cols

FileSchemaRight(format) ==
    CASE format = "parquet" -> ByPosition /\ \A i \in DOMAIN schema : schema[i].type = source.cols[i].type
      [] format = "csv" ->
            ByPosition /\ \A i \in DOMAIN schema, r \in DOMAIN source.rows :
                            FileTakes("csv", schema[i].type, source.rows[r].fields[i][2])
      [] OTHER ->
            Announces /\ \A i \in DOMAIN schema, r \in DOMAIN source.rows :
                           FileTakes(format, schema[i].type, Field(source.rows[r], schema[i].name))

SchemaRight ==
    CASE provider = "postgres" ->
            ByPosition /\ \A i \in DOMAIN schema : schema[i].type = pg_type_to_arrow(source.cols[i].type)
      [] provider = "sqlite" ->
            ByPosition /\ \A i \in DOMAIN schema : schema[i].type = sqlite_type_to_arrow(source.cols[i].type)
      [] provider = "neo4j" -> source.rows # <<>> => Announces
      [] provider \in {"elasticsearch", "milvus"} ->
            Announces /\ \A i \in DOMAIN schema, r \in DOMAIN source.rows :
                           JsonTakes(schema[i].type, Field(source.rows[r], schema[i].name))
      [] OTHER -> ~ request.binary => FileSchemaRight(SourceFormat)

Sound ==
    /\ outcome # "error" /\ pc # "close_error" /\ ~ torn
    /\ view \in {NoTable, source}
    /\ pc \in {"open", "read"} => SchemaRight
    /\ provider = "elasticsearch" /\ pc = "read" => "pit" \in held

SoundInv == Blameless => Sound

\* Rows of a table, in any order.
Within(rows, t) == \A r \in DOMAIN rows : \E q \in DOMAIN t.rows : rows[r] = t.rows[q]

LEMMA WholeWithin == ASSUME NEW t PROVE Within(t.rows, t)
<1> QED
    BY DEF Within

LEMMA ContinuesWithin ==
    ASSUME NEW got, NEW more, NEW t, Continues(got, more, t.rows) PROVE Within(more, t)
<1>1. /\ DOMAIN more = 1 .. Len(more) /\ DOMAIN t.rows = 1 .. Len(t.rows)
      /\ Len(got) \in Nat /\ Len(more) \in Nat /\ Len(t.rows) \in Nat
    BY SeqLen DEF Continues
<1>2. ASSUME NEW r \in DOMAIN more PROVE \E q \in DOMAIN t.rows : more[r] = t.rows[q]
    <2>1. Len(got) + r \in DOMAIN t.rows /\ more[r] = t.rows[Len(got) + r]
        BY <1>1 DEF Continues
    <2> QED
        BY <2>1
<1> QED
    BY <1>2 DEF Within

\* The rows of a page are rows of what it is a page of.
LEMMA PageRows ==
    ASSUME NEW page, NEW rows, IsSeq(rows), NEW from \in Nat, NEW size, IsPage(page, rows, from, size)
    PROVE  \A r \in DOMAIN page : \E q \in DOMAIN rows : page[r] = rows[q]
<1>1. IsSeq(page) /\ (from + Len(page) <= Len(rows) \/ page = <<>>)
    BY DEF IsPage
<1>2. /\ DOMAIN page = 1 .. Len(page) /\ DOMAIN rows = 1 .. Len(rows)
      /\ Len(page) \in Nat /\ Len(rows) \in Nat /\ (page = <<>> => Len(page) = 0)
    BY <1>1, SeqLen, EmptyWhenLen
<1> SUFFICES ASSUME NEW r \in DOMAIN page PROVE \E q \in DOMAIN rows : page[r] = rows[q]
    OBVIOUS
<1>3. from + r \in DOMAIN rows
    BY <1>1, <1>2
<1>4. page[r] = rows[from + r]
    BY <1>2 DEF IsPage
<1> QED
    BY <1>3, <1>4

LEMMA SliceWithin ==
    ASSUME NEW t, IsSeq(t.rows), pos \in Nat PROVE Within(NextSlice(t.rows), t)
<1>1. IsPage(NextSlice(t.rows), t.rows, pos, BatchSize)
    BY SliceIs
<1> QED
    BY <1>1, PageRows DEF Within

\* A value of a row, or nothing, is never the mark of a failure.
Sane(t) == \A r \in DOMAIN t.rows : \A i \in DOMAIN t.rows[r].fields : t.rows[r].fields[i][2] # Failed

LEMMA NullIsNot == Null # Failed
<1>1. Null.k = "null" /\ Failed.k = "failed"
    BY DEF Null, Failed
<1> QED
    BY <1>1

LEMMA TextIsNot == ASSUME NEW v PROVE Text(v) # Failed
<1>1. Text(v).k = "str" /\ Failed.k = "failed"
    BY DEF Text, Failed
<1> QED
    BY <1>1

\* A number that loses something stays a number.
LEMMA NumberIsNot ==
    ASSUME NEW v, v.k # "failed"
    PROVE  as_millis(v) # Failed /\ \A type : as_float(type, v) # Failed
<1>1. Failed.k = "failed"
    BY DEF Failed
<1>2. as_millis(v).k = v.k
    BY DEF as_millis
<1>3. ASSUME NEW type PROVE as_float(type, v).k = v.k
    BY DEF as_float
<1> QED
    BY <1>1, <1>2, <1>3

LEMMA FieldIsNot ==
    ASSUME NEW row, \A i \in DOMAIN row.fields : row.fields[i][2] # Failed, NEW name
    PROVE  Field(row, name) # Failed
<1> DEFINE at == {i \in DOMAIN row.fields : row.fields[i][1] = name}
<1>1. CASE at = {}
    BY <1>1, NullIsNot DEF Field
<1>2. CASE at # {}
    <2>1. (CHOOSE i \in at : TRUE) \in DOMAIN row.fields
        BY <1>2
    <2> QED
        BY <1>2, <2>1 DEF Field
<1> QED
    BY <1>1, <1>2

LEMMA SourceSane == ASSUME SessionOK PROVE Sane(source)
<1> QED
    BY RowAssumption, ReaderAssumption DEF SessionOK, Sane

\* What one value may become is what it becomes among others.
LEMMA JsonCell ==
    ASSUME NEW type, NEW values, NEW j \in DOMAIN values, JsonTakes(type, values[j])
    PROVE  json_values_to_array(type, values).cells[j] # Failed
<1> DEFINE v == values[j]
<1>1. json_values_to_array(type, values).cells[j] = json_values_to_array(type, <<v>>).cells[1]
    BY DEF json_values_to_array
<1> QED
    BY <1>1 DEF JsonTakes

LEMMA FileCell ==
    ASSUME NEW format, NEW type, NEW values, NEW j \in DOMAIN values, FileTakes(format, type, values[j])
    PROVE  FileArrayOf(format, type, values).cells[j] # Failed
<1> DEFINE v == values[j]
<1>1. FileArrayOf(format, type, values).cells[j] = FileArrayOf(format, type, <<v>>).cells[1]
    BY DEF FileArrayOf
<1> QED
    BY <1>1 DEF FileTakes

LEMMA BoltCell ==
    ASSUME NEW type, NEW values, NEW j \in DOMAIN values, values[j] # Failed
    PROVE  BoltArrayOf(type, values).cells[j] # Failed
<1>1. [k |-> "str", n |-> 0] # Failed
    <2>1. [k |-> "str", n |-> 0].k = "str" /\ Failed.k = "failed"
        BY DEF Failed
    <2> QED
        BY <2>1
<1>2. bolt_value_to_json(values[j]) # Failed
    BY <1>1, TextIsNot DEF bolt_value_to_json
<1>3. values[j].k \in {"int", "float", "datetime", "zoned", "local"} =>
        as_millis(values[j]) # Failed /\ as_float("Float64", values[j]) # Failed
    BY NumberIsNot
<1> QED
    BY <1>2, <1>3, NullIsNot DEF BoltArrayOf

\* The two tables of each connector agree, and what fits is built.
LEMMA PgCell ==
    ASSUME NEW type, NEW values
    PROVE  /\ PgArrayOf(type, values).type = pg_type_to_arrow(type)
           /\ DOMAIN PgArrayOf(type, values).cells = DOMAIN values
           /\ \A j \in DOMAIN values : PgFits(type, values[j]) /\ values[j] # Failed =>
                                         PgArrayOf(type, values).cells[j] # Failed
<1> DEFINE name == type[Len(type)]
<1>1. PgArrayOf(type, values).type = pg_type_to_arrow(type)
    BY DEF PgArrayOf, pg_type_to_arrow
<1>2. DOMAIN PgArrayOf(type, values).cells = DOMAIN values
    BY DEF PgArrayOf
<1>3. ASSUME NEW j \in DOMAIN values, PgFits(type, values[j]), values[j] # Failed
      PROVE  PgArrayOf(type, values).cells[j] # Failed
    <2> DEFINE v == values[j]
               cell == PgArrayOf(type, values).cells[j]
    <2>1. CASE v = Null
        <3>1. cell = Null
            BY <2>1 DEF PgArrayOf
        <3> QED
            BY <3>1, NullIsNot
    <2>0. v = Null \/ ~ (v.k = "special" /\ name \in PgPartial)
        BY <1>3 DEF PgFits, PgPartial
    <2>2. CASE v # Null /\ name \in {"BOOL", "INT2", "INT4", "INT8", "FLOAT4", "FLOAT8", "BYTEA", "TIMESTAMP",
                                     "TIMESTAMPTZ", "DATE", "TIME", "TEXT", "VARCHAR"}
        <3>1. cell = v
            BY <2>0, <2>2 DEF PgArrayOf
        <3> QED
            BY <1>3, <3>1
    <2>3. CASE v # Null /\ name \in {"UUID", "JSON", "JSONB", "NUMERIC"}
        <3>1. cell = Text(v)
            BY <2>0, <2>3 DEF PgArrayOf
        <3> QED
            BY <3>1, TextIsNot
    <2>4. CASE v # Null /\ name \in {"vector", "halfvec", "sparsevec"}
        <3>1. cell = PgVectorCell(name, v)
            BY <2>0, <2>4 DEF PgArrayOf
        <3>2. CASE name = "vector"
            <4>1. v.len = 4 + v.dim * 4
                BY <1>3, <2>4, <3>2 DEF PgFits
            <4>2. PgVectorCell("vector", v) = v
                BY <4>1 DEF PgVectorCell
            <4> QED
                BY <1>3, <3>1, <3>2, <4>2
        <3>3. CASE name = "halfvec"
            <4>1. v.len = 4 + v.dim * 2
                BY <1>3, <2>4, <3>3 DEF PgFits
            <4>2. PgVectorCell("halfvec", v) = v
                BY <4>1 DEF PgVectorCell
            <4> QED
                BY <1>3, <3>1, <3>3, <4>2
        <3>4. CASE name = "sparsevec"
            <4>1. v.len = 12 + v.dim * 8
                BY <1>3, <2>4, <3>4 DEF PgFits
            <4>2. PgVectorCell("sparsevec", v) = Text(v)
                BY <4>1 DEF PgVectorCell
            <4> QED
                BY <3>1, <3>4, <4>2, TextIsNot
        <3> QED
            BY <2>4, <3>2, <3>3, <3>4
    <2>5. \/ v = Null
          \/ name \in {"BOOL", "INT2", "INT4", "INT8", "FLOAT4", "FLOAT8", "BYTEA", "TIMESTAMP",
                       "TIMESTAMPTZ", "DATE", "TIME", "TEXT", "VARCHAR"}
          \/ name \in {"UUID", "JSON", "JSONB", "NUMERIC"}
          \/ name \in {"vector", "halfvec", "sparsevec"}
        BY <1>3 DEF PgFits
    <2> QED
        BY <2>1, <2>2, <2>3, <2>4, <2>5
<1> QED
    BY <1>1, <1>2, <1>3

LEMMA SqliteCell ==
    ASSUME NEW type, NEW values
    PROVE  /\ SqliteArrayOf(type, values).type = sqlite_type_to_arrow(type)
           /\ DOMAIN SqliteArrayOf(type, values).cells = DOMAIN values
           /\ \A j \in DOMAIN values : SqliteFits(type, values[j]) /\ values[j] # Failed =>
                                         SqliteArrayOf(type, values).cells[j] # Failed
<1>1. SqliteArrayOf(type, values).type = sqlite_type_to_arrow(type)
    BY DEF SqliteArrayOf, sqlite_type_to_arrow
<1>2. DOMAIN SqliteArrayOf(type, values).cells = DOMAIN values
    BY DEF SqliteArrayOf
<1>3. ASSUME NEW j \in DOMAIN values, SqliteFits(type, values[j]), values[j] # Failed
      PROVE  SqliteArrayOf(type, values).cells[j] # Failed
    <2>1. CASE values[j] = Null
        BY <2>1, NullIsNot DEF SqliteArrayOf
    <2>2. CASE values[j] # Null
        <3>1. SqliteArrayOf(type, values).cells[j] \in {values[j], Truth(values[j])}
            BY <1>3, <2>2 DEF SqliteArrayOf, SqliteFits
        <3>2. Truth(values[j]) # Failed
            <4>1. Truth(values[j]).k = "bool" /\ Failed.k = "failed"
                BY DEF Truth, Failed
            <4> QED
                BY <4>1
        <3> QED
            BY <1>3, <3>1, <3>2
    <2> QED
        BY <2>1, <2>2
<1> QED
    BY <1>1, <1>2, <1>3

LEMMA ArraysLen ==
    ASSUME NEW s, IsSeq(s), NEW arrays, DOMAIN arrays = DOMAIN s, arrays = [i \in DOMAIN s |-> arrays[i]]
    PROVE  Len(arrays) = Len(s)
<1>1. Len(s) \in Nat /\ DOMAIN s = 1 .. Len(s)
    BY SeqLen
<1> DEFINE n == Len(s)
<1>2. n \in Nat /\ arrays = [i \in 1 .. n |-> arrays[i]]
    BY <1>1
<1> HIDE DEF n
<1>3. Len(arrays) = n
    BY <1>2, AsSeq
<1> QED
    BY <1>3 DEF n

\* Rectangular tables have a value in every place.
LEMMA SourceRectangular ==
    ASSUME SessionOK, Positional
    PROVE  /\ Rectangular(source) /\ IsSeq(source.cols) /\ IsSeq(source.rows)
           /\ \A r \in DOMAIN source.rows : DOMAIN source.rows[r].fields = DOMAIN source.cols
<1>1. Rectangular(source)
    BY ReaderAssumption DEF SessionOK, Positional
<1>2. IsSeq(source.cols) /\ IsSeq(source.rows)
    BY TablesOK DEF IsSeq
<1> QED
    BY <1>1, <1>2 DEF Rectangular

LEMMA PgValid ==
    ASSUME SessionOK, provider = "postgres", SchemaRight, SourceFits, Reading = source,
           NEW rows, Within(rows, source)
    PROVE  Valid(PositionalBatch(PgArrayOf, rows))
<1> DEFINE values(i) == [r \in DOMAIN rows |-> rows[r].fields[i][2]]
           arrays == PositionalBatch(PgArrayOf, rows)
<1>1. ByPosition /\ \A i \in DOMAIN schema : schema[i].type = pg_type_to_arrow(source.cols[i].type)
    BY DEF SchemaRight
<1>2. arrays = [i \in DOMAIN schema |-> PgArrayOf(source.cols[i].type, values(i))]
    BY <1>1 DEF PositionalBatch, ByPosition
<1>3. \A i \in DOMAIN source.cols, r \in DOMAIN source.rows :
        /\ PgFits(source.cols[i].type, source.rows[r].fields[i][2])
        /\ source.rows[r].fields[i][2] # Failed
    <2>1. Positional
        BY DEF Positional
    <2>2. \A i \in DOMAIN source.cols, r \in DOMAIN source.rows : source.rows[r].fields[i][2] # Failed
        BY <2>1, SourceRectangular, SourceSane DEF Sane
    <2>3. \A c \in (DOMAIN source.cols) \X (DOMAIN source.rows) :
            PgFits(source.cols[c[1]].type, source.rows[c[2]].fields[c[1]][2])
        BY DEF SourceFits
    <2>4. ASSUME NEW i \in DOMAIN source.cols, NEW r \in DOMAIN source.rows
          PROVE  PgFits(source.cols[i].type, source.rows[r].fields[i][2])
        <3>1. <<i, r>> \in (DOMAIN source.cols) \X (DOMAIN source.rows) /\ <<i, r>>[1] = i /\ <<i, r>>[2] = r
            OBVIOUS
        <3> QED
            BY <2>3, <3>1
    <2> QED
        BY <2>2, <2>4
<1>4. ASSUME NEW i \in DOMAIN schema
      PROVE  /\ PgArrayOf(source.cols[i].type, values(i)).type = schema[i].type
             /\ \A j \in DOMAIN PgArrayOf(source.cols[i].type, values(i)).cells :
                   PgArrayOf(source.cols[i].type, values(i)).cells[j] # Failed
    <2> DEFINE type == source.cols[i].type
               vs == values(i)
    <2>1. type = source.cols[i].type /\ i \in DOMAIN source.cols /\ schema[i].type = pg_type_to_arrow(type)
        BY <1>1 DEF ByPosition
    <2>2. ASSUME NEW j \in DOMAIN vs PROVE PgFits(type, vs[j]) /\ vs[j] # Failed
        <3>1. PICK q \in DOMAIN source.rows : rows[j] = source.rows[q]
            BY DEF Within
        <3>2. vs[j] = source.rows[q].fields[i][2]
            BY <3>1
        <3> QED
            BY <1>3, <2>1, <3>2
    <2> HIDE DEF vs, type
    <2>3. /\ PgArrayOf(type, vs).type = schema[i].type
          /\ \A j \in DOMAIN PgArrayOf(type, vs).cells : PgArrayOf(type, vs).cells[j] # Failed
        BY <2>1, <2>2, PgCell
    <2> QED
        BY <2>3 DEF vs, type
<1>5. Len(arrays) = Len(schema)
    <2>1. IsSeq(schema)
        BY <1>1 DEF ByPosition, Announces
    <2>2. DOMAIN arrays = DOMAIN schema /\ arrays = [i \in DOMAIN schema |-> arrays[i]]
        BY <1>2
    <2> HIDE DEF arrays
    <2> QED
        BY <2>1, <2>2, ArraysLen
<1>6. Valid(arrays)
    <2>1. schema # <<>>
        BY <1>1 DEF ByPosition, Announces
    <2>2. \A i \in DOMAIN schema : arrays[i] = PgArrayOf(source.cols[i].type, values(i))
        BY <1>2
    <2> HIDE DEF arrays
    <2> QED
        BY <1>4, <1>5, <2>1, <2>2 DEF Valid
<1> QED
    BY <1>6

LEMMA SqliteValid ==
    ASSUME SessionOK, provider = "sqlite", SchemaRight, SourceFits, Reading = source,
           NEW rows, Within(rows, source)
    PROVE  Valid(PositionalBatch(SqliteArrayOf, rows))
<1> DEFINE values(i) == [r \in DOMAIN rows |-> rows[r].fields[i][2]]
           arrays == PositionalBatch(SqliteArrayOf, rows)
<1>1. ByPosition /\ \A i \in DOMAIN schema : schema[i].type = sqlite_type_to_arrow(source.cols[i].type)
    BY DEF SchemaRight
<1>2. arrays = [i \in DOMAIN schema |-> SqliteArrayOf(source.cols[i].type, values(i))]
    BY <1>1 DEF PositionalBatch, ByPosition
<1>3. \A i \in DOMAIN source.cols, r \in DOMAIN source.rows :
        /\ SqliteFits(source.cols[i].type, source.rows[r].fields[i][2])
        /\ source.rows[r].fields[i][2] # Failed
    <2>1. Positional
        BY DEF Positional
    <2>2. \A i \in DOMAIN source.cols, r \in DOMAIN source.rows : source.rows[r].fields[i][2] # Failed
        BY <2>1, SourceRectangular, SourceSane DEF Sane
    <2>3. \A c \in (DOMAIN source.cols) \X (DOMAIN source.rows) :
            SqliteFits(source.cols[c[1]].type, source.rows[c[2]].fields[c[1]][2])
        BY DEF SourceFits
    <2>4. ASSUME NEW i \in DOMAIN source.cols, NEW r \in DOMAIN source.rows
          PROVE  SqliteFits(source.cols[i].type, source.rows[r].fields[i][2])
        <3>1. <<i, r>> \in (DOMAIN source.cols) \X (DOMAIN source.rows) /\ <<i, r>>[1] = i /\ <<i, r>>[2] = r
            OBVIOUS
        <3> QED
            BY <2>3, <3>1
    <2> QED
        BY <2>2, <2>4
<1>4. ASSUME NEW i \in DOMAIN schema
      PROVE  /\ SqliteArrayOf(source.cols[i].type, values(i)).type = schema[i].type
             /\ \A j \in DOMAIN SqliteArrayOf(source.cols[i].type, values(i)).cells :
                   SqliteArrayOf(source.cols[i].type, values(i)).cells[j] # Failed
    <2> DEFINE type == source.cols[i].type
               vs == values(i)
    <2>1. type = source.cols[i].type /\ i \in DOMAIN source.cols /\ schema[i].type = sqlite_type_to_arrow(type)
        BY <1>1 DEF ByPosition
    <2>2. ASSUME NEW j \in DOMAIN vs PROVE SqliteFits(type, vs[j]) /\ vs[j] # Failed
        <3>1. PICK q \in DOMAIN source.rows : rows[j] = source.rows[q]
            BY DEF Within
        <3>2. vs[j] = source.rows[q].fields[i][2]
            BY <3>1
        <3> QED
            BY <1>3, <2>1, <3>2
    <2> HIDE DEF vs, type
    <2>3. /\ SqliteArrayOf(type, vs).type = schema[i].type
          /\ \A j \in DOMAIN SqliteArrayOf(type, vs).cells : SqliteArrayOf(type, vs).cells[j] # Failed
        BY <2>1, <2>2, SqliteCell
    <2> QED
        BY <2>3 DEF vs, type
<1>5. Len(arrays) = Len(schema)
    <2>1. IsSeq(schema)
        BY <1>1 DEF ByPosition, Announces
    <2>2. DOMAIN arrays = DOMAIN schema /\ arrays = [i \in DOMAIN schema |-> arrays[i]]
        BY <1>2
    <2> HIDE DEF arrays
    <2> QED
        BY <2>1, <2>2, ArraysLen
<1>6. Valid(arrays)
    <2>1. schema # <<>>
        BY <1>1 DEF ByPosition, Announces
    <2>2. \A i \in DOMAIN schema : arrays[i] = SqliteArrayOf(source.cols[i].type, values(i))
        BY <1>2
    <2> HIDE DEF arrays
    <2> QED
        BY <1>4, <1>5, <2>1, <2>2 DEF Valid
<1> QED
    BY <1>6

\* Arrays that are one for each announced column, of its type, whole.
LEMMA ColumnsValid ==
    ASSUME Announces, NEW arrays, DOMAIN arrays = DOMAIN schema, arrays = [i \in DOMAIN schema |-> arrays[i]],
           \A i \in DOMAIN schema :
             /\ arrays[i].type = schema[i].type
             /\ \A j \in DOMAIN arrays[i].cells : arrays[i].cells[j] # Failed
    PROVE  Valid(arrays)
<1>1. Len(arrays) = Len(schema)
    BY ArraysLen DEF Announces
<1> QED
    BY <1>1 DEF Valid, Announces

LEMMA JsonValid ==
    ASSUME Announces, NEW rows, Within(rows, source),
           \A i \in DOMAIN schema, r \in DOMAIN source.rows :
             JsonTakes(schema[i].type, Field(source.rows[r], schema[i].name))
    PROVE  Valid(NamedBatch(json_values_to_array, rows))
<1> DEFINE values(i) == [r \in DOMAIN rows |-> Field(rows[r], schema[i].name)]
           arrays == NamedBatch(json_values_to_array, rows)
<1>1. arrays = [i \in DOMAIN schema |-> json_values_to_array(schema[i].type, values(i))]
    BY DEF NamedBatch
<1>2. ASSUME NEW i \in DOMAIN schema
      PROVE  /\ json_values_to_array(schema[i].type, values(i)).type = schema[i].type
             /\ \A j \in DOMAIN json_values_to_array(schema[i].type, values(i)).cells :
                   json_values_to_array(schema[i].type, values(i)).cells[j] # Failed
    <2> DEFINE type == schema[i].type
               vs == values(i)
    <2>1. json_values_to_array(type, vs).type = type /\ DOMAIN json_values_to_array(type, vs).cells = DOMAIN vs
        BY DEF json_values_to_array
    <2>2. ASSUME NEW j \in DOMAIN vs PROVE JsonTakes(type, vs[j])
        <3>1. PICK q \in DOMAIN source.rows : rows[j] = source.rows[q]
            BY DEF Within
        <3>2. vs[j] = Field(source.rows[q], schema[i].name)
            BY <3>1
        <3> QED
            BY <3>2
    <2> HIDE DEF vs, type
    <2>3. \A j \in DOMAIN json_values_to_array(type, vs).cells : json_values_to_array(type, vs).cells[j] # Failed
        BY <2>1, <2>2, JsonCell
    <2> QED
        BY <2>1, <2>3 DEF vs, type
<1>3. /\ DOMAIN arrays = DOMAIN schema /\ arrays = [i \in DOMAIN schema |-> arrays[i]]
      /\ \A i \in DOMAIN schema : arrays[i] = json_values_to_array(schema[i].type, values(i))
    BY <1>1
<1> HIDE DEF arrays
<1>4. Valid(arrays)
    <2> HIDE DEF values
    <2> QED
        BY <1>2, <1>3, ColumnsValid
<1> QED
    BY <1>4 DEF arrays

LEMMA BoltValid ==
    ASSUME Announces, NEW rows, Within(rows, source), Sane(source)
    PROVE  Valid(NamedBatch(BoltArrayOf, rows))
<1> DEFINE values(i) == [r \in DOMAIN rows |-> Field(rows[r], schema[i].name)]
           arrays == NamedBatch(BoltArrayOf, rows)
<1>1. arrays = [i \in DOMAIN schema |-> BoltArrayOf(schema[i].type, values(i))]
    BY DEF NamedBatch
<1>2. ASSUME NEW i \in DOMAIN schema
      PROVE  /\ BoltArrayOf(schema[i].type, values(i)).type = schema[i].type
             /\ \A j \in DOMAIN BoltArrayOf(schema[i].type, values(i)).cells :
                   BoltArrayOf(schema[i].type, values(i)).cells[j] # Failed
    <2> DEFINE type == schema[i].type
               vs == values(i)
    <2>1. BoltArrayOf(type, vs).type = type /\ DOMAIN BoltArrayOf(type, vs).cells = DOMAIN vs
        BY DEF BoltArrayOf
    <2>2. ASSUME NEW j \in DOMAIN vs PROVE vs[j] # Failed
        <3>1. PICK q \in DOMAIN source.rows : rows[j] = source.rows[q]
            BY DEF Within
        <3>2. vs[j] = Field(source.rows[q], schema[i].name)
            BY <3>1
        <3> QED
            BY <3>2, FieldIsNot DEF Sane
    <2> HIDE DEF vs, type
    <2>3. \A j \in DOMAIN BoltArrayOf(type, vs).cells : BoltArrayOf(type, vs).cells[j] # Failed
        BY <2>1, <2>2, BoltCell
    <2> QED
        BY <2>1, <2>3 DEF vs, type
<1>3. /\ DOMAIN arrays = DOMAIN schema /\ arrays = [i \in DOMAIN schema |-> arrays[i]]
      /\ \A i \in DOMAIN schema : arrays[i] = BoltArrayOf(schema[i].type, values(i))
    BY <1>1
<1> HIDE DEF arrays
<1>4. Valid(arrays)
    <2> HIDE DEF values
    <2> QED
        BY <1>2, <1>3, ColumnsValid
<1> QED
    BY <1>4 DEF arrays

\* A batch of a file whose schema is right can be built.
LEMMA FileColumn ==
    ASSUME NEW format, NEW type, NEW values, \A j \in DOMAIN values : FileTakes(format, type, values[j])
    PROVE  /\ FileArrayOf(format, type, values).type = type
           /\ \A j \in DOMAIN FileArrayOf(format, type, values).cells :
                FileArrayOf(format, type, values).cells[j] # Failed
<1>1. FileArrayOf(format, type, values).type = type /\ DOMAIN FileArrayOf(format, type, values).cells = DOMAIN values
    BY DEF FileArrayOf
<1> QED
    BY <1>1, FileCell

LEMMA FileValid ==
    ASSUME SessionOK, provider \in {"s3", "uri"}, NEW format \in {"csv", "jsonl", "json"},
           FileSchemaRight(format), NEW rows, Within(rows, source)
    PROVE  Valid(FileArrays(format, rows))
<1> DEFINE values(i) == IF format = "csv" THEN [r \in DOMAIN rows |-> rows[r].fields[i][2]]
                        ELSE [r \in DOMAIN rows |-> Field(rows[r], schema[i].name)]
           arrays == FileArrays(format, rows)
<1>1. IsSeq(schema) /\ Announces
    BY DEF FileSchemaRight, ByPosition, Announces
<1>2. arrays = [i \in DOMAIN schema |-> FileArrayOf(format, schema[i].type, values(i))]
    <2>1. CASE format = "csv"
        <3>1. ASSUME NEW r \in DOMAIN rows PROVE Len(rows[r].fields) = Len(schema)
            <4>1. PICK q \in DOMAIN source.rows : rows[r] = source.rows[q]
                BY DEF Within
            <4> DEFINE fields == source.rows[q].fields
            <4>2. IsSeq(fields)
                BY RowAssumption, ReaderAssumption DEF SessionOK, IsSeq
            <4>3. DOMAIN fields = DOMAIN source.cols
                BY SourceRectangular DEF Positional
            <4>4. DOMAIN schema = DOMAIN source.cols
                BY <2>1 DEF FileSchemaRight, ByPosition
            <4>5. /\ DOMAIN fields = 1 .. Len(fields) /\ Len(fields) \in Nat
                  /\ DOMAIN schema = 1 .. Len(schema) /\ Len(schema) \in Nat
                BY <1>1, <4>2, SeqLen
            <4> HIDE DEF fields
            <4>6. Len(fields) = Len(schema)
                <5> DEFINE m == Len(fields)
                           n == Len(schema)
                <5>1. m \in Nat /\ n \in Nat /\ 1 .. m = 1 .. n
                    BY <4>3, <4>4, <4>5
                <5> HIDE DEF m, n
                <5>2. m = n
                    BY <5>1
                <5> QED
                    BY <5>2 DEF m, n
            <4> QED
                BY <4>1, <4>6 DEF fields
        <3> QED
            BY <2>1, <3>1 DEF FileArrays
    <2>2. CASE format # "csv"
        BY <2>2 DEF FileArrays, NamedBatch
    <2> QED
        BY <2>1, <2>2
<1>3. ASSUME NEW i \in DOMAIN schema
      PROVE  /\ FileArrayOf(format, schema[i].type, values(i)).type = schema[i].type
             /\ \A j \in DOMAIN FileArrayOf(format, schema[i].type, values(i)).cells :
                   FileArrayOf(format, schema[i].type, values(i)).cells[j] # Failed
    <2> DEFINE vs == values(i)
    <2>1. ASSUME NEW j \in DOMAIN vs PROVE FileTakes(format, schema[i].type, vs[j])
        <3>0. j \in DOMAIN rows
            BY <2>1
        <3>1. PICK q \in DOMAIN source.rows : rows[j] = source.rows[q]
            BY <3>0 DEF Within
        <3>2. vs[j] = IF format = "csv" THEN source.rows[q].fields[i][2] ELSE Field(source.rows[q], schema[i].name)
            BY <3>0, <3>1
        <3> QED
            BY <3>2 DEF FileSchemaRight
    <2> HIDE DEF vs
    <2>2. /\ FileArrayOf(format, schema[i].type, vs).type = schema[i].type
          /\ \A j \in DOMAIN FileArrayOf(format, schema[i].type, vs).cells :
                   FileArrayOf(format, schema[i].type, vs).cells[j] # Failed
        BY <2>1, FileColumn
    <2> QED
        BY <2>2 DEF vs
<1>4. /\ DOMAIN arrays = DOMAIN schema /\ arrays = [i \in DOMAIN schema |-> arrays[i]]
      /\ \A i \in DOMAIN schema : arrays[i] = FileArrayOf(format, schema[i].type, values(i))
    BY <1>2
<1> HIDE DEF arrays
<1>5. Valid(arrays)
    <2> HIDE DEF values
    <2> QED
        BY <1>1, <1>3, <1>4, ColumnsValid
<1> QED
    BY <1>5 DEF arrays

LEMMA ParquetValid ==
    ASSUME SessionOK, provider \in {"s3", "uri"}, FileSchemaRight("parquet"), NEW rows, Within(rows, source),
           NEW arrays, arrays = [i \in DOMAIN source.cols |->
                                   [type |-> source.cols[i].type,
                                    cells |-> [r \in DOMAIN rows |-> rows[r].fields[i][2]]]]
    PROVE  Valid(arrays)
<1>1. ByPosition /\ Announces /\ \A i \in DOMAIN schema : schema[i].type = source.cols[i].type
    BY DEF FileSchemaRight, ByPosition
<1>2. DOMAIN schema = DOMAIN source.cols
    BY <1>1 DEF ByPosition
<1>3. DOMAIN arrays = DOMAIN schema /\ arrays = [i \in DOMAIN schema |-> arrays[i]]
    BY <1>2
<1>4. ASSUME NEW i \in DOMAIN schema
      PROVE  /\ arrays[i].type = schema[i].type
             /\ \A j \in DOMAIN arrays[i].cells : arrays[i].cells[j] # Failed
    <2>1. arrays[i].type = schema[i].type /\ arrays[i].cells = [r \in DOMAIN rows |-> rows[r].fields[i][2]]
        BY <1>1, <1>2
    <2>2. ASSUME NEW j \in DOMAIN rows PROVE rows[j].fields[i][2] # Failed
        <3>1. PICK q \in DOMAIN source.rows : rows[j] = source.rows[q]
            BY DEF Within
        <3>2. i \in DOMAIN source.rows[q].fields
            BY <1>2, SourceRectangular DEF Positional
        <3> QED
            BY <3>1, <3>2, SourceSane DEF Sane
    <2> QED
        BY <2>1, <2>2
<1> QED
    BY <1>1, <1>3, <1>4, ColumnsValid

(***************************************************************************)
(* The steps of a reader when nothing is wrong.                            *)
(***************************************************************************)
LEMMA SchemaStays ==
    ASSUME UNCHANGED <<provider, request, source, schema>> PROVE SchemaRight' <=> SchemaRight
<1>1. SourceFormat' = SourceFormat
    BY DEF SourceFormat, UriFormat, UriQuery
<1>2. ByPosition' <=> ByPosition
    BY DEF ByPosition, Announces
<1>3. Announces' <=> Announces
    BY DEF Announces
<1>4. FileSchemaRight(SourceFormat)' <=> FileSchemaRight(SourceFormat)
    BY <1>1, <1>2, <1>3 DEF FileSchemaRight
<1> QED
    BY <1>1, <1>2, <1>3, <1>4 DEF SchemaRight

LEMMA StaysSound ==
    ASSUME Calm, Sound, pc' \in {"open", "read"} => SchemaRight, schema' = schema, view' \in {view, source},
           outcome' # "error", pc' # "close_error", provider = "elasticsearch" /\ pc' = "read" => "pit" \in held'
    PROVE  Sound'
<1>1. SchemaRight' <=> SchemaRight
    BY SchemaStays DEF Calm
<1>2. pc' \in {"open", "read"} => SchemaRight'
    BY <1>1
<1> QED
    BY <1>2 DEF Sound, Calm

LEMMA AnnouncedSound ==
    ASSUME StreamInv, Calm, Sound, pc = "schema", pc' = "open", view' \in {view, source}, outcome' = outcome, SchemaRight'
    PROVE  Sound'
<1> QED
    BY DEF Sound, Calm

LEMMA TableByPosition ==
    ASSUME SessionOK, source' = source, source.cols # <<>>, DOMAIN schema' = DOMAIN source.cols,
           schema' = [i \in DOMAIN source.cols |-> schema'[i]]
    PROVE  ByPosition'
<1> DEFINE n == Len(source.cols)
           s == schema'
<1>1. n \in Nat /\ DOMAIN source.cols = 1 .. n /\ n # 0
    BY TablesOK, SeqLen, EmptyWhenLen DEF IsSeq
<1>2. s = [i \in 1 .. n |-> s[i]]
    BY <1>1
<1> HIDE DEF n, s
<1>3. IsSeq(s) /\ Len(s) = n
    BY <1>1, <1>2, AsSeq
<1>4. s # <<>>
    BY <1>1, <1>3, EmptyWhenLen
<1>5. IsSeq(schema') /\ schema' # <<>> /\ Len(schema') = Len(source.cols)
    BY <1>3, <1>4 DEF s, n
<1> QED
    BY <1>5 DEF ByPosition, Announces

\* A cursor gives rows of the source.
LEMMA CursorRows ==
    ASSUME StreamInv, Sound, pc = "read", provider \in {"postgres", "sqlite", "neo4j"}
    PROVE  /\ SessionOK /\ Reading = source /\ Within(chunk, source)
           /\ pos < Len(Reading.rows) => Within(Append(chunk, Reading.rows[pos + 1]), source)
           /\ chunk # <<>> \/ pos < Len(Reading.rows) => source.rows # <<>>
<1>1. SessionOK /\ pos \in Nat /\ ByRow
    BY Alive DEF ByRow
<1>2. Begun /\ IsSeq(chunk) /\ Continues(Flat(sent), chunk, WantedRows(Reading))
    BY <1>1, ByRowIs DEF Sound
<1>3. Reading = source
    BY <1>2 DEF Sound, Begun, Reading
<1>4. WantedRows(Reading) = source.rows
    BY <1>1, <1>3 DEF WantedRows, SessionOK
<1>5. Within(chunk, source)
    BY <1>2, <1>4, ContinuesWithin
<1>6. IsSeq(source.rows) /\ Len(source.rows) \in Nat /\ DOMAIN source.rows = 1 .. Len(source.rows)
    BY <1>1, TablesOK DEF IsSeq
<1>7. ASSUME pos < Len(source.rows) PROVE Within(Append(chunk, source.rows[pos + 1]), source)
    <2> DEFINE row == source.rows[pos + 1]
               rows == Append(chunk, row)
    <2>1. pos + 1 \in DOMAIN source.rows
        BY <1>1, <1>6, <1>7
    <2>2. /\ IsSeq(rows) /\ Len(rows) = Len(chunk) + 1
          /\ \A i \in 1 .. Len(chunk) : rows[i] = chunk[i]
          /\ rows[Len(chunk) + 1] = row
        BY <1>2, AppendIs
    <2>3. Len(chunk) \in Nat /\ DOMAIN chunk = 1 .. Len(chunk) /\ DOMAIN rows = 1 .. Len(rows)
        BY <1>2, <2>2, SeqLen
    <2> HIDE DEF rows
    <2>4. ASSUME NEW r \in DOMAIN rows PROVE \E q \in DOMAIN source.rows : rows[r] = source.rows[q]
        <3>1. CASE r \in 1 .. Len(chunk)
            BY <1>5, <2>2, <2>3, <3>1 DEF Within
        <3>2. CASE r = Len(chunk) + 1
            BY <2>1, <2>2, <3>2
        <3> QED
            BY <2>2, <2>3, <3>1, <3>2
    <2> QED
        BY <2>4 DEF Within, rows
<1>8. chunk # <<>> \/ pos < Len(source.rows) => source.rows # <<>>
    <2>1. source.rows = <<>> => Len(source.rows) = 0
        BY <1>6, EmptyWhenLen
    <2>2. chunk # <<>> => Len(chunk) \in Nat /\ Len(chunk) # 0
        BY <1>2, SeqLen, EmptyWhenLen
    <2>3. Len(Flat(sent)) \in Nat /\ Len(Flat(sent)) + Len(chunk) <= Len(source.rows)
        BY <1>2, <1>4, SeqLen DEF Continues
    <2> QED
        BY <1>1, <2>1, <2>2, <2>3
<1> QED
    BY <1>1, <1>3, <1>5, <1>7, <1>8

LEMMA BeginSound ==
    ASSUME StreamInv, Calm, Sound, pc = "open", NEW holding, Begin(holding), provider # "elasticsearch"
    PROVE  Sound'
<1>1. outcome = "none" /\ SchemaRight
    BY Alive DEF Sound
<1>2. schema' = schema /\ view' = source /\ outcome' = outcome /\ pc' = "read"
    BY DEF Begin
<1> QED
    BY <1>1, <1>2, StaysSound

LEMMA EndSound ==
    ASSUME StreamInv, Calm, Sound, Complete, UNCHANGED <<schema, view>> PROVE Sound'
<1>1. pc' = "done" /\ outcome' = "ok"
    BY DEF Complete, Stop
<1> QED
    BY <1>1, StaysSound

\* The loop over a cursor, if every batch can be built.
CursorGoes ==
    /\ UNCHANGED <<schema, view>>
    /\ \/ UNCHANGED <<pc, outcome>>
       \/ pc' = "commit" /\ outcome' = outcome
       \/ pc' = "done" /\ outcome' = "ok"

LEMMA CursorSound ==
    ASSUME StreamInv, Calm, Sound, pc = "read", provider \in {"postgres", "sqlite", "neo4j"}, CursorGoes
    PROVE  Sound'
<1>1. outcome = "none" /\ SchemaRight
    BY Alive DEF Sound
<1>2. schema' = schema /\ view' = view /\ outcome' # "error" /\ pc' # "close_error"
    BY <1>1 DEF CursorGoes
<1> QED
    BY <1>1, <1>2, StaysSound

LEMMA PgSound ==
    ASSUME StreamInv, Calm, Blameless, Sound, PgReader, provider = "postgres" PROVE Sound'
<1> DEFINE arrays(rows) == PositionalBatch(PgArrayOf, rows)
           finish == pc' = "commit" /\ UNCHANGED <<outcome, held>>
           columns == [i \in DOMAIN source.cols |->
                         [name |-> source.cols[i].name, type |-> pg_type_to_arrow(source.cols[i].type)]]
<1>1. SourceFits /\ source.cols # <<>> /\ request.statement = "read"
    BY DEF Blameless, SourceFits, RequestFits
<1>2. CASE pc = "schema" /\ (IF request.statement = "script" THEN Refuse ELSE Announce(columns))
    <2>1. schema' = columns /\ pc' = "open" /\ UNCHANGED <<view, outcome>>
        BY <1>1, <1>2 DEF Announce
    <2>2. SessionOK
        BY <1>2, Alive
    <2>3. ByPosition'
        BY <1>1, <2>1, <2>2, TableByPosition DEF Calm
    <2>4. \A i \in DOMAIN schema' : schema'[i].type = pg_type_to_arrow(source.cols[i].type)
        BY <2>1
    <2>5. SchemaRight'
        BY <2>3, <2>4 DEF SchemaRight, Calm
    <2> QED
        BY <1>2, <2>1, <2>5, AnnouncedSound
<1>3. ASSUME NEW holding, pc = "open", Execute(holding) PROVE Sound'
    <2>1. Begin(holding)
        BY <1>1, <1>3 DEF Execute
    <2> QED
        BY <1>3, <2>1, BeginSound
<1>4. CASE NextRow(arrays, finish)
    <2>1. pc = "read" /\ SchemaRight
        BY <1>4 DEF NextRow, Sound
    <2>2. /\ SessionOK /\ Reading = source /\ Within(chunk, source)
          /\ pos < Len(Reading.rows) => Within(Append(chunk, Reading.rows[pos + 1]), source)
        BY <2>1, CursorRows
    <2>3. Valid(arrays(chunk)) /\ (pos < Len(Reading.rows) => Valid(arrays(Append(chunk, Reading.rows[pos + 1]))))
        BY <1>1, <2>1, <2>2, PgValid
    <2> HIDE DEF arrays
    <2>4. CursorGoes
        BY <1>4, <2>3 DEF NextRow, PushRow, Yield, GoOn, CursorGoes
    <2> QED
        BY <2>1, <2>4, CursorSound
<1>5. CASE pc = "commit" /\ Complete /\ UNCHANGED <<worldVars, progressVars>>
    BY <1>5, EndSound DEF progressVars
<1> QED
    BY <1>2, <1>3, <1>4, <1>5 DEF PgReader

LEMMA SqliteSound ==
    ASSUME StreamInv, Calm, Blameless, Sound, SqliteReader, provider = "sqlite" PROVE Sound'
<1> DEFINE arrays(rows) == PositionalBatch(SqliteArrayOf, rows)
           columns == [i \in DOMAIN source.cols |->
                         [name |-> source.cols[i].name, type |-> sqlite_type_to_arrow(source.cols[i].type)]]
<1>1. SourceFits /\ source.cols # <<>> /\ request.statement = "read"
    BY DEF Blameless, SourceFits, RequestFits
<1>2. CASE pc = "schema" /\ Announce(columns)
    <2>1. schema' = columns /\ pc' = "open" /\ UNCHANGED <<view, outcome>>
        BY <1>2 DEF Announce
    <2>2. SessionOK
        BY <1>2, Alive
    <2>3. ByPosition'
        BY <1>1, <2>1, <2>2, TableByPosition DEF Calm
    <2>4. \A i \in DOMAIN schema' : schema'[i].type = sqlite_type_to_arrow(source.cols[i].type)
        BY <2>1
    <2>5. SchemaRight'
        BY <2>3, <2>4 DEF SchemaRight, Calm
    <2> QED
        BY <1>2, <2>1, <2>5, AnnouncedSound
<1>3. ASSUME NEW holding, pc = "open", Execute(holding) PROVE Sound'
    <2>1. Begin(holding)
        BY <1>1, <1>3 DEF Execute
    <2> QED
        BY <1>3, <2>1, BeginSound
<1>4. CASE NextRow(arrays, Complete)
    <2>1. pc = "read" /\ SchemaRight
        BY <1>4 DEF NextRow, Sound
    <2>2. /\ SessionOK /\ Reading = source /\ Within(chunk, source)
          /\ pos < Len(Reading.rows) => Within(Append(chunk, Reading.rows[pos + 1]), source)
        BY <2>1, CursorRows
    <2>3. Valid(arrays(chunk)) /\ (pos < Len(Reading.rows) => Valid(arrays(Append(chunk, Reading.rows[pos + 1]))))
        BY <1>1, <2>1, <2>2, SqliteValid
    <2> HIDE DEF arrays
    <2>4. CursorGoes
        BY <1>4, <2>3 DEF NextRow, PushRow, Yield, GoOn, Complete, Stop, CursorGoes
    <2> QED
        BY <2>1, <2>4, CursorSound
<1> QED
    BY <1>2, <1>3, <1>4 DEF SqliteReader

LEMMA Neo4jSound ==
    ASSUME StreamInv, Calm, Blameless, Sound, Neo4jReader, provider = "neo4j" PROVE Sound'
<1> DEFINE arrays(rows) == NamedBatch(BoltArrayOf, rows)
           fields == source.rows[1].fields
           columns == IF source.rows = <<>> THEN <<>>
                      ELSE [i \in DOMAIN fields |-> [name |-> fields[i][1], type |-> bolt_type_to_arrow(fields[i][2].k)]]
<1>1. (\A r \in DOMAIN source.rows : source.rows[r].fields # <<>>) /\ request.statement = "read"
    BY DEF Blameless, SourceFits, RequestFits
<1>2. CASE pc = "schema" /\ Announce(BoltSchemaOf(source.rows))
    <2>1. schema' = columns /\ pc' = "open" /\ UNCHANGED <<view, outcome>>
        BY <1>2 DEF Announce, BoltSchemaOf
    <2>2. SessionOK
        BY <1>2, Alive
    <2>3. ASSUME source.rows # <<>> PROVE Announces'
        <3> DEFINE n == Len(fields)
                   s == schema'
        <3>1. 1 \in DOMAIN source.rows
            <4>1. IsSeq(source.rows) /\ DOMAIN source.rows = 1 .. Len(source.rows) /\ Len(source.rows) \in Nat
                BY <2>2, TablesOK DEF IsSeq
            <4>2. Len(source.rows) # 0
                BY <2>3, <4>1, EmptyWhenLen
            <4> QED
                BY <4>1, <4>2
        <3>2. IsSeq(fields) /\ fields # <<>>
            BY <1>1, <2>2, <3>1, RowAssumption, ReaderAssumption DEF SessionOK, IsSeq
        <3> HIDE DEF fields
        <3>3. n \in Nat /\ DOMAIN fields = 1 .. n /\ n # 0
            BY <3>2, SeqLen, EmptyWhenLen
        <3>4. s = [i \in 1 .. n |-> s[i]]
            BY <2>1, <2>3, <3>3
        <3> HIDE DEF n, s
        <3>5. IsSeq(s) /\ Len(s) = n
            BY <3>3, <3>4, AsSeq
        <3>6. IsSeq(s) /\ s # <<>>
            BY <3>3, <3>5, EmptyWhenLen
        <3> QED
            BY <3>6 DEF s, Announces
    <2>4. SchemaRight'
        BY <2>3 DEF SchemaRight, Calm
    <2> QED
        BY <1>2, <2>1, <2>4, AnnouncedSound
<1>3. ASSUME NEW holding, pc = "open", Execute(holding) PROVE Sound'
    <2>1. Begin(holding)
        BY <1>1, <1>3 DEF Execute
    <2> QED
        BY <1>3, <2>1, BeginSound
<1>4. CASE NextRow(arrays, Complete)
    <2>1. pc = "read" /\ SchemaRight
        BY <1>4 DEF NextRow, Sound
    <2>2. /\ SessionOK /\ Reading = source /\ Within(chunk, source)
          /\ pos < Len(Reading.rows) => Within(Append(chunk, Reading.rows[pos + 1]), source)
          /\ chunk # <<>> \/ pos < Len(Reading.rows) => source.rows # <<>>
        BY <2>1, CursorRows
    <2>3. source.rows # <<>> => Announces
        BY <2>1 DEF SchemaRight
    <2>4. Sane(source)
        BY <2>2, SourceSane
    <2>5. /\ chunk # <<>> => Valid(arrays(chunk))
          /\ pos < Len(Reading.rows) => Valid(arrays(Append(chunk, Reading.rows[pos + 1])))
        BY <2>2, <2>3, <2>4, BoltValid
    <2> HIDE DEF arrays
    <2>6. CursorGoes
        BY <1>4, <2>5 DEF NextRow, PushRow, Yield, GoOn, Complete, Stop, CursorGoes
    <2> QED
        BY <2>1, <2>6, CursorSound
<1> QED
    BY <1>1, <1>2, <1>3, <1>4 DEF Neo4jReader

(***************************************************************************)
(* Elasticsearch and Milvus.                                               *)
(***************************************************************************)
LEMMA FirstPlacesAre ==
    ASSUME NEW s, IsSeq(s)
    PROVE  /\ IsSeq(FirstPlaces(s))
           /\ s # <<>> => FirstPlaces(s) # <<>>
           /\ \A k \in DOMAIN FirstPlaces(s) : FirstPlaces(s)[k] \in DOMAIN s
<1> DEFINE n == Len(s)
           places == [i \in DOMAIN s |-> i]
           first == {i \in DOMAIN s : \A j \in 1 .. i - 1 : s[j] # s[i]}
           only == Only(places, first)
<1>1. n \in Nat /\ DOMAIN s = 1 .. n /\ (s # <<>> => n # 0)
    BY SeqLen, EmptyWhenLen
<1>2. places \in Seq(1 .. n)
    <2>1. places = [i \in 1 .. n |-> i]
        BY <1>1
    <2> HIDE DEF n, places
    <2>2. [i \in 1 .. n |-> i] \in Seq(1 .. n)
        BY <1>1, IsASeq
    <2> QED
        BY <2>1, <2>2
<1>3. FirstPlaces(s) = only
    BY DEF FirstPlaces
<1>4. Range(places) = 1 .. n
    BY <1>1 DEF Range
<1> HIDE DEF places, first, only, n
<1>5. only \in Seq(1 .. n) /\ Range(only) = (1 .. n) \cap first
    BY <1>2, <1>4, OnlyType, OnlyRange DEF only
<1>6. \A k \in DOMAIN only : only[k] \in 1 .. n
    BY <1>5 DEF Range
<1>7. s # <<>> => only # <<>>
    <2>1. n # 0 => 1 \in (1 .. n) \cap first
        BY <1>1 DEF first
    <2>2. Range(<<>>) = {}
        BY DEF Range
    <2> QED
        BY <1>1, <1>5, <2>1, <2>2
<1> QED
    BY <1>1, <1>3, <1>5, <1>6, <1>7, SeqIn

LEMMA JsonTakesWhen ==
    ASSUME NEW type, NEW v, v # Failed, type \in {"Int8", "Int16", "Int32"} => InRange(type, v),
           type = "Timestamp_ms_UTC" => v.k \in {"null", "int", "float", "time"}
    PROVE  JsonTakes(type, v)
<1> DEFINE cell == json_values_to_array(type, <<v>>).cells[1]
<1>1. DOMAIN IntRange = {"Int8", "Int16", "Int32"}
    BY DEF IntRange
<1>2. \/ cell \in {v, Null, Text(v)}
      \/ v.k \in {"int", "float", "time"} /\ cell \in {as_millis(v), as_float(type, v)}
    <2>1. CASE type \in {"Int8", "Int16", "Int32"}
        <3>1. cell = checked_int_cell(type, v)
            BY <1>1, <2>1 DEF json_values_to_array
        <3> QED
            BY <2>1, <3>1 DEF checked_int_cell, InRange
    <2>2. CASE type = "Timestamp_ms_UTC"
        BY <1>1, <2>2 DEF json_values_to_array
    <2>3. CASE type \notin {"Int8", "Int16", "Int32", "Timestamp_ms_UTC"}
        BY <1>1, <2>3 DEF json_values_to_array
    <2> QED
        BY <2>1, <2>2, <2>3
<1>3. v.k \in {"int", "float", "time"} => as_millis(v) # Failed /\ as_float(type, v) # Failed
    BY NumberIsNot
<1> HIDE DEF cell
<1>4. cell # Failed
    BY <1>2, <1>3, NullIsNot, TextIsNot
<1> QED
    BY <1>4 DEF JsonTakes, cell

LEMMA EsSchemaTakes ==
    ASSUME SessionOK, provider = "elasticsearch", SourceFits, NEW columns, columns = EsSchemaOf(source.cols)
    PROVE  /\ IsSeq(columns) /\ columns # <<>>
           /\ \A k \in DOMAIN columns, r \in DOMAIN source.rows :
                JsonTakes(columns[k].type, Field(source.rows[r], columns[k].name))
<1> DEFINE cols == source.cols
           names == [i \in DOMAIN cols |-> cols[i].name]
           distinct == FirstPlaces(names)
           n == Len(cols)
<1>1. n \in Nat /\ DOMAIN cols = 1 .. n /\ n # 0
    <2>1. IsSeq(cols) /\ cols # <<>>
        BY TablesOK DEF IsSeq, SourceFits
    <2> QED
        BY <2>1, SeqLen, EmptyWhenLen
<1>2. IsSeq(names) /\ names # <<>> /\ DOMAIN names = 1 .. n
    <2>1. names = [i \in 1 .. n |-> names[i]] /\ DOMAIN names = 1 .. n
        BY <1>1
    <2> HIDE DEF names, n
    <2>2. IsSeq(names) /\ Len(names) = n
        BY <1>1, <2>1, AsSeq
    <2> QED
        BY <1>1, <2>1, <2>2, EmptyWhenLen
<1>3. IsSeq(distinct) /\ distinct # <<>> /\ \A k \in DOMAIN distinct : distinct[k] \in 1 .. n
    <2> HIDE DEF names, n
    <2> QED
        BY <1>2, FirstPlacesAre
<1>4. DOMAIN columns = DOMAIN distinct /\ columns = [k \in DOMAIN distinct |-> columns[k]]
    BY DEF EsSchemaOf
<1>5. IsSeq(columns) /\ columns # <<>>
    <2> DEFINE m == Len(distinct)
    <2> HIDE DEF names, distinct
    <2>1. m \in Nat /\ m # 0 /\ DOMAIN distinct = 1 .. m
        BY <1>3, SeqLen, EmptyWhenLen
    <2>2. columns = [k \in 1 .. m |-> columns[k]]
        BY <1>4, <2>1
    <2> HIDE DEF m
    <2>3. IsSeq(columns) /\ Len(columns) = m
        BY <2>1, <2>2, AsSeq
    <2> QED
        BY <2>1, <2>3, EmptyWhenLen
<1>6. ASSUME NEW k \in DOMAIN columns, NEW r \in DOMAIN source.rows
      PROVE  JsonTakes(columns[k].type, Field(source.rows[r], columns[k].name))
    <2> DEFINE i == distinct[k]
               type == cols[i].type
               v == Field(source.rows[r], cols[i].name)
               arrow == [boolean |-> "Boolean", byte |-> "Int8", short |-> "Int16",
                  integer |-> "Int32", long |-> "Int64", half_float |-> "Float32",
                  float |-> "Float32", double |-> "Float64", scaled_float |-> "Float64",
                  date |-> "Timestamp_ms_UTC", date_nanos |-> "Timestamp_ms_UTC"]
               types == {cols[j].type : j \in {j \in DOMAIN cols : cols[j].name = cols[i].name}}
    <2>1. i \in 1 .. n
        BY <1>3, <1>4
    <2>2. /\ columns[k].name = cols[i].name
          /\ columns[k].type = IF types = {type} /\ type \in DOMAIN arrow THEN arrow[type] ELSE "Utf8"
        BY <1>4 DEF EsSchemaOf
    <2>3. v # Failed
        BY SourceSane, FieldIsNot DEF Sane
    <2>4. types = {type} => Agreed(source, i)
        BY <1>1, <2>1 DEF Agreed
    <2>5. Agreed(source, i) => EsFits(type, v)
        <3>1. \A c \in (DOMAIN source.cols) \X (DOMAIN source.rows) :
                Agreed(source, c[1]) => EsFits(source.cols[c[1]].type, Field(source.rows[c[2]], source.cols[c[1]].name))
            BY DEF SourceFits
        <3>2. <<i, r>> \in (DOMAIN source.cols) \X (DOMAIN source.rows) /\ <<i, r>>[1] = i /\ <<i, r>>[2] = r
            BY <1>1, <2>1
        <3> HIDE DEF i
        <3> QED
            BY <3>1, <3>2
    <2> HIDE DEF i, v, types, type
    <2>6. JsonTakes(columns[k].type, v)
        <3>1. CASE types = {type} /\ type \in DOMAIN arrow
            <4>1. columns[k].type = arrow[type] /\ EsFits(type, v)
                BY <2>2, <2>4, <2>5, <3>1
            <4>2. /\ arrow[type] = "Int8" => type = "byte"
                  /\ arrow[type] = "Int16" => type = "short"
                  /\ arrow[type] = "Int32" => type = "integer"
                  /\ arrow[type] = "Timestamp_ms_UTC" => type \in {"date", "date_nanos"}
                BY <3>1
            <4>3. columns[k].type \in {"Int8", "Int16", "Int32"} => InRange(columns[k].type, v)
                BY <4>1, <4>2 DEF EsFits
            <4>4. columns[k].type = "Timestamp_ms_UTC" => v.k \in {"null", "int", "float", "time"}
                BY <4>1, <4>2 DEF EsFits
            <4> QED
                BY <2>3, <4>3, <4>4, JsonTakesWhen
        <3>2. CASE ~ (types = {type} /\ type \in DOMAIN arrow)
            <4>1. columns[k].type = "Utf8"
                BY <2>2, <3>2
            <4> QED
                BY <2>3, <4>1, JsonTakesWhen
        <3> QED
            BY <3>1, <3>2
    <2> QED
        BY <2>2, <2>6 DEF v
<1> QED
    BY <1>5, <1>6

\* The hits are rows of the source, in another order.
LEMMA SortedRows ==
    ASSUME NEW rows, Ordered(rows), NEW k \in DOMAIN EsSorted(rows)
    PROVE  \E q \in DOMAIN rows : EsSorted(rows)[k] = rows[q]
<1> DEFINE Rank(i) == Cardinality({j \in DOMAIN rows : SortedBefore(rows[j], rows[i])})
           hit == CHOOSE i \in DOMAIN rows : Rank(i) = k - 1
<1>1. k \in DOMAIN rows /\ EsSorted(rows)[k] = rows[hit]
    BY DEF EsSorted
<1>2. Len(rows) \in Nat /\ DOMAIN rows = 1 .. Len(rows)
    BY SeqLen DEF Ordered
<1>3. \E i \in DOMAIN rows : Rank(i) = k - 1
    <2>1. k - 1 \in 0 .. Len(rows) - 1
        BY <1>1, <1>2
    <2> QED
        BY <2>1, EveryRank DEF Earlier
<1>4. hit \in DOMAIN rows
    BY <1>3
<1> QED
    BY <1>1, <1>4

LEMMA HitsWithin ==
    ASSUME StreamInv, Sound, pc = "read", provider = "elasticsearch"
    PROVE  Within(EsHits, source)
<1>1. /\ pos \in Nat /\ IsSeq(EsSorted(view.rows))
      /\ IsPage(EsHits, EsSorted(view.rows), pos, PageSize(EsQuery.size))
    BY EsPage
<1>2. view = source /\ SessionOK /\ EsRequestInput(request) # {}
    BY Alive DEF StreamInv, BeginsRight, Begun, Sound, CellsInv, TypeInv, Parsed
<1>3. \A r \in DOMAIN EsHits : \E q \in DOMAIN EsSorted(view.rows) : EsHits[r] = EsSorted(view.rows)[q]
    BY <1>1, PageRows
<1>4. Ordered(view.rows)
    BY <1>2, HitsOrdered
<1>5. \A k \in DOMAIN EsSorted(view.rows) : \E q \in DOMAIN view.rows : EsSorted(view.rows)[k] = view.rows[q]
    BY <1>4, SortedRows
<1> QED
    BY <1>2, <1>3, <1>5 DEF Within

LEMMA EsSound ==
    ASSUME StreamInv, Calm, Blameless, Sound, EsReader, provider = "elasticsearch", faults' = 0 PROVE Sound'
<1>1. SourceFits /\ source.cols # <<>> /\ EsRequestInput(request) # {} /\ faults = 0
    <2>1. request.shape = "object" /\ request.source # {FALSE} /\ (request.index # {} \/ request.default_index # {})
        BY DEF Blameless, RequestFits
    <2> QED
        BY <2>1 DEF Blameless, SourceFits, EsRequestInput
<1>2. CASE pc = "schema"
    <2>1. Announce(EsSchemaOf(source.cols))
        BY <1>1, <1>2 DEF EsReader
    <2>2. schema' = EsSchemaOf(source.cols) /\ pc' = "open" /\ UNCHANGED <<view, outcome>>
        BY <2>1 DEF Announce
    <2>3. SessionOK
        BY <1>2, Alive
    <2> DEFINE columns == schema'
    <2>4. /\ IsSeq(columns) /\ columns # <<>>
          /\ \A k \in DOMAIN columns, r \in DOMAIN source.rows :
                JsonTakes(columns[k].type, Field(source.rows[r], columns[k].name))
        BY <1>1, <2>2, <2>3, EsSchemaTakes
    <2>5. SchemaRight'
        BY <2>4 DEF SchemaRight, Announces, Calm, JsonTakes
    <2> QED
        BY <1>2, <2>2, <2>5, AnnouncedSound
<1>3. CASE pc = "open"
    <2>1. Begin({"pit"})
        BY <1>3 DEF EsReader
    <2>2. schema' = schema /\ view' = source /\ outcome' = outcome /\ pc' = "read" /\ held' = {"pit"}
        BY <2>1 DEF Begin
    <2>3. outcome = "none" /\ SchemaRight
        BY <1>3, Alive DEF Sound
    <2> QED
        BY <2>2, <2>3, StaysSound
<1>4. CASE pc = "read"
    <2>1. outcome = "none" /\ SchemaRight /\ "pit" \in held
        BY <1>4, Alive DEF Sound
    <2>2. Valid(NamedBatch(json_values_to_array, EsHits))
        BY <1>4, <2>1, HitsWithin, JsonValid DEF SchemaRight
    <2>3. faults' # faults + 1
        BY <1>1
    <2>4. UNCHANGED <<schema, view, outcome, held>> /\ pc' \in {"read", "close"}
        BY <1>1, <1>4, <2>1, <2>2, <2>3 DEF EsReader, fetch_search_page, EsHits
    <2> QED
        BY <2>1, <2>4, StaysSound
<1>5. CASE pc \in {"close", "close_error"}
    <2>1. UNCHANGED <<schema, view>> /\ pc' = "done" /\ outcome' = "ok"
        BY <1>5 DEF EsReader, Sound, progressVars
    <2> QED
        BY <2>1, StaysSound
<1> QED
    BY <1>2, <1>3, <1>4, <1>5 DEF EsReader

LEMMA MilvusSchemaTakes ==
    ASSUME SessionOK, provider = "milvus", MilvusRequestInput(request) # {}, SourceFits,
           NEW columns, columns = MilvusSchemaOf(source.cols, MilvusQuery.fields, MilvusQuery.operation)
    PROVE  /\ IsSeq(columns) /\ columns # <<>>
           /\ \A k \in DOMAIN columns, r \in DOMAIN source.rows :
                JsonTakes(columns[k].type, Field(source.rows[r], columns[k].name))
<1>1. /\ columns # <<>>
      /\ \A c \in (DOMAIN source.cols) \X (DOMAIN source.rows) :
           source.cols[c[1]].type \in DOMAIN IntRange =>
             InRange(source.cols[c[1]].type, Field(source.rows[c[2]], source.cols[c[1]].name))
    BY DEF SourceFits
<1>2. columns \in Seq(Range(columns)) /\ \A k \in DOMAIN columns : MilvusColumn(columns[k], source.cols)
    <2>1. source.cols \in Seq(Range(source.cols))
        BY TablesOK
    <2>2. \A list \in MilvusQuery.fields : list \in Seq(Range(list))
        BY MilvusQueryOf
    <2> QED
        BY <2>1, <2>2, MilvusColumns
<1>3. ASSUME NEW k \in DOMAIN columns, NEW r \in DOMAIN source.rows
      PROVE  JsonTakes(columns[k].type, Field(source.rows[r], columns[k].name))
    <2> DEFINE type == columns[k].type
               v == Field(source.rows[r], columns[k].name)
    <2>1. v # Failed
        BY SourceSane, FieldIsNot DEF Sane
    <2>2. MilvusColumn(columns[k], source.cols)
        BY <1>2
    <2>3. ASSUME type \in {"Int8", "Int16", "Int32"} PROVE InRange(type, v)
        <3>1. PICK i \in DOMAIN source.cols : source.cols[i].name = columns[k].name /\ source.cols[i].type = type
            BY <2>2, <2>3 DEF MilvusColumn
        <3>2. <<i, r>> \in (DOMAIN source.cols) \X (DOMAIN source.rows) /\ <<i, r>>[1] = i /\ <<i, r>>[2] = r
            OBVIOUS
        <3>3. type \in DOMAIN IntRange
            BY <2>3 DEF IntRange
        <3> QED
            BY <1>1, <3>1, <3>2, <3>3
    <2>4. type # "Timestamp_ms_UTC"
        BY <2>2 DEF MilvusColumn
    <2> HIDE DEF type, v
    <2>5. JsonTakes(type, v)
        BY <2>1, <2>3, <2>4, JsonTakesWhen
    <2> QED
        BY <2>5 DEF type, v
<1> QED
    BY <1>1, <1>2, <1>3 DEF IsSeq

\* The rows that a request asks of Milvus, and a page of them.
LEMMA MilvusRows ==
    ASSUME StreamInv, Sound, pc = "read", provider = "milvus"
    PROVE  /\ Within(FromOffset(source.rows, MilvusQuery.offset + pos, PageSize(MilvusQuery.limit)), source)
           /\ Within(FromOffset(WantedRows(view), pos, BatchSize), source)
<1> DEFINE limit == MilvusQuery.limit
           offset == MilvusQuery.offset
           rest == SubSeq(source.rows, offset + 1, Len(source.rows))
           all == Limited(rest, limit)
<1>1. SessionOK /\ pos \in Nat /\ MilvusRequestInput(request) # {} /\ BatchSize \in Int /\ view = source
    BY Alive, ReaderAssumption DEF StreamInv, CellsInv, TypeInv, Parsed, BeginsRight, Begun, Sound
<1>2. limit \subseteq Int /\ IsOption(limit) /\ offset \in Nat
    BY <1>1, MilvusQueryOf
<1>3. IsSeq(source.rows) /\ Len(source.rows) \in Nat /\ DOMAIN source.rows = 1 .. Len(source.rows)
    BY <1>1, TablesOK DEF IsSeq
<1>4. WantedRows(view) = all
    BY <1>1 DEF WantedRows
<1> HIDE DEF limit, offset
<1>5. /\ IsSeq(rest) /\ Len(rest) = IF offset + 1 <= Len(source.rows) THEN Len(source.rows) - (offset + 1) + 1 ELSE 0
      /\ \A i \in 1 .. Len(rest) : rest[i] = source.rows[(offset + 1) + i - 1]
    <2>1. offset + 1 \in Nat \ {0} /\ Len(source.rows) \in Int /\ Len(source.rows) <= Len(source.rows)
        BY <1>2, <1>3
    <2> QED
        BY <1>3, <2>1, SubSeqIs
<1> HIDE DEF rest
<1>6. IsSeq(all) /\ Len(all) <= Len(rest) /\ \A i \in 1 .. Len(all) : all[i] = rest[i]
    BY <1>2, <1>5, LimitedIs
<1> HIDE DEF all
<1>7. ASSUME NEW q \in DOMAIN all PROVE \E p \in DOMAIN source.rows : all[q] = source.rows[p]
    <2>1. Len(all) \in Nat /\ DOMAIN all = 1 .. Len(all) /\ Len(rest) \in Nat
        BY <1>5, <1>6, SeqLen
    <2>2. (offset + 1) + q - 1 \in DOMAIN source.rows /\ q \in 1 .. Len(rest)
        BY <1>2, <1>3, <1>5, <1>6, <2>1
    <2>3. all[q] = source.rows[(offset + 1) + q - 1]
        BY <1>5, <1>6, <2>1, <2>2
    <2> QED
        BY <2>2, <2>3
<1>8. Within(FromOffset(all, pos, BatchSize), source)
    <2>1. IsPage(FromOffset(all, pos, BatchSize), all, pos, BatchSize)
        BY <1>1, <1>6, PageIs DEF FromOffset
    <2>2. \A r \in DOMAIN FromOffset(all, pos, BatchSize) : \E q \in DOMAIN all : FromOffset(all, pos, BatchSize)[r] = all[q]
        BY <1>1, <1>6, <2>1, PageRows
    <2> QED
        BY <1>7, <2>2 DEF Within
<1>9. Within(FromOffset(source.rows, offset + pos, PageSize(limit)), source)
    <2> DEFINE from == offset + pos
               size == PageSize(limit)
               page == FromOffset(source.rows, from, size)
    <2>0. size \in Int
        BY <1>1, <1>2, PageSizeInt
    <2>1. from \in Nat /\ size \in Int
        <3> HIDE DEF size
        <3> QED
            BY <1>1, <1>2, <2>0
    <2> HIDE DEF from, size
    <2>2. IsPage(page, source.rows, from, size)
        BY <1>3, <2>1, PageIs DEF FromOffset
    <2> HIDE DEF page
    <2>3. Within(page, source)
        BY <1>3, <2>1, <2>2, PageRows DEF Within
    <2> QED
        BY <2>3 DEF page, from, size
<1> QED
    BY <1>4, <1>8, <1>9 DEF limit, offset

LEMMA MilvusSound ==
    ASSUME StreamInv, Calm, Blameless, Sound, MilvusReader, provider = "milvus" PROVE Sound'
<1>1. SourceFits /\ MilvusRequestInput(request) # {}
    BY DEF Blameless, RequestFits, MilvusRequestInput
<1>2. CASE pc = "schema"
    <2> DEFINE columns == MilvusSchemaOf(source.cols, MilvusQuery.fields, MilvusQuery.operation)
    <2>1. Announce(columns)
        BY <1>1, <1>2 DEF MilvusReader
    <2>2. schema' = columns /\ pc' = "open" /\ UNCHANGED <<view, outcome>>
        BY <2>1 DEF Announce
    <2>3. SessionOK
        BY <1>2, Alive
    <2>4. /\ IsSeq(columns) /\ columns # <<>>
          /\ \A k \in DOMAIN columns, r \in DOMAIN source.rows :
                JsonTakes(columns[k].type, Field(source.rows[r], columns[k].name))
        <3> HIDE DEF columns
        <3> QED
            BY <1>1, <2>3, MilvusSchemaTakes DEF columns
    <2> HIDE DEF columns
    <2>5. SchemaRight'
        BY <2>2, <2>4 DEF SchemaRight, Announces, Calm, JsonTakes
    <2> QED
        BY <1>2, <2>2, <2>5, AnnouncedSound
<1>3. CASE pc = "open"
    <2>1. Begin({})
        BY <1>3 DEF MilvusReader
    <2> QED
        BY <1>3, <2>1, BeginSound
<1>4. CASE pc = "read"
    <2> DEFINE page == FromOffset(source.rows, MilvusQuery.offset + pos, PageSize(MilvusQuery.limit))
               slice == FromOffset(WantedRows(view), pos, BatchSize)
    <2>1. outcome = "none" /\ SchemaRight
        BY <1>4, Alive DEF Sound
    <2>2. Within(page, source) /\ Within(slice, source)
        BY <1>4, MilvusRows
    <2>3. Announces /\ \A i \in DOMAIN schema, r \in DOMAIN source.rows :
                         JsonTakes(schema[i].type, Field(source.rows[r], schema[i].name))
        BY <2>1 DEF SchemaRight
    <2>4. /\ UNCHANGED <<schema, view>>
          /\ \/ Complete
             \/ SendPage(page, PageSize(MilvusQuery.limit))
             \/ SendPage(slice, 0)
        BY <1>4 DEF MilvusReader, read_query_paginated
    <2> HIDE DEF page, slice
    <2>5. Valid(NamedBatch(json_values_to_array, page)) /\ Valid(NamedBatch(json_values_to_array, slice))
        BY <2>2, <2>3, JsonValid
    <2>6. outcome' # "error" /\ pc' # "close_error"
        BY <1>4, <2>1, <2>4, <2>5 DEF SendPage, Yield, Complete, GoOn, Stop
    <2> QED
        BY <2>1, <2>4, <2>6, StaysSound
<1> QED
    BY <1>2, <1>3, <1>4 DEF MilvusReader

(***************************************************************************)
(* The bytes of a file that nobody changes are what the decoder expects.   *)
(***************************************************************************)
LEMMA BytesEnds ==
    ASSUME NEW t, IsSeq(t.rows), NEW format
    PROVE  /\ \A i \in 1 .. Len(Bytes(format, t)) : Bytes(format, t)[i].end = (i % 2 = 0)
           /\ format = "csv" => 1 <= Len(Bytes(format, t)) /\ Bytes(format, t)[1].row = HeaderOf(t)
<1> DEFINE header == HeaderOf(t)
           lines == IF format = "csv" THEN <<header>> \o t.rows ELSE t.rows
           byte(i) == [row |-> lines[(i + 1) \div 2], end |-> i % 2 = 0]
           bytes == [i \in 1 .. 2 * Len(lines) |-> byte(i)]
<1>1. Len(t.rows) \in Nat
    BY SeqLen
<1>2. Len(lines) \in Nat /\ (format = "csv" => Len(lines) >= 1 /\ lines[1] = header)
    <2>1. CASE format = "csv"
        <3>1. IsSeq(<<header>>) /\ Len(<<header>>) = 1 /\ <<header>>[1] = header
            BY DEF IsSeq, Range
        <3> HIDE DEF header
        <3>2. /\ Len(<<header>> \o t.rows) = 1 + Len(t.rows)
              /\ (<<header>> \o t.rows)[1] = header
            BY <3>1, ConcatIs
        <3> QED
            BY <1>1, <2>1, <3>2
    <2>2. CASE format # "csv"
        BY <1>1, <2>2
    <2> QED
        BY <2>1, <2>2
<1>3. Bytes(format, t) = IF format = "csv" /\ ~ t.newline THEN SubSeq(bytes, 1, Len(bytes) - 1) ELSE bytes
    BY DEF Bytes, HeaderOf
<1> HIDE DEF lines
<1>4. IsSeq(bytes) /\ Len(bytes) = 2 * Len(lines)
    <2>1. 2 * Len(lines) \in Nat
        BY <1>2
    <2>2. bytes = [i \in 1 .. 2 * Len(lines) |-> bytes[i]]
        OBVIOUS
    <2> HIDE DEF bytes
    <2> QED
        BY <2>1, <2>2, AsSeq
<1>5. ASSUME NEW i \in 1 .. Len(bytes) PROVE bytes[i].end = (i % 2 = 0)
    <2>1. i \in 1 .. 2 * Len(lines)
        BY <1>4
    <2> QED
        BY <2>1, Zenon
<1>6. ASSUME format = "csv" PROVE bytes[1].row = header /\ Len(bytes) >= 2
    <2>1. 1 \in 1 .. 2 * Len(lines) /\ (1 + 1) \div 2 = 1
        BY <1>2, <1>6
    <2>2. bytes[1].row = lines[(1 + 1) \div 2]
        BY <2>1
    <2> HIDE DEF bytes
    <2> QED
        BY <1>2, <1>4, <1>6, <2>1, <2>2
<1> HIDE DEF bytes, header
<1>7. CASE format = "csv" /\ ~ t.newline
    <2> DEFINE s == SubSeq(bytes, 1, Len(bytes) - 1)
    <2>1. Len(bytes) \in Nat /\ Len(bytes) >= 2 /\ Len(bytes) - 1 \in Int /\ Len(bytes) - 1 <= Len(bytes)
        BY <1>2, <1>4, <1>6, <1>7
    <2>2. /\ IsSeq(s) /\ Len(s) = (Len(bytes) - 1) - 1 + 1
          /\ \A i \in 1 .. Len(s) : s[i] = bytes[1 + i - 1]
        BY <1>4, <2>1, SubSeqIs
    <2> HIDE DEF s
    <2>3. Len(s) = Len(bytes) - 1
        BY <2>1, <2>2
    <2>4. ASSUME NEW i \in 1 .. Len(s) PROVE s[i] = bytes[i] /\ i \in 1 .. Len(bytes)
        <3>1. 1 + i - 1 = i /\ i \in 1 .. Len(bytes)
            BY <2>1, <2>3
        <3> QED
            BY <2>2, <3>1
    <2>5. 1 \in 1 .. Len(s)
        BY <2>1, <2>3
    <2>6. Bytes(format, t) = s
        BY <1>3, <1>7 DEF s
    <2>7. \A i \in 1 .. Len(s) : s[i].end = (i % 2 = 0)
        BY <1>5, <2>4, Zenon
    <2>8. 1 <= Len(s) /\ s[1].row = header
        BY <1>6, <1>7, <2>1, <2>3, <2>4, <2>5
    <2> QED
        BY <2>6, <2>7, <2>8, Zenon DEF header
<1>8. CASE ~ (format = "csv" /\ ~ t.newline)
    <2>1. Bytes(format, t) = bytes
        BY <1>3, <1>8
    <2>2. format = "csv" => 1 <= Len(bytes)
        BY <1>2, <1>4
    <2> QED
        BY <1>5, <1>6, <2>1, <2>2, Zenon DEF header
<1> QED
    BY <1>7, <1>8

LEMMA DecodeSound ==
    ASSUME NEW L, NEW d, DecoderOK(d, L), NEW bytes \in Seq(Pieces(L)), NEW to \in Nat, NEW format, NEW t,
           IsSeq(t.rows), NEW got, OnTrack(d, bytes, to, format, t, got)
    PROVE  Decode(d, bytes).sound
<1> DEFINE k == Decode(d, bytes).consumed
           taken == SubSeq(bytes, 1, k)
           read == d.partial \o taken
           a == Len(d.partial)
           b == Len(bytes)
           all == Bytes(format, t)
           start == Ahead(d, bytes, to)
<1>1. k \in 0 .. b
    BY DecodeOK
<1>2. IsSeq(d.partial) /\ IsSeq(bytes) /\ IsSeq(d.rows)
    BY SeqIn DEF DecoderOK
<1>3. Decode(d, bytes).sound = \A i \in DOMAIN read : read[i].end = (i % 2 = 0)
    <2> DEFINE room == IF d.skip THEN 1 ELSE BatchSize - Len(d.rows)
               size == Min({Len(bytes), 2 * room - Len(d.partial)})
    <2>1. k = size
        BY DEF Decode
    <2>2. Decode(d, bytes).sound = \A i \in DOMAIN (d.partial \o SubSeq(bytes, 1, size)) :
                                     (d.partial \o SubSeq(bytes, 1, size))[i].end = (i % 2 = 0)
        BY Zenon DEF Decode
    <2> HIDE DEF size, k
    <2> QED
        BY <2>1, <2>2, Zenon
<1>4. a \in Nat /\ b \in Nat /\ Len(d.rows) \in Nat
    BY <1>2, SeqLen
<1>5. start = to - b - a
    BY DEF Ahead
<1>6. start >= 0 /\ start + a + b <= Len(all)
    <2>1. to <= Len(all) /\ Ahead(d, bytes, to) >= 0
        BY DEF OnTrack
    <2>2. Len(all) \in Nat
        BY BytesSpell, SeqLen
    <2> HIDE DEF all
    <2> QED
        BY <1>4, <1>5, <2>1, <2>2
<1>7. \E h \in Nat : start = 2 * h
    <2>1. IsSeq(got)
        BY DEF OnTrack, Continues
    <2>2. Len(got) \in Nat /\ Headers(format) \in Nat
        BY <2>1, SeqLen DEF Headers
    <2>3. start = 0 \/ start = 2 * (Headers(format) + Len(got) + Len(d.rows))
        BY DEF OnTrack
    <2>4. Headers(format) + Len(got) + Len(d.rows) \in Nat
        BY <1>4, <2>2
    <2>5. 2 * 0 = 0
        OBVIOUS
    <2> HIDE DEF start
    <2> QED
        BY <2>3, <2>4, <2>5
<1>8. /\ \A i \in 1 .. a : d.partial[i] = all[start + i]
      /\ \A i \in 1 .. b : bytes[i] = all[start + a + i]
    BY DEF OnTrack
<1> HIDE DEF k
<1>9. IsSeq(taken) /\ Len(taken) = k /\ \A i \in 1 .. k : taken[i] = bytes[i]
    <2>1. 1 \in Nat \ {0} /\ k \in Int /\ k <= Len(bytes) /\ IsSeq(bytes)
        BY <1>1, <1>2, <1>4
    <2>2. /\ IsSeq(taken) /\ Len(taken) = IF 1 <= k THEN k - 1 + 1 ELSE 0
          /\ \A i \in 1 .. Len(taken) : taken[i] = bytes[1 + i - 1]
        BY <2>1, SubSeqIs
    <2> HIDE DEF taken
    <2>3. Len(taken) = k
        BY <1>1, <1>4, <2>2
    <2>4. \A i \in 1 .. k : 1 + i - 1 = i
        BY <2>1
    <2> QED
        BY <2>2, <2>3, <2>4
<1> HIDE DEF taken
<1>10. /\ IsSeq(read) /\ Len(read) = a + k
       /\ \A i \in 1 .. a : read[i] = d.partial[i]
       /\ \A i \in 1 .. k : read[a + i] = taken[i]
    <2>1. /\ IsSeq(read) /\ Len(read) = Len(d.partial) + Len(taken)
          /\ \A i \in 1 .. Len(d.partial) : read[i] = d.partial[i]
          /\ \A i \in 1 .. Len(taken) : read[Len(d.partial) + i] = taken[i]
        <3> DEFINE x == d.partial
        <3>1. IsSeq(x) /\ IsSeq(taken)
            BY <1>2, <1>9
        <3> HIDE DEF x
        <3>2. /\ IsSeq(x \o taken) /\ Len(x \o taken) = Len(x) + Len(taken)
              /\ \A i \in 1 .. Len(x) : (x \o taken)[i] = x[i]
              /\ \A i \in 1 .. Len(taken) : (x \o taken)[Len(x) + i] = taken[i]
            BY <3>1, ConcatIs
        <3> QED
            BY <3>2 DEF x
    <2> HIDE DEF read
    <2> QED
        BY <1>9, <2>1
<1>11. DOMAIN read = 1 .. a + k
    BY <1>10, SeqLen
<1> HIDE DEF read, a, b, all, start
<1>12. ASSUME NEW i \in 1 .. a + k PROVE read[i] = all[start + i]
    <2>1. CASE i \in 1 .. a
        BY <1>8, <1>10, <2>1
    <2>2. CASE i \notin 1 .. a
        <3>1. i - a \in 1 .. k /\ a + (i - a) = i /\ i - a \in 1 .. b
            BY <1>1, <1>4, <2>2
        <3>2. read[i] = bytes[i - a]
            BY <1>9, <1>10, <3>1
        <3>3. bytes[i - a] = all[start + a + (i - a)]
            BY <1>8, <3>1
        <3>4. start + a + (i - a) = start + i
            BY <1>1, <1>4, <1>5
        <3> QED
            BY <3>2, <3>3, <3>4
    <2> QED
        BY <2>1, <2>2
<1>13. ASSUME NEW i \in 1 .. a + k PROVE read[i].end = (i % 2 = 0)
    <2>1. PICK h \in Nat : start = 2 * h
        BY <1>7
    <2>2. i \in Nat /\ start + i \in 1 .. start + a + b
        BY <1>1, <1>4, <2>1
    <2>3. (start + i) % 2 = i % 2
        BY <2>1, <2>2
    <2>4. start + i \in 1 .. Len(all)
        <3>1. Len(all) \in Nat
            BY BytesSpell, SeqLen DEF all
        <3> QED
            BY <1>4, <1>6, <2>1, <2>2, <3>1
    <2>5. all[start + i].end = ((start + i) % 2 = 0)
        BY <2>4, BytesEnds, Zenon DEF all
    <2> QED
        BY <1>12, <2>3, <2>5, Zenon
<1> QED
    BY <1>3, <1>11, <1>13, Zenon

LEMMA DecodeEndSound ==
    ASSUME NEW L, NEW d, DecoderOK(d, L), NEW to \in Nat, NEW format, NEW t,
           IsSeq(t.rows), NEW got, OnTrack(d, <<>>, to, format, t, got), to = Len(Bytes(format, t))
    PROVE  DecodeEnd(d, format).sound
<1> SUFFICES ASSUME format # "csv" PROVE DecodeEnd(d, format).sound
    BY DEF DecodeEnd
<1>1. IsSeq(d.partial) /\ IsSeq(d.rows) /\ Len(d.partial) <= 1
    BY SeqIn DEF DecoderOK
<1>2. IsSeq(got) /\ ~ d.skip
    BY DEF OnTrack, Continues
<1>3. /\ Len(d.partial) \in Nat /\ Len(d.rows) \in Nat /\ Len(got) \in Nat /\ Len(<<>>) = 0
      /\ Len(t.rows) \in Nat /\ Headers(format) = 0
    BY <1>1, <1>2, SeqLen, EmptyIs DEF Headers
<1>4. Ahead(d, <<>>, to) = 2 * (0 + Len(got) + Len(d.rows)) /\ Ahead(d, <<>>, to) = to - 0 - Len(d.partial)
    BY <1>2, <1>3 DEF OnTrack, Ahead
<1>5. to = 2 * (0 + Len(t.rows))
    BY <1>3, BytesSpell
<1>6. Len(d.partial) = 0
    <2> DEFINE p == Len(d.partial)
               n == Len(got) + Len(d.rows)
    <2>1. n \in Nat /\ p \in Nat /\ 0 + Len(got) + Len(d.rows) = n /\ 0 + Len(t.rows) = Len(t.rows)
        BY <1>3
    <2>2. 2 * n = to - 0 - p /\ to = 2 * Len(t.rows)
        BY <1>4, <1>5, <2>1
    <2> HIDE DEF p, n
    <2>3. p <= 1
        BY <1>1 DEF p
    <2>4. p = 0
        BY <1>3, <2>1, <2>2, <2>3
    <2> QED
        BY <2>4 DEF p
<1>7. d.partial = <<>>
    BY <1>1, <1>6, EmptyWhenLen
<1> QED
    BY <1>7 DEF DecodeEnd

(***************************************************************************)
(* The stream of a file.                                                   *)
(***************************************************************************)
DataPath == IF provider = "s3" THEN {} ELSE UriQuery.data_path
SourceFormats == IF provider = "s3" THEN FormatOf(request.extension, request.hint) ELSE UriFormat(source)

LEMMA FileIsFit ==
    ASSUME Blameless, OfFile
    PROVE  /\ SourceFormats # {} /\ SourceFormat \in Formats /\ FileFits(SourceFormat, DataPath)
<1>1. provider \in {"s3", "uri"} /\ ~ request.binary /\ SourceFits
    BY DEF OfFile, Blameless
<1>2. SourceFormats # {} /\ FileFits(CHOOSE f \in SourceFormats : TRUE, DataPath)
    BY <1>1 DEF SourceFits, SourceFormats, DataPath
<1>3. SourceFormat = CHOOSE f \in SourceFormats : TRUE
    BY DEF SourceFormat, SourceFormats
<1>4. SourceFormat \in SourceFormats
    BY <1>2, <1>3
<1>5. SourceFormats \subseteq Formats
    BY FormatsKnown, UriFormats DEF SourceFormats
<1> QED
    BY <1>2, <1>3, <1>4, <1>5

LEMMA FileGoes ==
    ASSUME StreamInv, Calm, Sound, pc = "read", provider \in {"s3", "uri"}, UNCHANGED <<schema, view>>,
           UNCHANGED <<pc, outcome>> \/ (pc' = "done" /\ outcome' = "ok")
    PROVE  Sound'
<1>1. outcome = "none" /\ SchemaRight
    BY Alive DEF Sound
<1>2. outcome' # "error" /\ pc' # "close_error"
    BY <1>1
<1> QED
    BY <1>1, <1>2, StaysSound

LEMMA FileIsRead ==
    ASSUME StreamInv, Sound, pc = "read", provider \in {"s3", "uri"}
    PROVE  /\ SessionOK /\ pos \in Nat /\ IsSeq(source.rows) /\ Reading = view /\ view = source
           /\ OfFile => ReadFormat = SourceFormat /\ FileSchemaRight(SourceFormat)
<1>1. SessionOK /\ pos \in Nat /\ Begun
    BY Alive DEF StreamInv, BeginsRight
<1>2. view = source /\ ~ torn
    BY <1>1 DEF Sound, Begun
<1>3. Reading = view
    BY <1>2, FileBytes DEF StreamInv
<1>4. IsSeq(source.rows)
    BY <1>1, TablesOK DEF IsSeq
<1>5. ReadFormat = SourceFormat
    BY <1>2 DEF ReadFormat, SourceFormat
<1>6. OfFile => FileSchemaRight(SourceFormat)
    BY DEF Sound, SchemaRight, OfFile
<1> QED
    BY <1>1, <1>2, <1>3, <1>4, <1>5, <1>6

\* No read of the file goes beyond its end.
LEMMA BytesGo ==
    ASSUME StreamInv, Sound, pc = "read", provider \in {"s3", "uri"}, NEW format, NextBytes(format)
    PROVE  UNCHANGED <<pc, outcome>>
<1> DEFINE bytes == Bytes(format, Reading)
           length == Len(Bytes(format, view))
<1>1. pos \in Nat /\ IsSeq(view.rows) /\ Reading = view
    BY FileIsRead
<1>2. length \in Nat
    BY <1>1, BytesSpell, SeqLen
<1>3. PICK n \in 1 .. Min({MaxChunk, length - pos}) :
        IF pos + n > Len(bytes) THEN Stop("error") /\ UNCHANGED <<pos, chunk>>
        ELSE chunk' = SubSeq(bytes, pos + 1, pos + n) /\ pos' = pos + n /\ GoOn
    BY DEF NextBytes
<1>4. n \in Int /\ n <= length - pos
    <2>1. MaxChunk \in Int /\ length - pos \in Int
        BY <1>1, <1>2, FileAssumption
    <2>2. Min({MaxChunk, length - pos}) \in Int /\ Min({MaxChunk, length - pos}) <= length - pos
        BY <2>1, MinOfTwo
    <2> QED
        BY <1>3, <2>1, <2>2
<1>5. Len(bytes) = length
    BY <1>1
<1>6. ~ (pos + n > Len(bytes))
    <2> HIDE DEF bytes, length
    <2> QED
        BY <1>1, <1>2, <1>4, <1>5
<1> QED
    BY <1>3, <1>6 DEF GoOn

LEMMA FlushSound ==
    ASSUME StreamInv, Calm, Sound, pc = "read", OfFile, SourceFormat \in {"csv", "jsonl", "json"},
           UNCHANGED <<schema, view>>, NEW rows, Within(rows, source), NEW Go,
           Yield(FileArrays(SourceFormat, rows), rows, Go),
           Go => UNCHANGED <<pc, outcome>> \/ (pc' = "done" /\ outcome' = "ok")
    PROVE  Sound'
<1>1. provider \in {"s3", "uri"}
    BY DEF OfFile
<1>2. Valid(FileArrays(SourceFormat, rows))
    BY <1>1, FileIsRead, FileValid
<1>3. Go
    BY <1>2 DEF Yield
<1> QED
    BY <1>1, <1>3, FileGoes

LEMMA DecodeStreamSound ==
    ASSUME StreamInv, Calm, Sound, pc = "read", Decoding, decode_stream(ReadFormat), UNCHANGED <<schema, view>>
    PROVE  Sound'
<1>1. OfFile /\ provider \in {"s3", "uri"} /\ ReadFormat \in {"csv", "jsonl"}
    BY DEF Decoding, OfFile
<1>2. /\ view = source /\ IsSeq(source.rows) /\ pos \in Nat /\ ReadFormat = SourceFormat
      /\ FileSchemaRight(SourceFormat)
    BY <1>1, FileIsRead
<1>3. /\ DecoderOK(decoder, AnyLines) /\ chunk \in Seq(Pieces(AnyLines))
      /\ OnTrack(decoder, chunk, pos, ReadFormat, view, Flat(sent))
    BY DecodingIs DEF Sound
<1>4. CASE chunk = <<>> /\ NextBytes(ReadFormat) /\ UNCHANGED <<decoder, sent>>
    BY <1>1, <1>4, BytesGo, FileGoes
<1>5. CASE chunk # <<>>
    <2> DEFINE d == Decode(decoder, chunk)
    <2>1. d.sound
        BY <1>2, <1>3, DecodeSound
    <2>2. CASE UNCHANGED <<pc, outcome>>
        BY <1>1, <2>2, FileGoes
    <2>3. CASE Flush(ReadFormat, decoder, GoOn)
        <3>1. Within(decoder.rows, source)
            BY <1>2, <1>3, ContinuesWithin DEF OnTrack
        <3>2. Yield(FileArrays(SourceFormat, decoder.rows), decoder.rows, GoOn)
            BY <1>2, <2>3 DEF Flush
        <3>3. GoOn => UNCHANGED <<pc, outcome>>
            BY DEF GoOn
        <3> QED
            BY <1>1, <1>2, <3>1, <3>2, <3>3, FlushSound
    <2>4. UNCHANGED <<pc, outcome>> \/ Flush(ReadFormat, decoder, GoOn)
        BY <1>5, <2>1 DEF decode_stream, DecodeChunk, GoOn
    <2> QED
        BY <2>2, <2>3, <2>4
<1>6. CASE chunk = <<>> /\ pos = Len(Bytes(ReadFormat, view)) /\ ~ (NextBytes(ReadFormat) /\ UNCHANGED <<decoder, sent>>)
    <2> DEFINE e == DecodeEnd(decoder, ReadFormat)
               rows == e.decoder.rows
    <2>0. OnTrack(decoder, <<>>, pos, ReadFormat, view, Flat(sent))
        BY <1>3, <1>6
    <2>1. e.sound
        BY <1>2, <1>3, <1>6, <2>0, DecodeEndSound
    <2>2. Within(rows, source)
        <3>1. Continues(Flat(sent), rows, view.rows)
            BY <1>2, <1>3, <1>6, <2>0, <2>1, EndTrack
        <3> HIDE DEF rows
        <3> QED
            BY <1>2, <3>1, ContinuesWithin
    <2>3. Complete \/ Yield(FileArrays(ReadFormat, rows), rows, Complete)
        BY <1>6, <2>1 DEF decode_stream, Flush
    <2>4. Complete => pc' = "done" /\ outcome' = "ok"
        BY DEF Complete, Stop
    <2>5. CASE Complete
        BY <1>1, <2>4, <2>5, FileGoes
    <2>6. CASE Yield(FileArrays(ReadFormat, rows), rows, Complete)
        <3> HIDE DEF rows
        <3> QED
            BY <1>1, <1>2, <2>2, <2>4, <2>6, FlushSound
    <2> QED
        BY <2>3, <2>5, <2>6
<1> QED
    BY <1>4, <1>5, <1>6 DEF decode_stream

LEMMA ReadFileSound ==
    ASSUME StreamInv, Calm, Blameless, Sound, OfFile, pc = "read", ReadFile(ReadFormat, DataPath)
    PROVE  Sound'
<1>0. provider \in {"s3", "uri"}
    BY DEF OfFile
<1>1. UNCHANGED <<schema, view>>
    BY DEF ReadFile
<1>2. /\ SessionOK /\ view = source /\ Reading = view /\ IsSeq(source.rows) /\ pos \in Nat
      /\ ReadFormat = SourceFormat /\ FileSchemaRight(SourceFormat)
    BY <1>0, FileIsRead
<1>3. SourceFormat \in Formats /\ FileFits(SourceFormat, DataPath)
    BY FileIsFit
<1>4. Complete => pc' = "done" /\ outcome' = "ok"
    BY DEF Complete, Stop
<1>5. GoOn => UNCHANGED <<pc, outcome>>
    BY DEF GoOn
<1> DEFINE rows == NextSlice(view.rows)
<1>6. Within(rows, source)
    BY <1>2, SliceWithin
<1>7. CASE SourceFormat \in {"csv", "jsonl"}
    <2>1. Decoding /\ decode_stream(ReadFormat)
        BY <1>2, <1>7 DEF Decoding, ReadFile
    <2> QED
        BY <1>1, <2>1, DecodeStreamSound
<1>8. CASE SourceFormat = "json"
    <2>1. read_json_batches(DataPath)
        BY <1>2, <1>8 DEF ReadFile
    <2>2. view.path = DataPath
        BY <1>2, <1>3, <1>8 DEF FileFits
    <2>3. Complete \/ Yield(FileArrays("json", rows), rows, GoOn)
        BY <2>1, <2>2 DEF read_json_batches
    <2> HIDE DEF rows
    <2>4. CASE Yield(FileArrays("json", rows), rows, GoOn)
        <3>1. Yield(FileArrays(SourceFormat, rows), rows, GoOn)
            BY <1>8, <2>4
        <3> QED
            BY <1>1, <1>5, <1>6, <1>8, <3>1, FlushSound
    <2> QED
        BY <1>0, <1>1, <1>4, <2>3, <2>4, FileGoes
<1>9. CASE SourceFormat = "parquet"
    <2> DEFINE arrays == [i \in DOMAIN view.cols |->
                            [type |-> view.cols[i].type,
                             cells |-> [r \in DOMAIN rows |-> rows[r].fields[i][2]]]]
    <2>1. read_parquet_batches
        BY <1>2, <1>9 DEF ReadFile
    <2>2. Complete \/ Yield(arrays, rows, GoOn)
        BY <1>2, <2>1 DEF read_parquet_batches
    <2> HIDE DEF rows
    <2>3. Valid(arrays)
        <3>1. arrays = [i \in DOMAIN source.cols |->
                            [type |-> source.cols[i].type,
                             cells |-> [r \in DOMAIN rows |-> rows[r].fields[i][2]]]]
            BY <1>2
        <3>2. FileSchemaRight("parquet")
            BY <1>2, <1>9
        <3> HIDE DEF arrays
        <3> QED
            BY <1>0, <1>2, <1>6, <3>1, <3>2, ParquetValid
    <2>4. Complete \/ GoOn
        BY <2>2, <2>3 DEF Yield
    <2> QED
        BY <1>0, <1>1, <1>4, <1>5, <2>4, FileGoes
<1> QED
    BY <1>3, <1>7, <1>8, <1>9 DEF Formats

LEMMA BinarySound ==
    ASSUME StreamInv, Calm, Blameless, Sound, provider \in {"s3", "uri"}, request.binary,
           S3Binary \/ (provider = "uri" /\ UriBinary)
    PROVE  Sound'
<1>1. \/ OpenBinary \/ ReadBinary("csv")
    <2>1. provider = "uri" => \A path \in request.path : BelowBase(path)
        BY DEF Blameless, RequestFits
    <2> QED
        BY <2>1 DEF S3Binary, UriBinary
<1>2. CASE OpenBinary
    <2>1. pc = "schema" /\ pc' = "read" /\ view' = source /\ outcome' = outcome
        BY <1>2 DEF OpenBinary
    <2>2. SchemaRight'
        BY DEF SchemaRight, Calm
    <2> QED
        BY <2>1, <2>2 DEF Sound, Calm
<1>3. CASE ReadBinary("csv")
    <2>1. pc = "read" /\ UNCHANGED <<schema, view>>
        BY <1>3 DEF ReadBinary
    <2>2. NextBytes("csv") \/ UNCHANGED <<pc, outcome>> \/ (pc' = "done" /\ outcome' = "ok")
        BY <1>3 DEF ReadBinary, GoOn, Complete, Stop
    <2> QED
        BY <2>1, <2>2, BytesGo, FileGoes
<1> QED
    BY <1>1, <1>2, <1>3

(***************************************************************************)
(* The schema of a file.                                                   *)
(***************************************************************************)
\* A text of several lines is a text.
Kind(v) == IF v.k = "lines" THEN "str" ELSE v.k

LEMMA InferTakes ==
    ASSUME NEW format, NEW values, NEW v, v # Failed,
           \/ v.k = "null"
           \/ \E i \in DOMAIN values : Kind(values[i]) = Kind(v)
           \/ format = "csv" /\ \A i \in DOMAIN values : values[i].k = "null"
    PROVE  FileTakes(format, InferType(values), v)
<1> DEFINE type == InferType(values)
           kinds == {values[i].k : i \in DOMAIN values} \ {"null"}
           cell == FileArrayOf(format, type, <<v>>).cells[1]
<1>1. v.k = "null" => cell = Null
    BY DEF FileArrayOf
<1>2. \/ v.k = "null"
      \/ v.k \in kinds
      \/ kinds \cap {"str", "lines"} # {}
      \/ format = "csv" /\ kinds = {}
    BY DEF Kind
<1>3. type = CASE kinds = {} -> "Null"
               [] kinds = {"int"} -> "Int64"
               [] kinds # {} /\ kinds # {"int"} /\ kinds \subseteq {"int", "float"} -> "Float64"
               [] kinds = {"bool"} -> "Boolean"
               [] OTHER -> "Utf8"
    BY DEF InferType
<1> HIDE DEF type, kinds
<1>4. CASE v.k # "null" /\ kinds = {}
    <2>1. type = "Null" /\ format = "csv"
        BY <1>2, <1>3, <1>4
    <2>2. cell = Null
        BY <1>4, <2>1 DEF FileArrayOf
    <2> QED
        BY <2>2, NullIsNot DEF FileTakes, type
<1>5. CASE v.k # "null" /\ kinds # {}
    <2>1. v.k \in kinds \/ kinds \cap {"str", "lines"} # {}
        BY <1>2, <1>5
    <2>2. CASE kinds = {"int"}
        <3>1. type = "Int64" /\ v.k = "int"
            BY <1>3, <2>1, <2>2
        <3>2. cell = v
            BY <3>1 DEF FileArrayOf
        <3> QED
            BY <3>2 DEF FileTakes, type
    <2>3. CASE kinds # {"int"} /\ kinds \subseteq {"int", "float"}
        <3>1. type = "Float64" /\ v.k \in {"int", "float"}
            BY <1>3, <1>5, <2>1, <2>3
        <3>2. cell = as_float("Float64", v)
            BY <3>1 DEF FileArrayOf
        <3>3. as_float("Float64", v) # Failed
            BY <3>1, NumberIsNot
        <3> QED
            BY <3>2, <3>3 DEF FileTakes, type
    <2>4. CASE kinds = {"bool"}
        <3>1. type = "Boolean" /\ v.k = "bool"
            BY <1>3, <2>1, <2>4
        <3>2. cell = v
            BY <3>1 DEF FileArrayOf
        <3> QED
            BY <3>2 DEF FileTakes, type
    <2>5. CASE kinds # {"int"} /\ ~ (kinds \subseteq {"int", "float"}) /\ kinds # {"bool"}
        <3>1. type = "Utf8"
            BY <1>3, <1>5, <2>5
        <3>2. cell = Text(v)
            BY <1>5, <3>1 DEF FileArrayOf
        <3> QED
            BY <3>2, TextIsNot DEF FileTakes, type
    <2> QED
        BY <2>2, <2>3, <2>4, <2>5
<1>6. CASE v.k = "null"
    BY <1>1, <1>6, NullIsNot DEF FileTakes, type
<1> QED
    BY <1>4, <1>5, <1>6

\* A sample is cut where a line ends, and loses no more than that; one of
\* CSV may be cut within a row.
LEMMA SampleIs ==
    ASSUME NEW format, NEW bytes, IsSeq(bytes), \A i \in 1 .. Len(bytes) : bytes[i].end = (i % 2 = 0),
           NEW read \in SampleLengths(bytes)
    PROVE  /\ read >= MaxSample => Len(bytes) >= MaxSample
           /\ \E cut \in 0 .. Len(bytes) :
                /\ read_sample(format, bytes, read, MaxSample) = SubSeq(bytes, 1, cut)
                /\ 1 <= Len(bytes) => 1 <= cut
                /\ MaxSample > 1 /\ format # "csv" => cut = Len(bytes) \/ (cut % 2 = 0 /\ MaxSample - 1 <= cut)
<1> DEFINE odd(i) == format = "csv" /\ LineBreaks(bytes[i].row) # {}
           breaks == {i \in 1 .. read : bytes[i].end \/ odd(i)}
           e == 2 * (read \div 2)
           sample == read_sample(format, bytes, read, MaxSample)
<1>1. Len(bytes) \in Nat /\ MaxSample \in Nat \ {0} /\ MaxChunk \in Nat
    BY SeqLen, FileAssumption
<1>2. \/ Len(bytes) < MaxSample /\ read = Len(bytes)
      \/ MaxSample <= Len(bytes) /\ read \in MaxSample .. Len(bytes)
    BY <1>1 DEF SampleLengths
<1>3. sample = SubSeq(bytes, 1, IF read >= MaxSample /\ breaks # {} THEN Max(breaks) ELSE read)
    BY DEF read_sample
<1> HIDE DEF sample
<1>4. CASE Len(bytes) < MaxSample /\ read = Len(bytes)
    <2>1. ~ (read >= MaxSample)
        BY <1>1, <1>4
    <2>2. sample = SubSeq(bytes, 1, read)
        BY <1>3, <2>1
    <2>3. read \in 0 .. Len(bytes)
        BY <1>1, <1>4
    <2> HIDE DEF breaks
    <2> QED
        BY <1>4, <2>1, <2>2, <2>3 DEF sample
<1>5. CASE MaxSample <= Len(bytes) /\ read \in MaxSample .. Len(bytes)
    <2>1. read \in Nat /\ read >= MaxSample /\ read <= Len(bytes) /\ read >= 1 /\ Len(bytes) >= MaxSample
        BY <1>1, <1>5
    <2>2. e \in Nat /\ e <= read /\ read - 1 <= e /\ e % 2 = 0 /\ (read % 2 = 0 => e = read)
        BY <2>1
    <2>3. \A i \in breaks : i \in Nat /\ i <= read /\ i >= 1
        BY <1>1, <2>1
    <2>4. ASSUME format # "csv", NEW i \in breaks PROVE i % 2 = 0
        <3>1. i \in 1 .. Len(bytes)
            BY <1>1, <2>1
        <3>2. bytes[i].end = (i % 2 = 0) /\ bytes[i].end
            BY <2>4, <3>1
        <3> QED
            BY <3>2, Zenon
    <2>5. ASSUME NEW top \in breaks, \A i \in breaks : i <= top PROVE Max(breaks) = top
        <3> DEFINE most == CHOOSE x \in breaks : \A y \in breaks : x >= y
        <3> HIDE DEF breaks
        <3>1. \A y \in breaks : top >= y
            BY <2>3, <2>5
        <3>2. most \in breaks /\ \A y \in breaks : most >= y
            BY <2>5, <3>1
        <3>3. Max(breaks) = most
            BY DEF Max
        <3> HIDE DEF most
        <3>4. most >= top /\ top >= most /\ top \in Nat /\ most \in Nat
            BY <2>3, <2>5, <3>1, <3>2
        <3> QED
            BY <3>3, <3>4
    <2> HIDE DEF breaks
    <2>6. CASE read \in breaks
        <3>1. Max(breaks) = read
            BY <2>3, <2>5, <2>6
        <3>2. sample = SubSeq(bytes, 1, read)
            BY <1>3, <2>1, <2>6, <3>1
        <3>3. read \in 0 .. Len(bytes) /\ 1 <= read /\ MaxSample - 1 <= read
            BY <1>1, <2>1
        <3>4. format # "csv" => read % 2 = 0
            BY <2>4, <2>6
        <3> QED
            BY <2>1, <3>2, <3>3, <3>4 DEF sample
    <2>7. CASE read \notin breaks /\ read >= 2
        <3>1. e \in 1 .. read /\ e \in 1 .. Len(bytes) /\ read \in 1 .. Len(bytes)
            BY <1>1, <2>1, <2>2, <2>7
        <3> HIDE DEF e
        <3>2. bytes[e].end
            BY <2>2, <3>1, Zenon
        <3>3. e \in breaks
            BY <3>1, <3>2 DEF breaks
        <3>4. \A i \in breaks : i <= e
            <4> SUFFICES ASSUME NEW i \in breaks PROVE i <= e
                OBVIOUS
            <4>1. i \in Nat /\ i <= read /\ i # read
                BY <2>3, <2>7
            <4> QED
                BY <2>1, <2>2, <4>1
        <3>5. Max(breaks) = e
            BY <2>5, <3>3, <3>4
        <3>6. sample = SubSeq(bytes, 1, e)
            BY <1>3, <2>1, <3>3, <3>5
        <3>7. e \in 0 .. Len(bytes) /\ 1 <= e /\ MaxSample - 1 <= e
            BY <1>1, <2>1, <2>2, <3>1
        <3> QED
            BY <2>1, <2>2, <3>6, <3>7 DEF sample
    <2>8. CASE read \notin breaks /\ read = 1
        <3>1. breaks = {}
            BY <2>3, <2>8
        <3>2. sample = SubSeq(bytes, 1, read)
            BY <1>3, <3>1
        <3>3. read \in 0 .. Len(bytes) /\ 1 <= read /\ ~ (MaxSample > 1)
            BY <1>1, <2>1, <2>8
        <3> QED
            BY <2>1, <3>2, <3>3 DEF sample
    <2> QED
        BY <2>1, <2>6, <2>7, <2>8
<1> QED
    BY <1>2, <1>4, <1>5

\* The rows of a sample of CSV, after its header.
LEMMA CsvSample ==
    ASSUME NEW t, IsSeq(t.rows), NEW read \in SampleLengths(Bytes("csv", t)),
           NEW sample, sample = read_sample("csv", Bytes("csv", t), read, MaxSample),
           NEW rows, rows = Tail(RowsIn(sample))
    PROVE  /\ sample[1].row = HeaderOf(t)
           /\ \A r \in DOMAIN rows : r \in DOMAIN t.rows /\ rows[r] = t.rows[r]
           /\ read >= MaxSample => Len(Bytes("csv", t)) >= MaxSample
           /\ \/ Last(sample).end
              \/ Last(sample).row = HeaderOf(t)
              \/ \E q \in DOMAIN t.rows : Last(sample).row = t.rows[q]
<1> DEFINE bytes == Bytes("csv", t)
           n == Len(t.rows)
<1>1. IsSeq(bytes) /\ Len(bytes) \in Nat /\ n \in Nat /\ DOMAIN t.rows = 1 .. n /\ Headers("csv") = 1
    BY BytesSpell, SeqLen DEF Headers
<1>2. Len(bytes) <= 2 * (1 + n) /\ \A k \in 1 .. n : bytes[2 * (1 + k) - 1].row = t.rows[k]
    <2>1. Len(bytes) = 2 * (1 + n) \/ Len(bytes) = 2 * (1 + n) - 1
        BY <1>1, BytesSpell
    <2>2. \A k \in 1 .. n : bytes[2 * (1 + k) - 1].row = t.rows[k]
        BY <1>1, BytesSpell
    <2> HIDE DEF bytes, n
    <2> QED
        BY <1>1, <2>1, <2>2
<1>3. /\ \A i \in 1 .. Len(bytes) : bytes[i].end = (i % 2 = 0)
      /\ 1 <= Len(bytes) /\ bytes[1].row = HeaderOf(t)
    BY BytesEnds, Zenon
<1> HIDE DEF bytes, n
<1>4. /\ read >= MaxSample => Len(bytes) >= MaxSample
      /\ \E cut \in 0 .. Len(bytes) : sample = SubSeq(bytes, 1, cut) /\ (1 <= Len(bytes) => 1 <= cut)
    <2>1. IsSeq(bytes) /\ read \in SampleLengths(bytes) /\ sample = read_sample("csv", bytes, read, MaxSample)
        BY <1>1 DEF bytes
    <2>2. /\ read >= MaxSample => Len(bytes) >= MaxSample
          /\ \E cut \in 0 .. Len(bytes) :
                read_sample("csv", bytes, read, MaxSample) = SubSeq(bytes, 1, cut) /\ (1 <= Len(bytes) => 1 <= cut)
        <3>1. IsSeq(bytes) /\ read \in SampleLengths(bytes)
            BY <2>1
        <3> QED
            BY <1>3, <3>1, SampleIs
    <2> QED
        BY <2>1, <2>2
<1>40. PICK cut \in 0 .. Len(bytes) : sample = SubSeq(bytes, 1, cut) /\ (1 <= Len(bytes) => 1 <= cut)
    BY <1>4
<1>5. cut \in Nat /\ 1 <= cut /\ cut <= Len(bytes)
    BY <1>1, <1>3, <1>40
<1>6. Len(sample) = cut /\ \A i \in 1 .. cut : sample[i] = bytes[i]
    <2>0. 1 \in Nat \ {0} /\ cut \in Int /\ cut <= Len(bytes) /\ sample = SubSeq(bytes, 1, cut)
        BY <1>40, <1>5
    <2>1. /\ IsSeq(sample) /\ Len(sample) = IF 1 <= cut THEN cut - 1 + 1 ELSE 0
          /\ \A i \in 1 .. Len(sample) : sample[i] = bytes[1 + i - 1]
        <3> DEFINE s == SubSeq(bytes, 1, cut)
        <3>1. IsSeq(bytes)
            BY <1>1
        <3>2. /\ IsSeq(s) /\ Len(s) = IF 1 <= cut THEN cut - 1 + 1 ELSE 0
              /\ \A i \in 1 .. Len(s) : s[i] = bytes[1 + i - 1]
            BY <2>0, <3>1, SubSeqIs
        <3> HIDE DEF s
        <3>3. sample = s
            BY <2>0 DEF s
        <3> QED
            BY <3>2, <3>3
    <2>2. Len(sample) = cut /\ \A i \in 1 .. cut : 1 + i - 1 = i
        BY <1>5, <2>1
    <2> QED
        BY <2>1, <2>2
<1>7. sample[1].row = HeaderOf(t)
    BY <1>3, <1>5, <1>6
<1> DEFINE all == RowsIn(sample)
           m == (cut + 1) \div 2
<1>8. m \in Nat /\ m >= 1 /\ 2 * m - 1 <= cut
    BY <1>5
<1>9. IsSeq(all) /\ Len(all) = m /\ \A i \in 1 .. m : all[i] = sample[2 * i - 1].row
    <2>1. all = [i \in 1 .. m |-> sample[2 * i - 1].row]
        BY <1>6 DEF RowsIn
    <2> HIDE DEF all, m
    <2>2. all = [i \in 1 .. m |-> all[i]]
        BY <2>1
    <2> QED
        BY <1>8, <2>1, <2>2, AsSeq
<1> HIDE DEF all, m
<1>10. all # <<>> /\ all \in Seq(Range(all))
    BY <1>8, <1>9, EmptyWhenLen DEF IsSeq
<1>11. rows \in Seq(Range(all)) /\ Len(rows) = m - 1 /\ \A i \in 1 .. Len(rows) : rows[i] = all[i + 1]
    <2>1. rows = Tail(all)
        BY DEF all
    <2>2. /\ Tail(all) \in Seq(Range(all)) /\ Len(Tail(all)) = Len(all) - 1
          /\ \A i \in 1 .. Len(Tail(all)) : Tail(all)[i] = all[i + 1]
        BY <1>10, HeadTailProperties
    <2> QED
        BY <1>9, <2>1, <2>2
<1>12. DOMAIN rows = 1 .. m - 1
    BY <1>8, <1>11, SeqIn, SeqLen
<1>13. ASSUME NEW r \in DOMAIN rows PROVE r \in DOMAIN t.rows /\ rows[r] = t.rows[r]
    <2>1. r \in Nat /\ r >= 1 /\ r + 1 \in 1 .. m /\ r \in 1 .. Len(rows)
        BY <1>8, <1>11, <1>12
    <2>2. 2 * (r + 1) - 1 = 2 * (1 + r) - 1 /\ 2 * (r + 1) - 1 \in 1 .. cut
        BY <1>5, <1>8, <2>1
    <2>3. r \in 1 .. n
        BY <1>1, <1>2, <1>5, <2>1, <2>2
    <2>4. rows[r] = sample[2 * (r + 1) - 1].row
        BY <1>9, <1>11, <2>1
    <2>5. sample[2 * (r + 1) - 1] = bytes[2 * (1 + r) - 1]
        BY <1>6, <2>2
    <2> QED
        BY <1>1, <1>2, <2>3, <2>4, <2>5
<1>14. \/ Last(sample).end
       \/ Last(sample).row = HeaderOf(t)
       \/ \E q \in DOMAIN t.rows : Last(sample).row = t.rows[q]
    <2>1. Last(sample) = bytes[cut] /\ cut \in 1 .. Len(bytes)
        BY <1>1, <1>5, <1>6 DEF Last
    <2>2. bytes[cut].end = (cut % 2 = 0)
        BY <1>3, <2>1
    <2>3. CASE cut % 2 = 0
        <3>1. bytes[cut].end
            BY <2>2, <2>3, Zenon
        <3> QED
            BY <2>1, <3>1
    <2>4. CASE cut = 1
        BY <1>3, <2>1, <2>4
    <2>5. CASE cut % 2 # 0 /\ cut # 1
        <3> DEFINE q == cut \div 2
        <3>1. q \in 1 .. n /\ 2 * (1 + q) - 1 = cut
            BY <1>1, <1>2, <1>5, <2>5
        <3> HIDE DEF q
        <3>2. bytes[2 * (1 + q) - 1].row = t.rows[q]
            BY <1>2, <3>1
        <3>3. Last(sample).row = t.rows[q]
            BY <2>1, <3>1, <3>2
        <3> QED
            BY <1>1, <3>1, <3>3
    <2> QED
        BY <2>3, <2>4, <2>5
<1> QED
    BY <1>4, <1>7, <1>13, <1>14 DEF bytes

LEMMA FileRows ==
    ASSUME SessionOK, provider \in {"s3", "uri"}
    PROVE  /\ IsSeq(source.cols) /\ IsSeq(source.rows) /\ Rectangular(source)
           /\ \A r \in DOMAIN source.rows : Fits(source.rows[r], source)
           /\ \A r \in DOMAIN source.rows, i \in DOMAIN source.cols : source.rows[r].fields[i][2] # Failed
<1>1. Rectangular(source) /\ IsSeq(source.cols) /\ IsSeq(source.rows)
    BY SourceRectangular DEF Positional
<1>2. \A r \in DOMAIN source.rows : Fits(source.rows[r], source)
    BY <1>1 DEF Rectangular, Fits
<1> QED
    BY <1>1, <1>2, SourceSane DEF Sane, Fits

LEMMA CsvSchema ==
    ASSUME SessionOK, provider \in {"s3", "uri"}, SameKinds(source),
           Len(Bytes("csv", source)) >= MaxSample =>
             \A r \in DOMAIN source.rows : LineBreaks(source.rows[r]) \subseteq {Len(source.cols)},
           NEW read \in SampleLengths(Bytes("csv", source)), NEW columns,
           columns = read_csv_schema(read_sample("csv", Bytes("csv", source), read, MaxSample))
    PROVE  /\ ~ (read >= MaxSample /\ CutShort(Last(read_sample("csv", Bytes("csv", source), read, MaxSample))))
           /\ DOMAIN columns = DOMAIN source.cols /\ columns = [i \in DOMAIN source.cols |-> columns[i]]
           /\ \A i \in DOMAIN columns, r \in DOMAIN source.rows :
                FileTakes("csv", columns[i].type, source.rows[r].fields[i][2])
<1> DEFINE sample == read_sample("csv", Bytes("csv", source), read, MaxSample)
           rows == Tail(RowsIn(sample))
           header == sample[1].row.fields
           values(i) == [r \in DOMAIN rows |-> rows[r].fields[i][2]]
<1>1. columns = [i \in DOMAIN header |-> [name |-> header[i][1], type |-> InferType(values(i))]]
    BY DEF read_csv_schema
<1>2. /\ IsSeq(source.rows)
      /\ \A r \in DOMAIN source.rows, i \in DOMAIN source.cols : source.rows[r].fields[i][2] # Failed
    BY FileRows
<1>3. /\ sample[1].row = HeaderOf(source)
      /\ \A r \in DOMAIN rows : r \in DOMAIN source.rows /\ rows[r] = source.rows[r]
      /\ read >= MaxSample => Len(Bytes("csv", source)) >= MaxSample
      /\ \/ Last(sample).end
         \/ Last(sample).row = HeaderOf(source)
         \/ \E q \in DOMAIN source.rows : Last(sample).row = source.rows[q]
    <2>1. /\ sample = read_sample("csv", Bytes("csv", source), read, MaxSample)
          /\ rows = Tail(RowsIn(sample)) /\ IsSeq(source.rows)
        BY <1>2
    <2> HIDE DEF rows, sample
    <2> QED
        BY <2>1, CsvSample
<1>4. DOMAIN header = DOMAIN source.cols
    BY <1>3 DEF HeaderOf
<1> HIDE DEF sample, rows, header
<1>5. DOMAIN columns = DOMAIN source.cols /\ columns = [i \in DOMAIN source.cols |-> columns[i]]
    BY <1>1, <1>4
<1>6. ASSUME NEW i \in DOMAIN source.cols, NEW r \in DOMAIN source.rows
      PROVE  FileTakes("csv", columns[i].type, source.rows[r].fields[i][2])
    <2> DEFINE v == source.rows[r].fields[i][2]
               vs == values(i)
    <2>1. columns[i].type = InferType(vs) /\ v # Failed
        BY <1>1, <1>2, <1>4, <1>6
    <2>2. DOMAIN vs = DOMAIN rows
        OBVIOUS
    <2>3. \A q \in DOMAIN vs : q \in DOMAIN source.rows /\ vs[q] = source.rows[q].fields[i][2]
        BY <1>3
    <2>4. \A q \in DOMAIN vs : "null" \in {Kind(v), Kind(vs[q])} \/ Kind(v) = Kind(vs[q])
        BY <1>6, <2>3 DEF SameKinds, Kind
    <2> HIDE DEF v, vs
    <2>5. \/ v.k = "null" \/ \E q \in DOMAIN vs : Kind(vs[q]) = Kind(v)
          \/ \A q \in DOMAIN vs : vs[q].k = "null"
        BY <2>4 DEF Kind
    <2>6. FileTakes("csv", InferType(vs), v)
        BY <2>1, <2>5, InferTakes
    <2> QED
        BY <2>1, <2>6 DEF v
<1>7. ASSUME read >= MaxSample, CutShort(Last(sample)) PROVE FALSE
    <2> DEFINE row == Last(sample).row
    <2>1. ~ Last(sample).end /\ LineBreaks(row) # {} /\ Max(LineBreaks(row)) < Len(row.fields)
        BY <1>7 DEF CutShort
    <2>2. row # HeaderOf(source)
        <3>1. LineBreaks(HeaderOf(source)) = {}
            BY DEF LineBreaks, HeaderOf, Null
        <3> QED
            BY <2>1, <3>1
    <2>3. PICK q \in DOMAIN source.rows : row = source.rows[q]
        BY <1>3, <2>1, <2>2
    <2> HIDE DEF row
    <2> DEFINE m == Len(source.cols)
    <2>4. LineBreaks(row) = {m}
        BY <1>3, <1>7, <2>1, <2>3
    <2>5. m \in Nat /\ Len(row.fields) = m
        <3>1. IsSeq(source.cols) /\ DOMAIN row.fields = DOMAIN source.cols
            BY <2>3, FileRows DEF Rectangular
        <3>2. IsSeq(row.fields)
            BY <2>3, RowAssumption, ReaderAssumption DEF SessionOK, IsSeq
        <3>3. /\ m \in Nat /\ DOMAIN source.cols = 1 .. m
              /\ Len(row.fields) \in Nat /\ DOMAIN row.fields = 1 .. Len(row.fields)
            BY <3>1, <3>2, SeqLen
        <3> HIDE DEF m
        <3> QED
            BY <3>1, <3>3
    <2>6. Max({m}) = m
        <3> HIDE DEF m
        <3>1. Max({m}) = CHOOSE x \in {m} : \A y \in {m} : x >= y
            BY DEF Max
        <3> QED
            BY <2>5, <3>1
    <2> HIDE DEF m
    <2> QED
        BY <2>1, <2>4, <2>5, <2>6
<1> QED
    BY <1>5, <1>6, <1>7 DEF sample

LEMMA Repeated ==
    ASSUME NEW A, NEW x \in Seq(A), x # <<>>, NEW m \in Nat \ {0}, NEW s, s = [r \in 1 .. m |-> x]
    PROVE  FlattenSeq(s) \in Seq(A) /\ FlattenSeq(s) # <<>>
<1> DEFINE front == [r \in 1 .. m - 1 |-> x]
           whole == Append(front, x)
<1>1. m - 1 \in Nat
    OBVIOUS
<1>2. front \in Seq(Seq(A)) /\ Len(front) = m - 1
    <2>1. [r \in 1 .. m - 1 |-> x] \in Seq(Seq(A))
        BY <1>1, IsASeq
    <2> QED
        BY <1>1, <2>1
<1>3. s = whole
    <2>1. front = [r \in 1 .. m - 1 |-> front[r]]
        OBVIOUS
    <2>2. IsSeq(front) /\ \A r \in 1 .. m - 1 : front[r] = x
        BY <1>2, SeqIn
    <2>3. s = [r \in 1 .. m |-> s[r]] /\ \A r \in 1 .. m : s[r] = x
        OBVIOUS
    <2>4. IsSeq(s) /\ Len(s) = m
        BY <2>3, AsSeq
    <2> HIDE DEF front
    <2>5. /\ IsSeq(whole) /\ Len(whole) = Len(front) + 1
          /\ \A i \in 1 .. Len(front) : whole[i] = front[i]
          /\ whole[Len(front) + 1] = x
        BY <2>2, AppendIs
    <2> HIDE DEF whole
    <2>6. Len(whole) = m
        BY <1>2, <2>5
    <2>7. ASSUME NEW i \in 1 .. m PROVE s[i] = whole[i]
        <3>1. i \in 1 .. m - 1 \/ i = (m - 1) + 1
            OBVIOUS
        <3> QED
            BY <1>2, <2>2, <2>3, <2>5, <3>1
    <2> QED
        BY <2>4, <2>5, <2>6, <2>7, SameSeq
<1> HIDE DEF front
<1>4. FlattenSeq(whole) = FlattenSeq(front) \o x
    BY <1>2, FlattenAppend
<1>5. FlattenSeq(front) \in Seq(A)
    BY <1>2, FlattenType
<1> DEFINE y == FlattenSeq(front)
<1> HIDE DEF y
<1>6. y \in Seq(A)
    BY <1>5 DEF y
<1>7. IsSeq(x) /\ IsSeq(y)
    BY <1>6, SeqIn
<1>8. Len(y \o x) = Len(y) + Len(x) /\ IsSeq(y \o x)
    BY <1>7, ConcatIs
<1>9. Len(y) \in Nat /\ Len(x) \in Nat /\ Len(x) # 0
    BY <1>7, SeqLen, EmptyWhenLen
<1>10. y \o x # <<>> /\ y \o x \in Seq(A)
    <2>1. Len(y \o x) # 0
        BY <1>8, <1>9
    <2>2. y \o x \in Seq(A)
        BY <1>6
    <2> QED
        BY <1>8, <2>1, <2>2, EmptyWhenLen
<1> QED
    BY <1>3, <1>4, <1>10 DEF y

\* What is inferred of the first rows has the names of the columns.
LEMMA InferredNames ==
    ASSUME SessionOK, provider \in {"s3", "uri"}, source.cols # <<>>, NEW rows, IsSeq(rows), rows # <<>>,
           \A r \in DOMAIN rows : r \in DOMAIN source.rows /\ rows[r] = source.rows[r],
           NEW columns, columns = InferJson(rows)
    PROVE  /\ IsSeq(columns) /\ columns # <<>>
           /\ \A k \in DOMAIN columns : \E i \in DOMAIN source.cols :
                /\ columns[k].name = source.cols[i].name
                /\ columns[k].type = InferType([r \in DOMAIN rows |-> Field(rows[r], source.cols[i].name)])
<1> DEFINE labels == [i \in DOMAIN source.cols |-> source.cols[i].name]
           A == Range(labels)
           parts == [r \in DOMAIN rows |-> [i \in DOMAIN rows[r].fields |-> rows[r].fields[i][1]]]
           names == FlattenSeq(parts)
           distinct == FirstPlaces(names)
           column(name) == [name |-> name, type |-> InferType([r \in DOMAIN rows |-> Field(rows[r], name)])]
           m == Len(rows)
<1>1. columns = [k \in DOMAIN distinct |-> column(names[distinct[k]])]
    BY DEF InferJson
<1>2. m \in Nat \ {0} /\ DOMAIN rows = 1 .. m
    BY SeqLen, EmptyWhenLen
<1>3. labels \in Seq(A) /\ labels # <<>>
    <2> DEFINE c == Len(source.cols)
    <2>1. IsSeq(source.cols)
        BY FileRows
    <2>2. c \in Nat /\ c # 0 /\ DOMAIN source.cols = 1 .. c
        BY <2>1, SeqLen, EmptyWhenLen
    <2>3. labels = [i \in 1 .. c |-> labels[i]]
        BY <2>2
    <2> HIDE DEF labels, c
    <2>4. IsSeq(labels) /\ Len(labels) = c
        BY <2>2, <2>3, AsSeq
    <2> QED
        BY <2>2, <2>4, EmptyWhenLen DEF IsSeq
<1>4. parts = [r \in 1 .. m |-> labels]
    <2>1. ASSUME NEW r \in DOMAIN rows PROVE [i \in DOMAIN rows[r].fields |-> rows[r].fields[i][1]] = labels
        <3>1. Fits(rows[r], source)
            BY FileRows
        <3> QED
            BY <3>1 DEF Fits
    <2> HIDE DEF labels
    <2> QED
        BY <1>2, <2>1
<1> HIDE DEF labels, parts, m, A
<1>5. names \in Seq(A) /\ names # <<>>
    BY <1>2, <1>3, <1>4, Repeated
<1> HIDE DEF names
<1>6. IsSeq(names)
    BY <1>5, SeqIn
<1>7. /\ IsSeq(distinct) /\ distinct # <<>>
      /\ \A k \in DOMAIN distinct : distinct[k] \in DOMAIN names
    BY <1>5, <1>6, FirstPlacesAre
<1> HIDE DEF distinct, column
<1>8. IsSeq(columns) /\ columns # <<>>
    <2> DEFINE d == Len(distinct)
    <2>1. d \in Nat /\ d # 0 /\ DOMAIN distinct = 1 .. d
        BY <1>7, SeqLen, EmptyWhenLen
    <2>2. columns = [k \in 1 .. d |-> columns[k]]
        BY <1>1, <2>1
    <2> HIDE DEF d
    <2>3. IsSeq(columns) /\ Len(columns) = d
        BY <2>1, <2>2, AsSeq
    <2> QED
        BY <2>1, <2>3, EmptyWhenLen
<1>9. ASSUME NEW k \in DOMAIN columns
      PROVE  \E i \in DOMAIN source.cols :
                /\ columns[k].name = source.cols[i].name
                /\ columns[k].type = InferType([r \in DOMAIN rows |-> Field(rows[r], source.cols[i].name)])
    <2> DEFINE name == names[distinct[k]]
    <2>1. k \in DOMAIN distinct
        BY <1>1
    <2>2. distinct[k] \in DOMAIN names
        BY <1>7, <2>1
    <2>3. name \in A
        BY <1>5, <2>2, ElementOfSeq, LenProperties
    <2>4. columns[k] = column(name)
        BY <1>1, <2>1
    <2> HIDE DEF name
    <2>5. PICK i \in DOMAIN source.cols : name = source.cols[i].name
        BY <2>3 DEF A, labels, Range
    <2> QED
        BY <2>4, <2>5 DEF column
<1> QED
    BY <1>8, <1>9

LEMMA InferredTakes ==
    ASSUME SessionOK, provider \in {"s3", "uri"}, source.cols # <<>>, NEW rows, IsSeq(rows), rows # <<>>,
           \A r \in DOMAIN rows : r \in DOMAIN source.rows /\ rows[r] = source.rows[r],
           NEW columns, columns = InferJson(rows), NEW format,
           \A i \in DOMAIN source.cols, r \in DOMAIN source.rows :
                \/ source.rows[r].fields[i][2].k = "null"
                \/ \E q \in DOMAIN rows : Kind(source.rows[q].fields[i][2]) = Kind(source.rows[r].fields[i][2])
    PROVE  /\ IsSeq(columns) /\ columns # <<>>
           /\ \A k \in DOMAIN columns, r \in DOMAIN source.rows :
                FileTakes(format, columns[k].type, Field(source.rows[r], columns[k].name))
<1>1. IsSeq(columns) /\ columns # <<>>
    BY InferredNames
<1>2. ASSUME NEW k \in DOMAIN columns, NEW r \in DOMAIN source.rows
      PROVE  FileTakes(format, columns[k].type, Field(source.rows[r], columns[k].name))
    <2>1. PICK i \in DOMAIN source.cols :
                /\ columns[k].name = source.cols[i].name
                /\ columns[k].type = InferType([q \in DOMAIN rows |-> Field(rows[q], source.cols[i].name)])
        BY InferredNames
    <2> DEFINE name == source.cols[i].name
               v == Field(source.rows[r], name)
               vs == [q \in DOMAIN rows |-> Field(rows[q], name)]
    <2>2. \A q \in DOMAIN source.rows : Field(source.rows[q], name) = source.rows[q].fields[i][2]
        <3> TAKE q \in DOMAIN source.rows
        <3>1. Fits(source.rows[q], source)
            BY FileRows
        <3>2. \A a, b \in DOMAIN source.cols : source.cols[a].name = source.cols[b].name => a = b
            BY FileRows DEF Rectangular
        <3> QED
            BY <3>1, <3>2, FieldAt
    <2>3. v # Failed
        BY <2>2, FileRows
    <2>4. v.k = "null" \/ \E q \in DOMAIN vs : Kind(vs[q]) = Kind(v)
        BY <2>2
    <2> HIDE DEF v, vs
    <2>5. FileTakes(format, InferType(vs), v)
        BY <2>3, <2>4, InferTakes
    <2> QED
        BY <2>1, <2>5 DEF v, vs
<1> QED
    BY <1>1, <1>2

LEMMA JsonlSample ==
    ASSUME NEW t, IsSeq(t.rows), t.rows # <<>>, MaxSample > 1, NEW read \in SampleLengths(Bytes("jsonl", t)),
           NEW sample, sample = read_sample("jsonl", Bytes("jsonl", t), read, MaxSample), NEW rows, rows = RowsIn(sample)
    PROVE  /\ sample # <<>> /\ Last(sample).end
           /\ IsSeq(rows) /\ rows # <<>>
           /\ \A r \in DOMAIN rows : r \in DOMAIN t.rows /\ rows[r] = t.rows[r]
           /\ \A q \in DOMAIN t.rows : q <= MaxSample \div 2 => q \in DOMAIN rows
<1> DEFINE bytes == Bytes("jsonl", t)
           n == Len(t.rows)
<1>1. /\ IsSeq(bytes) /\ n \in Nat \ {0} /\ DOMAIN t.rows = 1 .. n /\ Headers("jsonl") = 0
      /\ MaxSample \in Nat
    <2>1. IsSeq(bytes) /\ Headers("jsonl") = 0 /\ MaxSample \in Nat
        BY BytesSpell, FileAssumption DEF Headers
    <2>2. n \in Nat \ {0} /\ DOMAIN t.rows = 1 .. n
        BY SeqLen, EmptyWhenLen
    <2> QED
        BY <2>1, <2>2
<1>2. Len(bytes) = 2 * n
    <2>1. Len(bytes) = 2 * (0 + n)
        BY <1>1, BytesSpell
    <2> HIDE DEF bytes, n
    <2> QED
        BY <1>1, <2>1
<1>3. \A i \in 1 .. Len(bytes) : bytes[i].end = (i % 2 = 0)
    BY BytesEnds, Zenon
<1>4. PICK cut \in 0 .. Len(bytes) :
        /\ sample = SubSeq(bytes, 1, cut)
        /\ 1 <= Len(bytes) => 1 <= cut
        /\ MaxSample > 1 => cut = Len(bytes) \/ (cut % 2 = 0 /\ MaxSample - 1 <= cut)
    <2>1. IsSeq(bytes) /\ read \in SampleLengths(bytes) /\ sample = read_sample("jsonl", bytes, read, MaxSample)
        BY <1>1
    <2> HIDE DEF bytes
    <2>2. \E cut \in 0 .. Len(bytes) :
            /\ read_sample("jsonl", bytes, read, MaxSample) = SubSeq(bytes, 1, cut)
            /\ 1 <= Len(bytes) => 1 <= cut
            /\ MaxSample > 1 => cut = Len(bytes) \/ (cut % 2 = 0 /\ MaxSample - 1 <= cut)
        <3>1. IsSeq(bytes) /\ read \in SampleLengths(bytes)
            BY <2>1
        <3> QED
            BY <1>3, <3>1, SampleIs
    <2> QED
        BY <2>1, <2>2
<1> DEFINE m == (cut + 1) \div 2
<1>5. /\ cut \in Nat /\ cut >= 1 /\ cut <= 2 * n /\ cut % 2 = 0 /\ m \in Nat \ {0} /\ m <= n
      /\ cut = 2 * n \/ MaxSample - 1 <= cut
    <2> HIDE DEF bytes, n
    <2>1. cut \in Nat /\ cut >= 1 /\ cut <= 2 * n /\ (cut = 2 * n \/ (cut % 2 = 0 /\ MaxSample - 1 <= cut))
        BY <1>1, <1>2, <1>4
    <2> QED
        BY <1>1, <2>1
<1> HIDE DEF n
<1>6. IsSeq(sample) /\ Len(sample) = cut /\ \A i \in 1 .. cut : sample[i] = bytes[i]
    <2>0. 1 \in Nat \ {0} /\ cut \in Int /\ cut <= Len(bytes)
        BY <1>2, <1>5
    <2>1. IsSeq(bytes)
        BY <1>1
    <2> HIDE DEF bytes
    <2> DEFINE s == SubSeq(bytes, 1, cut)
    <2>2. /\ IsSeq(s) /\ Len(s) = IF 1 <= cut THEN cut - 1 + 1 ELSE 0
          /\ \A i \in 1 .. Len(s) : s[i] = bytes[1 + i - 1]
        BY <2>0, <2>1, SubSeqIs
    <2> HIDE DEF s
    <2>3. sample = s
        BY <1>4 DEF s
    <2>4. Len(s) = cut /\ \A i \in 1 .. cut : 1 + i - 1 = i
        BY <1>5, <2>2
    <2> QED
        BY <2>2, <2>3, <2>4
<1>7. sample # <<>> /\ Last(sample).end
    <2>1. sample # <<>>
        BY <1>5, <1>6, EmptyWhenLen
    <2>2. Last(sample) = bytes[cut] /\ cut \in 1 .. Len(bytes)
        BY <1>2, <1>5, <1>6 DEF Last
    <2> HIDE DEF bytes
    <2>3. bytes[cut].end = (cut % 2 = 0)
        BY <1>3, <2>2
    <2>4. bytes[cut].end
        BY <1>5, <2>3, Zenon
    <2> QED
        BY <2>1, <2>2, <2>4
<1>8. RowsFrom(rows, sample, t, 0)
    <2>1. \A i \in 1 .. Len(sample) : sample[i] = Bytes("jsonl", t)[2 * (Headers("jsonl") + 0) + i]
        <3> TAKE i \in 1 .. Len(sample)
        <3>1. i \in 1 .. cut /\ 2 * (0 + 0) + i = i
            BY <1>5, <1>6
        <3> QED
            BY <1>1, <1>6, <3>1
    <2>2. 0 + (Len(sample) + 1) \div 2 <= Len(t.rows)
        BY <1>1, <1>5, <1>6 DEF n
    <2>3. SpeltFrom(sample, "jsonl", t, 0)
        BY <2>1, <2>2 DEF SpeltFrom
    <2> QED
        BY <1>6, <2>3, RowsSpelt
<1> HIDE DEF bytes
<1>9. IsSeq(rows) /\ Len(rows) = m /\ \A i \in 1 .. m : rows[i] = t.rows[0 + i]
    BY <1>6, <1>8 DEF RowsFrom
<1>10. DOMAIN rows = 1 .. m /\ rows # <<>>
    BY <1>5, <1>9, SeqLen, EmptyWhenLen
<1>11. ASSUME NEW r \in DOMAIN rows PROVE r \in DOMAIN t.rows /\ rows[r] = t.rows[r]
    <2>1. r \in 1 .. m /\ r \in 1 .. n /\ 0 + r = r
        BY <1>1, <1>5, <1>10
    <2> QED
        BY <1>1, <1>9, <2>1
<1>12. ASSUME NEW q \in DOMAIN t.rows, q <= MaxSample \div 2 PROVE q \in DOMAIN rows
    <2>1. q \in Nat /\ 1 <= q /\ q <= n
        BY <1>1
    <2>2. q <= m
        BY <1>1, <1>5, <1>12, <2>1
    <2> HIDE DEF m
    <2> QED
        BY <1>5, <1>10, <2>1, <2>2
<1> QED
    BY <1>7, <1>9, <1>10, <1>11, <1>12

LEMMA JsonlSchema ==
    ASSUME SessionOK, provider \in {"s3", "uri"}, NEW path, FileFits("jsonl", path),
           NEW read \in SampleLengths(Bytes("jsonl", source)),
           NEW found, found = FileSchema("jsonl", source, path, read)
    PROVE  \E columns :
           /\ found = {columns} /\ IsSeq(columns) /\ columns # <<>>
           /\ \A k \in DOMAIN columns, r \in DOMAIN source.rows :
                FileTakes("jsonl", columns[k].type, Field(source.rows[r], columns[k].name))
<1> DEFINE sample == read_sample("jsonl", Bytes("jsonl", source), read, MaxSample)
           rows == RowsIn(sample)
           columns == InferJson(rows)
<1>1. /\ source.cols # <<>> /\ SameKinds(source) /\ MaxSample > 1
      /\ Suggested(source, MaxSample \div 2) /\ source.rows # <<>>
    BY DEF FileFits
<1>2. IsSeq(source.rows)
    BY FileRows
<1>3. /\ sample # <<>> /\ Last(sample).end
      /\ IsSeq(rows) /\ rows # <<>>
      /\ \A r \in DOMAIN rows : r \in DOMAIN source.rows /\ rows[r] = source.rows[r]
      /\ \A q \in DOMAIN source.rows : q <= MaxSample \div 2 => q \in DOMAIN rows
    <2> HIDE DEF rows, sample
    <2> QED
        BY <1>1, <1>2, JsonlSample DEF rows, sample
<1>4. found = {columns}
    <2>1. found = read_jsonl_schema(sample)
        BY DEF FileSchema
    <2> HIDE DEF sample
    <2> QED
        BY <1>3, <2>1 DEF read_jsonl_schema
<1> HIDE DEF rows
<1>5. ASSUME NEW i \in DOMAIN source.cols, NEW r \in DOMAIN source.rows
      PROVE  \/ source.rows[r].fields[i][2].k = "null"
             \/ \E q \in DOMAIN rows : Kind(source.rows[q].fields[i][2]) = Kind(source.rows[r].fields[i][2])
    <2> SUFFICES ASSUME source.rows[r].fields[i][2].k # "null"
                 PROVE  \E q \in DOMAIN rows : Kind(source.rows[q].fields[i][2]) = Kind(source.rows[r].fields[i][2])
        OBVIOUS
    <2>1. PICK q \in DOMAIN source.rows : q <= MaxSample \div 2 /\ source.rows[q].fields[i][2].k # "null"
        BY <1>1 DEF Suggested
    <2>2. Kind(source.rows[q].fields[i][2]) = Kind(source.rows[r].fields[i][2])
        BY <1>1, <2>1 DEF SameKinds, Kind
    <2> QED
        BY <1>3, <2>1, <2>2
<1> HIDE DEF columns
<1>6. /\ IsSeq(columns) /\ columns # <<>>
      /\ \A k \in DOMAIN columns, r \in DOMAIN source.rows :
            FileTakes("jsonl", columns[k].type, Field(source.rows[r], columns[k].name))
    BY <1>1, <1>3, <1>5, InferredTakes DEF columns
<1> QED
    BY <1>4, <1>6

LEMMA JsonSchema ==
    ASSUME SessionOK, provider \in {"s3", "uri"}, NEW path, FileFits("json", path), NEW read,
           NEW found, found = FileSchema("json", source, path, read)
    PROVE  \E columns :
           /\ found = {columns} /\ IsSeq(columns) /\ columns # <<>>
           /\ \A k \in DOMAIN columns, r \in DOMAIN source.rows :
                FileTakes("json", columns[k].type, Field(source.rows[r], columns[k].name))
<1> DEFINE columns == InferJson(source.rows)
<1>1. source.cols # <<>> /\ source.rows # <<>> /\ source.path = path /\ IsSeq(source.rows)
    BY FileRows DEF FileFits
<1>2. found = {columns}
    BY <1>1 DEF FileSchema, read_json_schema
<1> HIDE DEF columns
<1>3. /\ IsSeq(columns) /\ columns # <<>>
      /\ \A k \in DOMAIN columns, r \in DOMAIN source.rows :
            FileTakes("json", columns[k].type, Field(source.rows[r], columns[k].name))
    BY <1>1, InferredTakes DEF columns
<1> QED
    BY <1>2, <1>3

LEMMA AnnounceFileSound ==
    ASSUME StreamInv, Calm, Blameless, Sound, OfFile, pc = "schema", NEW keeps,
           AnnounceFile(SourceFormat, DataPath, keeps)
    PROVE  Sound'
<1> DEFINE format == SourceFormat
<1>1. SessionOK /\ provider \in {"s3", "uri"} /\ ~ request.binary
    BY Alive DEF OfFile
<1>2. format \in Formats /\ FileFits(format, DataPath)
    BY FileIsFit
<1>3. PICK read \in SampleLengths(Bytes(format, source)) :
        LET columns == FileSchema(format, source, DataPath, read)
        IN  IF columns = {} THEN Refuse
            ELSE /\ schema' = CHOOSE c \in columns : TRUE
                 /\ view' = IF keeps THEN source ELSE view
                 /\ pc' = "open" /\ outcome' = outcome
    BY DEF AnnounceFile
<1> DEFINE found == FileSchema(format, source, DataPath, read)
<1>4. ASSUME NEW columns, found = {columns}
      PROVE  schema' = columns /\ view' \in {view, source} /\ pc' = "open" /\ outcome' = outcome
    BY <1>3, <1>4
<1>5. SourceFormat' = SourceFormat
    BY DEF SourceFormat, UriFormat, UriQuery, Calm
<1>6. ASSUME FileSchemaRight(SourceFormat)', view' \in {view, source}, pc' = "open", outcome' = outcome PROVE Sound'
    <2>1. SchemaRight'
        BY <1>1, <1>6 DEF SchemaRight, Calm
    <2> QED
        BY <1>6, <2>1, AnnouncedSound
<1>7. IsSeq(source.cols) /\ source.cols # <<>>
    BY <1>1, <1>2, FileRows DEF FileFits
<1> HIDE DEF format
<1>8. CASE format = "parquet"
    <2>1. found = {source.cols}
        BY <1>8 DEF FileSchema
    <2>2. schema' = source.cols /\ view' \in {view, source} /\ pc' = "open" /\ outcome' = outcome
        BY <1>4, <2>1
    <2>3. ByPosition' /\ \A i \in DOMAIN schema' : schema'[i].type = source'.cols[i].type
        BY <1>7, <2>2 DEF ByPosition, Announces, Calm
    <2>4. FileSchemaRight(SourceFormat)'
        BY <1>5, <1>8, <2>3 DEF FileSchemaRight, format
    <2> QED
        BY <1>6, <2>2, <2>4
<1>9. CASE format = "csv"
    <2> DEFINE sample == read_sample("csv", Bytes("csv", source), read, MaxSample)
               columns == read_csv_schema(sample)
    <2>2. /\ SameKinds(source) /\ read \in SampleLengths(Bytes("csv", source))
          /\ Len(Bytes("csv", source)) >= MaxSample =>
               \A r \in DOMAIN source.rows : LineBreaks(source.rows[r]) \subseteq {Len(source.cols)}
        BY <1>2, <1>9 DEF FileFits
    <2>3. /\ ~ (read >= MaxSample /\ CutShort(Last(sample)))
          /\ DOMAIN columns = DOMAIN source.cols /\ columns = [i \in DOMAIN source.cols |-> columns[i]]
          /\ \A i \in DOMAIN columns, r \in DOMAIN source.rows :
                FileTakes("csv", columns[i].type, source.rows[r].fields[i][2])
        <3> HIDE DEF columns
        <3> QED
            BY <1>1, <2>2, CsvSchema DEF columns
    <2>1. found = {columns}
        BY <1>9, <2>3 DEF FileSchema
    <2> HIDE DEF columns
    <2>4. schema' = columns /\ view' \in {view, source} /\ pc' = "open" /\ outcome' = outcome
        BY <1>4, <2>1
    <2>5. ByPosition'
        BY <1>1, <1>7, <2>3, <2>4, TableByPosition DEF Calm
    <2>6. \A i \in DOMAIN schema', r \in DOMAIN source'.rows :
            FileTakes("csv", schema'[i].type, source'.rows[r].fields[i][2])
        BY <2>3, <2>4 DEF Calm
    <2>7. FileSchemaRight(SourceFormat)'
        BY <1>5, <1>9, <2>5, <2>6 DEF FileSchemaRight, format
    <2> QED
        BY <1>6, <2>4, <2>7
<1>10. CASE format \in {"jsonl", "json"}
    <2>1. PICK columns :
           /\ found = {columns} /\ IsSeq(columns) /\ columns # <<>>
           /\ \A k \in DOMAIN columns, r \in DOMAIN source.rows :
                FileTakes(format, columns[k].type, Field(source.rows[r], columns[k].name))
        <3>1. CASE format = "jsonl"
            <4>1. FileFits("jsonl", DataPath) /\ read \in SampleLengths(Bytes("jsonl", source))
                  /\ found = FileSchema("jsonl", source, DataPath, read)
                BY <1>2, <3>1
            <4> HIDE DEF found
            <4> QED
                BY <1>1, <3>1, <4>1, JsonlSchema
        <3>2. CASE format = "json"
            <4>1. FileFits("json", DataPath) /\ found = FileSchema("json", source, DataPath, read)
                BY <1>2, <3>2
            <4> HIDE DEF found
            <4> QED
                BY <1>1, <3>2, <4>1, JsonSchema
        <3> QED
            BY <1>10, <3>1, <3>2
    <2>2. schema' = columns /\ view' \in {view, source} /\ pc' = "open" /\ outcome' = outcome
        BY <1>4, <2>1
    <2>3. Announces'
        BY <2>1, <2>2 DEF Announces
    <2>4. \A i \in DOMAIN schema', r \in DOMAIN source'.rows :
            FileTakes(format, schema'[i].type, Field(source'.rows[r], schema'[i].name))
        BY <2>1, <2>2 DEF Calm
    <2>5. FileSchemaRight(SourceFormat)'
        <3>1. format \notin {"parquet", "csv"} /\ SourceFormat' = format
            BY <1>5, <1>10 DEF format
        <3> QED
            BY <2>3, <2>4, <3>1 DEF FileSchemaRight
    <2> QED
        BY <1>6, <2>2, <2>5
<1> QED
    BY <1>2, <1>8, <1>9, <1>10 DEF Formats

LEMMA S3Sound ==
    ASSUME StreamInv, Calm, Blameless, Sound, S3Reader, provider = "s3", ~ request.binary PROVE Sound'
<1>1. OfFile /\ DataPath = {} /\ SourceFormats = FormatOf(request.extension, request.hint)
    BY DEF OfFile, DataPath, SourceFormats
<1>2. SourceFormats # {} /\ FileFits(SourceFormat, DataPath)
    BY <1>1, FileIsFit
<1>3. SourceFormat = CHOOSE f \in SourceFormats : TRUE
    BY DEF SourceFormat, SourceFormats
<1>4. CASE pc = "schema"
    <2>1. SourceFormat = "json" => read_json_checked
        BY <1>2 DEF FileFits, read_json_checked
    <2>2. AnnounceFile(SourceFormat, {}, SourceFormat = "json")
        BY <1>1, <1>2, <1>3, <1>4, <2>1 DEF S3Reader, ReadFile
    <2> QED
        BY <1>1, <1>4, <2>2, AnnounceFileSound
<1>5. CASE pc = "open"
    <2>1. Begin({}) \/ (pc' = "read" /\ UNCHANGED <<schema, view, outcome>>)
        BY <1>5 DEF S3Reader, ReadFile, progressVars
    <2>2. CASE Begin({})
        BY <1>5, <2>2, BeginSound
    <2>3. CASE pc' = "read" /\ UNCHANGED <<schema, view, outcome>>
        BY <1>5, <2>3, StaysSound, Alive DEF Sound
    <2> QED
        BY <2>1, <2>2, <2>3
<1>6. CASE pc = "read"
    <2>1. ReadFile(SourceFormat, {})
        BY <1>1, <1>3, <1>6 DEF S3Reader
    <2>2. ReadFormat = SourceFormat
        BY <1>1, <1>6, FileIsRead
    <2> QED
        BY <1>1, <1>6, <2>1, <2>2, ReadFileSound
<1> QED
    BY <1>4, <1>5, <1>6 DEF S3Reader, ReadFile

LEMMA UriSound ==
    ASSUME StreamInv, Calm, Blameless, Sound, UriReader, provider = "uri", ~ request.binary PROVE Sound'
<1>1. OfFile /\ DataPath = UriQuery.data_path /\ SourceFormats = UriFormat(source)
    BY DEF OfFile, DataPath, SourceFormats
<1>2. SourceFormats # {} /\ FileFits(SourceFormat, DataPath)
    BY <1>1, FileIsFit
<1>3. SourceFormat = CHOOSE f \in SourceFormats : TRUE
    BY DEF SourceFormat, SourceFormats
<1>4. CASE pc = "schema"
    <2>1. UriRequestInput(request) # {} /\ BelowBase(UriQuery.path)
        <3>1. /\ \A path \in request.path : BelowBase(path)
              /\ request.shape = "object" /\ request.path # {} /\ request.method \subseteq {"GET"}
            BY DEF Blameless, RequestFits
        <3>2. request.method \in {{}, {"GET"}}
            BY <3>1
        <3> DEFINE query == [path |-> CHOOSE p \in request.path : TRUE,
                             data_path |-> request.data_path, format |-> request.format]
        <3>3. UriRequestInput(request) = {query}
            BY <3>1, <3>2 DEF UriRequestInput
        <3>4. query.path \in request.path
            BY <3>1
        <3> HIDE DEF query
        <3>5. UriQuery = query
            BY <3>3 DEF UriQuery
        <3> QED
            BY <3>1, <3>3, <3>4, <3>5
    <2>2. Len(Bytes(SourceFormat, source)) <= MaxBytes
        BY <1>2 DEF FileFits
    <2>3. AnnounceFile(SourceFormat, UriQuery.data_path, TRUE)
        BY <1>1, <1>2, <1>3, <1>4, <2>1, <2>2 DEF UriReader, fetch_response
    <2> QED
        BY <1>1, <1>4, <2>3, AnnounceFileSound
<1>5. CASE pc = "open"
    <2>1. pc' = "read" /\ UNCHANGED <<schema, view, outcome>>
        BY <1>5 DEF UriReader, progressVars
    <2> QED
        BY <1>5, <2>1, StaysSound, Alive DEF Sound
<1>6. CASE pc = "read"
    <2>1. ReadFormat = SourceFormat
        BY <1>1, <1>6, FileIsRead
    <2>2. ReadFile(ReadFormat, UriQuery.data_path)
        BY <1>6 DEF UriReader, ReadFormat
    <2> QED
        BY <1>1, <1>6, <2>1, <2>2, ReadFileSound
<1> QED
    BY <1>4, <1>5, <1>6 DEF UriReader

(***************************************************************************)
(* Errors have a reason, whatever the readers and the world do.            *)
(***************************************************************************)
LEMMA ReaderSound ==
    ASSUME StreamInv, Calm, Blameless, Sound, Reader, faults' = 0 PROVE Sound'
<1> QED
    BY PgSound, SqliteSound, Neo4jSound, EsSound, MilvusSound, S3Sound, UriSound, BinarySound DEF Reader

LEMMA FitsStay ==
    ASSUME UNCHANGED <<provider, request, source>>
    PROVE  (RequestFits' <=> RequestFits) /\ (SourceFits' <=> SourceFits)
<1>1. RequestFits' <=> RequestFits
    BY DEF RequestFits
<1>2. UriQuery' = UriQuery /\ MilvusQuery' = MilvusQuery
    BY DEF UriQuery, MilvusQuery
<1>3. UriFormat(source)' = UriFormat(source)
    BY <1>2 DEF UriFormat
<1>4. FormatOf(request.extension, request.hint)' = FormatOf(request.extension, request.hint)
    OBVIOUS
<1>5. \A f, path : FileFits(f, path)' <=> FileFits(f, path)
    BY DEF FileFits
<1>6. SourceFits' <=> SourceFits
    BY <1>2, <1>3, <1>4, <1>5 DEF SourceFits
<1> QED
    BY <1>1, <1>6

LEMMA SoundStarts == ReadersInit => SoundInv
<1> QED
    BY DEF ReadersInit, SessionInit, SoundInv, Sound

LEMMA SoundSteps ==
    ASSUME StreamInv, SoundInv, [ReadersNext]_readerVars PROVE SoundInv'
<1> SUFFICES ASSUME Blameless' PROVE Sound'
    BY DEF SoundInv
<1>1. changes' = 0 /\ faults' = 0 /\ changes \in Nat /\ faults \in Nat
    BY ReaderAssumption DEF Blameless, StreamInv, CellsInv, TypeInv, ControlInv, SessionOK
<1>2. ASSUME UNCHANGED <<provider, request, source>>, changes = 0, faults = 0 PROVE Blameless /\ Sound
    BY <1>2, FitsStay DEF Blameless, SoundInv
<1>3. CASE Reader
    <2>0. ~ Writes
        BY DEF Blameless, RequestFits, Writes
    <2>1. Calm
        BY <1>3, <2>0, Unchanging DEF Calm, StreamInv
    <2>2. changes' = changes /\ faults' \in {faults, faults + 1}
        BY <1>3, <2>0, PgMoves, SqliteMoves, Neo4jMoves, EsReaderMoves, MilvusMoves, S3Moves, UriMoves, BinaryMoves
        DEF Reader, Moves, EsMoves, StreamInv, CellsInv, TypeInv, ControlInv, FormatKnown
    <2>3. changes = 0 /\ faults = 0
        BY <1>1, <2>2
    <2>4. Blameless /\ Sound
        BY <1>2, <2>1, <2>3 DEF Calm
    <2> QED
        BY <1>1, <1>3, <2>1, <2>4, ReaderSound
<1>4. CASE Change
    BY <1>1, <1>4 DEF Change
<1>5. CASE SourceFails \/ ClientDrops
    BY <1>1, <1>5 DEF SourceFails, ClientDrops
<1>6. CASE PitExpires
    <2>1. /\ pc = "done" \/ faults' = faults + 1
          /\ UNCHANGED <<provider, request, source, pc, schema, view, outcome, torn, changes>>
        BY <1>6 DEF PitExpires, progressVars
    <2>2. pc = "done" /\ faults' = faults
        BY <1>1, <1>6, <2>1 DEF PitExpires
    <2>3. Sound
        BY <1>1, <1>2, <2>1, <2>2
    <2> QED
        BY <2>1, <2>2, <2>3 DEF Sound
<1>7. CASE UNCHANGED readerVars
    <2>1. UNCHANGED <<provider, request, source, pc, schema, view, outcome, held, torn, changes, faults>>
        BY <1>7 DEF readerVars
    <2>2. Sound
        BY <1>1, <1>2, <2>1
    <2>3. SchemaRight' <=> SchemaRight
        BY <2>1, SchemaStays
    <2> QED
        BY <2>1, <2>2, <2>3 DEF Sound
<1>8. CASE Stalls
    <2>1. pc' = "stuck" /\ UNCHANGED <<provider, request, source, view, outcome, torn, changes, faults>>
        BY <1>8 DEF Stalls, worldVars, progressVars
    <2>2. Sound
        BY <1>1, <1>2, <2>1
    <2> QED
        BY <2>1, <2>2 DEF Sound
<1> QED
    BY <1>3, <1>4, <1>5, <1>6, <1>7, <1>8 DEF ReadersNext, World

\* Whatever the tables, the requests, the size of a batch and of a sample, a
\* stream ends with an error only if a call failed, the source changed, the
\* request makes no sense, or the source holds what its columns do not take:
\* the schema that each connector announces and the arrays that it builds
\* never disagree, and no decoder stumbles over where a read or a sample was
\* cut.
THEOREM ErrorsAreFounded == ReadersSpec => []ErrorsHaveReason
<1>1. ReadersInit => StreamInv /\ SoundInv
    BY StreamStarts, SoundStarts
<1>2. StreamInv /\ SoundInv /\ [ReadersNext]_readerVars => StreamInv' /\ SoundInv'
    BY StreamSteps, SoundSteps
<1>3. StreamInv /\ SoundInv => ErrorsHaveReason
    <2> SUFFICES ASSUME StreamInv, SoundInv, outcome = "error", changes = 0, faults = 0, RequestFits, SourceFits
                 PROVE  FALSE
        <3>1. StreamInv => changes \in Nat /\ faults \in Nat
            BY ReaderAssumption DEF StreamInv, CellsInv, TypeInv, ControlInv, SessionOK
        <3> QED
            BY <3>1 DEF ErrorsHaveReason
    <2> QED
        BY DEF SoundInv, Blameless, Sound
<1> QED
    BY <1>1, <1>2, <1>3, PTL DEF ReadersSpec
=============================================================================
