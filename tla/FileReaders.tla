---------------------------- MODULE FileReaders ----------------------------
(***************************************************************************)
(* The readers of files: the S3 and URI connectors with the format readers *)
(* that they share.  The URI connector fetches a file once, when it infers *)
(* the schema, and so does the S3 connector for JSON; any other S3 object  *)
(* is read again, range by range, for the stream.                          *)
(***************************************************************************)
EXTENDS ReaderSession

CONSTANTS
    MaxChunk,       \* bound: pieces that one read of a file returns
    MaxSample,      \* MAX_SCHEMA_SAMPLE, in pieces
    MaxBytes        \* MAX_JSON_BYTES and MAX_RESPONSE_BYTES, in pieces

\* The columns of a file are those of Parquet, which have types of Arrow.
ASSUME FileAssumption ==
    /\ MaxChunk \in Nat \ {0}
    /\ MaxSample \in Nat \ {0}
    /\ MaxBytes \in Nat \ {0}
    /\ \A p \in DOMAIN Versions \cap {"s3", "uri"} : \A t \in Versions[p] :
         \A i \in DOMAIN t.cols : t.cols[i].type \in ArrowTypes

(***************************************************************************)
(* The schema of a file, for a sample of any length that the reads of it   *)
(* may come to; {} is an error.  A line of JSON that is not complete, a    *)
(* row of CSV that is cut short, and a file without rows have no schema.   *)
(* Rows of JSON are where data_path says, or nowhere.                      *)
(***************************************************************************)
SampleLengths(bytes) ==
    IF Len(bytes) < MaxSample THEN {Len(bytes)}
    ELSE {n \in MaxSample .. Len(bytes) : n < MaxSample + MaxChunk}

read_jsonl_schema(bytes) ==
    IF bytes = <<>> \/ ~ Last(bytes).end THEN {} ELSE {InferJson(rows) : rows \in {RowsIn(bytes)}}

read_json_schema(table, data_path) ==
    IF table.path # data_path \/ table.rows = <<>> THEN {} ELSE {InferJson(table.rows)}

FileSchema(format, table, data_path, read) ==
    LET sample == read_sample(format, Bytes(format, table), read, MaxSample)
    IN  CASE format = "csv" ->
                IF read >= MaxSample /\ CutShort(Last(sample)) THEN {} ELSE {read_csv_schema(sample)}
          [] format = "jsonl" -> read_jsonl_schema(sample)
          [] format = "json" -> read_json_schema(table, data_path)
          [] format = "parquet" -> {table.cols}

\* The schema is announced; a reader that keeps what it fetched has its
\* view from now on.
AnnounceFile(format, data_path, keeps) ==
    \E read \in SampleLengths(Bytes(format, source)) :
      LET columns == FileSchema(format, source, data_path, read)
      IN  IF columns = {} THEN Refuse
          ELSE /\ schema' = CHOOSE c \in columns : TRUE
               /\ view' = IF keeps THEN source ELSE view
               /\ decoder' = [decoder EXCEPT !.skip = (format = "csv")]
               /\ pc' = "open"
               /\ UNCHANGED <<worldVars, pos, chunk, sent, outcome, held>>

(***************************************************************************)
(* The decoder of arrow-csv and arrow-json, external: it takes pieces      *)
(* until it has a batch of rows, and none when it has one.  The header of  *)
(* a CSV file is a row that it skips.                                      *)
(***************************************************************************)
Decode(d, bytes) ==
    LET room == IF d.skip THEN 1 ELSE BatchSize - Len(d.rows)
        consumed == Min({Len(bytes), 2 * room - Len(d.partial)})
        read == d.partial \o SubSeq(bytes, 1, consumed)
        complete == SubSeq(read, 1, 2 * (Len(read) \div 2))
    IN  [consumed |-> consumed,
         sound |-> \A i \in DOMAIN read : read[i].end = (i % 2 = 0),
         decoder |-> [skip |-> d.skip /\ complete = <<>>,
                      rows |-> IF d.skip THEN d.rows ELSE d.rows \o RowsIn(complete),
                      partial |-> SubSeq(read, Len(complete) + 1, Len(read))]]

\* The end of the input completes a last line of CSV; for JSON it may not
\* be in the middle of one.
DecodeEnd(d, format) ==
    [sound |-> d.partial = <<>> \/ format = "csv",
     decoder |-> [d EXCEPT !.rows = IF d.skip THEN @ ELSE @ \o RowsIn(d.partial), !.partial = <<>>]]

\* A batch of CSV is by position, one of JSON by name.
FileArrays(format, rows) ==
    LET ArrayOf(type, values) == FileArrayOf(format, type, values)
    IN  IF format # "csv" THEN NamedBatch(ArrayOf, rows)
        ELSE IF \E r \in DOMAIN rows : Len(rows[r].fields) # Len(schema) THEN <<>>
        ELSE [i \in DOMAIN schema |->
                ArrayOf(schema[i].type, [r \in DOMAIN rows |-> rows[r].fields[i][2]])]

(***************************************************************************)
(* decode_stream.  The length of the file is known when the stream begins; *)
(* every read of a live object sees the object as it is then.              *)
(***************************************************************************)
NextBytes(format) ==
    LET length == Len(Bytes(format, view))
        bytes == Bytes(format, Reading)
    IN  /\ pos < length
        /\ \E n \in 1 .. Min({MaxChunk, length - pos}) :
             IF pos + n > Len(bytes) THEN Stop("error") /\ UNCHANGED <<pos, chunk>>
             ELSE /\ chunk' = SubSeq(bytes, pos + 1, pos + n)
                  /\ pos' = pos + n
                  /\ GoOn

Flush(format, d, Go) ==
    /\ Yield(FileArrays(format, d.rows), d.rows, Go)
    /\ decoder' = [d EXCEPT !.rows = <<>>]

\* What was read goes to the decoder until all of it is taken; a decoder that
\* takes nothing is flushed.
DecodeChunkTruncating(format) ==
    LET d == Decode(decoder, chunk)
    IN  IF ~ d.sound THEN Stop("error") /\ UNCHANGED <<chunk, decoder, sent>>
        ELSE IF d.consumed = 0 THEN Flush(format, decoder, GoOn) /\ chunk' = <<>>
        ELSE decoder' = d.decoder /\ chunk' = SubSeq(chunk, d.consumed + 1, Len(chunk))
             /\ GoOn /\ UNCHANGED sent
DecodeChunkSpinning(format) ==
    LET d == Decode(decoder, chunk)
    IN  IF ~ d.sound THEN Stop("error") /\ UNCHANGED <<chunk, decoder, sent>>
        ELSE decoder' = d.decoder /\ chunk' = SubSeq(chunk, d.consumed + 1, Len(chunk))
             /\ GoOn /\ UNCHANGED sent
DecodeChunk(format) ==
    LET d == Decode(decoder, chunk)
    IN  IF ~ d.sound THEN Stop("error") /\ UNCHANGED <<chunk, decoder, sent>>
        ELSE IF d.consumed # 0
        THEN /\ decoder' = d.decoder
             /\ chunk' = SubSeq(chunk, d.consumed + 1, Len(chunk))
             /\ GoOn /\ UNCHANGED sent
        ELSE IF decoder.rows # <<>> THEN Flush(format, decoder, GoOn) /\ UNCHANGED chunk
        ELSE chunk' = <<>> /\ GoOn /\ UNCHANGED <<decoder, sent>>

decode_stream(format) ==
    \/ chunk = <<>> /\ NextBytes(format) /\ UNCHANGED <<decoder, sent>>
    \/ chunk # <<>> /\ DecodeChunk(format) /\ UNCHANGED pos
    \/ /\ chunk = <<>> /\ pos = Len(Bytes(format, view))
       /\ LET d == DecodeEnd(decoder, format)
          IN  IF ~ d.sound THEN Stop("error") /\ UNCHANGED <<decoder, sent>>
              ELSE IF d.decoder.rows = <<>> THEN Complete /\ decoder' = d.decoder /\ UNCHANGED sent
              ELSE Flush(format, d.decoder, Complete)
       /\ UNCHANGED <<pos, chunk>>

\* Slices of the rows of a JSON document, each of them decoded by itself.
NextSlice(rows) == SubSeq(rows, pos + 1, Min({pos + BatchSize, Len(rows)}))

read_json_batches(data_path) ==
    LET rows == NextSlice(view.rows)
    IN  /\ pos' = pos + Len(rows)
        /\ IF view.path # data_path THEN Stop("error") /\ UNCHANGED sent
           ELSE IF rows = <<>> THEN Complete /\ UNCHANGED sent
           ELSE Yield(FileArrays("json", rows), rows, GoOn)
        /\ UNCHANGED <<chunk, decoder>>

\* The columns of the file itself, as its footer said when the stream
\* began.  The pages of an object that was replaced since are not where the
\* footer says, which the reader notices or not: torn, it may give anything.
\* The encoder of the Flight stream compares the types with the announced
\* ones.
read_parquet_batches ==
    LET rows == NextSlice(view.rows)
        arrays == [i \in DOMAIN view.cols |->
                     [type |-> view.cols[i].type,
                      cells |-> [r \in DOMAIN rows |-> rows[r].fields[i][2]]]]
    IN  /\ pos' = pos + Len(rows)
        /\ IF rows = <<>> THEN Complete /\ UNCHANGED sent
           ELSE \/ Reading # view /\ Stop("error") /\ UNCHANGED sent
                \/ Yield(arrays, rows, GoOn)
        /\ UNCHANGED <<chunk, decoder>>

ReadFile(format, data_path) ==
    /\ pc = "read"
    /\ CASE format \in {"csv", "jsonl"} -> decode_stream(format)
         [] format = "json" -> read_json_batches(data_path)
         [] format = "parquet" -> read_parquet_batches
    /\ UNCHANGED <<worldVars, schema, view>>

(***************************************************************************)
(* read_binary: the pieces of the file as they come, each a batch of one   *)
(* value of the only column.                                               *)
(***************************************************************************)
OpenBinary ==
    /\ pc = "schema"
    /\ schema' = <<[name |-> "data", type |-> "Binary"]>>
    /\ view' = source
    /\ pc' = "read"
    /\ UNCHANGED <<worldVars, pos, chunk, decoder, sent, outcome, held>>

ReadBinary(format) ==
    /\ pc = "read"
    /\ \/ chunk = <<>> /\ NextBytes(format) /\ UNCHANGED sent
       \/ /\ chunk # <<>>
          /\ sent' = Append(sent, [cells |-> <<chunk>>, rows |-> chunk])
          /\ chunk' = <<>>
          /\ GoOn /\ UNCHANGED pos
       \/ /\ chunk = <<>> /\ pos = Len(Bytes(format, view))
          /\ Complete
          /\ UNCHANGED <<pos, chunk, sent>>
    /\ UNCHANGED <<worldVars, schema, view, decoder>>

(***************************************************************************)
(* S3.  The object of JSON that the schema was inferred from is kept and   *)
(* used for the stream; it has to fit MAX_JSON_BYTES.                      *)
(***************************************************************************)
read_json_checked == Len(Bytes("json", source)) <= MaxBytes

S3Reader ==
    LET formats == FormatOf(request.extension, request.hint)
        format == CHOOSE f \in formats : TRUE
    IN  \/ /\ pc = "schema"
           /\ IF formats = {} \/ (format = "json" /\ ~ read_json_checked) THEN Refuse
              ELSE AnnounceFile(format, {}, format = "json")
        \/ /\ pc = "open"
           /\ IF format # "json" THEN Begin({})
              ELSE pc' = "read" /\ UNCHANGED <<worldVars, progressVars, outcome, held>>
        \/ ReadFile(format, {})

S3Binary == OpenBinary \/ ReadBinary("csv")

(***************************************************************************)
(* URI.  The format of the answer: from the query, or else its             *)
(* Content-Type, or else the extension, all the model keeps of the path.   *)
(***************************************************************************)
UriFormat(table) ==
    LET typed == from_content_type(table.content_type)
    IN  IF UriQuery.format # {} \/ typed = {} THEN FormatOf(UriQuery.path, UriQuery.format) ELSE typed

\* UriClient::request: a path may not leave the base URI; ".." stands for
\* one that does, whatever the way it is spelt (Url::join is external).
BelowBase(path) == path # ".."

\* fetch_response: a GET below the base URI, of an answer that is not too
\* large and of a format that is known.
fetch_response(Use(_)) ==
    LET formats == UriFormat(source)
        format == CHOOSE f \in formats : TRUE
    IN  IF /\ UriRequestInput(request) # {} /\ BelowBase(UriQuery.path)
           /\ formats # {} /\ Len(Bytes(format, source)) <= MaxBytes
        THEN Use(format) ELSE Refuse

UriReader ==
    LET announce(format) == AnnounceFile(format, UriQuery.data_path, TRUE)
    IN  \/ pc = "schema" /\ fetch_response(announce)
        \/ /\ pc = "open"
           /\ pc' = "read"
           /\ UNCHANGED <<worldVars, progressVars, outcome, held>>
        \/ pc = "read" /\ ReadFile(CHOOSE f \in UriFormat(view) : TRUE, UriQuery.data_path)

UriBinary ==
    \/ pc = "schema" /\ IF \A p \in request.path : BelowBase(p) THEN OpenBinary ELSE Refuse
    \/ ReadBinary("csv")
=============================================================================
