--------------------------- MODULE ReaderSession ---------------------------
(***************************************************************************)
(* One do_get of a connector's reader: DataReader::schema, then            *)
(* read_tabular or read_binary, whose stream the client pulls at its own   *)
(* pace while others go on changing the data source.  This module has the  *)
(* state that all readers share and what the world may do to it; the       *)
(* readers are in TableReaders and FileReaders.                            *)
(*                                                                         *)
(* A data source is a table: columns with their native types, and rows.    *)
(* For a file, the table is what its bytes spell.  What a client may find  *)
(* in a source, and what others may turn it into, is given by Versions.    *)
(***************************************************************************)
EXTENDS FileFormats, Queries

CONSTANTS
    Versions,       \* provider -> the tables its source may hold
    Requests,       \* provider -> the requests that are made of it
    BatchSize,      \* QueryOptions::batch_size
    MaxChanges,     \* bound: how often the source changes under the reader
    MaxFaults       \* bound: calls to the source that fail

VARIABLES
    provider,       \* the connector that serves the request
    request,        \* what the client asks for
    source,         \* the table as it is now
    pc,             \* what the reader does next
    schema,         \* the announced columns, with Arrow types
    view,           \* the table as the reader has fixed it, where it does
    pos,            \* rows or bytes taken from the source so far
    chunk,          \* rows, or bytes, not yet in a batch
    decoder,        \* the state of the CSV or JSON decoder
    sent,           \* the batches that the client got
    outcome,        \* how the stream ended
    held,           \* what the reader holds of the source's resources
    torn,           \* the source changed where the reader had no fixed view
    changes,        \* changes of the source since the schema was announced
    faults          \* failed calls so far

readerVars == <<provider, request, source, pc, schema, view, pos, chunk, decoder, sent,
                outcome, held, torn, changes, faults>>

(***************************************************************************)
(* A result set of SQL and a file have a value in each row for each        *)
(* column, at the place of the column; a field that a JSON object lacks is *)
(* a null.  Columns are told apart by their names, so that a result with   *)
(* two columns of one name is left out.                                    *)
(***************************************************************************)
Rectangular(table) ==
    /\ \A i, j \in DOMAIN table.cols : table.cols[i].name = table.cols[j].name => i = j
    /\ \A r \in DOMAIN table.rows :
         /\ DOMAIN table.rows[r].fields = DOMAIN table.cols
         /\ \A i \in DOMAIN table.cols : table.rows[r].fields[i][1] = table.cols[i].name

\* No table at all, which is not the same as an empty one.
NoTable == [cols |-> <<>>, rows |-> <<>>, none |-> TRUE]

\* Hits differ in their place in the shard, and values can be compared.
Sortable(table) ==
    /\ \A r, q \in DOMAIN table.rows : table.rows[r].id = table.rows[q].id => r = q
    /\ \A r \in DOMAIN table.rows :
         /\ table.rows[r].id \in Int
         /\ \A i \in DOMAIN table.rows[r].fields : table.rows[r].fields[i][2].n \in Int

IsOption(S) == \A a, b \in S : a = b

\* Tables are sequences of columns and of rows.  The size of a query is an
\* Option<u64>, the limit and the offset of Milvus are Option<i64>; offsets
\* below zero, which Milvus refuses, are left out.
ASSUME ReaderAssumption ==
    /\ BatchSize \in Nat \ {0}
    /\ MaxChanges \in Nat
    /\ MaxFaults \in Nat
    /\ DOMAIN Versions = DOMAIN Requests
    /\ \A p \in DOMAIN Versions : \A t \in Versions[p] :
         /\ t.cols \in Seq(Range(t.cols)) /\ t.rows \in Seq(Range(t.rows))
         /\ t # NoTable
         /\ p \in {"postgres", "sqlite", "s3", "uri"} => Rectangular(t)
         /\ p = "elasticsearch" => Sortable(t)
    /\ \A p \in DOMAIN Requests : \A r \in Requests[p] :
         /\ p = "elasticsearch" => /\ r.size \subseteq Nat /\ IsOption(r.size)
                                   /\ \A keys \in r.sort : keys \in Seq(Range(keys))
         /\ p = "milvus" => /\ r.limit \subseteq Int /\ IsOption(r.limit) /\ r.offset \subseteq Nat
                            /\ \A list \in r.output_fields : list \in Seq(Range(list))

\* The fields of a row are in an order, and a value has a number.  Failed is
\* no value, but the mark of a cell that cannot be built.
ASSUME RowAssumption ==
    \A p \in DOMAIN Versions : \A t \in Versions[p] : \A r \in DOMAIN t.rows :
        /\ t.rows[r].fields \in Seq(Range(t.rows[r].fields))
        /\ \A i \in DOMAIN t.rows[r].fields :
             t.rows[r].fields[i][2] # Failed /\ t.rows[r].fields[i][2].n \in Int

SessionInit ==
    /\ provider \in DOMAIN Requests
    /\ request \in Requests[provider]
    /\ source \in Versions[provider]
    /\ pc = "schema"
    /\ schema = <<>>
    /\ view = NoTable
    /\ pos = 0
    /\ chunk = <<>>
    /\ decoder = [skip |-> FALSE, rows |-> <<>>, partial |-> <<>>]
    /\ sent = <<>>
    /\ outcome = "none"
    /\ held = {}
    /\ torn = FALSE
    /\ changes = 0
    /\ faults = 0

\* Everything but the source and the progress of the reader.
worldVars == <<provider, request, source, torn, changes, faults>>
progressVars == <<schema, view, pos, chunk, decoder, sent>>

\* What the parser made of the query; it is refused before this matters.
EsQuery == CHOOSE q \in EsRequestInput(request) : TRUE
MilvusQuery == CHOOSE q \in MilvusRequestInput(request) : TRUE
UriQuery == CHOOSE q \in UriRequestInput(request) : TRUE

(***************************************************************************)
(* The readers that see each change as it happens: a cursor of Neo4j reads *)
(* what is committed, a page of Milvus and a range of an S3 object are     *)
(* requests of their own.  A JSON object is read in one piece.             *)
(***************************************************************************)
Live ==
    \/ provider = "neo4j"
    \/ provider = "milvus" /\ \A q \in MilvusRequestInput(request) : q.operation = "query"
    \/ provider = "s3" /\ (request.binary \/ FormatOf(request.extension, request.hint) # {"json"})

\* The table a row comes from.
Reading == IF Live THEN source ELSE view

(***************************************************************************)
(* The end of a stream.  Dropping the stream gives the pooled connection   *)
(* back and rolls its transaction back; a point in time of Elasticsearch   *)
(* stays until it is closed or expires.                                    *)
(***************************************************************************)
Stop(result) ==
    /\ pc' = "done"
    /\ outcome' = result
    /\ held' = held \cap {"pit"}

(***************************************************************************)
(* RecordBatch::try_new: as many arrays as announced columns, each of the  *)
(* announced type, and at least one.  The rows are kept with the batch to  *)
(* say later what it should hold.                                          *)
(***************************************************************************)
Valid(arrays) ==
    /\ schema # <<>>
    /\ Len(arrays) = Len(schema)
    /\ \A i \in DOMAIN schema :
         /\ arrays[i].type = schema[i].type
         /\ \A j \in DOMAIN arrays[i].cells : arrays[i].cells[j] # Failed

Batch(arrays, rows) == [cells |-> [i \in DOMAIN arrays |-> arrays[i].cells], rows |-> rows]

\* The rows, or bytes, that the client has got.
Given == FlattenSeq([i \in DOMAIN sent |-> sent[i].rows])

\* Most readers look every announced column up in each row by its name.
NamedBatch(ArrayOf(_, _), rows) ==
    [i \in DOMAIN schema |->
        ArrayOf(schema[i].type, [r \in DOMAIN rows |-> Field(rows[r], schema[i].name)])]

(***************************************************************************)
(* The steps of a reader: the schema is announced, or the request refused; *)
(* the stream begins; a batch goes out, or ends the stream with an error.  *)
(***************************************************************************)
Announce(columns) ==
    /\ schema' = columns
    /\ pc' = "open"
    /\ UNCHANGED <<worldVars, view, pos, chunk, decoder, sent, outcome, held>>

Refuse ==
    /\ Stop("error")
    /\ UNCHANGED <<worldVars, progressVars>>

\* A stream begins: the rows are those of the table as it is now, or, if
\* the reader is live, as it will be.
Begin(holding) ==
    /\ view' = source
    /\ held' = holding
    /\ pc' = "read"
    /\ UNCHANGED <<worldVars, schema, pos, chunk, decoder, sent, outcome>>

Yield(arrays, rows, Go) ==
    IF Valid(arrays) THEN sent' = Append(sent, Batch(arrays, rows)) /\ Go
    ELSE Stop("error") /\ UNCHANGED sent

GoOn == UNCHANGED <<pc, outcome, held>>
Complete == Stop("ok")

(***************************************************************************)
(* The rows, or bytes, that the request asks of a table: those within its  *)
(* limit and from its offset, in the order it sorts them by.               *)
(***************************************************************************)
Limited(rows, limit) ==
    IF \E n \in limit : n < Len(rows) THEN SubSeq(rows, 1, CHOOSE n \in limit : TRUE) ELSE rows

\* Elasticsearch sorts by one value after another; its k-th hit is the one
\* that k - 1 others come before.
SortValues(row) ==
    LET keys == EsSort(EsQuery.sort)
    IN  [i \in DOMAIN keys |-> IF keys[i] = "_shard_doc" THEN row.id ELSE Field(row, keys[i]).n]

SortedBefore(a, b) ==
    \E i \in DOMAIN SortValues(a) :
        /\ SortValues(a)[i] < SortValues(b)[i]
        /\ \A j \in 1 .. i - 1 : SortValues(a)[j] = SortValues(b)[j]

EsSorted(rows) ==
    LET Rank(i) == Cardinality({j \in DOMAIN rows : SortedBefore(rows[j], rows[i])})
    IN  [k \in DOMAIN rows |-> rows[CHOOSE i \in DOMAIN rows : Rank(i) = k - 1]]

WantedRows(table) ==
    CASE provider = "elasticsearch" /\ EsRequestInput(request) # {} ->
            Limited(EsSorted(table.rows), EsQuery.size)
      [] provider = "milvus" /\ MilvusRequestInput(request) # {} ->
            Limited(SubSeq(table.rows, MilvusQuery.offset + 1, Len(table.rows)), MilvusQuery.limit)
      [] provider \in {"s3", "uri"} /\ request.binary -> Bytes("csv", table)
      [] OTHER -> table.rows

(***************************************************************************)
(* The world.  Others change the source while the stream is read; a call   *)
(* to the source fails; a query without a timeout is never answered, or    *)
(* the client never pulls again; the client, or the process, goes away; a  *)
(* point in time expires when nobody uses it for five minutes.             *)
(***************************************************************************)
Names(table) == [i \in DOMAIN table.cols |-> table.cols[i].name]

Change ==
    /\ pc \notin {"schema", "stuck", "done"}
    /\ changes < MaxChanges
    /\ \E table \in Versions[provider] \ {source} :
         /\ source' = table
         /\ torn' = (torn \/ /\ Live
                             /\ pc = "read"
                             /\ (provider = "s3" \/ ~ IsPrefix(WantedRows(source), WantedRows(table))))
    /\ changes' = changes + 1
    /\ UNCHANGED <<provider, request, pc, schema, view, pos, chunk, decoder, sent, outcome,
                   held, faults>>

\* The pages of Elasticsearch fail in EsReader, which has more to do then.
SourceFails ==
    /\ pc \in {"schema", "open", "read", "commit", "stuck"}
    /\ ~ (provider = "elasticsearch" /\ pc = "read")
    /\ faults < MaxFaults
    /\ faults' = faults + 1
    /\ Stop("error")
    /\ UNCHANGED <<progressVars, provider, request, source, torn, changes>>

\* The HTTP clients of Elasticsearch, Milvus, S3 and URI give up on a call;
\* the pools of PostgreSQL and SQLite only give up waiting for a connection,
\* and Neo4j only connecting.  No client has to pull its stream in time.
Stalls ==
    /\ \/ pc = "schema" /\ provider \in {"postgres", "sqlite", "neo4j"}
       \/ pc \in {"open", "read", "commit", "close", "close_error"}
    /\ pc' = "stuck"
    /\ UNCHANGED <<worldVars, progressVars, outcome, held>>

ClientDrops ==
    /\ pc # "done"
    /\ faults < MaxFaults
    /\ faults' = faults + 1
    /\ Stop("dropped")
    /\ UNCHANGED <<progressVars, provider, request, source, torn, changes>>

PitExpires ==
    /\ "pit" \in held
    /\ IF pc = "done" THEN UNCHANGED faults
       ELSE faults < MaxFaults /\ faults' = faults + 1
    /\ held' = held \ {"pit"}
    /\ UNCHANGED <<progressVars, provider, request, source, pc, outcome, torn, changes>>

World == Change \/ SourceFails \/ Stalls \/ ClientDrops \/ PitExpires
=============================================================================
