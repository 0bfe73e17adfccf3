---------------------------- MODULE TableReaders ----------------------------
(***************************************************************************)
(* The readers of the databases: schema and read_tabular of the            *)
(* PostgreSQL, SQLite, Neo4j, Elasticsearch and Milvus connectors.         *)
(*                                                                         *)
(* What a database does with a statement is external: one that reads gives *)
(* the rows of the table in their order; one that writes gives those that  *)
(* it left, unless a read-only transaction or connection refuses it; and a *)
(* script is several statements, which may lift a read-only mode.  A       *)
(* prepared statement of PostgreSQL and a query of Neo4j hold no script.   *)
(***************************************************************************)
EXTENDS ReaderSession

\* A statement writes, and its stream begins with the rows it has left.
WriteThrough(holding) ==
    /\ source' \in Versions[provider]
    /\ view' = source'
    /\ held' = holding
    /\ pc' = "read"
    /\ UNCHANGED <<provider, request, torn, changes, faults, schema, pos, chunk, decoder, sent, outcome>>

Execute(holding) ==
    IF request.statement = "read" THEN Begin(holding)
    ELSE IF request.statement = "write" /\ "read_only" \in holding THEN Refuse
    ELSE WriteThrough(holding)

(***************************************************************************)
(* The loop over a cursor: a row joins the chunk, a full chunk becomes a   *)
(* batch, and what is left at the end becomes the last one.                *)
(***************************************************************************)
PushRow(ArraysOf(_)) ==
    LET rows == Append(chunk, Reading.rows[pos + 1])
    IN  /\ pos' = pos + 1
        /\ IF Len(rows) >= BatchSize
           THEN chunk' = <<>> /\ Yield(ArraysOf(rows), rows, GoOn)
           ELSE chunk' = rows /\ UNCHANGED sent /\ GoOn

NextRow(ArraysOf(_), Finish) ==
    /\ pc = "read"
    /\ UNCHANGED <<worldVars, schema, view, decoder>>
    /\ IF pos < Len(Reading.rows) THEN PushRow(ArraysOf)
       ELSE /\ UNCHANGED <<pos, chunk>>
            /\ IF chunk = <<>> THEN Finish /\ UNCHANGED sent
               ELSE Yield(ArraysOf(chunk), chunk, Finish)

(***************************************************************************)
(* PostgreSQL and SQLite build their arrays from the columns that the rows *)
(* have, in their order; the announced schema only supplies the labels,    *)
(* and the types to compare with.                                          *)
(***************************************************************************)
PositionalBatch(ArrayOf(_, _), rows) ==
    [i \in DOMAIN Reading.cols |->
        ArrayOf(Reading.cols[i].type, [r \in DOMAIN rows |-> rows[r].fields[i][2]])]

\* The stream holds a pooled connection and a read-only transaction, which
\* is committed after the last batch.
PgReader ==
    LET arrays(rows) == PositionalBatch(PgArrayOf, rows)
        finish == pc' = "commit" /\ UNCHANGED <<outcome, held>>
    IN  \/ /\ pc = "schema"
           /\ IF request.statement = "script" THEN Refuse
              ELSE Announce([i \in DOMAIN source.cols |->
                               [name |-> source.cols[i].name,
                                type |-> pg_type_to_arrow(source.cols[i].type)]])
        \/ pc = "open" /\ Execute({"connection", "transaction", "read_only"})
        \/ NextRow(arrays, finish)
        \/ pc = "commit" /\ Complete /\ UNCHANGED <<worldVars, progressVars>>

\* PRAGMA query_only instead of a transaction, which a script may undo; the
\* statement itself holds the snapshot while it is stepped.
SqliteReader ==
    LET arrays(rows) == PositionalBatch(SqliteArrayOf, rows)
    IN  \/ pc = "schema" /\ Announce([i \in DOMAIN source.cols |->
                               [name |-> source.cols[i].name,
                                type |-> sqlite_type_to_arrow(source.cols[i].type)]])
        \/ pc = "open" /\ Execute({"connection", "read_only"})
        \/ NextRow(arrays, Complete)

\* Neo4j: the schema is that of the first row of a first execution, empty
\* when there is none.
BoltSchemaOf(rows) ==
    IF rows = <<>> THEN <<>>
    ELSE LET fields == rows[1].fields
         IN  [i \in DOMAIN fields |-> [name |-> fields[i][1],
                                       type |-> bolt_type_to_arrow(fields[i][2].k)]]

\* A statement that writes does so in both executions: nothing but the role
\* of the user in the database keeps it from doing so.
Neo4jReader ==
    LET arrays(rows) == NamedBatch(BoltArrayOf, rows)
    IN  \/ /\ pc = "schema"
           /\ \/ request.statement = "read" /\ Announce(BoltSchemaOf(source.rows))
              \/ /\ request.statement = "write"
                 /\ source' \in Versions[provider]
                 /\ schema' = BoltSchemaOf(source'.rows)
                 /\ pc' = "open"
                 /\ UNCHANGED <<provider, request, torn, changes, faults, view, pos, chunk,
                                decoder, sent, outcome, held>>
              \/ request.statement = "script" /\ Refuse
        \/ pc = "open" /\ Execute({"connection"})
        \/ NextRow(arrays, Complete)

\* The rows to ask for: a full page, or what the request's limit leaves.
PageSize(limit) ==
    IF \E n \in limit : n - pos < BatchSize THEN CHOOSE r \in {n - pos : n \in limit} : TRUE
    ELSE BatchSize

(***************************************************************************)
(* Elasticsearch.  A page is what _search finds after the last hit of the  *)
(* page before, by the values that the hits are sorted by: a hit that has  *)
(* the same values is not after it.                                        *)
(***************************************************************************)
SearchAfter(size) ==
    LET after(row) == sent = <<>> \/ SortedBefore(Last(Last(sent).rows), row)
        passed == {i \in DOMAIN view.rows : ~ after(view.rows[i])}
    IN  Limited(SubSeq(EsSorted(view.rows), Cardinality(passed) + 1, Len(view.rows)), {size})

\* fetch_search_page: a page, unless the call fails or the point in time
\* has expired.
fetch_search_page(Use(_), Fail) ==
    \/ "pit" \in held /\ Use(PageSize(EsQuery.size)) /\ UNCHANGED faults
    \/ "pit" \notin held /\ Fail /\ UNCHANGED faults
    \/ faults < MaxFaults /\ faults' = faults + 1 /\ Fail

close_pitForgotten == UNCHANGED <<held, faults>>
close_pit ==
    \/ held' = {} /\ UNCHANGED faults
    \/ faults < MaxFaults /\ faults' = faults + 1 /\ UNCHANGED held

\* read_tabular: open a point in time, fetch pages, close it, and only then
\* report what went wrong.  Leaving the loop is pc = "close" or "close_error".
EsReader ==
    LET leave(place) == pc' = place /\ UNCHANGED <<pos, sent>>
        failed == leave("close_error")
        page(size) ==
          \E hits \in {SearchAfter(size)} :
            LET arrays == NamedBatch(json_values_to_array, hits)
            IN  IF hits = <<>> THEN leave("close")
                ELSE IF ~ Valid(arrays) THEN failed
                ELSE /\ sent' = Append(sent, Batch(arrays, hits))
                     /\ pos' = pos + Len(hits)
                     /\ pc' = IF Len(hits) < size THEN "close" ELSE pc
    IN  \/ /\ pc = "schema"
           /\ IF EsRequestInput(request) # {} /\ source.cols # <<>> THEN Announce(EsSchemaOf(source.cols)) ELSE Refuse
        \/ pc = "open" /\ Begin({"pit"})
        \/ /\ pc = "read"
           /\ IF \E limit \in EsQuery.size : pos >= limit THEN leave("close") /\ UNCHANGED faults
              ELSE fetch_search_page(page, failed)
           /\ UNCHANGED <<provider, request, source, schema, view, chunk, decoder, outcome,
                          held, torn, changes>>
        \/ /\ pc \in {"close", "close_error"}
           /\ close_pit
           /\ pc' = "done"
           /\ outcome' = IF pc = "close" THEN "ok" ELSE "error"
           /\ UNCHANGED <<progressVars, provider, request, source, torn, changes>>

(***************************************************************************)
(* Milvus.  A query is paged by offset, every page a request of its own on *)
(* the collection as it then is; a search or a get is answered at once and *)
(* the answer cut into batches.                                            *)
(***************************************************************************)
\* The next page goes out; the loop ends with the first short one.
SendPage(rows, size) ==
    /\ pos' = pos + Len(rows)
    /\ Yield(NamedBatch(json_values_to_array, rows), rows,
             IF Len(rows) < size THEN Complete ELSE GoOn)

FromOffset(rows, from, size) == Limited(SubSeq(rows, from + 1, Len(rows)), {size})

read_query_paginated ==
    LET size == PageSize(MilvusQuery.limit)
        rows == FromOffset(source.rows, MilvusQuery.offset + pos, size)
    IN  IF size <= 0 \/ rows = <<>> THEN Complete /\ UNCHANGED <<pos, sent>>
        ELSE SendPage(rows, size)

MilvusReader ==
    \/ /\ pc = "schema"
       /\ IF MilvusRequestInput(request) = {} THEN Refuse
          ELSE Announce(MilvusSchemaOf(source.cols, MilvusQuery.fields, MilvusQuery.operation))
    \/ pc = "open" /\ Begin({})
    \/ /\ pc = "read"
       /\ IF MilvusQuery.operation = "query" THEN read_query_paginated
          ELSE LET rows == FromOffset(WantedRows(view), pos, BatchSize)
               IN  IF rows = <<>> THEN Complete /\ UNCHANGED <<pos, sent>>
                   ELSE SendPage(rows, 0)
       /\ UNCHANGED <<worldVars, schema, view, chunk, decoder>>
=============================================================================
