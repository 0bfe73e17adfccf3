------------------------------ MODULE Queries ------------------------------
(***************************************************************************)
(* The queries of the connectors that do not take SQL or Cypher: JSON      *)
(* documents that a parser checks before the source is asked.  A query has *)
(* a shape (an object, other JSON, or no JSON at all) and what its keys    *)
(* hold; a key that may be left out is a set of at most one value.  What a *)
(* parser returns is such a set too: {} is an InvalidRequest.              *)
(***************************************************************************)
EXTENDS Naturals, Sequences

\* EsRequestInput::parse and resolve_index: the documents come from _source,
\* and the index from the query or else from the connection.
EsRequestInput(query) ==
    IF \/ query.shape # "object"
       \/ query.source = {FALSE}
       \/ query.index = {} /\ query.default_index = {}
    THEN {}
    ELSE {[index |-> CHOOSE i \in IF query.index # {} THEN query.index ELSE query.default_index : TRUE,
           size |-> query.size,
           sort |-> query.sort]}

\* build_pit_search_body: every search is sorted, and by the document's place
\* in its shard last, so that search_after never stops between equal hits.
\* A sort that is not a list is left as it is; the point in time adds the
\* same tie-breaker to it (external).
EsSort(sort) ==
    LET keys == IF sort = {} THEN <<>> ELSE CHOOSE s \in sort : TRUE
    IN  IF \E i \in DOMAIN keys : keys[i] = "_shard_doc" THEN keys ELSE Append(keys, "_shard_doc")

\* MilvusRequestInput: what is asked follows from the keys that are there.
MilvusRequestInput(query) ==
    IF query.shape # "object" \/ query.collection = {} THEN {}
    ELSE {[operation |-> IF query.data # {} THEN "search" ELSE IF query.id # {} THEN "get" ELSE "query",
           limit |-> query.limit,
           offset |-> IF query.offset = {} THEN 0 ELSE CHOOSE o \in query.offset : TRUE,
           fields |-> query.output_fields]}

\* UriRequest::parse: a path, and no method but GET.
UriRequestInput(query) ==
    IF query.shape # "object" \/ query.path = {} \/ query.method \notin {{}, {"GET"}} THEN {}
    ELSE {[path |-> CHOOSE p \in query.path : TRUE,
           data_path |-> query.data_path,
           format |-> query.format]}
=============================================================================
