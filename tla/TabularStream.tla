--------------------------- MODULE TabularStream ---------------------------
(***************************************************************************)
(* What a client may expect of a stream, whatever connector serves it: the *)
(* rows it asked for, as the data source had them at one moment between    *)
(* the request and the first row, in order, none missing and none twice.   *)
(* A stream may fail, and then it has given a part of them from the start. *)
(*                                                                         *)
(* A source that has no snapshots is weaker: any change while the stream   *)
(* is read voids the promise, except that some sources, like a collection  *)
(* that is paged through, bear rows that are appended.                     *)
(***************************************************************************)
EXTENDS Naturals, Sequences, SequencesExt

VARIABLES
    isolation,  \* "snapshot", "append" or "none": what the source bears
    table,      \* the rows that the request asks for, as they are now
    result,     \* the rows as they were at that moment
    given,      \* the rows that the client got
    status      \* where the stream is

streamVars == <<isolation, table, result, given, status>>

Init ==
    /\ isolation \in {"snapshot", "append", "none"}
    /\ result = <<>>
    /\ given = <<>>
    /\ status = "waiting"

Change ==
    /\ UNCHANGED <<isolation, given>>
    /\ IF isolation = "snapshot" \/ status # "streaming" THEN UNCHANGED <<result, status>>
       ELSE IF isolation = "append" /\ IsPrefix(table, table') THEN result' = table' /\ UNCHANGED status
       ELSE status' = "torn"

\* The moment that the stream is about: after what its own request wrote.
Take ==
    /\ status = "waiting"
    /\ result' = table'
    /\ status' = "streaming"
    /\ UNCHANGED <<isolation, given>>

Give ==
    /\ status = "streaming"
    /\ IsStrictPrefix(given, given')
    /\ IsPrefix(given', result)
    /\ status' \in {"streaming"} \cup (IF given' = result THEN {"complete"} ELSE {})
    /\ UNCHANGED <<isolation, table, result>>

End ==
    /\ status = "streaming"
    /\ given = result
    /\ status' = "complete"
    /\ UNCHANGED <<isolation, table, result, given>>

\* The stream fails, or nobody reads it any more.
Fail ==
    /\ status \in {"waiting", "streaming", "torn"}
    /\ status' \in {"failed", "dropped"}
    /\ UNCHANGED <<isolation, table, given>>

\* Nothing is promised any more but that what was given was given.
Torn ==
    /\ status = "torn"
    /\ status' \in {"torn", "complete"}
    /\ IsPrefix(given, given')
    /\ UNCHANGED isolation

Next == Change \/ Take \/ Give \/ End \/ Fail \/ Torn

Spec == Init /\ [][Next]_streamVars
=============================================================================
