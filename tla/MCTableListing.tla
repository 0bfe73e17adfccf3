--------------------------- MODULE MCTableListing ---------------------------
(***************************************************************************)
(* All patterns of up to four characters over two letters and the two      *)
(* wildcards, against all names of up to three letters; and a few patterns *)
(* with schemas, while tables come, go and change.  The connection names   *)
(* no format, or one that is known, or one that is not.                    *)
(***************************************************************************)
EXTENDS TableListing

Words(letters, n) == UNION {[1 .. k -> letters] : k \in 0 .. n}
Entry(name, kind, extension, col) ==
    [name |-> name, kind |-> kind, extension |-> extension, cols |-> <<col>>]

\* The names in a fixed order: the binary digits of 2 .. 15 after the first.
Digits(n) ==
    LET length == IF n < 4 THEN 1 ELSE IF n < 8 THEN 2 ELSE 3
    IN  [i \in 1 .. length |-> IF (n \div 2 ^ (length - i)) % 2 = 0 THEN "a" ELSE "b"]
AllNames == [i \in 1 .. 14 |-> Digits(i + 1)]
Many(kind) == [i \in DOMAIN AllNames |-> Entry(AllNames[i], kind, "csv", "c")]

Few == <<Entry(<<"a">>, "user", "", "c"), Entry(<<"a", "b">>, "user", "", "d"),
         Entry(<<"b">>, "user", "", "c")>>
Databases == {Many("user"), Few, Tail(Few), [Few EXCEPT ![2].cols = <<"e">>],
              Few \o <<Entry(<<"b", "a">>, "system", "", "c")>>}
SqliteCatalogs ==
    {Many("user"), Few, Tail(Few),
     Few \o <<Entry(<<"Q", "_", "a">>, "system", "", "c"), Entry(<<"Q", "a">>, "user", "", "c")>>}
Bucket == <<Entry(<<"a">>, "file", "csv", "c"), Entry(<<"a", "%", "b">>, "file", "csv", "c"),
            Entry(<<"a", "b">>, "file", "json", "d"), Entry(<<"b">>, "dir", "", "d"),
            Entry(<<"b", "a">>, "file", "txt", "d"), Entry(<<"b", "b">>, "file", "parquet", "f")>>
S3Catalogs == {Many("file"), Bucket, Tail(Bucket), [Bucket EXCEPT ![6].cols = <<"g">>]}

MCCatalogs == [postgres |-> Databases, sqlite |-> SqliteCatalogs, s3 |-> S3Catalogs]
Ask(filter, include_schema, format_hint) ==
    [filter |-> filter, include_schema |-> include_schema, format_hint |-> format_hint]
MCAsks ==
    {Ask({p}, FALSE, {}) : p \in Words({"a", "b", "%", "_"}, 4)}
    \cup {Ask(f, TRUE, hint) : f \in {{}, {<<"%", "b">>}, {<<"a", "%">>}}, hint \in {{}, {"json"}, {"csv"}, {"txt"}}}
    \cup {Ask({}, FALSE, {})}
=============================================================================
