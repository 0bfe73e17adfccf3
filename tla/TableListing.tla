---------------------------- MODULE TableListing ----------------------------
(***************************************************************************)
(* DataReader::list_tables of the connectors that have tables to list, as  *)
(* do_get_tables of the Flight service calls it: the names first, then, if *)
(* the client asks for schemas, a call to the source for each table while  *)
(* others create, drop and alter tables.                                   *)
(*                                                                         *)
(* A name is a sequence of characters, "Q" the word "sqlite" among them.   *)
(* A catalog is a sequence of entries in the order of their names; the     *)
(* extension matters for the objects of S3 only.                           *)
(***************************************************************************)
EXTENDS FileFormats

CONSTANTS
    Catalogs,           \* provider -> the catalogs its source may have
    Asks,               \* the requests: filter (at most one pattern), include_schema,
                        \* and the format that the connection names, if any
    MaxCatalogChanges,  \* bound: changes of the catalog during a listing
    MaxListingFaults    \* bound: calls to the source that fail

VARIABLES
    lister,     \* the connector that lists
    ask,        \* the request
    catalog,    \* the source's tables as they are now
    past,       \* the catalogs since the names were listed
    step,       \* what list_tables does next
    todo,       \* tables whose schema is still to be asked for
    tables,     \* Vec<TableInfo>
    answer,     \* what the client gets: no answer, an error or a list
    failed      \* failed calls so far

listingVars == <<lister, ask, catalog, past, step, todo, tables, answer, failed>>

Entries == UNION {Range(c) : c \in UNION Range(Catalogs)}

\* Catalogs are sequences, names and patterns are sequences of characters.
\* An object of S3 is a file or a directory; a table of a database is a
\* user's or its own, and SQLite's own have names that begin with "sqlite".
ASSUME ListingAssumption ==
    /\ MaxCatalogChanges \in Nat /\ MaxListingFaults \in Nat
    /\ \A p \in DOMAIN Catalogs : Catalogs[p] \subseteq Seq(Entries)
    /\ \A e \in Entries : e.name # <<>> /\ e.name \in Seq(Range(e.name))
    /\ \A a \in Asks : \A p \in a.filter : p \in Seq(Range(p))
    /\ \A p \in DOMAIN Catalogs : \A c \in Catalogs[p] : \A e \in Range(c) :
         /\ e.kind \in IF p = "s3" THEN {"file", "dir"} ELSE {"user", "system"}
         /\ p = "sqlite" /\ e.kind = "system" => Head(e.name) = "Q"

NoAnswer == [kind |-> "none", tables |-> <<>>]
Empty == <<>>       \* Schema::empty()

ListingInit ==
    /\ lister \in DOMAIN Catalogs
    /\ ask \in Asks
    /\ catalog \in Catalogs[lister]
    /\ past = <<>>
    /\ step = "list"
    /\ todo = <<>>
    /\ tables = <<>>
    /\ answer = NoAnswer
    /\ failed = 0

(***************************************************************************)
(* LIKE as SQL defines it: % is any text, _ any character.  This is what   *)
(* PostgreSQL, SQLite and the Flight SQL response builder do (external);   *)
(* escapes and the case of letters are left out.                           *)
(***************************************************************************)
AnyText == "%"
AnyChar == "_"

\* at[j] is how much of the name the first j characters stand for.
Like(name, pattern) ==
    \E at \in [0 .. Len(pattern) -> 0 .. Len(name)] :
        /\ at[0] = 0
        /\ at[Len(pattern)] = Len(name)
        /\ \A j \in 1 .. Len(pattern) :
             IF pattern[j] = AnyText THEN at[j - 1] <= at[j]
             ELSE at[j] = at[j - 1] + 1 /\ pattern[j] \in {AnyChar, name[at[j]]}

(***************************************************************************)
(* sql_like_match: one pass over the name that goes back to the last %     *)
(* when it does not get on.  star is the place behind that %, 0 before the *)
(* first.  A character of the name is compared before a % of the pattern   *)
(* counts as a wildcard.  Each round raises star + star_vi * (Len(value) + *)
(* 1) + vi or is the last one, and so there are no more than Rounds.       *)
(***************************************************************************)
LikeStart == [vi |-> 0, pi |-> 0, star |-> 0, star_vi |-> 0]
Rounds(value, pattern) == Len(pattern) + (Len(value) + 1) * (Len(value) + 1)

sql_like_matchGreedy(value, pattern) ==
    LET match[vi \in 0 .. Len(value), pi \in 0 .. Len(pattern)] ==
          IF vi = Len(value) THEN \A i \in pi + 1 .. Len(pattern) : pattern[i] = AnyText
          ELSE IF pi < Len(pattern) /\ pattern[pi + 1] \in {AnyChar, value[vi + 1]}
          THEN match[vi + 1, pi + 1]
          ELSE IF pi < Len(pattern) /\ pattern[pi + 1] = AnyText THEN match[vi, pi + 1]
          ELSE pi > 0 /\ pattern[pi] = AnyText /\ match[vi + 1, pi]
    IN  match[0, 0]
LikeRound(value, pattern, st) ==
    IF st.vi = Len(value) THEN st
    ELSE IF st.pi < Len(pattern) /\ pattern[st.pi + 1] \in {AnyChar, value[st.vi + 1]}
    THEN [st EXCEPT !.vi = st.vi + 1, !.pi = st.pi + 1]
    ELSE IF st.pi < Len(pattern) /\ pattern[st.pi + 1] = AnyText
    THEN [st EXCEPT !.pi = st.pi + 1, !.star = st.pi + 1, !.star_vi = st.vi]
    ELSE IF st.star > 0
    THEN [st EXCEPT !.pi = st.star, !.star_vi = st.star_vi + 1, !.vi = st.star_vi + 1]
    ELSE st
sql_like_match(value, pattern) ==
    LET run[k \in 0 .. Rounds(value, pattern)] ==
          IF k = 0 THEN LikeStart ELSE LikeRound(value, pattern, run[k - 1])
        last == run[Rounds(value, pattern)]
    IN  last.vi = Len(value) /\ \A i \in last.pi + 1 .. Len(pattern) : pattern[i] = AnyText

\* like_prefix: the pattern up to its first wildcard.
like_prefix(pattern) ==
    SubSeq(pattern, 1, Min({i \in DOMAIN pattern : pattern[i] \in {AnyText, AnyChar}} \cup {Len(pattern) + 1}) - 1)

Filtered(Matches(_, _), entry) == \A pattern \in ask.filter : Matches(entry.name, pattern)

\* The names that the first call gives.
PgShows(entry) == entry.kind # "system" /\ Filtered(Like, entry)
SqliteShows(entry) == ~ Like(entry.name, <<"Q", AnyChar, AnyText>>) /\ Filtered(Like, entry)
S3Shows(entry) ==
    /\ \A pattern \in ask.filter : IsPrefix(like_prefix(pattern), entry.name)
    /\ entry.kind = "file"
    /\ FormatOf(entry.extension, ask.format_hint) # {}
    /\ Filtered(sql_like_match, entry)

Table(entry, cols) == [name |-> entry.name, cols |-> cols]

\* The response builder of Flight SQL filters once more.
Answered(list) == [kind |-> "tables", tables |-> Only(list, {t \in Range(list) : Filtered(Like, t)})]
Refused == [kind |-> "error", tables |-> <<>>]

ListNames(Shows(_)) ==
    LET shown == Only(catalog, {e \in Range(catalog) : Shows(e)})
        bare == [i \in DOMAIN shown |-> Table(shown[i], Empty)]
    IN  /\ step = "list"
        /\ past' = <<catalog>>
        /\ IF ask.include_schema
           THEN step' = "describe" /\ todo' = shown /\ UNCHANGED <<tables, answer>>
           ELSE step' = "done" /\ tables' = bare /\ answer' = Answered(bare) /\ UNCHANGED todo
        /\ UNCHANGED <<lister, ask, catalog, failed>>

\* The table of this name as it is now: none, if it has been dropped.
Current(entry) == {e \in Range(catalog) : e.name = entry.name /\ e.kind = entry.kind}

\* The next table gets its schema; after the last one the list is sent.
Describe(cols) ==
    /\ tables' = Append(tables, Table(Head(todo), cols))
    /\ todo' = Tail(todo)
    /\ UNCHANGED <<step, answer>>

GiveUp ==
    /\ step' = "done"
    /\ answer' = Refused
    /\ UNCHANGED <<tables, todo>>

NextTable(Failing) ==
    /\ step = "describe"
    /\ IF todo = <<>>
       THEN step' = "done" /\ answer' = Answered(tables) /\ UNCHANGED <<tables, todo, failed>>
       ELSE \/ /\ IF Current(Head(todo)) = {} THEN Failing
                  ELSE \E e \in Current(Head(todo)) : Describe(e.cols)
               /\ UNCHANGED failed
            \/ failed < MaxListingFaults /\ failed' = failed + 1 /\ Failing
    /\ UNCHANGED <<lister, ask, catalog, past>>

PgListTables == ListNames(PgShows) \/ NextTable(GiveUp)
SqliteListTablesSilent ==
    ListNames(SqliteShows) \/ NextTable(step' = "done" /\ UNCHANGED <<tables, todo, answer>>)
SqliteListTables == ListNames(SqliteShows) \/ NextTable(GiveUp)

\* The schema of an object that cannot be read is empty, and that of a JSON
\* object is not asked for: the whole object would have to be fetched.
S3ListTablesStrict == ListNames(S3Shows) \/ NextTable(GiveUp)
S3ListTables ==
    LET json == todo # <<>> /\ FormatOf(Head(todo).extension, ask.format_hint) = {"json"}
    IN  \/ ListNames(S3Shows)
        \/ ~ json /\ NextTable(Describe(Empty))
        \/ /\ step = "describe" /\ json
           /\ Describe(Empty)
           /\ UNCHANGED <<lister, ask, catalog, past, failed>>

Lister ==
    \/ lister = "postgres" /\ PgListTables
    \/ lister = "sqlite" /\ SqliteListTables
    \/ lister = "s3" /\ S3ListTables

CatalogChanges ==
    /\ step = "describe"
    /\ Len(past) <= MaxCatalogChanges
    /\ catalog' \in Catalogs[lister] \ {catalog}
    /\ past' = Append(past, catalog')
    /\ UNCHANGED <<lister, ask, step, todo, tables, answer, failed>>

\* The call that lists the names fails.
ListingFails ==
    /\ step = "list"
    /\ failed < MaxListingFaults
    /\ failed' = failed + 1
    /\ step' = "done"
    /\ answer' = Refused
    /\ UNCHANGED <<lister, ask, catalog, past, todo, tables>>

ListingNext == Lister \/ CatalogChanges \/ ListingFails
ListingSpec == ListingInit /\ [][ListingNext]_listingVars

\* The tables that are listed are tables of the source, and the answer
\* comes last (list_tables, do_get_tables).
ListingTypeOK ==
    /\ lister \in DOMAIN Catalogs /\ ask \in Asks
    /\ catalog \in Catalogs[lister] /\ Range(past) \subseteq Catalogs[lister]
    /\ step \in {"list", "describe", "done"}
    /\ Range(todo) \subseteq Entries
    /\ \A t \in Range(tables) : \E e \in Entries : e.name = t.name /\ t.cols \in {e.cols, Empty}
    /\ (step = "done") = (answer.kind # "none")
    /\ failed \in 0 .. MaxListingFaults

(***************************************************************************)
(* The names a client should see: the user's tables, or the objects that   *)
(* can be read as tables, that the pattern matches as SQL says.  Two names *)
(* are misjudged: SQLite hides every name that begins with "sqlite", not   *)
(* only with "sqlite_", as the _ of NOT LIKE is a wildcard; S3 may leave   *)
(* out an object with a % in its name, which the pattern's % is taken to   *)
(* stand for.                                                              *)
(***************************************************************************)
Wanted(entry) ==
    /\ entry.kind \in {"user", "file"}
    /\ lister = "s3" => FormatOf(entry.extension, ask.format_hint) # {}
    /\ Filtered(Like, entry)

Misjudged(entry) ==
    \/ lister = "sqlite" /\ Head(entry.name) = "Q"
    \/ lister = "s3" /\ AnyText \in Range(entry.name)

ListedNames(list) ==
    LET judged == Only(list, {t \in Range(list) : ~ Misjudged(t)})
    IN  [i \in DOMAIN judged |-> judged[i].name]

\* A list has the wanted tables of the catalog as it was when their names
\* were read, in order and each once, however the filter is spelt and
\* whatever happens to the catalog meanwhile; the schema of each is one that
\* the table has had since, and left empty only where it was not asked for,
\* or by S3 (list_tables, like_prefix, sql_like_match).
ListingExact ==
    answer.kind = "tables" =>
        /\ ListedNames(answer.tables) = ListedNames(Only(Head(past), {e \in Range(Head(past)) : Wanted(e)}))
        /\ \A t \in Range(answer.tables) :
             \/ t.cols = Empty /\ (lister = "s3" \/ ~ ask.include_schema)
             \/ ask.include_schema
                /\ \E c \in Range(past) : \E e \in Range(c) : e.name = t.name /\ e.cols = t.cols

\* A listing is refused only because a call failed, or because a table of
\* PostgreSQL or SQLite went away before it was described.  One object that
\* S3 cannot read does not cost the client the others: there, only the call
\* for the names can fail the listing (list_tables of S3).
ListingErrorsHaveReason ==
    answer.kind = "error" =>
        IF lister = "s3" THEN failed > 0 /\ past = <<>> ELSE failed > 0 \/ Len(past) > 1
=============================================================================
