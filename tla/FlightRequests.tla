--------------------------- MODULE FlightRequests ---------------------------
(***************************************************************************)
(* A request on its way to a data source: the Flight service authenticates *)
(* its token and reviews the access to its tenant, looks the connection up *)
(* and gets a client from the connector's cache; the REST service reviews  *)
(* the access to a secret.  Reviews and clients are kept in caches that    *)
(* answer for a while after the cluster's answer, or the secret, changed,  *)
(* and that let one request at a time ask for what several wait for        *)
(* (moka's try_get_with, external).                                        *)
(*                                                                         *)
(* What a request needs to know is a question, and truth its answer as of  *)
(* now: <<"token", t>> (whose token is it), <<"access", u, n>> and         *)
(* <<"secret", u, n, s>> (may the user), <<"content", n, s>> (what is in   *)
(* the secret) and <<"inline", c>> (what credentials came with the call).  *)
(***************************************************************************)
EXTENDS Integers, Clients

CONSTANTS
    Calls,          \* the requests that are made
    Scenarios,      \* the calls' requests, with the connections and the truth at first
    Owner,          \* connection id -> its tenant; ids are never used again
    SecretNames,    \* what a connection may be patched to refer to
    Versions,       \* what a secret may be changed to hold
    KeysOf,         \* version -> the credential keys that it has
    Types,          \* the ids of the connection types, each named for its provider
    Registered,     \* the providers that the Flight service has connectors for
    ReadErrors,     \* the errors that a reader may meet
    Discovery,      \* discovery_service_account
    ReviewTTL,      \* auth.cache_ttl_secs
    ClientTTL,      \* ingestion_cache_pools.ttl_secs
    Transit,        \* the longest that an answer is under way to the cache
    MaxTime,        \* bound: ticks of the clock
    MaxChanges,     \* bound: changes of truth and of connections
    MaxFaults       \* bound: calls that fail, requests cancelled, entries evicted

VARIABLES
    now,        \* the time
    truth,      \* question -> its answer now
    past,       \* <<time, question, answer>> for all that was ever true
    rows,       \* the connections in the meta store
    cache,      \* the entries of all caches, at most one for a key
    request,    \* call -> what it asks for
    pc,         \* call -> what it does next
    user,       \* call -> who sends it, once that is known
    target,     \* call -> the connection it found
    fetched,    \* call -> the answer it got for its key and has not yet put into the cache
    basis,      \* call -> the answers it went by
    result,     \* call -> how it ended
    changes,    \* changes so far
    faults      \* failures so far

worldVars == <<now, truth, past, rows, changes>>
requestVars == <<now, truth, past, rows, cache, request, pc, user, target, fetched, basis,
                 result, changes, faults>>

ASSUME TimesAssumption ==
    /\ ReviewTTL \in Nat
    /\ ClientTTL \in Nat
    /\ Transit \in Nat
    /\ MaxTime \in Nat
    /\ MaxChanges \in Nat
    /\ MaxFaults \in Nat

\* The REST service stores connections for a tenant that is not empty.
ASSUME OwnerAssumption ==
    \A s \in Scenarios : \A r \in s.rows : r.tenant = Owner[r.id] /\ r.tenant \notin {"absent", ""}

NoTarget == [id |-> "none", tenant |-> "none", provider |-> "none", secret |-> "none"]

RequestsInit ==
    /\ now = 0
    /\ \E s \in Scenarios : request = s.request /\ rows = s.rows /\ truth = s.truth
    /\ past = {<<0, q, truth[q]>> : q \in DOMAIN truth}
    /\ cache = {}
    /\ pc = [c \in Calls |-> "arrive"]
    /\ user = [c \in Calls |-> "nobody"]
    /\ target = [c \in Calls |-> NoTarget]
    /\ fetched = [c \in Calls |-> {}]
    /\ basis = [c \in Calls |-> {}]
    /\ result = [c \in Calls |-> "none"]
    /\ changes = 0
    /\ faults = 0

(***************************************************************************)
(* Headers that a client leaves out are "absent"; the tenant may also be   *)
(* the empty string, which the middleware takes for no tenant and the      *)
(* handlers for a tenant.  A payload that cannot be decoded, and           *)
(* credentials that do not follow the schema of their type, are the flaws  *)
(* of a request; id is its connection, or its type.                        *)
(***************************************************************************)
Actions == {"supported_connectors", "check_connection", "check_credentials", "unknown_action"}
OnConnection == {"statement_info", "statement", "tables", "download_info", "download", "check_connection"}
Tenantless(c) == request[c].tenant \in {"absent", ""}
WellPosed(c) == request[c].flaw # "payload" /\ request[c].tenant # "absent" /\ request[c].id # "absent"

(***************************************************************************)
(* The key that a call looks up in a cache, and the question that the      *)
(* initializer asks when it is not there.  A test of credentials uses a    *)
(* random id, so its client is nobody else's.                              *)
(***************************************************************************)
Waits(c) == pc[c] \in {"token", "access", "secret", "client"}

cache_keyShared(c) == <<"client", target[c].provider, target[c].id>>
cache_key(c) ==
    IF request[c].op = "check_credentials" THEN <<"inline", c>>
    ELSE <<"client", target[c].provider, target[c].id>>

\* The reviews of authenticate, authorize and authorize_secret: what is
\* asked of the cluster is also what the answer is kept under.
authenticate(c) == <<"token", request[c].token>>
authorize(c) == <<"access", user[c], request[c].tenant>>
authorize_secret(c) == <<"secret", user[c], request[c].tenant, request[c].secret>>

Key(c) ==
    CASE pc[c] = "token" -> authenticate(c)
      [] pc[c] = "access" -> authorize(c)
      [] pc[c] = "secret" -> authorize_secret(c)
      [] OTHER -> cache_key(c)

Question(c) ==
    IF pc[c] # "client" THEN Key(c)
    ELSE IF request[c].op = "check_credentials" THEN <<"inline", c>>
    ELSE <<"content", target[c].tenant, target[c].secret>>

(***************************************************************************)
(* How long an entry lives.  The cache of the SQLite connector has no      *)
(* time to live.                                                           *)
(***************************************************************************)
Lasting(key) == key[1] = "client" /\ key[2] = "sqlite"
TimeToLive(key) == IF key[1] \in {"client", "inline"} THEN ClientTTL ELSE ReviewTTL

UsableForever(entry) == TRUE
Usable(entry) == Lasting(entry.key) \/ now - entry.at < TimeToLive(entry.key)

\* map_connector_error and map_meta_store_error.
ConnectorStatus ==
    [InvalidRequest |-> "invalid_argument", NoDataError |-> "not_found", ConnectionError |-> "unavailable",
     SQLError |-> "internal", ConfigError |-> "internal", IOError |-> "internal",
     NotFound |-> "not_found", UnsupportedOperation |-> "unimplemented"]

(***************************************************************************)
(* What an answer means to the call that waits for it: it goes on, or it   *)
(* ends with a status.  The discovery account may call actions without a   *)
(* tenant.  The REST handler that a granted secret lets go on is not here. *)
(***************************************************************************)
Verdict(c, answer) ==
    CASE pc[c] = "token" ->
           IF answer = "nobody" THEN "unauthenticated"
           ELSE IF Tenantless(c) /\ ~ (request[c].op \in Actions /\ answer = Discovery)
           THEN "permission_denied" ELSE "go"
      [] pc[c] = "access" -> IF answer = "yes" THEN "go" ELSE "permission_denied"
      [] pc[c] = "secret" -> IF answer = "yes" THEN "ok" ELSE "permission_denied"
      [] OTHER -> IF request[c].op = "check_credentials" THEN "ok" ELSE "go"

After(c) ==
    CASE pc[c] = "token" -> IF Tenantless(c) THEN "handle" ELSE "access"
      [] pc[c] = "access" -> "handle"
      [] OTHER -> "read"

\* The calls of S go by one answer.
Take(S, entry) ==
    /\ basis' = [c \in Calls |-> IF c \notin S THEN basis[c]
                    ELSE basis[c] \cup {[key |-> entry.key, about |-> entry.about,
                                        answer |-> entry.answer, seen |-> entry.seen, at |-> now]}]
    /\ user' = [c \in Calls |-> IF c \in S /\ pc[c] = "token" THEN entry.answer ELSE user[c]]
    /\ pc' = [c \in Calls |-> IF c \notin S THEN pc[c]
                 ELSE IF Verdict(c, entry.answer) = "go" THEN After(c) ELSE "done"]
    /\ result' = [c \in Calls |-> IF c \in S /\ Verdict(c, entry.answer) # "go"
                                  THEN Verdict(c, entry.answer) ELSE result[c]]

End(S, status) ==
    /\ pc' = [c \in Calls |-> IF c \in S THEN "done" ELSE pc[c]]
    /\ result' = [c \in Calls |-> IF c \in S THEN status ELSE result[c]]

Goto(c, place) == pc' = [pc EXCEPT ![c] = place] /\ UNCHANGED result

(***************************************************************************)
(* AuthMiddleware::call, up to the review of the token, and the REST       *)
(* service's validate_headers with authorize_secret_ref, whose user comes  *)
(* from the proxy in front of it.                                          *)
(***************************************************************************)
AuthMiddleware(c) ==
    /\ pc[c] = "arrive"
    /\ request[c].op # "rest"
    /\ IF request[c].op = "health" THEN End({c}, "ok")
       ELSE IF request[c].token = "absent" THEN End({c}, "unauthenticated")
       ELSE Goto(c, "token")
    /\ UNCHANGED <<worldVars, cache, request, user, target, fetched, basis, faults>>

validate_headers(c) ==
    /\ pc[c] = "arrive"
    /\ request[c].op = "rest"
    /\ IF Tenantless(c) THEN End({c}, "invalid_argument") /\ UNCHANGED user
       ELSE IF request[c].token = "absent" THEN End({c}, "unauthenticated") /\ UNCHANGED user
       ELSE Goto(c, "secret") /\ user' = [user EXCEPT ![c] = request[c].token]
    /\ UNCHANGED <<worldVars, cache, request, target, fetched, basis, faults>>

(***************************************************************************)
(* try_get_with.  A call takes what is cached, or becomes the one that     *)
(* asks, or waits for the one that does.  Those who wait get what it gets, *)
(* an error too; only an answer is kept.  A call that has come to the      *)
(* cache and not yet looked is not among them.                             *)
(***************************************************************************)
Hit(c) ==
    /\ Waits(c) /\ fetched[c] = {}
    /\ \E entry \in cache : entry.key = Key(c) /\ Usable(entry) /\ Take({c}, entry)
    /\ UNCHANGED <<worldVars, cache, request, target, fetched, faults>>

\* The TokenReview or SubjectAccessReview is asked for, the secret is read
\* (the initializers of authenticate, authorize, authorize_secret and
\* get_reader): the answer is as of now, and on its way.
Load(c) ==
    /\ Waits(c)
    /\ \A d \in Calls : \A f \in fetched[d] : f.key # Key(c)
    /\ \A entry \in cache : entry.key = Key(c) => ~ Usable(entry)
    /\ Question(c) \in DOMAIN truth
    /\ fetched' = [fetched EXCEPT ![c] =
                     {[key |-> Key(c), about |-> Question(c), answer |-> truth[Question(c)], seen |-> now]}]
    /\ UNCHANGED <<worldVars, cache, request, pc, user, target, basis, result, faults>>

Sharing(c) == {S \in SUBSET {d \in Calls : Waits(d) /\ Key(d) = Key(c)} : c \in S}

\* The client that the connector builds of the secret's content; a secret
\* that is not there has none.
Built(c, answer) == answer \in DOMAIN KeysOf /\ ClientOf(target[c].provider, KeysOf[answer]) # {}

Insert(c) ==
    /\ \E f \in fetched[c], S \in Sharing(c) :
         LET entry == [key |-> f.key, about |-> f.about, answer |-> f.answer, seen |-> f.seen, at |-> now]
         IN  /\ pc[c] = "client" => Built(c, f.answer)
             /\ cache' = {e \in cache : e.key # f.key} \cup {entry}
             /\ Take(S, entry)
    /\ fetched' = [fetched EXCEPT ![c] = {}]
    /\ UNCHANGED <<worldVars, request, target, faults>>

\* No client can be built of what the secret holds, or there is no secret.
BuildFails(c) ==
    /\ pc[c] = "client"
    /\ \E f \in fetched[c], S \in Sharing(c) :
         /\ ~ Built(c, f.answer)
         /\ End(S, ConnectorStatus[IF f.answer \in DOMAIN KeysOf THEN BuildError(target[c].provider)
                                   ELSE "ConnectionError"])
    /\ fetched' = [fetched EXCEPT ![c] = {}]
    /\ UNCHANGED <<worldVars, cache, request, user, target, basis, faults>>

\* The call to the cluster fails, or the data source cannot be reached.
LoadFails(c) ==
    /\ fetched[c] # {}
    /\ faults < MaxFaults
    /\ faults' = faults + 1
    /\ \E S \in Sharing(c) :
         End(S, IF pc[c] = "client" THEN ConnectorStatus.ConnectionError ELSE "internal")
    /\ fetched' = [fetched EXCEPT ![c] = {}]
    /\ UNCHANGED <<worldVars, cache, request, user, target, basis>>

(***************************************************************************)
(* The handlers of the Flight service.  handle_get_flight_info_sql_info    *)
(* and its like need nothing but the request; the others look their        *)
(* connection up with the tenant that was reviewed, which is the one in    *)
(* the headers of this very request: a ticket holds the query alone.       *)
(***************************************************************************)
find_connectionAnyTenant(c) == {r \in rows : r.id = request[c].id}
find_connection(c) == {r \in rows : r.id = request[c].id /\ r.tenant = request[c].tenant}

find_type(c) ==
    {[id |-> p, tenant |-> request[c].tenant, provider |-> p, secret |-> "none"] :
       p \in Types \cap {request[c].id}}

\* The connector of a connection that was found, or of a type; only the
\* credentials of a test can break a schema.
Choose(c, found) ==
    IF ~ WellPosed(c) THEN End({c}, "invalid_argument") /\ UNCHANGED target
    ELSE IF found = {} THEN End({c}, "not_found") /\ UNCHANGED target
    ELSE \E r \in found :
           IF r.provider \notin Registered
           THEN End({c}, ConnectorStatus.ConfigError) /\ UNCHANGED target
           ELSE IF request[c].flaw = "schema"
           THEN End({c}, "invalid_argument") /\ UNCHANGED target
           ELSE Goto(c, "client") /\ target' = [target EXCEPT ![c] = r]

handle_statement(c) == Choose(c, find_connection(c))

\* Only get_flight_info looks at the type of the command.
handle_fallback(c) ==
    IF request[c].op = "unknown_command" THEN End({c}, "unimplemented") /\ UNCHANGED target
    ELSE handle_statement(c)

dispatch_action(c) ==
    CASE request[c].op = "check_connection" -> handle_statement(c)
      [] request[c].op = "supported_connectors" -> End({c}, "ok") /\ UNCHANGED target
      [] request[c].op = "check_credentials" -> Choose(c, find_type(c))
      [] OTHER -> End({c}, "invalid_argument") /\ UNCHANGED target

AnswerAtOnce(c) == End({c}, "ok") /\ UNCHANGED target

Handle(c) ==
    /\ pc[c] = "handle"
    /\ CASE request[c].op \in {"sql_info", "tables_info"} -> AnswerAtOnce(c)
         [] request[c].op \in {"statement_info", "statement", "tables"} -> handle_statement(c)
         [] request[c].op \in {"download_info", "download", "unknown_command"} -> handle_fallback(c)
         [] OTHER -> dispatch_action(c)
    /\ UNCHANGED <<worldVars, cache, request, user, fetched, basis, faults>>

\* The meta store cannot be reached, or its query fails.
LookupFails(c) ==
    /\ pc[c] = "handle"
    /\ request[c].op \in OnConnection \cup {"check_credentials"}
    /\ WellPosed(c)
    /\ faults < MaxFaults
    /\ faults' = faults + 1
    /\ \E status \in {"unavailable", "internal"} : End({c}, status)
    /\ UNCHANGED <<worldVars, cache, request, user, target, fetched, basis>>

\* The reader at work: schema, read_tabular, read_binary, list_tables or
\* check_connection, where the connector has it.
Supports(provider, op) == op \in {"download_info", "download"} => provider \in {"s3", "uri"}

Read(c) ==
    /\ pc[c] = "read"
    /\ \/ /\ End({c}, IF Supports(target[c].provider, request[c].op) THEN "ok"
                       ELSE ConnectorStatus.UnsupportedOperation)
          /\ UNCHANGED faults
       \/ /\ faults < MaxFaults
          /\ faults' = faults + 1
          /\ \E error \in ReadErrors : End({c}, ConnectorStatus[error])
    /\ UNCHANGED <<worldVars, cache, request, user, target, fetched, basis>>

(***************************************************************************)
(* A client goes away: its request is dropped where it is.  If it was      *)
(* asking for what others wait for, one of them asks instead.              *)
(***************************************************************************)
Drop(c, left) ==
    /\ pc[c] \notin {"arrive", "done"}
    /\ faults < MaxFaults
    /\ faults' = faults + 1
    /\ End({c}, "cancelled")
    /\ fetched' = [fetched EXCEPT ![c] = left]
    /\ UNCHANGED <<worldVars, cache, request, user, target, basis>>
CancelAbandons(c) == Drop(c, fetched[c])
Cancel(c) == Drop(c, {})

Step(c) ==
    \/ AuthMiddleware(c) \/ validate_headers(c)
    \/ Hit(c) \/ Load(c) \/ Insert(c) \/ BuildFails(c) \/ LoadFails(c)
    \/ Handle(c) \/ LookupFails(c) \/ Read(c)

(***************************************************************************)
(* The world.  The clock does not outrun an answer that is under way: what *)
(* an initializer asks of the cluster comes back within Transit.  Tokens   *)
(* and grants come and go, secrets are rotated and deleted, connections    *)
(* are deleted and patched to another type or secret, and a cache forgets  *)
(* what it likes.                                                          *)
(***************************************************************************)
Tick ==
    /\ now < MaxTime
    /\ \A c \in Calls : \A f \in fetched[c] : now + 1 - f.seen <= Transit
    /\ now' = now + 1
    /\ past' = past \cup {<<now + 1, q, truth[q]>> : q \in DOMAIN truth}
    /\ UNCHANGED <<truth, rows, cache, request, pc, user, target, fetched, basis, result,
                   changes, faults>>

AnswersTo(q) ==
    CASE q[1] = "token" -> {"nobody"}
      [] q[1] \in {"access", "secret"} -> {"yes", "no"}
      [] q[1] = "content" -> Versions \cup {"missing"}
      [] OTHER -> {}

TruthChanges ==
    /\ changes < MaxChanges
    /\ \E q \in DOMAIN truth : \E answer \in AnswersTo(q) \ {truth[q]} :
         /\ truth' = [truth EXCEPT ![q] = answer]
         /\ past' = past \cup {<<now, q, answer>>}
    /\ changes' = changes + 1
    /\ UNCHANGED <<now, rows, cache, request, pc, user, target, fetched, basis, result, faults>>

RowChanges ==
    /\ changes < MaxChanges
    /\ \E r \in rows :
         \/ rows' = rows \ {r}
         \/ \E p \in Types \cup {r.provider}, s \in SecretNames :
              /\ <<p, s>> # <<r.provider, r.secret>>
              /\ rows' = (rows \ {r}) \cup {[r EXCEPT !.provider = p, !.secret = s]}
    /\ changes' = changes + 1
    /\ UNCHANGED <<now, truth, past, cache, request, pc, user, target, fetched, basis, result,
                   faults>>

Evict ==
    /\ faults < MaxFaults
    /\ faults' = faults + 1
    /\ \E entry \in cache : cache' = cache \ {entry}
    /\ UNCHANGED <<worldVars, request, pc, user, target, fetched, basis, result>>

RequestsNext ==
    \/ \E c \in Calls : Step(c) \/ Cancel(c)
    \/ Tick \/ TruthChanges \/ RowChanges \/ Evict

\* The runtime polls every task that can go on.  What an initializer calls
\* comes back: the cluster's API answers or refuses, and a pool or client is
\* opened within its acquire or connect timeout.  Of a read it is assumed
\* that the source ends it, for a query on a database has no timeout:
\* DataReaders models the one that does not end.
RequestsSpec ==
    /\ RequestsInit /\ [][RequestsNext]_requestVars
    /\ \A c \in Calls : WF_requestVars(Step(c))
-----------------------------------------------------------------------------

Places == {"arrive", "token", "access", "secret", "handle", "client", "read", "done"}
Statuses == {"none", "ok", "unauthenticated", "permission_denied", "invalid_argument", "not_found",
             "unavailable", "internal", "unimplemented", "cancelled"}

\* ReadErrors are kinds of ConnectorError.
ASSUME ReadErrorsAssumption == ReadErrors \subseteq DOMAIN ConnectorStatus

OneLoader ==
    /\ \A c \in Calls : \A f \in fetched[c] : Waits(c) /\ f.key = Key(c)
    /\ \A c, d \in Calls : \A f \in fetched[c], g \in fetched[d] : f.key = g.key => c = d

\* The state is well formed: no two calls ask for the same key at once, and
\* only a call that waits for an answer asks for it (try_get_with).
RequestsTypeOK ==
    /\ now \in 0 .. MaxTime
    /\ pc \in [Calls -> Places]
    /\ result \in [Calls -> Statuses]
    /\ \A c \in Calls : (pc[c] = "done") = (result[c] # "none")
    /\ OneLoader
    /\ changes \in 0 .. MaxChanges
    /\ faults \in 0 .. MaxFaults

\* Every answer that a request went by, a grant as well as a refusal, and
\* every secret that a client was built of, was true not longer ago than
\* the time to live of its cache and the time it was under way, however
\* many requests shared it (token_cache, sar_cache and the connectors'
\* caches).  Only the clients of SQLite are kept for good.
AnswersCurrent ==
    \A c \in Calls : \A b \in basis[c] :
      ~ Lasting(b.key) =>
        /\ b.at - b.seen <= Transit \/ b.at - b.seen < TimeToLive(b.key) + Transit
        /\ <<b.seen, b.about, b.answer>> \in past

\* A request that reads from a source does it for a user whom the cluster
\* granted the tenant, on a connection of that tenant, with a client built
\* of that tenant's secret; credentials that came with a test are used by
\* that test alone, although all of them pass the same caches
\* (AuthMiddleware, get_connector_by_connection_id, check_credentials).
Vouched(c, question, answer) == \E b \in basis[c] : b.about = question /\ b.answer = answer

ServedWithinTenant ==
    \A c \in Calls :
      /\ pc[c] = "read" =>
           /\ target[c].tenant = request[c].tenant
           /\ Vouched(c, <<"token", request[c].token>>, user[c])
           /\ Vouched(c, <<"access", user[c], request[c].tenant>>, "yes")
      /\ \A b \in basis[c] :
           /\ b.key[1] = "client" => b.about[1] = "content" /\ b.about[2] = request[c].tenant
           /\ b.key[1] # "client" => b.about = b.key
           /\ b.key[1] = "inline" => b.key = <<"inline", c>>
           /\ request[c].op = "check_credentials" => b.key[1] # "client"

\* Every request is answered, also when the one it waits for goes away.
EveryRequestAnswered == \A c \in Calls : <>(pc[c] = "done")
=============================================================================
