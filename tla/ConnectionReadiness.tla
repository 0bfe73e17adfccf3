------------------------ MODULE ConnectionReadiness ------------------------
(***************************************************************************)
(* POST /connections/{id}/readiness for one connection: the REST service   *)
(* reads the connection, its type and its secret, checks the secret, and   *)
(* has the Flight service try the data source; then it stores the verdict  *)
(* as the connection's status (audit_data_connection, state/audit.rs).     *)
(* The Flight service reads the connection again and takes a reader from   *)
(* the cache its connector keeps per connection, opening one if there is   *)
(* none (connectors/postgres/src/connector.rs).                            *)
(*                                                                         *)
(* Checks overlap; meanwhile users patch or delete the connection, secrets *)
(* are rotated or deleted, the source changes whose credentials it takes,  *)
(* the Flight service is registered or not, and calls fail.                *)
(***************************************************************************)
EXTENDS Naturals

CONSTANTS
    Workers,        \* readiness checks being served
    SecretNames,    \* names of secrets in the tenant's namespace
    Creds,          \* contents of secrets
    WellFormed,     \* contents with the fields the connection type requires
    Null,           \* nothing there
    InitSecret,     \* the secret the connection refers to at the start
    InitSecrets,    \* the secrets at the start
    InitAccepted,   \* the credentials the data source takes at the start
    MaxChanges,     \* bound: changes made by others
    MaxFaults       \* bound: calls that fail and checks that are dropped

VARIABLES
    row,            \* the connection: its credentials_ref and its status
    secrets,        \* contents of the secrets
    accepted,       \* credentials the data source takes
    registered,     \* a Flight service is registered for the connector
    pool,           \* cached reader: the credentials it was opened with
    opening,        \* the check whose get_reader opens one, or Null
    pc,             \* what a check does next
    secretName,     \* credentials_ref as the check last read it
    reader,         \* the reader the check uses
    verdict,        \* the status the check will write
    solo,           \* nothing else changed or failed since the check began
    changes,        \* changes so far
    faults          \* failures so far

world == <<row, secrets, accepted, registered>>
cache == <<pool, opening>>
readinessVars == <<row, secrets, accepted, registered, pool, opening, pc, secretName, reader,
                   verdict, solo, changes, faults>>

States == {"ready", "ingestion_not_ready", "not_ready"}
ConnectionRow == [secret : SecretNames, status : States]

ASSUME ReadinessAssumption ==
    /\ WellFormed \subseteq Creds
    /\ InitSecret \in SecretNames
    /\ InitSecrets \in [SecretNames -> Creds \cup {Null}]
    /\ InitAccepted \subseteq Creds
    /\ MaxChanges \in Nat
    /\ MaxFaults \in Nat
    /\ Null \notin Workers \cup SecretNames \cup Creds \cup States \cup ConnectionRow

ReadinessInit ==
    /\ row = [secret |-> InitSecret, status |-> "not_ready"]
    /\ secrets = InitSecrets
    /\ accepted = InitAccepted
    /\ registered = TRUE
    /\ pool = Null
    /\ opening = Null
    /\ pc = [w \in Workers |-> "idle"]
    /\ secretName = [w \in Workers |-> Null]
    /\ reader = [w \in Workers |-> Null]
    /\ verdict = [w \in Workers |-> Null]
    /\ solo = [w \in Workers |-> FALSE]
    /\ changes = 0
    /\ faults = 0

Goto(w, place) == pc' = [pc EXCEPT ![w] = place]

Answer(w) ==
    /\ Goto(w, "idle")
    /\ secretName' = [secretName EXCEPT ![w] = Null]
    /\ reader' = [reader EXCEPT ![w] = Null]
    /\ verdict' = [verdict EXCEPT ![w] = Null]

\* The check of w has come to a verdict, which it stores next.
DecideUnset(w, state) ==
    /\ Goto(w, "write")
    /\ verdict' = [verdict EXCEPT ![w] = "unset"]

Decide(w, state) ==
    /\ Goto(w, "write")
    /\ verdict' = [verdict EXCEPT ![w] = state]

-----------------------------------------------------------------------------
(***************************************************************************)
(* The REST service: the connection (and its type), the secret and its     *)
(* schema, the Flight service for the type's connector.  A connection that *)
(* is not there, and a connector that nobody serves, end the check without *)
(* a new status.                                                           *)
(***************************************************************************)
Begin(w) ==
    /\ pc[w] = "idle"
    /\ Goto(w, "connection")
    /\ solo' = [solo EXCEPT ![w] = TRUE]
    /\ UNCHANGED <<world, cache, secretName, reader, verdict, changes, faults>>

GetConnection(w) ==
    /\ pc[w] = "connection"
    /\ IF row = Null
       THEN Answer(w)
       ELSE /\ secretName' = [secretName EXCEPT ![w] = row.secret]
            /\ Goto(w, "secret")
            /\ UNCHANGED <<reader, verdict>>
    /\ UNCHANGED <<world, cache, solo, changes, faults>>

\* check_credentials_schema left out.
GetSecretUnchecked(w) ==
    /\ pc[w] = "secret"
    /\ IF secrets[secretName[w]] # Null
       THEN Goto(w, "flight") /\ UNCHANGED verdict
       ELSE Decide(w, "not_ready")
    /\ UNCHANGED <<world, cache, secretName, reader, solo, changes, faults>>

GetSecret(w) ==
    /\ pc[w] = "secret"
    /\ IF secrets[secretName[w]] \in WellFormed
       THEN Goto(w, "flight") /\ UNCHANGED verdict
       ELSE Decide(w, "not_ready")
    /\ UNCHANGED <<world, cache, secretName, reader, solo, changes, faults>>

FindFlightService(w) ==
    /\ pc[w] = "flight"
    /\ IF registered
       THEN Goto(w, "lookup") /\ UNCHANGED <<secretName, reader, verdict>>
       ELSE Answer(w)
    /\ UNCHANGED <<world, cache, solo, changes, faults>>

(***************************************************************************)
(* set_data_connection_status: an update of the row as it is now, whatever *)
(* became of it since; a row that is gone is an error and stays gone.      *)
(***************************************************************************)
WriteStatus(w) ==
    /\ pc[w] = "write"
    /\ row' = IF row = Null THEN Null ELSE [row EXCEPT !.status = verdict[w]]
    /\ Answer(w)
    /\ UNCHANGED <<secrets, accepted, registered, cache, solo, changes, faults>>

-----------------------------------------------------------------------------
(***************************************************************************)
(* The Flight service: action_check_connection.  Any error it answers with *)
(* is the verdict ingestion_not_ready.                                     *)
(***************************************************************************)
GetConnector(w) ==
    /\ pc[w] = "lookup"
    /\ IF row = Null
       THEN Decide(w, "ingestion_not_ready") /\ UNCHANGED secretName
       ELSE /\ secretName' = [secretName EXCEPT ![w] = row.secret]
            /\ Goto(w, "reader")
            /\ UNCHANGED verdict
    /\ UNCHANGED <<world, cache, reader, solo, changes, faults>>

(***************************************************************************)
(* get_reader: try_get_with on the connection's identifier.  A cached pool *)
(* is used as it is; of several that find none, one opens it and the       *)
(* others wait and share what it gets, a pool or an error.                 *)
(***************************************************************************)
GetReader(w) ==
    /\ pc[w] = "reader"
    /\ opening = Null
    /\ IF pool # Null
       THEN /\ reader' = [reader EXCEPT ![w] = pool]
            /\ Goto(w, "select")
            /\ UNCHANGED opening
       ELSE /\ opening' = w
            /\ Goto(w, "open")
            /\ UNCHANGED reader
    /\ UNCHANGED <<world, pool, secretName, verdict, solo, changes, faults>>

AwaitReader(w) ==
    /\ pc[w] = "reader"
    /\ opening # Null
    /\ Goto(w, "await")
    /\ UNCHANGED <<world, cache, secretName, reader, verdict, solo, changes, faults>>

Sharing == {w \in Workers : w = opening \/ pc[w] = "await"}

\* The error is told only to the check that opened.
OpenFailsAlone ==
    /\ opening' = Null
    /\ pc' = [pc EXCEPT ![opening] = "write"]
    /\ verdict' = [verdict EXCEPT ![opening] = "ingestion_not_ready"]
    /\ UNCHANGED <<pool, reader>>

OpenFails ==
    /\ opening' = Null
    /\ pc' = [v \in Workers |-> IF v \in Sharing THEN "write" ELSE pc[v]]
    /\ verdict' = [v \in Workers |-> IF v \in Sharing THEN "ingestion_not_ready" ELSE verdict[v]]
    /\ UNCHANGED <<pool, reader>>

ResolveCredentials(w) ==
    /\ pc[w] = "open"
    /\ LET creds == secrets[secretName[w]] IN
       IF creds = Null
       THEN OpenFails
       ELSE /\ reader' = [reader EXCEPT ![w] = creds]
            /\ Goto(w, "connect")
            /\ UNCHANGED <<cache, verdict>>
    /\ UNCHANGED <<world, secretName, solo, changes, faults>>

Connect(w) ==
    /\ pc[w] = "connect"
    /\ IF reader[w] \in accepted
       THEN /\ pool' = reader[w]
            /\ opening' = Null
            /\ reader' = [v \in Workers |-> IF v \in Sharing THEN reader[w] ELSE reader[v]]
            /\ pc' = [v \in Workers |-> IF v \in Sharing THEN "select" ELSE pc[v]]
            /\ UNCHANGED verdict
       ELSE OpenFails
    /\ UNCHANGED <<world, secretName, solo, changes, faults>>

(***************************************************************************)
(* check_connection: SELECT 1 on a connection of the pool.  One opened     *)
(* before the source stopped taking the credentials still answers; a new   *)
(* one does not.                                                           *)
(***************************************************************************)
SelectOne(w) ==
    /\ pc[w] = "select"
    /\ \/ Decide(w, "ready")
       \/ reader[w] \notin accepted /\ Decide(w, "ingestion_not_ready")
    /\ UNCHANGED <<world, cache, secretName, reader, solo, changes, faults>>

\* time_to_live, time_to_idle, max_capacity: the cache drops the pool.
ExpireNever == FALSE /\ UNCHANGED readinessVars
Expire ==
    /\ pool # Null
    /\ pool' = Null
    /\ UNCHANGED <<world, opening, pc, secretName, reader, verdict, solo, changes, faults>>

-----------------------------------------------------------------------------
(***************************************************************************)
(* A call fails.  get_secret reports every error as a missing secret; the  *)
(* errors of the meta store and a failed status update end the check; an   *)
(* error on the Flight side is its verdict.  Or the request is dropped; if *)
(* it was opening a pool, one of those that waited does it instead.        *)
(***************************************************************************)
Fault ==
    /\ faults < MaxFaults
    /\ faults' = faults + 1
    /\ solo' = [v \in Workers |-> FALSE]

CallFails(w) ==
    /\ Fault
    /\ \/ pc[w] \in {"connection", "flight", "write"} /\ Answer(w) /\ UNCHANGED cache
       \/ pc[w] = "secret" /\ Decide(w, "not_ready") /\ UNCHANGED <<cache, secretName, reader>>
       \/ /\ pc[w] \in {"lookup", "select"}
          /\ Decide(w, "ingestion_not_ready")
          /\ UNCHANGED <<cache, secretName, reader>>
       \/ pc[w] \in {"open", "connect"} /\ OpenFails /\ UNCHANGED secretName
    /\ UNCHANGED <<world, changes>>

Dropped(w) ==
    /\ pc[w] # "idle"
    /\ Fault
    /\ pc' = [v \in Workers |->
                CASE v = w -> "idle"
                  [] v # w /\ opening = w /\ pc[v] = "await" -> "reader"
                  [] OTHER -> pc[v]]
    /\ opening' = IF opening = w THEN Null ELSE opening
    /\ secretName' = [secretName EXCEPT ![w] = Null]
    /\ reader' = [reader EXCEPT ![w] = Null]
    /\ verdict' = [verdict EXCEPT ![w] = Null]
    /\ UNCHANGED <<world, pool, changes>>

(***************************************************************************)
(* What others do meanwhile: a merge patch of credentials_ref (which keeps *)
(* the status) and the deletion of the connection; a secret is written or  *)
(* deleted; the source starts or stops taking credentials; a Flight        *)
(* service for the connector is registered or removed.                     *)
(***************************************************************************)
PatchConnection == \E name \in SecretNames :
    row # Null /\ row' = [row EXCEPT !.secret = name] /\ UNCHANGED <<secrets, accepted, registered>>
DeleteConnection ==
    row # Null /\ row' = Null /\ UNCHANGED <<secrets, accepted, registered>>
WriteSecret == \E name \in SecretNames, creds \in Creds \cup {Null} :
    secrets' = [secrets EXCEPT ![name] = creds] /\ UNCHANGED <<row, accepted, registered>>
SourceChanges == \E creds \in WellFormed :
    /\ accepted' = IF creds \in accepted THEN accepted \ {creds} ELSE accepted \cup {creds}
    /\ UNCHANGED <<row, secrets, registered>>
RegistrationChanges == registered' = ~registered /\ UNCHANGED <<row, secrets, accepted>>

Change ==
    /\ changes < MaxChanges
    /\ changes' = changes + 1
    /\ PatchConnection \/ DeleteConnection \/ WriteSecret \/ SourceChanges \/ RegistrationChanges
    /\ solo' = [w \in Workers |-> FALSE]
    /\ UNCHANGED <<cache, pc, secretName, reader, verdict, faults>>

CheckStep(w) ==
    \/ GetConnection(w) \/ GetSecret(w) \/ FindFlightService(w) \/ GetConnector(w)
    \/ GetReader(w) \/ AwaitReader(w) \/ ResolveCredentials(w) \/ Connect(w) \/ SelectOne(w)
    \/ WriteStatus(w)

ReadinessNext ==
    \/ \E w \in Workers : Begin(w) \/ CheckStep(w) \/ CallFails(w) \/ Dropped(w)
    \/ Expire \/ Change

(***************************************************************************)
(* The services poll the checks they have begun: acquiring and connecting  *)
(* have timeouts, and SELECT 1, which has none, is assumed to be answered  *)
(* or to fail.  And time_to_live runs out: it counts from the insertion,   *)
(* however often the pool is used.                                         *)
(***************************************************************************)
ReadinessFairness ==
    /\ \A w \in Workers : WF_readinessVars(CheckStep(w))
    /\ WF_readinessVars(Expire)

ReadinessSpec == ReadinessInit /\ [][ReadinessNext]_readinessVars /\ ReadinessFairness

-----------------------------------------------------------------------------
ReadinessTypeOK ==
    /\ row \in ConnectionRow \cup {Null}
    /\ secrets \in [SecretNames -> Creds \cup {Null}]
    /\ accepted \subseteq Creds
    /\ registered \in BOOLEAN
    /\ pool \in Creds \cup {Null}
    /\ opening \in Workers \cup {Null}
    /\ pc \in [Workers -> {"idle", "connection", "secret", "flight", "lookup", "reader", "await",
                           "open", "connect", "select", "write"}]
    /\ secretName \in [Workers -> SecretNames \cup {Null}]
    /\ reader \in [Workers -> Creds \cup {Null}]
    /\ verdict \in [Workers -> States \cup {Null}]
    /\ solo \in [Workers -> BOOLEAN]
    /\ changes \in 0..MaxChanges
    /\ faults \in 0..MaxFaults

(***************************************************************************)
(* Every check ends.  A check that waits for the reader another one opens  *)
(* is told when that fails, and takes over when that is dropped.           *)
(***************************************************************************)
ChecksEnd == \A w \in Workers : pc[w] # "idle" ~> pc[w] = "idle"

\* The secret the connection refers to is there and matches its type's schema.
SecretValid == secrets[row.secret] \in WellFormed

(***************************************************************************)
(* The verdicts on the secret.  A check that nothing interfered with says  *)
(* not_ready ("a secret that is not valid or missing") exactly when the    *)
(* secret is, whatever reader the Flight service still has.                *)
(***************************************************************************)
SecretVerdict ==
    [][\A w \in Workers : (WriteStatus(w) /\ solo[w])
          => (verdict[w] = "not_ready" <=> ~SecretValid)]_readinessVars

\* The status the connection should have, as DataConnectionState describes it.
Expected ==
    IF ~SecretValid THEN "not_ready"
    ELSE IF secrets[row.secret] \in accepted THEN "ready" ELSE "ingestion_not_ready"

(***************************************************************************)
(* If checks keep being made, the status ends up right and stays so, once  *)
(* the world and the failures have come to rest: a verdict reached from    *)
(* what was read earlier, or with a pool opened with other credentials, is *)
(* corrected.  Without a registered Flight service no check gets that far. *)
(***************************************************************************)
Checked == \E w \in Workers : pc[w] = "write"
StatusSettles ==
    []<>Checked => <>[](row # Null /\ registered => row.status = Expected)

(***************************************************************************)
(* A check that nothing interfered with answers "Connection is ready" only *)
(* if the data source takes the credentials of the connection's secret.    *)
(***************************************************************************)
ReadyMeansAccepted ==
    [][\A w \in Workers : (WriteStatus(w) /\ solo[w] /\ verdict[w] = "ready")
          => secrets[row.secret] \in accepted]_readinessVars
=============================================================================
