---------------------------- MODULE InlineCreate ----------------------------
(***************************************************************************)
(* Connections and the Kubernetes secrets that hold their credentials      *)
(* (services/rest/src/rest/endpoints.rs, libs/kube-utils/src/secrets.rs).  *)
(* POST /connections with inline credentials creates a secret and then the *)
(* row that refers to it, in two systems with no transaction over both; if *)
(* the row cannot be created the secret is deleted again.  Requests that   *)
(* refer to an existing secret, deletions and exports of connections run   *)
(* meanwhile, and so do users of the cluster, who may delete a secret.     *)
(***************************************************************************)
CONSTANTS
    Handlers,       \* requests being served; each handler serves one
    Names,          \* names of connections, unique in the tenant
    SecretNames,    \* names of secrets in the tenant's namespace
    Requests,       \* what the handlers may be asked
    Exported,       \* content an export writes
    Null            \* no row, no secret, no request

VARIABLES
    rows,           \* connections: who created each, and its credentials_ref
    secrets,        \* secrets: the handler whose credentials they hold
    pc,             \* what a handler does next
    req,            \* what it was asked
    answer,         \* what it answered
    lost,           \* handlers whose COMMIT took effect but was reported failed
    unclean,        \* handlers that could not clean up: see Fault
    deleted,        \* handlers whose connection was deleted later
    touched         \* secrets that exports or users of the cluster have written

inlineVars == <<rows, secrets, pc, req, answer, lost, unclean, deleted, touched>>

Request == [op : {"inline", "ref", "delete", "export"}, name : Names, secret : SecretNames]
Row == [by : Handlers, secret : SecretNames]
Places == {"idle", "type", "secret", "row", "compensate", "delete", "read", "apply", "done"}
Answers == {"none", "created", "no_content", "failed"}

ASSUME InlineAssumption ==
    /\ Requests \subseteq Request
    /\ Exported \notin Handlers
    /\ Null \notin Handlers \cup {Exported} \cup Request \cup Row

InlineInit ==
    /\ rows = [n \in Names |-> Null]
    /\ secrets = [s \in SecretNames |-> Null]
    /\ pc = [h \in Handlers |-> "idle"]
    /\ req = [h \in Handlers |-> Null]
    /\ answer = [h \in Handlers |-> "none"]
    /\ lost = {}
    /\ unclean = {}
    /\ deleted = {}
    /\ touched = {}

Goto(h, place) == pc' = [pc EXCEPT ![h] = place] /\ UNCHANGED answer
Answer(h, outcome) ==
    /\ pc' = [pc EXCEPT ![h] = "done"]
    /\ answer' = [answer EXCEPT ![h] = outcome]

(***************************************************************************)
(* create_connection dispatches on the variant of the body.                *)
(***************************************************************************)
First(op) ==
    CASE op = "inline" -> "type" [] op = "ref" -> "row" [] op = "delete" -> "delete"
      [] op = "export" -> "read"

Begin(h, r) ==
    /\ pc[h] = "idle"
    /\ req' = [req EXCEPT ![h] = r]
    /\ Goto(h, First(r.op))
    /\ UNCHANGED <<rows, secrets, lost, unclean, deleted, touched>>

\* The type is there and the credentials match its schema, or the request ends (Refused).
GetType(h) ==
    /\ pc[h] = "type"
    /\ Goto(h, "secret")
    /\ UNCHANGED <<rows, secrets, req, lost, unclean, deleted, touched>>

(***************************************************************************)
(* create_secret(overwrite = false): POST, refused if the name is taken.   *)
(***************************************************************************)
CreateSecretOverwriting(h) ==
    /\ pc[h] = "secret"
    /\ secrets' = [secrets EXCEPT ![req[h].secret] = h]
    /\ Goto(h, "row")
    /\ UNCHANGED <<rows, req, lost, unclean, deleted, touched>>

CreateSecret(h) ==
    /\ pc[h] = "secret"
    /\ IF secrets[req[h].secret] # Null
       THEN Answer(h, "failed") /\ UNCHANGED secrets
       ELSE /\ secrets' = [secrets EXCEPT ![req[h].secret] = h]
            /\ Goto(h, "row")
    /\ UNCHANGED <<rows, req, lost, unclean, deleted, touched>>

(***************************************************************************)
(* create_data_connection of the meta store, atomic (ConnectionStore): the *)
(* row is stored, or the name is taken, or it is refused for another       *)
(* reason.  After a failure an inline request deletes the secret.          *)
(***************************************************************************)
RowFailsKeepingSecret(h) == Answer(h, "failed")
RowFails(h) == IF req[h].op = "inline" THEN Goto(h, "compensate") ELSE Answer(h, "failed")

StoredWithoutRef(h) == rows' = [rows EXCEPT ![req[h].name] = [by |-> h, secret |-> Null]]
Stored(h) == rows' = [rows EXCEPT ![req[h].name] = [by |-> h, secret |-> req[h].secret]]

CreateRow(h) ==
    /\ pc[h] = "row"
    /\ \/ rows[req[h].name] = Null /\ Stored(h) /\ Answer(h, "created")
       \/ RowFails(h) /\ UNCHANGED rows
    /\ UNCHANGED <<secrets, req, lost, unclean, deleted, touched>>

\* The secret is deleted by name, whoever wrote it last; a failure is only logged.
Compensate(h) ==
    /\ pc[h] = "compensate"
    /\ secrets' = [secrets EXCEPT ![req[h].secret] = Null]
    /\ Answer(h, "failed")
    /\ UNCHANGED <<rows, req, lost, unclean, deleted, touched>>

(***************************************************************************)
(* delete_connection leaves the secret.  export_connection reads the       *)
(* connection and its secret, then applies the secret it was asked for,    *)
(* over whatever has that name.                                            *)
(***************************************************************************)
DeleteConnection(h) ==
    /\ pc[h] = "delete"
    /\ LET n == req[h].name IN
       IF rows[n] # Null
       THEN /\ rows' = [rows EXCEPT ![n] = Null]
            /\ deleted' = deleted \cup {rows[n].by}
            /\ Answer(h, "no_content")
       ELSE Answer(h, "failed") /\ UNCHANGED <<rows, deleted>>
    /\ UNCHANGED <<secrets, req, lost, unclean, touched>>

ReadForExport(h) ==
    /\ pc[h] = "read"
    /\ LET n == req[h].name IN
       IF rows[n] # Null /\ secrets[rows[n].secret] # Null
       THEN Goto(h, "apply")
       ELSE Answer(h, "failed")
    /\ UNCHANGED <<rows, secrets, req, lost, unclean, deleted, touched>>

ApplyExport(h) ==
    /\ pc[h] = "apply"
    /\ secrets' = [secrets EXCEPT ![req[h].secret] = Exported]
    /\ touched' = touched \cup {req[h].secret}
    /\ Answer(h, "no_content")
    /\ UNCHANGED <<rows, req, lost, unclean, deleted>>

\* Authorization, validation or a read fails before anything is written.
Refused(h) ==
    /\ pc[h] \in {"type", "delete", "read", "apply"} \/ (pc[h] = "row" /\ req[h].op = "ref")
    /\ Answer(h, "failed")
    /\ UNCHANGED <<rows, secrets, req, lost, unclean, deleted, touched>>

(***************************************************************************)
(* What leaves a trace.  The answer of the API server to create_secret, or *)
(* of the database to COMMIT, is lost with the connection; the deletion    *)
(* fails; the process stops or the request is dropped.  At most one of     *)
(* these befalls a request.                                                *)
(***************************************************************************)
Fault(h) == h \notin unclean /\ unclean' = unclean \cup {h}

LostCreateSecret(h) ==
    /\ pc[h] = "secret" /\ secrets[req[h].secret] = Null
    /\ Fault(h)
    /\ secrets' = [secrets EXCEPT ![req[h].secret] = h]
    /\ Answer(h, "failed")
    /\ UNCHANGED <<rows, req, lost, deleted, touched>>

LostCommit(h) ==
    /\ pc[h] = "row" /\ rows[req[h].name] = Null
    /\ Fault(h)
    /\ Stored(h)
    /\ lost' = lost \cup {h}
    /\ RowFails(h)
    /\ UNCHANGED <<secrets, req, deleted, touched>>

CompensationFails(h) ==
    /\ pc[h] = "compensate"
    /\ Fault(h)
    /\ Answer(h, "failed")
    /\ UNCHANGED <<rows, secrets, req, lost, deleted, touched>>

Crash(h) ==
    /\ pc[h] \notin {"idle", "done"}
    /\ Fault(h)
    /\ pc' = [pc EXCEPT ![h] = "done"]
    /\ UNCHANGED <<rows, secrets, req, answer, lost, deleted, touched>>

UserDeletesSecret(s) ==
    /\ secrets[s] # Null
    /\ secrets' = [secrets EXCEPT ![s] = Null]
    /\ touched' = touched \cup {s}
    /\ UNCHANGED <<rows, pc, req, answer, lost, unclean, deleted>>

InlineNext ==
    \/ \E h \in Handlers :
          \/ \E r \in Requests : Begin(h, r)
          \/ GetType(h) \/ CreateSecret(h) \/ CreateRow(h) \/ Compensate(h)
          \/ DeleteConnection(h) \/ ReadForExport(h) \/ ApplyExport(h) \/ Refused(h)
          \/ LostCreateSecret(h) \/ LostCommit(h) \/ CompensationFails(h) \/ Crash(h)
    \/ \E s \in SecretNames : UserDeletesSecret(s)

InlineSpec == InlineInit /\ [][InlineNext]_inlineVars

-----------------------------------------------------------------------------
InlineTypeOK ==
    /\ rows \in [Names -> Row \cup {Null}]
    /\ secrets \in [SecretNames -> Handlers \cup {Exported, Null}]
    /\ pc \in [Handlers -> Places]
    /\ req \in [Handlers -> Request \cup {Null}]
    /\ answer \in [Handlers -> Answers]
    /\ lost \subseteq Handlers
    /\ unclean \subseteq Handlers
    /\ deleted \subseteq Handlers
    /\ touched \subseteq SecretNames

(***************************************************************************)
(* A connection created with inline credentials keeps its secret, and the  *)
(* secret the credentials it was created with.  No request that runs       *)
(* beside it, and no request's compensation, takes it away; only an export *)
(* to that name, a user of the cluster, or its own lost COMMIT does.       *)
(***************************************************************************)
RowsHaveSecrets ==
    \A n \in Names : rows[n] # Null =>
        LET h == rows[n].by
            s == rows[n].secret
        IN  req[h].op = "inline" => secrets[s] = h \/ s \in touched \/ h \in lost

(***************************************************************************)
(* A request that fails leaves no secret behind: a secret made for inline  *)
(* credentials belongs to the connection it was made for, unless that was  *)
(* deleted since, or an answer, the deletion or the handler was lost.      *)
(***************************************************************************)
NothingLeft ==
    \A s \in SecretNames, h \in Handlers :
        secrets[s] = h /\ pc[h] = "done" =>
            \/ h \in unclean \cup deleted
            \/ \E n \in Names : rows[n] = [by |-> h, secret |-> s]
=============================================================================
