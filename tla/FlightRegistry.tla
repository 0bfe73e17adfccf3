--------------------------- MODULE FlightRegistry ---------------------------
(***************************************************************************)
(* Registration of the Flight service and the status of connection types.  *)
(* The controller posts the Flight service of its DataConnectService to    *)
(* the REST service on every reconcile (registerFlightService of           *)
(* dataconnectservice_controller.go, restclient.go).  The REST service     *)
(* asks it for its connectors, compares them with the registered ones,     *)
(* stores it, and then audits: it copies to every connection type whether  *)
(* a Flight service supports it and where (endpoints.rs, state/audit.rs).  *)
(* The other requests that end with an audit are here too.                 *)
(*                                                                         *)
(* A handler is a sequence of store calls, each atomic; handlers of one or *)
(* several replicas interleave.  A store call may fail, and a handler may  *)
(* be dropped with its client's connection or its process.                 *)
(***************************************************************************)
EXTENDS Naturals, FiniteSets

CONSTANTS
    Workers,        \* handlers of the REST service
    FlightIds,      \* identifiers of registered Flight services
    TypeIds,        \* identifiers of connection types
    Providers,      \* connector names
    Names,          \* names that a Flight service may be registered under
    OwnName,        \* the name that the controller registers
    Supported,      \* connectors of the controller's Flight service
    Null,           \* no row, no Flight service
    InitProviders,  \* the provider of each connection type at the start, or Null
    Requests,       \* what users and administrators may request
    MaxRequests,    \* bound: how many of those are made
    MaxFaults       \* bound: calls that fail, handlers dropped, timeouts

VARIABLES
    services,       \* rows of flight_services
    dctypes,        \* rows of data_connection_types
    pc,             \* what a handler does next
    op,             \* the request a handler serves
    found,          \* handler's copy of the registered Flight services
    todo,           \* types a handler still has to write the status of
    solo,           \* since the handler read, nobody else wrote
    exposed,        \* services that a comparison may have missed
    issued,         \* identifiers drawn so far
    controller,     \* the handler the controller waits for, or Null
    registration,   \* what the controller's last request came to
    made,           \* requests made by users and administrators
    faults          \* failures so far

registryVars == <<services, dctypes, pc, op, found, todo, solo, exposed, issued,
                  controller, registration, made, faults>>

Service == [name : Names, connectors : SUBSET Providers, ready : BOOLEAN]
DcType == [provider : Providers, formats : FlightIds \cup {Null}, url : FlightIds \cup {Null}]

\* A Flight service is posted under a name, and answers with its connectors
\* when it is asked; a patch has at most one value for each field.
Request ==
    [op : {"create_flight_service"}, name : Names, connectors : SUBSET Providers]
    \cup [op : {"delete_flight_service"}, id : FlightIds]
    \cup [op : {"patch_flight_service"}, id : FlightIds, name : SUBSET Names,
          connectors : SUBSET SUBSET Providers, ready : SUBSET BOOLEAN]
    \cup [op : {"create_connection_type"}, provider : Providers]
    \cup [op : {"patch_connection_type"}, id : TypeIds, provider : Providers]
    \cup [op : {"delete_connection_type"}, id : TypeIds]

ASSUME RegistryAssumption ==
    /\ Supported \subseteq Providers
    /\ Supported # {}
    /\ OwnName \in Names
    /\ InitProviders \in [TypeIds -> Providers \cup {Null}]
    /\ Requests \subseteq Request
    /\ MaxRequests \in Nat
    /\ MaxFaults \in Nat
    /\ Null \notin FlightIds \cup TypeIds \cup Providers \cup Workers \cup Service \cup DcType
                   \cup Request

\* A type is stored before its first audit with a status that says nothing.
NewDcTypeReady(provider) == [provider |-> provider, formats |-> Null, url |-> TRUE]
NewDcType(provider) == [provider |-> provider, formats |-> Null, url |-> Null]

RegistryInit ==
    /\ services = [f \in FlightIds |-> Null]
    /\ dctypes = [t \in TypeIds |->
                    IF InitProviders[t] = Null THEN Null
                    ELSE NewDcType(InitProviders[t])]
    /\ pc = [w \in Workers |-> "idle"]
    /\ op = [w \in Workers |-> Null]
    /\ found = [w \in Workers |-> [f \in FlightIds |-> Null]]
    /\ todo = [w \in Workers |-> {}]
    /\ solo = [w \in Workers |-> FALSE]
    /\ exposed = {}
    /\ issued = {t \in TypeIds : InitProviders[t] # Null}
    /\ controller = Null
    /\ registration = "none"
    /\ made = 0
    /\ faults = 0

OwnRequest == [op |-> "create_flight_service", name |-> OwnName, connectors |-> Supported]

Registered == {f \in FlightIds : services[f] # Null}
Providing(rows, provider) == {f \in FlightIds : rows[f] # Null /\ provider \in rows[f].connectors}

(***************************************************************************)
(* A handler starts, goes on, or ends with an answer.  The controller, if  *)
(* it still waits for this handler, learns the answer.                     *)
(***************************************************************************)
Goto(w, place) == pc' = [pc EXCEPT ![w] = place]

Answer(w, outcome) ==
    /\ Goto(w, "idle")
    /\ op' = [op EXCEPT ![w] = Null]
    /\ found' = [found EXCEPT ![w] = [f \in FlightIds |-> Null]]
    /\ todo' = [todo EXCEPT ![w] = {}]
    /\ IF controller = w
       THEN controller' = Null /\ registration' = outcome
       ELSE UNCHANGED <<controller, registration>>

\* A failure, one of at most MaxFaults.
Fault == faults < MaxFaults /\ faults' = faults + 1

\* A write by w: what the other handlers have read is no longer the latest.
Wrote(w) == solo' = [v \in Workers |-> solo[v] /\ v = w]

(***************************************************************************)
(* The controller registers its Flight service, at every reconcile: it     *)
(* does not remember that it has.  Status 201, 409 and the 400 that says   *)
(* connectors_already_exists are success; anything else is tried again.    *)
(***************************************************************************)
RegisterOnce(w) ==
    /\ controller = Null
    /\ registration = "none"
    /\ pc[w] = "idle"
    /\ Goto(w, "probe")
    /\ op' = [op EXCEPT ![w] = OwnRequest]
    /\ controller' = w
    /\ UNCHANGED <<services, dctypes, found, todo, solo, exposed, issued, registration, made, faults>>

Register(w) ==
    /\ controller = Null
    /\ pc[w] = "idle"
    /\ Goto(w, "probe")
    /\ op' = [op EXCEPT ![w] = OwnRequest]
    /\ controller' = w
    /\ UNCHANGED <<services, dctypes, found, todo, solo, exposed, issued, registration, made, faults>>

\* httpClient.Timeout: the handler goes on, or is dropped (Dropped).
ControllerTimeout ==
    /\ controller # Null
    /\ Fault
    /\ controller' = Null
    /\ registration' = "unavailable"
    /\ UNCHANGED <<services, dctypes, pc, op, found, todo, solo, exposed, issued, made>>

Begin(w, r) ==
    /\ pc[w] = "idle"
    /\ made < MaxRequests
    /\ made' = made + 1
    /\ op' = [op EXCEPT ![w] = r]
    /\ Goto(w, IF r.op = "create_flight_service" THEN "probe" ELSE "write")
    /\ UNCHANGED <<services, dctypes, found, todo, solo, exposed, issued, controller, registration,
                   faults>>

(***************************************************************************)
(* create_flight_service: get_supported_connectors of the service that is  *)
(* being registered, get_all_flight_services, and the comparison.          *)
(***************************************************************************)
Probe(w) ==
    /\ pc[w] = "probe"
    /\ Goto(w, "compare")
    /\ UNCHANGED <<services, dctypes, op, found, todo, solo, exposed, issued, controller, registration,
                   made, faults>>

CompareEqual(w) ==
    /\ pc[w] = "compare"
    /\ IF \E f \in Registered : services[f].connectors = op[w].connectors
       THEN Answer(w, "already_exists")
       ELSE Goto(w, "insert") /\ UNCHANGED <<op, found, todo, controller, registration>>
    /\ UNCHANGED <<services, dctypes, solo, exposed, issued, made, faults>>

Compare(w) ==
    /\ pc[w] = "compare"
    /\ IF \E f \in Registered : services[f].connectors \cap op[w].connectors # {}
       THEN Answer(w, "already_exists")
       ELSE Goto(w, "insert") /\ UNCHANGED <<op, found, todo, controller, registration>>
    /\ UNCHANGED <<services, dctypes, solo, exposed, issued, made, faults>>

(***************************************************************************)
(* INSERT INTO flight_services: the unique index on (namespace, name)      *)
(* refuses a second row of one name, and nothing else.  A registration     *)
(* under another name that is past its comparison does not see the new     *)
(* row.                                                                    *)
(***************************************************************************)
NameTaken(name, others) == \E f \in Registered \cap others : services[f].name = name

Overlooked(w) == \E v \in Workers : pc[v] = "insert" /\ op[v].name # op[w].name

InsertFlightService(w) ==
    /\ pc[w] = "insert"
    /\ IF NameTaken(op[w].name, FlightIds)
       THEN /\ Answer(w, "conflict")
            /\ UNCHANGED <<services, solo, exposed, issued>>
       ELSE /\ \E f \in FlightIds \ issued :
                  /\ services' = [services EXCEPT ![f] =
                        [name |-> op[w].name, connectors |-> op[w].connectors, ready |-> TRUE]]
                  /\ exposed' = exposed \cup (IF Overlooked(w) THEN {f} ELSE {})
                  /\ issued' = issued \cup {f}
            /\ Wrote(w)
            /\ Goto(w, "flights")
            /\ UNCHANGED <<op, found, todo, controller, registration>>
    /\ UNCHANGED <<dctypes, made, faults>>

\* json_patch::merge: a field that the patch has replaces that of the row.
Merged(old, given) == IF given = {} THEN old ELSE CHOOSE new \in given : TRUE

Patched(row, r) ==
    [name |-> Merged(row.name, r.name), connectors |-> Merged(row.connectors, r.connectors),
     ready |-> Merged(row.ready, r.ready)]

(***************************************************************************)
(* The one write of the other requests, then the audit; deleting a type    *)
(* needs none.  A row that is not there is a 404.  A patch is compared     *)
(* with nothing but the index.                                             *)
(***************************************************************************)
WriteRow(w) ==
    /\ pc[w] = "write"
    /\ LET r == op[w] IN
       \/ /\ r.op = "delete_flight_service"
          /\ services[r.id] # Null
          /\ services' = [services EXCEPT ![r.id] = Null]
          /\ Goto(w, "flights")
          /\ Wrote(w)
          /\ UNCHANGED <<dctypes, exposed, issued, op, found, todo, controller, registration>>
       \/ /\ r.op = "patch_flight_service"
          /\ services[r.id] # Null
          /\ ~ NameTaken(Patched(services[r.id], r).name, FlightIds \ {r.id})
          /\ services' = [services EXCEPT ![r.id] = Patched(@, r)]
          /\ exposed' = exposed \cup (IF r.name = {} /\ r.connectors = {} THEN {} ELSE {r.id})
          /\ Goto(w, "flights")
          /\ Wrote(w)
          /\ UNCHANGED <<dctypes, issued, op, found, todo, controller, registration>>
       \/ /\ r.op = "create_connection_type"
          /\ \E t \in TypeIds \ issued :
                /\ dctypes' = [dctypes EXCEPT ![t] =
                      NewDcType(r.provider)]
                /\ issued' = issued \cup {t}
          /\ Goto(w, "flights")
          /\ Wrote(w)
          /\ UNCHANGED <<services, exposed, op, found, todo, controller, registration>>
       \/ /\ r.op = "patch_connection_type"
          /\ dctypes[r.id] # Null
          /\ dctypes' = [dctypes EXCEPT ![r.id].provider = r.provider]
          /\ Goto(w, "flights")
          /\ Wrote(w)
          /\ UNCHANGED <<services, exposed, issued, op, found, todo, controller, registration>>
       \/ /\ r.op = "delete_connection_type"
          /\ dctypes[r.id] # Null
          /\ dctypes' = [dctypes EXCEPT ![r.id] = Null]
          /\ Wrote(w)
          /\ Answer(w, "ok")
          /\ UNCHANGED <<services, exposed, issued>>
       \/ /\ \/ r.op \in {"delete_flight_service", "patch_flight_service"} /\ services[r.id] = Null
             \/ r.op \in {"patch_connection_type", "delete_connection_type"} /\ dctypes[r.id] = Null
          /\ Answer(w, "not_found")
          /\ UNCHANGED <<services, dctypes, solo, exposed, issued>>
       \/ /\ r.op = "patch_flight_service"
          /\ services[r.id] # Null
          /\ NameTaken(Patched(services[r.id], r).name, FlightIds \ {r.id})
          /\ Answer(w, "conflict")
          /\ UNCHANGED <<services, dctypes, solo, exposed, issued>>
    /\ UNCHANGED <<made, faults>>

(***************************************************************************)
(* audit_data_connection_types: the Flight services, then the types, then  *)
(* one status update per type from those two copies.                       *)
(***************************************************************************)
ReadFlights(w) ==
    /\ pc[w] = "flights"
    /\ found' = [found EXCEPT ![w] = services]
    /\ solo' = [solo EXCEPT ![w] = TRUE]
    /\ Goto(w, "types")
    /\ UNCHANGED <<services, dctypes, op, todo, exposed, issued, controller, registration,
                   made, faults>>

ReadTypes(w) ==
    /\ pc[w] = "types"
    /\ todo' = [todo EXCEPT ![w] = {<<t, dctypes[t].provider>> :
                                      t \in {u \in TypeIds : dctypes[u] # Null}}]
    /\ Goto(w, "status")
    /\ UNCHANGED <<services, dctypes, op, found, solo, exposed, issued, controller, registration,
                   made, faults>>

\* The first Flight service in the copy that has the connector, ready or not.
AuditedStatuses(w, provider) ==
    LET rows == found[w]
        matching == Providing(rows, provider)
    IN  IF matching = {} THEN {[formats |-> Null, url |-> Null]}
        ELSE {[formats |-> f, url |-> IF rows[f].ready THEN f ELSE Null] : f \in matching}

\* A status kept when no Flight service has the connector any more.
UpdateTypeStatusIfAny(w) ==
    /\ pc[w] = "status"
    /\ \E item \in todo[w] :
       LET t == item[1] IN
       IF dctypes[t] = Null
       THEN Answer(w, "error") /\ UNCHANGED <<dctypes, solo>>
       ELSE /\ \E status \in AuditedStatuses(w, item[2]) :
                  dctypes' = [dctypes EXCEPT ![t].formats =
                                IF status.formats = Null THEN @ ELSE status.formats,
                              ![t].url = IF status.formats = Null THEN @ ELSE status.url]
            /\ Wrote(w)
            /\ todo' = [todo EXCEPT ![w] = @ \ {item}]
            /\ UNCHANGED <<pc, op, found, controller, registration>>
    /\ UNCHANGED <<services, exposed, issued, made, faults>>

UpdateTypeStatus(w) ==
    /\ pc[w] = "status"
    /\ \E item \in todo[w] :
       LET t == item[1] IN
       IF dctypes[t] = Null
       THEN Answer(w, "error") /\ UNCHANGED <<dctypes, solo>>
       ELSE /\ \E status \in AuditedStatuses(w, item[2]) :
                  dctypes' = [dctypes EXCEPT ![t].formats = status.formats, ![t].url = status.url]
            /\ Wrote(w)
            /\ todo' = [todo EXCEPT ![w] = @ \ {item}]
            /\ UNCHANGED <<pc, op, found, controller, registration>>
    /\ UNCHANGED <<services, exposed, issued, made, faults>>

AuditDone(w) ==
    /\ pc[w] = "status" /\ todo[w] = {}
    /\ Answer(w, "ok")
    /\ UNCHANGED <<services, dctypes, solo, exposed, issued, made, faults>>

(***************************************************************************)
(* A call fails (the Flight service does not answer, the database errs):   *)
(* the handler returns the error and leaves what it has written.  Or the   *)
(* handler is dropped, and there is no answer.                             *)
(***************************************************************************)
Fails(w) ==
    /\ pc[w] # "idle"
    /\ Fault
    /\ Answer(w, "error")
    /\ UNCHANGED <<services, dctypes, solo, exposed, issued, made>>

Dropped(w) ==
    /\ pc[w] # "idle"
    /\ controller # w
    /\ Fault
    /\ Goto(w, "idle")
    /\ op' = [op EXCEPT ![w] = Null]
    /\ found' = [found EXCEPT ![w] = [f \in FlightIds |-> Null]]
    /\ todo' = [todo EXCEPT ![w] = {}]
    /\ UNCHANGED <<services, dctypes, solo, exposed, issued, controller, registration, made>>

HandlerStep(w) ==
    \/ Probe(w) \/ Compare(w) \/ InsertFlightService(w) \/ WriteRow(w)
    \/ ReadFlights(w) \/ ReadTypes(w) \/ UpdateTypeStatus(w) \/ AuditDone(w)

RegistryNext ==
    \/ \E w \in Workers :
          \/ Register(w) \/ HandlerStep(w) \/ Fails(w) \/ Dropped(w)
          \/ \E r \in Requests : Begin(w, r)
    \/ ControllerTimeout

(***************************************************************************)
(* The controller is requeued after every reconcile, successful or not,    *)
(* and the REST service polls the handlers it has begun.                   *)
(***************************************************************************)
RegistryFairness ==
    /\ WF_registryVars(\E w \in Workers : Register(w))
    /\ \A w \in Workers : WF_registryVars(HandlerStep(w))

RegistrySpec == RegistryInit /\ [][RegistryNext]_registryVars /\ RegistryFairness

-----------------------------------------------------------------------------
RegistryTypeOK ==
    /\ services \in [FlightIds -> Service \cup {Null}]
    /\ dctypes \in [TypeIds -> DcType \cup {Null}]
    /\ pc \in [Workers -> {"idle", "probe", "compare", "insert", "write", "flights", "types",
                           "status"}]
    /\ op \in [Workers -> Request \cup {Null}]
    /\ found \in [Workers -> [FlightIds -> Service \cup {Null}]]
    /\ todo \in [Workers -> SUBSET (TypeIds \X Providers)]
    /\ solo \in [Workers -> BOOLEAN]
    /\ exposed \subseteq FlightIds
    /\ issued \subseteq FlightIds \cup TypeIds
    /\ controller \in Workers \cup {Null}
    /\ registration \in {"none", "ok", "already_exists", "conflict", "not_found", "error",
                          "unavailable"}
    /\ made \in 0..MaxRequests
    /\ faults \in 0..MaxFaults

(***************************************************************************)
(* Two registered Flight services offer the same connector only if one of  *)
(* them was stored while a registration under another name was past its    *)
(* comparison, or was given its name or connectors by a PATCH.  So         *)
(* retries of the controller never double its own service, however they    *)
(* overlap the requests it gave up on: they find no service registered,    *)
(* and then the index stops all but one (create_flight_service; the audit  *)
(* and get_flight_service_by_connector take the first that matches).       *)
(***************************************************************************)
OneRegistration ==
    \A f, g \in Registered :
        f # g /\ services[f].connectors \cap services[g].connectors # {} =>
            f \in exposed \/ g \in exposed

(***************************************************************************)
(* What the status of a type says is so: a Flight service has the          *)
(* connector, and is ready if there is a URL; or none has it.              *)
(***************************************************************************)
StatusCurrent ==
    \A t \in TypeIds : dctypes[t] # Null =>
        LET matching == Providing(services, dctypes[t].provider)
            row == dctypes[t]
        IN  IF matching = {} THEN row.formats = Null /\ row.url = Null
            ELSE /\ row.formats \in matching
                 /\ row.url = IF services[row.formats].ready THEN row.formats ELSE Null

(***************************************************************************)
(* An audit that ran to its end while nobody else wrote leaves the status  *)
(* of every type right, whatever earlier failed, aborted or overlapping    *)
(* audits had left behind.                                                 *)
(***************************************************************************)
AuditRepairs ==
    [][\A w \in Workers : (AuditDone(w) /\ solo[w]) => StatusCurrent]_registryVars

(***************************************************************************)
(* The Flight service ends up registered and stays so, once failures and   *)
(* deletions stop: the controller tries again after a failure, and again   *)
(* after somebody deleted its registration.  It takes one of its name, or  *)
(* with one of its connectors, for its own.                                *)
(***************************************************************************)
EventuallyRegistered ==
    <>[](\E f \in Registered :
           services[f].name = OwnName \/ services[f].connectors \cap Supported # {})

(***************************************************************************)
(* The status of every type ends up right: flight_ready is "whether a      *)
(* Flight gRPC service supports this connection type and is currently      *)
(* running" (DataConnectionTypeStatus.yaml).                               *)
(***************************************************************************)
StatusEventuallyCurrent == <>[]StatusCurrent
=============================================================================
