------------------------ MODULE FlightRegistryProofs ------------------------
(***************************************************************************)
(* The registration of the Flight service and the audit of the connection  *)
(* types, for any number of handlers, types, connectors and failures.      *)
(***************************************************************************)
EXTENDS FlightRegistry, FiniteSetTheorems, TLAPS

Outcomes == {"ok", "already_exists", "conflict", "not_found", "error"}

\* A handler that is about to write serves a request of a user, and one that
\* registers a Flight service serves such a request.
Serving ==
    \A w \in Workers :
        /\ pc[w] = "write" => op[w] \in Requests
        /\ pc[w] \in {"probe", "compare", "insert"} =>
             op[w] \in Request /\ op[w].op = "create_flight_service"

\* Past its comparison, a registration can only meet its connectors in a
\* service of its own name, or in an exposed one.
Compared ==
    \A w \in Workers : pc[w] = "insert" =>
        \A f \in Registered :
            services[f].connectors \cap op[w].connectors # {} =>
                f \in exposed \/ services[f].name = op[w].name

RowCurrent(t) ==
    LET matching == Providing(services, dctypes[t].provider)
        row == dctypes[t]
    IN  IF matching = {} THEN row.formats = Null /\ row.url = Null
        ELSE /\ row.formats \in matching
             /\ row.url = IF services[row.formats].ready THEN row.formats ELSE Null

(***************************************************************************)
(* As long as nobody else writes, what a handler has read for its audit is *)
(* what there is, and every type it is done with is right.                 *)
(***************************************************************************)
ReadRight(w) ==
    /\ pc[w] \in {"types", "status"} => found[w] = services
    /\ pc[w] = "status" =>
         /\ \A item \in todo[w] : dctypes[item[1]] # Null /\ dctypes[item[1]].provider = item[2]
         /\ \A t \in TypeIds : dctypes[t] # Null =>
              <<t, dctypes[t].provider>> \in todo[w] \/ RowCurrent(t)

AuditsRight == \A w \in Workers : solo[w] => ReadRight(w)

RegistryInv == RegistryTypeOK /\ Serving

\* An answer leaves the handler idle.
LEMMA AnswerTypes ==
    ASSUME RegistryTypeOK, Serving, NEW w \in Workers, NEW outcome \in Outcomes, Answer(w, outcome)
    PROVE  /\ pc' = [pc EXCEPT ![w] = "idle"]
           /\ pc' \in [Workers -> {"idle", "probe", "compare", "insert", "write", "flights", "types",
                                   "status"}]
           /\ op' \in [Workers -> Request \cup {Null}]
           /\ found' \in [Workers -> [FlightIds -> Service \cup {Null}]]
           /\ todo' \in [Workers -> SUBSET (TypeIds \X Providers)]
           /\ controller' \in Workers \cup {Null}
           /\ registration' \in {"none", "ok", "already_exists", "conflict", "not_found", "error",
                                 "unavailable"}
           /\ Serving'
<1>1. pc' = [pc EXCEPT ![w] = "idle"] /\ op' = [op EXCEPT ![w] = Null]
    BY DEF Answer, Goto
<1>2. Serving'
    BY <1>1 DEF RegistryTypeOK, Serving
<1>3. controller' \in Workers \cup {Null}
      /\ registration' \in {"none", "ok", "already_exists", "conflict", "not_found", "error",
                            "unavailable"}
    BY DEF Answer, Outcomes, RegistryTypeOK
<1> QED
    BY <1>1, <1>2, <1>3 DEF Answer, RegistryTypeOK

\* A handler that goes on keeps what it serves.
LEMMA GotoTypes ==
    ASSUME RegistryTypeOK, Serving, NEW w \in Workers,
           NEW place \in {"compare", "insert", "flights", "types", "status"},
           place \in {"compare", "insert"} => pc[w] \in {"probe", "compare"},
           Goto(w, place), op' = op
    PROVE  /\ pc' \in [Workers -> {"idle", "probe", "compare", "insert", "write", "flights", "types",
                                   "status"}]
           /\ Serving'
<1> QED
    BY DEF Goto, RegistryTypeOK, Serving

LEMMA RegistryStart == RegistryInit => RegistryInv /\ AuditsRight
<1> SUFFICES ASSUME RegistryInit PROVE RegistryInv /\ AuditsRight
    OBVIOUS
<1>1. \A p \in Providers : NewDcType(p) \in DcType
    BY DEF NewDcType, DcType
<1>2. RegistryTypeOK
    BY <1>1, RegistryAssumption DEF RegistryInit, RegistryTypeOK, RegistryAssumption
<1> QED
    BY <1>2 DEF RegistryInit, RegistryInv, Serving, AuditsRight

\* The controller's own steps, and the beginning of a request.
LEMMA BeginsKeep ==
    ASSUME RegistryInv, NEW w \in Workers,
           Register(w) \/ (\E r \in Requests : Begin(w, r)) \/ ControllerTimeout
    PROVE  RegistryInv'
<1> USE RegistryAssumption DEF RegistryAssumption
<1>1. CASE Register(w)
    <2>1. OwnRequest \in Request /\ OwnRequest.op = "create_flight_service"
        BY DEF Request, OwnRequest
    <2> QED
        BY <1>1, <2>1 DEF Register, Goto, RegistryInv, RegistryTypeOK, Serving
<1>2. ASSUME NEW r \in Requests, Begin(w, r) PROVE RegistryInv'
    BY <1>2 DEF Begin, Goto, RegistryInv, RegistryTypeOK, Serving
<1>3. CASE ControllerTimeout
    BY <1>3 DEF ControllerTimeout, Fault, RegistryInv, RegistryTypeOK, Serving
<1> QED
    BY <1>1, <1>2, <1>3

\* The steps of a handler that write no row.
LEMMA ReadsKeep ==
    ASSUME RegistryInv, NEW w \in Workers,
           Probe(w) \/ Compare(w) \/ ReadFlights(w) \/ ReadTypes(w) \/ AuditDone(w)
    PROVE  RegistryInv'
<1> USE DEF RegistryInv
<1>1. CASE Probe(w)
    BY <1>1, GotoTypes DEF Probe, RegistryTypeOK
<1>2. CASE Compare(w)
    <2>1. CASE Answer(w, "already_exists")
        BY <1>2, <2>1, AnswerTypes DEF Compare, RegistryTypeOK, Outcomes
    <2>2. CASE Goto(w, "insert") /\ UNCHANGED <<op, found, todo, controller, registration>>
        BY <1>2, <2>2, GotoTypes DEF Compare, RegistryTypeOK
    <2> QED
        BY <1>2, <2>1, <2>2 DEF Compare
<1>3. CASE ReadFlights(w)
    BY <1>3, GotoTypes DEF ReadFlights, RegistryTypeOK
<1>4. CASE ReadTypes(w)
    <2>1. {<<t, dctypes[t].provider>> : t \in {u \in TypeIds : dctypes[u] # Null}}
          \in SUBSET (TypeIds \X Providers)
        BY DEF RegistryTypeOK, DcType
    <2> QED
        BY <1>4, <2>1, GotoTypes DEF ReadTypes, RegistryTypeOK
<1>5. CASE AuditDone(w)
    BY <1>5, AnswerTypes DEF AuditDone, RegistryTypeOK, Outcomes
<1> QED
    BY <1>1, <1>2, <1>3, <1>4, <1>5

\* A new row, or the refusal of the index.
LEMMA InsertKeeps ==
    ASSUME RegistryInv, NEW w \in Workers, InsertFlightService(w)
    PROVE  RegistryInv'
<1> USE DEF RegistryInv
<1>1. CASE NameTaken(op[w].name, FlightIds)
    BY <1>1, AnswerTypes DEF InsertFlightService, RegistryTypeOK, Outcomes
<1>2. CASE ~ NameTaken(op[w].name, FlightIds)
    <2> DEFINE row == [name |-> op[w].name, connectors |-> op[w].connectors, ready |-> TRUE]
    <2>1. PICK f \in FlightIds \ issued :
            /\ services' = [services EXCEPT ![f] = row]
            /\ exposed' = exposed \cup (IF Overlooked(w) THEN {f} ELSE {})
            /\ issued' = issued \cup {f}
        BY <1>2 DEF InsertFlightService
    <2>2. row \in Service
        BY DEF InsertFlightService, Serving, Request, Service
    <2>3. exposed' \subseteq FlightIds /\ issued' \subseteq FlightIds \cup TypeIds
        BY <2>1 DEF RegistryTypeOK
    <2>4. Goto(w, "flights") /\ Wrote(w) /\ UNCHANGED <<op, found, todo, controller, registration>>
          /\ UNCHANGED <<dctypes, made, faults>>
        BY <1>2 DEF InsertFlightService
    <2>5. solo' \in [Workers -> BOOLEAN]
        BY <2>4, Zenon DEF Wrote, RegistryTypeOK
    <2> QED
        BY <2>1, <2>2, <2>3, <2>4, <2>5, GotoTypes DEF RegistryTypeOK
<1> QED
    BY <1>1, <1>2

LEMMA WroteTypes == ASSUME RegistryTypeOK, NEW w \in Workers, Wrote(w)
                    PROVE  solo' \in [Workers -> BOOLEAN]
<1> QED
    BY Zenon DEF Wrote, RegistryTypeOK

LEMMA MergedIn == ASSUME NEW S, NEW old \in S, NEW given \in SUBSET S PROVE Merged(old, given) \in S
<1> QED
    BY DEF Merged

LEMMA PatchedIn ==
    ASSUME NEW row \in Service, NEW r \in Request, r.op = "patch_flight_service"
    PROVE  r.id \in FlightIds /\ Patched(row, r) \in Service
<1>1. /\ r.id \in FlightIds /\ r.name \in SUBSET Names /\ r.connectors \in SUBSET SUBSET Providers
      /\ r.ready \in SUBSET BOOLEAN
    BY DEF Request
<1>2. row.name \in Names /\ row.connectors \in SUBSET Providers /\ row.ready \in BOOLEAN
    BY DEF Service
<1>3. Merged(row.name, r.name) \in Names
    BY <1>1, <1>2, MergedIn, Zenon
<1>4. Merged(row.connectors, r.connectors) \in SUBSET Providers
    BY <1>1, <1>2 DEF Merged
<1>5. Merged(row.ready, r.ready) \in BOOLEAN
    BY <1>1, <1>2, MergedIn, Zenon
<1> QED
    BY <1>1, <1>3, <1>4, <1>5 DEF Patched, Service

\* The writes of the other requests.
LEMMA WriteRowKeeps ==
    ASSUME RegistryInv, NEW w \in Workers, WriteRow(w)
    PROVE  RegistryInv'
<1> USE RegistryAssumption DEF RegistryInv, RegistryAssumption
<1> DEFINE r == op[w]
<1>0. r \in Requests /\ r \in Request /\ UNCHANGED <<made, faults>>
    BY DEF WriteRow, Serving
<1>1. CASE /\ r.op = "delete_flight_service"
           /\ services' = [services EXCEPT ![r.id] = Null]
           /\ Goto(w, "flights")
           /\ Wrote(w)
           /\ UNCHANGED <<dctypes, exposed, issued, op, found, todo, controller, registration>>
    <2>1. services' \in [FlightIds -> Service \cup {Null}]
        BY <1>1 DEF RegistryTypeOK
    <2> QED
        BY <1>0, <1>1, <2>1, WroteTypes, GotoTypes DEF RegistryTypeOK
<1>6. CASE /\ r.op = "patch_flight_service"
           /\ services[r.id] # Null
           /\ services' = [services EXCEPT ![r.id] = Patched(@, r)]
           /\ exposed' = exposed \cup (IF r.name = {} /\ r.connectors = {} THEN {} ELSE {r.id})
           /\ Goto(w, "flights")
           /\ Wrote(w)
           /\ UNCHANGED <<dctypes, issued, op, found, todo, controller, registration>>
    <2>1. r.id \in FlightIds
        BY <1>0, <1>6 DEF Request
    <2>2. services[r.id] \in Service
        BY <1>6, <2>1 DEF RegistryTypeOK
    <2>3. Patched(services[r.id], r) \in Service
        BY <1>0, <1>6, <2>2, PatchedIn
    <2>4. services' \in [FlightIds -> Service \cup {Null}] /\ exposed' \subseteq FlightIds
        BY <1>6, <2>1, <2>3 DEF RegistryTypeOK
    <2> QED
        BY <1>0, <1>6, <2>4, WroteTypes, GotoTypes DEF RegistryTypeOK
<1>7. CASE Answer(w, "conflict") /\ UNCHANGED <<services, dctypes, solo, exposed, issued>>
    BY <1>0, <1>7, AnswerTypes DEF RegistryTypeOK, Outcomes
<1>2. CASE /\ r.op = "create_connection_type"
           /\ \E t \in TypeIds \ issued :
                 /\ dctypes' = [dctypes EXCEPT ![t] = NewDcType(r.provider)]
                 /\ issued' = issued \cup {t}
           /\ Goto(w, "flights")
           /\ Wrote(w)
           /\ UNCHANGED <<services, exposed, op, found, todo, controller, registration>>
    <2>1. NewDcType(r.provider) \in DcType
        BY <1>0, <1>2 DEF Request, NewDcType, DcType
    <2>2. dctypes' \in [TypeIds -> DcType \cup {Null}] /\ issued' \subseteq FlightIds \cup TypeIds
        BY <1>2, <2>1 DEF RegistryTypeOK
    <2> QED
        BY <1>0, <1>2, <2>2, WroteTypes, GotoTypes DEF RegistryTypeOK
<1>3. CASE /\ r.op = "patch_connection_type"
           /\ dctypes[r.id] # Null
           /\ dctypes' = [dctypes EXCEPT ![r.id].provider = r.provider]
           /\ Goto(w, "flights")
           /\ Wrote(w)
           /\ UNCHANGED <<services, exposed, issued, op, found, todo, controller, registration>>
    <2>1. r.id \in TypeIds /\ r.provider \in Providers
        BY <1>0, <1>3 DEF Request
    <2>2. dctypes[r.id] \in DcType
        BY <1>3, <2>1 DEF RegistryTypeOK
    <2>3. dctypes' \in [TypeIds -> DcType \cup {Null}]
        BY <1>3, <2>1, <2>2 DEF RegistryTypeOK, DcType
    <2> QED
        BY <1>0, <1>3, <2>3, WroteTypes, GotoTypes DEF RegistryTypeOK
<1>4. CASE /\ r.op = "delete_connection_type"
           /\ dctypes' = [dctypes EXCEPT ![r.id] = Null]
           /\ Wrote(w)
           /\ Answer(w, "ok")
           /\ UNCHANGED <<services, exposed, issued>>
    <2>1. dctypes' \in [TypeIds -> DcType \cup {Null}]
        BY <1>4 DEF RegistryTypeOK
    <2> QED
        BY <1>0, <1>4, <2>1, WroteTypes, AnswerTypes DEF RegistryTypeOK, Outcomes
<1>5. CASE Answer(w, "not_found") /\ UNCHANGED <<services, dctypes, solo, exposed, issued>>
    BY <1>0, <1>5, AnswerTypes DEF RegistryTypeOK, Outcomes
<1> QED
    BY <1>1, <1>2, <1>3, <1>4, <1>5, <1>6, <1>7 DEF WriteRow

LEMMA AuditedTypes ==
    ASSUME RegistryTypeOK, NEW w \in Workers, NEW provider, NEW status \in AuditedStatuses(w, provider)
    PROVE  status.formats \in FlightIds \cup {Null} /\ status.url \in FlightIds \cup {Null}
<1> QED
    BY DEF AuditedStatuses, Providing, RegistryTypeOK

\* One status update of an audit.
LEMMA UpdateKeeps ==
    ASSUME RegistryInv, NEW w \in Workers, UpdateTypeStatus(w)
    PROVE  RegistryInv'
<1> USE DEF RegistryInv
<1>1. PICK item \in todo[w] :
        IF dctypes[item[1]] = Null
        THEN Answer(w, "error") /\ UNCHANGED <<dctypes, solo>>
        ELSE /\ \E status \in AuditedStatuses(w, item[2]) :
                   dctypes' = [dctypes EXCEPT ![item[1]].formats = status.formats,
                                              ![item[1]].url = status.url]
             /\ Wrote(w)
             /\ todo' = [todo EXCEPT ![w] = @ \ {item}]
             /\ UNCHANGED <<pc, op, found, controller, registration>>
    BY DEF UpdateTypeStatus
<1>2. UNCHANGED <<services, exposed, issued, made, faults>>
    BY DEF UpdateTypeStatus
<1>4. CASE dctypes[item[1]] = Null
    BY <1>1, <1>2, <1>4, AnswerTypes DEF RegistryTypeOK, Outcomes
<1>5. CASE dctypes[item[1]] # Null
    <2>1. item[1] \in TypeIds /\ dctypes[item[1]] \in DcType
        BY <1>5 DEF RegistryTypeOK
    <2>2. PICK status \in AuditedStatuses(w, item[2]) :
            dctypes' = [dctypes EXCEPT ![item[1]].formats = status.formats, ![item[1]].url = status.url]
        BY <1>1, <1>5
    <2>3. dctypes' \in [TypeIds -> DcType \cup {Null}]
        BY <2>1, <2>2, AuditedTypes DEF RegistryTypeOK, DcType
    <2> QED
        BY <1>1, <1>2, <1>5, <2>3, WroteTypes DEF RegistryTypeOK, Serving
<1> QED
    BY <1>4, <1>5

LEMMA FailuresKeep ==
    ASSUME RegistryInv, NEW w \in Workers, Fails(w) \/ Dropped(w)
    PROVE  RegistryInv'
<1> USE RegistryAssumption DEF RegistryInv, RegistryAssumption
<1>1. CASE Fails(w)
    BY <1>1, AnswerTypes DEF Fails, Fault, RegistryTypeOK, Outcomes
<1>2. CASE Dropped(w)
    BY <1>2 DEF Dropped, Fault, Goto, RegistryTypeOK, Serving
<1> QED
    BY <1>1, <1>2

LEMMA RegistryStep == RegistryInv /\ [RegistryNext]_registryVars => RegistryInv'
<1> SUFFICES ASSUME RegistryInv, [RegistryNext]_registryVars PROVE RegistryInv'
    OBVIOUS
<1>1. CASE UNCHANGED registryVars
    BY <1>1 DEF registryVars, RegistryInv, RegistryTypeOK, Serving
<1>2. ASSUME NEW w \in Workers, HandlerStep(w) PROVE RegistryInv'
    BY <1>2, ReadsKeep, InsertKeeps, WriteRowKeeps, UpdateKeeps DEF HandlerStep
<1>3. ASSUME NEW w \in Workers, Register(w) \/ (\E r \in Requests : Begin(w, r)) PROVE RegistryInv'
    BY <1>3, BeginsKeep
<1>4. CASE ControllerTimeout
    <2>1. controller \in Workers
        BY <1>4 DEF ControllerTimeout, RegistryInv, RegistryTypeOK
    <2> QED
        BY <1>4, <2>1, BeginsKeep
<1> QED
    BY <1>1, <1>2, <1>3, <1>4, FailuresKeep DEF RegistryNext

-----------------------------------------------------------------------------
\* What a handler has read stays right while its own places, copies and
\* the rows stay the same.
LEMMA StillRight ==
    ASSUME NEW w \in Workers, ReadRight(w), UNCHANGED <<services, dctypes>>,
           pc'[w] = pc[w], found'[w] = found[w], todo'[w] = todo[w]
    PROVE  ReadRight(w)'
<1> QED
    BY DEF ReadRight, RowCurrent, Providing

\* A handler that is not in the middle of its audit has read nothing.
LEMMA NothingRead ==
    ASSUME NEW w \in Workers, pc'[w] \notin {"types", "status"}
    PROVE  ReadRight(w)'
<1> QED
    BY DEF ReadRight

\* A write by w makes every other handler's copies stale, which solo says.
LEMMA OthersStale ==
    ASSUME RegistryTypeOK, NEW w \in Workers, Wrote(w), NEW v \in Workers, solo'[v]
    PROVE  v = w /\ solo[v]
<1> QED
    BY Zenon DEF Wrote

\* Steps of w that end its audit or come before it.
LEMMA IdleStepsKeepAudits ==
    ASSUME RegistryInv, AuditsRight, NEW w \in Workers, UNCHANGED <<services, dctypes, solo>>,
           pc' = [pc EXCEPT ![w] = pc'[w]], pc'[w] \notin {"types", "status"},
           \A v \in Workers \ {w} : found'[v] = found[v] /\ todo'[v] = todo[v]
    PROVE  AuditsRight'
<1> SUFFICES ASSUME NEW v \in Workers, solo'[v] PROVE ReadRight(v)'
    BY DEF AuditsRight
<1>1. CASE v = w
    BY <1>1, NothingRead
<1>2. CASE v # w
    <2>1. pc'[v] = pc[v] /\ ReadRight(v)
        BY <1>2 DEF AuditsRight, RegistryInv, RegistryTypeOK
    <2> QED
        BY <1>2, <2>1, StillRight
<1> QED
    BY <1>1, <1>2

LEMMA AnswerKeepsAudits ==
    ASSUME RegistryInv, AuditsRight, NEW w \in Workers, NEW outcome, Answer(w, outcome),
           UNCHANGED <<services, dctypes, solo>>
    PROVE  AuditsRight'
<1>1. pc' = [pc EXCEPT ![w] = "idle"] /\ pc'[w] = "idle"
    BY DEF Answer, Goto, RegistryInv, RegistryTypeOK
<1>2. \A v \in Workers \ {w} : found'[v] = found[v] /\ todo'[v] = todo[v]
    BY DEF Answer, RegistryInv, RegistryTypeOK
<1> QED
    BY <1>1, <1>2, IdleStepsKeepAudits

\* A write, after which w goes to a place outside the audit.
LEMMA WritesKeepAudits ==
    ASSUME RegistryInv, NEW w \in Workers, Wrote(w), pc'[w] \notin {"types", "status"}
    PROVE  AuditsRight'
<1> SUFFICES ASSUME NEW v \in Workers, solo'[v] PROVE ReadRight(v)'
    BY DEF AuditsRight
<1>1. v = w
    BY OthersStale DEF RegistryInv
<1> QED
    BY <1>1, NothingRead

LEMMA HandlersKeepAudits ==
    ASSUME RegistryInv, AuditsRight, NEW w \in Workers,
           Probe(w) \/ Compare(w) \/ InsertFlightService(w) \/ WriteRow(w) \/ AuditDone(w)
    PROVE  AuditsRight'
<1> USE DEF RegistryInv
<1>0. ASSUME NEW place, Goto(w, place) PROVE pc' = [pc EXCEPT ![w] = place] /\ pc'[w] = place
    BY <1>0 DEF Goto, RegistryTypeOK
<1>1. CASE Probe(w)
    BY <1>1, <1>0, IdleStepsKeepAudits DEF Probe
<1>2. CASE Compare(w)
    <2>1. CASE Answer(w, "already_exists")
        BY <1>2, <2>1, AnswerKeepsAudits DEF Compare
    <2>2. CASE Goto(w, "insert") /\ UNCHANGED <<op, found, todo, controller, registration>>
        BY <1>2, <1>0, <2>2, IdleStepsKeepAudits DEF Compare
    <2> QED
        BY <1>2, <2>1, <2>2 DEF Compare
<1>3. CASE InsertFlightService(w)
    <2>1. CASE NameTaken(op[w].name, FlightIds)
        BY <1>3, <2>1, AnswerKeepsAudits DEF InsertFlightService
    <2>2. CASE ~ NameTaken(op[w].name, FlightIds)
        BY <1>3, <1>0, <2>2, WritesKeepAudits DEF InsertFlightService
    <2> QED
        BY <2>1, <2>2
<1>4. CASE WriteRow(w)
    <2>1. CASE Wrote(w) /\ Goto(w, "flights")
        BY <1>0, <2>1, WritesKeepAudits
    <2>2. CASE Wrote(w) /\ Answer(w, "ok")
        <3>1. pc'[w] = "idle"
            BY <1>0, <2>2 DEF Answer
        <3> QED
            BY <2>2, <3>1, WritesKeepAudits
    <2>3. CASE /\ Answer(w, "not_found") \/ Answer(w, "conflict")
               /\ UNCHANGED <<services, dctypes, solo, exposed, issued>>
        BY <2>3, AnswerKeepsAudits
    <2> QED
        BY <1>4, <2>1, <2>2, <2>3 DEF WriteRow
<1>5. CASE AuditDone(w)
    BY <1>5, AnswerKeepsAudits DEF AuditDone
<1> QED
    BY <1>1, <1>2, <1>3, <1>4, <1>5

\* The two reads of the audit.
LEMMA ReadsKeepAudits ==
    ASSUME RegistryInv, AuditsRight, NEW w \in Workers, ReadFlights(w) \/ ReadTypes(w)
    PROVE  AuditsRight'
<1> USE DEF RegistryInv
<1> SUFFICES ASSUME NEW v \in Workers, solo'[v] PROVE ReadRight(v)'
    BY DEF AuditsRight
<1>1. UNCHANGED <<services, dctypes>>
    BY DEF ReadFlights, ReadTypes
<1>2. CASE v # w
    <2>1. pc'[v] = pc[v] /\ found'[v] = found[v] /\ todo'[v] = todo[v] /\ solo[v]
        BY <1>2 DEF ReadFlights, ReadTypes, Goto, RegistryTypeOK
    <2> QED
        BY <1>1, <2>1, StillRight DEF AuditsRight
<1>3. CASE v = w /\ ReadFlights(w)
    <2>1. pc'[w] = "types" /\ found'[w] = services
        BY <1>3 DEF ReadFlights, Goto, RegistryTypeOK
    <2> QED
        BY <1>1, <1>3, <2>1 DEF ReadRight
<1>4. CASE v = w /\ ReadTypes(w)
    <2>1. pc[w] = "types" /\ pc'[w] = "status" /\ found'[w] = found[w] /\ solo[w]
          /\ todo'[w] = {<<t, dctypes[t].provider>> : t \in {u \in TypeIds : dctypes[u] # Null}}
        BY <1>4 DEF ReadTypes, Goto, RegistryTypeOK
    <2>2. found'[w] = services'
        BY <1>1, <2>1 DEF AuditsRight, ReadRight
    <2> QED
        BY <1>1, <1>4, <2>1, <2>2 DEF ReadRight
<1> QED
    BY <1>2, <1>3, <1>4

\* A status update, from copies that are still right, makes its type right.
LEMMA UpdateKeepsAudits ==
    ASSUME RegistryInv, AuditsRight, NEW w \in Workers, UpdateTypeStatus(w)
    PROVE  AuditsRight'
<1> USE DEF RegistryInv
<1>1. PICK item \in todo[w] :
        IF dctypes[item[1]] = Null
        THEN Answer(w, "error") /\ UNCHANGED <<dctypes, solo>>
        ELSE /\ \E status \in AuditedStatuses(w, item[2]) :
                   dctypes' = [dctypes EXCEPT ![item[1]].formats = status.formats,
                                              ![item[1]].url = status.url]
             /\ Wrote(w)
             /\ todo' = [todo EXCEPT ![w] = @ \ {item}]
             /\ UNCHANGED <<pc, op, found, controller, registration>>
    BY DEF UpdateTypeStatus
<1>2. services' = services /\ pc[w] = "status"
    BY DEF UpdateTypeStatus
<1>3. CASE dctypes[item[1]] = Null
    BY <1>1, <1>2, <1>3, AnswerKeepsAudits
<1>4. CASE dctypes[item[1]] # Null
    <2> SUFFICES ASSUME NEW v \in Workers, solo'[v] PROVE ReadRight(v)'
        BY DEF AuditsRight
    <2>1. v = w /\ solo[w]
        BY <1>1, <1>4, OthersStale
    <2>2. PICK status \in AuditedStatuses(w, item[2]) :
            dctypes' = [dctypes EXCEPT ![item[1]].formats = status.formats, ![item[1]].url = status.url]
        BY <1>1, <1>4
    <2> DEFINE u == item[1]
    <2>3. /\ found[w] = services
          /\ \A i \in todo[w] : dctypes[i[1]] # Null /\ dctypes[i[1]].provider = i[2]
          /\ \A t \in TypeIds : dctypes[t] # Null =>
               <<t, dctypes[t].provider>> \in todo[w] \/ RowCurrent(t)
        BY <1>2, <2>1 DEF AuditsRight, ReadRight
    <2>4. u \in TypeIds /\ item = <<u, item[2]>> /\ dctypes[u] \in DcType /\ dctypes[u].provider = item[2]
        BY <1>4, <2>3 DEF RegistryTypeOK
    <2>5. /\ dctypes'[u] = [dctypes[u] EXCEPT !.formats = status.formats, !.url = status.url]
          /\ \A t \in TypeIds \ {u} : dctypes'[t] = dctypes[t]
        BY <2>2, <2>4 DEF RegistryTypeOK
    <2>6. /\ dctypes'[u].provider = item[2]
          /\ dctypes'[u].formats = status.formats
          /\ dctypes'[u].url = status.url
        BY <2>4, <2>5 DEF DcType
    <2>7. dctypes'[u] # Null
        <3> HIDE DEF u
        <3>1. status.formats \in FlightIds \cup {Null} /\ status.url \in FlightIds \cup {Null}
            BY AuditedTypes
        <3>2. dctypes'[u] \in DcType
            BY <2>4, <2>5, <3>1 DEF DcType
        <3> QED
            BY <3>2, RegistryAssumption DEF RegistryAssumption
    <2>8. RowCurrent(u)'
        BY <1>2, <2>3, <2>6 DEF RowCurrent, AuditedStatuses, Providing
    <2>9. todo'[w] = todo[w] \ {item} /\ pc'[w] = "status" /\ found'[w] = services'
        BY <1>1, <1>2, <1>4, <2>3 DEF RegistryTypeOK
    <2>10. ASSUME NEW i \in todo'[w] PROVE dctypes'[i[1]] # Null /\ dctypes'[i[1]].provider = i[2]
        <3>1. i \in todo[w] /\ i[1] \in TypeIds /\ i \in TypeIds \X Providers
            BY <2>9 DEF RegistryTypeOK
        <3>2. CASE i[1] = u
            BY <2>3, <2>4, <2>6, <2>7, <3>1, <3>2
        <3>3. CASE i[1] # u
            BY <2>3, <2>5, <3>1, <3>3
        <3> QED
            BY <3>2, <3>3
    <2>11. ASSUME NEW t \in TypeIds, dctypes'[t] # Null
           PROVE  <<t, dctypes'[t].provider>> \in todo'[w] \/ RowCurrent(t)'
        <3>1. CASE t = u
            BY <2>8, <3>1
        <3>2. CASE t # u
            <4>1. dctypes'[t] = dctypes[t]
                BY <2>5, <3>2
            <4>2. <<t, dctypes[t].provider>> # item
                BY <2>4, <3>2
            <4>3. RowCurrent(t) => RowCurrent(t)'
                BY <1>2, <4>1 DEF RowCurrent, Providing
            <4> QED
                BY <2>3, <2>9, <2>11, <4>1, <4>2, <4>3
        <3> QED
            BY <3>1, <3>2
    <2> QED
        BY <2>1, <2>9, <2>10, <2>11 DEF ReadRight
<1> QED
    BY <1>3, <1>4

\* The controller, the beginning of a request, and the failures.
LEMMA OthersKeepAudits ==
    ASSUME RegistryInv, AuditsRight, NEW w \in Workers,
           Register(w) \/ (\E r \in Requests : Begin(w, r)) \/ Fails(w) \/ Dropped(w)
    PROVE  AuditsRight'
<1> USE DEF RegistryInv
<1>1. CASE Register(w) \/ (\E r \in Requests : Begin(w, r))
    <2>1. /\ pc' = [pc EXCEPT ![w] = pc'[w]] /\ pc'[w] \in {"probe", "write"}
          /\ UNCHANGED <<services, dctypes, solo, found, todo>>
        BY <1>1 DEF Register, Begin, Goto, RegistryTypeOK
    <2> QED
        BY <2>1, IdleStepsKeepAudits
<1>2. CASE Fails(w)
    BY <1>2, AnswerKeepsAudits DEF Fails
<1>3. CASE Dropped(w)
    <2>1. /\ pc' = [pc EXCEPT ![w] = pc'[w]] /\ pc'[w] = "idle"
          /\ UNCHANGED <<services, dctypes, solo>>
          /\ \A v \in Workers \ {w} : found'[v] = found[v] /\ todo'[v] = todo[v]
        BY <1>3 DEF Dropped, Goto, RegistryTypeOK
    <2> QED
        BY <2>1, IdleStepsKeepAudits
<1> QED
    BY <1>1, <1>2, <1>3

LEMMA AuditsStep == RegistryInv /\ AuditsRight /\ [RegistryNext]_registryVars => AuditsRight'
<1> SUFFICES ASSUME RegistryInv, AuditsRight, [RegistryNext]_registryVars PROVE AuditsRight'
    OBVIOUS
<1>1. CASE UNCHANGED registryVars \/ ControllerTimeout
    <2>1. UNCHANGED <<services, dctypes, pc, found, todo, solo>>
        BY <1>1 DEF registryVars, ControllerTimeout
    <2> QED
        BY <2>1, StillRight DEF AuditsRight
<1>2. ASSUME NEW w \in Workers, HandlerStep(w) PROVE AuditsRight'
    BY <1>2, HandlersKeepAudits, ReadsKeepAudits, UpdateKeepsAudits DEF HandlerStep
<1> QED
    BY <1>1, <1>2, OthersKeepAudits DEF RegistryNext

-----------------------------------------------------------------------------
\* Services that keep their name and connectors, disappear or are exposed,
\* while nobody passes the comparison.
LEMMA FewerKeep ==
    ASSUME OneRegistration, Compared, exposed \subseteq exposed',
           \A g \in Registered' :
               \/ g \in exposed'
               \/ /\ g \in Registered /\ services'[g].name = services[g].name
                  /\ services'[g].connectors = services[g].connectors,
           \A v \in Workers : pc'[v] = "insert" => pc[v] = "insert" /\ op'[v] = op[v]
    PROVE  OneRegistration' /\ Compared'
<1>1. OneRegistration'
    BY DEF OneRegistration
<1>2. Compared'
    BY DEF Compared
<1> QED
    BY <1>1, <1>2

\* The same for a handler that leaves the services alone.
LEMMA SameKeep ==
    ASSUME OneRegistration, Compared, UNCHANGED <<services, exposed>>,
           \A v \in Workers : pc'[v] = "insert" => pc[v] = "insert" /\ op'[v] = op[v]
    PROVE  OneRegistration' /\ Compared'
<1> QED
    BY FewerKeep DEF Registered

LEMMA MovesOn ==
    ASSUME RegistryTypeOK, NEW w \in Workers, NEW place, place # "insert",
           pc' = [pc EXCEPT ![w] = place], \A v \in Workers \ {w} : op'[v] = op[v]
    PROVE  \A v \in Workers : pc'[v] = "insert" => pc[v] = "insert" /\ op'[v] = op[v]
<1> QED
    BY DEF RegistryTypeOK

LEMMA AnswersKeep ==
    ASSUME RegistryTypeOK, OneRegistration, Compared, UNCHANGED <<services, exposed>>,
           NEW w \in Workers, NEW outcome, Answer(w, outcome)
    PROVE  OneRegistration' /\ Compared'
<1>1. pc' = [pc EXCEPT ![w] = "idle"] /\ \A v \in Workers \ {w} : op'[v] = op[v]
    BY DEF Answer, Goto, RegistryTypeOK
<1> QED
    BY <1>1, MovesOn, SameKeep

LEMMA GoesKeep ==
    ASSUME RegistryTypeOK, OneRegistration, Compared, UNCHANGED <<services, exposed, op>>,
           NEW w \in Workers, NEW place, place # "insert", Goto(w, place)
    PROVE  OneRegistration' /\ Compared'
<1>1. pc' = [pc EXCEPT ![w] = place] /\ \A v \in Workers \ {w} : op'[v] = op[v]
    BY DEF Goto
<1> QED
    BY <1>1, MovesOn, SameKeep

\* The comparison finds none of its connectors registered.
LEMMA ComparesKeep ==
    ASSUME RegistryTypeOK, OneRegistration, Compared, NEW w \in Workers, Compare(w)
    PROVE  OneRegistration' /\ Compared'
<1>1. CASE Answer(w, "already_exists")
    BY <1>1, AnswersKeep DEF Compare
<1>2. CASE ~ Answer(w, "already_exists")
    <2>1. /\ \A f \in Registered : services[f].connectors \cap op[w].connectors = {}
          /\ pc' = [pc EXCEPT ![w] = "insert"] /\ UNCHANGED <<services, exposed, op>>
        BY <1>2 DEF Compare, Goto
    <2>2. OneRegistration'
        BY <2>1 DEF OneRegistration, Registered
    <2>3. Registered' = Registered
        BY <2>1 DEF Registered
    <2>4. ASSUME NEW v \in Workers, pc'[v] = "insert", NEW f \in Registered,
                 services[f].connectors \cap op[v].connectors # {}
          PROVE  f \in exposed \/ services[f].name = op[v].name
        <3>1. CASE v = w
            BY <2>1, <2>4, <3>1
        <3>2. CASE v # w
            BY <2>1, <2>4, <3>2 DEF Compared, RegistryTypeOK
        <3> QED
            BY <3>1, <3>2
    <2> QED
        BY <2>1, <2>2, <2>3, <2>4 DEF Compared
<1> QED
    BY <1>1, <1>2

\* The index leaves no service of the same name, and those of other names
\* that share a connector are exposed.  A new service that others overlook
\* is exposed itself.
LEMMA InsertsKeep ==
    ASSUME RegistryInv, OneRegistration, Compared, NEW w \in Workers, InsertFlightService(w)
    PROVE  OneRegistration' /\ Compared'
<1> USE DEF RegistryInv
<1>1. CASE NameTaken(op[w].name, FlightIds)
    BY <1>1, AnswersKeep DEF InsertFlightService
<1>2. CASE ~ NameTaken(op[w].name, FlightIds)
    <2> DEFINE row == [name |-> op[w].name, connectors |-> op[w].connectors, ready |-> TRUE]
    <2>1. PICK f \in FlightIds \ issued :
            /\ services' = [services EXCEPT ![f] = row]
            /\ exposed' = exposed \cup (IF Overlooked(w) THEN {f} ELSE {})
        BY <1>2 DEF InsertFlightService
    <2>2. /\ pc[w] = "insert" /\ pc' = [pc EXCEPT ![w] = "flights"] /\ op' = op
          /\ exposed \subseteq exposed'
        BY <1>2, <2>1 DEF InsertFlightService, Goto
    <2>3. \A g \in Registered' \ {f} : g \in Registered /\ services'[g] = services[g]
        BY <2>1 DEF Registered, RegistryTypeOK
    <2>4. services'[f].name = op[w].name /\ services'[f].connectors = op[w].connectors
        BY <2>1 DEF RegistryTypeOK
    <2>5. \A g \in Registered : services[g].connectors \cap op[w].connectors # {} => g \in exposed
        BY <1>2, <2>2 DEF Compared, NameTaken, Registered
    <2>6. OneRegistration'
        BY <2>2, <2>3, <2>4, <2>5 DEF OneRegistration
    <2>7. ASSUME NEW v \in Workers, pc'[v] = "insert", NEW g \in Registered',
                 services'[g].connectors \cap op'[v].connectors # {}
          PROVE  g \in exposed' \/ services'[g].name = op'[v].name
        <3>1. pc[v] = "insert" /\ op'[v] = op[v]
            BY <2>2, <2>7 DEF RegistryTypeOK
        <3>2. CASE g = f
            BY <2>1, <2>4, <3>1, <3>2 DEF Overlooked
        <3>3. CASE g # f
            BY <2>2, <2>3, <2>7, <3>1, <3>3 DEF Compared
        <3> QED
            BY <3>2, <3>3
    <2> QED
        BY <2>6, <2>7 DEF Compared
<1> QED
    BY <1>1, <1>2

\* A service that is deleted, or patched without touching its name and
\* connectors, doubles nothing; any other patch exposes it.
LEMMA WritesKeep ==
    ASSUME RegistryInv, OneRegistration, Compared, NEW w \in Workers, WriteRow(w)
    PROVE  OneRegistration' /\ Compared'
<1> USE DEF RegistryInv
<1> DEFINE r == op[w]
<1>1. CASE \E outcome : Answer(w, outcome) /\ UNCHANGED <<services, exposed>>
    BY <1>1, AnswersKeep
<1>2. CASE Goto(w, "flights") /\ UNCHANGED <<services, exposed, op>>
    BY <1>2, GoesKeep
<1>3. CASE /\ r.op = "delete_flight_service" /\ services' = [services EXCEPT ![r.id] = Null]
           /\ Goto(w, "flights") /\ UNCHANGED <<exposed, op>>
    <2>1. \A g \in Registered' : g \in Registered /\ services'[g] = services[g]
        BY <1>3 DEF Registered, RegistryTypeOK
    <2>2. \A v \in Workers : pc'[v] = "insert" => pc[v] = "insert" /\ op'[v] = op[v]
        BY <1>3, MovesOn DEF Goto
    <2> QED
        BY <1>3, <2>1, <2>2, FewerKeep
<1>4. CASE /\ r.op = "patch_flight_service" /\ services[r.id] # Null
           /\ services' = [services EXCEPT ![r.id] = Patched(@, r)]
           /\ exposed' = exposed \cup (IF r.name = {} /\ r.connectors = {} THEN {} ELSE {r.id})
           /\ Goto(w, "flights") /\ op' = op
    <2>0. r \in Request
        BY RegistryAssumption DEF RegistryAssumption, WriteRow, Serving
    <2>1. r.id \in FlightIds
        BY <1>4, <2>0 DEF Request
    <2>2. \A g \in Registered' \ {r.id} : g \in Registered /\ services'[g] = services[g]
        BY <1>4, <2>1 DEF Registered, RegistryTypeOK
    <2>3. r.id \in Registered /\ services'[r.id] = Patched(services[r.id], r)
        BY <1>4, <2>1 DEF Registered, RegistryTypeOK
    <2>4. r.name = {} /\ r.connectors = {} =>
            /\ services'[r.id].name = services[r.id].name
            /\ services'[r.id].connectors = services[r.id].connectors
        BY <2>3 DEF Patched, Merged
    <2>5. ASSUME NEW g \in Registered'
          PROVE  \/ g \in exposed'
                 \/ /\ g \in Registered /\ services'[g].name = services[g].name
                    /\ services'[g].connectors = services[g].connectors
        BY <1>4, <2>2, <2>3, <2>4
    <2>6. \A v \in Workers : pc'[v] = "insert" => pc[v] = "insert" /\ op'[v] = op[v]
        BY <1>4, MovesOn DEF Goto
    <2> QED
        BY <1>4, <2>5, <2>6, FewerKeep
<1> QED
    BY <1>1, <1>2, <1>3, <1>4 DEF WriteRow

LEMMA UpdatesKeep ==
    ASSUME RegistryInv, OneRegistration, Compared, NEW w \in Workers, UpdateTypeStatus(w)
    PROVE  OneRegistration' /\ Compared'
<1>1. CASE Answer(w, "error")
    BY <1>1, AnswersKeep DEF UpdateTypeStatus, RegistryInv
<1>2. CASE UNCHANGED <<pc, op>>
    BY <1>2, SameKeep DEF UpdateTypeStatus
<1> QED
    BY <1>1, <1>2 DEF UpdateTypeStatus

LEMMA DoublesStep ==
    RegistryInv /\ OneRegistration /\ Compared /\ [RegistryNext]_registryVars
        => OneRegistration' /\ Compared'
<1> SUFFICES ASSUME RegistryInv, OneRegistration, Compared, [RegistryNext]_registryVars
             PROVE  OneRegistration' /\ Compared'
    OBVIOUS
<1> USE DEF RegistryInv
<1>1. CASE UNCHANGED registryVars \/ ControllerTimeout
    BY <1>1, SameKeep DEF registryVars, ControllerTimeout
<1>2. ASSUME NEW w \in Workers, HandlerStep(w) PROVE OneRegistration' /\ Compared'
    <2>1. CASE Probe(w) \/ ReadFlights(w) \/ ReadTypes(w)
        BY <2>1, GoesKeep DEF Probe, ReadFlights, ReadTypes
    <2>2. CASE AuditDone(w)
        BY <2>2, AnswersKeep DEF AuditDone
    <2> QED
        BY <1>2, <2>1, <2>2, ComparesKeep, InsertsKeep, WritesKeep, UpdatesKeep DEF HandlerStep
<1>3. ASSUME NEW w \in Workers, Register(w) \/ (\E r \in Requests : Begin(w, r)) \/ Dropped(w)
      PROVE  OneRegistration' /\ Compared'
    <2>1. \E place \in {"probe", "write", "idle"} : pc' = [pc EXCEPT ![w] = place]
        BY <1>3 DEF Register, Begin, Dropped, Goto
    <2>2. UNCHANGED <<services, exposed>> /\ \A v \in Workers \ {w} : op'[v] = op[v]
        BY <1>3 DEF Register, Begin, Dropped, RegistryTypeOK
    <2> QED
        BY <2>1, <2>2, MovesOn, SameKeep
<1>4. ASSUME NEW w \in Workers, Fails(w) PROVE OneRegistration' /\ Compared'
    BY <1>4, AnswersKeep DEF Fails
<1> QED
    BY <1>1, <1>2, <1>3, <1>4 DEF RegistryNext

LEMMA RegistryAlways == RegistrySpec => [](RegistryInv /\ AuditsRight)
<1> QED
    BY RegistryStart, RegistryStep, AuditsStep, PTL DEF RegistrySpec

\* The registry's state is well formed (endpoints.rs, audit.rs).
THEOREM RegistryTypeCorrect == RegistrySpec => []RegistryTypeOK
<1>1. RegistryInv => RegistryTypeOK
    BY DEF RegistryInv
<1> QED
    BY <1>1, RegistryAlways, PTL

\* However many registrations, patches and deletions overlap, two services
\* share a connector only through the two ways that OneRegistration names:
\* the comparison of create_flight_service and the unique index close every
\* other one.
THEOREM DoublesAreExposed == RegistrySpec => []OneRegistration
<1>1. RegistryInit => OneRegistration /\ Compared
    BY DEF RegistryInit, OneRegistration, Compared, Registered
<1> QED
    BY <1>1, RegistryAlways, DoublesStep, PTL DEF RegistrySpec

\* An audit that ends undisturbed leaves the status of every type right,
\* whatever state it found them in (audit_data_connection_types).
THEOREM AuditsRepair == RegistrySpec => AuditRepairs
<1>1. RegistryInv /\ AuditsRight =>
        [\A w \in Workers : (AuditDone(w) /\ solo[w]) => StatusCurrent]_registryVars
    <2> SUFFICES ASSUME AuditsRight, NEW w \in Workers, AuditDone(w), solo[w]
                 PROVE  StatusCurrent
        OBVIOUS
    <2>1. pc[w] = "status" /\ todo[w] = {} /\ ReadRight(w)
        BY DEF AuditDone, AuditsRight
    <2>2. \A t \in TypeIds : dctypes[t] # Null => RowCurrent(t)
        BY <2>1 DEF ReadRight
    <2> QED
        BY <2>2 DEF StatusCurrent, RowCurrent
<1> QED
    BY <1>1, RegistryAlways, PTL DEF AuditRepairs
=============================================================================
