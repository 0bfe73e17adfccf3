----------------------------- MODULE Migration ------------------------------
(***************************************************************************)
(* The controller's imports.  ConfigMaps become connection types, Secrets  *)
(* become connections and InitDataConnectionTypes become built-in types,   *)
(* each by its own controller: one worker that reads an object, calls the  *)
(* REST service and marks the object, with other controllers at work       *)
(* between any two of these.  The deletion of the DataConnectService takes *)
(* the marks back, so that a later install, maybe on a fresh database,     *)
(* imports everything again.                                               *)
(*                                                                         *)
(* Kubernetes and controller-runtime are external.  An object is           *)
(* reconciled when it changes, when its last reconcile asked for it, when  *)
(* the controller starts and at every resync of the informers: at any      *)
(* time, and again and again.  So a reconcile that asks to be repeated and *)
(* one that gives up differ here only in when the next one comes.  Reads   *)
(* come from the informers' caches, which learn of a mark or of a new      *)
(* InitDataConnectionType after a while: until then it is fresh, and       *)
(* neither a reconcile nor the finalizer sees it.  The deletion of the     *)
(* service counts from when the cache shows it, to all controllers alike.  *)
(***************************************************************************)
EXTENDS Naturals, FiniteSets

CONSTANTS
    ConfigMaps, Secrets, InitTypes,     \* the objects that may be there
    Worlds,         \* which of them are there together, and what is in them
    Aliases,        \* builtinProviderAliases: legacy type name -> built-in provider
    MaxInstalls,    \* bound: DataConnectServices that are created
    MaxRemovals,    \* bound: what users delete through the REST service
    MaxFaults       \* bound: calls that fail, caches that lag and restarts of the controller

VARIABLES
    world,      \* the objects that are there, and what is in them
    service,    \* the DataConnectService: absent, running or deleting
    db,         \* the types and connections that the REST service has stored
    synced,     \* the ConfigMaps and Secrets that carry the synced annotation
    cr,         \* InitDataConnectionType -> its phase and the install that made it
    fresh,      \* marked or made objects that the informers show as before
    work,       \* controller -> the reconcile that it is in
    cleanup,    \* the finalizer: its stage, and the objects it still has to treat
    made,       \* history: what has been in the database since the install
    removed,    \* history: what users deleted since the install
    late,       \* history: marked although a deletion began during the reconcile
    left,       \* history: what the finalizer left, as it failed or did not see it
    retried,    \* history: Secrets whose import was cut off, or begun on a stale copy
    installs,   \* installs so far
    deletions,  \* deletions of the service so far
    faults      \* failures so far

histories == <<made, removed, late, left, retried>>
counters == <<installs, deletions, faults>>
migrationVars == <<world, service, db, synced, cr, fresh, work, cleanup, histories, counters>>

Objects == ConfigMaps \cup Secrets \cup InitTypes

ASSUME MigrationAssumption ==
    /\ ConfigMaps \cap Secrets = {} /\ InitTypes \cap (ConfigMaps \cup Secrets) = {}
    /\ "none" \notin Objects
    /\ \A w \in Worlds : w.objects \subseteq Objects /\ w.unreadable \subseteq ConfigMaps
    /\ {MaxInstalls, MaxRemovals, MaxFaults} \subseteq Nat

objects == world.objects
Name(o) == world.name[o]            \* of the type or connection that it becomes
TypeRef(s) == world.ref[s]          \* the Secret's connection-type-ref, or "none"
Unreadable == world.unreadable      \* ConfigMaps without fields that can be parsed
Provider(o) == IF o \in ConfigMaps THEN Name(o) ELSE world.provider[o]

Controllers == {"configmap", "secret", "init"}
Watched(k) ==
    CASE k = "configmap" -> ConfigMaps
      [] k = "secret" -> Secrets
      [] OTHER -> InitTypes

Idle == [object |-> "none", step |-> "idle", synced |-> FALSE, since |-> 0, type |-> "none", born |-> 0]
NoCr == [phase |-> "none", born |-> 0]
NoCleanup == [stage |-> "idle", todo |-> {}]

MigrationInit ==
    /\ world \in Worlds
    /\ service = "absent"
    /\ db = {}
    /\ synced = {}
    /\ cr = [o \in InitTypes |-> NoCr]
    /\ fresh = {}
    /\ work = [k \in Controllers |-> Idle]
    /\ cleanup = NoCleanup
    /\ made = {} /\ removed = {} /\ late = {} /\ left = {} /\ retried = {}
    /\ installs = 0 /\ deletions = 0 /\ faults = 0

Fault == faults < MaxFaults /\ faults' = faults + 1

\* An informer shows a change at once, or only later.
Lags(changed) ==
    \/ UNCHANGED <<fresh, faults>>
    \/ changed # {} /\ Fault /\ fresh' = fresh \cup changed

\* A row of the database: a Secret's connection keeps a reference to it,
\* and the install that stored it is noted.
TypeRow(o) ==
    [kind |-> "type", name |-> Name(o), provider |-> Provider(o), type |-> "none", from |-> "none",
     install |-> installs]
ConnectionRow(s, type) ==
    [kind |-> "connection", name |-> Name(s), provider |-> "none", type |-> type, from |-> s,
     install |-> installs]
Entry(row) == <<row.kind, row.name>>
EntryOf(o) == <<IF o \in Secrets THEN "connection" ELSE "type", Name(o)>>
Stored(o) == \E row \in db : Entry(row) = EntryOf(o)

(***************************************************************************)
(* A reconcile begins: the object is read, and the DataConnectServices are *)
(* looked at, as the informers show them.                                  *)
(***************************************************************************)
Marked == synced \ fresh

Job(o, step) ==
    [object |-> o, step |-> step, synced |-> o \in Marked, since |-> deletions, type |-> "none",
     born |-> IF o \in InitTypes THEN cr[o].born ELSE 0]

Begin(k, o, first) ==
    /\ work[k] = Idle
    /\ o \in objects
    /\ first # "idle"
    /\ work' = [work EXCEPT ![k] = Job(o, first)]
    /\ retried' = retried \cup ({o} \cap Secrets \cap fresh)
    /\ UNCHANGED <<world, service, db, synced, cr, fresh, cleanup, made, removed, late, left, counters>>

dataConnectServiceDeleting == service = "deleting"

ReconcileConfigMap(o) ==
    Begin("configmap", o,
        IF dataConnectServiceDeleting THEN "idle"
        ELSE IF Name(o) \in DOMAIN Aliases THEN IF o \in Marked THEN "idle" ELSE "mark"
        ELSE IF o \in Unreadable THEN "idle" ELSE "create")

ReconcileSecretUnmarked(o) ==
    Begin("secret", o, IF dataConnectServiceDeleting \/ TypeRef(o) = "none" THEN "idle" ELSE "resolve")
ReconcileSecret(o) ==
    Begin("secret", o,
        IF dataConnectServiceDeleting \/ o \in Marked \/ TypeRef(o) = "none" THEN "idle" ELSE "resolve")

Terminal == {"Completed", "AlreadyExists"}
ReconcileInitType(o) ==
    Begin("init", o, IF o \in fresh \/ cr[o].phase \in Terminal \cup {"none"} THEN "idle" ELSE "create")

(***************************************************************************)
(* How a reconcile goes on, or ends.                                       *)
(***************************************************************************)
GoOn(k, step) == work' = [work EXCEPT ![k].step = step]
Finish(k) == work' = [work EXCEPT ![k] = Idle]

(***************************************************************************)
(* A POST to the REST service: CreateConnectionType and CreateConnection.  *)
(* There is no URL without a DataConnectService.  An answer that is lost,  *)
(* after the row was stored or before, is unavailable; a status that the   *)
(* client does not know is unexpected, as is the answer to a connection    *)
(* whose type is gone.                                                     *)
(***************************************************************************)
Store(row) == db' = db \cup {row} /\ made' = made \cup {Entry(row)}
Taken(row) == \E r \in db : Entry(r) = Entry(row)
Refers(row) == row.kind = "type" \/ \E r \in db : r.kind = "type" /\ r.name = row.type

Post(row, answer) ==
    \/ /\ answer = "unavailable" /\ service = "absent"
       /\ UNCHANGED <<db, made, retried, faults>>
    \/ /\ answer = "unavailable" /\ service # "absent" /\ Fault
       /\ \/ UNCHANGED <<db, made>>
          \/ ~ Taken(row) /\ Refers(row) /\ Store(row)
       /\ retried' = retried \cup {row.from}
    \/ /\ answer = "unexpected" /\ service # "absent"
       /\ IF Refers(row) THEN Fault ELSE UNCHANGED faults
       /\ UNCHANGED <<db, made, retried>>
    \/ /\ answer = "conflict" /\ service # "absent" /\ Refers(row) /\ Taken(row)
       /\ UNCHANGED <<db, made, retried, faults>>
    \/ /\ answer = "created" /\ service # "absent" /\ Refers(row) /\ ~ Taken(row)
       /\ Store(row)
       /\ UNCHANGED <<retried, faults>>

Answers == {"created", "conflict", "unavailable", "unexpected"}

CreateConnectionType(k, answer) ==
    /\ work[k].step = "create"
    /\ Post(TypeRow(work[k].object), answer)

CreateTypeOfConfigMap ==
    /\ \E answer \in Answers :
         /\ CreateConnectionType("configmap", answer)
         /\ CASE answer = "created" -> GoOn("configmap", "mark")
              [] answer = "conflict" ->
                   IF work["configmap"].synced THEN Finish("configmap") ELSE GoOn("configmap", "mark")
              [] OTHER -> Finish("configmap")
    /\ UNCHANGED <<world, service, synced, cr, fresh, cleanup, removed, late, left, installs, deletions>>

(***************************************************************************)
(* The Secret's type: one of that name, or a built-in one for a legacy     *)
(* name.  A type that is not there yet is waited for.                      *)
(***************************************************************************)
resolveByName(ref) == {r.name : r \in {t \in db : t.kind = "type" /\ t.name = ref}}
resolveConnectionTypeIDByName(ref) == resolveByName(ref)
resolveConnectionTypeID(ref) ==
    IF resolveByName(ref) # {} \/ ref \notin DOMAIN Aliases THEN resolveByName(ref)
    ELSE {r.name : r \in {t \in db : t.kind = "type" /\ t.provider = Aliases[ref]}}

ResolveType ==
    /\ work["secret"].step = "resolve"
    /\ LET found == resolveConnectionTypeID(TypeRef(work["secret"].object)) IN
         \/ /\ service = "absent" \/ found = {}
            /\ Finish("secret") /\ UNCHANGED faults
         \/ /\ service # "absent"
            /\ \E type \in found :
                 work' = [work EXCEPT !["secret"].step = "create", !["secret"].type = type]
            /\ UNCHANGED faults
         \/ Fault /\ Finish("secret")
    /\ UNCHANGED <<world, service, db, synced, cr, fresh, cleanup, histories, installs, deletions>>

CreateConnection ==
    /\ work["secret"].step = "create"
    /\ \E answer \in Answers :
         /\ Post(ConnectionRow(work["secret"].object, work["secret"].type), answer)
         /\ IF answer \in {"created", "conflict"} THEN GoOn("secret", "mark") ELSE Finish("secret")
    /\ UNCHANGED <<world, service, synced, cr, fresh, cleanup, removed, late, left, installs, deletions>>

(***************************************************************************)
(* markSynced sends what the copy that was read lacks: nothing, if that    *)
(* copy carried the annotation.  Nothing compares the object's version.    *)
(***************************************************************************)
markSynced(k) ==
    /\ work[k].step = "mark"
    /\ LET o == work[k].object
           news == {o} \ (IF work[k].synced THEN {o} ELSE synced) IN
         \/ /\ synced' = synced \cup news
            /\ Lags(news)
            /\ late' = IF deletions = work[k].since THEN late ELSE late \cup news
            /\ UNCHANGED retried
         \/ /\ Fault
            /\ retried' = retried \cup {o}
            /\ UNCHANGED <<synced, fresh, late>>
    /\ Finish(k)
    /\ UNCHANGED <<world, service, db, cr, cleanup, made, removed, left, installs, deletions>>

(***************************************************************************)
(* The InitDataConnectionType gets the phase that the answer stands for.   *)
(* The update is refused when the object is gone, or is another one of     *)
(* that name, and that is only logged.                                     *)
(***************************************************************************)
PhaseOf ==
    [created |-> "Completed", conflict |-> "AlreadyExists", unavailable |-> "Pending", unexpected |-> "Error"]

setStatusOfAny(o, phase, born) == cr' = [cr EXCEPT ![o].phase = phase]
setStatus(o, phase, born) == cr' = IF cr[o].born = born THEN [cr EXCEPT ![o].phase = phase] ELSE cr

CreateTypeOfInit ==
    /\ \E answer \in Answers :
         /\ CreateConnectionType("init", answer)
         /\ work' = [work EXCEPT !["init"].step = "status", !["init"].type = answer]
    /\ UNCHANGED <<world, service, synced, cr, fresh, cleanup, removed, late, left, installs, deletions>>

StatusOfInit ==
    /\ work["init"].step = "status"
    /\ LET job == work["init"] IN
         \/ setStatus(job.object, PhaseOf[job.type], job.born) /\ UNCHANGED faults
         \/ Fault /\ UNCHANGED cr
    /\ Finish("init")
    /\ UNCHANGED <<world, service, db, synced, fresh, cleanup, histories, installs, deletions>>

(***************************************************************************)
(* The DataConnectService: each of its reconciles makes the built-in types *)
(* that are missing.                                                       *)
(***************************************************************************)
Install ==
    /\ service = "absent"
    /\ installs < MaxInstalls
    /\ installs' = installs + 1
    /\ service' = "running"
    /\ db' \in {db, {}}
    /\ made' = {Entry(row) : row \in db'}
    /\ removed' = {}
    /\ UNCHANGED <<world, synced, cr, fresh, work, cleanup, late, left, retried, deletions, faults>>

ensureInitDataConnectionTypes(o) ==
    /\ service = "running"
    /\ cr[o] = NoCr
    /\ cr' = [cr EXCEPT ![o] = [phase |-> "new", born |-> installs]]
    /\ Lags({o})
    /\ UNCHANGED <<world, service, db, synced, work, cleanup, histories, installs, deletions>>

DeleteService ==
    /\ service = "running"
    /\ service' = "deleting"
    /\ deletions' = deletions + 1
    /\ UNCHANGED <<world, db, synced, cr, fresh, work, cleanup, histories, installs, faults>>

(***************************************************************************)
(* The finalizer lists the ConfigMaps, then the Secrets, that are marked,  *)
(* and takes the annotation from one after the other; then it deletes the  *)
(* InitDataConnectionTypes.  What fails there is logged.  Only the last    *)
(* part, cluster-scoped resources and the finalizer itself, starts all of  *)
(* it again when it fails.                                                 *)
(***************************************************************************)
Due(stage) ==
    CASE stage = "configmaps" -> objects \cap ConfigMaps \cap synced
      [] stage = "secrets" -> objects \cap Secrets \cap synced
      [] stage = "inittypes" -> {o \in objects \cap InitTypes : cr[o] # NoCr}
      [] OTHER -> {}
ListedNoSecrets(stage) == Due(stage) \ (fresh \cup Secrets)
Listed(stage) == Due(stage) \ fresh

NextStage == [idle |-> "configmaps", configmaps |-> "secrets", secrets |-> "inittypes", inittypes |-> "last"]

FinalizerLists ==
    /\ service = "deleting"
    /\ cleanup.stage # "last"
    /\ cleanup.todo = {}
    /\ LET stage == NextStage[cleanup.stage] IN
         \/ /\ cleanup' = [stage |-> stage, todo |-> Listed(stage)]
            /\ left' = left \cup (Due(stage) \cap fresh)
            /\ UNCHANGED faults
         \/ /\ Due(stage) # {}
            /\ Fault
            /\ cleanup' = [stage |-> stage, todo |-> {}]
            /\ left' = left \cup Due(stage)
    /\ UNCHANGED <<world, service, db, synced, cr, fresh, work, made, removed, late, retried,
                   installs, deletions>>

FinalizerTreats(o) ==
    /\ o \in cleanup.todo
    /\ cleanup' = [cleanup EXCEPT !.todo = @ \ {o}]
    /\ \/ /\ synced' = synced \ {o}
          /\ fresh' = fresh \ {o}
          /\ cr' = [i \in InitTypes |-> IF i = o THEN NoCr ELSE cr[i]]
          /\ late' = late \ {o}
          /\ left' = left \ {o}
          /\ UNCHANGED faults
       \/ /\ Fault
          /\ left' = left \cup {o}
          /\ UNCHANGED <<synced, cr, fresh, late>>
    /\ UNCHANGED <<world, service, db, work, made, removed, retried, installs, deletions>>

FinalizerEnds ==
    /\ cleanup.stage = "last"
    /\ cleanup' = NoCleanup
    /\ \/ service' = "absent" /\ UNCHANGED faults
       \/ Fault /\ UNCHANGED service
    /\ UNCHANGED <<world, db, synced, cr, fresh, work, histories, installs, deletions>>

(***************************************************************************)
(* Users delete connections, and types that nothing refers to.  The        *)
(* controller may stop anywhere, and starts with caches that are filled    *)
(* anew.  Else a watch brings them what is fresh.                          *)
(***************************************************************************)
UserDeletes ==
    /\ service = "running"
    /\ Cardinality(removed) < MaxRemovals
    /\ \E row \in db :
         /\ \A r \in db : r.kind = "connection" => row.kind = "connection" \/ r.type # row.name
         /\ db' = db \ {row}
         /\ removed' = removed \cup {row}
    /\ UNCHANGED <<world, service, synced, cr, fresh, work, cleanup, made, late, left, retried, counters>>

Restart ==
    /\ Fault
    /\ work' = [k \in Controllers |-> Idle]
    /\ cleanup' = NoCleanup
    /\ fresh' = {}
    /\ retried' = retried \cup {work[k].object : k \in Controllers}
    /\ UNCHANGED <<world, service, db, synced, cr, made, removed, late, left, installs, deletions>>

InformerShows(o) ==
    /\ o \in fresh
    /\ fresh' = fresh \ {o}
    /\ UNCHANGED <<world, service, db, synced, cr, work, cleanup, histories, counters>>

Reconcile(o) ==
    \/ o \in ConfigMaps /\ ReconcileConfigMap(o)
    \/ o \in Secrets /\ ReconcileSecret(o)
    \/ o \in InitTypes /\ ReconcileInitType(o)

ConfigMapStep == CreateTypeOfConfigMap \/ markSynced("configmap")
SecretStep == ResolveType \/ CreateConnection \/ markSynced("secret")
InitStep == CreateTypeOfInit \/ StatusOfInit
FinalizerStep == FinalizerLists \/ (\E o \in objects : FinalizerTreats(o)) \/ FinalizerEnds
EnsureStep == \E o \in objects \cap InitTypes : ensureInitDataConnectionTypes(o)

MigrationNext ==
    \/ \E o \in objects : Reconcile(o) \/ InformerShows(o)
    \/ ConfigMapStep \/ SecretStep \/ InitStep
    \/ EnsureStep \/ FinalizerStep
    \/ Install \/ DeleteService \/ UserDeletes \/ Restart

\* The controller's loops go on, its queues are first in, first out and
\* the informers resync; the service is reconciled every few minutes.
\* Nothing makes anybody install the service or delete it.
MigrationSpec ==
    /\ MigrationInit /\ [][MigrationNext]_migrationVars
    /\ \A o \in Objects : SF_migrationVars(Reconcile(o)) /\ WF_migrationVars(InformerShows(o))
    /\ WF_migrationVars(ConfigMapStep) /\ WF_migrationVars(SecretStep) /\ WF_migrationVars(InitStep)
    /\ WF_migrationVars(EnsureStep) /\ WF_migrationVars(FinalizerStep)
-----------------------------------------------------------------------------

Phases == {"none", "new", "Pending", "Error"} \cup Terminal

\* The state is well formed: a worker handles an object of its own kind, a
\* connection's type is stored, the finalizer only works during a deletion,
\* and only an InitDataConnectionType that exists has a phase.
MigrationTypeOK ==
    /\ world \in Worlds
    /\ service \in {"absent", "running", "deleting"}
    /\ \A row \in db : Refers(row)
    /\ synced \subseteq objects /\ fresh \subseteq objects
    /\ cr \in [InitTypes -> [phase : Phases, born : 0 .. MaxInstalls]]
    /\ \A o \in InitTypes : (cr[o].phase = "none") = (cr[o].born = 0)
    /\ \A k \in Controllers : work[k] # Idle => work[k].object \in objects \cap Watched(k)
    /\ cleanup # NoCleanup => service = "deleting"
    /\ cleanup.todo \subseteq objects
    /\ deletions <= installs /\ installs <= MaxInstalls /\ faults <= MaxFaults

\* What is marked as done has been imported into the database of this very
\* install, so that nothing a user had before is missing after a reinstall
\* (clearSyncedAnnotations, deleteInitDataConnectionTypes, setStatus).
\* Excepted is what the finalizer left, for it failed or the cache it lists
\* from did not show the mark yet, and what was marked by a reconcile during
\* which the deletion began: markSynced does not look again.
SyncedMeansImported ==
    service = "running" =>
      /\ \A o \in synced \ (late \cup left) :
           Name(o) \notin DOMAIN Aliases => EntryOf(o) \in made
      /\ \A o \in InitTypes \ left : cr[o].phase \in Terminal => EntryOf(o) \in made

\* A connection that was imported in this install and that a user deleted
\* does not come back while it lasts, its deletion included, unless its
\* import was cut off by a failure and is repeated, or a reconcile began on
\* a copy of the Secret without the fresh mark ("It is a one-shot per
\* Secret", SecretWatcherReconciler).
DeletedStayDeleted ==
    [][\A row \in removed : row.from \in Secrets \ retried => row \notin db']_migrationVars

\* What the finalizer left, or a mark that came too late, keeps from
\* being imported again.  A ConfigMap is posted also when it is marked.
Lost(o) == o \notin ConfigMaps /\ o \in late \cup left

Gives(t, s) ==
    /\ t \in objects \ (Secrets \cup Unreadable)
    /\ ~ Lost(t)
    /\ Name(t) = TypeRef(s) \/ (TypeRef(s) \in DOMAIN Aliases /\ Provider(t) = Aliases[TypeRef(s)])

Importable(o) ==
    /\ o \in objects \ Unreadable
    /\ ~ Lost(o)
    /\ o \in ConfigMaps => Name(o) \notin DOMAIN Aliases
    /\ o \in Secrets => (\E t \in Objects : Gives(t, o)) /\ (\A row \in removed : row.kind # "type")

\* Whatever fails on the way, and also after a reinstall on a fresh
\* database, every ConfigMap, Secret and built-in type is imported once the
\* service stays: each failure is followed by a requeue, an event or, at
\* the latest, the next resync.  Excepted are Secrets and built-in types
\* whose marks outlived the database, and Secrets whose type is such a one
\* or was deleted by a user.
EverythingImported ==
    \A o \in Objects :
      <>[](service = "running" /\ Importable(o)) => []<>(EntryOf(o) \in made)
=============================================================================
