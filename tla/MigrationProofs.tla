--------------------------- MODULE MigrationProofs --------------------------
(***************************************************************************)
(* What is marked as imported is in the database, and what users deleted   *)
(* stays deleted, for any number of objects, installs and failures.        *)
(***************************************************************************)
EXTENDS Migration, TLAPS

Steps == {"idle", "resolve", "create", "mark", "status"}
Names == {Name(o) : o \in Objects}
JobType ==
    [object : Objects \cup {"none"}, step : Steps, synced : BOOLEAN, since : Nat,
     type : Names \cup Answers \cup {"none"}, born : Nat]
Stages == {"idle", "configmaps", "secrets", "inittypes", "last"}
Marking == {"configmap", "secret"}

\* Installs and deletions take turns.
Counted ==
    /\ installs \in Nat /\ deletions \in Nat /\ faults \in Nat
    /\ installs = IF service = "running" THEN deletions + 1 ELSE deletions

\* Rows were stored by an install so far, and count as made.
RowsKnown ==
    /\ \A row \in db \cup removed :
         /\ row.kind \in {"type", "connection"} /\ row.name \in Names
         /\ row.install \in Nat /\ row.install <= installs
    /\ \A row \in db : Entry(row) \in made

\* What a reconcile has read, and that none begins during a deletion.
JobsFit ==
    /\ work \in [Controllers -> JobType]
    /\ \A k \in Controllers : work[k].since <= deletions
    /\ \A k \in Marking : work[k].step # "idle" /\ service = "deleting" => work[k].since < deletions
    /\ work["secret"].step # "idle" => ~ work["secret"].synced
    /\ work["init"].step # "idle" => work["init"].born # 0
    /\ work["init"].born <= installs
    /\ work["init"].step = "status" => work["init"].type \in Answers

\* A mark or a phase that is about to be set is earned.
MarksEarned ==
    \A k \in Marking :
        /\ work[k].step = "mark"
        /\ work[k].since = deletions
        /\ Name(work[k].object) \notin DOMAIN Aliases
        => service = "running" /\ EntryOf(work[k].object) \in made
PhaseEarned ==
    /\ work["init"].step = "status"
    /\ work["init"].type \in {"created", "conflict"}
    /\ work["init"].born = installs
    => EntryOf(work["init"].object) \in made

\* An InitDataConnectionType is of this install, unless the finalizer left it.
CrsFit ==
    \A o \in InitTypes :
        /\ cr[o].born <= installs
        /\ cr[o] # NoCr => o \in objects
        /\ cr[o] # NoCr /\ service = "running" /\ o \notin left => cr[o].born = installs

\* What the finalizer has been through is unmarked, or known not to be.
Excused(o) == Name(o) \in DOMAIN Aliases \/ o \in late \cup left \cup cleanup.todo
Cleared ==
    /\ cleanup \in [stage : Stages, todo : SUBSET Objects]
    /\ cleanup.stage = "last" => cleanup.todo = {}
    /\ cleanup.stage # "idle" => \A o \in synced \cap ConfigMaps : Excused(o)
    /\ cleanup.stage \notin {"idle", "configmaps"} => \A o \in synced \cap Secrets : Excused(o)
    /\ cleanup.stage \in {"inittypes", "last"} =>
         \A o \in InitTypes : cr[o] # NoCr => o \in left \cup cleanup.todo

\* So that nothing else is marked when there is no service.
Gone ==
    /\ synced \subseteq ConfigMaps \cup Secrets
    /\ service = "absent" =>
         /\ \A o \in synced : Name(o) \in DOMAIN Aliases \/ o \in late \cup left
         /\ \A o \in InitTypes : cr[o] # NoCr => o \in left

(***************************************************************************)
(* A Secret whose connection was stored in this install, and whose import  *)
(* was not cut off, is marked or about to be; so it is not imported again. *)
(***************************************************************************)
OnceOnly ==
    \A row \in db \cup removed :
        row.from \in Secrets \ retried /\ row.install = installs =>
            /\ service = "running" =>
                 \/ row.from \in synced
                 \/ work["secret"].step = "mark" /\ work["secret"].object = row.from
            /\ service # "absent" /\ work["secret"].object = row.from
                 => work["secret"].step \notin {"resolve", "create"}
NotBack == \A row \in removed : row.from \in Secrets \ retried => row \notin db

MigrationInv ==
    /\ MigrationTypeOK /\ Counted /\ RowsKnown /\ JobsFit /\ MarksEarned /\ PhaseEarned
    /\ CrsFit /\ Cleared /\ Gone /\ OnceOnly /\ NotBack /\ SyncedMeansImported

LEMMA MigrationStart == MigrationInit => MigrationInv
<1> SUFFICES ASSUME MigrationInit PROVE MigrationInv
    OBVIOUS
<1> USE DEF MigrationInit
<1>1. MigrationTypeOK
    BY MigrationAssumption DEF MigrationTypeOK, NoCr, NoCleanup, Idle, Phases, Terminal, MigrationAssumption
<1>2. Counted /\ RowsKnown
    BY DEF Counted, RowsKnown
<1>3. Idle \in JobType
    BY DEF JobType, Idle, Steps
<1>4. JobsFit
    BY <1>3 DEF JobsFit, Idle, Controllers, Marking
<1>5. MarksEarned /\ PhaseEarned
    BY DEF MarksEarned, PhaseEarned, Marking, Controllers, Idle
<1>6. CrsFit /\ Cleared /\ Gone
    BY DEF CrsFit, Cleared, Gone, NoCr, NoCleanup, Stages
<1>7. OnceOnly /\ NotBack /\ SyncedMeansImported
    BY DEF OnceOnly, NotBack, SyncedMeansImported
<1> QED
    BY <1>1, <1>2, <1>4, <1>5, <1>6, <1>7 DEF MigrationInv

\* The names of objects do not change, and so neither does what they become.
LEMMA WorldStays ==
    ASSUME UNCHANGED world
    PROVE  /\ objects' = objects /\ Names' = Names /\ JobType' = JobType
           /\ \A o : Name(o)' = Name(o) /\ EntryOf(o)' = EntryOf(o)
<1> QED
    BY DEF objects, Names, JobType, Name, EntryOf

\* An InitDataConnectionType exists when it has a phase.
LEMMA CrThere ==
    ASSUME MigrationTypeOK, NEW o \in InitTypes
    PROVE  /\ (cr[o] # NoCr) = (cr[o].born # 0)
           /\ (cr[o] # NoCr) = (cr[o].phase # "none")
<1> QED
    BY DEF MigrationTypeOK, NoCr

\* A reconcile begins: what it may start with, and the state it starts in.
LEMMA Begins ==
    ASSUME MigrationInv, NEW o \in objects, Reconcile(o)
    PROVE  \E k \in Controllers, first \in Steps \ {"idle"} :
             /\ work[k] = Idle /\ o \in Watched(k)
             /\ work' = [work EXCEPT ![k] = Job(o, first)]
             /\ retried' = retried \cup ({o} \cap Secrets \cap fresh)
             /\ UNCHANGED <<world, service, db, synced, cr, fresh, cleanup, made, removed, late, left, counters>>
             /\ k \in Marking => service # "deleting"
             /\ k = "secret" => o \notin Marked /\ first = "resolve"
             /\ k = "init" => cr[o].phase # "none" /\ first = "create"
             /\ k = "configmap" => first = "create" \/ Name(o) \in DOMAIN Aliases
<1> USE DEF Begin, dataConnectServiceDeleting, Steps, Marking, Controllers, Watched
<1>1. CASE o \in ConfigMaps /\ ReconcileConfigMap(o)
    BY <1>1 DEF ReconcileConfigMap
<1>2. CASE o \in Secrets /\ ReconcileSecret(o)
    BY <1>2 DEF ReconcileSecret
<1>3. CASE o \in InitTypes /\ ReconcileInitType(o)
    BY <1>3 DEF ReconcileInitType
<1> QED
    BY <1>1, <1>2, <1>3 DEF Reconcile

LEMMA BeginKeeps ==
    ASSUME MigrationInv, NEW o \in objects, Reconcile(o)
    PROVE  MigrationInv'
<1> USE DEF MigrationInv
<1>1. PICK k \in Controllers, first \in Steps \ {"idle"} :
             /\ work[k] = Idle /\ o \in Watched(k)
             /\ work' = [work EXCEPT ![k] = Job(o, first)]
             /\ retried' = retried \cup ({o} \cap Secrets \cap fresh)
             /\ UNCHANGED <<world, service, db, synced, cr, fresh, cleanup, made, removed, late, left, counters>>
             /\ k \in Marking => service # "deleting"
             /\ k = "secret" => o \notin Marked /\ first = "resolve"
             /\ k = "init" => cr[o].phase # "none" /\ first = "create"
             /\ k = "configmap" => first = "create" \/ Name(o) \in DOMAIN Aliases
    BY Begins
<1>2. /\ UNCHANGED <<made, removed, late, left, installs, deletions, faults>> /\ retried \subseteq retried'
      /\ objects' = objects /\ Names' = Names /\ JobType' = JobType
      /\ \A x : Name(x)' = Name(x) /\ EntryOf(x)' = EntryOf(x)
    BY <1>1, WorldStays DEF counters
<1>3. /\ work'[k] = Job(o, first) /\ \A j \in Controllers \ {k} : work'[j] = work[j]
      /\ work \in [Controllers -> JobType] /\ work[k].step = "idle" /\ o \in Objects
    BY <1>1, MigrationAssumption DEF JobsFit, Idle, MigrationTypeOK, MigrationAssumption, objects
<1>4. /\ Job(o, first) \in JobType /\ Job(o, first).object = o /\ Job(o, first).step = first
      /\ Job(o, first).since = deletions /\ Job(o, first).synced = (o \in Marked)
      /\ k = "init" => Job(o, first).born = cr[o].born /\ cr[o].born # 0
      /\ k = "init" => cr[o].born <= installs
      /\ Job(o, first).type = "none"
    <2>1. o \in InitTypes => cr[o].born \in Nat
        BY DEF MigrationTypeOK
    <2>2. k = "init" => o \in InitTypes
        BY <1>1 DEF Watched
    <2> QED
        BY <1>1, <1>3, <2>1, <2>2 DEF Job, JobType, Counted, MigrationTypeOK, CrsFit
<1>5. MigrationTypeOK'
    BY <1>1, <1>2, <1>3, <1>4 DEF MigrationTypeOK, Refers
<1>6. Counted' /\ RowsKnown' /\ CrsFit' /\ Cleared' /\ Gone' /\ NotBack' /\ SyncedMeansImported'
    BY <1>1, <1>2 DEF Counted, RowsKnown, CrsFit, Cleared, Excused, Gone, NotBack, SyncedMeansImported, Entry
<1>7. JobsFit'
    <2>1. work' \in [Controllers -> JobType]
        BY <1>1, <1>3, <1>4
    <2>2. \A j \in Controllers : work'[j].since <= deletions
        BY <1>3, <1>4 DEF JobsFit, Counted
    <2> QED
        BY <1>1, <1>2, <1>3, <1>4, <2>1, <2>2 DEF JobsFit, Marking, Controllers
<1>8. MarksEarned' /\ PhaseEarned'
    BY <1>1, <1>2, <1>3, <1>4 DEF MarksEarned, PhaseEarned, Marking, Controllers
<1>9. OnceOnly'
    <2>1. CASE k # "secret"
        BY <1>1, <1>2, <1>3, <2>1 DEF OnceOnly, Controllers
    <2>2. CASE k = "secret"
        <3>1. /\ service # "deleting" /\ work["secret"].step = "idle"
              /\ o \in Secrets => o \notin synced \/ o \in retried'
            BY <1>1, <1>3, <2>2 DEF Marking, Marked
        <3>2. work'["secret"].object = o
            BY <1>3, <1>4, <2>2
        <3>3. service \in {"absent", "running", "deleting"}
            BY DEF MigrationTypeOK
        <3> QED
            BY <1>1, <1>2, <3>1, <3>2, <3>3 DEF OnceOnly
    <2> QED
        BY <2>1, <2>2
<1> QED
    BY <1>5, <1>6, <1>7, <1>8, <1>9

\* What the POST of a row may do.
LEMMA Posted ==
    ASSUME MigrationInv, NEW row, NEW answer \in Answers, Post(row, answer)
    PROVE  /\ db \subseteq db' /\ db' \subseteq db \cup {row}
           /\ made \subseteq made' /\ \A r \in db' : Entry(r) \in made'
           /\ answer \in {"created", "conflict"} => service # "absent" /\ Entry(row) \in made'
           /\ retried \subseteq retried'
           /\ db' # db => service # "absent" /\ Refers(row)
           /\ db' # db => answer = "created" \/ row.from \in retried'
           /\ faults' \in Nat /\ faults' <= MaxFaults
<1> QED
    BY MigrationAssumption DEF MigrationInv, Post, Store, Taken, Fault, Answers, RowsKnown, Counted,
       MigrationTypeOK, MigrationAssumption

(***************************************************************************)
(* A controller has had an answer: its job is over, or it goes on to mark  *)
(* the object or to set its phase.                                         *)
(***************************************************************************)
LEMMA PostKeeps ==
    ASSUME MigrationInv, NEW k \in Controllers, work[k].step = "create",
           NEW row, NEW answer \in Answers, Post(row, answer),
           row.kind \in {"type", "connection"}, row.name \in Names, row.install = installs,
           Entry(row) = EntryOf(work[k].object),
           row.from = IF k = "secret" THEN work[k].object ELSE "none",
           NEW job \in JobType, work' = [work EXCEPT ![k] = job],
           job = Idle \/ (/\ job.step # "idle"
                          /\ job.object = work[k].object /\ job.since = work[k].since
                          /\ job.synced = work[k].synced /\ job.born = work[k].born),
           k = "init" => job.step = "status" /\ job.type = answer,
           k \in Marking => job = Idle \/ (job.step = "mark" /\ answer \in {"created", "conflict"}),
           k = "secret" /\ answer = "created" => job.step = "mark",
           UNCHANGED <<world, service, synced, cr, fresh, cleanup, removed, late, left, installs, deletions>>
    PROVE  MigrationInv'
<1> USE DEF MigrationInv
<1>1. /\ objects' = objects /\ Names' = Names /\ JobType' = JobType
      /\ \A x : Name(x)' = Name(x) /\ EntryOf(x)' = EntryOf(x)
    BY WorldStays
<1>2. /\ db \subseteq db' /\ db' \subseteq db \cup {row}
      /\ made \subseteq made' /\ \A r \in db' : Entry(r) \in made'
      /\ answer \in {"created", "conflict"} => service # "absent" /\ Entry(row) \in made'
      /\ retried \subseteq retried'
      /\ db' # db => service # "absent" /\ Refers(row)
      /\ db' # db => answer = "created" \/ row.from \in retried'
      /\ faults' \in Nat /\ faults' <= MaxFaults
    BY Posted
<1>3. /\ work \in [Controllers -> JobType]
      /\ work'[k] = job /\ \A j \in Controllers \ {k} : work'[j] = work[j]
      /\ work[k] # Idle /\ work[k].object \in objects \cap Watched(k)
    BY DEF JobsFit, Idle, MigrationTypeOK
<1>4. Idle.step = "idle" /\ Idle.since = 0 /\ Idle.object = "none" /\ Idle.born = 0
    BY DEF Idle
<1>5. MigrationTypeOK'
    <2>1. \A r \in db' : Refers(r)'
        BY <1>2 DEF MigrationTypeOK, Refers
    <2>2. \A j \in Controllers : work'[j] # Idle => work'[j].object \in objects \cap Watched(j)
        BY <1>3 DEF MigrationTypeOK
    <2> QED
        BY <1>1, <1>2, <2>1, <2>2 DEF MigrationTypeOK
<1>6. Counted'
    BY <1>2 DEF Counted
<1>7. RowsKnown'
    BY <1>1, <1>2 DEF RowsKnown, Counted, Entry
<1>8. CrsFit' /\ Cleared' /\ Gone'
    BY <1>1 DEF CrsFit, Cleared, Excused, Gone
<1>9. SyncedMeansImported'
    BY <1>1, <1>2 DEF SyncedMeansImported
<1>10. JobsFit'
    <2>1. work' \in [Controllers -> JobType']
        BY <1>1, <1>3
    <2>2. \A j \in Controllers : work'[j].since <= deletions
        BY <1>3, <1>4 DEF JobsFit, Counted
    <2>3. \A j \in Marking : work'[j].step # "idle" /\ service = "deleting" => work'[j].since < deletions
        BY <1>3, <1>4 DEF JobsFit, Marking, Controllers
    <2>4. work'["secret"].step # "idle" => ~ work'["secret"].synced
        BY <1>3, <1>4 DEF JobsFit, Controllers
    <2>5. /\ work'["init"].step # "idle" => work'["init"].born # 0
          /\ work'["init"].born <= installs
          /\ work'["init"].step = "status" => work'["init"].type \in Answers
        BY <1>3, <1>4 DEF JobsFit, Controllers, Counted
    <2> QED
        BY <2>1, <2>2, <2>3, <2>4, <2>5 DEF JobsFit
<1>11. MarksEarned'
    <2> SUFFICES ASSUME NEW j \in Marking, work'[j].step = "mark", work'[j].since = deletions,
                        Name(work'[j].object) \notin DOMAIN Aliases
                 PROVE  service = "running" /\ EntryOf(work'[j].object) \in made'
        BY <1>1 DEF MarksEarned
    <2>1. CASE j # k
        BY <1>2, <1>3, <2>1 DEF MarksEarned, Marking, Controllers
    <2>2. CASE j = k
        <3>1. answer \in {"created", "conflict"} /\ job.object = work[k].object /\ work[k].since = deletions
            BY <1>3, <1>4, <2>2
        <3>2. service = "running"
            BY <1>2, <2>2, <3>1 DEF JobsFit, MigrationTypeOK, Counted
        <3> QED
            BY <1>2, <1>3, <2>2, <3>1, <3>2
    <2> QED
        BY <2>1, <2>2
<1>12. PhaseEarned'
    <2>1. CASE k # "init"
        BY <1>1, <1>2, <1>3, <2>1 DEF PhaseEarned, Controllers
    <2>2. CASE k = "init"
        BY <1>1, <1>2, <1>3, <1>4, <2>2 DEF PhaseEarned
    <2> QED
        BY <2>1, <2>2
<1>13. OnceOnly'
    <2> SUFFICES ASSUME NEW r \in db' \cup removed, r.from \in Secrets \ retried', r.install = installs
                 PROVE  /\ service = "running" =>
                             \/ r.from \in synced
                             \/ work'["secret"].step = "mark" /\ work'["secret"].object = r.from
                        /\ service # "absent" /\ work'["secret"].object = r.from
                             => work'["secret"].step \notin {"resolve", "create"}
        BY DEF OnceOnly
    <2>1. "none" \notin Secrets
        BY MigrationAssumption DEF MigrationAssumption, Objects
    <2>2. CASE k # "secret"
        <3>1. r \in db \cup removed
            BY <1>2, <2>1, <2>2
        <3> QED
            BY <1>2, <1>3, <2>2, <3>1 DEF OnceOnly, Controllers
    <2>3. CASE k = "secret" /\ r \in db \cup removed
        BY <1>2, <1>3, <1>4, <2>1, <2>3 DEF OnceOnly, Marking
    <2>4. CASE k = "secret" /\ r \notin db \cup removed
        <3>1. r = row /\ answer = "created"
            BY <1>2, <2>4
        <3> QED
            BY <1>3, <1>4, <2>4, <3>1
    <2> QED
        BY <2>2, <2>3, <2>4
<1>14. NotBack'
    <2> SUFFICES ASSUME NEW r \in removed, r.from \in Secrets \ retried' PROVE r \notin db'
        BY DEF NotBack
    <2>1. r \notin db
        BY <1>2 DEF NotBack
    <2>2. CASE r = row
        <3>1. k = "secret" /\ row.from = work["secret"].object
            BY <2>2, MigrationAssumption DEF MigrationAssumption, Objects
        <3>2. service = "absent"
            BY <1>2, <2>2, <3>1 DEF OnceOnly
        <3> QED
            BY <1>2, <2>1, <3>2
    <2> QED
        BY <1>2, <2>1, <2>2
<1> QED
    BY <1>5, <1>6, <1>7, <1>8, <1>9, <1>10, <1>11, <1>12, <1>13, <1>14

\* The row that an object becomes.
LEMMA RowOf ==
    ASSUME NEW o \in Objects, NEW type
    PROVE  /\ o \notin Secrets => Entry(TypeRow(o)) = EntryOf(o)
           /\ o \in Secrets => Entry(ConnectionRow(o, type)) = EntryOf(o)
           /\ TypeRow(o).kind = "type" /\ TypeRow(o).name \in Names
           /\ TypeRow(o).install = installs /\ TypeRow(o).from = "none"
           /\ ConnectionRow(o, type).kind = "connection" /\ ConnectionRow(o, type).name \in Names
           /\ ConnectionRow(o, type).install = installs /\ ConnectionRow(o, type).from = o
<1> QED
    BY DEF Entry, EntryOf, TypeRow, ConnectionRow, Names

LEMMA CreateKeeps ==
    ASSUME MigrationInv, CreateTypeOfConfigMap \/ CreateConnection \/ CreateTypeOfInit
    PROVE  MigrationInv'
<1> USE DEF MigrationInv
<1>1. \A k \in Controllers : work[k].step = "create" =>
        /\ work[k].object \in Objects \cap Watched(k) /\ work[k] \in JobType
        /\ k # "secret" => work[k].object \notin Secrets
    BY MigrationAssumption DEF JobsFit, MigrationTypeOK, Idle, MigrationAssumption, objects, Watched, Controllers
<1>2. /\ "configmap" \in Controllers \cap Marking /\ "secret" \in Controllers \cap Marking
      /\ "init" \in Controllers \ Marking /\ Idle \in JobType
    BY DEF Controllers, Marking, Idle, JobType, Steps
<1>3. CASE CreateTypeOfConfigMap
    <2> DEFINE o == work["configmap"].object
               job == [work["configmap"] EXCEPT !.step = "mark"]
    <2>1. PICK answer \in Answers :
            /\ CreateConnectionType("configmap", answer)
            /\ \/ Finish("configmap")
               \/ GoOn("configmap", "mark") /\ answer \in {"created", "conflict"}
        BY <1>3 DEF CreateTypeOfConfigMap, Answers
    <2>2. work["configmap"].step = "create" /\ Post(TypeRow(o), answer) /\ o \in Objects \ Secrets
        BY <1>1, <1>2, <2>1 DEF CreateConnectionType
    <2>3. /\ job \in JobType /\ job.step = "mark" /\ job.object = o
          /\ job.since = work["configmap"].since /\ job.synced = work["configmap"].synced
          /\ job.born = work["configmap"].born
        BY <1>1, <1>2, <2>2 DEF JobType, Steps
    <2>4. UNCHANGED <<world, service, synced, cr, fresh, cleanup, removed, late, left, installs, deletions>>
        BY <1>3 DEF CreateTypeOfConfigMap
    <2>5. CASE Finish("configmap")
        <3>1. work' = [work EXCEPT !["configmap"] = Idle]
            BY <2>5 DEF Finish
        <3> HIDE DEF o, job
        <3> QED
            BY <1>2, <2>2, <2>4, <3>1, RowOf, PostKeeps DEF o
    <2>6. CASE GoOn("configmap", "mark") /\ answer \in {"created", "conflict"}
        <3>1. work' = [work EXCEPT !["configmap"] = job]
            BY <2>6 DEF GoOn, JobsFit
        <3> HIDE DEF o, job
        <3> QED
            BY <1>2, <2>2, <2>3, <2>4, <2>6, <3>1, RowOf, PostKeeps DEF o
    <2> QED
        BY <2>1, <2>5, <2>6
<1>4. CASE CreateConnection
    <2> DEFINE o == work["secret"].object
               row == ConnectionRow(o, work["secret"].type)
               job == [work["secret"] EXCEPT !.step = "mark"]
    <2>1. PICK answer \in Answers :
            /\ Post(row, answer)
            /\ IF answer \in {"created", "conflict"} THEN GoOn("secret", "mark") ELSE Finish("secret")
        BY <1>4 DEF CreateConnection
    <2>2. work["secret"].step = "create" /\ o \in Objects \cap Secrets
        BY <1>1, <1>2, <1>4 DEF CreateConnection, Watched
    <2>3. /\ job \in JobType /\ job.step = "mark" /\ job.object = o
          /\ job.since = work["secret"].since /\ job.synced = work["secret"].synced
          /\ job.born = work["secret"].born
        BY <1>1, <1>2, <2>2 DEF JobType, Steps
    <2>4. UNCHANGED <<world, service, synced, cr, fresh, cleanup, removed, late, left, installs, deletions>>
        BY <1>4 DEF CreateConnection
    <2>5. /\ row.kind = "connection" /\ row.name \in Names /\ row.install = installs
          /\ Entry(row) = EntryOf(work["secret"].object) /\ row.from = work["secret"].object
        BY <2>2, RowOf
    <2>6. CASE answer \notin {"created", "conflict"}
        <3>1. work' = [work EXCEPT !["secret"] = Idle]
            BY <2>1, <2>6 DEF Finish
        <3> HIDE DEF o, row, job
        <3> QED
            BY <1>2, <2>1, <2>2, <2>4, <2>5, <2>6, <3>1, PostKeeps
    <2>7. CASE answer \in {"created", "conflict"}
        <3>1. work' = [work EXCEPT !["secret"] = job]
            BY <2>1, <2>7 DEF GoOn, JobsFit
        <3>2. job.object = work["secret"].object
            BY <2>3
        <3> HIDE DEF o, row, job
        <3> QED
            BY <1>2, <2>1, <2>2, <2>3, <2>4, <2>5, <2>7, <3>1, <3>2, PostKeeps
    <2> QED
        BY <2>6, <2>7
<1>5. CASE CreateTypeOfInit
    <2> DEFINE o == work["init"].object
    <2>1. PICK answer \in Answers :
            /\ CreateConnectionType("init", answer)
            /\ work' = [work EXCEPT !["init"].step = "status", !["init"].type = answer]
        BY <1>5 DEF CreateTypeOfInit
    <2> DEFINE job == [work["init"] EXCEPT !.step = "status", !.type = answer]
    <2>2. work["init"].step = "create" /\ Post(TypeRow(o), answer) /\ o \in Objects \ Secrets
        BY <1>1, <1>2, <2>1 DEF CreateConnectionType
    <2>3. /\ job \in JobType /\ job.step = "status" /\ job.object = o /\ job.type = answer
          /\ job.since = work["init"].since /\ job.synced = work["init"].synced
          /\ job.born = work["init"].born
        BY <1>1, <1>2, <2>2 DEF JobType, Steps
    <2>4. UNCHANGED <<world, service, synced, cr, fresh, cleanup, removed, late, left, installs, deletions>>
        BY <1>5 DEF CreateTypeOfInit
    <2>5. work' = [work EXCEPT !["init"] = job]
        BY <1>2, <2>1 DEF JobsFit
    <2> DEFINE row == TypeRow(o)
    <2>6. /\ row.kind = "type" /\ row.name \in Names /\ row.install = installs
          /\ Entry(row) = EntryOf(work["init"].object) /\ row.from = "none"
          /\ Post(row, answer) /\ job.object = work["init"].object
        BY <2>2, <2>3, RowOf
    <2> HIDE DEF o, job, row
    <2> QED
        BY <1>2, <2>2, <2>3, <2>4, <2>5, <2>6, PostKeeps
<1> QED
    BY <1>3, <1>4, <1>5

\* The type of a Secret is looked up.
LEMMA ResolveKeeps ==
    ASSUME MigrationInv, ResolveType
    PROVE  MigrationInv'
<1> USE DEF MigrationInv
<1>1. /\ UNCHANGED <<world, service, db, synced, cr, fresh, cleanup, made, removed, late, left, retried,
                     installs, deletions>>
      /\ work["secret"].step = "resolve"
    BY DEF ResolveType, histories
<1>2. /\ objects' = objects /\ Names' = Names /\ JobType' = JobType
      /\ \A x : Name(x)' = Name(x) /\ EntryOf(x)' = EntryOf(x)
    BY <1>1, WorldStays
<1>3. faults' \in Nat /\ faults' <= MaxFaults
    BY MigrationAssumption DEF ResolveType, Fault, Counted, MigrationTypeOK, MigrationAssumption
<1>4. PICK job \in JobType :
        /\ work' = [work EXCEPT !["secret"] = job]
        /\ job = Idle \/ (/\ job.step = "create" /\ job.object = work["secret"].object
                          /\ job.since = work["secret"].since /\ job.synced = work["secret"].synced)
    <2>1. CASE Finish("secret")
        <3>1. Idle \in JobType
            BY DEF Idle, JobType, Steps
        <3> QED
            BY <2>1, <3>1 DEF Finish
    <2>2. CASE ~ Finish("secret")
        <3>1. PICK type \in resolveConnectionTypeID(TypeRef(work["secret"].object)) :
                work' = [work EXCEPT !["secret"].step = "create", !["secret"].type = type]
            BY <2>2 DEF ResolveType
        <3>2. type \in Names
            BY <3>1 DEF resolveConnectionTypeID, resolveByName, RowsKnown
        <3> DEFINE job == [work["secret"] EXCEPT !.step = "create", !.type = type]
        <3>3. work["secret"] \in JobType /\ work \in [Controllers -> JobType]
            BY DEF JobsFit, Controllers
        <3>4. /\ job \in JobType /\ job.step = "create" /\ job.object = work["secret"].object
              /\ job.since = work["secret"].since /\ job.synced = work["secret"].synced
            BY <3>2, <3>3 DEF JobType, Steps
        <3>5. work' = [work EXCEPT !["secret"] = job]
            BY <3>1, <3>3
        <3> QED
            BY <3>4, <3>5
    <2> QED
        BY <2>1, <2>2
<1>5. /\ work \in [Controllers -> JobType]
      /\ work'["secret"] = job /\ \A j \in Controllers \ {"secret"} : work'[j] = work[j]
      /\ work["secret"].object \in objects \cap Watched("secret")
    BY <1>1, <1>4 DEF JobsFit, MigrationTypeOK, Controllers, Idle
<1>6. Idle.step = "idle" /\ Idle.since = 0 /\ Idle.object = "none"
    BY DEF Idle
<1>7. MigrationTypeOK'
    BY <1>1, <1>2, <1>3, <1>4, <1>5 DEF MigrationTypeOK, Refers
<1>8. Counted' /\ RowsKnown' /\ CrsFit' /\ Cleared' /\ Gone' /\ NotBack' /\ SyncedMeansImported'
    BY <1>1, <1>2, <1>3
       DEF Counted, RowsKnown, CrsFit, Cleared, Excused, Gone, NotBack, SyncedMeansImported, Entry
<1>9. JobsFit'
    <2>1. work' \in [Controllers -> JobType']
        BY <1>2, <1>4, <1>5
    <2>2. \A j \in Controllers : work'[j].since <= deletions
        BY <1>4, <1>5, <1>6 DEF JobsFit, Counted, Controllers
    <2> QED
        BY <1>1, <1>4, <1>5, <1>6, <2>1, <2>2 DEF JobsFit, Marking, Controllers
<1>10. MarksEarned' /\ PhaseEarned'
    BY <1>1, <1>2, <1>4, <1>5, <1>6 DEF MarksEarned, PhaseEarned, Marking, Controllers
<1>11. OnceOnly'
    BY <1>1, <1>4, <1>5, <1>6, MigrationAssumption DEF OnceOnly, MigrationAssumption, Objects
<1> QED
    BY <1>7, <1>8, <1>9, <1>10, <1>11

\* A controller ends its reconcile.
LEMMA FinishFacts ==
    ASSUME JobsFit, Counted, NEW k \in Controllers, Finish(k), UNCHANGED <<world, service, installs, deletions>>
    PROVE  /\ work'[k] = Idle /\ \A j \in Controllers \ {k} : work'[j] = work[j]
           /\ Idle.step = "idle" /\ Idle.since = 0 /\ Idle.object = "none" /\ Idle.born = 0
           /\ JobsFit'
<1>1. Idle \in JobType /\ Idle.step = "idle" /\ Idle.since = 0 /\ Idle.object = "none" /\ Idle.born = 0
    BY DEF Idle, JobType, Steps
<1>2. work'[k] = Idle /\ \A j \in Controllers \ {k} : work'[j] = work[j]
    BY DEF Finish, JobsFit
<1>3. work' \in [Controllers -> JobType']
    BY <1>1, WorldStays DEF Finish, JobsFit
<1>4. \A j \in Controllers : work'[j].since <= deletions
    BY <1>1, <1>2 DEF JobsFit, Counted
<1> QED
    BY <1>1, <1>2, <1>3, <1>4 DEF JobsFit, Marking, Controllers, Counted

LEMMA MarkKeeps ==
    ASSUME MigrationInv, NEW k \in Marking, markSynced(k)
    PROVE  MigrationInv'
<1> USE DEF MigrationInv
<1> DEFINE o == work[k].object
           news == {o} \ (IF work[k].synced THEN {o} ELSE synced)
<1>1. /\ UNCHANGED <<world, service, db, cr, cleanup, made, removed, left, installs, deletions>>
      /\ work[k].step = "mark" /\ Finish(k) /\ k \in Controllers
    BY DEF markSynced, Marking, Controllers
<1>2. /\ objects' = objects /\ Names' = Names /\ JobType' = JobType
      /\ \A x : Name(x)' = Name(x) /\ EntryOf(x)' = EntryOf(x)
    BY <1>1, WorldStays
<1>3. /\ work'[k] = Idle /\ \A j \in Controllers \ {k} : work'[j] = work[j]
      /\ Idle.step = "idle" /\ Idle.since = 0 /\ Idle.object = "none" /\ Idle.born = 0
      /\ JobsFit'
    BY <1>1, FinishFacts
<1>4. o \in objects \cap (ConfigMaps \cup Secrets)
    BY <1>1 DEF MigrationTypeOK, Idle, Marking, Watched
<1>5. \/ /\ synced' = synced \cup news
         /\ late' = IF deletions = work[k].since THEN late ELSE late \cup news
         /\ retried' = retried
         /\ fresh' \subseteq fresh \cup {o}
         /\ faults' \in Nat /\ faults' <= MaxFaults
      \/ /\ synced' = synced /\ late' = late
         /\ retried' = retried \cup {o}
         /\ fresh' = fresh
         /\ faults' \in Nat /\ faults' <= MaxFaults
    BY MigrationAssumption DEF markSynced, Lags, Fault, Counted, MigrationTypeOK, MigrationAssumption
<1>6. /\ faults' \in Nat /\ faults' <= MaxFaults /\ retried \subseteq retried' /\ late \subseteq late'
      /\ fresh' \subseteq fresh \cup {o}
    BY <1>5
<1>7. synced \subseteq synced' /\ synced' \subseteq synced \cup {o}
    BY <1>5
\* A mark that is new comes too late, or is earned.
<1>8. \A x \in synced' \ synced :
        x = o /\ (o \in late' \/ Name(o) \in DOMAIN Aliases \/ (service = "running" /\ EntryOf(o) \in made))
    BY <1>1, <1>5 DEF MarksEarned
<1>9. service = "deleting" => \A x \in synced' \ synced : x \in late'
    BY <1>1, <1>5 DEF JobsFit, Counted
<1> HIDE DEF o, news
<1>10. MigrationTypeOK'
    BY <1>1, <1>2, <1>3, <1>4, <1>6, <1>7 DEF MigrationTypeOK, Refers
<1>11. Counted' /\ RowsKnown' /\ CrsFit'
    BY <1>1, <1>2, <1>6 DEF Counted, RowsKnown, CrsFit, Entry
<1>12. Cleared'
    <2>1. cleanup.stage # "idle" => service = "deleting"
        BY DEF MigrationTypeOK, NoCleanup
    <2> QED
        BY <1>1, <1>2, <1>6, <1>9, <2>1 DEF Cleared, Excused
<1>13. Gone'
    BY <1>1, <1>2, <1>4, <1>6, <1>7, <1>8 DEF Gone
<1>14. SyncedMeansImported'
    BY <1>1, <1>2, <1>6, <1>8 DEF SyncedMeansImported
<1>15. MarksEarned' /\ PhaseEarned'
    BY <1>1, <1>2, <1>3 DEF MarksEarned, PhaseEarned, Marking, Controllers
<1>16. OnceOnly'
    <2> SUFFICES ASSUME NEW r \in db \cup removed, r.from \in Secrets \ retried', r.install = installs
                 PROVE  /\ service = "running" =>
                             \/ r.from \in synced'
                             \/ work'["secret"].step = "mark" /\ work'["secret"].object = r.from
                        /\ service # "absent" /\ work'["secret"].object = r.from
                             => work'["secret"].step \notin {"resolve", "create"}
        BY <1>1 DEF OnceOnly
    <2>1. CASE k # "secret"
        BY <1>3, <1>6, <1>7, <2>1 DEF OnceOnly, Controllers
    <2>2. CASE k = "secret"
        <3>1. r.from = o => r.from \in synced'
            BY <1>1, <1>5, <2>2 DEF JobsFit, o, news
        <3> QED
            BY <1>3, <1>6, <1>7, <2>2, <3>1 DEF OnceOnly, o
    <2> QED
        BY <2>1, <2>2
<1>17. NotBack'
    BY <1>1, <1>6 DEF NotBack
<1> QED
    BY <1>3, <1>10, <1>11, <1>12, <1>13, <1>14, <1>15, <1>16, <1>17

LEMMA StatusKeeps ==
    ASSUME MigrationInv, StatusOfInit
    PROVE  MigrationInv'
<1> USE DEF MigrationInv
<1> DEFINE job == work["init"]
           o == job.object
           phase == PhaseOf[job.type]
<1>1. /\ UNCHANGED <<world, service, db, synced, fresh, cleanup, made, removed, late, left, retried,
                     installs, deletions>>
      /\ job.step = "status" /\ Finish("init") /\ "init" \in Controllers
    BY DEF StatusOfInit, Controllers, histories
<1>2. /\ objects' = objects /\ Names' = Names /\ JobType' = JobType
      /\ \A x : Name(x)' = Name(x) /\ EntryOf(x)' = EntryOf(x)
    BY <1>1, WorldStays
<1>3. /\ work'["init"] = Idle /\ \A j \in Controllers \ {"init"} : work'[j] = work[j]
      /\ Idle.step = "idle" /\ Idle.since = 0 /\ Idle.object = "none" /\ Idle.born = 0
      /\ JobsFit'
    BY <1>1, FinishFacts
<1>4. o \in InitTypes \cap objects /\ job.type \in Answers /\ job.born # 0
    BY <1>1 DEF MigrationTypeOK, Idle, Watched, JobsFit
<1>5. phase \in Phases \ {"none"} /\ (phase \in Terminal => job.type \in {"created", "conflict"})
    BY <1>4 DEF PhaseOf, Phases, Terminal, Answers
<1>6. faults' \in Nat /\ faults' <= MaxFaults
    BY MigrationAssumption DEF StatusOfInit, Fault, Counted, MigrationTypeOK, MigrationAssumption
<1>7. cr' = cr \/ (cr[o].born = job.born /\ cr' = [cr EXCEPT ![o].phase = phase])
    BY DEF StatusOfInit, setStatus
<1> HIDE DEF o, job, phase
<1>8. /\ cr' \in [InitTypes -> [phase : Phases, born : 0 .. MaxInstalls]]
      /\ \A x \in InitTypes : cr'[x].born = cr[x].born
      /\ \A x \in InitTypes : cr'[x] = cr[x] \/ (x = o /\ cr[o].born = job.born /\ cr'[x].phase = phase)
    BY <1>4, <1>5, <1>7 DEF MigrationTypeOK
<1>9. MigrationTypeOK'
    BY <1>1, <1>2, <1>3, <1>4, <1>5, <1>6, <1>8 DEF MigrationTypeOK, Refers
<1>10. \A x \in InitTypes : (cr'[x] # NoCr) = (cr[x] # NoCr)
    BY <1>8, <1>9, CrThere DEF MigrationTypeOK, NoCr
<1>11. Counted' /\ RowsKnown' /\ NotBack'
    BY <1>1, <1>2, <1>6 DEF Counted, RowsKnown, NotBack, Entry
<1>12. CrsFit' /\ Cleared' /\ Gone'
    BY <1>1, <1>2, <1>8, <1>10 DEF CrsFit, Cleared, Excused, Gone
<1>13. MarksEarned' /\ PhaseEarned' /\ OnceOnly'
    BY <1>1, <1>2, <1>3 DEF MarksEarned, PhaseEarned, OnceOnly, Marking, Controllers
<1>14. SyncedMeansImported'
    <2> SUFFICES ASSUME service = "running", NEW x \in InitTypes \ left, cr'[x].phase \in Terminal
                 PROVE  EntryOf(x) \in made
        BY <1>1, <1>2 DEF SyncedMeansImported
    <2>1. CASE cr'[x] = cr[x]
        BY <2>1 DEF SyncedMeansImported
    <2>2. CASE cr'[x] # cr[x]
        <3>1. x = o /\ cr[o].born = job.born /\ phase \in Terminal
            BY <1>8, <2>2
        <3>2. cr[o].born = installs
            BY <1>4, <3>1, CrThere DEF CrsFit
        <3> QED
            BY <1>1, <1>5, <3>1, <3>2 DEF PhaseEarned, o, job
    <2> QED
        BY <2>1, <2>2
<1> QED
    BY <1>3, <1>9, <1>11, <1>12, <1>13, <1>14

\* An install finds nothing marked that it need not excuse.
LEMMA InstallKeeps ==
    ASSUME MigrationInv, Install
    PROVE  MigrationInv'
<1> USE DEF MigrationInv
<1>1. /\ service = "absent" /\ service' = "running" /\ installs' = installs + 1 /\ installs' <= MaxInstalls
      /\ db' \subseteq db /\ (db' = db \/ db' = {}) /\ made' = {Entry(row) : row \in db'} /\ removed' = {}
      /\ UNCHANGED <<world, synced, cr, fresh, work, cleanup, late, left, retried, deletions, faults>>
    BY MigrationAssumption DEF Install, Counted, MigrationTypeOK, MigrationAssumption
<1>2. /\ objects' = objects /\ Names' = Names /\ JobType' = JobType
      /\ \A x : Name(x)' = Name(x) /\ EntryOf(x)' = EntryOf(x)
    BY <1>1, WorldStays
<1>3. MigrationTypeOK'
    BY <1>1, <1>2 DEF MigrationTypeOK, Refers, Counted, NoCleanup
<1>4. Counted'
    BY <1>1 DEF Counted
<1>5. RowsKnown'
    <2>1. \A row \in db' : Entry(row)' = Entry(row)
        BY DEF Entry
    <2> QED
        BY <1>1, <1>2, <2>1 DEF RowsKnown, Counted
<1>6. JobsFit'
    BY <1>1, <1>2 DEF JobsFit, Counted, JobType, Marking, Controllers
<1>7. MarksEarned'
    BY <1>1, <1>2 DEF MarksEarned
<1>8. PhaseEarned'
    BY <1>1 DEF PhaseEarned, JobsFit, Counted, JobType, Controllers
<1>9. CrsFit'
    BY <1>1, <1>2 DEF CrsFit, Gone, Counted, MigrationTypeOK
<1>10. Cleared' /\ Gone'
    BY <1>1, <1>2 DEF Cleared, Excused, Gone
<1>11. OnceOnly' /\ NotBack'
    BY <1>1 DEF OnceOnly, NotBack, RowsKnown, Counted
<1>12. SyncedMeansImported'
    BY <1>1, <1>2, CrThere DEF SyncedMeansImported, Gone, Terminal
<1> QED
    BY <1>3, <1>4, <1>5, <1>6, <1>7, <1>8, <1>9, <1>10, <1>11, <1>12

LEMMA EnsureKeeps ==
    ASSUME MigrationInv, NEW o \in objects \cap InitTypes, ensureInitDataConnectionTypes(o)
    PROVE  MigrationInv'
<1> USE DEF MigrationInv
<1>1. /\ service = "running" /\ cr[o] = NoCr
      /\ cr' = [cr EXCEPT ![o] = [phase |-> "new", born |-> installs]]
      /\ fresh' \subseteq fresh \cup {o} /\ faults' \in Nat /\ faults' <= MaxFaults
      /\ UNCHANGED <<world, service, db, synced, work, cleanup, made, removed, late, left, retried,
                     installs, deletions>>
    BY MigrationAssumption DEF ensureInitDataConnectionTypes, Lags, Fault, histories, Counted, MigrationTypeOK,
       MigrationAssumption
<1>2. /\ objects' = objects /\ Names' = Names /\ JobType' = JobType
      /\ \A x : Name(x)' = Name(x) /\ EntryOf(x)' = EntryOf(x)
    BY <1>1, WorldStays
<1>3. installs \in 1 .. MaxInstalls
    BY <1>1, MigrationAssumption DEF Counted, MigrationTypeOK, MigrationAssumption
<1>4. /\ cr'[o] = [phase |-> "new", born |-> installs] /\ \A x \in InitTypes \ {o} : cr'[x] = cr[x]
      /\ cr' \in [InitTypes -> [phase : Phases, born : 0 .. MaxInstalls]]
    BY <1>1, <1>3 DEF MigrationTypeOK, Phases
<1>5. MigrationTypeOK'
    BY <1>1, <1>2, <1>3, <1>4 DEF MigrationTypeOK, Refers
<1>6. /\ Counted' /\ RowsKnown' /\ JobsFit' /\ MarksEarned' /\ PhaseEarned' /\ OnceOnly' /\ NotBack'
    BY <1>1, <1>2 DEF Counted, RowsKnown, JobsFit, MarksEarned, PhaseEarned, OnceOnly, NotBack, Entry
<1>7. CrsFit'
    BY <1>1, <1>2, <1>3, <1>4 DEF CrsFit
<1>8. Cleared' /\ Gone'
    BY <1>1, <1>2 DEF Cleared, Excused, Gone, MigrationTypeOK, NoCleanup
<1>9. SyncedMeansImported'
    BY <1>1, <1>2, <1>4 DEF SyncedMeansImported, Terminal
<1> QED
    BY <1>5, <1>6, <1>7, <1>8, <1>9

\* The deletion of the service makes every reconcile under way late.
LEMMA DeleteKeeps ==
    ASSUME MigrationInv, DeleteService
    PROVE  MigrationInv'
<1> USE DEF MigrationInv
<1>1. /\ service = "running" /\ service' = "deleting" /\ deletions' = deletions + 1
      /\ UNCHANGED <<world, db, synced, cr, fresh, work, cleanup, made, removed, late, left, retried, installs, faults>>
    BY DEF DeleteService, histories
<1>2. /\ objects' = objects /\ Names' = Names /\ JobType' = JobType
      /\ \A x : Name(x)' = Name(x) /\ EntryOf(x)' = EntryOf(x)
    BY <1>1, WorldStays
<1>3. MigrationTypeOK'
    BY <1>1, <1>2 DEF MigrationTypeOK, Refers, Counted
<1>4. Counted' /\ RowsKnown' /\ NotBack'
    BY <1>1, <1>2 DEF Counted, RowsKnown, NotBack, Entry
<1>5. /\ \A k \in Controllers : work[k].since \in Nat /\ work[k].since < deletions'
      /\ Marking \subseteq Controllers
    BY <1>1 DEF JobsFit, Counted, JobType, Marking, Controllers
<1>6. JobsFit'
    BY <1>1, <1>2, <1>5 DEF JobsFit, Counted
<1>7. MarksEarned' /\ PhaseEarned'
    BY <1>1, <1>2, <1>5 DEF MarksEarned, PhaseEarned, Counted
<1>8. CrsFit' /\ Cleared' /\ Gone' /\ OnceOnly' /\ SyncedMeansImported'
    BY <1>1, <1>2 DEF CrsFit, Cleared, Excused, Gone, OnceOnly, SyncedMeansImported
<1> QED
    BY <1>3, <1>4, <1>6, <1>7, <1>8

LEMMA ListsKeeps ==
    ASSUME MigrationInv, FinalizerLists
    PROVE  MigrationInv'
<1> USE DEF MigrationInv
<1>1. PICK stage \in Stages \ {"idle"} :
        /\ service = "deleting" /\ cleanup.todo = {} /\ stage = NextStage[cleanup.stage]
        /\ UNCHANGED <<world, service, db, synced, cr, fresh, work, made, removed, late, retried, installs, deletions>>
        /\ \/ /\ cleanup' = [stage |-> stage, todo |-> Listed(stage)]
              /\ left' = left \cup (Due(stage) \cap fresh) /\ faults' = faults
           \/ /\ Fault
              /\ cleanup' = [stage |-> stage, todo |-> {}]
              /\ left' = left \cup Due(stage)
    BY DEF FinalizerLists, Cleared, NextStage, Stages
<1>2. /\ objects' = objects /\ Names' = Names /\ JobType' = JobType
      /\ \A x : Name(x)' = Name(x) /\ EntryOf(x)' = EntryOf(x)
    BY <1>1, WorldStays
<1>3. faults' \in Nat /\ faults' <= MaxFaults
    BY <1>1, MigrationAssumption DEF Fault, Counted, MigrationTypeOK, MigrationAssumption
<1>4. /\ cleanup'.stage = stage /\ cleanup'.todo \subseteq Due(stage) /\ left \subseteq left'
      /\ Due(stage) \subseteq left' \cup cleanup'.todo
      /\ stage = "last" => cleanup'.todo = {}
      /\ cleanup' = [stage |-> cleanup'.stage, todo |-> cleanup'.todo]
    BY <1>1 DEF Listed, Due
<1>5. Due(stage) \subseteq objects /\ objects \subseteq Objects
    BY MigrationAssumption DEF Due, MigrationTypeOK, MigrationAssumption, objects
<1>6. MigrationTypeOK'
    BY <1>1, <1>2, <1>3, <1>4, <1>5 DEF MigrationTypeOK, Refers
<1>7. /\ Counted' /\ RowsKnown' /\ JobsFit' /\ MarksEarned' /\ PhaseEarned' /\ OnceOnly' /\ NotBack'
    BY <1>1, <1>2, <1>3 DEF Counted, RowsKnown, JobsFit, MarksEarned, PhaseEarned, OnceOnly, NotBack, Entry
<1>8. CrsFit' /\ Gone' /\ SyncedMeansImported'
    BY <1>1, <1>2, <1>4 DEF CrsFit, Gone, SyncedMeansImported
<1>9. Cleared'
    <2>1. cleanup' \in [stage : Stages, todo : SUBSET Objects]
        BY <1>4, <1>5
    <2>2. \A o \in synced \cap ConfigMaps : Excused(o)'
        BY <1>1, <1>2, <1>4 DEF Cleared, Excused, NextStage, Stages, Due, MigrationTypeOK
    <2>3. stage # "configmaps" => \A o \in synced \cap Secrets : Excused(o)'
        BY <1>1, <1>2, <1>4 DEF Cleared, Excused, NextStage, Stages, Due, MigrationTypeOK
    <2>4. stage \in {"inittypes", "last"} => \A o \in InitTypes : cr[o] # NoCr => o \in left' \cup cleanup'.todo
        BY <1>1, <1>4 DEF Cleared, NextStage, Stages, Due, CrsFit
    <2> QED
        BY <1>1, <1>4, <2>1, <2>2, <2>3, <2>4 DEF Cleared
<1> QED
    BY <1>6, <1>7, <1>8, <1>9

LEMMA TreatsKeeps ==
    ASSUME MigrationInv, NEW o \in objects, FinalizerTreats(o)
    PROVE  MigrationInv'
<1> USE DEF MigrationInv
<1>1. /\ o \in cleanup.todo /\ cleanup' = [cleanup EXCEPT !.todo = @ \ {o}]
      /\ UNCHANGED <<world, service, db, work, made, removed, retried, installs, deletions>>
    BY DEF FinalizerTreats
<1>2. /\ objects' = objects /\ Names' = Names /\ JobType' = JobType
      /\ \A x : Name(x)' = Name(x) /\ EntryOf(x)' = EntryOf(x)
    BY <1>1, WorldStays
<1>3. /\ service = "deleting"
      /\ cleanup'.stage = cleanup.stage /\ cleanup'.todo = cleanup.todo \ {o}
      /\ cleanup' \in [stage : Stages, todo : SUBSET Objects]
    BY <1>1 DEF MigrationTypeOK, NoCleanup, Cleared
<1>4. \/ /\ synced' = synced \ {o} /\ fresh' = fresh \ {o} /\ late' = late \ {o} /\ left' = left \ {o}
         /\ cr' = [i \in InitTypes |-> IF i = o THEN NoCr ELSE cr[i]] /\ faults' = faults
      \/ /\ left' = left \cup {o} /\ UNCHANGED <<synced, cr, fresh, late>>
         /\ faults' \in Nat /\ faults' <= MaxFaults
    BY MigrationAssumption DEF FinalizerTreats, Fault, Counted, MigrationTypeOK, MigrationAssumption
<1>5. faults' \in Nat /\ faults' <= MaxFaults
    BY <1>4 DEF Counted, MigrationTypeOK
<1>6. /\ synced' \subseteq synced /\ fresh' \subseteq fresh
      /\ \A x \in synced' : x \in late \cup left \cup cleanup.todo => x \in late' \cup left' \cup cleanup'.todo
    BY <1>3, <1>4
<1>7. /\ \A i \in InitTypes : cr'[i] = cr[i] \/ cr'[i] = NoCr
      /\ \A i \in InitTypes : cr'[i] # NoCr /\ i \in left \cup cleanup.todo => i \in left' \cup cleanup'.todo
      /\ cr' \in [InitTypes -> [phase : Phases, born : 0 .. MaxInstalls]]
    BY <1>3, <1>4, MigrationAssumption DEF MigrationTypeOK, NoCr, Phases, MigrationAssumption
<1>8. MigrationTypeOK'
    BY <1>1, <1>2, <1>3, <1>5, <1>6, <1>7 DEF MigrationTypeOK, Refers, NoCr
<1>9. /\ Counted' /\ RowsKnown' /\ JobsFit' /\ MarksEarned' /\ PhaseEarned' /\ NotBack'
    BY <1>1, <1>2, <1>5 DEF Counted, RowsKnown, JobsFit, MarksEarned, PhaseEarned, NotBack, Entry
<1>10. CrsFit' /\ OnceOnly' /\ SyncedMeansImported'
    BY <1>1, <1>2, <1>3, <1>7 DEF CrsFit, OnceOnly, SyncedMeansImported, NoCr, Counted
<1>11. Gone'
    BY <1>1, <1>3, <1>6 DEF Gone
<1>12. Cleared'
    BY <1>2, <1>3, <1>6, <1>7 DEF Cleared, Excused
<1> QED
    BY <1>8, <1>9, <1>10, <1>11, <1>12

LEMMA EndsKeeps ==
    ASSUME MigrationInv, FinalizerEnds
    PROVE  MigrationInv'
<1> USE DEF MigrationInv
<1>1. /\ cleanup.stage = "last" /\ cleanup' = NoCleanup
      /\ UNCHANGED <<world, db, synced, cr, fresh, work, made, removed, late, left, retried, installs, deletions>>
    BY DEF FinalizerEnds, histories
<1>2. /\ objects' = objects /\ Names' = Names /\ JobType' = JobType
      /\ \A x : Name(x)' = Name(x) /\ EntryOf(x)' = EntryOf(x)
    BY <1>1, WorldStays
<1>3. service = "deleting" /\ service' \in {"absent", "deleting"}
    BY <1>1 DEF MigrationTypeOK, NoCleanup, FinalizerEnds
<1>4. faults' \in Nat /\ faults' <= MaxFaults
    BY MigrationAssumption DEF FinalizerEnds, Fault, Counted, MigrationTypeOK, MigrationAssumption
<1>5. MigrationTypeOK'
    BY <1>1, <1>2, <1>3, <1>4 DEF MigrationTypeOK, Refers, NoCleanup
<1>6. Counted' /\ RowsKnown' /\ JobsFit' /\ MarksEarned' /\ PhaseEarned' /\ NotBack'
    BY <1>1, <1>2, <1>3, <1>4
       DEF Counted, RowsKnown, JobsFit, MarksEarned, PhaseEarned, NotBack, Entry
<1>7. CrsFit' /\ Cleared' /\ OnceOnly' /\ SyncedMeansImported'
    BY <1>1, <1>2, <1>3 DEF CrsFit, Cleared, OnceOnly, SyncedMeansImported, NoCleanup, Stages
<1>8. Gone'
    BY <1>1, <1>2 DEF Gone, Cleared, Excused
<1> QED
    BY <1>5, <1>6, <1>7, <1>8

LEMMA UserKeeps ==
    ASSUME MigrationInv, UserDeletes
    PROVE  MigrationInv'
<1> USE DEF MigrationInv
<1>1. PICK row \in db :
        /\ \A r \in db : r.kind = "connection" => row.kind = "connection" \/ r.type # row.name
        /\ db' = db \ {row}
        /\ removed' = removed \cup {row}
    BY DEF UserDeletes
<1>2. UNCHANGED <<world, service, synced, cr, fresh, work, cleanup, made, late, left, retried, installs, deletions, faults>>
    BY DEF UserDeletes, counters
<1>3. /\ objects' = objects /\ Names' = Names /\ JobType' = JobType
      /\ \A x : Name(x)' = Name(x) /\ EntryOf(x)' = EntryOf(x)
    BY <1>2, WorldStays
<1>4. MigrationTypeOK'
    <2>1. \A r \in db' : Refers(r)'
        BY <1>1 DEF MigrationTypeOK, Refers, RowsKnown
    <2> QED
        BY <1>2, <1>3, <2>1 DEF MigrationTypeOK
<1>5. RowsKnown'
    BY <1>1, <1>2, <1>3 DEF RowsKnown, Entry
<1>6. OnceOnly' /\ NotBack'
    BY <1>1, <1>2 DEF OnceOnly, NotBack
<1>7. /\ Counted' /\ JobsFit' /\ MarksEarned' /\ PhaseEarned'
      /\ CrsFit' /\ Cleared' /\ Gone' /\ SyncedMeansImported'
    BY <1>2, <1>3 DEF Counted, JobsFit, MarksEarned, PhaseEarned, CrsFit, Cleared, Excused, Gone, SyncedMeansImported
<1> QED
    BY <1>4, <1>5, <1>6, <1>7

LEMMA RestartKeeps ==
    ASSUME MigrationInv, Restart
    PROVE  MigrationInv'
<1> USE DEF MigrationInv
<1>1. /\ work' = [k \in Controllers |-> Idle] /\ cleanup' = NoCleanup /\ fresh' = {}
      /\ retried' = retried \cup {work[k].object : k \in Controllers}
      /\ UNCHANGED <<world, service, db, synced, cr, made, removed, late, left, installs, deletions>>
    BY DEF Restart
<1>2. /\ objects' = objects /\ Names' = Names /\ JobType' = JobType
      /\ \A x : Name(x)' = Name(x) /\ EntryOf(x)' = EntryOf(x)
    BY <1>1, WorldStays
<1>3. faults' \in Nat /\ faults' <= MaxFaults
    BY MigrationAssumption DEF Restart, Fault, Counted, MigrationTypeOK, MigrationAssumption
<1>4. /\ Idle \in JobType /\ Idle.step = "idle" /\ Idle.since = 0 /\ Idle.object = "none" /\ Idle.born = 0
      /\ Marking \subseteq Controllers /\ {"secret", "init"} \subseteq Controllers
    BY DEF Idle, JobType, Steps, Marking, Controllers
<1>5. MigrationTypeOK'
    BY <1>1, <1>2, <1>3 DEF MigrationTypeOK, Refers, NoCleanup
<1>6. Counted' /\ RowsKnown' /\ CrsFit' /\ Gone' /\ SyncedMeansImported'
    BY <1>1, <1>2, <1>3 DEF Counted, RowsKnown, CrsFit, Gone, SyncedMeansImported, Entry
<1>7. JobsFit' /\ MarksEarned' /\ PhaseEarned'
    BY <1>1, <1>2, <1>4 DEF JobsFit, MarksEarned, PhaseEarned, Counted
<1>8. Cleared'
    BY <1>1 DEF Cleared, NoCleanup, Stages
<1>9. OnceOnly' /\ NotBack'
    BY <1>1, <1>4 DEF OnceOnly, NotBack
<1> QED
    BY <1>5, <1>6, <1>7, <1>8, <1>9

LEMMA ShowsKeeps ==
    ASSUME MigrationInv, NEW o \in objects, InformerShows(o)
    PROVE  MigrationInv'
<1>1. /\ fresh' \subseteq fresh
      /\ UNCHANGED <<world, service, db, synced, cr, work, cleanup, made, removed, late, left, retried,
                     installs, deletions, faults>>
    BY DEF InformerShows, histories, counters
<1> QED
    BY <1>1, WorldStays DEF MigrationInv, MigrationTypeOK, Refers, Counted, RowsKnown, Entry, JobsFit,
       MarksEarned, PhaseEarned, CrsFit, Cleared, Excused, Gone, OnceOnly, NotBack, SyncedMeansImported

LEMMA MigrationStep == MigrationInv /\ [MigrationNext]_migrationVars => MigrationInv'
<1> SUFFICES ASSUME MigrationInv, [MigrationNext]_migrationVars PROVE MigrationInv'
    OBVIOUS
<1>1. CASE UNCHANGED migrationVars
    <2>1. /\ UNCHANGED <<world, service, db, synced, cr, fresh, work, cleanup, made, removed, late, left, retried,
                         installs, deletions, faults>>
        BY <1>1 DEF migrationVars, histories, counters
    <2> QED
        BY <2>1, WorldStays DEF MigrationInv, MigrationTypeOK, Refers, Counted, RowsKnown, Entry, JobsFit,
           MarksEarned, PhaseEarned, CrsFit, Cleared, Excused, Gone, OnceOnly, NotBack, SyncedMeansImported
<1>2. CASE \E o \in objects : Reconcile(o) \/ InformerShows(o)
    BY <1>2, BeginKeeps, ShowsKeeps
<1>3. CASE ConfigMapStep \/ SecretStep \/ InitStep
    BY <1>3, CreateKeeps, ResolveKeeps, MarkKeeps, StatusKeeps DEF ConfigMapStep, SecretStep, InitStep, Marking
<1>4. CASE EnsureStep \/ FinalizerStep
    BY <1>4, EnsureKeeps, ListsKeeps, TreatsKeeps, EndsKeeps DEF EnsureStep, FinalizerStep
<1>5. CASE Install \/ DeleteService \/ UserDeletes \/ Restart
    BY <1>5, InstallKeeps, DeleteKeeps, UserKeeps, RestartKeeps
<1> QED
    BY <1>1, <1>2, <1>3, <1>4, <1>5 DEF MigrationNext

LEMMA MigrationAlways == MigrationSpec => []MigrationInv
<1> QED
    BY MigrationStart, MigrationStep, PTL DEF MigrationSpec

\* MigrationTypeOK holds always: a worker handles an object of its own kind,
\* a connection's type is stored, and the finalizer works during a deletion.
THEOREM MigrationTypeCorrect == MigrationSpec => []MigrationTypeOK
<1>1. MigrationInv => MigrationTypeOK
    BY DEF MigrationInv
<1> QED
    BY <1>1, MigrationAlways, PTL

\* Whatever installs, deletions, failures and restarts have gone before,
\* what is marked as synced or has a terminal phase was imported into the
\* database of this install, except what the finalizer left, for it failed or
\* was not shown the mark by its cache, and what a reconcile marked during
\* which the deletion began (markSynced, setStatus, clearSyncedAnnotations,
\* deleteInitDataConnectionTypes).
THEOREM MarksMeanImported == MigrationSpec => []SyncedMeansImported
<1>1. MigrationInv => SyncedMeansImported
    BY DEF MigrationInv
<1> QED
    BY <1>1, MigrationAlways, PTL

\* Rows are only stored by a POST, and a POST of a Secret's row is only
\* made by a reconcile that has not stored it before.
LEMMA NothingComesBack ==
    ASSUME MigrationInv, [MigrationNext]_migrationVars,
           NEW row \in removed, row.from \in Secrets \ retried
    PROVE  row \notin db'
<1>1. row \notin db
    BY DEF MigrationInv, NotBack
<1>2. CASE db' \subseteq db
    BY <1>1, <1>2
<1>3. CASE CreateTypeOfConfigMap \/ CreateTypeOfInit
    <2>1. PICK k \in {"configmap", "init"}, answer \in Answers : Post(TypeRow(work[k].object), answer)
        BY <1>3 DEF CreateTypeOfConfigMap, CreateTypeOfInit, CreateConnectionType
    <2>2. db' \subseteq db \cup {TypeRow(work[k].object)}
        BY <2>1, Posted
    <2>3. TypeRow(work[k].object).from = "none" /\ "none" \notin Secrets
        BY MigrationAssumption DEF TypeRow, MigrationAssumption, Objects
    <2> QED
        BY <1>1, <2>2, <2>3
<1>4. CASE CreateConnection
    <2> DEFINE posted == ConnectionRow(work["secret"].object, work["secret"].type)
    <2>1. PICK answer \in Answers : Post(posted, answer)
        BY <1>4 DEF CreateConnection
    <2>2. db' \subseteq db \cup {posted} /\ (db' # db => service # "absent")
        BY <2>1, Posted
    <2>3. posted.from = work["secret"].object /\ posted.install = installs /\ work["secret"].step = "create"
        BY <1>4 DEF ConnectionRow, CreateConnection
    <2>4. row = posted => service = "absent"
        BY <2>3 DEF MigrationInv, OnceOnly
    <2> QED
        BY <1>1, <2>2, <2>4
<1>5. db' \subseteq db \/ CreateTypeOfConfigMap \/ CreateTypeOfInit \/ CreateConnection
    <2>1. CASE UNCHANGED migrationVars
        BY <2>1 DEF migrationVars
    <2>2. CASE \E o \in objects : Reconcile(o) \/ InformerShows(o)
        BY <2>2 DEF Reconcile, ReconcileConfigMap, ReconcileSecret, ReconcileInitType, Begin, InformerShows
    <2>3. CASE ConfigMapStep \/ SecretStep \/ InitStep
        BY <2>3 DEF ConfigMapStep, SecretStep, InitStep, ResolveType, markSynced, StatusOfInit
    <2>4. CASE EnsureStep \/ FinalizerStep
        BY <2>4 DEF EnsureStep, FinalizerStep, ensureInitDataConnectionTypes, FinalizerLists, FinalizerTreats,
           FinalizerEnds
    <2>5. CASE Install \/ DeleteService \/ UserDeletes \/ Restart
        BY <2>5 DEF Install, DeleteService, UserDeletes, Restart
    <2> QED
        BY <2>1, <2>2, <2>3, <2>4, <2>5 DEF MigrationNext
<1> QED
    BY <1>2, <1>3, <1>4, <1>5

\* A connection that a user deleted does not come back while the install
\* lasts, unless its import was cut off and is repeated, or begun on a copy
\* without the fresh mark (SecretWatcherReconciler: "It is a one-shot per
\* Secret").
THEOREM DeletionsLast == MigrationSpec => DeletedStayDeleted
<1>1. MigrationInv /\ [MigrationNext]_migrationVars
        => [\A row \in removed : row.from \in Secrets \ retried => row \notin db']_migrationVars
    BY NothingComesBack
<1> QED
    BY <1>1, MigrationAlways, PTL DEF MigrationSpec, DeletedStayDeleted
=============================================================================
