--------------------- MODULE ConnectionReadinessProofs ----------------------
(***************************************************************************)
(* The verdict of a readiness check on the connection's secret, for any    *)
(* number of overlapping checks, secrets, changes and failures.            *)
(***************************************************************************)
EXTENDS ConnectionReadiness, TLAPS

\* What a check has at hand at each of its places.
AtHand ==
    \A w \in Workers :
        /\ pc[w] \in {"secret", "flight", "lookup", "reader", "await", "open", "connect", "select"}
             => secretName[w] \in SecretNames
        /\ pc[w] = "connect" => reader[w] \in Creds
        /\ pc[w] = "write" => verdict[w] \in States

\* try_get_with lets one check at a time open a reader.
OneOpens == \A w \in Workers : pc[w] \in {"open", "connect"} => opening = w

(***************************************************************************)
(* As long as nothing else changes or fails, the row and the secret that a *)
(* check has read are those that are there, and its verdict is about them, *)
(* be it its own or one that it shares with the check that opened.         *)
(***************************************************************************)
Judged == {"flight", "lookup", "reader", "await", "open", "connect", "select"}

Right(w) ==
    /\ pc[w] \notin {"idle", "connection"} => row # Null /\ secretName[w] = row.secret
    /\ pc[w] \in Judged => SecretValid
    /\ pc[w] = "write" => (verdict[w] = "not_ready" <=> ~SecretValid)

Undisturbed == \A w \in Workers : solo[w] => Right(w)

ReadinessInv == ReadinessTypeOK /\ AtHand /\ OneOpens /\ Undisturbed

LEMMA ReadinessStart == ReadinessInit => ReadinessInv
<1> SUFFICES ASSUME ReadinessInit PROVE ReadinessInv
    OBVIOUS
<1>1. ReadinessTypeOK
    BY ReadinessAssumption DEF ReadinessInit, ReadinessTypeOK, ReadinessAssumption, ConnectionRow, States
<1>2. AtHand /\ OneOpens /\ Undisturbed
    BY DEF ReadinessInit, AtHand, OneOpens, Undisturbed
<1> QED
    BY <1>1, <1>2 DEF ReadinessInv

\* A check that has not begun anything is right about everything.
LEMMA NothingRead ==
    ASSUME NEW w \in Workers, pc'[w] \in {"idle", "connection"}
    PROVE  Right(w)'
<1> QED
    BY DEF Right, Judged

\* A check that stays where it is remains right while what it read stays.
LEMMA StaysRight ==
    ASSUME NEW w \in Workers, Right(w), UNCHANGED secrets,
           row # Null => row' # Null /\ row'.secret = row.secret,
           pc'[w] = pc[w], secretName'[w] = secretName[w], verdict'[w] = verdict[w]
    PROVE  Right(w)'
<1>1. CASE pc[w] \in {"idle", "connection"}
    BY <1>1, NothingRead
<1>2. CASE pc[w] \notin {"idle", "connection"}
    BY <1>2 DEF Right, SecretValid
<1> QED
    BY <1>1, <1>2

\* The request of a check ends (Answer).
LEMMA AnswerKeeps ==
    ASSUME ReadinessInv, NEW w \in Workers, Answer(w), UNCHANGED <<world, cache, solo, changes, faults>>,
           pc[w] \notin {"open", "connect"}
    PROVE  ReadinessInv'
<1> USE DEF ReadinessInv
<1>1. ReadinessTypeOK'
    BY DEF ReadinessTypeOK, Answer, Goto, world, cache
<1>2. AtHand' /\ OneOpens'
    BY DEF ReadinessTypeOK, Answer, Goto, world, cache, AtHand, OneOpens
<1>3. Undisturbed'
    <2> SUFFICES ASSUME NEW v \in Workers, solo'[v] PROVE Right(v)'
        BY DEF Undisturbed
    <2>1. CASE v = w
        BY <2>1, NothingRead DEF Answer, Goto, ReadinessTypeOK
    <2>2. CASE v # w
        BY <2>2, StaysRight DEF Answer, Goto, ReadinessTypeOK, world, Undisturbed
    <2> QED
        BY <2>1, <2>2
<1> QED
    BY <1>1, <1>2, <1>3

\* A check begins, or reads the connection.
LEMMA BeginKeeps ==
    ASSUME ReadinessInv, NEW w \in Workers, Begin(w) \/ GetConnection(w)
    PROVE  ReadinessInv'
<1> USE DEF ReadinessInv
<1>1. CASE Begin(w)
    <2>1. ReadinessTypeOK' /\ AtHand' /\ OneOpens'
        BY <1>1 DEF Begin, Goto, world, cache, ReadinessTypeOK, AtHand, OneOpens
    <2>2. ASSUME NEW v \in Workers, solo'[v] PROVE Right(v)'
        <3>1. CASE v = w
            BY <1>1, <3>1, NothingRead DEF Begin, Goto, ReadinessTypeOK
        <3>2. CASE v # w
            BY <1>1, <2>2, <3>2, StaysRight DEF Begin, Goto, ReadinessTypeOK, world, Undisturbed
        <3> QED
            BY <3>1, <3>2
    <2> QED
        BY <2>1, <2>2 DEF Undisturbed
<1>2. CASE GetConnection(w) /\ row = Null
    BY <1>2, AnswerKeeps DEF GetConnection
<1>3. CASE GetConnection(w) /\ row # Null
    <2>1. row \in ConnectionRow /\ row.secret \in SecretNames
        BY <1>3 DEF ReadinessTypeOK, ConnectionRow
    <2>2. ReadinessTypeOK' /\ AtHand' /\ OneOpens'
        BY <1>3, <2>1 DEF GetConnection, Goto, world, cache, ReadinessTypeOK, AtHand, OneOpens
    <2>3. ASSUME NEW v \in Workers, solo'[v] PROVE Right(v)'
        <3>1. CASE v = w
            BY <1>3, <3>1 DEF GetConnection, Goto, ReadinessTypeOK, world, Right, Judged
        <3>2. CASE v # w
            BY <1>3, <2>3, <3>2, StaysRight DEF GetConnection, Goto, ReadinessTypeOK, world, Undisturbed
        <3> QED
            BY <3>1, <3>2
    <2> QED
        BY <2>2, <2>3 DEF Undisturbed
<1> QED
    BY <1>1, <1>2, <1>3

\* The check of the secret, which is where not_ready comes from.
LEMMA SecretKeeps ==
    ASSUME ReadinessInv, NEW w \in Workers, GetSecret(w)
    PROVE  ReadinessInv'
<1> USE DEF ReadinessInv
<1>1. ReadinessTypeOK' /\ AtHand' /\ OneOpens'
    BY DEF GetSecret, Decide, Goto, world, cache, ReadinessTypeOK, AtHand, OneOpens, States
<1>2. ASSUME NEW v \in Workers, solo'[v] PROVE Right(v)'
    <2>1. CASE v # w
        BY <1>2, <2>1, StaysRight DEF GetSecret, Decide, Goto, ReadinessTypeOK, world, Undisturbed
    <2>2. CASE v = w
        <3>1. row # Null /\ secretName[w] = row.secret /\ pc[w] = "secret"
            BY <1>2, <2>2 DEF GetSecret, Undisturbed, Right
        <3>2. CASE SecretValid
            BY <2>2, <3>1, <3>2 DEF GetSecret, Goto, ReadinessTypeOK, world, Right, SecretValid
        <3>3. CASE ~SecretValid
            BY <2>2, <3>1, <3>3
               DEF GetSecret, Decide, Goto, ReadinessTypeOK, world, Right, Judged, SecretValid
        <3> QED
            BY <3>2, <3>3
    <2> QED
        BY <2>1, <2>2
<1> QED
    BY <1>1, <1>2 DEF Undisturbed

\* The Flight service is found, and looks the connection up again.
LEMMA LookupKeeps ==
    ASSUME ReadinessInv, NEW w \in Workers, FindFlightService(w) \/ GetConnector(w)
    PROVE  ReadinessInv'
<1> USE DEF ReadinessInv
<1>1. CASE FindFlightService(w) /\ ~registered
    BY <1>1, AnswerKeeps DEF FindFlightService
<1>2. CASE FindFlightService(w) /\ registered
    <2>1. ReadinessTypeOK' /\ AtHand' /\ OneOpens'
        BY <1>2 DEF FindFlightService, Goto, world, cache, ReadinessTypeOK, AtHand, OneOpens
    <2>2. ASSUME NEW v \in Workers, solo'[v] PROVE Right(v)'
        BY <1>2, <2>2, StaysRight
           DEF FindFlightService, Goto, ReadinessTypeOK, world, Undisturbed, Right, Judged, SecretValid
    <2> QED
        BY <2>1, <2>2 DEF Undisturbed
<1>3. CASE GetConnector(w)
    <2>1. row # Null => row \in ConnectionRow /\ row.secret \in SecretNames
        BY DEF ReadinessTypeOK, ConnectionRow
    <2>2. ReadinessTypeOK' /\ AtHand' /\ OneOpens'
        BY <1>3, <2>1
           DEF GetConnector, Decide, Goto, world, cache, ReadinessTypeOK, AtHand, OneOpens, States
    <2>3. ASSUME NEW v \in Workers, solo'[v] PROVE Right(v)'
        <3>1. CASE v # w
            BY <1>3, <2>3, <3>1, StaysRight
               DEF GetConnector, Decide, Goto, ReadinessTypeOK, world, Undisturbed
        <3>2. CASE v = w
            BY <1>3, <2>3, <3>2
               DEF GetConnector, Decide, Goto, ReadinessTypeOK, world, Undisturbed, Right, Judged, SecretValid
        <3> QED
            BY <3>1, <3>2
    <2> QED
        BY <2>2, <2>3 DEF Undisturbed
<1> QED
    BY <1>1, <1>2, <1>3

\* A check goes on among the places where the secret has been judged.
LEMMA JudgedStays ==
    ASSUME NEW w \in Workers, Right(w), UNCHANGED <<row, secrets>>, pc[w] \in Judged,
           secretName'[w] = secretName[w],
           pc'[w] \in Judged \/ (pc'[w] = "write" /\ verdict'[w] # "not_ready")
    PROVE  Right(w)'
<1> QED
    BY DEF Right, Judged, SecretValid

\* A reader is taken from the cache, waited for, or its opening begun.
LEMMA ReaderKeeps ==
    ASSUME ReadinessInv, NEW w \in Workers, GetReader(w) \/ AwaitReader(w)
    PROVE  ReadinessInv'
<1> USE DEF ReadinessInv
<1>1. ReadinessTypeOK' /\ AtHand' /\ OneOpens'
    BY ReadinessAssumption
       DEF GetReader, AwaitReader, Goto, world, cache, ReadinessTypeOK, AtHand, OneOpens, ReadinessAssumption
<1>2. ASSUME NEW v \in Workers, solo'[v] PROVE Right(v)'
    <2>1. CASE v # w
        BY <1>2, <2>1, StaysRight DEF GetReader, AwaitReader, Goto, ReadinessTypeOK, world, Undisturbed
    <2>2. CASE v = w
        BY <1>2, <2>2, JudgedStays
           DEF GetReader, AwaitReader, Goto, ReadinessTypeOK, world, cache, Undisturbed, Judged
    <2> QED
        BY <2>1, <2>2
<1> QED
    BY <1>1, <1>2 DEF Undisturbed

\* An opening that fails is the verdict of all who share it.
LEMMA OpenFailsKeeps ==
    ASSUME ReadinessInv, OpenFails, NEW w \in Workers, pc[w] \in {"open", "connect"},
           UNCHANGED <<world, secretName, changes>>,
           faults' \in 0 .. MaxFaults, solo' \in [Workers -> BOOLEAN],
           \A v \in Workers : solo'[v] => solo[v]
    PROVE  ReadinessInv'
<1> USE DEF ReadinessInv
<1>1. opening = w /\ \A v \in Workers : pc[v] \in {"open", "connect"} => v = w
    BY ReadinessAssumption DEF OneOpens, ReadinessAssumption
<1>2. \A v \in Sharing : pc[v] \in Judged
    BY <1>1 DEF Sharing, Judged
<1>3. ReadinessTypeOK'
    BY DEF OpenFails, world, ReadinessTypeOK, States
<1>4. AtHand' /\ OneOpens'
    BY <1>1 DEF OpenFails, Sharing, world, ReadinessTypeOK, AtHand, OneOpens, States
<1>5. ASSUME NEW v \in Workers, solo'[v] PROVE Right(v)'
    <2>1. Right(v)
        BY <1>5 DEF Undisturbed
    <2>2. CASE v \in Sharing
        BY <1>2, <2>1, <2>2, JudgedStays DEF OpenFails, world
    <2>3. CASE v \notin Sharing
        BY <2>1, <2>3, StaysRight DEF OpenFails, world
    <2> QED
        BY <2>2, <2>3
<1> QED
    BY <1>3, <1>4, <1>5 DEF Undisturbed

\* The reader is opened with the credentials of the secret.
LEMMA OpenKeeps ==
    ASSUME ReadinessInv, NEW w \in Workers, ResolveCredentials(w) \/ Connect(w)
    PROVE  ReadinessInv'
<1> USE DEF ReadinessInv
<1>1. CASE OpenFails
    BY <1>1, OpenFailsKeeps DEF ResolveCredentials, Connect, ReadinessTypeOK
<1>2. CASE ResolveCredentials(w) /\ ~OpenFails
    <2>1. secretName[w] \in SecretNames /\ pc[w] = "open"
        BY <1>2 DEF ResolveCredentials, AtHand
    <2>2. /\ secrets[secretName[w]] \in Creds
          /\ reader' = [reader EXCEPT ![w] = secrets[secretName[w]]]
          /\ pc' = [pc EXCEPT ![w] = "connect"]
          /\ UNCHANGED <<world, cache, verdict, secretName, solo, changes, faults>>
        BY <1>2, <2>1 DEF ResolveCredentials, Goto, ReadinessTypeOK
    <2>3. ReadinessTypeOK' /\ AtHand' /\ OneOpens'
        BY <2>1, <2>2 DEF world, cache, ReadinessTypeOK, AtHand, OneOpens
    <2>4. ASSUME NEW v \in Workers, solo'[v] PROVE Right(v)'
        <3>1. CASE v # w
            BY <2>2, <2>4, <3>1, StaysRight DEF ReadinessTypeOK, world, Undisturbed
        <3>2. CASE v = w
            BY <2>1, <2>2, <2>4, <3>2, JudgedStays DEF ReadinessTypeOK, world, Undisturbed, Judged
        <3> QED
            BY <3>1, <3>2
    <2> QED
        BY <2>3, <2>4 DEF Undisturbed
<1>3. CASE Connect(w) /\ ~OpenFails
    <2>1. pc[w] = "connect" /\ reader[w] \in Creds /\ opening = w
        BY <1>3 DEF Connect, AtHand, OneOpens
    <2>2. /\ pool' = reader[w]
          /\ opening' = Null
          /\ reader' = [v \in Workers |-> IF v \in Sharing THEN reader[w] ELSE reader[v]]
          /\ pc' = [v \in Workers |-> IF v \in Sharing THEN "select" ELSE pc[v]]
          /\ UNCHANGED <<world, verdict, secretName, solo, changes, faults>>
        BY <1>3 DEF Connect
    <2>3. \A v \in Workers : pc[v] \in {"open", "connect"} => v = w
        BY <2>1 DEF OneOpens
    <2>4. \A v \in Sharing : pc[v] \in Judged
        BY <2>1 DEF Sharing, Judged
    <2>5. ReadinessTypeOK' /\ AtHand' /\ OneOpens'
        BY <2>1, <2>2, <2>3, <2>4 DEF world, Sharing, ReadinessTypeOK, AtHand, OneOpens, Judged
    <2>6. ASSUME NEW v \in Workers, solo'[v] PROVE Right(v)'
        <3>1. Right(v)
            BY <2>2, <2>6 DEF Undisturbed
        <3>2. CASE v \in Sharing
            BY <2>2, <2>4, <3>1, <3>2, JudgedStays DEF world, Judged
        <3>3. CASE v \notin Sharing
            BY <2>2, <3>1, <3>3, StaysRight DEF world
        <3> QED
            BY <3>2, <3>3
    <2> QED
        BY <2>5, <2>6 DEF Undisturbed
<1> QED
    BY <1>1, <1>2, <1>3

\* The source is tried, and the cache drops its reader.
LEMMA SelectKeeps ==
    ASSUME ReadinessInv, Expire \/ (\E w \in Workers : SelectOne(w))
    PROVE  ReadinessInv'
<1> USE DEF ReadinessInv
<1>1. CASE Expire
    <2>1. ReadinessTypeOK' /\ AtHand' /\ OneOpens'
        BY <1>1 DEF Expire, world, ReadinessTypeOK, AtHand, OneOpens
    <2>2. Undisturbed'
        BY <1>1, StaysRight DEF Expire, world, Undisturbed
    <2> QED
        BY <2>1, <2>2
<1>2. ASSUME NEW w \in Workers, SelectOne(w) PROVE ReadinessInv'
    <2>1. PICK state \in {"ready", "ingestion_not_ready"} : Decide(w, state)
        BY <1>2 DEF SelectOne
    <2>2. ReadinessTypeOK' /\ AtHand' /\ OneOpens'
        BY <1>2, <2>1 DEF SelectOne, Decide, Goto, world, cache, ReadinessTypeOK, AtHand, OneOpens, States
    <2>3. ASSUME NEW v \in Workers, solo'[v] PROVE Right(v)'
        <3>1. CASE v # w
            BY <1>2, <2>1, <2>3, <3>1, StaysRight
               DEF SelectOne, Decide, Goto, ReadinessTypeOK, world, Undisturbed
        <3>2. CASE v = w
            BY <1>2, <2>1, <2>3, <3>2, JudgedStays
               DEF SelectOne, Decide, Goto, ReadinessTypeOK, world, Undisturbed, Judged
        <3> QED
            BY <3>1, <3>2
    <2> QED
        BY <2>2, <2>3 DEF Undisturbed
<1> QED
    BY <1>1, <1>2

\* The verdict is stored: no check has read the status it replaces.
LEMMA WriteKeeps ==
    ASSUME ReadinessInv, NEW w \in Workers, WriteStatus(w)
    PROVE  ReadinessInv'
<1> USE DEF ReadinessInv
<1>1. verdict[w] \in States
    BY DEF WriteStatus, AtHand
<1>2. /\ row' \in ConnectionRow \cup {Null}
      /\ row # Null => row' # Null /\ row'.secret = row.secret
    <2>1. CASE row = Null
        BY <2>1 DEF WriteStatus
    <2>2. CASE row # Null
        <3>1. row \in ConnectionRow /\ row' = [row EXCEPT !.status = verdict[w]]
            BY <2>2 DEF WriteStatus, ReadinessTypeOK
        <3>2. row' \in ConnectionRow /\ row'.secret = row.secret
            BY <1>1, <3>1 DEF ConnectionRow
        <3> QED
            BY <2>2, <3>2, ReadinessAssumption DEF ReadinessAssumption
    <2> QED
        BY <2>1, <2>2
<1>3. ReadinessTypeOK'
    BY <1>2 DEF WriteStatus, Answer, Goto, cache, ReadinessTypeOK
<1>4. AtHand' /\ OneOpens'
    BY DEF WriteStatus, Answer, Goto, cache, ReadinessTypeOK, AtHand, OneOpens
<1>5. ASSUME NEW v \in Workers, solo'[v] PROVE Right(v)'
    <2>1. CASE v = w
        BY <2>1, NothingRead DEF WriteStatus, Answer, Goto, ReadinessTypeOK
    <2>2. CASE v # w
        BY <1>2, <1>5, <2>2, StaysRight DEF WriteStatus, Answer, Goto, ReadinessTypeOK, Undisturbed
    <2> QED
        BY <2>1, <2>2
<1> QED
    BY <1>3, <1>4, <1>5 DEF Undisturbed

\* Failures and changes disturb every check.
LEMMA DisturbedKeeps ==
    ASSUME ReadinessInv, Change \/ (\E w \in Workers : CallFails(w) \/ Dropped(w))
    PROVE  ReadinessInv'
<1> USE DEF ReadinessInv
<1>1. Undisturbed' /\ solo' \in [Workers -> BOOLEAN] /\ \A w \in Workers : ~solo'[w]
    BY DEF Change, CallFails, Dropped, Fault, Undisturbed
<1>2. CASE Change
    <2>1. changes' \in 0 .. MaxChanges
        BY <1>2, ReadinessAssumption DEF Change, ReadinessTypeOK, ReadinessAssumption
    <2>2. row' \in ConnectionRow \cup {Null}
        <3>1. CASE PatchConnection
            BY <3>1 DEF PatchConnection, ReadinessTypeOK, ConnectionRow
        <3>2. CASE ~PatchConnection
            BY <1>2, <3>2 DEF Change, DeleteConnection, WriteSecret, SourceChanges, RegistrationChanges,
                              ReadinessTypeOK
        <3> QED
            BY <3>1, <3>2
    <2>3. secrets' \in [SecretNames -> Creds \cup {Null}]
        BY <1>2 DEF Change, PatchConnection, DeleteConnection, WriteSecret, SourceChanges,
             RegistrationChanges, ReadinessTypeOK
    <2>4. accepted' \subseteq Creds
        BY <1>2, ReadinessAssumption DEF Change, PatchConnection, DeleteConnection, WriteSecret, SourceChanges,
             RegistrationChanges, ReadinessTypeOK, ReadinessAssumption
    <2>5. registered' \in BOOLEAN
        BY <1>2 DEF Change, PatchConnection, DeleteConnection, WriteSecret, SourceChanges,
             RegistrationChanges, ReadinessTypeOK
    <2>6. ReadinessTypeOK'
        BY <1>1, <1>2, <2>1, <2>2, <2>3, <2>4, <2>5 DEF Change, cache, ReadinessTypeOK
    <2>7. AtHand' /\ OneOpens'
        BY <1>2 DEF Change, cache, AtHand, OneOpens
    <2> QED
        BY <1>1, <2>6, <2>7
<1>3. ASSUME NEW w \in Workers, CallFails(w) PROVE ReadinessInv'
    <2>1. faults' \in 0 .. MaxFaults
        BY <1>3, ReadinessAssumption DEF CallFails, Fault, ReadinessTypeOK, ReadinessAssumption
    <2>2. CASE pc[w] \in {"open", "connect"}
        BY <1>1, <1>3, <2>1, <2>2, OpenFailsKeeps DEF CallFails
    <2>3. CASE pc[w] \notin {"open", "connect"}
        <3>1. ReadinessTypeOK'
            BY <1>1, <1>3, <2>1, <2>3
               DEF CallFails, Answer, Decide, Goto, world, cache, ReadinessTypeOK, States
        <3>2. AtHand' /\ OneOpens'
            BY <1>3, <2>3
               DEF CallFails, Answer, Decide, Goto, world, cache, ReadinessTypeOK, AtHand, OneOpens, States
        <3> QED
            BY <1>1, <3>1, <3>2
    <2> QED
        BY <2>2, <2>3
<1>4. ASSUME NEW w \in Workers, Dropped(w) PROVE ReadinessInv'
    <2>1. faults' \in 0 .. MaxFaults
        BY <1>4, ReadinessAssumption DEF Dropped, Fault, ReadinessTypeOK, ReadinessAssumption
    <2>2. /\ pc'[w] = "idle"
          /\ \A v \in Workers \ {w} : pc'[v] = pc[v] \/ (pc[v] = "await" /\ pc'[v] = "reader")
        BY <1>4 DEF Dropped
    <2>3. ReadinessTypeOK'
        BY <1>1, <1>4, <2>1 DEF Dropped, world, ReadinessTypeOK
    <2>4. AtHand' /\ OneOpens'
        BY <1>4, <2>2 DEF Dropped, world, ReadinessTypeOK, AtHand, OneOpens
    <2> QED
        BY <1>1, <2>3, <2>4
<1> QED
    BY <1>2, <1>3, <1>4

LEMMA ReadinessStep == ReadinessInv /\ [ReadinessNext]_readinessVars => ReadinessInv'
<1> SUFFICES ASSUME ReadinessInv, [ReadinessNext]_readinessVars PROVE ReadinessInv'
    OBVIOUS
<1>1. CASE UNCHANGED readinessVars
    BY <1>1 DEF readinessVars, ReadinessInv, ReadinessTypeOK, AtHand, OneOpens, Undisturbed, Right, SecretValid
<1>2. ASSUME NEW w \in Workers, Begin(w) \/ CheckStep(w) PROVE ReadinessInv'
    BY <1>2, BeginKeeps, SecretKeeps, LookupKeeps, ReaderKeeps, OpenKeeps, SelectKeeps, WriteKeeps DEF CheckStep
<1>3. CASE Expire \/ Change \/ (\E w \in Workers : CallFails(w) \/ Dropped(w))
    BY <1>3, SelectKeeps, DisturbedKeeps
<1> QED
    BY <1>1, <1>2, <1>3 DEF ReadinessNext

LEMMA ReadinessAlways == ReadinessSpec => []ReadinessInv
<1> QED
    BY ReadinessStart, ReadinessStep, PTL DEF ReadinessSpec

\* The state of the checks, the cache and the connection is well formed
\* (audit_data_connection, get_reader).
THEOREM ReadinessTypeCorrect == ReadinessSpec => []ReadinessTypeOK
<1>1. ReadinessInv => ReadinessTypeOK
    BY DEF ReadinessInv
<1> QED
    BY <1>1, ReadinessAlways, PTL

\* A check that nothing interfered with stores not_ready exactly when the
\* connection's secret is missing or not valid, however many checks overlap
\* and whichever of them opened the reader (audit_data_connection).
THEOREM SecretsJudgedRight == ReadinessSpec => SecretVerdict
<1>1. ReadinessInv /\ [ReadinessNext]_readinessVars
      => [\A w \in Workers : (WriteStatus(w) /\ solo[w])
            => (verdict[w] = "not_ready" <=> ~SecretValid)]_readinessVars
    BY DEF ReadinessInv, Undisturbed, Right, WriteStatus
<1> QED
    BY <1>1, ReadinessAlways, PTL DEF ReadinessSpec, SecretVerdict
=============================================================================
