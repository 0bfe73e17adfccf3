------------------------- MODULE FlightServiceProofs -------------------------
(***************************************************************************)
(* The Flight service.  What FlightRequests promises of the answers that   *)
(* requests go by, for every number of calls, every time to live and every *)
(* set of scenarios, and the permits of tls_incoming, whatever the number  *)
(* of clients, permits and places in the channel.                          *)
(***************************************************************************)
EXTENDS FlightRequests, TlsIncoming, FiniteSetTheorems, SequenceTheorems, TLAPS

(***************************************************************************)
(* The parts of the inductive invariant.                                   *)
(***************************************************************************)

\* What calls write is kept for each call.
PerCall ==
    /\ fetched = [c \in Calls |-> fetched[c]]
    /\ basis = [c \in Calls |-> basis[c]]
    /\ pc = [c \in Calls |-> pc[c]]
    /\ user = [c \in Calls |-> user[c]]
    /\ target = [c \in Calls |-> target[c]]

\* past has all that is true now.
PastComplete ==
    /\ now \in Int
    /\ \A q \in DOMAIN truth : <<now, q, truth[q]>> \in past

\* An answer under way was true when it was given, and that is not long ago.
FetchedCurrent ==
    \A c \in Calls : \A f \in fetched[c] :
      /\ f.seen \in Int
      /\ now - f.seen <= Transit
      /\ <<f.seen, f.about, f.answer>> \in past

\* An entry was true when it was seen, and was put into the cache soon after.
CacheCurrent ==
    \A e \in cache :
      /\ e.seen \in Int
      /\ e.at \in Int
      /\ e.at - e.seen <= Transit
      /\ <<e.seen, e.about, e.answer>> \in past

CurrentInv == PerCall /\ PastComplete /\ FetchedCurrent /\ CacheCurrent /\ AnswersCurrent
-----------------------------------------------------------------------------

\* A time to live is a number.
LEMMA TimeToLiveType == \A key : TimeToLive(key) \in Int
BY TimesAssumption DEF TimeToLive

\* The calls that take a current answer go by current answers.
LEMMA TakeCurrent ==
    ASSUME CurrentInv, NEW S \in SUBSET Calls, NEW entry, Take(S, entry),
           now' = now, past' = past,
           ~ Lasting(entry.key) =>
             /\ now - entry.seen <= Transit \/ now - entry.seen < TimeToLive(entry.key) + Transit
             /\ <<entry.seen, entry.about, entry.answer>> \in past
    PROVE  AnswersCurrent'
<1> SUFFICES ASSUME NEW c \in Calls, NEW b \in basis'[c], ~ Lasting(b.key)
             PROVE  /\ b.at - b.seen <= Transit \/ b.at - b.seen < TimeToLive(b.key) + Transit
                    /\ <<b.seen, b.about, b.answer>> \in past
    BY DEF AnswersCurrent, Lasting, TimeToLive
<1>1. CASE b \in basis[c]
    BY <1>1 DEF CurrentInv, AnswersCurrent
<1>2. CASE b \notin basis[c]
    <2>1. b = [key |-> entry.key, about |-> entry.about, answer |-> entry.answer,
               seen |-> entry.seen, at |-> now]
        BY <1>2 DEF Take
    <2> QED  BY <2>1
<1> QED  BY <1>1, <1>2

\* A step that leaves the answers alone keeps what is known of them.
LEMMA OthersKeep ==
    ASSUME CurrentInv, UNCHANGED <<now, truth, past, cache, basis>>,
           fetched' = [c \in Calls |-> fetched'[c]],
           \A c \in Calls : fetched'[c] \subseteq fetched[c],
           pc' = [c \in Calls |-> pc'[c]], user' = [c \in Calls |-> user'[c]],
           target' = [c \in Calls |-> target'[c]]
    PROVE  CurrentInv'
<1>1. PerCall'  BY DEF CurrentInv, PerCall
<1>2. PastComplete'  BY DEF CurrentInv, PastComplete
<1>3. FetchedCurrent'  BY DEF CurrentInv, FetchedCurrent
<1>4. CacheCurrent'  BY DEF CurrentInv, CacheCurrent
<1>5. AnswersCurrent'  BY DEF CurrentInv, AnswersCurrent, Lasting, TimeToLive
<1> QED  BY <1>1, <1>2, <1>3, <1>4, <1>5 DEF CurrentInv

LEMMA InitCurrent == RequestsInit => CurrentInv
<1> SUFFICES ASSUME RequestsInit PROVE CurrentInv
    OBVIOUS
<1>1. PerCall  BY DEF RequestsInit, PerCall
<1>2. PastComplete  BY DEF RequestsInit, PastComplete
<1>3. FetchedCurrent /\ CacheCurrent /\ AnswersCurrent
    BY DEF RequestsInit, FetchedCurrent, CacheCurrent, AnswersCurrent
<1> QED  BY <1>1, <1>2, <1>3 DEF CurrentInv

\* A call takes what the cache has: it is as old as the entry, whose time to
\* live is not over, and the time the entry was under way.
LEMMA HitCurrent ==
    ASSUME CurrentInv, NEW c \in Calls, Hit(c)
    PROVE  CurrentInv'
<1>1. PICK entry \in cache : Usable(entry) /\ Take({c}, entry)
    BY DEF Hit
<1>2. UNCHANGED <<now, truth, past, cache, fetched, target>>
    BY DEF Hit, worldVars
<1>3. PerCall'
    BY <1>1, <1>2 DEF CurrentInv, PerCall, Take
<1>4. PastComplete' /\ FetchedCurrent' /\ CacheCurrent'
    BY <1>2 DEF CurrentInv, PastComplete, FetchedCurrent, CacheCurrent
<1>5. /\ entry.seen \in Int /\ entry.at \in Int /\ now \in Int
      /\ entry.at - entry.seen <= Transit
      /\ <<entry.seen, entry.about, entry.answer>> \in past
    BY <1>1 DEF CurrentInv, CacheCurrent, PastComplete
<1>6. ~ Lasting(entry.key) => now - entry.seen < TimeToLive(entry.key) + Transit
    BY <1>1, <1>5, TimeToLiveType, TimesAssumption DEF Usable
<1>7. AnswersCurrent'
    BY <1>1, <1>2, <1>5, <1>6, TakeCurrent
<1> QED  BY <1>3, <1>4, <1>7 DEF CurrentInv

\* What a call asks for is true at that moment.
LEMMA LoadCurrent ==
    ASSUME CurrentInv, NEW c \in Calls, Load(c)
    PROVE  CurrentInv'
<1>1. UNCHANGED <<now, truth, past, cache, basis, pc, user, target>>
    BY DEF Load, worldVars
<1>2. /\ Question(c) \in DOMAIN truth
      /\ fetched' = [fetched EXCEPT ![c] = {[key |-> Key(c), about |-> Question(c),
                                             answer |-> truth[Question(c)], seen |-> now]}]
    BY DEF Load
<1>3. PerCall'
    BY <1>1, <1>2 DEF CurrentInv, PerCall
<1>4. PastComplete' /\ CacheCurrent' /\ AnswersCurrent'
    BY <1>1 DEF CurrentInv, PastComplete, CacheCurrent, AnswersCurrent, Lasting, TimeToLive
<1>5. FetchedCurrent'
    <2> SUFFICES ASSUME NEW d \in Calls, NEW f \in fetched'[d]
                 PROVE  f.seen \in Int /\ now - f.seen <= Transit
                        /\ <<f.seen, f.about, f.answer>> \in past
        BY <1>1 DEF FetchedCurrent
    <2>1. CASE f \in fetched[d]
        BY <2>1 DEF CurrentInv, FetchedCurrent
    <2>2. CASE f \notin fetched[d]
        <3>1. f = [key |-> Key(c), about |-> Question(c), answer |-> truth[Question(c)], seen |-> now]
            BY <1>2, <2>2 DEF CurrentInv, PerCall
        <3> QED  BY <1>2, <3>1, TimesAssumption DEF CurrentInv, PastComplete
    <2> QED  BY <2>1, <2>2
<1> QED  BY <1>3, <1>4, <1>5 DEF CurrentInv

\* The calls that wait share an answer that was just under way.
LEMMA InsertCurrent ==
    ASSUME CurrentInv, NEW c \in Calls, Insert(c)
    PROVE  CurrentInv'
<1>1. PICK f \in fetched[c], S \in Sharing(c) :
        LET entry == [key |-> f.key, about |-> f.about, answer |-> f.answer, seen |-> f.seen, at |-> now]
        IN  cache' = {e \in cache : e.key # f.key} \cup {entry} /\ Take(S, entry)
    BY DEF Insert
<1> DEFINE entry == [key |-> f.key, about |-> f.about, answer |-> f.answer, seen |-> f.seen, at |-> now]
<1>2. UNCHANGED <<now, truth, past, target>> /\ fetched' = [fetched EXCEPT ![c] = {}]
    BY DEF Insert, worldVars
<1>3. PerCall'
    BY <1>1, <1>2 DEF CurrentInv, PerCall, Take
<1>4. PastComplete'
    BY <1>2 DEF CurrentInv, PastComplete
<1>5. FetchedCurrent'
    BY <1>2 DEF CurrentInv, PerCall, FetchedCurrent
<1>6. /\ f.seen \in Int /\ now \in Int /\ now - f.seen <= Transit
      /\ <<f.seen, f.about, f.answer>> \in past
    BY DEF CurrentInv, FetchedCurrent, PastComplete
<1>7. CacheCurrent'
    <2> SUFFICES ASSUME NEW e \in cache'
                 PROVE  e.seen \in Int /\ e.at \in Int /\ e.at - e.seen <= Transit
                        /\ <<e.seen, e.about, e.answer>> \in past
        BY <1>2 DEF CacheCurrent
    <2>1. e \in cache \/ e = entry  BY <1>1
    <2>2. CASE e \in cache  BY <2>2 DEF CurrentInv, CacheCurrent
    <2>3. CASE e = entry  BY <1>6, <2>3
    <2> QED  BY <2>1, <2>2, <2>3
<1>8. S \in SUBSET Calls
    BY DEF Sharing
<1>9. AnswersCurrent'
    <2>1. /\ Take(S, entry)
          /\ now - entry.seen <= Transit /\ <<entry.seen, entry.about, entry.answer>> \in past
        BY <1>1, <1>6
    <2> HIDE DEF entry
    <2> QED  BY <1>2, <1>8, <2>1, TakeCurrent
<1> QED  BY <1>3, <1>4, <1>5, <1>7, <1>9 DEF CurrentInv

\* The clock waits for the answers under way; what changes was true until now.
LEMMA WorldCurrent ==
    ASSUME CurrentInv, Tick \/ TruthChanges \/ RowChanges \/ Evict
    PROVE  CurrentInv'
<1>1. CASE Tick
    <2>1. /\ now' = now + 1 /\ past \subseteq past'
          /\ UNCHANGED <<truth, cache, fetched, basis, pc, user, target>>
        BY <1>1 DEF Tick
    <2>2. PerCall'  BY <2>1 DEF CurrentInv, PerCall
    <2>3. PastComplete'  BY <1>1 DEF Tick, CurrentInv, PastComplete
    <2>4. FetchedCurrent'
        <3> SUFFICES ASSUME NEW c \in Calls, NEW f \in fetched[c]
                     PROVE  f.seen \in Int /\ now' - f.seen <= Transit
                            /\ <<f.seen, f.about, f.answer>> \in past'
            BY <2>1 DEF FetchedCurrent
        <3>1. now + 1 - f.seen <= Transit  BY <1>1 DEF Tick
        <3>2. f.seen \in Int /\ <<f.seen, f.about, f.answer>> \in past
            BY DEF CurrentInv, FetchedCurrent
        <3>3. now' - f.seen <= Transit
            BY <2>1, <3>1, <3>2, TimesAssumption DEF CurrentInv, PastComplete
        <3>4. <<f.seen, f.about, f.answer>> \in past'  BY <2>1, <3>2
        <3> QED  BY <3>2, <3>3, <3>4
    <2>5. CacheCurrent' /\ AnswersCurrent'
        BY <2>1 DEF CurrentInv, CacheCurrent, AnswersCurrent, Lasting, TimeToLive
    <2> QED  BY <2>2, <2>3, <2>4, <2>5 DEF CurrentInv
<1>2. CASE TruthChanges
    <2>1. now' = now /\ past \subseteq past' /\ UNCHANGED <<cache, fetched, basis, pc, user, target>>
        BY <1>2 DEF TruthChanges
    <2>2. PerCall'  BY <2>1 DEF CurrentInv, PerCall
    <2>3. PastComplete'  BY <1>2 DEF TruthChanges, CurrentInv, PastComplete
    <2>4. FetchedCurrent' /\ CacheCurrent'  BY <2>1 DEF CurrentInv, FetchedCurrent, CacheCurrent
    <2>5. AnswersCurrent'  BY <2>1 DEF CurrentInv, AnswersCurrent, Lasting, TimeToLive
    <2> QED  BY <2>2, <2>3, <2>4, <2>5 DEF CurrentInv
<1>3. CASE RowChanges
    <2>1. UNCHANGED <<now, truth, past, cache, fetched, basis, pc, user, target>>
        BY <1>3 DEF RowChanges
    <2> QED  BY <2>1, OthersKeep DEF CurrentInv, PerCall
<1>4. CASE Evict
    <2>1. cache' \subseteq cache /\ UNCHANGED <<now, truth, past, fetched, basis, pc, user, target>>
        BY <1>4 DEF Evict, worldVars
    <2> QED  BY <2>1 DEF CurrentInv, PerCall, PastComplete, FetchedCurrent, CacheCurrent, AnswersCurrent,
                         Lasting, TimeToLive
<1> QED  BY <1>1, <1>2, <1>3, <1>4

\* A handler ends its call, or goes on to the client of what it found.
LEMMA HandleMoves ==
    ASSUME NEW c \in Calls, Handle(c)
    PROVE  \/ target' = target /\ \E status \in Statuses \ {"none"} : End({c}, status)
           \/ /\ Goto(c, "client")
              /\ WellPosed(c)
              /\ \E r : /\ target' = [target EXCEPT ![c] = r]
                        /\ \/ r \in find_connection(c) /\ request[c].op # "check_credentials"
                           \/ r \in find_type(c) /\ request[c].op = "check_credentials"
<1>1. ASSUME NEW found, Choose(c, found)
      PROVE  \/ target' = target /\ \E status \in Statuses \ {"none"} : End({c}, status)
             \/ /\ Goto(c, "client")
                /\ WellPosed(c)
                /\ \E r \in found : target' = [target EXCEPT ![c] = r]
    BY <1>1 DEF Choose, ConnectorStatus, Statuses
<1>2. \/ target' = target /\ \E status \in Statuses \ {"none"} : End({c}, status)
      \/ Choose(c, find_connection(c)) /\ request[c].op # "check_credentials"
      \/ Choose(c, find_type(c)) /\ request[c].op = "check_credentials"
    BY DEF Handle, AnswerAtOnce, handle_statement, handle_fallback, dispatch_action, Statuses
<1> QED  BY <1>1, <1>2

\* A step of a call that takes no answer.
LEMMA QuietCurrent ==
    ASSUME CurrentInv, NEW c \in Calls,
           \/ AuthMiddleware(c) \/ validate_headers(c) \/ BuildFails(c) \/ LoadFails(c)
           \/ Handle(c) \/ LookupFails(c) \/ Read(c) \/ Cancel(c)
    PROVE  CurrentInv'
<1>1. UNCHANGED <<now, truth, past, cache, basis>>
    BY DEF AuthMiddleware, validate_headers, BuildFails, LoadFails, Handle, LookupFails, Read, Cancel,
           Drop, worldVars
<1>2. fetched' = fetched \/ fetched' = [fetched EXCEPT ![c] = {}]
    BY DEF AuthMiddleware, validate_headers, BuildFails, LoadFails, Handle, LookupFails, Read, Cancel, Drop
<1>3. fetched' = [d \in Calls |-> fetched'[d]] /\ \A d \in Calls : fetched'[d] \subseteq fetched[d]
    BY <1>2 DEF CurrentInv, PerCall
<1>4. user' = [d \in Calls |-> user'[d]]
    BY DEF CurrentInv, PerCall, AuthMiddleware, validate_headers, BuildFails, LoadFails, Handle,
           LookupFails, Read, Cancel, Drop
<1>5. pc' = [d \in Calls |-> pc'[d]] /\ target' = [d \in Calls |-> target'[d]]
    <2>1. CASE Handle(c)
        BY <2>1, HandleMoves DEF CurrentInv, PerCall, End, Goto
    <2>2. CASE AuthMiddleware(c) \/ validate_headers(c)
        BY <2>2 DEF CurrentInv, PerCall, AuthMiddleware, validate_headers, End, Goto
    <2>3. CASE BuildFails(c) \/ LoadFails(c)
        BY <2>3 DEF CurrentInv, PerCall, BuildFails, LoadFails, End
    <2>4. CASE LookupFails(c) \/ Read(c) \/ Cancel(c)
        BY <2>4 DEF CurrentInv, PerCall, LookupFails, Read, Cancel, Drop, End
    <2> QED  BY <2>1, <2>2, <2>3, <2>4
<1> QED  BY <1>1, <1>3, <1>4, <1>5, OthersKeep

LEMMA NextCurrent == CurrentInv /\ [RequestsNext]_requestVars => CurrentInv'
<1> SUFFICES ASSUME CurrentInv, [RequestsNext]_requestVars
             PROVE  CurrentInv'
    OBVIOUS
<1>1. ASSUME NEW c \in Calls, Step(c) \/ Cancel(c)
      PROVE  CurrentInv'
    BY <1>1, HitCurrent, LoadCurrent, InsertCurrent, QuietCurrent DEF Step
<1>2. CASE Tick \/ TruthChanges \/ RowChanges \/ Evict
    BY <1>2, WorldCurrent
<1>3. CASE UNCHANGED requestVars
    BY <1>3, OthersKeep DEF requestVars, CurrentInv, PerCall
<1> QED  BY <1>1, <1>2, <1>3 DEF RequestsNext

\* Requests go by answers that were true not longer ago than a time to live
\* and the time an answer is under way, for all numbers of calls that share
\* them (the caches of KubeAuthClient and of the connectors).
THEOREM RequestsAnswersCurrent == RequestsSpec => []AnswersCurrent
<1>1. RequestsInit => CurrentInv  BY InitCurrent
<1>2. CurrentInv /\ [RequestsNext]_requestVars => CurrentInv'  BY NextCurrent
<1>3. CurrentInv => AnswersCurrent  BY DEF CurrentInv
<1> QED  BY <1>1, <1>2, <1>3, PTL DEF RequestsSpec
-----------------------------------------------------------------------------

(***************************************************************************)
(* Well-formedness: a call that asks waits for its answer, and nobody else *)
(* asks for the same key.                                                  *)
(***************************************************************************)
ResultsOK ==
    /\ now \in 0 .. MaxTime
    /\ changes \in 0 .. MaxChanges
    /\ faults \in 0 .. MaxFaults
    /\ \A c \in Calls : pc[c] \in Places /\ result[c] \in Statuses
    /\ \A c \in Calls : (pc[c] = "done") = (result[c] # "none")
    /\ result = [c \in Calls |-> result[c]]

WellInv == PerCall /\ ResultsOK /\ OneLoader

LEMMA WellInvTypeOK == WellInv => RequestsTypeOK
BY DEF WellInv, PerCall, ResultsOK, RequestsTypeOK

\* The calls of S move and ask for nothing any more; the others stay.
LEMMA MoversLeave ==
    ASSUME OneLoader, NEW S \in SUBSET Calls, request' = request,
           \A c \in Calls \ S : pc'[c] = pc[c] /\ user'[c] = user[c] /\ target'[c] = target[c],
           \A c \in Calls : fetched'[c] \subseteq fetched[c],
           \A c \in S : fetched'[c] = {}
    PROVE  OneLoader'
<1>1. \A c \in Calls \ S : Key(c)' = Key(c) /\ Waits(c)' = Waits(c)
    BY DEF Key, Waits, authenticate, authorize, authorize_secret, cache_key
<1>2. ASSUME NEW c \in Calls, NEW f \in fetched'[c]
      PROVE  c \in Calls \ S /\ f \in fetched[c] /\ Waits(c)' /\ f.key = Key(c)'
    BY <1>1, <1>2 DEF OneLoader
<1> QED  BY <1>2 DEF OneLoader

\* Calls that end have a result.
LEMMA EndOK ==
    ASSUME WellInv, NEW S \in SUBSET Calls, NEW status \in Statuses \ {"none"}, End(S, status)
    PROVE  /\ pc' = [c \in Calls |-> pc'[c]]
           /\ result' = [c \in Calls |-> result'[c]]
           /\ \A c \in Calls : pc'[c] \in Places /\ result'[c] \in Statuses
           /\ \A c \in Calls : (pc'[c] = "done") = (result'[c] # "none")
           /\ \A c \in Calls \ S : pc'[c] = pc[c]
BY DEF WellInv, ResultsOK, End, Places, Statuses

LEMMA TakeOK ==
    ASSUME WellInv, NEW S \in SUBSET Calls, NEW entry, Take(S, entry), \A c \in S : Waits(c)
    PROVE  /\ pc' = [c \in Calls |-> pc'[c]]
           /\ result' = [c \in Calls |-> result'[c]]
           /\ user' = [c \in Calls |-> user'[c]]
           /\ basis' = [c \in Calls |-> basis'[c]]
           /\ \A c \in Calls : pc'[c] \in Places /\ result'[c] \in Statuses
           /\ \A c \in Calls : (pc'[c] = "done") = (result'[c] # "none")
           /\ \A c \in Calls \ S : pc'[c] = pc[c] /\ user'[c] = user[c]
<1>1. \A c \in Calls : /\ Verdict(c, entry.answer) \in (Statuses \ {"none"}) \cup {"go"}
                       /\ After(c) \in Places \ {"done"}
    BY DEF Verdict, After, Statuses, Places
<1>2. \A c \in S : pc[c] # "done" /\ result[c] = "none"
    BY DEF WellInv, ResultsOK, Waits
<1>3. \A c \in Calls \ S : /\ pc'[c] = pc[c] /\ user'[c] = user[c] /\ result'[c] = result[c]
    BY DEF Take
<1>4. \A c \in S : \/ pc'[c] \in Places \ {"done"} /\ result'[c] = "none"
                   \/ pc'[c] = "done" /\ result'[c] \in Statuses \ {"none"}
    BY <1>1, <1>2 DEF Take
<1>5. \A c \in Calls : pc'[c] \in Places /\ result'[c] \in Statuses
    BY <1>3, <1>4 DEF WellInv, ResultsOK, Places, Statuses
<1>6. \A c \in Calls : (pc'[c] = "done") = (result'[c] # "none")
    BY <1>3, <1>4 DEF WellInv, ResultsOK
<1>7. /\ pc' = [c \in Calls |-> pc'[c]] /\ result' = [c \in Calls |-> result'[c]]
      /\ user' = [c \in Calls |-> user'[c]] /\ basis' = [c \in Calls |-> basis'[c]]
    BY DEF Take
<1> QED  BY <1>3, <1>5, <1>6, <1>7

\* All statuses that connectors' errors become are results.
LEMMA StatusesOfErrors ==
    \A error \in DOMAIN ConnectorStatus : ConnectorStatus[error] \in Statuses \ {"none"}
BY DEF ConnectorStatus, Statuses

\* Those who wait for the same key as c ask for nothing themselves.
LEMMA SharersWait ==
    ASSUME OneLoader, NEW c \in Calls, fetched[c] # {}, NEW S \in Sharing(c)
    PROVE  /\ S \in SUBSET Calls
           /\ \A d \in S : Waits(d) /\ Key(d) = Key(c)
           /\ \A d \in S \ {c} : fetched[d] = {}
BY DEF OneLoader, Sharing

\* A step that ends the calls of S, which ask for nothing any more.
LEMMA EndStep ==
    ASSUME WellInv, NEW S \in SUBSET Calls, NEW status \in Statuses \ {"none"}, End(S, status),
           UNCHANGED <<now, changes, request, user, target, basis>>,
           faults' \in 0 .. MaxFaults,
           fetched' = [d \in Calls |-> fetched'[d]],
           \A d \in Calls : fetched'[d] \subseteq fetched[d],
           \A d \in S : fetched'[d] = {}
    PROVE  WellInv'
<1>1. ResultsOK'
    BY EndOK DEF WellInv, ResultsOK
<1>2. PerCall'
    BY EndOK DEF WellInv, PerCall
<1>3. OneLoader'
    BY EndOK, MoversLeave DEF WellInv
<1> QED  BY <1>1, <1>2, <1>3 DEF WellInv

\* A step that takes a call from one place to the next one.
LEMMA GotoStep ==
    ASSUME WellInv, NEW c \in Calls, NEW place \in Places \ {"done"}, Goto(c, place),
           pc[c] # "done", fetched[c] = {},
           UNCHANGED <<now, changes, request, fetched, basis, faults>>,
           user' = [d \in Calls |-> user'[d]], target' = [d \in Calls |-> target'[d]],
           \A d \in Calls \ {c} : user'[d] = user[d] /\ target'[d] = target[d]
    PROVE  WellInv'
<1>1. /\ pc' = [d \in Calls |-> pc'[d]] /\ pc'[c] = place
      /\ \A d \in Calls \ {c} : pc'[d] = pc[d]
      /\ result' = result
    BY DEF Goto, WellInv, PerCall
<1>2. ResultsOK'
    BY <1>1 DEF WellInv, ResultsOK
<1>3. PerCall'
    BY <1>1 DEF WellInv, PerCall
<1>4. OneLoader'
    <2>1. /\ {c} \in SUBSET Calls /\ request' = request
          /\ \A d \in Calls \ {c} : pc'[d] = pc[d] /\ user'[d] = user[d] /\ target'[d] = target[d]
          /\ \A d \in Calls : fetched'[d] \subseteq fetched[d]
          /\ \A d \in {c} : fetched'[d] = {}
        BY <1>1
    <2> QED  BY <2>1, MoversLeave DEF WellInv
<1> QED  BY <1>2, <1>3, <1>4 DEF WellInv

LEMMA ArriveWell ==
    ASSUME WellInv, NEW c \in Calls, AuthMiddleware(c) \/ validate_headers(c)
    PROVE  WellInv'
<1>1. pc[c] = "arrive" /\ fetched[c] = {}
    BY DEF AuthMiddleware, validate_headers, WellInv, OneLoader, Waits
<1>2. UNCHANGED <<now, changes, request, fetched, basis, faults, target>>
    BY DEF AuthMiddleware, validate_headers, worldVars
<1>3. \/ user' = user /\ \E status \in Statuses \ {"none"} : End({c}, status)
      \/ user' = user /\ Goto(c, "token")
      \/ user' = [user EXCEPT ![c] = request[c].token] /\ Goto(c, "secret")
    BY DEF AuthMiddleware, validate_headers, Statuses
<1>4. CASE user' = user /\ \E status \in Statuses \ {"none"} : End({c}, status)
    BY <1>1, <1>2, <1>4, EndStep DEF WellInv, ResultsOK, PerCall
<1>5. CASE user' = user /\ Goto(c, "token")
    <2>1. /\ user' = [d \in Calls |-> user'[d]] /\ target' = [d \in Calls |-> target'[d]]
          /\ \A d \in Calls \ {c} : user'[d] = user[d] /\ target'[d] = target[d]
        BY <1>2, <1>5 DEF WellInv, PerCall
    <2> QED  BY <1>1, <1>2, <1>5, <2>1, GotoStep DEF Places
<1>6. CASE user' = [user EXCEPT ![c] = request[c].token] /\ Goto(c, "secret")
    <2>1. /\ user' = [d \in Calls |-> user'[d]] /\ target' = [d \in Calls |-> target'[d]]
          /\ \A d \in Calls \ {c} : user'[d] = user[d] /\ target'[d] = target[d]
        BY <1>2, <1>6 DEF WellInv, PerCall
    <2> QED  BY <1>1, <1>2, <1>6, <2>1, GotoStep DEF Places
<1> QED  BY <1>3, <1>4, <1>5, <1>6

LEMMA HandleWell ==
    ASSUME WellInv, NEW c \in Calls, Handle(c)
    PROVE  WellInv'
<1>1. pc[c] = "handle" /\ fetched[c] = {}
    BY DEF Handle, WellInv, OneLoader, Waits
<1>2. UNCHANGED <<now, changes, request, fetched, basis, faults, user>>
    BY DEF Handle, worldVars
<1>3. CASE target' = target /\ \E status \in Statuses \ {"none"} : End({c}, status)
    BY <1>1, <1>2, <1>3, EndStep DEF WellInv, ResultsOK, PerCall
<1>4. CASE Goto(c, "client") /\ \E r : target' = [target EXCEPT ![c] = r]
    <2>1. /\ user' = [d \in Calls |-> user'[d]] /\ target' = [d \in Calls |-> target'[d]]
          /\ \A d \in Calls \ {c} : user'[d] = user[d] /\ target'[d] = target[d]
        BY <1>2, <1>4 DEF WellInv, PerCall
    <2> QED  BY <1>1, <1>2, <1>4, <2>1, GotoStep DEF Places
<1> QED  BY <1>3, <1>4, HandleMoves

LEMMA HitWell ==
    ASSUME WellInv, NEW c \in Calls, Hit(c)
    PROVE  WellInv'
<1>1. PICK entry \in cache : Take({c}, entry)
    BY DEF Hit
<1>2. /\ Waits(c) /\ fetched[c] = {}
      /\ UNCHANGED <<now, changes, request, fetched, faults, target>>
    BY DEF Hit, worldVars
<1>3. /\ pc' = [d \in Calls |-> pc'[d]] /\ result' = [d \in Calls |-> result'[d]]
      /\ user' = [d \in Calls |-> user'[d]] /\ basis' = [d \in Calls |-> basis'[d]]
      /\ \A d \in Calls : pc'[d] \in Places /\ result'[d] \in Statuses
      /\ \A d \in Calls : (pc'[d] = "done") = (result'[d] # "none")
      /\ \A d \in Calls \ {c} : pc'[d] = pc[d] /\ user'[d] = user[d]
    BY <1>1, <1>2, TakeOK
<1>4. ResultsOK'
    BY <1>2, <1>3 DEF WellInv, ResultsOK
<1>5. PerCall'
    BY <1>2, <1>3 DEF WellInv, PerCall
<1>6. OneLoader'
    <2>1. /\ {c} \in SUBSET Calls /\ request' = request
          /\ \A d \in Calls \ {c} : pc'[d] = pc[d] /\ user'[d] = user[d] /\ target'[d] = target[d]
          /\ \A d \in Calls : fetched'[d] \subseteq fetched[d]
          /\ \A d \in {c} : fetched'[d] = {}
        BY <1>2, <1>3
    <2> QED  BY <2>1, MoversLeave DEF WellInv
<1> QED  BY <1>4, <1>5, <1>6 DEF WellInv

LEMMA LoadWell ==
    ASSUME WellInv, NEW c \in Calls, Load(c)
    PROVE  WellInv'
<1>1. UNCHANGED <<now, changes, request, faults, target, user, pc, result, basis>>
    BY DEF Load, worldVars
<1>2. /\ Waits(c)
      /\ \A d \in Calls : \A f \in fetched[d] : f.key # Key(c)
      /\ fetched' = [fetched EXCEPT ![c] = {[key |-> Key(c), about |-> Question(c),
                                             answer |-> truth[Question(c)], seen |-> now]}]
    BY DEF Load
<1>3. ResultsOK'  BY <1>1 DEF WellInv, ResultsOK
<1>4. PerCall'  BY <1>1, <1>2 DEF WellInv, PerCall
<1>5. OneLoader'
    <2>1. \A d \in Calls : Key(d)' = Key(d) /\ Waits(d)' = Waits(d)
        BY <1>1 DEF Key, Waits, authenticate, authorize, authorize_secret, cache_key
    <2>2. /\ \A d \in Calls \ {c} : fetched'[d] = fetched[d]
          /\ \A f \in fetched'[c] : f.key = Key(c)
        BY <1>2 DEF WellInv, PerCall
    <2> QED  BY <1>2, <2>1, <2>2 DEF WellInv, OneLoader
<1> QED  BY <1>3, <1>4, <1>5 DEF WellInv

\* The one who asked is done with its key, with an answer or an error.
LEMMA InsertWell ==
    ASSUME WellInv, NEW c \in Calls, Insert(c)
    PROVE  WellInv'
<1>1. PICK f \in fetched[c], S \in Sharing(c) :
        Take(S, [key |-> f.key, about |-> f.about, answer |-> f.answer, seen |-> f.seen, at |-> now])
    BY DEF Insert
<1>2. /\ UNCHANGED <<now, changes, request, faults, target>>
      /\ fetched' = [fetched EXCEPT ![c] = {}]
    BY DEF Insert, worldVars
<1>3. S \in SUBSET Calls /\ (\A d \in S : Waits(d)) /\ \A d \in S \ {c} : fetched[d] = {}
    BY SharersWait DEF WellInv
<1>4. /\ fetched' = [d \in Calls |-> fetched'[d]] /\ fetched'[c] = {}
      /\ \A d \in Calls \ {c} : fetched'[d] = fetched[d]
    BY <1>2 DEF WellInv, PerCall
<1>5. /\ pc' = [d \in Calls |-> pc'[d]] /\ result' = [d \in Calls |-> result'[d]]
      /\ user' = [d \in Calls |-> user'[d]] /\ basis' = [d \in Calls |-> basis'[d]]
      /\ \A d \in Calls : pc'[d] \in Places /\ result'[d] \in Statuses
      /\ \A d \in Calls : (pc'[d] = "done") = (result'[d] # "none")
      /\ \A d \in Calls \ S : pc'[d] = pc[d] /\ user'[d] = user[d]
    BY <1>1, <1>3, TakeOK
<1>6. ResultsOK'
    BY <1>2, <1>5 DEF WellInv, ResultsOK
<1>7. PerCall'
    BY <1>2, <1>4, <1>5 DEF WellInv, PerCall
<1>8. OneLoader'
    <2>1. /\ S \in SUBSET Calls /\ request' = request
          /\ \A d \in Calls \ S : pc'[d] = pc[d] /\ user'[d] = user[d] /\ target'[d] = target[d]
          /\ \A d \in Calls : fetched'[d] \subseteq fetched[d]
          /\ \A d \in S : fetched'[d] = {}
        BY <1>2, <1>3, <1>4, <1>5
    <2> QED  BY <2>1, MoversLeave DEF WellInv
<1> QED  BY <1>6, <1>7, <1>8 DEF WellInv

LEMMA FailWell ==
    ASSUME WellInv, NEW c \in Calls, BuildFails(c) \/ LoadFails(c)
    PROVE  WellInv'
<1>1. /\ fetched[c] # {}
      /\ fetched' = [fetched EXCEPT ![c] = {}]
      /\ UNCHANGED <<now, changes, request, user, target, basis>>
    BY DEF BuildFails, LoadFails, worldVars
<1>2. faults' \in 0 .. MaxFaults
    BY TimesAssumption DEF BuildFails, LoadFails, WellInv, ResultsOK
<1>3. PICK S \in Sharing(c) : \E status \in Statuses \ {"none"} : End(S, status)
    <2>1. CASE BuildFails(c)
        BY <2>1, StatusesOfErrors DEF BuildFails, BuildError, ConnectorStatus
    <2>2. CASE LoadFails(c)
        BY <2>2 DEF LoadFails, ConnectorStatus, Statuses
    <2> QED  BY <2>1, <2>2
<1>4. S \in SUBSET Calls /\ \A d \in S \ {c} : fetched[d] = {}
    BY <1>1, SharersWait DEF WellInv
<1>5. /\ fetched' = [d \in Calls |-> fetched'[d]] /\ fetched'[c] = {}
      /\ \A d \in Calls \ {c} : fetched'[d] = fetched[d]
    BY <1>1 DEF WellInv, PerCall
<1> QED  BY <1>1, <1>2, <1>3, <1>4, <1>5, EndStep

LEMMA StopWell ==
    ASSUME WellInv, NEW c \in Calls, LookupFails(c) \/ Read(c) \/ Cancel(c)
    PROVE  WellInv'
<1>1. UNCHANGED <<now, changes, request, user, target, basis>>
    BY DEF LookupFails, Read, Cancel, Drop, worldVars
<1>2. faults' \in 0 .. MaxFaults
    BY TimesAssumption DEF LookupFails, Read, Cancel, Drop, WellInv, ResultsOK
<1>3. \E status \in Statuses \ {"none"} : End({c}, status)
    <2>1. CASE LookupFails(c)
        BY <2>1 DEF LookupFails, Statuses
    <2>2. CASE Read(c)
        BY <2>2, ReadErrorsAssumption, StatusesOfErrors DEF Read, ConnectorStatus, Statuses
    <2>3. CASE Cancel(c)
        BY <2>3 DEF Cancel, Drop, Statuses
    <2> QED  BY <2>1, <2>2, <2>3
<1>4. fetched' = [fetched EXCEPT ![c] = {}] \/ (fetched' = fetched /\ fetched[c] = {})
    BY DEF LookupFails, Read, Cancel, Drop, WellInv, OneLoader, Waits
<1>5. /\ fetched' = [d \in Calls |-> fetched'[d]] /\ fetched'[c] = {}
      /\ \A d \in Calls \ {c} : fetched'[d] = fetched[d]
    BY <1>4 DEF WellInv, PerCall
<1> QED  BY <1>1, <1>2, <1>3, <1>5, EndStep

LEMMA WorldWell ==
    ASSUME WellInv, Tick \/ TruthChanges \/ RowChanges \/ Evict \/ UNCHANGED requestVars
    PROVE  WellInv'
<1>1. UNCHANGED <<request, pc, user, target, fetched, basis, result>>
    BY DEF Tick, TruthChanges, RowChanges, Evict, requestVars
<1>2. now' \in 0 .. MaxTime /\ changes' \in 0 .. MaxChanges /\ faults' \in 0 .. MaxFaults
    <2>1. CASE Tick
        BY <2>1, TimesAssumption DEF Tick, WellInv, ResultsOK
    <2>2. CASE TruthChanges
        BY <2>2, TimesAssumption DEF TruthChanges, WellInv, ResultsOK
    <2>3. CASE RowChanges
        <3>1. now' = now /\ changes < MaxChanges /\ changes' = changes + 1 /\ faults' = faults
            BY <2>3 DEF RowChanges
        <3> QED  BY <3>1, TimesAssumption DEF WellInv, ResultsOK
    <2>4. CASE Evict \/ UNCHANGED requestVars
        BY <2>4, TimesAssumption DEF Evict, requestVars, worldVars, WellInv, ResultsOK
    <2> QED  BY <2>1, <2>2, <2>3, <2>4
<1>3. PerCall'  BY <1>1 DEF WellInv, PerCall
<1>4. ResultsOK'  BY <1>1, <1>2 DEF WellInv, ResultsOK
<1>5. OneLoader'
    <2>1. /\ {} \in SUBSET Calls /\ request' = request
          /\ \A d \in Calls \ {} : pc'[d] = pc[d] /\ user'[d] = user[d] /\ target'[d] = target[d]
          /\ \A d \in Calls : fetched'[d] \subseteq fetched[d]
          /\ \A d \in {} : fetched'[d] = {}
        BY <1>1
    <2> QED  BY <2>1, MoversLeave DEF WellInv
<1> QED  BY <1>3, <1>4, <1>5 DEF WellInv

LEMMA InitWell == RequestsInit => WellInv
BY TimesAssumption DEF RequestsInit, WellInv, PerCall, ResultsOK, OneLoader, Places, Statuses

LEMMA NextWell == WellInv /\ [RequestsNext]_requestVars => WellInv'
<1> SUFFICES ASSUME WellInv, [RequestsNext]_requestVars
             PROVE  WellInv'
    OBVIOUS
<1>1. ASSUME NEW c \in Calls, Step(c) \/ Cancel(c)
      PROVE  WellInv'
    BY <1>1, ArriveWell, HitWell, LoadWell, InsertWell, FailWell, HandleWell, StopWell DEF Step
<1>2. CASE Tick \/ TruthChanges \/ RowChanges \/ Evict \/ UNCHANGED requestVars
    BY <1>2, WorldWell
<1> QED  BY <1>1, <1>2 DEF RequestsNext

\* The state stays well formed; of all calls that need the same review or
\* client only one asks for it at a time (try_get_with).
THEOREM RequestsWellFormed == RequestsSpec => []RequestsTypeOK
<1>1. RequestsInit => WellInv  BY InitWell
<1>2. WellInv /\ [RequestsNext]_requestVars => WellInv'  BY NextWell
<1>3. WellInv => RequestsTypeOK  BY WellInvTypeOK
<1> QED  BY <1>1, <1>2, <1>3, PTL DEF RequestsSpec
-----------------------------------------------------------------------------

(***************************************************************************)
(* Requests stay within their tenant.  The client cache is keyed by the    *)
(* connection alone, so what has to be kept is whose secret each entry was *)
(* built of: the owner's of the connection it is kept for.                 *)
(***************************************************************************)
Fits(key, about) ==
    /\ key[1] = "client" => about[1] = "content" /\ about[2] = Owner[key[3]]
    /\ key[1] # "client" => about = key

RowsOwned == \A r \in rows : r.tenant = Owner[r.id] /\ r.tenant \notin {"absent", ""}
EntriesFit ==
    /\ \A e \in cache : Fits(e.key, e.about)
    /\ \A c \in Calls : \A f \in fetched[c] : Fits(f.key, f.about)

\* What is known of a call at its place.
Identified(c) ==
    pc[c] \in {"access", "handle", "client", "read"} => Vouched(c, <<"token", request[c].token>>, user[c])
Granted(c) ==
    pc[c] \in {"handle", "client", "read"} /\ ~ Tenantless(c) =>
      Vouched(c, <<"access", user[c], request[c].tenant>>, "yes")
Bound(c) ==
    pc[c] = "read" \/ (pc[c] = "client" /\ request[c].op # "check_credentials") =>
      /\ target[c].tenant = request[c].tenant
      /\ target[c].tenant = Owner[target[c].id]
      /\ ~ Tenantless(c)
BasisFits(c) ==
    \A b \in basis[c] :
      /\ b.key[1] = "client" => b.about[1] = "content" /\ b.about[2] = request[c].tenant
      /\ b.key[1] # "client" => b.about = b.key
      /\ b.key[1] = "inline" => b.key = <<"inline", c>>
      /\ request[c].op = "check_credentials" => b.key[1] # "client"
Served(c) == Identified(c) /\ Granted(c) /\ Bound(c) /\ BasisFits(c)

TenantInv == RowsOwned /\ EntriesFit /\ \A c \in Calls : Served(c)

LEMMA TenantInvServes == TenantInv => ServedWithinTenant
BY DEF TenantInv, Served, Identified, Granted, Bound, BasisFits, ServedWithinTenant

\* A call that does not move, or ends or begins, keeps what is known of it.
LEMMA ServedStays ==
    ASSUME NEW c \in Calls, Served(c), request' = request, basis'[c] = basis[c],
           \/ pc'[c] = pc[c] /\ user'[c] = user[c] /\ target'[c] = target[c]
           \/ pc'[c] \in {"done", "token", "secret"}
    PROVE  Served(c)'
<1>1. BasisFits(c)'  BY DEF Served, BasisFits
<1>2. Identified(c)' /\ Granted(c)'  BY DEF Served, Identified, Granted, Vouched, Tenantless
<1>3. Bound(c)'  BY DEF Served, Bound, Tenantless
<1> QED  BY <1>1, <1>2, <1>3 DEF Served

\* What Key says of the call that it is the key of.
LEMMA KeyOfPlace ==
    ASSUME NEW c \in Calls, Waits(c)
    PROVE  /\ pc[c] = "token" => Key(c) = <<"token", request[c].token>>
           /\ pc[c] = "access" => Key(c) = <<"access", user[c], request[c].tenant>>
           /\ pc[c] = "secret" => Key(c)[1] = "secret"
           /\ pc[c] = "client" => Key(c) = IF request[c].op = "check_credentials" THEN <<"inline", c>>
                                           ELSE <<"client", target[c].provider, target[c].id>>
           /\ Key(c)[1] = "client" => pc[c] = "client" /\ request[c].op # "check_credentials"
           /\ Key(c)[1] = "inline" => Key(c) = <<"inline", c>>
BY DEF Waits, Key, authenticate, authorize, authorize_secret, cache_key

\* A call that takes an entry of its key is still served within its tenant.
LEMMA TakeServes ==
    ASSUME NEW S \in SUBSET Calls, NEW entry, Take(S, entry), NEW c \in S, Served(c),
           Waits(c), entry.key = Key(c), Fits(entry.key, entry.about),
           request' = request, target' = target
    PROVE  Served(c)'
<1> DEFINE taken == [key |-> entry.key, about |-> entry.about, answer |-> entry.answer,
                     seen |-> entry.seen, at |-> now]
<1>1. /\ basis'[c] = basis[c] \cup {taken}
      /\ user'[c] = IF pc[c] = "token" THEN entry.answer ELSE user[c]
      /\ pc'[c] = IF Verdict(c, entry.answer) = "go" THEN After(c) ELSE "done"
    BY DEF Take
<1>2. taken.key = entry.key /\ taken.about = entry.about /\ taken.answer = entry.answer
    OBVIOUS
<1>3. \A q, a : Vouched(c, q, a) => Vouched(c, q, a)'
    BY <1>1 DEF Vouched
<1> HIDE DEF taken
<1>4. /\ entry.key[1] = "client" => entry.about[1] = "content" /\ entry.about[2] = request[c].tenant
      /\ entry.key[1] # "client" => entry.about = entry.key
      /\ entry.key[1] = "inline" => entry.key = <<"inline", c>>
      /\ request[c].op = "check_credentials" => entry.key[1] # "client"
    BY KeyOfPlace DEF Fits, Served, Bound
<1>5. BasisFits(c)'
    BY <1>1, <1>2, <1>4 DEF Served, BasisFits
<1>6. CASE pc[c] = "token"
    <2>1. entry.about = <<"token", request[c].token>>
        BY <1>4, <1>6, KeyOfPlace
    <2>2. Vouched(c, <<"token", request[c].token>>, entry.answer)'
        BY <1>1, <1>2, <2>1 DEF Vouched
    <2>3. pc'[c] \in {"handle", "access", "done"} /\ (pc'[c] = "handle" => Tenantless(c))
        BY <1>1, <1>6 DEF After
    <2> QED  BY <1>1, <1>5, <1>6, <2>2, <2>3 DEF Served, Identified, Granted, Bound, Tenantless
<1>7. CASE pc[c] = "access"
    <2>1. entry.about = <<"access", user[c], request[c].tenant>>
        BY <1>4, <1>7, KeyOfPlace
    <2>2. (pc'[c] = "handle" /\ entry.answer = "yes") \/ pc'[c] = "done"
        BY <1>1, <1>7 DEF Verdict, After
    <2>3. Vouched(c, <<"access", user[c], request[c].tenant>>, entry.answer)'
        BY <1>1, <1>2, <1>7, <2>1 DEF Vouched
    <2>4. Vouched(c, <<"token", request[c].token>>, user[c])'
        BY <1>1, <1>3, <1>7 DEF Served, Identified
    <2> QED  BY <1>1, <1>5, <1>7, <2>2, <2>3, <2>4 DEF Served, Identified, Granted, Bound
<1>8. CASE pc[c] = "secret"
    <2>1. pc'[c] = "done"
        BY <1>1, <1>8 DEF Verdict
    <2> QED  BY <1>5, <2>1 DEF Served, Identified, Granted, Bound
<1>9. CASE pc[c] = "client"
    <2>1. (pc'[c] = "read" /\ request[c].op # "check_credentials") \/ pc'[c] = "done"
        BY <1>1, <1>9 DEF Verdict, After
    <2>2. user'[c] = user[c] /\ target'[c] = target[c]
        BY <1>1, <1>9
    <2>3. Vouched(c, <<"token", request[c].token>>, user[c])'
        BY <1>3, <1>9, <2>2 DEF Served, Identified
    <2>4. ~ Tenantless(c) => Vouched(c, <<"access", user[c], request[c].tenant>>, "yes")'
        BY <1>3, <1>9, <2>2 DEF Served, Granted
    <2>5. Identified(c)' /\ Granted(c)'
        BY <2>2, <2>3, <2>4 DEF Identified, Granted, Tenantless
    <2>6. Bound(c)'
        BY <1>9, <2>1, <2>2 DEF Served, Bound, Tenantless
    <2> QED  BY <1>5, <2>5, <2>6 DEF Served
<1> QED  BY <1>6, <1>7, <1>8, <1>9 DEF Waits

\* A step in which the calls that move end or begin.
LEMMA TenantFrame ==
    ASSUME TenantInv, request' = request, basis' = basis, RowsOwned', EntriesFit',
           \A c \in Calls : \/ pc'[c] = pc[c] /\ user'[c] = user[c] /\ target'[c] = target[c]
                            \/ pc'[c] \in {"done", "token", "secret"}
    PROVE  TenantInv'
BY ServedStays DEF TenantInv

LEMMA InitTenant == RequestsInit => TenantInv
<1> SUFFICES ASSUME RequestsInit PROVE TenantInv
    OBVIOUS
<1>1. RowsOwned
    BY OwnerAssumption DEF RequestsInit, RowsOwned
<1>2. EntriesFit
    BY DEF RequestsInit, EntriesFit
<1>3. \A c \in Calls : pc[c] = "arrive" /\ basis[c] = {}
    BY DEF RequestsInit
<1>4. \A c \in Calls : Served(c)
    BY <1>3 DEF Served, Identified, Granted, Bound, BasisFits
<1> QED  BY <1>1, <1>2, <1>4 DEF TenantInv

LEMMA HitTenant ==
    ASSUME WellInv, TenantInv, NEW c \in Calls, Hit(c)
    PROVE  TenantInv'
<1>1. PICK entry \in cache : entry.key = Key(c) /\ Take({c}, entry)
    BY DEF Hit
<1>2. Waits(c) /\ UNCHANGED <<rows, cache, request, target, fetched>>
    BY DEF Hit, worldVars
<1>3. RowsOwned' /\ EntriesFit'
    BY <1>2 DEF TenantInv, RowsOwned, EntriesFit, Fits
<1>4. Served(c)'
    BY <1>1, <1>2, TakeServes DEF TenantInv, EntriesFit
<1>5. \A d \in Calls \ {c} : pc'[d] = pc[d] /\ user'[d] = user[d] /\ basis'[d] = basis[d]
    BY <1>1 DEF Take
<1>6. \A d \in Calls \ {c} : Served(d)'
    BY <1>2, <1>5, ServedStays DEF TenantInv
<1> QED  BY <1>3, <1>4, <1>6 DEF TenantInv

\* What a call asks for fits the key that it is kept under.
LEMMA LoadTenant ==
    ASSUME WellInv, TenantInv, NEW c \in Calls, Load(c)
    PROVE  TenantInv'
<1>1. UNCHANGED <<rows, cache, request, target, user, pc, basis>>
    BY DEF Load, worldVars
<1>2. /\ Waits(c)
      /\ fetched' = [fetched EXCEPT ![c] = {[key |-> Key(c), about |-> Question(c),
                                             answer |-> truth[Question(c)], seen |-> now]}]
    BY DEF Load
<1>3. Fits(Key(c), Question(c))
    <2>1. CASE pc[c] = "client" /\ request[c].op # "check_credentials"
        <3>1. /\ Key(c) = <<"client", target[c].provider, target[c].id>>
              /\ Question(c) = <<"content", target[c].tenant, target[c].secret>>
            BY <1>2, <2>1, KeyOfPlace DEF Question
        <3>2. target[c].tenant = Owner[target[c].id]
            BY <2>1 DEF TenantInv, Served, Bound
        <3> QED  BY <3>1, <3>2 DEF Fits
    <2>2. CASE ~ (pc[c] = "client" /\ request[c].op # "check_credentials")
        <3>1. Question(c) = Key(c) /\ Key(c)[1] # "client"
            BY <1>2, <2>2, KeyOfPlace DEF Question
        <3> QED  BY <3>1 DEF Fits
    <2> QED  BY <2>1, <2>2
<1>4. RowsOwned'
    BY <1>1 DEF TenantInv, RowsOwned
<1>5. EntriesFit'
    <2>1. /\ \A d \in Calls \ {c} : fetched'[d] = fetched[d]
          /\ \A f \in fetched'[c] : f.key = Key(c) /\ f.about = Question(c)
        BY <1>2 DEF WellInv, PerCall
    <2> QED  BY <1>1, <1>3, <2>1 DEF TenantInv, EntriesFit, Fits
<1> QED  BY <1>1, <1>4, <1>5, TenantFrame

LEMMA InsertTenant ==
    ASSUME WellInv, TenantInv, NEW c \in Calls, Insert(c)
    PROVE  TenantInv'
<1>1. PICK f \in fetched[c], S \in Sharing(c) :
        LET entry == [key |-> f.key, about |-> f.about, answer |-> f.answer, seen |-> f.seen, at |-> now]
        IN  cache' = {e \in cache : e.key # f.key} \cup {entry} /\ Take(S, entry)
    BY DEF Insert
<1> DEFINE entry == [key |-> f.key, about |-> f.about, answer |-> f.answer, seen |-> f.seen, at |-> now]
<1>2. /\ UNCHANGED <<rows, request, target>>
      /\ fetched' = [fetched EXCEPT ![c] = {}]
    BY DEF Insert, worldVars
<1>3. /\ entry.key = Key(c) /\ entry.key = f.key /\ entry.about = f.about
      /\ Fits(f.key, f.about)
    BY DEF WellInv, OneLoader, TenantInv, EntriesFit
<1>4. Take(S, entry) /\ cache' \subseteq cache \cup {entry}
    BY <1>1
<1> HIDE DEF entry
<1>5. S \in SUBSET Calls /\ \A d \in S : Waits(d) /\ Key(d) = Key(c)
    BY SharersWait DEF WellInv
<1>6. RowsOwned'
    BY <1>2 DEF TenantInv, RowsOwned
<1>7. EntriesFit'
    <2>1. \A d \in Calls : fetched'[d] \subseteq fetched[d]
        BY <1>2 DEF WellInv, PerCall
    <2> QED  BY <1>3, <1>4, <2>1 DEF TenantInv, EntriesFit, Fits
<1>8. \A d \in S : Served(d)'
    BY <1>2, <1>3, <1>4, <1>5, TakeServes DEF TenantInv
<1>9. \A d \in Calls \ S : Served(d)'
    <2>1. \A d \in Calls \ S : pc'[d] = pc[d] /\ user'[d] = user[d] /\ basis'[d] = basis[d]
        BY <1>4 DEF Take
    <2> QED  BY <1>2, <2>1, ServedStays DEF TenantInv
<1> QED  BY <1>6, <1>7, <1>8, <1>9 DEF TenantInv

\* The handler that goes on does it with a connection of the tenant that
\* was reviewed; nobody owns a connection without a tenant.
LEMMA HandleTenant ==
    ASSUME WellInv, TenantInv, NEW c \in Calls, Handle(c)
    PROVE  TenantInv'
<1>1. pc[c] = "handle" /\ UNCHANGED <<rows, cache, request, fetched, user, basis>>
    BY DEF Handle, worldVars
<1>2. RowsOwned' /\ EntriesFit'
    BY <1>1 DEF TenantInv, RowsOwned, EntriesFit, Fits
<1>3. CASE target' = target /\ \E status \in Statuses \ {"none"} : End({c}, status)
    <2>1. \A d \in Calls : \/ pc'[d] = pc[d] /\ user'[d] = user[d] /\ target'[d] = target[d]
                           \/ pc'[d] = "done"
        BY <1>1, <1>3 DEF End
    <2> QED  BY <1>1, <1>2, <2>1, TenantFrame
<1>4. ASSUME Goto(c, "client"), NEW r, target' = [target EXCEPT ![c] = r],
             \/ r \in find_connection(c) /\ request[c].op # "check_credentials"
             \/ r \in find_type(c) /\ request[c].op = "check_credentials"
      PROVE  TenantInv'
    <2>1. /\ pc'[c] = "client" /\ target'[c] = r
          /\ \A d \in Calls \ {c} : pc'[d] = pc[d] /\ target'[d] = target[d]
        BY <1>4 DEF Goto, WellInv, PerCall
    <2>2. request[c].op # "check_credentials" =>
            r.tenant = request[c].tenant /\ r.tenant = Owner[r.id] /\ ~ Tenantless(c)
        BY <1>4 DEF TenantInv, RowsOwned, find_connection, Tenantless
    <2>3. Identified(c)' /\ Granted(c)'
        <3>1. /\ Vouched(c, <<"token", request[c].token>>, user[c])
              /\ ~ Tenantless(c) => Vouched(c, <<"access", user[c], request[c].tenant>>, "yes")
            BY <1>1 DEF TenantInv, Served, Identified, Granted
        <3> QED  BY <1>1, <3>1 DEF Identified, Granted, Vouched, Tenantless
    <2>4. Bound(c)'
        BY <1>1, <2>1, <2>2 DEF Bound, Tenantless
    <2>5. BasisFits(c)'
        BY <1>1 DEF TenantInv, Served, BasisFits
    <2>6. \A d \in Calls \ {c} : Served(d)'
        BY <1>1, <2>1, ServedStays DEF TenantInv
    <2> QED  BY <1>2, <2>3, <2>4, <2>5, <2>6 DEF TenantInv, Served
<1> QED  BY <1>3, <1>4, HandleMoves

\* The other steps of a call take it to its end, or to a cache.
LEMMA OthersTenant ==
    ASSUME WellInv, TenantInv, NEW c \in Calls,
           \/ AuthMiddleware(c) \/ validate_headers(c) \/ BuildFails(c) \/ LoadFails(c)
           \/ LookupFails(c) \/ Read(c) \/ Cancel(c)
    PROVE  TenantInv'
<1>1. UNCHANGED <<rows, cache, request, basis, target>>
    BY DEF AuthMiddleware, validate_headers, BuildFails, LoadFails, LookupFails, Read, Cancel, Drop, worldVars
<1>2. \A d \in Calls : fetched'[d] \subseteq fetched[d]
    <2>1. fetched' = fetched \/ fetched' = [fetched EXCEPT ![c] = {}]
        BY DEF AuthMiddleware, validate_headers, BuildFails, LoadFails, LookupFails, Read, Cancel, Drop
    <2> QED  BY <2>1 DEF WellInv, PerCall
<1>3. RowsOwned' /\ EntriesFit'
    BY <1>1, <1>2 DEF TenantInv, RowsOwned, EntriesFit, Fits
<1>4. \A d \in Calls : \/ pc'[d] = pc[d] /\ user'[d] = user[d]
                       \/ pc'[d] \in {"done", "token", "secret"}
    <2>1. CASE AuthMiddleware(c) \/ validate_headers(c)
        BY <2>1 DEF AuthMiddleware, validate_headers, End, Goto, WellInv, PerCall
    <2>2. CASE BuildFails(c) \/ LoadFails(c)
        BY <2>2 DEF BuildFails, LoadFails, End
    <2>3. CASE LookupFails(c) \/ Read(c) \/ Cancel(c)
        BY <2>3 DEF LookupFails, Read, Cancel, Drop, End
    <2> QED  BY <2>1, <2>2, <2>3
<1> QED  BY <1>1, <1>3, <1>4, TenantFrame

LEMMA WorldTenant ==
    ASSUME TenantInv, Tick \/ TruthChanges \/ RowChanges \/ Evict \/ UNCHANGED requestVars
    PROVE  TenantInv'
<1>1. UNCHANGED <<request, pc, user, target, fetched, basis>> /\ cache' \subseteq cache
    BY DEF Tick, TruthChanges, RowChanges, Evict, requestVars
<1>2. RowsOwned'
    <2>1. CASE RowChanges
        <3>1. PICK r \in rows : \/ rows' = rows \ {r}
                                \/ \E p, n : rows' = (rows \ {r}) \cup {[r EXCEPT !.provider = p, !.secret = n]}
            BY <2>1 DEF RowChanges
        <3> SUFFICES ASSUME NEW x \in rows'
                     PROVE  x.tenant = Owner[x.id] /\ x.tenant \notin {"absent", ""}
            BY DEF RowsOwned
        <3>2. x \in rows \/ \E p, n : x = [r EXCEPT !.provider = p, !.secret = n]
            BY <3>1
        <3>3. x \in rows \/ (x.tenant = r.tenant /\ x.id = r.id)
            <4>1. ASSUME NEW p, NEW n, x = [r EXCEPT !.provider = p, !.secret = n]
                  PROVE  x.tenant = r.tenant /\ x.id = r.id
                BY <4>1
            <4> QED  BY <3>2, <4>1
        <3> QED  BY <3>3 DEF TenantInv, RowsOwned
    <2>2. CASE ~ RowChanges
        BY <2>2 DEF Tick, TruthChanges, Evict, requestVars, worldVars, TenantInv, RowsOwned
    <2> QED  BY <2>1, <2>2
<1>3. EntriesFit'
    BY <1>1 DEF TenantInv, EntriesFit, Fits
<1> QED  BY <1>1, <1>2, <1>3, TenantFrame

LEMMA NextTenant == WellInv /\ TenantInv /\ [RequestsNext]_requestVars => TenantInv'
<1> SUFFICES ASSUME WellInv, TenantInv, [RequestsNext]_requestVars
             PROVE  TenantInv'
    OBVIOUS
<1>1. ASSUME NEW c \in Calls, Step(c) \/ Cancel(c)
      PROVE  TenantInv'
    BY <1>1, HitTenant, LoadTenant, InsertTenant, HandleTenant, OthersTenant DEF Step
<1>2. CASE Tick \/ TruthChanges \/ RowChanges \/ Evict \/ UNCHANGED requestVars
    BY <1>2, WorldTenant
<1> QED  BY <1>1, <1>2 DEF RequestsNext

\* A request that reads does it for a granted tenant, on a connection of
\* that tenant and with a client of that tenant's secret, although the
\* client cache is keyed by the connection's id alone (AuthMiddleware::call,
\* get_connector_by_connection_id, get_reader).
THEOREM RequestsServedWithinTenant == RequestsSpec => []ServedWithinTenant
<1>1. RequestsInit => WellInv /\ TenantInv  BY InitWell, InitTenant
<1>2. WellInv /\ TenantInv /\ [RequestsNext]_requestVars => (WellInv /\ TenantInv)'
    BY NextWell, NextTenant
<1>3. WellInv /\ TenantInv => ServedWithinTenant  BY TenantInvServes
<1> QED  BY <1>1, <1>2, <1>3, PTL DEF RequestsSpec

-----------------------------------------------------------------------------

(***************************************************************************)
(* The accept loop of tls_incoming.                                        *)
(***************************************************************************)
Queued == {c \in Clients : conn[c] = "queued"}

\* A stream is in the channel once: what lets Receive take it from there.
Distinct == \A i, j \in 1 .. Len(channel) : channel[i] = channel[j] => i = j

PermitCount == permits + Cardinality(Tasks) = Permits
ChannelFits == Len(channel) <= Capacity /\ Len(channel) = Cardinality(Queued)
ChannelHolds == {channel[i] : i \in 1 .. Len(channel)} = Queued

TlsInv == TlsTypeOK /\ PermitCount /\ ChannelFits /\ ChannelHolds /\ Distinct

\* Tasks and streams in the channel are finitely many.
LEMMA Finite ==
    /\ IsFiniteSet(Tasks) /\ Cardinality(Tasks) \in Nat
    /\ IsFiniteSet(Queued) /\ Cardinality(Queued) \in Nat
<1>1. Tasks \subseteq Clients /\ Queued \subseteq Clients
    BY DEF Tasks, Queued
<1> QED
    BY <1>1, TlsAssumption, FS_Subset, FS_CardinalityType DEF TlsAssumption

\* Steps that leave permits, tasks and the channel as they are.
LEMMA KeepsAccounts ==
    ASSUME TlsInv, TlsTypeOK', permits' = permits, channel' = channel,
           Tasks' = Tasks, Queued' = Queued
    PROVE  TlsInv'
<1> QED
    BY DEF TlsInv, PermitCount, ChannelFits, ChannelHolds, Distinct

\* The server starts with no task and an empty channel (tls_incoming).
LEMMA TlsStart == TlsInit => TlsInv
<1> SUFFICES ASSUME TlsInit PROVE TlsInv
    OBVIOUS
<1>1. TlsTypeOK
    BY TlsAssumption DEF TlsInit, TlsTypeOK, ConnPlaces, TlsAssumption
<1>2. Tasks = {} /\ Queued = {} /\ Len(channel) = 0
    BY DEF TlsInit, Tasks, Queued
<1>3. Cardinality({}) = 0
    BY FS_EmptySet
<1> QED
    BY <1>1, <1>2, <1>3, TlsAssumption
    DEF TlsInit, TlsInv, PermitCount, ChannelFits, ChannelHolds, Distinct, TlsAssumption

\* Accept: a permit becomes a task, or the connection is dropped.
LEMMA AcceptKeeps == ASSUME TlsInv, NEW c \in Clients, Accept(c) PROVE TlsInv'
<1> USE TlsAssumption DEF TlsAssumption
<1>1. CASE permits > 0
    <2>1. conn' = [conn EXCEPT ![c] = "handshake"] /\ permits' = permits - 1
          /\ UNCHANGED <<loop, channel, open>> /\ conn[c] = "pending"
        BY <1>1 DEF Accept, Move
    <2>2. Tasks' = Tasks \cup {c} /\ c \notin Tasks /\ Queued' = Queued
        BY <2>1 DEF Tasks, Queued, TlsInv, TlsTypeOK
    <2>3. Cardinality(Tasks') = Cardinality(Tasks) + 1
        BY <2>2, Finite, FS_AddElement
    <2>4. TlsTypeOK'
        BY <2>1, <1>1 DEF TlsInv, TlsTypeOK, ConnPlaces
    <2> QED
        BY <2>1, <2>2, <2>3, <2>4, Finite
        DEF TlsInv, TlsTypeOK, PermitCount, ChannelFits, ChannelHolds, Distinct
<1>2. CASE ~ (permits > 0)
    <2>1. conn' = [conn EXCEPT ![c] = "dropped"]
          /\ UNCHANGED <<permits, loop, channel, open>> /\ conn[c] = "pending"
        BY <1>2 DEF Accept, Move
    <2>2. Tasks' = Tasks /\ Queued' = Queued
        BY <2>1 DEF Tasks, Queued, TlsInv, TlsTypeOK
    <2>3. TlsTypeOK'
        BY <2>1 DEF TlsInv, TlsTypeOK, ConnPlaces
    <2> QED
        BY <2>1, <2>2, <2>3, KeepsAccounts
<1> QED
    BY <1>1, <1>2

\* A task that ends gives its permit back (the drop of the permit at the
\* end of the spawned handshake).
LEMMA PermitReturns ==
    ASSUME TlsInv, NEW c \in Tasks, Tasks' = Tasks \ {c}, permits' = permits + 1
    PROVE  PermitCount' /\ permits' \in 0 .. Permits
<1>1. Cardinality(Tasks') = Cardinality(Tasks) - 1
    BY Finite, FS_RemoveElement
<1>2. Cardinality(Tasks) \in Nat /\ Cardinality(Tasks') \in Nat
    BY Finite, FS_RemoveElement, FS_CardinalityType
<1> QED
    BY <1>1, <1>2, TlsAssumption DEF TlsInv, TlsTypeOK, PermitCount, TlsAssumption

LEMMA HandshakeKeeps ==
    ASSUME TlsInv, NEW c \in Clients, HandshakeSucceeds(c) \/ HandshakeEnds(c)
    PROVE  TlsInv'
<1>1. CASE HandshakeSucceeds(c)
    <2>1. conn' = [conn EXCEPT ![c] = "sending"] /\ UNCHANGED <<loop, permits, channel, open>>
          /\ conn[c] = "handshake"
        BY <1>1 DEF HandshakeSucceeds, Move
    <2>2. Tasks' = Tasks /\ Queued' = Queued
        BY <2>1 DEF Tasks, Queued, TlsInv, TlsTypeOK
    <2>3. TlsTypeOK'
        BY <2>1 DEF TlsInv, TlsTypeOK, ConnPlaces
    <2> QED
        BY <2>1, <2>2, <2>3, KeepsAccounts
<1>2. CASE HandshakeEnds(c)
    <2>1. conn' = [conn EXCEPT ![c] = "failed"] /\ permits' = permits + 1
          /\ UNCHANGED <<loop, channel, open>> /\ conn[c] = "handshake"
        BY <1>2 DEF HandshakeEnds, Move
    <2>2. c \in Tasks /\ Tasks' = Tasks \ {c} /\ Queued' = Queued
        BY <2>1 DEF Tasks, Queued, TlsInv, TlsTypeOK
    <2>3. PermitCount' /\ permits' \in 0 .. Permits
        BY <2>1, <2>2, PermitReturns
    <2> QED
        BY <2>1, <2>2, <2>3
        DEF TlsInv, TlsTypeOK, ConnPlaces, ChannelFits, ChannelHolds, Distinct
<1> QED
    BY <1>1, <1>2

\* tx.send: the stream joins the channel and the permit comes back.
LEMMA SendKeeps == ASSUME TlsInv, NEW c \in Clients, Send(c) PROVE TlsInv'
<1>1. conn[c] = "sending" /\ permits' = permits + 1 /\ UNCHANGED <<loop, open>>
    BY DEF Send
<1>2. CASE open /\ Len(channel) < Capacity /\ Move(c, "queued") /\ channel' = Append(channel, c)
    <2>1. conn' = [conn EXCEPT ![c] = "queued"]
        BY <1>2 DEF Move
    <2>2. c \in Tasks /\ Tasks' = Tasks \ {c} /\ c \notin Queued /\ Queued' = Queued \cup {c}
        BY <1>1, <2>1 DEF Tasks, Queued, TlsInv, TlsTypeOK
    <2>3. PermitCount' /\ permits' \in 0 .. Permits
        BY <1>1, <2>2, PermitReturns
    <2>4. /\ channel' \in Seq(Clients)
          /\ Len(channel') = Len(channel) + 1
          /\ channel'[Len(channel) + 1] = c
          /\ \A i \in 1 .. Len(channel) : channel'[i] = channel[i]
        BY <1>2 DEF TlsInv, TlsTypeOK
    <2>5. Len(channel) \in Nat
        BY DEF TlsInv, TlsTypeOK
    <2>6. 1 .. Len(channel') = 1 .. Len(channel) \cup {Len(channel) + 1}
        BY <2>4, <2>5
    <2>7. ChannelHolds'
        BY <2>2, <2>4, <2>5, <2>6 DEF ChannelHolds, TlsInv
    <2>8. Distinct'
        <3> SUFFICES ASSUME NEW i \in 1 .. Len(channel'), NEW j \in 1 .. Len(channel'),
                            channel'[i] = channel'[j]
                     PROVE  i = j
            BY DEF Distinct
        <3>1. \A k \in 1 .. Len(channel) : channel[k] # c
            BY <2>2 DEF TlsInv, ChannelHolds
        <3> QED
            BY <2>4, <2>6, <3>1 DEF TlsInv, Distinct
    <2>9. Cardinality(Queued') = Cardinality(Queued) + 1
        BY <2>2, Finite, FS_AddElement
    <2>10. ChannelFits'
        BY <1>2, <2>4, <2>5, <2>9, TlsAssumption DEF TlsInv, ChannelFits, TlsAssumption
    <2>11. TlsTypeOK'
        BY <1>1, <2>1, <2>3, <2>4 DEF TlsInv, TlsTypeOK, ConnPlaces
    <2> QED
        BY <2>3, <2>7, <2>8, <2>10, <2>11 DEF TlsInv
<1>3. CASE ~ open /\ Move(c, "discarded") /\ UNCHANGED channel
    <2>1. conn' = [conn EXCEPT ![c] = "discarded"]
        BY <1>3 DEF Move
    <2>2. c \in Tasks /\ Tasks' = Tasks \ {c} /\ Queued' = Queued
        BY <1>1, <2>1 DEF Tasks, Queued, TlsInv, TlsTypeOK
    <2>3. PermitCount' /\ permits' \in 0 .. Permits
        BY <1>1, <2>2, PermitReturns
    <2> QED
        BY <1>1, <1>3, <2>1, <2>2, <2>3
        DEF TlsInv, TlsTypeOK, ConnPlaces, ChannelFits, ChannelHolds, Distinct
<1> QED
    BY <1>2, <1>3 DEF Send

\* The server takes the first stream of the channel.
LEMMA ReceiveKeeps == ASSUME TlsInv, Receive PROVE TlsInv'
<1> DEFINE c == Head(channel)
<1>1. channel \in Seq(Clients) /\ channel # <<>> /\ Len(channel) \in Nat
    BY DEF TlsInv, TlsTypeOK, Receive
<1>2. c = channel[1] /\ 1 \in 1 .. Len(channel) /\ c \in Clients
    BY <1>1
<1>3. /\ channel' \in Seq(Clients)
      /\ Len(channel') = Len(channel) - 1
      /\ \A i \in 1 .. Len(channel') : channel'[i] = channel[i + 1]
    BY <1>1 DEF Receive
<1>4. c \in Queued
    BY <1>2 DEF TlsInv, ChannelHolds
<1>5. conn' = [conn EXCEPT ![c] = "served"] /\ UNCHANGED <<loop, permits, open>>
    BY DEF Receive, Move
<1>6. Queued' = Queued \ {c} /\ Tasks' = Tasks
    BY <1>4, <1>5 DEF Queued, Tasks, TlsInv, TlsTypeOK
<1>7. Cardinality(Queued') = Cardinality(Queued) - 1
    BY <1>4, <1>6, Finite, FS_RemoveElement
<1>8. ChannelFits'
    BY <1>1, <1>3, <1>7, Finite, TlsAssumption DEF TlsInv, ChannelFits, TlsAssumption
<1>9. Distinct'
    <2> SUFFICES ASSUME NEW i \in 1 .. Len(channel'), NEW j \in 1 .. Len(channel'),
                        channel'[i] = channel'[j]
                 PROVE  i = j
        BY DEF Distinct
    <2>1. i + 1 \in 1 .. Len(channel) /\ j + 1 \in 1 .. Len(channel)
        BY <1>1, <1>3
    <2>2. channel[i + 1] = channel[j + 1]
        BY <1>3
    <2>3. i + 1 = j + 1
        BY <2>1, <2>2 DEF TlsInv, Distinct
    <2> QED
        BY <2>3
<1>10. ChannelHolds'
    <2>1. ASSUME NEW i \in 1 .. Len(channel') PROVE channel'[i] \in Queued'
        <3>1. i + 1 \in 1 .. Len(channel) /\ i + 1 # 1
            BY <1>1, <1>3
        <3>2. channel[i + 1] \in Queued /\ channel[i + 1] # c
            BY <3>1, <1>2 DEF TlsInv, ChannelHolds, Distinct
        <3> QED
            BY <3>2, <1>3, <1>6
    <2>2. ASSUME NEW d \in Queued' PROVE \E i \in 1 .. Len(channel') : channel'[i] = d
        <3>1. d \in Queued /\ d # c
            BY <1>6
        <3>2. PICK k \in 1 .. Len(channel) : channel[k] = d
            BY <3>1 DEF TlsInv, ChannelHolds
        <3>3. k # 1
            BY <3>1, <3>2, <1>2
        <3>4. k - 1 \in 1 .. Len(channel') /\ (k - 1) + 1 = k
            BY <3>3, <1>1, <1>3
        <3>5. channel'[k - 1] = d
            BY <3>4, <3>2, <1>3
        <3> QED
            BY <3>4, <3>5
    <2> QED
        BY <2>1, <2>2 DEF ChannelHolds
<1>11. TlsTypeOK'
    BY <1>2, <1>3, <1>5 DEF TlsInv, TlsTypeOK, ConnPlaces
<1> QED
    BY <1>5, <1>6, <1>8, <1>9, <1>10, <1>11 DEF TlsInv, PermitCount

\* The server drops the channel, with the streams in it.
LEMMA ShutdownKeeps == ASSUME TlsInv, Shutdown PROVE TlsInv'
<1>1. /\ conn' = [c \in Clients |-> IF conn[c] = "queued" THEN "discarded" ELSE conn[c]]
      /\ channel' = <<>> /\ Len(channel') = 0
      /\ UNCHANGED <<loop, permits>> /\ open' = FALSE
    BY DEF Shutdown
<1>2. Queued' = {} /\ Tasks' = Tasks
    BY <1>1 DEF Queued, Tasks
<1>3. Cardinality({}) = 0
    BY FS_EmptySet
<1>4. TlsTypeOK'
    <2>1. conn' \in [Clients -> ConnPlaces] /\ channel' \in Seq(Clients)
        BY <1>1 DEF TlsInv, TlsTypeOK, ConnPlaces
    <2>2. open' \in BOOLEAN
        BY <1>1, Zenon
    <2> QED
        BY <1>1, <2>1, <2>2 DEF TlsInv, TlsTypeOK
<1> QED
    BY <1>1, <1>2, <1>3, <1>4, TlsAssumption
    DEF TlsInv, PermitCount, ChannelFits, ChannelHolds, Distinct, TlsAssumption

\* A client that connects, and the accept task by itself.
LEMMA OthersKeepPlace ==
    ASSUME TlsInv, (\E c \in Clients : Connect(c)) \/ AcceptError \/ Backoff \/ LoopEnds
    PROVE  TlsInv'
<1>1. ASSUME NEW c \in Clients, Connect(c) PROVE TlsInv'
    <2>1. conn' = [conn EXCEPT ![c] = "pending"] /\ UNCHANGED <<loop, permits, channel, open>>
          /\ conn[c] = "away"
        BY <1>1 DEF Connect, Move
    <2>2. Tasks' = Tasks /\ Queued' = Queued
        BY <2>1 DEF Tasks, Queued, TlsInv, TlsTypeOK
    <2>3. TlsTypeOK'
        BY <2>1 DEF TlsInv, TlsTypeOK, ConnPlaces
    <2> QED
        BY <2>1, <2>2, <2>3, KeepsAccounts
<1>2. CASE AcceptError \/ Backoff
    <2>1. UNCHANGED <<conn, permits, channel, open>> /\ loop' \in {"select", "backoff"}
        BY <1>2 DEF AcceptError, Backoff
    <2>2. Tasks' = Tasks /\ Queued' = Queued /\ TlsTypeOK'
        BY <2>1 DEF Tasks, Queued, TlsInv, TlsTypeOK
    <2> QED
        BY <2>1, <2>2, KeepsAccounts
<1>3. CASE LoopEnds
    <2>1. /\ conn' = [c \in Clients |-> IF conn[c] = "pending" THEN "refused" ELSE conn[c]]
          /\ loop' = "ended" /\ UNCHANGED <<permits, channel, open>>
        BY <1>3 DEF LoopEnds
    <2>2. Tasks' = Tasks /\ Queued' = Queued /\ TlsTypeOK'
        BY <2>1 DEF Tasks, Queued, TlsInv, TlsTypeOK, ConnPlaces
    <2> QED
        BY <2>1, <2>2, KeepsAccounts
<1> QED
    BY <1>1, <1>2, <1>3

LEMMA TlsStep == TlsInv /\ [TlsNext]_tlsVars => TlsInv'
<1> SUFFICES ASSUME TlsInv, [TlsNext]_tlsVars PROVE TlsInv'
    OBVIOUS
<1>1. CASE UNCHANGED tlsVars
    <2>1. Tasks' = Tasks /\ Queued' = Queued /\ TlsTypeOK'
        BY <1>1 DEF tlsVars, Tasks, Queued, TlsInv, TlsTypeOK
    <2> QED
        BY <1>1, <2>1, KeepsAccounts DEF tlsVars
<1>2. CASE TlsNext
    BY <1>2, AcceptKeeps, HandshakeKeeps, SendKeeps, ReceiveKeeps, ShutdownKeeps, OthersKeepPlace
    DEF TlsNext
<1> QED
    BY <1>1, <1>2

LEMMA TlsAlways == TlsSpec => []TlsInv
<1> QED
    BY TlsStart, TlsStep, PTL DEF TlsSpec

\* The state of the accept loop is well formed, and permits stay within
\* the semaphore (tls_incoming).
THEOREM TlsTypeCorrect == TlsSpec => []TlsTypeOK
<1>1. TlsInv => TlsTypeOK
    BY DEF TlsInv
<1> QED
    BY <1>1, TlsAlways, PTL

\* Every permit is in the semaphore or with one task, and the channel holds
\* the finished handshakes once each and no more than its size, for any
\* number of clients and any way their handshakes end (tls_incoming).
THEOREM AccountsBalance == TlsSpec => []PermitsAccounted
<1>1. TlsInv => PermitsAccounted
    BY DEF TlsInv, PermitCount, ChannelFits, ChannelHolds, Queued, PermitsAccounted
<1> QED
    BY <1>1, TlsAlways, PTL

=============================================================================
