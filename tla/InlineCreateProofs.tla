------------------------- MODULE InlineCreateProofs -------------------------
(***************************************************************************)
(* Proofs that inline creation keeps secrets and connections together, for *)
(* any number of requests, names and secrets.  The two invariants are not  *)
(* inductive: a compensation deletes a secret by name, and is harmless     *)
(* only because the handler about to run it still owns that secret, unless *)
(* an export or a user of the cluster has touched it.                      *)
(***************************************************************************)
EXTENDS InlineCreate, TLAPS

\* A handler past its start has a request, one of the kind its place belongs to.
PlacesFit ==
    \A h \in Handlers :
        /\ pc[h] # "idle" => req[h] \in Request
        /\ pc[h] \in {"type", "secret", "compensate"} => req[h].op = "inline"

\* Between creating its secret and ending, an inline request owns the secret.
Holding ==
    \A h \in Handlers :
        /\ pc[h] \in {"row", "compensate"}
        /\ req[h].op = "inline"
        /\ req[h].secret \notin touched
        => secrets[req[h].secret] = h

\* A secret with a handler's credentials was made by that handler's inline request.
SecretsFit ==
    \A s \in SecretNames, h \in Handlers : secrets[s] = h =>
        /\ pc[h] \in {"row", "compensate", "done"}
        /\ req[h].op = "inline"
        /\ req[h].secret = s

\* A row was made by a request that is over, or that is told it failed.
RowsFit ==
    \A n \in Names : rows[n] # Null =>
        /\ pc[rows[n].by] \in {"compensate", "done"}
        /\ pc[rows[n].by] = "compensate" => rows[n].by \in lost
        /\ rows[n].secret = req[rows[n].by].secret

IInv ==
    /\ InlineTypeOK
    /\ PlacesFit
    /\ Holding
    /\ SecretsFit
    /\ RowsFit
    /\ RowsHaveSecrets
    /\ NothingLeft

(***************************************************************************)
(* The strengthened invariant holds when the service starts: nothing is    *)
(* stored and no handler has a request.                                    *)
(***************************************************************************)
LEMMA InitIInv == InlineInit => IInv
BY InlineAssumption DEF InlineInit, IInv, InlineTypeOK, PlacesFit, Holding, SecretsFit,
   RowsFit,
   RowsHaveSecrets, NothingLeft, Places, Answers

(***************************************************************************)
(* Every step of a handler, failures and crashes included, and a user's    *)
(* deletion of a secret keep the strengthened invariant.                   *)
(***************************************************************************)
LEMMA NextIInv == IInv /\ [InlineNext]_inlineVars => IInv'
<1> SUFFICES ASSUME IInv, [InlineNext]_inlineVars PROVE IInv'
  OBVIOUS
<1> USE InlineAssumption DEF IInv
<1>1. ASSUME NEW h \in Handlers, NEW r \in Requests, Begin(h, r) PROVE IInv'
  <2>0. r \in Request
    OBVIOUS
  <2>1. InlineTypeOK'
    BY <1>1, <2>0 DEF Begin, First, Goto, InlineTypeOK, PlacesFit, Places, Answers,
       Request, Row
  <2>2. PlacesFit'
    BY <1>1, <2>0 DEF Begin, First, Goto, InlineTypeOK, PlacesFit, Request
  <2>3. Holding'
    BY <1>1, <2>0 DEF Begin, First, Goto, InlineTypeOK, PlacesFit, Holding, SecretsFit,
       Request
  <2>4. SecretsFit'
    BY <1>1, <2>0 DEF Begin, First, Goto, InlineTypeOK, PlacesFit, Holding, SecretsFit,
       Request
  <2>5. RowsFit'
    BY <1>1, <2>0 DEF Begin, First, Goto, InlineTypeOK, PlacesFit, RowsFit, Request, Row
  <2>6. RowsHaveSecrets'
    BY <1>1, <2>0 DEF Begin, First, Goto, InlineTypeOK, PlacesFit, Holding, SecretsFit,
       RowsFit, RowsHaveSecrets, Request, Row
  <2>7. NothingLeft'
    BY <1>1, <2>0 DEF Begin, First, Goto, InlineTypeOK, PlacesFit, SecretsFit,
       NothingLeft, Request, Row
  <2> QED
    BY <2>1, <2>2, <2>3, <2>4, <2>5, <2>6, <2>7
<1>2. ASSUME NEW h \in Handlers, GetType(h) PROVE IInv'
  <2>1. InlineTypeOK'
    BY <1>2 DEF GetType, Goto, InlineTypeOK, PlacesFit, Places, Answers, Request, Row
  <2>2. PlacesFit'
    BY <1>2 DEF GetType, Goto, InlineTypeOK, PlacesFit, Request
  <2>3. Holding'
    BY <1>2 DEF GetType, Goto, InlineTypeOK, PlacesFit, Holding, SecretsFit, Request
  <2>4. SecretsFit'
    BY <1>2 DEF GetType, Goto, InlineTypeOK, PlacesFit, Holding, SecretsFit, Request
  <2>5. RowsFit'
    BY <1>2 DEF GetType, Goto, InlineTypeOK, PlacesFit, RowsFit, Request, Row
  <2>6. RowsHaveSecrets'
    BY <1>2 DEF GetType, Goto, InlineTypeOK, PlacesFit, Holding, SecretsFit, RowsFit,
       RowsHaveSecrets, Request, Row
  <2>7. NothingLeft'
    BY <1>2 DEF GetType, Goto, InlineTypeOK, PlacesFit, SecretsFit, NothingLeft,
       Request, Row
  <2> QED
    BY <2>1, <2>2, <2>3, <2>4, <2>5, <2>6, <2>7
<1>3. ASSUME NEW h \in Handlers, CreateSecret(h) PROVE IInv'
  <2>1. InlineTypeOK'
    BY <1>3 DEF CreateSecret, Goto, Answer, InlineTypeOK, PlacesFit, Places, Answers,
       Request, Row
  <2>2. PlacesFit'
    BY <1>3 DEF CreateSecret, Goto, Answer, InlineTypeOK, PlacesFit, Request
  <2>3. Holding'
    BY <1>3 DEF CreateSecret, Goto, Answer, InlineTypeOK, PlacesFit, Holding,
       SecretsFit, Request
  <2>4. SecretsFit'
    BY <1>3 DEF CreateSecret, Goto, Answer, InlineTypeOK, PlacesFit, Holding,
       SecretsFit, Request
  <2>5. RowsFit'
    BY <1>3 DEF CreateSecret, Goto, Answer, InlineTypeOK, PlacesFit, RowsFit, Request, Row
  <2>6. RowsHaveSecrets'
    BY <1>3 DEF CreateSecret, Goto, Answer, InlineTypeOK, PlacesFit, Holding,
       SecretsFit, RowsFit, RowsHaveSecrets, Request, Row
  <2>7. NothingLeft'
    BY <1>3 DEF CreateSecret, Goto, Answer, InlineTypeOK, PlacesFit, SecretsFit,
       NothingLeft, Request, Row
  <2> QED
    BY <2>1, <2>2, <2>3, <2>4, <2>5, <2>6, <2>7
<1>4. ASSUME NEW h \in Handlers, CreateRow(h) PROVE IInv'
  <2>1. InlineTypeOK'
    BY <1>4 DEF CreateRow, RowFails, Stored, Goto, Answer, InlineTypeOK, PlacesFit,
       Places, Answers, Request, Row
  <2>2. PlacesFit'
    BY <1>4 DEF CreateRow, RowFails, Stored, Goto, Answer, InlineTypeOK, PlacesFit,
       Request
  <2>3. Holding'
    BY <1>4 DEF CreateRow, RowFails, Stored, Goto, Answer, InlineTypeOK, PlacesFit,
       Holding, SecretsFit, Request
  <2>4. SecretsFit'
    BY <1>4 DEF CreateRow, RowFails, Stored, Goto, Answer, InlineTypeOK, PlacesFit,
       Holding, SecretsFit, Request
  <2>5. RowsFit'
    BY <1>4 DEF CreateRow, RowFails, Stored, Goto, Answer, InlineTypeOK, PlacesFit,
       RowsFit, Request, Row
  <2>6. RowsHaveSecrets'
    BY <1>4 DEF CreateRow, RowFails, Stored, Goto, Answer, InlineTypeOK, PlacesFit,
       Holding, SecretsFit, RowsFit, RowsHaveSecrets, Request, Row
  <2>7. NothingLeft'
    BY <1>4 DEF CreateRow, RowFails, Stored, Goto, Answer, InlineTypeOK, PlacesFit,
       SecretsFit, NothingLeft, Request, Row
  <2> QED
    BY <2>1, <2>2, <2>3, <2>4, <2>5, <2>6, <2>7
<1>5. ASSUME NEW h \in Handlers, Compensate(h) PROVE IInv'
  <2>1. InlineTypeOK'
    BY <1>5 DEF Compensate, Answer, InlineTypeOK, PlacesFit, Places, Answers, Request, Row
  <2>2. PlacesFit'
    BY <1>5 DEF Compensate, Answer, InlineTypeOK, PlacesFit, Request
  <2>3. Holding'
    BY <1>5 DEF Compensate, Answer, InlineTypeOK, PlacesFit, Holding, SecretsFit, Request
  <2>4. SecretsFit'
    BY <1>5 DEF Compensate, Answer, InlineTypeOK, PlacesFit, Holding, SecretsFit, Request
  <2>5. RowsFit'
    BY <1>5 DEF Compensate, Answer, InlineTypeOK, PlacesFit, RowsFit, Request, Row
  <2>6. RowsHaveSecrets'
    BY <1>5 DEF Compensate, Answer, InlineTypeOK, PlacesFit, Holding, SecretsFit,
       RowsFit, RowsHaveSecrets, Request, Row
  <2>7. NothingLeft'
    BY <1>5 DEF Compensate, Answer, InlineTypeOK, PlacesFit, SecretsFit, NothingLeft,
       Request, Row
  <2> QED
    BY <2>1, <2>2, <2>3, <2>4, <2>5, <2>6, <2>7
<1>6. ASSUME NEW h \in Handlers, DeleteConnection(h) PROVE IInv'
  <2>1. InlineTypeOK'
    BY <1>6 DEF DeleteConnection, Answer, InlineTypeOK, PlacesFit, Places, Answers,
       Request, Row
  <2>2. PlacesFit'
    BY <1>6 DEF DeleteConnection, Answer, InlineTypeOK, PlacesFit, Request
  <2>3. Holding'
    BY <1>6 DEF DeleteConnection, Answer, InlineTypeOK, PlacesFit, Holding, SecretsFit,
       Request
  <2>4. SecretsFit'
    BY <1>6 DEF DeleteConnection, Answer, InlineTypeOK, PlacesFit, Holding, SecretsFit,
       Request
  <2>5. RowsFit'
    BY <1>6 DEF DeleteConnection, Answer, InlineTypeOK, PlacesFit, RowsFit, Request, Row
  <2>6. RowsHaveSecrets'
    BY <1>6 DEF DeleteConnection, Answer, InlineTypeOK, PlacesFit, Holding, SecretsFit,
       RowsFit, RowsHaveSecrets, Request, Row
  <2>7. NothingLeft'
    BY <1>6 DEF DeleteConnection, Answer, InlineTypeOK, PlacesFit, SecretsFit,
       NothingLeft, Request, Row
  <2> QED
    BY <2>1, <2>2, <2>3, <2>4, <2>5, <2>6, <2>7
<1>7. ASSUME NEW h \in Handlers, ReadForExport(h) PROVE IInv'
  <2>1. InlineTypeOK'
    BY <1>7 DEF ReadForExport, Goto, Answer, InlineTypeOK, PlacesFit, Places, Answers,
       Request, Row
  <2>2. PlacesFit'
    BY <1>7 DEF ReadForExport, Goto, Answer, InlineTypeOK, PlacesFit, Request
  <2>3. Holding'
    BY <1>7 DEF ReadForExport, Goto, Answer, InlineTypeOK, PlacesFit, Holding,
       SecretsFit, Request
  <2>4. SecretsFit'
    BY <1>7 DEF ReadForExport, Goto, Answer, InlineTypeOK, PlacesFit, Holding,
       SecretsFit, Request
  <2>5. RowsFit'
    BY <1>7 DEF ReadForExport, Goto, Answer, InlineTypeOK, PlacesFit, RowsFit, Request,
       Row
  <2>6. RowsHaveSecrets'
    BY <1>7 DEF ReadForExport, Goto, Answer, InlineTypeOK, PlacesFit, Holding,
       SecretsFit, RowsFit, RowsHaveSecrets, Request, Row
  <2>7. NothingLeft'
    BY <1>7 DEF ReadForExport, Goto, Answer, InlineTypeOK, PlacesFit, SecretsFit,
       NothingLeft, Request, Row
  <2> QED
    BY <2>1, <2>2, <2>3, <2>4, <2>5, <2>6, <2>7
<1>8. ASSUME NEW h \in Handlers, ApplyExport(h) PROVE IInv'
  <2>1. InlineTypeOK'
    BY <1>8 DEF ApplyExport, Answer, InlineTypeOK, PlacesFit, Places, Answers, Request,
       Row
  <2>2. PlacesFit'
    BY <1>8 DEF ApplyExport, Answer, InlineTypeOK, PlacesFit, Request
  <2>3. Holding'
    BY <1>8 DEF ApplyExport, Answer, InlineTypeOK, PlacesFit, Holding, SecretsFit, Request
  <2>4. SecretsFit'
    BY <1>8 DEF ApplyExport, Answer, InlineTypeOK, PlacesFit, Holding, SecretsFit, Request
  <2>5. RowsFit'
    BY <1>8 DEF ApplyExport, Answer, InlineTypeOK, PlacesFit, RowsFit, Request, Row
  <2>6. RowsHaveSecrets'
    BY <1>8 DEF ApplyExport, Answer, InlineTypeOK, PlacesFit, Holding, SecretsFit,
       RowsFit, RowsHaveSecrets, Request, Row
  <2>7. NothingLeft'
    BY <1>8 DEF ApplyExport, Answer, InlineTypeOK, PlacesFit, SecretsFit, NothingLeft,
       Request, Row
  <2> QED
    BY <2>1, <2>2, <2>3, <2>4, <2>5, <2>6, <2>7
<1>9. ASSUME NEW h \in Handlers, Refused(h) PROVE IInv'
  <2>1. InlineTypeOK'
    BY <1>9 DEF Refused, Answer, InlineTypeOK, PlacesFit, Places, Answers, Request, Row
  <2>2. PlacesFit'
    BY <1>9 DEF Refused, Answer, InlineTypeOK, PlacesFit, Request
  <2>3. Holding'
    BY <1>9 DEF Refused, Answer, InlineTypeOK, PlacesFit, Holding, SecretsFit, Request
  <2>4. SecretsFit'
    BY <1>9 DEF Refused, Answer, InlineTypeOK, PlacesFit, Holding, SecretsFit, Request
  <2>5. RowsFit'
    BY <1>9 DEF Refused, Answer, InlineTypeOK, PlacesFit, RowsFit, Request, Row
  <2>6. RowsHaveSecrets'
    BY <1>9 DEF Refused, Answer, InlineTypeOK, PlacesFit, Holding, SecretsFit, RowsFit,
       RowsHaveSecrets, Request, Row
  <2>7. NothingLeft'
    BY <1>9 DEF Refused, Answer, InlineTypeOK, PlacesFit, SecretsFit, NothingLeft,
       Request, Row
  <2> QED
    BY <2>1, <2>2, <2>3, <2>4, <2>5, <2>6, <2>7
<1>10. ASSUME NEW h \in Handlers, LostCreateSecret(h) PROVE IInv'
  <2>1. InlineTypeOK'
    BY <1>10 DEF LostCreateSecret, Fault, Answer, InlineTypeOK, PlacesFit, Places,
       Answers, Request, Row
  <2>2. PlacesFit'
    BY <1>10 DEF LostCreateSecret, Fault, Answer, InlineTypeOK, PlacesFit, Request
  <2>3. Holding'
    BY <1>10 DEF LostCreateSecret, Fault, Answer, InlineTypeOK, PlacesFit, Holding,
       SecretsFit, Request
  <2>4. SecretsFit'
    BY <1>10 DEF LostCreateSecret, Fault, Answer, InlineTypeOK, PlacesFit, Holding,
       SecretsFit, Request
  <2>5. RowsFit'
    BY <1>10 DEF LostCreateSecret, Fault, Answer, InlineTypeOK, PlacesFit, RowsFit,
       Request, Row
  <2>6. RowsHaveSecrets'
    BY <1>10 DEF LostCreateSecret, Fault, Answer, InlineTypeOK, PlacesFit, Holding,
       SecretsFit, RowsFit, RowsHaveSecrets, Request, Row
  <2>7. NothingLeft'
    BY <1>10 DEF LostCreateSecret, Fault, Answer, InlineTypeOK, PlacesFit, SecretsFit,
       NothingLeft, Request, Row
  <2> QED
    BY <2>1, <2>2, <2>3, <2>4, <2>5, <2>6, <2>7
<1>11. ASSUME NEW h \in Handlers, LostCommit(h) PROVE IInv'
  <2>1. InlineTypeOK'
    BY <1>11 DEF LostCommit, Fault, RowFails, Stored, Goto, Answer, InlineTypeOK,
       PlacesFit, Places, Answers, Request, Row
  <2>2. PlacesFit'
    BY <1>11 DEF LostCommit, Fault, RowFails, Stored, Goto, Answer, InlineTypeOK,
       PlacesFit, Request
  <2>3. Holding'
    BY <1>11 DEF LostCommit, Fault, RowFails, Stored, Goto, Answer, InlineTypeOK,
       PlacesFit, Holding, SecretsFit, Request
  <2>4. SecretsFit'
    BY <1>11 DEF LostCommit, Fault, RowFails, Stored, Goto, Answer, InlineTypeOK,
       PlacesFit, Holding, SecretsFit, Request
  <2>5. RowsFit'
    BY <1>11 DEF LostCommit, Fault, RowFails, Stored, Goto, Answer, InlineTypeOK,
       PlacesFit, RowsFit, Request, Row
  <2>6. RowsHaveSecrets'
    BY <1>11 DEF LostCommit, Fault, RowFails, Stored, Goto, Answer, InlineTypeOK,
       PlacesFit, Holding, SecretsFit, RowsFit, RowsHaveSecrets, Request, Row
  <2>7. NothingLeft'
    BY <1>11 DEF LostCommit, Fault, RowFails, Stored, Goto, Answer, InlineTypeOK,
       PlacesFit, SecretsFit, NothingLeft, Request, Row
  <2> QED
    BY <2>1, <2>2, <2>3, <2>4, <2>5, <2>6, <2>7
<1>12. ASSUME NEW h \in Handlers, CompensationFails(h) PROVE IInv'
  <2>1. InlineTypeOK'
    BY <1>12 DEF CompensationFails, Fault, Answer, InlineTypeOK, PlacesFit, Places,
       Answers, Request, Row
  <2>2. PlacesFit'
    BY <1>12 DEF CompensationFails, Fault, Answer, InlineTypeOK, PlacesFit, Request
  <2>3. Holding'
    BY <1>12 DEF CompensationFails, Fault, Answer, InlineTypeOK, PlacesFit, Holding,
       SecretsFit, Request
  <2>4. SecretsFit'
    BY <1>12 DEF CompensationFails, Fault, Answer, InlineTypeOK, PlacesFit, Holding,
       SecretsFit, Request
  <2>5. RowsFit'
    BY <1>12 DEF CompensationFails, Fault, Answer, InlineTypeOK, PlacesFit, RowsFit,
       Request, Row
  <2>6. RowsHaveSecrets'
    BY <1>12 DEF CompensationFails, Fault, Answer, InlineTypeOK, PlacesFit, Holding,
       SecretsFit, RowsFit, RowsHaveSecrets, Request, Row
  <2>7. NothingLeft'
    BY <1>12 DEF CompensationFails, Fault, Answer, InlineTypeOK, PlacesFit, SecretsFit,
       NothingLeft, Request, Row
  <2> QED
    BY <2>1, <2>2, <2>3, <2>4, <2>5, <2>6, <2>7
<1>13. ASSUME NEW h \in Handlers, Crash(h) PROVE IInv'
  <2>1. InlineTypeOK'
    BY <1>13 DEF Crash, Fault, InlineTypeOK, PlacesFit, Places, Answers, Request, Row
  <2>2. PlacesFit'
    BY <1>13 DEF Crash, Fault, InlineTypeOK, PlacesFit, Request
  <2>3. Holding'
    BY <1>13 DEF Crash, Fault, InlineTypeOK, PlacesFit, Holding, SecretsFit, Request
  <2>4. SecretsFit'
    BY <1>13 DEF Crash, Fault, InlineTypeOK, PlacesFit, Holding, SecretsFit, Request
  <2>5. RowsFit'
    BY <1>13 DEF Crash, Fault, InlineTypeOK, PlacesFit, RowsFit, Request, Row
  <2>6. RowsHaveSecrets'
    BY <1>13 DEF Crash, Fault, InlineTypeOK, PlacesFit, Holding, SecretsFit, RowsFit,
       RowsHaveSecrets, Request, Row
  <2>7. NothingLeft'
    BY <1>13 DEF Crash, Fault, InlineTypeOK, PlacesFit, SecretsFit, NothingLeft,
       Request, Row
  <2> QED
    BY <2>1, <2>2, <2>3, <2>4, <2>5, <2>6, <2>7
<1>14. ASSUME NEW s \in SecretNames, UserDeletesSecret(s) PROVE IInv'
  BY <1>14 DEF UserDeletesSecret, InlineTypeOK, PlacesFit, Holding, SecretsFit, RowsFit,
     RowsHaveSecrets, NothingLeft, Row, Request
<1>15. CASE UNCHANGED inlineVars
  BY <1>15 DEF inlineVars, InlineTypeOK, PlacesFit, Holding, SecretsFit, RowsFit,
     RowsHaveSecrets, NothingLeft
<1> QED
  BY <1>1, <1>2, <1>3, <1>4, <1>5, <1>6, <1>7, <1>8, <1>9, <1>10, <1>11, <1>12, <1>13,
     <1>14, <1>15 DEF InlineNext

(***************************************************************************)
(* In every state the service can reach, the strengthened invariant holds. *)
(***************************************************************************)
THEOREM InlineInvariance == InlineSpec => []IInv
BY InitIInv, NextIInv, PTL DEF InlineSpec

(***************************************************************************)
(* The requests, rows and secrets stay well formed (InlineTypeOK): a row   *)
(* names a secret and a request that made it, whatever was lost between.   *)
(***************************************************************************)
THEOREM InlineTypeCorrect == InlineSpec => []InlineTypeOK
<1>1. IInv => InlineTypeOK
  BY DEF IInv
<1> QED
  BY <1>1, InlineInvariance, PTL

(***************************************************************************)
(* A connection created with inline credentials keeps its secret, and its  *)
(* credentials, whatever requests run beside it (RowsHaveSecrets), for any *)
(* number of requests, names and secrets.                                  *)
(***************************************************************************)
THEOREM ConnectionsKeepSecrets == InlineSpec => []RowsHaveSecrets
<1>1. IInv => RowsHaveSecrets
  BY DEF IInv
<1> QED
  BY <1>1, InlineInvariance, PTL

(***************************************************************************)
(* A request that fails leaves no secret behind, but for a failure of the  *)
(* clean-up itself (NothingLeft).                                          *)
(***************************************************************************)
THEOREM FailuresLeaveNothing == InlineSpec => []NothingLeft
<1>1. IInv => NothingLeft
  BY DEF IInv
<1> QED
  BY <1>1, InlineInvariance, PTL

=============================================================================
