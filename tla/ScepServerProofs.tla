--------------------------- MODULE ScepServerProofs ---------------------------
(***************************************************************************)
(* What TLAPS proves about ScepServer, for any sets of transactions, keys, *)
(* certificates and passwords.  The inductive invariant ties the two       *)
(* histories to the tables: a row of the certificate table is recorded     *)
(* under its own refid, and whatever was recorded for a transaction        *)
(* belongs to the one row its approved request names.                      *)
(***************************************************************************)
EXTENDS ScepServer, TLAPS

\* Every row was recorded, under its own refid.
RowsRecorded ==
    \A c \in Certificates : table[c] # None => table[c] \in recorded /\ table[c].cert = c

\* What was recorded belongs to the row and the CSR of its request.
RecordedMatches ==
    \A i \in recorded :
        /\ request[i.txn].status = "approved"
        /\ request[i.txn].cert = i.cert
        /\ i.key \in {request[i.txn].csr, None}

ScepIndInv == ScepTypeOK /\ RowsRecorded /\ RecordedMatches /\ replied \subseteq recorded

\* The inductive invariant holds before the first request.
LEMMA ScepInitInv == ScepInit => ScepIndInv
  BY DEF ScepInit, ScepIndInv, ScepTypeOK, ScepRequest, NoRequest, Config, RowsRecorded, RecordedMatches

\* A request that waits has nothing recorded.
LEMMA OnlyApproved ==
  ASSUME ScepIndInv, NEW t \in Transactions, request[t].status # "approved"
  PROVE  \A i \in recorded : i.txn # t
  BY DEF ScepIndInv, RecordedMatches

\* A request queued for approval keeps the inductive invariant.
LEMMA EnqueueInv ==
  ASSUME ScepIndInv, NEW t \in Transactions, NEW key \in Keys, NEW password,
         Enqueue(t, key, password)
  PROVE  ScepIndInv'
<1>1. ScepTypeOK'
  BY DEF ScepIndInv, ScepTypeOK, Enqueue, ScepRequest
<1>2. RowsRecorded'
  BY DEF ScepIndInv, RowsRecorded, Enqueue
<1>3. \A i \in recorded : i.txn # t
  BY OnlyApproved DEF Enqueue, Unknown
<1>4. \A i \in recorded : i.txn \in Transactions
  BY DEF ScepIndInv, ScepTypeOK, Issued
<1>5. RecordedMatches'
  BY <1>3, <1>4 DEF ScepIndInv, ScepTypeOK, RecordedMatches, Enqueue
<1> QED
  BY <1>1, <1>2, <1>5 DEF ScepIndInv, Enqueue

\* A request enrolled at once keeps the inductive invariant.
LEMMA EnrollInv ==
  ASSUME ScepIndInv, NEW t \in Transactions, NEW key \in Keys, NEW password,
         NEW c \in Certificates, Enroll(t, key, password, c)
  PROVE  ScepIndInv'
<1> DEFINE i == [cert |-> c, txn |-> t, key |-> key]
<1>1. i \in Issued
  BY DEF Issued
<1>2. recorded' = recorded \cup {i} /\ replied' \subseteq replied \cup {i}
  BY DEF Enroll, Reply
<1>3. ScepTypeOK'
  <2>1. request' \in [Transactions -> ScepRequest]
    BY DEF ScepIndInv, ScepTypeOK, Enroll, ScepRequest
  <2>2. table' \in [Certificates -> Issued \cup {None}]
    BY <1>1 DEF ScepIndInv, ScepTypeOK, Enroll
  <2> QED
    BY <1>1, <1>2, <2>1, <2>2 DEF ScepIndInv, ScepTypeOK, Enroll
<1>4. RowsRecorded'
  BY <1>2 DEF ScepIndInv, ScepTypeOK, RowsRecorded, Enroll
<1>5. \A j \in recorded : j.txn # t /\ j.txn \in Transactions
  BY OnlyApproved DEF Enroll, Unknown, ScepIndInv, ScepTypeOK, Issued
<1>6. RecordedMatches'
  BY <1>2, <1>5 DEF ScepIndInv, ScepTypeOK, RecordedMatches, Enroll
<1> QED
  BY <1>2, <1>3, <1>4, <1>6 DEF ScepIndInv

\* A request sent again for a transaction that is known keeps the inductive
\* invariant.
LEMMA RetryInv ==
  ASSUME ScepIndInv, NEW t \in Transactions, NEW key \in Keys, NEW password,
         Retry(t, key, password)
  PROVE  ScepIndInv'
<1>1. request[t].cert \in Certificates
  BY DEF ScepIndInv, ScepTypeOK, ScepRequest, Retry
<1>2. table[request[t].cert] \in recorded
  BY <1>1 DEF ScepIndInv, RowsRecorded, Retry
<1>3. replied' \subseteq recorded
  BY <1>2 DEF ScepIndInv, Retry, Reply
<1>4. ScepTypeOK' /\ RowsRecorded' /\ RecordedMatches'
  BY <1>3 DEF ScepIndInv, ScepTypeOK, RowsRecorded, RecordedMatches, Retry
<1> QED
  BY <1>3, <1>4 DEF ScepIndInv, Retry

\* An administrator's decision keeps the inductive invariant.
LEMMA DecideInv ==
  ASSUME ScepIndInv, NEW t \in Transactions, Approve(t) \/ Reject(t)
  PROVE  ScepIndInv'
<1>1. /\ request[t].status = "pending"
      /\ UNCHANGED <<table, config, recorded, replied>>
      /\ \E s \in {"approved", "rejected"} : request' = [request EXCEPT ![t].status = s]
  BY DEF Approve, Reject
<1>2. ScepTypeOK'
  BY <1>1 DEF ScepIndInv, ScepTypeOK, ScepRequest
<1>3. \A i \in recorded : i.txn # t /\ i.txn \in Transactions
  BY <1>1, OnlyApproved DEF ScepIndInv, ScepTypeOK, Issued
<1>4. RecordedMatches'
  BY <1>1, <1>3 DEF ScepIndInv, ScepTypeOK, RecordedMatches
<1> QED
  BY <1>1, <1>2, <1>4 DEF ScepIndInv, RowsRecorded

\* A renewal keeps the inductive invariant.
LEMMA RenewInv ==
  ASSUME ScepIndInv, NEW c \in Certificates, RenewCertificate(c)
  PROVE  ScepIndInv'
<1> DEFINE i == [table[c] EXCEPT !.key = None]
<1>1. table[c] \in recorded /\ table[c] \in Issued /\ table[c].cert = c
  BY DEF ScepIndInv, ScepTypeOK, RowsRecorded, RenewCertificate
<1>2. i \in Issued /\ i.cert = c /\ i.txn = table[c].txn /\ i.key = None
  BY <1>1 DEF Issued
<1>3. recorded' = recorded \cup {i} /\ UNCHANGED <<request, config, replied>>
      /\ table' = [table EXCEPT ![c] = i]
  BY DEF RenewCertificate
<1> HIDE DEF i
<1>4. ScepTypeOK'
  BY <1>2, <1>3 DEF ScepIndInv, ScepTypeOK
<1>5. RowsRecorded'
  BY <1>2, <1>3 DEF ScepIndInv, ScepTypeOK, RowsRecorded
<1>6. RecordedMatches'
  BY <1>1, <1>2, <1>3 DEF ScepIndInv, RecordedMatches
<1> QED
  BY <1>3, <1>4, <1>5, <1>6 DEF ScepIndInv

\* Every step of the SCEP server keeps the inductive invariant.
LEMMA ScepStepInv ==
  ASSUME ScepIndInv, [ScepNext]_scepVars
  PROVE  ScepIndInv'
<1>1. CASE UNCHANGED scepVars
  BY <1>1 DEF scepVars, ScepIndInv, ScepTypeOK, RowsRecorded, RecordedMatches
<1>2. CASE \E t \in Transactions, key \in Keys, password \in Passwords \cup {None} :
             \/ Enqueue(t, key, password) \/ Retry(t, key, password)
             \/ \E c \in Certificates : Enroll(t, key, password, c)
  BY <1>2, EnqueueInv, RetryInv, EnrollInv
<1>3. CASE \E t \in Transactions : Approve(t) \/ Reject(t)
  BY <1>3, DecideInv
<1>4. CASE \E enabled, autoApprove \in BOOLEAN : UpdateConfig(enabled, autoApprove)
  BY <1>4 DEF UpdateConfig, ScepIndInv, ScepTypeOK, Config, RowsRecorded, RecordedMatches
<1>5. CASE \E password \in Passwords : RegenerateChallenge(password)
  BY <1>5 DEF RegenerateChallenge, ScepIndInv, ScepTypeOK, Config, RowsRecorded, RecordedMatches
<1>6. CASE \E c \in Certificates : RenewCertificate(c)
  BY <1>6, RenewInv
<1>7. ASSUME NEW c \in Certificates, DeleteCertificate(c)
      PROVE  ScepIndInv'
  BY <1>7 DEF DeleteCertificate, ScepIndInv, ScepTypeOK, RowsRecorded, RecordedMatches
<1> QED
  BY <1>1, <1>2, <1>3, <1>4, <1>5, <1>6, <1>7 DEF ScepNext

\* The inductive invariant holds in every state of the SCEP server.
LEMMA ScepInvariance == ScepSpec => []ScepIndInv
  BY ScepInitInv, ScepStepInv, PTL DEF ScepSpec

\* A transaction is enrolled once, however often its request is delivered and
\* whatever is changed in between (process_pkcs_req).
THEOREM StaysEnrolledOnce == ScepSpec => [](ScepTypeOK /\ EnrolledOnce)
<1>1. ScepIndInv => ScepTypeOK /\ EnrolledOnce
  BY DEF ScepIndInv, RecordedMatches, EnrolledOnce
<1> QED
  BY <1>1, ScepInvariance, PTL

\* A rejected request has no certificate and its device never got one.
THEOREM RejectedStaysEmpty == ScepSpec => []RejectedHasNothing
<1>1. ScepIndInv => RejectedHasNothing
  BY DEF ScepIndInv, RecordedMatches, RejectedHasNothing
<1> QED
  BY <1>1, ScepInvariance, PTL

\* A certificate that went out was in the table, for the CSR its transaction
\* started with.
THEOREM RepliesStayRecorded == ScepSpec => []RepliesAreRecorded
<1>1. ScepIndInv => RepliesAreRecorded
  BY DEF ScepIndInv, RecordedMatches, RepliesAreRecorded
<1> QED
  BY <1>1, ScepInvariance, PTL
=============================================================================
