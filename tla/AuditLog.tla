------------------------------- MODULE AuditLog -------------------------------
(***************************************************************************)
(* The audit log and its hash chain: AuditService of                       *)
(* services/audit_service.py and the AuditLog table.                       *)
(*                                                                         *)
(* log_action chains a row to the row before it; some handlers add rows of *)
(* their own without hashes; a cleanup cuts off the oldest rows; and a     *)
(* verification walks over a range of ids and compares.  From the insert   *)
(* to the commit nothing waits for the network, so a row is added in one   *)
(* step.  The rows of the table are in the order of their timestamps.      *)
(* The scheduled cleanup of retention_service.py is no action: it deletes  *)
(* from a query with a limit, which SQLAlchemy refuses, and rolls back.    *)
(***************************************************************************)
EXTENDS Naturals

CONSTANTS
    Contents,   \* what a row says, in the columns that compute_hash covers
    MaxId       \* bound of the ids

ASSUME MaxIdAssumption == MaxId \in Nat

VARIABLES
    log,        \* the audit_logs table: a function from the ids in it
    cleaned     \* history: a cleanup has deleted rows

auditVars == <<log, cleaned>>

-----------------------------------------------------------------------------
(* Rows *)

Ids == 1 .. MaxId

\* The hash of zeros in front of the first row: the digest of nothing.
Zero == <<>>

\* Mutant: the content is left out.
DigestNoContent(i, content, prev) == <<i, prev>>

\* compute_hash.  Digests of different inputs are different, so that the
\* input itself stands for its digest.
Digest(i, content, prev) == <<i, content, prev>>

AuditRow(row) ==
    /\ DOMAIN row = {"content", "written", "hashed", "prev", "hash"}
    /\ row.content \in Contents
    /\ row.written \in Contents     \* history: the content it was added with
    /\ row.hashed \in BOOLEAN

\* Type correctness of the audit_logs table: every row has its columns, and
\* the content it was added with.
AuditTypeOK ==
    /\ DOMAIN log \subseteq Ids
    /\ \A i \in DOMAIN log : AuditRow(log[i])
    /\ cleaned \in BOOLEAN

AuditInit ==
    /\ log = [i \in {} |-> Zero]
    /\ cleaned = FALSE

\* p is the greatest id below i among S, 0 if there is none.
Previous(S, i, p) ==
    IF \A q \in S : q >= i THEN p = 0
    ELSE p \in S /\ p < i /\ \A q \in S : q < i => q <= p

\* The hash that the row after p is chained to in table l.
HashOf(l, p) == IF p # 0 /\ l[p].hashed THEN l[p].hash ELSE Zero

\* Ids grow, with gaps where a transaction was rolled back; when the table is
\* empty, SQLite starts again at 1.
NewId(S, i) == i \in Ids /\ \A j \in S : j < i

Added(l, i, row) == [j \in DOMAIN l \cup {i} |-> IF j = i THEN row ELSE l[j]]

\* The row that log_action adds to l.
HashedRow(l, i, p, content) ==
    LET prev == HashOf(l, p) IN
    [content |-> content, written |-> content, hashed |-> TRUE,
     prev |-> prev, hash |-> Digest(i, content, prev)]

\* Mutant: rows without hashes are skipped when the previous one is looked up.
AppendedToHashed(l, i, content, result) ==
    LET S == {j \in DOMAIN l : l[j].hashed} IN
    /\ NewId(DOMAIN l, i)
    /\ \E p \in S \cup {0} : Previous(S, i, p) /\ result = Added(l, i, HashedRow(l, i, p, content))

\* Mutant: the row is chained to zeros.
AppendedUnchained(l, i, content, result) ==
    /\ NewId(DOMAIN l, i)
    /\ result = Added(l, i, HashedRow(l, i, 0, content))

\* log_action: result is the table l with one more row.
Appended(l, i, content, result) ==
    /\ NewId(DOMAIN l, i)
    /\ \E p \in DOMAIN l \cup {0} :
          Previous(DOMAIN l, i, p) /\ result = Added(l, i, HashedRow(l, i, p, content))

-----------------------------------------------------------------------------
(* Operations *)

LogAction(i, content) ==
    /\ Appended(log, i, content, log')
    /\ UNCHANGED cleaned

\* Handlers that add an AuditLog row themselves, without hashes: the switch of
\* CRL regeneration, EST enrollment, smart import and automatic renewal.
LogUnhashed(i, content) ==
    /\ NewId(DOMAIN log, i)
    /\ log' = Added(log, i, [content |-> content, written |-> content, hashed |-> FALSE,
                             prev |-> Zero, hash |-> Zero])
    /\ UNCHANGED cleaned

\* What cleanup_old_logs leaves when k is the first row after the cutoff.
Remaining(k) == [j \in {x \in DOMAIN log : x >= k} |-> log[j]]

\* cleanup_logs deletes the rows older than the cutoff and logs that it did.
Cleanup(k, i, content) ==
    /\ Appended(Remaining(k), i, content, log')
    /\ cleaned' = (cleaned \/ \E j \in DOMAIN log : j < k)

\* The content of a stored row is changed behind the service's back.
Change(i, content) ==
    /\ i \in DOMAIN log
    /\ log' = [log EXCEPT ![i].content = content]
    /\ UNCHANGED cleaned

AuditNext ==
    \/ \E i \in Ids, content \in Contents :
          LogAction(i, content) \/ LogUnhashed(i, content) \/ Change(i, content)
    \/ \E k, i \in Ids, content \in Contents : Cleanup(k, i, content)

AuditSpec == AuditInit /\ [][AuditNext]_auditVars

-----------------------------------------------------------------------------
(* Verification *)

\* The rows a verification from start_id to end_id looks at.
Selected(start, end) == {i \in DOMAIN log : start <= i /\ i <= end}

\* prev_hash of row i is not that of the row before it in S, or zeros.
PrevMismatch(S, i) ==
    \E p \in S \cup {0} : Previous(S, i, p) /\ log[i].prev # HashOf(log, p)

\* entry_hash of row i is not that of its content.
EntryMismatch(i) == Digest(i, log[i].content, log[i].prev) # log[i].hash

\* verify_integrity: the rows of S it reports.  Rows without hashes are
\* skipped, and the row after one is expected to start from zeros.
Reported(S) == {i \in S : log[i].hashed /\ (PrevMismatch(S, i) \/ EntryMismatch(i))}

-----------------------------------------------------------------------------
(* Properties *)

Changed(i) == log[i].content # log[i].written

\* A verification of any range reports no row that was left alone, whatever
\* rows without hashes lie between, with one exception: the first row of the
\* range, which a cleanup or start_id has cut off from the row before it.
OnlyFirstReportedFalsely ==
    \A start, end \in Ids :
        LET S == Selected(start, end) IN
        \A i \in Reported(S) : Changed(i) \/ \A j \in S : j >= i

\* As long as nothing was cleaned up, a verification of the whole log reports
\* exactly the rows with hashes that were changed.
WholeLogVerifies ==
    ~cleaned => Reported(DOMAIN log) = {i \in DOMAIN log : log[i].hashed /\ Changed(i)}

\* A row that was changed after it was hashed is reported by the verification
\* of every range it is in, also after cleanups.
ChangesReported ==
    \A start, end \in Ids :
        \A i \in Selected(start, end) :
            log[i].hashed /\ Changed(i) => i \in Reported(Selected(start, end))
=============================================================================
