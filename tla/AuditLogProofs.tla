---------------------------- MODULE AuditLogProofs ----------------------------
(***************************************************************************)
(* What TLAPS proves about AuditLog, for logs of any length.  The          *)
(* inductive invariant says of every row with hashes that its entry_hash   *)
(* is that of the content it was added with, and that it continues the row *)
(* before it in the table, unless it is the first one, and that the first  *)
(* one starts from zeros as long as nothing was cleaned up.                *)
(***************************************************************************)
EXTENDS AuditLog, TLAPS

First(S, i) == \A j \in S : j >= i

\* Row i of table l, given whether rows were cut off.
ChainedRow(l, i, cut) ==
    l[i].hashed =>
        /\ l[i].hash = Digest(i, l[i].written, l[i].prev)
        /\ IF First(DOMAIN l, i)
           THEN cut \/ l[i].prev = Zero
           ELSE \E p \in DOMAIN l : Previous(DOMAIN l, i, p) /\ l[i].prev = HashOf(l, p)

Table(l) == DOMAIN l \subseteq Ids /\ \A i \in DOMAIN l : AuditRow(l[i])

Chained(l, cut) == \A i \in DOMAIN l : ChainedRow(l, i, cut)

AuditIndInv == AuditTypeOK /\ Chained(log, cleaned)

\* The ids of the entries are positive.
LEMMA IdsAreNaturals == Ids \subseteq Nat \ {0}
  BY MaxIdAssumption DEF Ids

\* The inductive invariant holds of the empty log.
LEMMA AuditInitInv == AuditInit => AuditIndInv
  BY DEF AuditInit, AuditIndInv, AuditTypeOK, Chained

\* Adding a row at the end leaves the rows before it as they are, with the
\* same rows before them.
LEMMA AddedKeeps ==
  ASSUME NEW l, Table(l), NEW cut \in BOOLEAN, Chained(l, cut),
         NEW i \in Ids, NewId(DOMAIN l, i), NEW row,
         NEW j \in DOMAIN l
  PROVE  ChainedRow(Added(l, i, row), j, cut)
<1> DEFINE m == Added(l, i, row)
<1>1. DOMAIN m = DOMAIN l \cup {i} /\ \A k \in DOMAIN l : k < i /\ m[k] = l[k]
  BY IdsAreNaturals DEF Added, NewId, Table
<1>2. DOMAIN l \subseteq Nat /\ i \in Nat /\ j \in Nat
  BY IdsAreNaturals DEF Table
<1>3. j < i /\ m[j] = l[j] /\ ChainedRow(l, j, cut)
  BY <1>1 DEF Chained
<1> HIDE DEF m
<1>4. First(DOMAIN m, j) <=> First(DOMAIN l, j)
  BY <1>1, <1>2, <1>3 DEF First
<1>5. ASSUME NEW p \in DOMAIN l, Previous(DOMAIN l, j, p), ~First(DOMAIN l, j)
      PROVE  Previous(DOMAIN m, j, p) /\ HashOf(m, p) = HashOf(l, p)
  <2>1. p < j /\ \A q \in DOMAIN l : q < j => q <= p
    BY <1>5 DEF Previous, First
  <2>2. \A q \in DOMAIN m : q < j => q <= p
    BY <1>1, <1>2, <1>3, <2>1
  <2>3. ~ \A q \in DOMAIN m : q >= j
    BY <1>4, <1>5 DEF First
  <2> QED
    BY <1>1, <2>1, <2>2, <2>3 DEF Previous, HashOf
<1>6. ASSUME First(DOMAIN l, j) PROVE ChainedRow(m, j, cut)
  BY <1>3, <1>4, <1>6 DEF ChainedRow
<1>7. ASSUME ~First(DOMAIN l, j) PROVE ChainedRow(m, j, cut)
  BY <1>1, <1>3, <1>4, <1>5, <1>7 DEF ChainedRow
<1> QED
  BY <1>6, <1>7 DEF m

\* log_action keeps a table chained.
LEMMA AppendedChained ==
  ASSUME NEW l, Table(l), NEW cut \in BOOLEAN, Chained(l, cut),
         NEW i \in Ids, NEW content \in Contents, NEW m, Appended(l, i, content, m)
  PROVE  Table(m) /\ Chained(m, cut)
<1>1. NewId(DOMAIN l, i)
  BY DEF Appended
<1>2. PICK p \in DOMAIN l \cup {0} :
        Previous(DOMAIN l, i, p) /\ m = Added(l, i, HashedRow(l, i, p, content))
  BY DEF Appended
<1> DEFINE row == HashedRow(l, i, p, content)
<1>3. /\ row.hashed /\ row.prev = HashOf(l, p)
      /\ row.hash = Digest(i, row.written, row.prev) /\ AuditRow(row)
  BY DEF HashedRow, AuditRow
<1>4. /\ DOMAIN m = DOMAIN l \cup {i} /\ m[i] = row
      /\ \A k \in DOMAIN l : k < i /\ m[k] = l[k]
  BY <1>1, <1>2, IdsAreNaturals DEF Added, NewId, Table
<1> HIDE DEF row
<1>5. Table(m)
  BY <1>3, <1>4 DEF Table
<1>6. ASSUME NEW j \in DOMAIN l
      PROVE  ChainedRow(m, j, cut)
  BY <1>1, <1>2, AddedKeeps
<1>7. DOMAIN m \subseteq Nat \ {0} /\ i \in Nat
  BY <1>5, IdsAreNaturals DEF Table
<1>8. ChainedRow(m, i, cut)
  <2>1. CASE DOMAIN l = {}
    <3>1. p = 0
      BY <1>2, <2>1 DEF Previous
    <3>2. First(DOMAIN m, i)
      BY <1>4, <1>7, <2>1 DEF First
    <3>3. row.prev = Zero
      BY <1>3, <3>1 DEF HashOf
    <3> QED
      BY <1>3, <1>4, <3>2, <3>3 DEF ChainedRow
  <2>2. CASE DOMAIN l # {}
    <3>1. ~First(DOMAIN l, i) /\ ~First(DOMAIN m, i)
      BY <1>4, <1>7, <2>2 DEF First
    <3>2. p \in DOMAIN l /\ p < i /\ \A q \in DOMAIN l : q < i => q <= p
      BY <1>2, <3>1 DEF Previous, First
    <3>3. \A q \in DOMAIN m : q < i => q <= p
      BY <1>4, <1>7, <3>2
    <3>4. Previous(DOMAIN m, i, p)
      BY <1>4, <3>1, <3>2, <3>3 DEF Previous, First
    <3>5. HashOf(m, p) = HashOf(l, p)
      BY <1>4, <3>2 DEF HashOf
    <3> QED
      BY <1>3, <1>4, <3>1, <3>2, <3>4, <3>5 DEF ChainedRow
  <2> QED
    BY <2>1, <2>2
<1> QED
  BY <1>4, <1>5, <1>6, <1>8 DEF Chained

\* Deleting the rows below k leaves a chained table, whose first row may be
\* cut off if there were any.
LEMMA RemainingChained ==
  ASSUME AuditIndInv, NEW k \in Ids
  PROVE  /\ Table(Remaining(k))
         /\ Chained(Remaining(k), cleaned \/ \E j \in DOMAIN log : j < k)
<1> DEFINE m == Remaining(k)
           cut == cleaned \/ \E j \in DOMAIN log : j < k
<1>1. /\ DOMAIN m = {x \in DOMAIN log : x >= k}
      /\ \A j \in DOMAIN m : m[j] = log[j]
  BY DEF Remaining
<1>2. DOMAIN log \subseteq Nat /\ k \in Nat
  BY IdsAreNaturals DEF AuditIndInv, AuditTypeOK
<1>3. Table(m)
  BY <1>1 DEF AuditIndInv, AuditTypeOK, Table
<1> HIDE DEF m
<1>4. ASSUME NEW i \in DOMAIN m
      PROVE  ChainedRow(m, i, cut)
  <2>1. i \in DOMAIN log /\ i >= k /\ m[i] = log[i] /\ ChainedRow(log, i, cleaned)
    BY <1>1 DEF AuditIndInv, Chained
  <2>2. CASE First(DOMAIN log, i)
    <3>1. First(DOMAIN m, i)
      BY <1>1, <2>2 DEF First
    <3> QED
      BY <2>1, <2>2, <3>1 DEF ChainedRow
  <2>3. CASE ~First(DOMAIN log, i) /\ log[i].hashed
    <3>1. PICK p \in DOMAIN log :
            Previous(DOMAIN log, i, p) /\ log[i].prev = HashOf(log, p)
      BY <2>1, <2>3 DEF ChainedRow
    <3>2. p < i /\ \A q \in DOMAIN log : q < i => q <= p
      BY <2>3, <3>1 DEF Previous, First
    <3>3. CASE p >= k
      <4>1. p \in DOMAIN m /\ HashOf(m, p) = HashOf(log, p)
        BY <1>1, <3>3 DEF HashOf
      <4>2. ~First(DOMAIN m, i)
        BY <1>1, <1>2, <2>1, <3>2, <4>1 DEF First
      <4>3. Previous(DOMAIN m, i, p)
        BY <1>1, <3>2, <4>1, <4>2 DEF Previous, First
      <4> QED
        BY <2>1, <3>1, <4>1, <4>2, <4>3 DEF ChainedRow
    <3>4. CASE p < k
      <4>1. First(DOMAIN m, i)
        BY <1>1, <1>2, <2>1, <3>2, <3>4 DEF First
      <4> QED
        BY <2>1, <3>4, <4>1 DEF ChainedRow
    <3> QED
      BY <1>2, <3>3, <3>4
  <2> QED
    BY <2>1, <2>2, <2>3 DEF ChainedRow
<1> QED
  BY <1>3, <1>4 DEF m, Chained

\* A row without hashes has nothing to be chained by.
LEMMA LogUnhashedInv ==
  ASSUME AuditIndInv, NEW i \in Ids, NEW content \in Contents, LogUnhashed(i, content)
  PROVE  AuditIndInv'
<1> DEFINE row == [content |-> content, written |-> content, hashed |-> FALSE,
                   prev |-> Zero, hash |-> Zero]
<1>1. NewId(DOMAIN log, i) /\ log' = Added(log, i, row) /\ cleaned' = cleaned
  BY DEF LogUnhashed
<1>2. ~row.hashed /\ AuditRow(row)
  BY DEF AuditRow
<1> HIDE DEF row
<1>3. /\ DOMAIN log' = DOMAIN log \cup {i} /\ log'[i] = row
      /\ \A k \in DOMAIN log : k < i /\ log'[k] = log[k]
  BY <1>1, IdsAreNaturals DEF Added, NewId, AuditIndInv, AuditTypeOK
<1>4. AuditTypeOK'
  BY <1>1, <1>2, <1>3 DEF AuditIndInv, AuditTypeOK
<1>5. ASSUME NEW j \in DOMAIN log
      PROVE  ChainedRow(log', j, cleaned)
  <2>1. Table(log) /\ cleaned \in BOOLEAN /\ Chained(log, cleaned)
    BY DEF AuditIndInv, AuditTypeOK, Table
  <2> QED
    BY <1>1, <2>1, AddedKeeps
<1>6. ChainedRow(log', i, cleaned)
  BY <1>2, <1>3 DEF ChainedRow
<1> QED
  BY <1>1, <1>3, <1>4, <1>5, <1>6 DEF AuditIndInv, Chained

\* An edit does not touch what the rows are chained by.
LEMMA ChangeInv ==
  ASSUME AuditIndInv, NEW i \in Ids, NEW content \in Contents, Change(i, content)
  PROVE  AuditIndInv'
<1>1. /\ i \in DOMAIN log /\ AuditRow(log[i]) /\ cleaned' = cleaned
      /\ log' = [log EXCEPT ![i] = [log[i] EXCEPT !.content = content]]
  BY DEF Change, AuditIndInv, AuditTypeOK
<1>2. DOMAIN log' = DOMAIN log
  BY <1>1
<1>3. AuditRow(log'[i]) /\ log'[i].hashed = log[i].hashed /\ log'[i].written = log[i].written
      /\ log'[i].prev = log[i].prev /\ log'[i].hash = log[i].hash
  BY <1>1 DEF AuditRow
<1>4. \A j \in DOMAIN log : j # i => log'[j] = log[j]
  BY <1>1
<1>5. AuditTypeOK'
  BY <1>1, <1>2, <1>3, <1>4 DEF AuditIndInv, AuditTypeOK
<1>6. \A j \in DOMAIN log :
        /\ log'[j].hashed = log[j].hashed /\ log'[j].written = log[j].written
        /\ log'[j].prev = log[j].prev /\ log'[j].hash = log[j].hash
  BY <1>3, <1>4
<1>7. ASSUME NEW j \in DOMAIN log
      PROVE  ChainedRow(log', j, cleaned)
  <2>1. ChainedRow(log, j, cleaned)
    BY DEF AuditIndInv, Chained
  <2>2. \A p \in DOMAIN log : HashOf(log', p) = HashOf(log, p)
    BY <1>6 DEF HashOf
  <2> QED
    BY <1>2, <1>6, <2>1, <2>2 DEF ChainedRow
<1> QED
  BY <1>1, <1>2, <1>5, <1>7 DEF AuditIndInv, Chained

\* Every step on the log keeps the inductive invariant.
LEMMA AuditStepInv ==
  ASSUME AuditIndInv, [AuditNext]_auditVars
  PROVE  AuditIndInv'
<1>1. CASE UNCHANGED auditVars
  BY <1>1 DEF auditVars, AuditIndInv, AuditTypeOK, Chained, ChainedRow, First, HashOf, Previous
<1>2. ASSUME NEW i \in Ids, NEW content \in Contents, LogAction(i, content)
      PROVE  AuditIndInv'
  <2>1. Table(log) /\ cleaned \in BOOLEAN /\ Chained(log, cleaned)
    BY DEF AuditIndInv, AuditTypeOK, Table
  <2>2. Appended(log, i, content, log') /\ cleaned' = cleaned
    BY <1>2 DEF LogAction
  <2>3. Table(log') /\ Chained(log', cleaned)
    BY <2>1, <2>2, AppendedChained
  <2> QED
    BY <2>1, <2>2, <2>3 DEF AuditIndInv, AuditTypeOK, Table
<1>3. ASSUME NEW k \in Ids, NEW i \in Ids, NEW content \in Contents, Cleanup(k, i, content)
      PROVE  AuditIndInv'
  <2> DEFINE cut == cleaned \/ \E j \in DOMAIN log : j < k
  <2>1. Table(Remaining(k)) /\ Chained(Remaining(k), cut) /\ cut \in BOOLEAN
    BY RemainingChained
  <2>2. Appended(Remaining(k), i, content, log') /\ cleaned' = cut
    BY <1>3 DEF Cleanup
  <2> HIDE DEF cut
  <2>3. Table(log') /\ Chained(log', cut)
    BY <2>1, <2>2, AppendedChained
  <2> QED
    BY <2>1, <2>2, <2>3 DEF AuditIndInv, AuditTypeOK, Table
<1> QED
  BY <1>1, <1>2, <1>3, LogUnhashedInv, ChangeInv DEF AuditNext

\* The inductive invariant holds in every state of the log.
LEMMA AuditInvariance == AuditSpec => []AuditIndInv
  BY AuditInitInv, AuditStepInv, PTL DEF AuditSpec

\* In a range, a row that is not its first one is compared with the same row
\* as in the whole table.
LEMMA NoMismatchInside ==
  ASSUME AuditIndInv, NEW start \in Ids, NEW end \in Ids,
         NEW i \in Selected(start, end), log[i].hashed,
         ~First(Selected(start, end), i)
  PROVE  ~PrevMismatch(Selected(start, end), i)
<1> DEFINE S == Selected(start, end)
<1>1. /\ DOMAIN log \subseteq Nat \ {0} /\ start \in Nat /\ end \in Nat
      /\ \A x : x \in S <=> x \in DOMAIN log /\ start <= x /\ x <= end
  BY IdsAreNaturals DEF AuditIndInv, AuditTypeOK, Selected
<1>2. i \in DOMAIN log /\ ChainedRow(log, i, cleaned)
  BY DEF AuditIndInv, Chained, Selected
<1> HIDE DEF S
<1>3. PICK j \in S : j < i
  BY <1>1, <1>2 DEF First, S
<1>4. ~First(DOMAIN log, i)
  BY <1>1, <1>2, <1>3 DEF First
<1>5. PICK p \in DOMAIN log : Previous(DOMAIN log, i, p) /\ log[i].prev = HashOf(log, p)
  BY <1>2, <1>4 DEF ChainedRow
<1>6. p < i /\ \A q \in DOMAIN log : q < i => q <= p
  BY <1>4, <1>5 DEF Previous, First
<1>7. j <= p /\ p \in S
  BY <1>1, <1>2, <1>3, <1>6 DEF S
<1>8. ASSUME NEW q \in S \cup {0}, Previous(S, i, q)
      PROVE  q = p
  <2>1. q \in S /\ q < i /\ \A x \in S : x < i => x <= q
    BY <1>1, <1>2, <1>3, <1>8 DEF Previous
  <2>2. q <= p /\ p <= q
    BY <1>1, <1>6, <1>7, <2>1
  <2> QED
    BY <1>1, <2>1, <2>2
<1> QED
  BY <1>5, <1>8 DEF PrevMismatch, S

\* The hash of an entry differs from its text exactly when the text was changed.
LEMMA EntryMismatchIsChange ==
  ASSUME AuditIndInv, NEW i \in DOMAIN log, log[i].hashed
  PROVE  EntryMismatch(i) <=> Changed(i)
<1>1. log[i].hash = <<i, log[i].written, log[i].prev>>
  BY DEF AuditIndInv, Chained, ChainedRow, Digest
<1> QED
  BY <1>1 DEF EntryMismatch, Changed, Digest

\* A verification of any range reports an unchanged row only if it is the
\* first one of the range (verify_integrity).
THEOREM FalseReportsOnlyFirst == AuditSpec => [](AuditTypeOK /\ OnlyFirstReportedFalsely)
<1>1. ASSUME AuditIndInv PROVE OnlyFirstReportedFalsely
  <2> SUFFICES ASSUME NEW start \in Ids, NEW end \in Ids,
                      NEW i \in Reported(Selected(start, end)), ~Changed(i)
               PROVE  First(Selected(start, end), i)
    BY DEF OnlyFirstReportedFalsely, First
  <2>1. /\ i \in Selected(start, end) /\ i \in DOMAIN log /\ log[i].hashed
        /\ PrevMismatch(Selected(start, end), i) \/ EntryMismatch(i)
    BY DEF Reported, Selected
  <2>2. ~EntryMismatch(i)
    BY <1>1, <2>1, EntryMismatchIsChange
  <2> QED
    BY <1>1, <2>1, <2>2, NoMismatchInside
<1> QED
  BY <1>1, AuditInvariance, PTL DEF AuditIndInv

\* Without a cleanup, the whole log is reported exactly where it was changed.
THEOREM WholeLogStaysValid == AuditSpec => []WholeLogVerifies
<1>1. ASSUME AuditIndInv, ~cleaned PROVE Reported(DOMAIN log) = {i \in DOMAIN log : log[i].hashed /\ Changed(i)}
  <2>1. ASSUME NEW i \in DOMAIN log, log[i].hashed
        PROVE  ~PrevMismatch(DOMAIN log, i)
    <3>0. DOMAIN log \subseteq Nat \ {0}
      BY <1>1, IdsAreNaturals DEF AuditIndInv, AuditTypeOK
    <3>1. ChainedRow(log, i, cleaned)
      BY <1>1 DEF AuditIndInv, Chained
    <3>2. CASE First(DOMAIN log, i)
      <4>1. log[i].prev = Zero
        BY <1>1, <2>1, <3>1, <3>2 DEF ChainedRow
      <4>2. \A p : Previous(DOMAIN log, i, p) => p = 0
        BY <3>2 DEF Previous, First
      <4> QED
        BY <4>1, <4>2 DEF PrevMismatch, HashOf
    <3>3. CASE ~First(DOMAIN log, i)
      <4>1. PICK p \in DOMAIN log : Previous(DOMAIN log, i, p) /\ log[i].prev = HashOf(log, p)
        BY <2>1, <3>1, <3>3 DEF ChainedRow
      <4>2. p < i /\ \A x \in DOMAIN log : x < i => x <= p
        BY <3>3, <4>1 DEF Previous, First
      <4>3. ASSUME NEW q, Previous(DOMAIN log, i, q)
            PROVE  q = p
        <5>1. q \in DOMAIN log /\ q < i /\ \A x \in DOMAIN log : x < i => x <= q
          BY <3>3, <4>3 DEF Previous, First
        <5>2. q <= p /\ p <= q
          BY <4>2, <5>1
        <5> QED
          BY <3>0, <5>1, <5>2
      <4> QED
        BY <4>1, <4>3 DEF PrevMismatch
    <3> QED
      BY <3>2, <3>3
  <2>2. \A i \in DOMAIN log : log[i].hashed => (EntryMismatch(i) <=> Changed(i))
    BY <1>1, EntryMismatchIsChange
  <2> QED
    BY <2>1, <2>2 DEF Reported
<1>2. AuditIndInv => WholeLogVerifies
  BY <1>1 DEF WholeLogVerifies
<1> QED
  BY <1>2, AuditInvariance, PTL

\* A row changed after it was hashed is reported in every range.
THEOREM ChangesStayReported == AuditSpec => []ChangesReported
<1>1. AuditIndInv => ChangesReported
  <2> SUFFICES ASSUME AuditIndInv, NEW start \in Ids, NEW end \in Ids,
                      NEW i \in Selected(start, end), log[i].hashed, Changed(i)
               PROVE  i \in Reported(Selected(start, end))
    BY DEF ChangesReported
  <2>1. i \in DOMAIN log
    BY DEF Selected
  <2> QED
    BY <2>1, EntryMismatchIsChange DEF Reported
<1> QED
  BY <1>1, AuditInvariance, PTL
=============================================================================
