--------------------------- MODULE RevocationProofs ---------------------------
(***************************************************************************)
(* Proofs about Revocation for any number of rows, serial numbers,         *)
(* requests and CRLs.                                                      *)
(***************************************************************************)
EXTENDS Revocation, TLAPS

\* A row in the table has a serial number.
RowsHaveSerial == \A r \in Rows : state[r] # "absent" => serial[r] \in Serials

\* Every time in the tables lies in the past, and no row was revoked in the
\* moment a CRL was made.
TimesPast ==
    /\ \A d \in crls : d.at < clock
    /\ \A r \in Rows : Revoked(r) => revokedAt[r] < clock
    /\ \A d \in crls, r \in Rows : Revoked(r) => revokedAt[r] # d.at

\* A delta refers to an earlier CRL.
DeltasLater == \A d \in crls : d.delta => d.base < d.number

\* The part of the invariant about the CRLs and the rows they list.
CrlInv ==
    /\ TimesPast
    /\ DeltasLater
    /\ NumbersOrdered
    /\ FullCrlsListRevoked
    /\ DeltaLeavesNoGap

\* The inductive invariant.
IndInv == TypeOK /\ RowsHaveSerial /\ CrlInv /\ RevocationPublished

-----------------------------------------------------------------------------
(* Numbers *)

\* Numbers and times of stored CRLs.
LEMMA CrlTypes ==
    ASSUME TypeOK, NEW d \in crls
    PROVE  /\ d.number \in Nat /\ d.number > 0 /\ d.at \in Nat /\ d.base \in Nat
           /\ d.delta \in BOOLEAN
           /\ clock \in Nat
  BY BoundsAssumption DEF TypeOK, CrlRow

\* The next number is above every number in use.
LEMMA NextNumberAbove ==
    ASSUME TypeOK, NEW n \in Nat, NextNumber(n), NEW e \in crls
    PROVE  e.number < n
<1>1. PICK d \in crls : n = d.number + 1 /\ \A x \in crls : x.number <= d.number
  BY DEF NextNumber
<1>2. d.number \in Nat /\ e.number \in Nat
  BY CrlTypes
<1> QED
  BY <1>1, <1>2

-----------------------------------------------------------------------------
(* Steps that leave the CRLs alone *)

\* A step that makes no CRL and either keeps a revoked row as it is or revokes
\* it now.
LEMMA RowStep ==
    ASSUME TypeOK, CrlInv, crls' = crls, clock' \in Nat, clock <= clock',
           \A r \in Rows : Revoked(r)' =>
             \/ Revoked(r) /\ Parsed(r)' = Parsed(r) /\ revokedAt'[r] = revokedAt[r]
             \/ revokedAt'[r] = clock /\ clock < clock'
    PROVE  CrlInv'
<1> USE DEF CrlInv
<1>0. clock \in Nat /\ \A r \in Rows : revokedAt[r] \in Nat
  BY BoundsAssumption DEF TypeOK
<1>1. TimesPast'
  <2>1. \A d \in crls : d.at < clock /\ d.at \in Nat
    BY CrlTypes DEF TimesPast
  <2>2. \A d \in crls : d.at < clock'
    BY <1>0, <2>1
  <2>3. \A r \in Rows : Revoked(r)' => revokedAt'[r] < clock'
    BY <1>0 DEF TimesPast
  <2>4. \A d \in crls, r \in Rows : Revoked(r)' => revokedAt'[r] # d.at
    BY <1>0, <2>1 DEF TimesPast
  <2> QED
    BY <2>2, <2>3, <2>4 DEF TimesPast
<1>2. DeltasLater'
  BY DEF DeltasLater
<1>3. NumbersOrdered'
  BY DEF NumbersOrdered
<1>4. FullCrlsListRevoked'
  <2> SUFFICES ASSUME NEW b \in crls, NEW r \in Rows, ~b.delta, Revoked(r)',
                      revokedAt'[r] < b.at
               PROVE  Parsed(r)' \in b.entries
    BY DEF FullCrlsListRevoked
  <2>1. b.at < clock /\ b.at \in Nat
    BY CrlTypes DEF TimesPast
  <2>2. Revoked(r) /\ Parsed(r)' = Parsed(r) /\ revokedAt'[r] = revokedAt[r]
    BY <1>0, <2>1
  <2> QED
    BY <2>2 DEF FullCrlsListRevoked
<1>5. DeltaLeavesNoGap'
  BY DEF DeltaLeavesNoGap
<1> QED
  BY <1>1, <1>2, <1>3, <1>4, <1>5

-----------------------------------------------------------------------------
(* Steps that make a CRL *)

\* The entry of a row is well-typed.
LEMMA NowTyped ==
    ASSUME TypeOK, RowsHaveSerial
    PROVE  /\ \A r \in Rows : Revoked(r) => Parsed(r) \in Entries
           /\ Now \in SUBSET Entries
<1>1. ASSUME NEW r \in Rows, Revoked(r) PROVE Parsed(r) \in Entries
  BY <1>1 DEF TypeOK, RowsHaveSerial, Revoked, Parsed, Entries
<1> QED
  BY <1>1 DEF Now

\* Adding a CRL c made now, numbered n, to the table keeps numbers and times
\* in order.
LEMMA CrlAdded ==
    ASSUME TypeOK, CrlInv, NEW n \in Nat, NextNumber(n), NEW c,
           crls' = crls \cup {c}, c.number = n, c.at = clock, clock' = clock + 1,
           c.delta => c.base < n,
           UNCHANGED rowVars
    PROVE  /\ \A e \in crls : e.number < c.number /\ e.at < c.at /\ e # c
           /\ TimesPast' /\ DeltasLater' /\ NumbersOrdered'
           /\ \A r \in Rows : /\ Revoked(r)' <=> Revoked(r)
                              /\ Parsed(r)' = Parsed(r)
                              /\ revokedAt'[r] = revokedAt[r]
<1> USE DEF CrlInv
<1>0. clock \in Nat /\ \A r \in Rows : revokedAt[r] \in Nat
  BY BoundsAssumption DEF TypeOK
<1>1. \A e \in crls : /\ e.number \in Nat /\ e.at \in Nat
                      /\ e.number < n /\ e.at < clock /\ e # c
  BY <1>0, CrlTypes, NextNumberAbove DEF TimesPast
<1>2. \A r \in Rows : /\ Revoked(r)' <=> Revoked(r)
                      /\ Parsed(r)' = Parsed(r)
                      /\ revokedAt'[r] = revokedAt[r]
  BY DEF rowVars, Revoked, Parsed
<1>3. TimesPast'
  <2>1. \A d \in crls' : d.at < clock'
    BY <1>0, <1>1
  <2>2. \A r \in Rows : Revoked(r) => revokedAt[r] < clock'
    BY <1>0 DEF TimesPast
  <2>3. \A d \in crls', r \in Rows : Revoked(r) => revokedAt[r] # d.at
    BY <1>0, <1>1 DEF TimesPast
  <2> QED
    BY <1>2, <2>1, <2>2, <2>3 DEF TimesPast
<1>4. DeltasLater'
  BY DEF DeltasLater
<1>5. NumbersOrdered'
  <2>1. ASSUME NEW d \in crls', NEW e \in crls', d # e
        PROVE  d.number # e.number /\ (d.at < e.at <=> d.number < e.number)
    <3>1. CASE d \in crls /\ e \in crls
      BY <2>1, <3>1 DEF NumbersOrdered
    <3>2. CASE d = c /\ e \in crls
      BY <1>0, <1>1, <3>2
    <3>3. CASE d \in crls /\ e = c
      BY <1>0, <1>1, <3>3
    <3> QED
      BY <2>1, <3>1, <3>2, <3>3
  <2> QED
    BY <2>1 DEF NumbersOrdered
<1> QED
  BY <1>1, <1>2, <1>3, <1>4, <1>5

\* generate_crl: the new full CRL is the latest and lists every revoked row.
LEMMA FullCrlMade ==
    ASSUME TypeOK, RowsHaveSerial, CrlInv, NEW n \in 1 .. MaxCrls, GenerateCrl(n),
           UNCHANGED rowVars
    PROVE  /\ CrlInv' /\ crls' \subseteq CrlRow
           /\ \A r \in Rows : Revoked(r)' =>
                \E b \in crls' : LatestBase(b)' /\ Parsed(r)' \in b.entries
<1>1. PICK c : c = [number |-> n, delta |-> FALSE, base |-> 0, at |-> clock,
                    entries |-> Now, revoked |-> Now]
  OBVIOUS
<1>2. /\ c.number = n /\ c.delta = FALSE /\ c.at = clock
      /\ c.entries = Now /\ c.revoked = Now
  BY <1>1
<1>3. /\ crls' = crls \cup {c} /\ NextNumber(n) /\ clock' = clock + 1 /\ n \in Nat
      /\ n <= MaxCrls
  BY <1>1, BoundsAssumption DEF GenerateCrl, ClockRead
<1>4. /\ \A e \in crls : e.number < c.number /\ e.at < c.at /\ e # c
      /\ TimesPast' /\ DeltasLater' /\ NumbersOrdered'
      /\ \A r \in Rows : /\ Revoked(r)' <=> Revoked(r)
                         /\ Parsed(r)' = Parsed(r)
                         /\ revokedAt'[r] = revokedAt[r]
  BY <1>2, <1>3, CrlAdded
<1>5. \A r \in Rows : Revoked(r) => Parsed(r) \in c.entries
  BY <1>2 DEF Now
<1>6. FullCrlsListRevoked'
  <2>1. ASSUME NEW b \in crls', NEW r \in Rows, ~b.delta, Revoked(r), revokedAt[r] < b.at
        PROVE  Parsed(r) \in b.entries
    BY <1>3, <1>5, <2>1 DEF FullCrlsListRevoked, CrlInv
  <2> QED
    BY <1>4, <2>1 DEF FullCrlsListRevoked
<1>7. DeltaLeavesNoGap'
  <2>1. ASSUME NEW d \in crls', NEW b \in crls', d.delta, ~b.delta, b.number = d.base
        PROVE  d.revoked \subseteq d.entries \cup b.entries
    <3>1. d \in crls
      BY <1>2, <1>3, <2>1
    <3>2. b \in crls
      <4>1. d.base < d.number /\ d.number < c.number
        BY <1>4, <2>1, <3>1 DEF CrlInv, DeltasLater
      <4>2. d.base \in Nat /\ d.number \in Nat /\ c.number \in Nat
        BY <1>2, <1>3, <3>1, CrlTypes
      <4>3. b # c
        BY <2>1, <4>1, <4>2
      <4> QED
        BY <1>3, <4>3
    <3> QED
      BY <2>1, <3>1, <3>2 DEF CrlInv, DeltaLeavesNoGap
  <2> QED
    BY <2>1 DEF DeltaLeavesNoGap
<1>8. crls' \subseteq CrlRow
  <2>1. c \in CrlRow
    <3>1. Now \in SUBSET Entries /\ 0 \in 0 .. MaxCrls /\ clock \in 0 .. MaxTime
      BY NowTyped, BoundsAssumption DEF TypeOK
    <3> QED
      BY <1>1, <3>1 DEF CrlRow
  <2> QED
    BY <1>3, <2>1 DEF TypeOK
<1>9. LatestBase(c)' /\ c \in crls'
  <2>1. \A e \in crls' : ~e.delta => e.number <= c.number
    <3>1. \A e \in crls : e.number \in Nat /\ e.number < c.number
      BY <1>4, CrlTypes
    <3> QED
      BY <1>2, <1>3, <3>1
  <2> QED
    BY <1>2, <1>3, <2>1 DEF LatestBase
<1> QED
  BY <1>4, <1>5, <1>6, <1>7, <1>8, <1>9 DEF CrlInv

\* generate_delta_crl: a row is either revoked after the base was made, and in
\* the delta, or before, and in the base.
LEMMA DeltaMade ==
    ASSUME TypeOK, RowsHaveSerial, CrlInv, NEW n \in 1 .. MaxCrls, NEW b \in crls,
           GenerateDelta(n, b)
    PROVE  /\ CrlInv' /\ crls' \subseteq CrlRow
           /\ \A e \in crls : LatestBase(e) => LatestBase(e)'
           /\ crls \subseteq crls'
<1> DEFINE new == {Parsed(r) : r \in {x \in Rows : Revoked(x) /\ revokedAt[x] > b.at}}
<1>1. PICK c : c = [number |-> n, delta |-> TRUE, base |-> b.number, at |-> clock,
                    entries |-> new, revoked |-> Now]
  OBVIOUS
<1>2. /\ c.number = n /\ c.delta = TRUE /\ c.base = b.number /\ c.at = clock
      /\ c.entries = new /\ c.revoked = Now
  BY <1>1
<1>3. /\ crls' = crls \cup {c} /\ NextNumber(n) /\ clock' = clock + 1 /\ n \in Nat
      /\ UNCHANGED rowVars /\ LatestBase(b)
  BY <1>1, BoundsAssumption DEF GenerateDelta, ClockRead
<1>4. c.base < n
  BY <1>2, <1>3, NextNumberAbove
<1>5. /\ \A e \in crls : e.number < c.number /\ e.at < c.at /\ e # c
      /\ TimesPast' /\ DeltasLater' /\ NumbersOrdered'
      /\ \A r \in Rows : /\ Revoked(r)' <=> Revoked(r)
                         /\ Parsed(r)' = Parsed(r)
                         /\ revokedAt'[r] = revokedAt[r]
  BY <1>2, <1>3, <1>4, CrlAdded
<1>6. FullCrlsListRevoked'
  <2>1. ASSUME NEW f \in crls', NEW r \in Rows, ~f.delta, Revoked(r), revokedAt[r] < f.at
        PROVE  Parsed(r) \in f.entries
    BY <1>2, <1>3, <2>1 DEF FullCrlsListRevoked, CrlInv
  <2> QED
    BY <1>5, <2>1 DEF FullCrlsListRevoked
<1>7. Now \subseteq new \cup b.entries
  <2> SUFFICES ASSUME NEW r \in Rows, Revoked(r)
               PROVE  Parsed(r) \in new \cup b.entries
    BY DEF Now
  <2>0. revokedAt[r] \in Nat /\ b.at \in Nat /\ revokedAt[r] # b.at
    BY CrlTypes, BoundsAssumption DEF TypeOK, CrlInv, TimesPast
  <2>1. CASE revokedAt[r] > b.at
    BY <2>1
  <2>2. CASE revokedAt[r] < b.at
    BY <1>3, <2>2 DEF CrlInv, FullCrlsListRevoked, LatestBase
  <2> QED
    BY <2>0, <2>1, <2>2
<1>8. DeltaLeavesNoGap'
  <2>1. ASSUME NEW d \in crls', NEW f \in crls', d.delta, ~f.delta, f.number = d.base
        PROVE  d.revoked \subseteq d.entries \cup f.entries
    <3>1. f \in crls
      BY <1>2, <1>3, <2>1
    <3>2. CASE d \in crls
      BY <2>1, <3>1, <3>2 DEF CrlInv, DeltaLeavesNoGap
    <3>3. CASE d = c
      <4>1. f = b
        BY <1>2, <2>1, <3>1, <3>3 DEF CrlInv, NumbersOrdered
      <4> QED
        BY <1>2, <1>7, <3>3, <4>1
    <3> QED
      BY <1>3, <3>2, <3>3
  <2> QED
    BY <2>1 DEF DeltaLeavesNoGap
<1>9. crls' \subseteq CrlRow
  <2>1. new \in SUBSET Entries /\ Now \in SUBSET Entries
    BY NowTyped
  <2>2. c \in CrlRow
    BY <1>1, <2>1 DEF CrlRow, TypeOK
  <2> QED
    BY <1>3, <2>2 DEF TypeOK
<1>10. \A e \in crls : LatestBase(e) => LatestBase(e)'
  BY <1>2, <1>3 DEF LatestBase
<1> QED
  BY <1>3, <1>5, <1>6, <1>8, <1>9, <1>10 DEF CrlInv

-----------------------------------------------------------------------------
(* Invariance *)

\* What each handler does to the rows: a row that is revoked after a step
\* was so before, with the same entry, or is revoked by it and waited for.
LEMMA PublishedKept ==
    ASSUME IndInv, crls' = crls,
           \A r \in Rows : Revoked(r)' =>
             \/ /\ Revoked(r) /\ Parsed(r)' = Parsed(r)
                /\ \A q \in Requests : waiting[q] = r => waiting'[q] = r \/ r \in missed'
             \/ \E q \in Requests : waiting'[q] = r,
           missed \subseteq missed'
    PROVE  RevocationPublished'
<1> SUFFICES ASSUME NEW r \in Rows, Revoked(r)', r \notin missed',
                    \A q \in Requests : waiting'[q] # r
             PROVE  \E b \in crls' : LatestBase(b)' /\ Parsed(r)' \in b.entries
  BY DEF RevocationPublished
<1>1. /\ Revoked(r) /\ Parsed(r)' = Parsed(r)
      /\ \A q \in Requests : waiting[q] # r
  OBVIOUS
<1>2. PICK b \in crls : LatestBase(b) /\ Parsed(r) \in b.entries
  BY <1>1 DEF IndInv, RevocationPublished
<1>3. LatestBase(b)'
  BY <1>2 DEF LatestBase
<1> QED
  BY <1>1, <1>2, <1>3

\* Every step preserves the invariant.
LEMMA InvPreserved ==
    ASSUME IndInv, [Next]_vars
    PROVE  IndInv'
<1>0. TypeOK /\ RowsHaveSerial /\ CrlInv /\ clock \in Nat /\ MaxTime \in Nat
  BY BoundsAssumption DEF IndInv, TypeOK
<1>1. ASSUME NEW r \in Rows, NEW s \in Serials,
             Renew(r, s) \/ \E how \in {"hex", "dec"} : Issue(r, s, how)
      PROVE  IndInv'
  <2>1. TypeOK' /\ RowsHaveSerial'
    BY <1>0, <1>1 DEF Renew, Issue, TypeOK, RowsHaveSerial
  <2>2. \A x \in Rows : Revoked(x)' =>
           /\ x # r /\ Revoked(x) /\ Parsed(x)' = Parsed(x) /\ revokedAt'[x] = revokedAt[x]
    BY <1>0, <1>1 DEF Renew, Issue, TypeOK, Revoked, Parsed
  <2>3. /\ crls' = crls /\ clock' = clock /\ waiting' = waiting /\ missed' = missed
    BY <1>1 DEF Renew, Issue
  <2>4. CrlInv'
    BY <1>0, <2>2, <2>3, RowStep
  <2>5. RevocationPublished'
    BY <2>2, <2>3, PublishedKept
  <2> QED
    BY <2>1, <2>4, <2>5 DEF IndInv
<1>2. ASSUME NEW r \in Rows, Delete(r) \/ Unhold(r)
      PROVE  IndInv'
  <2>1. TypeOK' /\ RowsHaveSerial'
    BY <1>0, <1>2 DEF Delete, Unhold, TypeOK, RowsHaveSerial
  <2>2. \A x \in Rows : Revoked(x)' =>
           /\ x # r /\ Revoked(x) /\ Parsed(x)' = Parsed(x) /\ revokedAt'[x] = revokedAt[x]
    BY <1>0, <1>2 DEF Delete, Unhold, TypeOK, Revoked, Parsed
  <2>3. /\ crls' = crls /\ clock' = clock /\ waiting' = waiting /\ missed' = missed
    BY <1>2 DEF Delete, Unhold
  <2>4. CrlInv'
    BY <1>0, <2>2, <2>3, RowStep
  <2>5. RevocationPublished'
    BY <2>2, <2>3, PublishedKept
  <2> QED
    BY <2>1, <2>4, <2>5 DEF IndInv
<1>3. ASSUME NEW q \in Requests, NEW r \in Rows, NEW how \in {"revoked", "held"},
             Revoke(q, r, how)
      PROVE  IndInv'
  <2>1. clock < MaxTime /\ clock' = clock + 1 /\ clock \in 0 .. MaxTime
    BY <1>0, <1>3 DEF Revoke, ClockRead, TypeOK
  <2>2. TypeOK'
    <3>1. clock' \in 0 .. MaxTime
      BY <1>0, <2>1
    <3> QED
      BY <1>0, <1>3, <2>1, <3>1 DEF Revoke, TypeOK
  <2>3. RowsHaveSerial'
    BY <1>0, <1>3 DEF Revoke, TypeOK, RowsHaveSerial
  <2>4. \A x \in Rows : x # r =>
          /\ Revoked(x)' <=> Revoked(x)
          /\ Parsed(x)' = Parsed(x) /\ revokedAt'[x] = revokedAt[x]
    BY <1>0, <1>3 DEF Revoke, TypeOK, Revoked, Parsed
  <2>5. /\ crls' = crls /\ missed' = missed /\ revokedAt'[r] = clock
        /\ waiting[q] = None /\ waiting'[q] = r
        /\ \A p \in Requests : p # q => waiting'[p] = waiting[p]
    BY <1>0, <1>3 DEF Revoke, TypeOK
  <2>6. CrlInv'
    <3>1. clock' \in Nat /\ clock <= clock' /\ clock < clock'
      BY <1>0, <2>1
    <3>2. \A x \in Rows : Revoked(x)' =>
            \/ Revoked(x) /\ Parsed(x)' = Parsed(x) /\ revokedAt'[x] = revokedAt[x]
            \/ revokedAt'[x] = clock /\ clock < clock'
      BY <2>4, <2>5, <3>1
    <3> QED
      BY <1>0, <2>5, <3>1, <3>2, RowStep
  <2>7. RevocationPublished'
    <3>1. \A p \in Requests, x \in Rows : waiting[p] = x => waiting'[p] = x
      BY <2>5, NoneAssumption
    <3> QED
      BY <2>4, <2>5, <3>1, PublishedKept
  <2> QED
    BY <2>2, <2>3, <2>6, <2>7 DEF IndInv
<1>4. ASSUME NEW q \in Requests, FinishWithoutCrl(q)
      PROVE  IndInv'
  <2>1. /\ UNCHANGED <<rowVars, crls, clock>>
        /\ waiting[q] \in Rows /\ missed' = missed \cup {waiting[q]}
        /\ \A p \in Requests : p # q => waiting'[p] = waiting[p]
    BY <1>0, <1>4 DEF FinishWithoutCrl, Resume, TypeOK
  <2>2. TypeOK' /\ RowsHaveSerial'
    BY <1>0, <1>4, <2>1 DEF FinishWithoutCrl, Resume, TypeOK, RowsHaveSerial, rowVars
  <2>3. \A x \in Rows : /\ Revoked(x)' <=> Revoked(x)
                        /\ Parsed(x)' = Parsed(x) /\ revokedAt'[x] = revokedAt[x]
    BY <2>1 DEF rowVars, Revoked, Parsed
  <2>4. CrlInv'
    BY <1>0, <2>1, <2>3, RowStep
  <2>5. RevocationPublished'
    BY <2>1, <2>3, PublishedKept
  <2> QED
    BY <2>2, <2>4, <2>5 DEF IndInv
<1>5. ASSUME NEW q \in Requests, NEW n \in 1 .. MaxCrls, FinishRevoke(q, n)
      PROVE  IndInv'
  <2>1. CrlInv' /\ crls' \subseteq CrlRow /\ RevocationPublished'
    BY <1>0, <1>5, FullCrlMade DEF FinishRevoke, RevocationPublished
  <2>2. clock' \in 0 .. MaxTime
    BY <1>0, <1>5 DEF FinishRevoke, GenerateCrl, ClockRead, TypeOK
  <2>3. TypeOK' /\ RowsHaveSerial'
    BY <1>0, <1>5, <2>1, <2>2
       DEF FinishRevoke, Resume, TypeOK, RowsHaveSerial, rowVars
  <2> QED
    BY <2>1, <2>3 DEF IndInv
<1>6. ASSUME NEW n \in 1 .. MaxCrls, RegenerateCrl(n)
      PROVE  IndInv'
  <2>1. CrlInv' /\ crls' \subseteq CrlRow /\ RevocationPublished'
    BY <1>0, <1>6, FullCrlMade DEF RegenerateCrl, RevocationPublished
  <2>2. clock' \in 0 .. MaxTime
    BY <1>0, <1>6 DEF RegenerateCrl, GenerateCrl, ClockRead, TypeOK
  <2>3. TypeOK' /\ RowsHaveSerial'
    BY <1>0, <1>6, <2>1, <2>2 DEF RegenerateCrl, TypeOK, RowsHaveSerial, rowVars
  <2> QED
    BY <2>1, <2>3 DEF IndInv
<1>7. ASSUME NEW n \in 1 .. MaxCrls, NEW b \in crls, GenerateDelta(n, b)
      PROVE  IndInv'
  <2>1. /\ CrlInv' /\ crls' \subseteq CrlRow /\ crls \subseteq crls'
        /\ \A e \in crls : LatestBase(e) => LatestBase(e)'
    BY <1>0, <1>7, DeltaMade
  <2>2. clock' \in 0 .. MaxTime
    BY <1>0, <1>7 DEF GenerateDelta, ClockRead, TypeOK
  <2>3. TypeOK' /\ RowsHaveSerial'
    BY <1>0, <1>7, <2>1, <2>2 DEF GenerateDelta, TypeOK, RowsHaveSerial, rowVars
  <2>4. /\ \A x \in Rows : (Revoked(x)' <=> Revoked(x)) /\ Parsed(x)' = Parsed(x)
        /\ waiting' = waiting /\ missed' = missed
    BY <1>7 DEF GenerateDelta, rowVars, Revoked, Parsed
  <2>5. RevocationPublished'
    BY <2>1, <2>4 DEF IndInv, RevocationPublished
  <2> QED
    BY <2>1, <2>3, <2>5 DEF IndInv
<1>8. ASSUME SwitchCdp \/ SwitchDeltas \/ UNCHANGED vars
      PROVE  IndInv'
  <2>1. /\ UNCHANGED <<rowVars, crls, clock, waiting, missed, drawn>>
    BY <1>8 DEF SwitchCdp, SwitchDeltas, vars
  <2>2. cdp' \in BOOLEAN /\ deltas' \in BOOLEAN
    BY <1>0, <1>8 DEF SwitchCdp, SwitchDeltas, vars, TypeOK
  <2>3. TypeOK' /\ RowsHaveSerial'
    BY <1>0, <2>1, <2>2 DEF TypeOK, RowsHaveSerial, rowVars
  <2>4. \A x \in Rows : /\ Revoked(x)' <=> Revoked(x)
                        /\ Parsed(x)' = Parsed(x) /\ revokedAt'[x] = revokedAt[x]
    BY <2>1 DEF rowVars, Revoked, Parsed
  <2>5. CrlInv'
    BY <1>0, <2>1, <2>4, RowStep
  <2>6. RevocationPublished'
    BY <2>1, <2>4, PublishedKept
  <2> QED
    BY <2>3, <2>5, <2>6 DEF IndInv
<1>9. ASSUME Restart
      PROVE  IndInv'
  <2>1. /\ UNCHANGED <<rowVars, crls, clock>>
        /\ missed \subseteq missed' /\ missed' \subseteq Rows
        /\ \A q \in Requests : waiting[q] \in Rows => waiting[q] \in missed'
    BY <1>0, <1>9, NoneAssumption DEF Restart, TypeOK
  <2>2. TypeOK' /\ RowsHaveSerial'
    BY <1>0, <1>9, <2>1 DEF Restart, TypeOK, RowsHaveSerial, rowVars
  <2>3. \A x \in Rows : /\ Revoked(x)' <=> Revoked(x)
                        /\ Parsed(x)' = Parsed(x) /\ revokedAt'[x] = revokedAt[x]
    BY <2>1 DEF rowVars, Revoked, Parsed
  <2>4. CrlInv'
    BY <1>0, <2>1, <2>3, RowStep
  <2>5. RevocationPublished'
    BY <2>1, <2>3, PublishedKept
  <2> QED
    BY <2>2, <2>4, <2>5 DEF IndInv
<1> QED
  BY <1>1, <1>2, <1>3, <1>4, <1>5, <1>6, <1>7, <1>8, <1>9 DEF Next

\* Nothing is revoked and no CRL exists at first.
LEMMA InvInitially == Init => IndInv
<1> SUFFICES ASSUME Init PROVE IndInv
  OBVIOUS
<1>1. crls = {} /\ \A r \in Rows : ~Revoked(r)
  BY DEF Init, Revoked
<1>2. TypeOK
  <2>1. revokedAt \in [Rows -> 0 .. MaxTime] /\ clock \in 0 .. MaxTime
    BY BoundsAssumption DEF Init
  <2>2. /\ state \in [Rows -> {"absent", "good", "revoked", "held"}]
        /\ serial \in [Rows -> Serials \cup {None}]
        /\ stored \in [Rows -> {"hex", "dec"}]
        /\ waiting \in [Requests -> Rows \cup {None}]
    BY DEF Init
  <2>3. /\ cdp \in BOOLEAN /\ deltas \in BOOLEAN
        /\ crls \subseteq CrlRow /\ drawn \subseteq Serials /\ missed \subseteq Rows
    BY DEF Init
  <2> QED
    BY <2>1, <2>2, <2>3 DEF TypeOK
<1>3. RowsHaveSerial
  BY DEF Init, RowsHaveSerial
<1>4. CrlInv
  BY <1>1, BoundsAssumption
     DEF Init, CrlInv, TimesPast, DeltasLater, NumbersOrdered, FullCrlsListRevoked,
         DeltaLeavesNoGap
<1>5. RevocationPublished
  BY <1>1 DEF RevocationPublished
<1> QED
  BY <1>2, <1>3, <1>4, <1>5 DEF IndInv

\* The inductive invariant holds in every reachable state.
THEOREM Invariance == Spec => []IndInv
  BY InvInitially, InvPreserved, PTL DEF Spec

\* CRL numbers are never used twice and grow with time.
THEOREM NumbersStayOrdered == Spec => []NumbersOrdered
<1>1. IndInv => NumbersOrdered
  BY DEF IndInv, CrlInv
<1> QED
  BY <1>1, Invariance, PTL

\* A full CRL lists every row that was revoked before it and still is.
THEOREM FullCrlsComplete == Spec => []FullCrlsListRevoked
<1>1. IndInv => FullCrlsListRevoked
  BY DEF IndInv, CrlInv
<1> QED
  BY <1>1, Invariance, PTL

\* A delta CRL and its base leave no revocation out.
THEOREM DeltasComplete == Spec => []DeltaLeavesNoGap
<1>1. IndInv => DeltaLeavesNoGap
  BY DEF IndInv, CrlInv
<1> QED
  BY <1>1, Invariance, PTL

\* A revocation that ran to its end with the CDP on is published, however
\* many revocations overlap.
THEOREM RevocationsPublished == Spec => []RevocationPublished
<1>1. IndInv => RevocationPublished
  BY DEF IndInv
<1> QED
  BY <1>1, Invariance, PTL
=============================================================================
