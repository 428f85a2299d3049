--------------------------- MODULE DiscoveryProofs ---------------------------
(***************************************************************************)
(* The semaphore of Discovery is never out of step with the scan threads,  *)
(* and what the table says of an endpoint was true of it.                  *)
(***************************************************************************)
EXTENDS Discovery, FiniteSetTheorems, TLAPS

\* The certificate an endpoint answers with was last there now, others earlier.
ServedNow ==
    \A e \in Endpoints : /\ servedLast[e][served[e]] = clock
                         /\ \A f \in Fingerprints : servedLast[e][f] <= clock

\* What a probe brought home was on its endpoint after the scan began.
ProbesBacked ==
    \A r \in Scans, e \in Endpoints :
        run[r].results[e] \in Fingerprints =>
            servedLast[e][run[r].results[e]] >= run[r].since

\* No scan begins in the future.
ScansBegan == \A r \in Scans : run[r].since <= clock

\* The inductive invariant.
IndInv ==
    TypeOK /\ PermitsAccounted /\ ServedNow /\ ProbesBacked /\ ScansBegan /\ LastSeenBacked

Threads == {r \in Scans : Active(r)}

-----------------------------------------------------------------------------
(* The semaphore *)

\* The threads are finitely many, and at most as many as there are permits.
LEMMA ThreadsFinite ==
    ASSUME PermitsAccounted, TypeOK
    PROVE  /\ IsFiniteSet(Threads) /\ Cardinality(Threads) \in Nat
           /\ permits = MaxScans - Cardinality(Threads)
           /\ Threads # {} => permits < MaxScans
<1>1. IsFiniteSet(Threads)
  BY BoundsAssumption, FS_Subset DEF Threads
<1>2. Cardinality(Threads) \in Nat
  BY <1>1, FS_CardinalityType
<1>3. permits = MaxScans - Cardinality(Threads)
  BY <1>2, BoundsAssumption DEF PermitsAccounted, Threads, TypeOK
<1>4. Threads # {} => Cardinality(Threads) # 0
  BY <1>1, FS_EmptySet
<1> QED
  BY <1>1, <1>2, <1>3, <1>4, BoundsAssumption

\* A thread begins with a permit.
LEMMA PermitTaken ==
    ASSUME PermitsAccounted, TypeOK, NEW r \in Scans, ~Active(r),
           permits' = permits - 1, Threads' = Threads \cup {r}
    PROVE  PermitsAccounted'
<1>1. Cardinality(Threads \cup {r}) = Cardinality(Threads) + 1
  BY ThreadsFinite, FS_AddElement DEF Threads
<1>2. Cardinality(Threads)' = Cardinality(Threads \cup {r})
  OBVIOUS
<1>3. PermitsAccounted' <=> permits' + Cardinality(Threads)' = MaxScans
  BY DEF PermitsAccounted, Threads
<1>4. permits = MaxScans - Cardinality(Threads) /\ Cardinality(Threads) \in Nat
  BY ThreadsFinite
<1> QED
  BY <1>1, <1>2, <1>3, <1>4, BoundsAssumption

\* It ends and returns it.
LEMMA PermitReturned ==
    ASSUME PermitsAccounted, TypeOK, NEW r \in Scans, Active(r),
           permits' = permits + 1, Threads' = Threads \ {r}
    PROVE  PermitsAccounted'
<1>1. Cardinality(Threads \ {r}) = Cardinality(Threads) - 1
  BY ThreadsFinite, FS_RemoveElement DEF Threads
<1>2. Cardinality(Threads)' = Cardinality(Threads \ {r})
  OBVIOUS
<1>3. PermitsAccounted' <=> permits' + Cardinality(Threads)' = MaxScans
  BY DEF PermitsAccounted, Threads
<1>4. permits = MaxScans - Cardinality(Threads) /\ Cardinality(Threads) \in Nat
  BY ThreadsFinite
<1> QED
  BY <1>1, <1>2, <1>3, <1>4, BoundsAssumption

-----------------------------------------------------------------------------
(* Rows *)

\* A stored result is a row, and is backed if the probe was.
LEMMA SavedRowBacked ==
    ASSUME IndInv, NEW r \in Scans, NEW e \in Endpoints
    PROVE  /\ SavedRow(r, e) \in Row \cup {NoRow}
           /\ SavedRow(r, e).status \in {"managed", "unmanaged"} =>
                servedLast[e][SavedRow(r, e).fp] >= SavedRow(r, e).seen
<1>1. /\ run[r].results[e] \in Outcome /\ run[r].since \in Time
      /\ found[e] \in Row \cup {NoRow}
      /\ found[e].fp \in Fingerprints \cup {None}
  BY DEF IndInv, TypeOK, Run, Row, NoRow
<1>2. CASE run[r].results[e] = "nothing"
  BY <1>1, <1>2 DEF SavedRow, IndInv, LastSeenBacked
<1>3. CASE run[r].results[e] = "error"
  BY <1>1, <1>3 DEF SavedRow, Row
<1>4. CASE run[r].results[e] \in Fingerprints
  <2>1. run[r].results[e] # "nothing" /\ run[r].results[e] # "error"
    BY <1>4, NoneAssumption
  <2>2. SavedRow(r, e) =
          [fp |-> run[r].results[e], seen |-> run[r].since,
           status |-> IF run[r].results[e] \in run[r].index THEN "managed" ELSE "unmanaged"]
    BY <2>1 DEF SavedRow
  <2> QED
    BY <1>1, <1>4, <2>2 DEF Row, IndInv, ProbesBacked
<1> QED
  BY <1>1, <1>2, <1>3, <1>4 DEF Outcome

\* The table after a scan.
LEMMA TableBacked ==
    ASSUME IndInv, NEW r \in Scans, servedLast' = servedLast,
           found' \in {found, [e \in Endpoints |-> SavedRow(r, e)]}
    PROVE  /\ found' \in [Endpoints -> Row \cup {NoRow}]
           /\ LastSeenBacked'
<1>1. CASE found' = found
  BY <1>1 DEF IndInv, TypeOK, LastSeenBacked
<1>2. CASE found' = [e \in Endpoints |-> SavedRow(r, e)]
  BY <1>2, SavedRowBacked DEF LastSeenBacked
<1> QED
  BY <1>1, <1>2

\* A run without its locals.
LEMMA LeftRun ==
    ASSUME TypeOK, NEW r \in Scans, NEW status \in {"unused", "running", "completed", "failed"},
           NEW thread \in {"none", "probing", "mailing"},
           run' = Left(r, status, thread)
    PROVE  /\ run' \in [Scans -> Run]
           /\ \A x \in Scans : run'[x].since = run[x].since
           /\ \A x \in Scans, e \in Endpoints :
                 run'[x].results[e] = run[x].results[e] \/ run'[x].results[e] = "nothing"
           /\ \A x \in Scans : x # r => run'[x] = run[x]
           /\ run'[r].thread = thread
<1>1. run[r] \in Run
  BY DEF TypeOK
<1>2. [e \in Endpoints |-> "nothing"] \in [Endpoints -> Outcome]
  BY DEF Outcome
<1>3. /\ \A x \in Scans : x # r => run'[x] = run[x]
      /\ run'[r] = [run[r] EXCEPT !.status = status, !.thread = thread, !.index = {},
                                  !.results = [e \in Endpoints |-> "nothing"]]
      /\ run' = [x \in Scans |-> run'[x]]
  BY DEF TypeOK, Left
<1>4. run'[r] \in Run
  BY <1>1, <1>2, <1>3 DEF Run
<1>5. run' \in [Scans -> Run]
  BY <1>3, <1>4 DEF TypeOK
<1>6. /\ run'[r].since = run[r].since /\ run'[r].thread = thread
      /\ \A e \in Endpoints : run'[r].results[e] = "nothing"
  BY <1>1, <1>3 DEF Run
<1>7. \A x \in Scans : run'[x].since = run[x].since
  BY <1>3, <1>6
<1>8. \A x \in Scans, e \in Endpoints :
        run'[x].results[e] = run[x].results[e] \/ run'[x].results[e] = "nothing"
  <2> TAKE x \in Scans, e \in Endpoints
  <2>1. CASE x = r
    BY <1>6, <2>1
  <2>2. CASE x # r
    <3>1. run'[x] = run[x]
      BY <1>3, <2>2
    <3> QED
      BY <3>1
  <2> QED
    BY <2>1, <2>2
<1> QED
  BY <1>3, <1>5, <1>6, <1>7, <1>8

\* The history invariants only look at the runs, the table and the endpoints.
LEMMA HistoryKept ==
    ASSUME IndInv, UNCHANGED <<served, servedLast, clock>>,
           \A x \in Scans : run'[x].since = run[x].since,
           \A x \in Scans, e \in Endpoints :
              run'[x].results[e] = run[x].results[e] \/ run'[x].results[e] = "nothing"
    PROVE  ServedNow' /\ ProbesBacked' /\ ScansBegan'
  BY NoneAssumption DEF IndInv, ServedNow, ProbesBacked, ScansBegan

-----------------------------------------------------------------------------
(* Steps *)

\* Steps that leave the scans and the endpoints alone.
LEMMA ProfileSteps ==
    ASSUME IndInv, NEW p \in Profiles,
           (\E scheduled \in BOOLEAN : CreateProfile(p, scheduled))
             \/ UpdateProfile(p) \/ DeleteProfile(p)
    PROVE  IndInv'
<1>1. /\ UNCHANGED <<checked, run, permits, found, cache, inventory, served, servedLast, clock>>
      /\ \E q \in Profile : profile' = [profile EXCEPT ![p] = q]
  <2>0. /\ clock \in 0 .. MaxTime /\ MaxTime \in Nat /\ Interval \in Nat
        /\ profile[p] \in Profile
    BY BoundsAssumption DEF IndInv, TypeOK, Time
  <2>1. clock + Interval \in (0 .. MaxTime + Interval) \cup {-1} /\ -1 \in Time \cup {-1}
    BY <2>0
  <2>2. -1 \in (0 .. MaxTime + Interval) \cup {-1}
    OBVIOUS
  <2>3. CASE \E scheduled \in BOOLEAN : CreateProfile(p, scheduled)
    <3>1. PICK b \in BOOLEAN : CreateProfile(p, b)
      BY <2>3
    <3> DEFINE q == [exists |-> TRUE, scheduled |-> b,
                     next |-> IF b THEN clock + Interval ELSE -1, last |-> -1]
    <3>2. q \in Profile
      BY <2>1, <2>2 DEF Profile
    <3> QED
      BY <3>1, <3>2 DEF CreateProfile
  <2>4. CASE UpdateProfile(p)
    <3> DEFINE q == [profile[p] EXCEPT !.scheduled = ~@,
                       !.next = IF ~profile[p].scheduled /\ @ = -1 THEN clock + Interval ELSE @]
    <3>1. q \in Profile
      BY <2>0, <2>1 DEF Profile
    <3>2. profile' = [profile EXCEPT ![p] = q]
      BY <2>4 DEF UpdateProfile, IndInv, TypeOK
    <3> QED
      BY <2>4, <3>1, <3>2 DEF UpdateProfile
  <2>5. CASE DeleteProfile(p)
    <3> DEFINE q == [exists |-> FALSE, scheduled |-> FALSE, next |-> -1, last |-> -1]
    <3>1. q \in Profile
      BY <2>1, <2>2 DEF Profile
    <3> QED
      BY <2>5, <3>1 DEF DeleteProfile
  <2> QED
    BY <2>3, <2>4, <2>5
<1>2. TypeOK'
  BY <1>1 DEF IndInv, TypeOK
<1>3. PermitsAccounted' /\ ServedNow' /\ ProbesBacked' /\ ScansBegan' /\ LastSeenBacked'
  BY <1>1 DEF IndInv, PermitsAccounted, Active, ServedNow, ProbesBacked, ScansBegan,
              LastSeenBacked
<1> QED
  BY <1>2, <1>3 DEF IndInv

\* A scan begins.
LEMMA StartSteps ==
    ASSUME IndInv, NEW r \in Scans, NEW p \in Profiles \cup {None}, NEW b \in BOOLEAN,
           StartScan(r, p, b), checked' \subseteq Profiles
    PROVE  IndInv'
<1>0. TypeOK /\ PermitsAccounted
  BY DEF IndInv
<1>1. cache' \in [at : Time \cup {-1}, fps : SUBSET Fingerprints]
  BY <1>0 DEF StartScan, BuildFingerprintIndex, TypeOK
<1> DEFINE new == [status |-> "running", thread |-> "probing", profile |-> p,
                   scheduled |-> b, since |-> clock, index |-> cache'.fps,
                   results |-> [e \in Endpoints |-> "nothing"]]
<1>2. new \in Run
  <2>1. [e \in Endpoints |-> "nothing"] \in [Endpoints -> Outcome]
    BY DEF Outcome
  <2>2. cache'.fps \in SUBSET Fingerprints /\ clock \in Time
    BY <1>0, <1>1 DEF TypeOK
  <2> QED
    BY <2>1, <2>2 DEF Run
<1>3. run' = [run EXCEPT ![r] = new]
  BY DEF StartScan
<1> HIDE DEF new
<1>4. permits' \in 0 .. MaxScans
  BY <1>0, BoundsAssumption DEF TypeOK, StartScan
<1>5. run' \in [Scans -> Run]
  BY <1>0, <1>2, <1>3 DEF TypeOK
<1>6. TypeOK'
  BY <1>0, <1>1, <1>4, <1>5 DEF TypeOK, StartScan
<1>7. run'[r] = new /\ \A x \in Scans : x # r => run'[x] = run[x]
  BY <1>0, <1>3 DEF TypeOK
<1>8. /\ new.thread = "probing" /\ new.since = clock
      /\ \A e \in Endpoints : new.results[e] = "nothing"
  BY DEF new
<1>9. PermitsAccounted'
  <2>1. Threads' = Threads \cup {r}
    BY <1>7, <1>8 DEF Threads, Active
  <2> QED
    BY <1>0, <2>1, PermitTaken DEF StartScan
<1>10. ServedNow' /\ LastSeenBacked'
  BY DEF StartScan, IndInv, ServedNow, LastSeenBacked
<1>11. ProbesBacked'
  <2> SUFFICES ASSUME NEW x \in Scans, NEW e \in Endpoints, run'[x].results[e] \in Fingerprints
               PROVE  servedLast'[e][run'[x].results[e]] >= run'[x].since
    BY DEF ProbesBacked
  <2>1. x # r
    BY <1>7, <1>8, NoneAssumption
  <2>2. run'[x] = run[x] /\ servedLast' = servedLast
    BY <1>7, <2>1 DEF StartScan
  <2> QED
    BY <2>2 DEF IndInv, ProbesBacked
<1>12. ScansBegan'
  <2> SUFFICES ASSUME NEW x \in Scans PROVE run'[x].since <= clock'
    BY DEF ScansBegan
  <2>1. clock' = clock /\ clock \in Int
    BY <1>0, BoundsAssumption DEF StartScan, TypeOK, Time
  <2> QED
    BY <1>7, <1>8, <2>1 DEF IndInv, ScansBegan
<1> QED
  BY <1>6, <1>9, <1>10, <1>11, <1>12 DEF IndInv

\* A probe comes back.
LEMMA ProbeSteps ==
    ASSUME IndInv, NEW r \in Scans, NEW e \in Endpoints, Probe(r, e)
    PROVE  IndInv'
<1>0. TypeOK /\ run[r] \in Run /\ served[e] \in Fingerprints
  BY DEF IndInv, TypeOK
<1>1. PICK o \in {served[e], "error"} : run' = [run EXCEPT ![r].results[e] = o]
  BY DEF Probe
<1>2. /\ run'[r] = [run[r] EXCEPT !.results = [run[r].results EXCEPT ![e] = o]]
      /\ \A x \in Scans : x # r => run'[x] = run[x]
      /\ DOMAIN run' = Scans
  BY <1>0, <1>1 DEF TypeOK
<1>3. /\ run'[r] \in Run /\ run'[r].thread = run[r].thread /\ run'[r].since = run[r].since
      /\ run'[r].results = [run[r].results EXCEPT ![e] = o]
  BY <1>0, <1>2 DEF Run, Outcome
<1>4. TypeOK'
  <2>1. run' \in [Scans -> Run]
    BY <1>0, <1>1, <1>2, <1>3 DEF TypeOK
  <2> QED
    BY <1>0, <2>1 DEF Probe, TypeOK
<1>5. UNCHANGED <<permits, found, served, servedLast, clock>>
  BY DEF Probe
<1>6. PermitsAccounted'
  <2>1. \A x \in Scans : Active(x)' <=> Active(x)
    BY <1>2, <1>3 DEF Active
  <2> QED
    BY <1>5, <2>1 DEF IndInv, PermitsAccounted
<1>7. ServedNow' /\ LastSeenBacked'
  BY <1>5 DEF IndInv, ServedNow, LastSeenBacked
<1>8. ScansBegan'
  BY <1>2, <1>3, <1>5 DEF IndInv, ScansBegan
<1>9. ProbesBacked'
  <2> SUFFICES ASSUME NEW x \in Scans, NEW d \in Endpoints, run'[x].results[d] \in Fingerprints
               PROVE  servedLast[d][run'[x].results[d]] >= run'[x].since
    BY <1>5 DEF ProbesBacked
  <2>1. CASE x = r /\ d = e
    <3>1. run[r].results \in [Endpoints -> Outcome]
      BY <1>0 DEF Run
    <3>2. run'[x].results[d] = o
      BY <1>3, <2>1, <3>1
    <3>3. o = served[e]
      BY <3>2, NoneAssumption
    <3>4. clock >= run[r].since /\ servedLast[e][served[e]] = clock
      BY <1>0, BoundsAssumption DEF IndInv, ScansBegan, ServedNow, TypeOK, Run, Time
    <3> QED
      BY <1>3, <2>1, <3>2, <3>3, <3>4
  <2>2. CASE ~(x = r /\ d = e)
    <3>1. run'[x].results[d] = run[x].results[d] /\ run'[x].since = run[x].since
      BY <1>0, <1>2, <1>3, <2>2 DEF Run
    <3> QED
      BY <3>1 DEF IndInv, ProbesBacked
  <2> QED
    BY <2>1, <2>2
<1> QED
  BY <1>4, <1>6, <1>7, <1>8, <1>9 DEF IndInv

\* The profile update at the end of a scan.
LEMMA ProfilesAfterScan ==
    ASSUME TypeOK, NEW r \in Scans, SaveResults(r)
    PROVE  profile' \in [Profiles -> Profile]
<1>1. /\ run[r].since \in 0 .. MaxTime /\ Interval \in Nat /\ MaxTime \in Nat
  BY BoundsAssumption DEF TypeOK, Run, Time
<1>2. run[r].since + Interval \in (0 .. MaxTime + Interval) \cup {-1}
  BY <1>1
<1>3. ASSUME NEW p \in Profiles
      PROVE  profile'[p] \in Profile
  <2>1. profile[p] \in Profile
    BY DEF TypeOK
  <2>2. CASE p = run[r].profile /\ profile[p].exists
    <3>1. profile'[p] = [profile[p] EXCEPT !.last = run[r].since,
                           !.next = IF profile[p].scheduled THEN run[r].since + Interval ELSE @]
      BY <2>2 DEF SaveResults
    <3> QED
      BY <1>1, <1>2, <2>1, <3>1 DEF Profile, Time
  <2>3. CASE ~(p = run[r].profile /\ profile[p].exists)
    <3>1. profile'[p] = profile[p]
      BY <2>3 DEF SaveResults
    <3> QED
      BY <2>1, <3>1
  <2> QED
    BY <2>2, <2>3
<1> QED
  BY <1>3 DEF SaveResults

\* A scan stores its results and goes on to its mail.
LEMMA SaveSteps ==
    ASSUME IndInv, NEW r \in Scans, SaveResults(r)
    PROVE  IndInv'
<1>0. TypeOK
  BY DEF IndInv
<1>1. run' = Left(r, "completed", "mailing")
  BY DEF SaveResults
<1>2. /\ run' \in [Scans -> Run]
      /\ \A x \in Scans : run'[x].since = run[x].since
      /\ \A x \in Scans, e \in Endpoints :
            run'[x].results[e] = run[x].results[e] \/ run'[x].results[e] = "nothing"
      /\ \A x \in Scans : x # r => run'[x] = run[x]
      /\ run'[r].thread = "mailing"
  BY <1>0, <1>1, LeftRun
<1>3. found' \in [Endpoints -> Row \cup {NoRow}] /\ LastSeenBacked'
  BY TableBacked DEF SaveResults
<1>4. TypeOK'
  BY <1>0, <1>2, <1>3, ProfilesAfterScan DEF TypeOK, SaveResults
<1>5. PermitsAccounted'
  <2>1. \A x \in Scans : Active(x)' <=> Active(x)
    BY <1>2 DEF Active, SaveResults
  <2> QED
    BY <2>1 DEF IndInv, PermitsAccounted, SaveResults
<1>6. ServedNow' /\ ProbesBacked' /\ ScansBegan'
  BY <1>2, HistoryKept DEF SaveResults
<1> QED
  BY <1>3, <1>4, <1>5, <1>6 DEF IndInv

\* A scan fails and returns its permit.
LEMMA FailSteps ==
    ASSUME IndInv, NEW r \in Scans, NEW status \in {"failed", "running"}, ScanFails(r, status)
    PROVE  IndInv'
<1>0. TypeOK /\ PermitsAccounted /\ Active(r)
  BY DEF IndInv, ScanFails, Active
<1>1. run' = Left(r, status, "none")
  BY DEF ScanFails
<1>2. /\ run' \in [Scans -> Run]
      /\ \A x \in Scans : run'[x].since = run[x].since
      /\ \A x \in Scans, e \in Endpoints :
            run'[x].results[e] = run[x].results[e] \/ run'[x].results[e] = "nothing"
      /\ \A x \in Scans : x # r => run'[x] = run[x]
      /\ run'[r].thread = "none"
  BY <1>0, <1>1, LeftRun
<1>3. found' \in [Endpoints -> Row \cup {NoRow}] /\ LastSeenBacked'
  BY TableBacked DEF ScanFails
<1>4. permits' \in 0 .. MaxScans
  <2>1. Threads # {}
    BY <1>0 DEF Threads
  <2> QED
    BY <1>0, <2>1, ThreadsFinite, BoundsAssumption DEF TypeOK, ScanFails
<1>5. TypeOK'
  BY <1>0, <1>2, <1>3, <1>4 DEF TypeOK, ScanFails
<1>6. PermitsAccounted'
  <2>1. Threads' = Threads \ {r}
    BY <1>2 DEF Threads, Active
  <2> QED
    BY <1>0, <2>1, PermitReturned DEF ScanFails
<1>7. ServedNow' /\ ProbesBacked' /\ ScansBegan'
  BY <1>2, HistoryKept DEF ScanFails
<1> QED
  BY <1>3, <1>5, <1>6, <1>7 DEF IndInv

\* A scan ends and returns its permit.
LEMMA EndSteps ==
    ASSUME IndInv, NEW r \in Scans, EndScan(r)
    PROVE  IndInv'
<1>0. TypeOK /\ PermitsAccounted /\ Active(r) /\ run[r] \in Run
  BY DEF IndInv, EndScan, Active, TypeOK
<1>1. /\ run'[r] = [run[r] EXCEPT !.thread = "none"]
      /\ \A x \in Scans : x # r => run'[x] = run[x]
      /\ DOMAIN run' = Scans
  BY <1>0 DEF EndScan, TypeOK
<1>2. /\ run'[r] \in Run /\ run'[r].thread = "none"
      /\ run'[r].since = run[r].since /\ run'[r].results = run[r].results
  BY <1>0, <1>1 DEF Run
<1>3. permits' \in 0 .. MaxScans
  <2>1. Threads # {}
    BY <1>0 DEF Threads
  <2> QED
    BY <1>0, <2>1, ThreadsFinite, BoundsAssumption DEF TypeOK, EndScan
<1>4. TypeOK'
  <2>1. run' \in [Scans -> Run]
    BY <1>0, <1>1, <1>2 DEF TypeOK, EndScan
  <2> QED
    BY <1>0, <1>3, <2>1 DEF TypeOK, EndScan
<1>5. PermitsAccounted'
  <2>1. Threads' = Threads \ {r}
    BY <1>1, <1>2 DEF Threads, Active
  <2> QED
    BY <1>0, <2>1, PermitReturned DEF EndScan
<1>6. /\ \A x \in Scans : run'[x].since = run[x].since
      /\ \A x \in Scans, e \in Endpoints : run'[x].results[e] = run[x].results[e]
  BY <1>1, <1>2
<1>7. ServedNow' /\ ProbesBacked' /\ ScansBegan'
  BY <1>6, HistoryKept DEF EndScan
<1>8. LastSeenBacked'
  BY DEF IndInv, LastSeenBacked, EndScan
<1> QED
  BY <1>4, <1>5, <1>7, <1>8 DEF IndInv

\* A restart ends all threads.
LEMMA RestartSteps ==
    ASSUME IndInv, Restart
    PROVE  IndInv'
<1>0. TypeOK
  BY DEF IndInv
<1>1. ASSUME NEW x \in Scans
      PROVE  /\ run'[x] \in Run /\ run'[x].thread = "none" /\ run'[x].since = run[x].since
             /\ \A e \in Endpoints : run'[x].results[e] = "nothing"
  <2>1. run[x] \in Run /\ [e \in Endpoints |-> "nothing"] \in [Endpoints -> Outcome]
    BY <1>0 DEF TypeOK, Outcome
  <2>2. run'[x] = [run[x] EXCEPT !.thread = "none", !.index = {},
                                 !.results = [e \in Endpoints |-> "nothing"]]
    BY DEF Restart
  <2>3. run'[x] \in Run
    BY <2>1, <2>2 DEF Run
  <2> QED
    BY <2>1, <2>2, <2>3 DEF Run
<1>2. TypeOK'
  <2>1. run' \in [Scans -> Run]
    BY <1>1 DEF Restart
  <2>2. /\ cache' \in [at : Time \cup {-1}, fps : SUBSET Fingerprints]
        /\ permits' \in 0 .. MaxScans
    <3>1. permits' \in 0 .. MaxScans
      <4>1. permits' = MaxScans
        BY DEF Restart
      <4> QED
        BY <4>1, BoundsAssumption
    <3>2. cache' \in [at : Time \cup {-1}, fps : SUBSET Fingerprints]
      BY DEF Restart
    <3> QED
      BY <3>1, <3>2
  <2> QED
    BY <1>0, <2>1, <2>2 DEF TypeOK, Restart
<1>3. PermitsAccounted'
  <2>1. {x \in Scans : Active(x)'} = {}
    BY <1>1 DEF Active
  <2>2. Cardinality({x \in Scans : Active(x)'}) = 0
    BY <2>1, FS_EmptySet
  <2>3. permits' = MaxScans /\ MaxScans \in Nat
    BY BoundsAssumption DEF Restart
  <2>4. PermitsAccounted' <=> permits' + Cardinality({x \in Scans : Active(x)'}) = MaxScans
    BY DEF PermitsAccounted
  <2> QED
    BY <2>2, <2>3, <2>4
<1>4. ServedNow' /\ ProbesBacked' /\ ScansBegan'
  BY <1>1, HistoryKept DEF Restart
<1>5. LastSeenBacked'
  BY DEF IndInv, LastSeenBacked, Restart
<1> QED
  BY <1>2, <1>3, <1>4, <1>5 DEF IndInv

\* The history only grows, and what it backed stays backed.
LEMMA HistoryLater ==
    ASSUME IndInv, TypeOK', PermitsAccounted', ServedNow',
           UNCHANGED <<found, run>>, clock <= clock', clock' \in Int,
           \A e \in Endpoints, f \in Fingerprints : servedLast'[e][f] >= servedLast[e][f]
    PROVE  IndInv'
<1>0. /\ clock \in Int
      /\ \A e \in Endpoints, f \in Fingerprints :
            servedLast[e][f] \in Int /\ servedLast'[e][f] \in Int
      /\ \A r \in Scans : run[r].since \in Int /\ run[r].results \in [Endpoints -> Outcome]
  <2>1. Time \subseteq Int /\ Time \cup {-1} \subseteq Int
    BY BoundsAssumption DEF Time
  <2>2. clock \in Int /\ \A r \in Scans : run[r] \in Run
    BY <2>1 DEF IndInv, TypeOK
  <2>3. \A e \in Endpoints, f \in Fingerprints : servedLast[e][f] \in Time \cup {-1}
    BY DEF IndInv, TypeOK
  <2>4. \A e \in Endpoints, f \in Fingerprints : servedLast'[e][f] \in Time \cup {-1}
    BY DEF TypeOK
  <2> QED
    BY <2>1, <2>2, <2>3, <2>4 DEF Run
<1>1. ProbesBacked'
  BY <1>0 DEF IndInv, ProbesBacked
<1>2. ScansBegan'
  BY <1>0 DEF IndInv, ScansBegan
<1>3. LastSeenBacked'
  <2> SUFFICES ASSUME NEW e \in Endpoints, found[e].status \in {"managed", "unmanaged"}
               PROVE  servedLast'[e][found[e].fp] >= found[e].seen
    BY DEF LastSeenBacked
  <2>1. found[e] \in Row
    BY DEF IndInv, TypeOK, NoRow
  <2>3. found[e].fp \in Fingerprints
    BY <2>1 DEF Row
  <2>2. found[e].seen \in Int
    BY <2>1, BoundsAssumption DEF Row, Time
  <2> QED
    BY <1>0, <2>2, <2>3 DEF IndInv, LastSeenBacked
<1> QED
  BY <1>1, <1>2, <1>3 DEF IndInv

\* Steps of the surroundings.
LEMMA OtherSteps ==
    ASSUME IndInv,
           \/ \E E \in SUBSET Endpoints : DeleteFound(E)
           \/ \E f \in Fingerprints : ChangeInventory(f) \/ \E e \in Endpoints : Replace(e, f)
           \/ Tick
           \/ UNCHANGED vars
    PROVE  IndInv'
<1>0. TypeOK /\ clock \in Nat /\ \A r \in Scans : run[r].since \in Nat
  BY BoundsAssumption DEF IndInv, TypeOK, Run, Time
<1>1. PermitsAccounted'
  BY DEF IndInv, PermitsAccounted, Active, DeleteFound, ChangeInventory, Replace, Tick, vars
<1>2. CASE \E E \in SUBSET Endpoints : DeleteFound(E)
  <2>1. PICK E \in SUBSET Endpoints : DeleteFound(E)
    BY <1>2
  <2>2. TypeOK'
    BY <1>0, <2>1 DEF TypeOK, DeleteFound
  <2>3. LastSeenBacked'
    BY <2>1 DEF IndInv, LastSeenBacked, DeleteFound, NoRow
  <2>4. ServedNow' /\ ProbesBacked' /\ ScansBegan'
    BY <2>1 DEF DeleteFound, IndInv, ServedNow, ProbesBacked, ScansBegan
  <2> QED
    BY <1>1, <2>2, <2>3, <2>4 DEF IndInv
<1>3. CASE UNCHANGED vars \/ \E f \in Fingerprints : ChangeInventory(f)
  <2>1. UNCHANGED <<profile, checked, run, permits, found, cache, served, servedLast, clock>>
    BY <1>3 DEF ChangeInventory, vars
  <2>2. inventory' \subseteq Fingerprints
    BY <1>0, <1>3 DEF ChangeInventory, vars, TypeOK
  <2>3. TypeOK'
    BY <1>0, <2>1, <2>2 DEF TypeOK
  <2>4. ServedNow' /\ ProbesBacked' /\ ScansBegan' /\ LastSeenBacked'
    BY <2>1 DEF IndInv, ServedNow, ProbesBacked, ScansBegan, LastSeenBacked
  <2> QED
    BY <1>1, <2>3, <2>4 DEF IndInv
<1>4. ASSUME NEW f \in Fingerprints, NEW d \in Endpoints, Replace(d, f)
      PROVE  IndInv'
  <2>1. /\ servedLast' \in [Endpoints -> [Fingerprints -> Time \cup {-1}]]
        /\ served' \in [Endpoints -> Fingerprints]
    BY <1>0, <1>4 DEF Replace, TypeOK
  <2>2. TypeOK'
    BY <1>0, <1>4, <2>1 DEF Replace, TypeOK
  <2>3. \A e \in Endpoints, g \in Fingerprints :
          /\ servedLast'[e][g] >= servedLast[e][g]
          /\ e = d /\ g = f => servedLast'[e][g] = clock
          /\ ~(e = d /\ g = f) => servedLast'[e][g] = servedLast[e][g]
    <3> TAKE e \in Endpoints, g \in Fingerprints
    <3>1. servedLast[e][g] \in Time \cup {-1}
      BY <1>0 DEF TypeOK
    <3>2. servedLast[e][g] <= clock /\ servedLast[e][g] \in Int
      BY <3>1, BoundsAssumption DEF IndInv, ServedNow, Time
    <3>3. servedLast'[e][g] = IF e = d /\ g = f THEN clock ELSE servedLast[e][g]
      BY <1>0, <1>4 DEF Replace, TypeOK
    <3> QED
      BY <1>0, <3>2, <3>3
  <2>4. UNCHANGED <<found, run, clock>> /\ served' = [served EXCEPT ![d] = f]
    BY <1>4 DEF Replace
  <2>5. ServedNow'
    <3> SUFFICES ASSUME NEW e \in Endpoints
                 PROVE  /\ servedLast'[e][served'[e]] = clock
                        /\ \A g \in Fingerprints : servedLast'[e][g] <= clock
      BY <2>4 DEF ServedNow
    <3>1. served[e] \in Fingerprints
      BY <1>0 DEF TypeOK
    <3>2. served'[e] = IF e = d THEN f ELSE served[e]
      BY <1>0, <2>4 DEF TypeOK
    <3> QED
      BY <1>0, <2>3, <3>1, <3>2 DEF IndInv, ServedNow
  <2> QED
    BY <1>0, <1>1, <2>2, <2>3, <2>4, <2>5, HistoryLater
<1>5. ASSUME Tick
      PROVE  IndInv'
  <2>1. clock' = clock + 1 /\ clock' \in Time
    BY <1>0, <1>5, BoundsAssumption DEF Tick, Time
  <2>2. \A e \in Endpoints, g \in Fingerprints :
          servedLast'[e][g] = IF g = served[e] THEN clock + 1 ELSE servedLast[e][g]
    BY <1>0, <1>5 DEF Tick, TypeOK
  <2>3. servedLast' \in [Endpoints -> [Fingerprints -> Time \cup {-1}]]
    <3>1. \A e \in Endpoints : [servedLast[e] EXCEPT ![served[e]] = clock + 1]
                                 \in [Fingerprints -> Time \cup {-1}]
      BY <1>0, <2>1 DEF TypeOK
    <3> QED
      BY <1>5, <3>1 DEF Tick
  <2>4. TypeOK'
    BY <1>0, <1>5, <2>1, <2>3 DEF Tick, TypeOK
  <2>5. ASSUME NEW e \in Endpoints, NEW g \in Fingerprints
        PROVE  servedLast[e][g] <= clock /\ servedLast[e][g] \in Int
    <3>1. servedLast[e][g] \in Time \cup {-1}
      BY <1>0 DEF TypeOK
    <3> QED
      BY <3>1, BoundsAssumption DEF IndInv, ServedNow, Time
  <2>6. \A e \in Endpoints, g \in Fingerprints : servedLast'[e][g] >= servedLast[e][g]
    BY <1>0, <2>2, <2>5
  <2>7. UNCHANGED <<found, run, served>>
    BY <1>5 DEF Tick
  <2>8. ServedNow'
    <3> SUFFICES ASSUME NEW e \in Endpoints
                 PROVE  /\ servedLast'[e][served[e]] = clock + 1
                        /\ \A g \in Fingerprints : servedLast'[e][g] <= clock + 1
      BY <2>1, <2>7 DEF ServedNow
    <3>1. served[e] \in Fingerprints
      BY <1>0 DEF TypeOK
    <3> QED
      BY <1>0, <2>2, <2>5, <3>1
  <2> QED
    BY <1>0, <1>1, <2>1, <2>4, <2>6, <2>7, <2>8, HistoryLater
<1> QED
  BY <1>2, <1>3, <1>4, <1>5

-----------------------------------------------------------------------------
(* Theorems *)

\* Nothing is running and nothing was found at first.
LEMMA InvInitially == Init => IndInv
<1> SUFFICES ASSUME Init PROVE IndInv
  OBVIOUS
<1>0. 0 \in Time /\ -1 \in Time \cup {-1} /\ 0 <= clock /\ clock = 0
  BY BoundsAssumption DEF Init, Time
<1>1. run \in [Scans -> Run] /\ \A r \in Scans : ~Active(r)
  BY <1>0 DEF Init, Run, Outcome, Active
<1>2. profile \in [Profiles -> Profile]
  BY <1>0 DEF Init, Profile
<1>3. servedLast \in [Endpoints -> [Fingerprints -> Time \cup {-1}]]
  BY <1>0 DEF Init
<1>4. TypeOK
  <2>1. found \in [Endpoints -> Row \cup {NoRow}]
    BY DEF Init
  <2>2. permits \in 0 .. MaxScans /\ cache \in [at : Time \cup {-1}, fps : SUBSET Fingerprints]
    BY BoundsAssumption DEF Init
  <2> QED
    BY <1>0, <1>1, <1>2, <1>3, <2>1, <2>2 DEF Init, TypeOK
<1>5. PermitsAccounted
  <2>1. {r \in Scans : Active(r)} = {}
    BY <1>1
  <2>2. Cardinality({r \in Scans : Active(r)}) = 0
    BY <2>1, FS_EmptySet
  <2>3. permits = MaxScans /\ MaxScans \in Nat
    BY BoundsAssumption DEF Init
  <2> QED
    BY <2>2, <2>3 DEF PermitsAccounted
<1>6. ServedNow
  <2> SUFFICES ASSUME NEW e \in Endpoints
               PROVE  /\ servedLast[e][served[e]] = 0
                      /\ \A f \in Fingerprints : servedLast[e][f] <= 0
    BY <1>0 DEF ServedNow
  <2> QED
    BY <1>0 DEF Init
<1>7. ProbesBacked /\ ScansBegan
  BY <1>0, NoneAssumption DEF Init, ProbesBacked, ScansBegan
<1>8. LastSeenBacked
  BY DEF Init, LastSeenBacked, NoRow
<1> QED
  BY <1>4, <1>5, <1>6, <1>7, <1>8 DEF IndInv

\* Every step preserves the invariant.
LEMMA InvPreserved == IndInv /\ [Next]_vars => IndInv'
<1> SUFFICES ASSUME IndInv, [Next]_vars PROVE IndInv'
  OBVIOUS
<1>1. ASSUME NEW p \in Profiles,
             (\E scheduled \in BOOLEAN : CreateProfile(p, scheduled))
               \/ UpdateProfile(p) \/ DeleteProfile(p)
      PROVE  IndInv'
  BY <1>1, ProfileSteps
<1>2. ASSUME NEW r \in Scans, NEW p \in Profiles \cup {None}, ScanNow(r, p)
      PROVE  IndInv'
  <2>1. StartScan(r, p, FALSE) /\ checked' \subseteq Profiles
    BY <1>2 DEF ScanNow, IndInv, TypeOK
  <2> QED
    BY <2>1, StartSteps
<1>3. ASSUME NEW r \in Scans, NEW p \in Profiles, ScanDue(r, p)
      PROVE  IndInv'
  <2>1. StartScan(r, p, TRUE) /\ checked' \subseteq Profiles
    BY <1>3 DEF ScanDue, IndInv, TypeOK
  <2> QED
    BY <2>1, StartSteps
<1>4. ASSUME NEW r \in Scans,
             \/ \E e \in Endpoints : Probe(r, e)
             \/ SaveResults(r) \/ EndScan(r)
             \/ \E status \in {"failed", "running"} : ScanFails(r, status)
      PROVE  IndInv'
  BY <1>4, ProbeSteps, SaveSteps, EndSteps, FailSteps
<1>5. ASSUME \/ \E E \in SUBSET Endpoints : DeleteFound(E)
             \/ \E f \in Fingerprints : ChangeInventory(f) \/ \E e \in Endpoints : Replace(e, f)
             \/ Tick
             \/ UNCHANGED vars
      PROVE  IndInv'
  BY <1>5, OtherSteps
<1>6. ASSUME Restart
      PROVE  IndInv'
  BY <1>6, RestartSteps
<1> QED
  BY <1>1, <1>2, <1>3, <1>4, <1>5, <1>6 DEF Next

\* The inductive invariant holds in every reachable state.
THEOREM Invariance == Spec => []IndInv
  BY InvInitially, InvPreserved, PTL DEF Spec

\* The scan semaphore and the scan threads stay in step, for any number of
\* permits, scans and profiles.
THEOREM PermitsStayAccounted == Spec => [](TypeOK /\ PermitsAccounted)
<1>1. IndInv => TypeOK /\ PermitsAccounted
  BY DEF IndInv
<1> QED
  BY <1>1, Invariance, PTL

\* What the table says of an endpoint was true at last_seen or later.
THEOREM LastSeenStaysBacked == Spec => []LastSeenBacked
<1>1. IndInv => LastSeenBacked
  BY DEF IndInv
<1> QED
  BY <1>1, Invariance, PTL
=============================================================================
