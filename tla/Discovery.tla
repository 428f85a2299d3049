------------------------------ MODULE Discovery ------------------------------
(***************************************************************************)
(* Network discovery: DiscoveryService of services/discovery_service.py,   *)
(* its scheduler task and its scan profiles.                               *)
(*                                                                         *)
(* A scan is a background thread that holds one permit of _scan_semaphore. *)
(* It waits for the network while it probes its targets and again while it *)
(* mails its summary; what it does between the two, and all the other      *)
(* handlers, runs without waiting.  A tick of the clock is the wake        *)
(* interval of the scheduler, one minute.                                  *)
(***************************************************************************)
EXTENDS Integers, FiniteSets

CONSTANTS
    Profiles,       \* ids of scan profiles
    Endpoints,      \* (target, port, sni_hostname) triples
    Fingerprints,   \* of the certificates that exist
    Scans,          \* scan runs the history keeps
    MaxScans,       \* _MAX_CONCURRENT_SCANS
    Interval,       \* schedule_interval_minutes of every profile
    CacheTtl,       \* _CACHE_TTL_SECONDS, in ticks
    MaxTime,        \* bound of the clock
    None

ASSUME BoundsAssumption ==
    /\ MaxScans \in Nat /\ Interval \in Nat /\ CacheTtl \in Nat /\ MaxTime \in Nat
    /\ IsFiniteSet(Scans)
ASSUME NoneAssumption ==
    None \notin Profiles \cup Fingerprints /\ Fingerprints \cap {"error", "nothing"} = {}

VARIABLES
    profile,    \* the scan profiles: schedule_enabled, next_scan_at, last_scan_at
    checked,    \* profiles the scheduler task has looked at in this minute
    run,        \* the scan runs, with the local state of their threads
    permits,    \* value of _scan_semaphore
    found,      \* the discovered_certificates table
    cache,      \* _fingerprint_cache with _cache_built_at
    inventory,  \* fingerprints of the certificates in the certificate table
    served,     \* the certificate each endpoint answers with now
    servedLast, \* history: when an endpoint last answered with a certificate
    clock

vars == <<profile, checked, run, permits, found, cache, inventory, served, servedLast, clock>>

-----------------------------------------------------------------------------
(* State *)

Time == 0 .. MaxTime

Profile ==
    [exists : BOOLEAN, scheduled : BOOLEAN, next : (0 .. MaxTime + Interval) \cup {-1},
     last : Time \cup {-1}]

\* A probe ends with a certificate, with a TLS error that is recorded, or with
\* a connection error that is not; the latter looks like no probe at all.
Outcome == Fingerprints \cup {"error", "nothing"}

Run ==
    [status : {"unused", "running", "completed", "failed"},
     thread : {"none", "probing", "mailing"},
     profile : Profiles \cup {None}, scheduled : BOOLEAN,
     since : Time, index : SUBSET Fingerprints, results : [Endpoints -> Outcome]]

\* An endpoint that never answered with a certificate has a row only for its error.
Row ==
    [fp : Fingerprints, seen : Time, status : {"managed", "unmanaged"}]
      \cup [fp : Fingerprints \cup {None}, seen : Time, status : {"error"}]

NoRow == [fp |-> None, seen |-> 0, status |-> "none"]

\* Type correctness of the profiles, the runs and the table of what was found
\* (models/discovered_certificate.py); the semaphore never exceeds MaxScans.
TypeOK ==
    /\ profile \in [Profiles -> Profile]
    /\ checked \subseteq Profiles
    /\ run \in [Scans -> Run]
    /\ permits \in 0 .. MaxScans
    /\ found \in [Endpoints -> Row \cup {NoRow}]
    /\ cache \in [at : Time \cup {-1}, fps : SUBSET Fingerprints]
    /\ inventory \subseteq Fingerprints
    /\ served \in [Endpoints -> Fingerprints]
    /\ servedLast \in [Endpoints -> [Fingerprints -> Time \cup {-1}]]
    /\ clock \in Time

Init ==
    /\ profile = [p \in Profiles |->
                    [exists |-> FALSE, scheduled |-> FALSE, next |-> -1, last |-> -1]]
    /\ checked = {}
    /\ run = [r \in Scans |->
                [status |-> "unused", thread |-> "none", profile |-> None, scheduled |-> FALSE,
                 since |-> 0, index |-> {}, results |-> [e \in Endpoints |-> "nothing"]]]
    /\ permits = MaxScans
    /\ found = [e \in Endpoints |-> NoRow]
    /\ cache = [at |-> -1, fps |-> {}]
    /\ inventory = {}
    /\ served \in [Endpoints -> Fingerprints]
    /\ servedLast = [e \in Endpoints |-> [f \in Fingerprints |->
                        IF f = served[e] THEN 0 ELSE -1]]
    /\ clock = 0

Active(r) == run[r].thread # "none"

\* A run whose thread no longer needs its locals.
Left(r, status, thread) ==
    [run EXCEPT ![r].status = status, ![r].thread = thread, ![r].index = {},
                ![r].results = [e \in Endpoints |-> "nothing"]]

-----------------------------------------------------------------------------
(* Profiles *)

\* create_profile, with or without a schedule.
CreateProfile(p, scheduled) ==
    /\ ~profile[p].exists
    /\ profile' = [profile EXCEPT ![p] =
                     [exists |-> TRUE, scheduled |-> scheduled,
                      next |-> IF scheduled THEN clock + Interval ELSE -1, last |-> -1]]
    /\ UNCHANGED <<checked, run, permits, found, cache, inventory, served, servedLast, clock>>

\* update_profile turns the schedule on or off; a next_scan_at that is set stays.
UpdateProfile(p) ==
    /\ profile[p].exists
    /\ profile' = [profile EXCEPT
                     ![p].scheduled = ~@,
                     ![p].next = IF ~profile[p].scheduled /\ @ = -1 THEN clock + Interval ELSE @]
    /\ UNCHANGED <<checked, run, permits, found, cache, inventory, served, servedLast, clock>>

\* delete_profile; the runs of the profile stay, with no profile.
DeleteProfile(p) ==
    /\ profile[p].exists
    /\ profile' = [profile EXCEPT ![p] =
                     [exists |-> FALSE, scheduled |-> FALSE, next |-> -1, last |-> -1]]
    /\ UNCHANGED <<checked, run, permits, found, cache, inventory, served, servedLast, clock>>

-----------------------------------------------------------------------------
(* Scans *)

\* _build_fingerprint_index: the cached index, unless it is too old.
Fresh == cache.at # -1 /\ clock - cache.at < CacheTtl

BuildFingerprintIndex ==
    cache' = IF Fresh THEN cache ELSE [at |-> clock, fps |-> inventory]

\* start_scan takes a permit and creates the run; its thread begins at once.
\* With no permit left, or when the run cannot be stored, nothing changes.
StartScan(r, p, scheduled) ==
    /\ ~Active(r)
    /\ permits > 0
    /\ permits' = permits - 1
    /\ BuildFingerprintIndex
    /\ run' = [run EXCEPT ![r] =
                 [status |-> "running", thread |-> "probing", profile |-> p,
                  scheduled |-> scheduled, since |-> clock, index |-> cache'.fps,
                  results |-> [e \in Endpoints |-> "nothing"]]]
    /\ UNCHANGED <<profile, found, inventory, served, servedLast, clock>>

\* scan_profile and, with no profile, ad_hoc_scan.
ScanNow(r, p) ==
    /\ p # None => profile[p].exists
    /\ StartScan(r, p, FALSE)
    /\ UNCHANGED checked

\* The scheduler task finds p due.
ScanDue(r, p) ==
    /\ p \notin checked
    /\ profile[p].scheduled /\ profile[p].next # -1 /\ profile[p].next <= clock
    /\ checked' = checked \cup {p}
    /\ StartScan(r, p, TRUE)

\* probe_tls of an endpoint of the scan, or of a name found on the way.
Probe(r, e) ==
    /\ run[r].thread = "probing"
    /\ run[r].results[e] = "nothing"
    /\ \E o \in {served[e], "error"} : run' = [run EXCEPT ![r].results[e] = o]
    /\ UNCHANGED <<profile, checked, permits, found, cache, inventory, served, servedLast, clock>>

\* Mutant: what was seen is dated by the end of the scan.
SavedRowLate(r, e) ==
    LET o == run[r].results[e] IN
    CASE o = "nothing" -> found[e]
      [] o = "error"   -> [fp |-> found[e].fp, seen |-> run[r].since, status |-> "error"]
      [] OTHER         -> [fp |-> o, seen |-> clock,
                           status |-> IF o \in run[r].index THEN "managed" ELSE "unmanaged"]

\* What the scan leaves in the row of an endpoint.
SavedRow(r, e) ==
    LET o == run[r].results[e] IN
    CASE o = "nothing" -> found[e]
      [] o = "error"   -> [fp |-> found[e].fp, seen |-> run[r].since, status |-> "error"]
      [] OTHER         -> [fp |-> o, seen |-> run[r].since,
                           status |-> IF o \in run[r].index THEN "managed" ELSE "unmanaged"]

\* The probes are over: the results, the run and the profile are stored.
SaveResults(r) ==
    /\ run[r].thread = "probing"
    /\ found' = [e \in Endpoints |-> SavedRow(r, e)]
    /\ run' = Left(r, "completed", "mailing")
    /\ profile' = [p \in Profiles |->
                     IF p = run[r].profile /\ profile[p].exists
                     THEN [profile[p] EXCEPT
                             !.last = run[r].since,
                             !.next = IF profile[p].scheduled THEN run[r].since + Interval ELSE @]
                     ELSE profile[p]]
    /\ UNCHANGED <<checked, permits, cache, inventory, served, servedLast, clock>>

\* Mutant: the permit of a failed scan is not returned.
ScanFailsHolding(r, status) ==
    /\ run[r].thread = "probing"
    /\ run' = Left(r, status, "none")
    /\ found' \in {found, [e \in Endpoints |-> SavedRow(r, e)]}
    /\ UNCHANGED <<profile, checked, permits, cache, inventory, served, servedLast, clock>>

\* An exception in _do_scan, before or after the results are stored.  _fail_run
\* marks the run, unless that fails as well.
ScanFails(r, status) ==
    /\ run[r].thread = "probing"
    /\ run' = Left(r, status, "none")
    /\ found' \in {found, [e \in Endpoints |-> SavedRow(r, e)]}
    /\ permits' = permits + 1
    /\ UNCHANGED <<profile, checked, cache, inventory, served, servedLast, clock>>

\* The summary is mailed, or not, and the thread ends.
EndScan(r) ==
    /\ run[r].thread = "mailing"
    /\ run' = [run EXCEPT ![r].thread = "none"]
    /\ permits' = permits + 1
    /\ UNCHANGED <<profile, checked, found, cache, inventory, served, servedLast, clock>>

\* delete and delete_all of discovered certificates.
DeleteFound(E) ==
    /\ found' = [e \in Endpoints |-> IF e \in E THEN NoRow ELSE found[e]]
    /\ UNCHANGED <<profile, checked, run, permits, cache, inventory, served, servedLast, clock>>

-----------------------------------------------------------------------------
(* Surroundings *)

\* A certificate enters or leaves the certificate table.  No handler that does
\* this calls invalidate_fingerprint_cache.
ChangeInventory(f) ==
    /\ inventory' = IF f \in inventory THEN inventory \ {f} ELSE inventory \cup {f}
    /\ UNCHANGED <<profile, checked, run, permits, found, cache, served, servedLast, clock>>

\* An endpoint gets another certificate.
Replace(e, f) ==
    /\ served' = [served EXCEPT ![e] = f]
    /\ servedLast' = [servedLast EXCEPT ![e][f] = clock]
    /\ UNCHANGED <<profile, checked, run, permits, found, cache, inventory, clock>>

Tick ==
    /\ clock < MaxTime
    /\ clock' = clock + 1
    /\ checked' = {}
    /\ servedLast' = [e \in Endpoints |-> [servedLast[e] EXCEPT ![served[e]] = clock + 1]]
    /\ UNCHANGED <<profile, run, permits, found, cache, inventory, served>>

\* A restart ends the threads; the semaphore and the cache are new.
Restart ==
    /\ run' = [r \in Scans |-> [run[r] EXCEPT !.thread = "none", !.index = {},
                                !.results = [e \in Endpoints |-> "nothing"]]]
    /\ permits' = MaxScans
    /\ cache' = [at |-> -1, fps |-> {}]
    /\ UNCHANGED <<profile, checked, found, inventory, served, servedLast, clock>>

Next ==
    \/ \E p \in Profiles : \/ \E scheduled \in BOOLEAN : CreateProfile(p, scheduled)
                           \/ UpdateProfile(p) \/ DeleteProfile(p)
    \/ \E r \in Scans : \/ \E p \in Profiles \cup {None} : ScanNow(r, p)
                        \/ \E p \in Profiles : ScanDue(r, p)
                        \/ \E e \in Endpoints : Probe(r, e)
                        \/ SaveResults(r) \/ EndScan(r)
                        \/ \E status \in {"failed", "running"} : ScanFails(r, status)
    \/ \E E \in SUBSET Endpoints : DeleteFound(E)
    \/ \E f \in Fingerprints : ChangeInventory(f) \/ \E e \in Endpoints : Replace(e, f)
    \/ Tick
    \/ Restart

Spec == Init /\ [][Next]_vars

\* Every probe has a timeout, and so has the mail: a scan goes on until it ends.
GoesOn(r) == SaveResults(r) \/ EndScan(r) \/ \E status \in {"failed", "running"} : ScanFails(r, status)

-----------------------------------------------------------------------------
(* Properties *)

\* No permit is lost or returned twice, whichever way a scan ends: start_scan,
\* _execute_scan and a restart together keep the semaphore in step with the
\* threads.
PermitsAccounted == permits + Cardinality({r \in Scans : Active(r)}) = MaxScans

\* When all permits are taken, one is free again some time later: scans can
\* only be refused for a while.
PermitsReturn == permits = 0 ~> permits > 0

\* A certificate in the table was on its endpoint at last_seen or later, also
\* when scans of one endpoint overlap and end in another order than they
\* started: the scan is dated by its start (now in _do_scan).
LastSeenBacked ==
    \A e \in Endpoints :
        found[e].status \in {"managed", "unmanaged"} =>
            servedLast[e][found[e].fp] >= found[e].seen
=============================================================================
