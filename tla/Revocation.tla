------------------------------ MODULE Revocation ------------------------------
(***************************************************************************)
(* Revocation of the certificates of one CA and its publication: the       *)
(* revoke, unhold, renew and delete handlers of api/v2/certificates.py,    *)
(* CertificateService.revoke_certificate, CRLService (full and delta CRLs) *)
(* and the CRL endpoints.                                                  *)
(*                                                                         *)
(* revoke_certificate commits the revocation, then waits in the syslog     *)
(* forwarding of its audit record, and only then generates the CRL: it is  *)
(* two actions.  generate_crl and generate_delta_crl read the table and    *)
(* commit the CRL without waiting, so each is atomic.                      *)
(*                                                                         *)
(* The hourly CRL task is no action: its query compares the Python         *)
(* property CA.has_private_key with True, which selects no CA.             *)
(***************************************************************************)
EXTENDS Naturals, FiniteSets

CONSTANTS
    Rows,       \* ids of certificate rows
    Serials,    \* serial numbers that can be drawn
    Requests,   \* concurrent revocations
    MaxCrls,    \* bound on the CRLs generated
    MaxTime,    \* bound of the clock
    None

ASSUME BoundsAssumption == MaxCrls \in Nat /\ MaxTime \in Nat
ASSUME NoneAssumption == None \notin Rows /\ None \notin Serials

VARIABLES
    state,      \* of each row: absent, good, revoked, or held (certificateHold)
    serial,     \* the serial number of the row's certificate
    stored,     \* how serial_number holds it: "hex", or "dec" digits
    revokedAt,  \* revoked_at, 0 where it is NULL
    cdp,        \* ca.cdp_enabled
    deltas,     \* ca.delta_crl_enabled
    crls,       \* the crl_metadata table
    waiting,    \* per request: the row it revoked while it waits, or None
    clock,      \* utc_now; two handlers never read the same microsecond
    drawn,      \* history: serial numbers already used
    missed      \* history: rows whose revocation ended without a CRL

rowVars == <<state, serial, stored, revokedAt>>
vars == <<rowVars, cdp, deltas, crls, waiting, clock, drawn, missed>>

-----------------------------------------------------------------------------
(* State *)

\* What int(serial_number, 16) makes of the stored text: the serial number
\* if the text is hexadecimal, another number if it is decimal digits.
Parsed(r) == IF stored[r] = "hex" THEN <<"serial", serial[r]>> ELSE <<"other", serial[r]>>

Entries == {"serial", "other"} \X Serials

Revoked(r) == state[r] \in {"revoked", "held"}

\* A row of crl_metadata.  revoked is history: what a CRL made at that moment
\* has to say.
CrlRow ==
    [number : 1 .. MaxCrls, delta : BOOLEAN, base : 0 .. MaxCrls, at : 0 .. MaxTime,
     entries : SUBSET Entries, revoked : SUBSET Entries]

\* Type correctness of the rows, the CRLs and the waiting revocations
\* (models/crl.py).
TypeOK ==
    /\ state \in [Rows -> {"absent", "good", "revoked", "held"}]
    /\ serial \in [Rows -> Serials \cup {None}]
    /\ stored \in [Rows -> {"hex", "dec"}]
    /\ revokedAt \in [Rows -> 0 .. MaxTime]
    /\ cdp \in BOOLEAN /\ deltas \in BOOLEAN
    /\ crls \subseteq CrlRow
    /\ waiting \in [Requests -> Rows \cup {None}]
    /\ clock \in 0 .. MaxTime
    /\ drawn \subseteq Serials
    /\ missed \subseteq Rows

Init ==
    /\ state = [r \in Rows |-> "absent"]
    /\ serial = [r \in Rows |-> None]
    /\ stored = [r \in Rows |-> "hex"]
    /\ revokedAt = [r \in Rows |-> 0]
    /\ cdp = FALSE /\ deltas = FALSE
    /\ crls = {}
    /\ waiting = [q \in Requests |-> None]
    /\ clock = 0
    /\ drawn = {} /\ missed = {}

\* utc_now() was read.
ClockRead == clock < MaxTime /\ clock' = clock + 1

-----------------------------------------------------------------------------
(* Certificates *)

\* A certificate enters the table: create_certificate of the API stores its
\* serial in hexadecimal; sign_csr, for CSRs, ACME and SCEP, in decimal.
Issue(r, s, how) ==
    /\ state[r] = "absent"
    /\ s \notin drawn
    /\ state' = [state EXCEPT ![r] = "good"]
    /\ serial' = [serial EXCEPT ![r] = s]
    /\ stored' = [stored EXCEPT ![r] = how]
    /\ drawn' = drawn \cup {s}
    /\ UNCHANGED <<revokedAt, cdp, deltas, crls, waiting, clock, missed>>

\* renew_certificate replaces the certificate in its row, revoked or not.
Renew(r, s) ==
    /\ state[r] # "absent"
    /\ s \notin drawn
    /\ state' = [state EXCEPT ![r] = "good"]
    /\ serial' = [serial EXCEPT ![r] = s]
    /\ stored' = [stored EXCEPT ![r] = "hex"]
    /\ revokedAt' = [revokedAt EXCEPT ![r] = 0]
    /\ drawn' = drawn \cup {s}
    /\ UNCHANGED <<cdp, deltas, crls, waiting, clock, missed>>

\* delete_certificate
Delete(r) ==
    /\ state[r] # "absent"
    /\ state' = [state EXCEPT ![r] = "absent"]
    /\ UNCHANGED <<serial, stored, revokedAt, cdp, deltas, crls, waiting, clock,
                   drawn, missed>>

-----------------------------------------------------------------------------
(* CRLs *)

\* Mutant: full and delta CRLs are numbered apart, by the full ones.
NextNumberOfBase(n) ==
    IF \A d \in crls : d.delta THEN n = 1
    ELSE \E d \in crls :
           /\ ~d.delta /\ n = d.number + 1
           /\ \A e \in crls : ~e.delta => e.number <= d.number

\* crl_number of the next CRL: one past the highest of the CA, or 1.
NextNumber(n) ==
    IF crls = {} THEN n = 1
    ELSE \E d \in crls : n = d.number + 1 /\ \A e \in crls : e.number <= d.number

\* get_latest_base_crl
LatestBase(b) ==
    /\ b \in crls /\ ~b.delta
    /\ \A e \in crls : ~e.delta => e.number <= b.number

Now == {Parsed(r) : r \in {x \in Rows : Revoked(x)}}

\* Mutant: the hold reason is filtered out.
GenerateCrlNoHolds(n) ==
    /\ n <= MaxCrls /\ NextNumber(n)
    /\ crls' = crls \cup
         {[number |-> n, delta |-> FALSE, base |-> 0, at |-> clock,
           entries |-> {Parsed(r) : r \in {x \in Rows : state[x] = "revoked"}},
           revoked |-> Now]}
    /\ ClockRead

\* generate_crl, numbered n: all revoked rows of the CA.
GenerateCrl(n) ==
    /\ n <= MaxCrls /\ NextNumber(n)
    /\ crls' = crls \cup
         {[number |-> n, delta |-> FALSE, base |-> 0, at |-> clock,
           entries |-> Now, revoked |-> Now]}
    /\ ClockRead

\* Mutant: the delta starts at the last CRL of any kind.
GenerateDeltaIncremental(n, b) ==
    /\ cdp /\ deltas
    /\ n <= MaxCrls /\ NextNumber(n) /\ LatestBase(b)
    /\ crls' = crls \cup
         {[number |-> n, delta |-> TRUE, base |-> b.number, at |-> clock,
           entries |-> {Parsed(r) : r \in {x \in Rows :
                           Revoked(x) /\ \A d \in crls : revokedAt[x] > d.at}},
           revoked |-> Now]}
    /\ ClockRead
    /\ UNCHANGED <<rowVars, cdp, deltas, waiting, drawn, missed>>

\* generate_delta_crl on top of the latest full CRL b: the rows revoked since.
GenerateDelta(n, b) ==
    /\ cdp /\ deltas
    /\ n <= MaxCrls /\ NextNumber(n) /\ LatestBase(b)
    /\ crls' = crls \cup
         {[number |-> n, delta |-> TRUE, base |-> b.number, at |-> clock,
           entries |-> {Parsed(r) : r \in {x \in Rows : Revoked(x) /\ revokedAt[x] > b.at}},
           revoked |-> Now]}
    /\ ClockRead
    /\ UNCHANGED <<rowVars, cdp, deltas, waiting, drawn, missed>>

\* regenerate_crl of the API, and the CDP route when there is no full CRL yet.
RegenerateCrl(n) ==
    /\ GenerateCrl(n)
    /\ missed' = {}
    /\ UNCHANGED <<rowVars, cdp, deltas, waiting, drawn>>

\* toggle_auto_regen and configure_delta_crl.  Neither generates a CRL.
SwitchCdp ==
    /\ cdp' = ~cdp
    /\ UNCHANGED <<rowVars, deltas, crls, waiting, clock, drawn, missed>>

SwitchDeltas ==
    /\ deltas' = ~deltas
    /\ UNCHANGED <<rowVars, cdp, crls, waiting, clock, drawn, missed>>

-----------------------------------------------------------------------------
(* Revocation *)

\* revoke_certificate up to its commit.
Revoke(q, r, how) ==
    /\ waiting[q] = None
    /\ state[r] = "good"
    /\ state' = [state EXCEPT ![r] = how]
    /\ revokedAt' = [revokedAt EXCEPT ![r] = clock]
    /\ ClockRead
    /\ waiting' = [waiting EXCEPT ![q] = r]
    /\ UNCHANGED <<serial, stored, cdp, deltas, crls, drawn, missed>>

Resume(q) ==
    /\ waiting[q] # None
    /\ waiting' = [waiting EXCEPT ![q] = None]

\* Mutant: no CRL is made when one exists that is not older than the request.
FinishRevokeIfStale(q, n) ==
    /\ Resume(q)
    /\ state[waiting[q]] # "absent" /\ cdp
    /\ IF \E b \in crls : ~b.delta /\ b.at + 1 >= revokedAt[waiting[q]]
       THEN UNCHANGED <<crls, clock>> ELSE GenerateCrl(n)
    /\ missed' = {}
    /\ UNCHANGED <<rowVars, cdp, deltas, drawn>>

\* The rest of it: the CA is read again, and with the CDP on a CRL is made.
FinishRevoke(q, n) ==
    /\ Resume(q)
    /\ state[waiting[q]] # "absent" /\ cdp
    /\ GenerateCrl(n)
    /\ missed' = {}
    /\ UNCHANGED <<rowVars, cdp, deltas, drawn>>

\* It makes none: the CDP is off, generate_crl fails, which is caught and
\* logged, or the row is gone, which ends the handler in an error.  The
\* invalidation of the OCSP cache that follows asks for certificate.serial,
\* which does not exist, and changes nothing.
FinishWithoutCrl(q) ==
    /\ Resume(q)
    /\ missed' = missed \cup {waiting[q]}
    /\ UNCHANGED <<rowVars, cdp, deltas, crls, clock, drawn>>

\* A restart loses the waiting revocations.
Restart ==
    /\ waiting' = [q \in Requests |-> None]
    /\ missed' = missed \cup {waiting[q] : q \in {p \in Requests : waiting[p] # None}}
    /\ UNCHANGED <<rowVars, cdp, deltas, crls, clock, drawn>>

\* unhold_certificate: it commits, and then calls AuditService.log, which
\* does not exist, so it ends in an error before it regenerates the CRL.
Unhold(r) ==
    /\ state[r] = "held"
    /\ state' = [state EXCEPT ![r] = "good"]
    /\ revokedAt' = [revokedAt EXCEPT ![r] = 0]
    /\ UNCHANGED <<serial, stored, cdp, deltas, crls, waiting, clock,
                   drawn, missed>>

Next ==
    \/ \E r \in Rows, s \in Serials :
          Renew(r, s) \/ \E how \in {"hex", "dec"} : Issue(r, s, how)
    \/ \E r \in Rows : Delete(r) \/ Unhold(r)
    \/ \E q \in Requests, r \in Rows, how \in {"revoked", "held"} : Revoke(q, r, how)
    \/ \E q \in Requests : FinishWithoutCrl(q) \/ \E n \in 1 .. MaxCrls : FinishRevoke(q, n)
    \/ \E n \in 1 .. MaxCrls : RegenerateCrl(n) \/ \E b \in crls : GenerateDelta(n, b)
    \/ SwitchCdp \/ SwitchDeltas
    \/ Restart

Spec == Init /\ [][Next]_vars

\* The audit record that a revocation waits in ends by its socket timeout.
Ends(q) == FinishWithoutCrl(q) \/ \E n \in 1 .. MaxCrls : FinishRevoke(q, n)

FairSpec == Spec /\ \A q \in Requests : WF_vars(Ends(q))

-----------------------------------------------------------------------------
(* Properties *)

\* Full and delta CRLs share one sequence of numbers: no number is used for
\* two CRLs, and a later CRL has a higher one (generate_crl and
\* generate_delta_crl each compute it from the table).
NumbersOrdered ==
    \A d, e \in crls : d # e => d.number # e.number /\ (d.at < e.at <=> d.number < e.number)

\* A row that is revoked is in every full CRL made since it was revoked,
\* whatever holds, renewals and other revocations came between.
FullCrlsListRevoked ==
    \A b \in crls, r \in Rows :
        ~b.delta /\ Revoked(r) /\ revokedAt[r] < b.at => Parsed(r) \in b.entries

\* A delta CRL and the full CRL it is based on together list all that was
\* revoked when the delta was made: the comparison of revoked_at with the
\* base's this_update leaves no gap (generate_delta_crl).
DeltaLeavesNoGap ==
    \A d, b \in crls :
        d.delta /\ ~b.delta /\ b.number = d.base => d.revoked \subseteq d.entries \cup b.entries

\* A revocation whose handler has run to its end with the CDP on is in the
\* latest full CRL, also when several revocations overlap: each CRL is made
\* after its own commit (revoke_certificate).
RevocationPublished ==
    \A r \in Rows :
        Revoked(r) /\ r \notin missed /\ (\A q \in Requests : waiting[q] # r) =>
            \E b \in crls : LatestBase(b) /\ Parsed(r) \in b.entries

\* docs/USER_GUIDE.md says of a revocation that the "certificate is added to
\* CRL automatically": the full CRL made by it names its serial number.
AddedToCrl ==
    \A r \in Rows :
        Revoked(r) /\ r \notin missed /\ (\A q \in Requests : waiting[q] # r) =>
            \E b \in crls : LatestBase(b) /\ <<"serial", serial[r]>> \in b.entries
=============================================================================
