------------------------- MODULE ClientCertificates -------------------------
(***************************************************************************)
(* Client certificates as a way to log in: enrolment, lookup by serial     *)
(* number, revocation and the settings of mTLS (api/v2/mtls.py,            *)
(* api/v2/user_certificates.py, the mTLS part of api/v2/users.py,          *)
(* services/mtls_auth_service.py, middleware/mtls_middleware.py,           *)
(* services/certificate_parser.py).                                        *)
(*                                                                         *)
(* A serial number is stored and compared as text.  The same number is     *)
(* written in decimal by some code and in hexadecimal by other code, and a *)
(* proxy writes it with an even number of digits.  Serial numbers are long *)
(* and random: no text is the decimal of one and the hexadecimal of        *)
(* another certificate.                                                    *)
(***************************************************************************)
EXTENDS Naturals, FiniteSets

CONSTANTS
  Cert, Person,          \* certificates; users
  Admin, Operator,       \* users with the role admin, and with the role operator
  OddSerial,             \* certificates whose hexadecimal has an odd number of digits
  MaxRowId,              \* bound: ids of rows
  MaxRevocations         \* bound: revocations under way at a time

ASSUME MaxRowIdAssumption == MaxRowId \in Nat

VARIABLES
  rows,                  \* AuthCertificate: [id, text, cert, user, enabled]
  store,                 \* Certificate: [text, cert, revoked]
  expired, active,       \* certificates past their validity; users that are active
  mtls,                  \* [enabled, required]
  entered,               \* the last login: [cert, user]
  revoking,              \* revocations between their two commits: [id, text]
  withdrawn,             \* history: texts whose row has had its revocation committed
  cut                    \* history: ids of rows whose revocation did not come to its end

revocationVars == <<revoking, withdrawn, cut>>
certVars == <<rows, store, expired, active, mtls, entered, revoking, withdrawn, cut>>

Dec(c) == <<"dec", c>>
Hex(c) == <<"hex", c>>
Padded(c) == IF c \in OddSerial THEN <<"padded", c>> ELSE Hex(c)
Texts == UNION {{Dec(c), Hex(c), Padded(c)} : c \in Cert}

Stored(t, c) == [text |-> t, cert |-> c, revoked |-> FALSE]
Nobody == [cert |-> "none", user |-> "none"]

CertInit ==
  /\ rows = {} /\ expired = {} /\ active = Person
  /\ store \in SUBSET UNION {{Stored(Dec(c), c), Stored(Hex(c), c)} : c \in Cert}
  /\ mtls = [enabled |-> FALSE, required |-> FALSE]
  /\ entered = Nobody
  /\ revoking = {} /\ withdrawn = {} /\ cut = {}

(* Type correctness; id and cert_serial are unique. *)
CertTypeOK ==
  /\ \A r \in rows : /\ r.id \in 1..MaxRowId /\ r.text \in Texts /\ r.cert \in Cert
                      /\ r.user \in Person /\ r.enabled \in BOOLEAN
  /\ \A r, q \in rows : r.text = q.text \/ r.id = q.id => r = q
  /\ expired \subseteq Cert /\ active \subseteq Person
  /\ entered = Nobody \/ (entered.cert \in Cert /\ entered.user \in Person)

ByText(t) == {r \in rows : r.text = t}

(* Mutant: a disabled enrolment is overlooked. *)
EnrolledEnabled(t) == \E r \in ByText(t) : r.enabled

Enrolled(t) == ByText(t) # {}
Row(n, t, c, u) == [id |-> n, text |-> t, cert |-> c, user |-> u, enabled |-> TRUE]

(* SQLite gives a new row the number after the largest one in use, so the  *)
(* id of a deleted row may come back.                                      *)
NewRowId(n) ==
  /\ n \in 1..MaxRowId /\ \A r \in rows : r.id < n
  /\ n = 1 \/ \E r \in rows : r.id + 1 = n

-----------------------------------------------------------------------------
(* authenticate_certificate: the text as presented, then the decimal of a  *)
(* hexadecimal text.  The third reading, a decimal text written in         *)
(* hexadecimal, meets no presented text.  The last resort is the           *)
(* fingerprint, where the proxy gives one of the same kind as the row's.   *)

(* Mutant: only the text as presented. *)
FindAsPresented(t, c) == ByText(t)

Find(t, c) == IF Enrolled(t) THEN ByText(t) ELSE ByText(Dec(c))

ByFingerprint(t, c) == {r \in rows : r.cert = c /\ ~Enrolled(t) /\ ~Enrolled(Dec(c))}

Candidates(t, c) == Find(t, c) \cup ByFingerprint(t, c)

(* Mutant: a disabled enrolment logs in. *)
authenticate_certificateDisabled(c, t) ==
  \E r \in Candidates(t, c) :
    /\ c \notin expired \/ t # Hex(c)
    /\ r.user \in active
    /\ entered' = [cert |-> c, user |-> r.user]

authenticate_certificate(c, t) ==
  \E r \in Candidates(t, c) :
    /\ r.enabled
    /\ c \notin expired \/ t # Hex(c)        \* without the PEM the validity is not known
    /\ r.user \in active
    /\ entered' = [cert |-> c, user |-> r.user]

(* The serial number as the certificate gives it, or as a proxy that does  *)
(* not pass the certificate on writes it in a header.                      *)
Presented(c) == {Hex(c), Padded(c)}

(* process_client_certificate, before any request of a browser. *)
process_client_certificate(c, t) ==
  /\ mtls.enabled /\ t \in Presented(c)
  /\ authenticate_certificate(c, t)
  /\ UNCHANGED <<rows, store, expired, active, mtls, revocationVars>>

login_mtls(c, t) ==
  /\ t \in Presented(c)
  /\ authenticate_certificate(c, t)
  /\ UNCHANGED <<rows, store, expired, active, mtls, revocationVars>>

-----------------------------------------------------------------------------
(* Enrolment.  A text that is enrolled again has no revocation behind it.  *)

Enrol(t, c, u) ==
  /\ \E n \in 1..MaxRowId : NewRowId(n) /\ rows' = rows \cup {Row(n, t, c, u)}
  /\ withdrawn' = withdrawn \ {t}
  /\ UNCHANGED <<expired, active, mtls, entered, revoking, cut>>

enroll_presented_certificate(u, c, t) ==
  /\ t \in Presented(c) /\ u \in active
  /\ c \notin expired \/ t # Hex(c)
  /\ ~Enrolled(t)
  /\ Enrol(t, c, u) /\ UNCHANGED store

(* A certificate that is not in the store yet is added to it. *)
Imported(c) == store' = IF \E x \in store : x.text = Dec(c) THEN store
                        ELSE store \cup {Stored(Dec(c), c)}

enroll_import_certificate(u, c, owner) ==
  /\ u \in active /\ c \notin expired /\ ~Enrolled(Dec(c))
  /\ owner = u \/ u \in Admin
  /\ Imported(c)
  /\ Enrol(Dec(c), c, owner)

(* The administrator's import does not look at the validity; the mode      *)
(* "generate" of the same handler calls a function that does not exist.    *)
create_user_mtls_certificate(u, c, owner) ==
  /\ u \in active \cap Admin /\ ~Enrolled(Dec(c))
  /\ Imported(c)
  /\ Enrol(Dec(c), c, owner)

create_mtls_certificate(u, c) ==
  /\ u \in active /\ \A x \in store \cup rows : x.cert # c
  /\ store' = store \cup {Stored(Dec(c), c)}
  /\ Enrol(Dec(c), c, u)

assign_certificate(u, x, owner) ==
  /\ u \in active /\ ~Enrolled(x.text)
  /\ owner = u \/ u \in Admin
  /\ Enrol(x.text, x.cert, owner) /\ UNCHANGED store

-----------------------------------------------------------------------------
(* Removal.  The certificate of an enrolment is found by equal text. *)

InStore(r) == {x \in store : x.text = r.text}

Delete(r) ==
  /\ rows' = rows \ {r} /\ withdrawn' = withdrawn \ {r.text} /\ cut' = cut \ {r.id}
  /\ UNCHANGED <<expired, active, mtls, entered, revoking>>

delete_mtls_certificate(u, r) ==
  /\ u \in active /\ (r.user = u \/ u \in Admin)
  /\ Delete(r) /\ UNCHANGED store

delete_user_mtls_certificate(u, r) ==
  /\ u \in active \cap Admin
  /\ Delete(r) /\ UNCHANGED store

delete_user_certificate(u, r) ==
  /\ u \in active \cap (Admin \cup Operator)
  /\ Delete(r) /\ store' = store \ InStore(r)

Revoke(x) == ~x.revoked /\ store' = (store \ {x}) \cup {[x EXCEPT !.revoked = TRUE]}

(* The certificates page revokes without looking at the enrolments. *)
revoke_certificate(u, x) ==
  /\ u \in active \cap (Admin \cup Operator) /\ Revoke(x)
  /\ UNCHANGED <<rows, expired, active, mtls, entered, revocationVars>>

(* The certificates page deletes without looking at the enrolments too. *)
delete_certificate(u, x) ==
  /\ u \in active \cap Admin /\ store' = store \ {x}
  /\ UNCHANGED <<rows, expired, active, mtls, entered, revocationVars>>

(* revoke_user_certificate: CertificateService.revoke_certificate commits  *)
(* the revocation, then writes the audit row and the CRL.  A certificate   *)
(* that is revoked already is refused, so what was cut short is not taken  *)
(* up again.  A row that takes the id of a deleted one while a revocation  *)
(* of the same text is on its way waits for it (a bound).                  *)
revoke_user_certificate(u, r) ==
  /\ u \in active \cap (Admin \cup Operator)
  /\ \E x \in InStore(r) : Revoke(x)
  /\ [id |-> r.id, text |-> r.text] \notin revoking /\ Cardinality(revoking) < MaxRevocations
  /\ revoking' = revoking \cup {[id |-> r.id, text |-> r.text]}
  /\ withdrawn' = withdrawn \cup {r.text}
  /\ UNCHANGED <<rows, expired, active, mtls, entered, cut>>

(* Mutant: the enrolment is left as it is. *)
revoke_user_certificate_leaves(e) ==
  /\ e \in revoking /\ revoking' = revoking \ {e}
  /\ UNCHANGED <<rows, store, expired, active, mtls, entered, withdrawn, cut>>

(* The second commit: the row with that id, if there still is one, is      *)
(* disabled; without one the update fails and the answer is an error.      *)
revoke_user_certificate_ends(e) ==
  /\ e \in revoking /\ revoking' = revoking \ {e}
  /\ rows' = {IF r.id = e.id THEN [r EXCEPT !.enabled = FALSE] ELSE r : r \in rows}
  /\ UNCHANGED <<store, expired, active, mtls, entered, withdrawn, cut>>

(* The certificate was deleted while the handler waited: reading its row   *)
(* again raises, unless another certificate has taken its id, and the      *)
(* answer is an error.                                                     *)
revoke_user_certificate_fails(e) ==
  /\ e \in revoking /\ \A x \in store : x.text # e.text
  /\ revoking' = revoking \ {e} /\ cut' = cut \cup {e.id}
  /\ UNCHANGED <<rows, store, expired, active, mtls, entered, withdrawn>>

(* The process stops; its handlers end where they are. *)
CertRestart ==
  /\ revoking # {} /\ revoking' = {}
  /\ cut' = cut \cup {e.id : e \in revoking}
  /\ UNCHANGED <<rows, store, expired, active, mtls, entered, withdrawn>>

-----------------------------------------------------------------------------
(* update_mtls_settings: mTLS is not required before an administrator can  *)
(* log in with a certificate.                                              *)

AdminCanEnter == \E r \in rows : r.enabled /\ r.user \in Admin \cap active

update_mtls_settings(u) ==
  /\ u \in active \cap Admin
  /\ \E e, q \in BOOLEAN :
       /\ e /\ q => AdminCanEnter
       /\ mtls' = [enabled |-> e, required |-> q]
  /\ UNCHANGED <<rows, store, expired, active, entered, revocationVars>>

toggle_person(u) ==
  /\ active' = IF u \in active THEN active \ {u} ELSE active \cup {u}
  /\ active' # {}
  /\ UNCHANGED <<rows, store, expired, mtls, entered, revocationVars>>

Expire(c) ==
  /\ expired' = expired \cup {c} /\ c \notin expired
  /\ UNCHANGED <<rows, store, active, mtls, entered, revocationVars>>

CertNext ==
  \/ \E c \in Cert, t \in Texts : process_client_certificate(c, t) \/ login_mtls(c, t)
  \/ \E u \in Person, c \in Cert, t \in Texts : enroll_presented_certificate(u, c, t)
  \/ \E u, owner \in Person, c \in Cert :
       \/ enroll_import_certificate(u, c, owner) \/ create_user_mtls_certificate(u, c, owner)
  \/ \E u, owner \in Person, x \in store : assign_certificate(u, x, owner)
  \/ \E u \in Person, c \in Cert : create_mtls_certificate(u, c)
  \/ \E u \in Person, r \in rows :
       \/ delete_mtls_certificate(u, r) \/ delete_user_mtls_certificate(u, r)
       \/ delete_user_certificate(u, r) \/ revoke_user_certificate(u, r)
  \/ \E u \in Person, x \in store : revoke_certificate(u, x) \/ delete_certificate(u, x)
  \/ \E e \in revoking : revoke_user_certificate_ends(e) \/ revoke_user_certificate_fails(e)
  \/ CertRestart
  \/ \E u \in Person : update_mtls_settings(u) \/ toggle_person(u)
  \/ \E c \in Cert : Expire(c)

CertSpec == CertInit /\ [][CertNext]_certVars

-----------------------------------------------------------------------------
(* A certificate that is enrolled once is found when it is presented with  *)
(* its serial number in hexadecimal, whichever of the ways of enrolment    *)
(* wrote the row and in whichever base.                                    *)
LookupComplete ==
  \A c \in Cert :
    LET R == {r \in rows : r.cert = c}
    IN  Cardinality(R) = 1 /\ (\A r \in R : r.text \in {Dec(c), Hex(c)}) => Find(Hex(c), c) = R

(* The user a certificate logs in is one it is enrolled for at that        *)
(* moment, by a row that has not been disabled by a revocation.            *)
CertificateOfUser ==
  [][entered' # entered =>
       \E r \in rows : r.cert = entered'.cert /\ r.user = entered'.user /\ r.enabled]_certVars

Revoking(r) == \E e \in revoking : e.id = r.id

(* A certificate revoked through the user certificates logs nobody in once *)
(* the handler is through: the row that was enrolled when it began is      *)
(* disabled, whatever was deleted, enrolled again under the same id or     *)
(* revoked elsewhere meanwhile.  Only a restart between the two commits,   *)
(* or the deletion of the certificate there, leaves an enabled row.        *)
RevokedDisabled ==
  \A r \in rows : r.text \in withdrawn /\ ~Revoking(r) /\ r.id \notin cut => ~r.enabled

(* An enrolment is found in either notation of its serial number, and none *)
(* is left enabled by a revocation that came to its end                    *)
(* (authenticate_certificate, revoke_user_certificate).                    *)
EnrolmentsSound == LookupComplete /\ RevokedDisabled
====
