------------------------------- MODULE Ocsp -------------------------------
(***************************************************************************)
(* The OCSP responder (api/ocsp_routes.py, services/ocsp_service.py) with  *)
(* its table of signed responses, and what a revocation does to that       *)
(* table.  A request is answered without waiting, in one action.           *)
(*                                                                         *)
(* A column holds text as it was encoded: the list of the layers, the      *)
(* outermost first.  A CA's crt is base64 around PEM.                      *)
(***************************************************************************)
EXTENDS Integers, Sequences

CONSTANTS Issuers,   \* the CAs
          Serials,   \* serial numbers a request may ask about
          Lifetime,  \* 24 hours, in ticks of the clock
          MaxTime    \* bound of the clock

VARIABLES enabled,   \* ca.ocsp_enabled
          prv,       \* the CA has a private key that can be loaded
          certs,     \* the certificates table: per issuer and serial
          responses, \* the ocsp_responses table
          clock,
          answer     \* the last request and what it was answered

ocspVars == <<enabled, prv, certs, responses, clock, answer>>

Crt == <<"base64", "pem">>
Columns == {"refid", "caref", "crt", "csr", "prv", "serial_number", "revoked"}

OcspInit ==
  /\ enabled = [i \in Issuers |-> FALSE] /\ prv \in [Issuers -> BOOLEAN]
  /\ certs = [x \in Issuers \X Serials |-> "absent"]
  /\ responses = {} /\ clock = 0
  /\ answer = [known |-> FALSE, reply |-> "none"]

load_pem_x509_certificate(text) == Head(text) = "pem"
b64decode(text) == Tail(text)

(* The CA whose subject has the hash; one whose certificate cannot be read *)
(* is passed over.                                                         *)
_find_ca_by_issuer_hash(i) == i \in Issuers /\ load_pem_x509_certificate(Crt)

Cached(i, s) == {r \in responses : r.issuer = i /\ r.serial = s /\ r.until >= clock}

Status(i, s) == CASE certs[<<i, s>>] = "absent" -> "unknown"
                  [] certs[<<i, s>>] = "revoked" -> "revoked"
                  [] OTHER -> "good"

(* What is signed: the query by the column serial raises when there is no  *)
(* such column.                                                            *)
generate_response(i, s) ==
  IF load_pem_x509_certificate(b64decode(Crt)) /\ prv[i] /\ "serial" \in Columns
  THEN Status(i, s) ELSE "internal_error"

_cache_response(i, s, status) ==
  {r \in responses : r.issuer # i \/ r.serial # s}
    \cup {[issuer |-> i, serial |-> s, status |-> status, until |-> clock + Lifetime]}

(* i is what the request names by hash, a CA or not. *)
Reply(i, s) ==
  IF ~_find_ca_by_issuer_hash(i) THEN "unauthorized"
  ELSE IF ~enabled[i] THEN "unauthorized"
  ELSE IF Cached(i, s) # {} THEN (CHOOSE r \in Cached(i, s) : TRUE).status
  ELSE generate_response(i, s)

_process_ocsp_request(i, s, parses) ==
  LET reply == IF parses THEN Reply(i, s) ELSE "malformed_request"
  IN /\ answer' = [known |-> parses /\ i \in Issuers /\ enabled[i] /\ prv[i], reply |-> reply]
     /\ responses' = IF reply \in {"good", "revoked", "unknown"} /\ Cached(i, s) = {}
                     THEN _cache_response(i, s, reply) ELSE responses
     /\ UNCHANGED <<enabled, prv, certs, clock>>

update_ca(i, on) ==
  /\ enabled' = [enabled EXCEPT ![i] = on]
  /\ UNCHANGED <<prv, certs, responses, clock, answer>>

sign_csr(i, s) ==
  /\ certs[<<i, s>>] = "absent" /\ prv[i]
  /\ certs' = [certs EXCEPT ![<<i, s>>] = "good"]
  /\ UNCHANGED <<enabled, prv, responses, clock, answer>>

(* The response is removed by the attribute serial of the row, which it    *)
(* does not have.                                                          *)
revoke_certificate(i, s) ==
  /\ certs[<<i, s>>] = "good"
  /\ certs' = [certs EXCEPT ![<<i, s>>] = "revoked"]
  /\ responses' = IF enabled[i] /\ "serial" \in Columns
                  THEN {r \in responses : r.issuer # i \/ r.serial # s} ELSE responses
  /\ UNCHANGED <<enabled, prv, clock, answer>>

cleanup_expired_responses ==
  /\ responses' = {r \in responses : r.until >= clock}
  /\ UNCHANGED <<enabled, prv, certs, clock, answer>>

Tick == clock < MaxTime /\ clock' = clock + 1 /\ UNCHANGED <<enabled, prv, certs, responses, answer>>

OcspNext ==
  \/ \E i \in Issuers \cup {"other"}, s \in Serials, parses \in BOOLEAN :
       _process_ocsp_request(i, s, parses)
  \/ \E i \in Issuers, on \in BOOLEAN : update_ca(i, on)
  \/ \E i \in Issuers, s \in Serials : sign_csr(i, s) \/ revoke_certificate(i, s)
  \/ cleanup_expired_responses \/ Tick

OcspSpec == OcspInit /\ [][OcspNext]_ocspVars

----------------------------------------------------------------------------
(* CHANGELOG.md says of the responder that unknown serials "now return     *)
(* proper `UNKNOWN` status in a signed OCSP response instead of            *)
(* `UNAUTHORIZED` error": a request that can be read, about a CA with its  *)
(* key and OCSP on, is answered with a status.                             *)
AnsweredWithStatus == answer.known => answer.reply \in {"good", "revoked", "unknown"}
====
