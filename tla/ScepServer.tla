------------------------------- MODULE ScepServer -------------------------------
(***************************************************************************)
(* SCEP enrollment: SCEPService.process_pkcs_req behind                    *)
(* api/scep_protocol.py, and the administrator's handlers of               *)
(* api/v2/scep.py.                                                         *)
(*                                                                         *)
(* A device sends its PKCSReq again until it has an answer it can use, the *)
(* network may deliver each copy at any time, and in between an            *)
(* administrator decides requests, changes the configuration and deletes   *)
(* or renews certificates.  So any message may arrive in any state.  No    *)
(* handler waits for the network before its commit: each is one action.    *)
(* GetCertInitial is no action: its content is no CSR, so process_pkcs_req *)
(* answers it with an error.  SCEPService.approve_request and              *)
(* reject_request have no caller.                                          *)
(***************************************************************************)
CONSTANTS
    Transactions,   \* transactionIDs
    Keys,           \* public keys, each with its CSR
    Certificates,   \* refids: bounds how many certificates are signed
    Passwords,      \* challenge passwords
    None

ASSUME NoneAssumption == None \notin Keys \cup Certificates \cup Passwords

VARIABLES
    request,    \* the scep_requests table
    table,      \* the certificates table, the rows with source 'scep'
    config,     \* scep_enabled with a usable CA, scep_auto_approve, the challenge
    recorded,   \* history: every certificate the table has held
    replied     \* history: the certificates in success replies

scepVars == <<request, table, config, recorded, replied>>

-----------------------------------------------------------------------------
(* State *)

\* A row of scep_requests, or the lack of one.
ScepRequest ==
    [status : {"absent", "pending", "approved", "rejected"},
     csr : Keys \cup {None}, cert : Certificates \cup {None}]

NoRequest == [status |-> "absent", csr |-> None, cert |-> None]

\* A certificate: its row, the transaction it was enrolled by and its key,
\* None after a renewal, which makes a key of its own.
Issued == [cert : Certificates, txn : Transactions, key : Keys \cup {None}]

Config ==
    [enabled : BOOLEAN, autoApprove : BOOLEAN, challenge : Passwords \cup {None}]

\* Type correctness: a request has one of the statuses of SCEPRequest, and a
\* certificate the transaction and the key it was signed for.
ScepTypeOK ==
    /\ request \in [Transactions -> ScepRequest]
    /\ table \in [Certificates -> Issued \cup {None}]
    /\ config \in Config
    /\ recorded \subseteq Issued
    /\ replied \subseteq Issued

ScepInit ==
    /\ request = [t \in Transactions |-> NoRequest]
    /\ table = [c \in Certificates |-> None]
    /\ config = [enabled |-> TRUE, autoApprove |-> FALSE, challenge |-> None]
    /\ recorded = {} /\ replied = {}

-----------------------------------------------------------------------------
(* PKCSReq *)

\* The service can be built and the message has the challenge password, if
\* one is configured.  Otherwise the answer is an error.
Accepted(password) ==
    /\ config.enabled
    /\ config.challenge # None => password = config.challenge

\* Mutant: the transaction is looked up with its certificate.
UnknownNoCertificate(t) ==
    request[t].status = "absent" \/ (request[t].cert # None /\ table[request[t].cert] = None)

\* The transaction has no row yet.  One whose certificate was deleted is taken
\* for new by the code too, but the row cannot be inserted twice, as
\* transaction_id is unique: the commit fails, and all is rolled back.
Unknown(t) == request[t].status = "absent"

\* The success reply goes out, unless it cannot be built: with the changes
\* committed, the device gets an error instead.
Reply(i) == replied' \in {replied, replied \cup {i}}

\* A new transaction without auto-approval.
Enqueue(t, key, password) ==
    /\ Accepted(password) /\ ~config.autoApprove
    /\ Unknown(t)
    /\ request' = [request EXCEPT ![t] =
                     [status |-> "pending", csr |-> key, cert |-> None]]
    /\ UNCHANGED <<table, config, recorded, replied>>

\* A new transaction with auto-approval: _auto_approve_request signs a
\* certificate, which is committed with the request.  If signing or the
\* certificate file fails, nothing is.
Enroll(t, key, password, c) ==
    LET i == [cert |-> c, txn |-> t, key |-> key] IN
    /\ Accepted(password) /\ config.autoApprove
    /\ Unknown(t)
    /\ \A r \in recorded : r.cert # c
    /\ request' = [request EXCEPT ![t] =
                     [status |-> "approved", csr |-> key, cert |-> c]]
    /\ table' = [table EXCEPT ![c] = i]
    /\ recorded' = recorded \cup {i}
    /\ Reply(i)
    /\ UNCHANGED config

\* Mutant: the key of this message is taken for that of the certificate.
RetryWithNewCsr(t, key, password) ==
    LET c == request[t].cert IN
    /\ Accepted(password)
    /\ request[t].status = "approved" /\ c # None
    /\ table[c] # None
    /\ Reply([table[c] EXCEPT !.key = key])
    /\ UNCHANGED <<request, table, config, recorded>>

\* A transaction that has its certificate: the reply has the one stored, and
\* is made out to the CSR that was stored with it, whatever this message's.
Retry(t, key, password) ==
    LET c == request[t].cert IN
    /\ Accepted(password)
    /\ request[t].status = "approved" /\ c # None
    /\ table[c] # None
    /\ Reply(table[c])
    /\ UNCHANGED <<request, table, config, recorded>>

-----------------------------------------------------------------------------
(* Administration *)

\* approve_scep_request decides, and leaves cert_refid empty.
Approve(t) ==
    /\ request[t].status = "pending"
    /\ request' = [request EXCEPT ![t].status = "approved"]
    /\ UNCHANGED <<table, config, recorded, replied>>

\* Mutant: any request that is not rejected yet.
RejectDecided(t) ==
    /\ request[t].status \in {"pending", "approved"}
    /\ request' = [request EXCEPT ![t].status = "rejected"]
    /\ UNCHANGED <<table, config, recorded, replied>>

\* reject_scep_request
Reject(t) ==
    /\ request[t].status = "pending"
    /\ request' = [request EXCEPT ![t].status = "rejected"]
    /\ UNCHANGED <<table, config, recorded, replied>>

\* update_scep_config
UpdateConfig(enabled, autoApprove) ==
    /\ config' = [config EXCEPT !.enabled = enabled, !.autoApprove = autoApprove]
    /\ UNCHANGED <<request, table, recorded, replied>>

\* regenerate_challenge_password
RegenerateChallenge(password) ==
    /\ password # config.challenge
    /\ config' = [config EXCEPT !.challenge = password]
    /\ UNCHANGED <<request, table, recorded, replied>>

\* delete_certificate of the certificate API; the request stays as it is.
DeleteCertificate(c) ==
    /\ table[c] # None
    /\ table' = [table EXCEPT ![c] = None]
    /\ UNCHANGED <<request, config, recorded, replied>>

\* renew_certificate of the certificate API makes a new key pair and puts the
\* new certificate in the row of the old one.
RenewCertificate(c) ==
    LET i == [table[c] EXCEPT !.key = None] IN
    /\ table[c] # None
    /\ table' = [table EXCEPT ![c] = i]
    /\ recorded' = recorded \cup {i}
    /\ UNCHANGED <<request, config, replied>>

ScepNext ==
    \/ \E t \in Transactions, key \in Keys, password \in Passwords \cup {None} :
          \/ Enqueue(t, key, password) \/ Retry(t, key, password)
          \/ \E c \in Certificates : Enroll(t, key, password, c)
    \/ \E t \in Transactions : Approve(t) \/ Reject(t)
    \/ \E enabled, autoApprove \in BOOLEAN : UpdateConfig(enabled, autoApprove)
    \/ \E password \in Passwords : RegenerateChallenge(password)
    \/ \E c \in Certificates : DeleteCertificate(c) \/ RenewCertificate(c)

ScepSpec == ScepInit /\ [][ScepNext]_scepVars

-----------------------------------------------------------------------------
(* Properties *)

\* However often a request is delivered again, and whatever an administrator
\* changes between its copies (auto-approval, the challenge, the certificate
\* itself), a transaction is enrolled once: all certificates ever recorded for
\* it are in one row (process_pkcs_req).
EnrolledOnce == \A i, j \in recorded : i.txn = j.txn => i.cert = j.cert

\* A request that is rejected never had a certificate and its device never
\* gets one, also when copies of the request arrive later and with
\* auto-approval on.
RejectedHasNothing ==
    \A t \in Transactions : request[t].status = "rejected" =>
        \A i \in recorded \cup replied : i.txn # t

\* A certificate that went out is one the table held for that transaction, so
\* that it can be found and revoked, and its key is that of the CSR the
\* transaction started with, not of a later copy, unless it was renewed here.
RepliesAreRecorded ==
    \A i \in replied :
        /\ i \in recorded
        /\ i.key \in {request[i.txn].csr, None}
        /\ request[i.txn].status = "approved"

\* The help text says "Click **Approve** to sign and issue the certificate":
\* an approved request has a certificate.
ApprovedIsIssued ==
    \A t \in Transactions : request[t].status = "approved" => request[t].cert # None
=============================================================================
