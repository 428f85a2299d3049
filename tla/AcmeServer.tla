------------------------------- MODULE AcmeServer -------------------------------
(***************************************************************************)
(* The local ACME server: accounts, orders, authorizations and challenges  *)
(* (models/acme_models.py), the handlers of api/acme/acme_api.py and the   *)
(* service behind them (services/acme/acme_service.py).                    *)
(*                                                                         *)
(* One gunicorn worker runs all requests as gevent greenlets, so a handler *)
(* runs without interruption between two points where it waits for the     *)
(* network.  A handler that never waits is one action.  Two wait:          *)
(*   - respond_to_challenge, in requests.get / dns.resolver.resolve;       *)
(*   - finalize_order, in the syslog forwarding of the audit record that   *)
(*     sign_csr writes after it has committed the certificate and before   *)
(*     the order is marked valid.                                          *)
(* Each is two actions, with the state it carries over kept in a request   *)
(* slot; any other handler, or a restart, may come between.                *)
(***************************************************************************)
EXTENDS Naturals, FiniteSets

CONSTANTS
    Accounts,       \* ACME account keys
    Identifiers,    \* DNS names
    OtherNames,     \* names of other kinds a CSR may carry: addresses, mail, URIs
    Orders,         \* order ids: bounds how many orders are ever created
    Certificates,   \* ids of certificate rows: bounds how many there are at once
    ChallengeTypes, \* http-01 and dns-01: validated alike
    Requests,       \* concurrent requests that may wait on the network
    AuthzLifetime,  \* 7 days, in ticks of the clock
    MaxTime,        \* bound of the clock
    None

ASSUME LifetimeAssumption == AuthzLifetime \in Nat /\ MaxTime \in Nat

ASSUME CertificatesAssumption == Certificates \subseteq Nat

\* The names a certificate can hold.
Names == Identifiers \cup OtherNames

\* A row of the certificates table: the order it was signed for and that
\* order's account, both None for a row of another source.
CertificateRow ==
    [owner : Accounts \cup {None}, names : SUBSET Names, order : Orders \cup {None},
     renewed : BOOLEAN]

ASSUME NoneAssumption ==
    None \notin CertificateRow /\ None \notin Certificates /\ None \notin Orders

VARIABLES
    account,        \* status of each account row
    status,         \* status of each order row
    owner,          \* the account an order belongs to
    idents,         \* the identifiers an order asks for
    cert,           \* order.certificate_id
    authz,          \* per order and identifier: authorization.status
    expires,        \* per order and identifier: authorization.expires
    challenge,      \* per order, identifier and type: challenge.status
    request,        \* what each waiting request carries over its wait
    issued,         \* the certificates table
    clock,
    proofs,         \* history: validations that succeeded, and when
    gone            \* history: <<o, c>> when row c, signed for o, was deleted

orderVars == <<status, owner, idents, cert>>
authzVars == <<authz, expires, challenge>>
vars == <<account, orderVars, authzVars, request, issued, clock, proofs, gone>>

-----------------------------------------------------------------------------
(* State *)

OrderStatus == {"absent", "pending", "ready", "valid", "invalid", "deleted"}
ChallengeStatus == {"pending", "valid", "invalid"}
Times == 0 .. (MaxTime + AuthzLifetime)

Idle == [op |-> "idle"]

\* respond_to_challenge waiting for the answer of the probed host.  loaded is
\* the challenge status the ORM read before the wait.
Validation ==
    [op : {"validate"}, order : Orders, ident : Identifiers,
     type : ChallengeTypes, loaded : ChallengeStatus]

\* finalize_order waiting in the audit record of the certificate it signed.
Finalization == [op : {"finalize"}, order : Orders, cert : Certificates]

Proof == [owner : Accounts, ident : Identifiers, at : 0 .. MaxTime]

\* Type correctness: every table, request slot and validation is of its kind
\* whatever handlers waited or were cut off (models/acme_models.py).
TypeOK ==
    /\ account \in [Accounts -> {"absent", "valid", "deactivated"}]
    /\ status \in [Orders -> OrderStatus]
    /\ owner \in [Orders -> Accounts \cup {None}]
    /\ idents \in [Orders -> SUBSET Identifiers]
    /\ cert \in [Orders -> Certificates \cup {None}]
    /\ authz \in [Orders -> [Identifiers -> {"pending", "valid"}]]
    /\ expires \in [Orders -> [Identifiers -> Times]]
    /\ challenge \in [Orders -> [Identifiers -> [ChallengeTypes -> ChallengeStatus]]]
    /\ request \in [Requests -> {Idle} \cup Validation \cup Finalization]
    /\ issued \in [Certificates -> CertificateRow \cup {None}]
    /\ clock \in 0 .. MaxTime
    /\ proofs \subseteq Proof
    /\ gone \subseteq Orders \X Certificates

Init ==
    /\ account = [a \in Accounts |-> "absent"]
    /\ status = [o \in Orders |-> "absent"]
    /\ owner = [o \in Orders |-> None]
    /\ idents = [o \in Orders |-> {}]
    /\ cert = [o \in Orders |-> None]
    /\ authz = [o \in Orders |-> [i \in Identifiers |-> "pending"]]
    /\ expires = [o \in Orders |-> [i \in Identifiers |-> 0]]
    /\ challenge = [o \in Orders |-> [i \in Identifiers |->
                       [t \in ChallengeTypes |-> "pending"]]]
    /\ request = [r \in Requests |-> Idle]
    /\ issued = [c \in Certificates |-> None]
    /\ clock = 0
    /\ proofs = {}
    /\ gone = {}

\* The order row exists.
Live(o) == status[o] \notin {"absent", "deleted"}

\* Every authorization row of order o has status 'valid' when a is the
\* authorization table.
AllValid(a, o) == \A i \in idents[o] : a[o][i] = "valid"

-----------------------------------------------------------------------------
(* Accounts *)

\* new_account: a known key gets its existing account back, whatever its
\* status, so only an unknown key changes anything.
NewAccount(a) ==
    /\ account[a] = "absent"
    /\ account' = [account EXCEPT ![a] = "valid"]
    /\ UNCHANGED <<orderVars, authzVars, request, issued, clock, proofs, gone>>

\* account_info with status 'deactivated', and the administrator's button.
DeactivateAccount(a) ==
    /\ account[a] # "absent"
    /\ account' = [account EXCEPT ![a] = "deactivated"]
    /\ UNCHANGED <<orderVars, authzVars, request, issued, clock, proofs, gone>>

\* delete_acme_account removes the account row and all its orders.  The rows
\* of their authorizations and challenges stay behind, since the two deletes
\* compare integer ids with string keys, but without an order they are dead:
\* reuse joins the order, and an answered challenge fails on auth.order.
DeleteAccount(a) ==
    /\ account[a] # "absent"
    /\ account' = [account EXCEPT ![a] = "absent"]
    /\ status' = [o \in Orders |->
                    IF Live(o) /\ owner[o] = a THEN "deleted" ELSE status[o]]
    /\ UNCHANGED <<owner, idents, cert, authzVars, request, issued, clock, proofs, gone>>

-----------------------------------------------------------------------------
(* Orders *)

\* Mutant: the expiry is not looked at.
ReusableExpired(a, i) ==
    {o \in Orders : /\ Live(o) /\ owner[o] = a /\ i \in idents[o]
                    /\ authz[o][i] = "valid"}

\* Mutant: the account is not looked at.
ReusableAnyAccount(a, i) ==
    {o \in Orders : /\ Live(o) /\ i \in idents[o]
                    /\ authz[o][i] = "valid"
                    /\ expires[o][i] > clock}

\* The orders whose authorization for i account a may use again: valid and
\* not expired, of one of its own orders.
Reusable(a, i) ==
    {o \in Orders : /\ Live(o) /\ owner[o] = a /\ i \in idents[o]
                    /\ authz[o][i] = "valid"
                    /\ expires[o][i] > clock}

\* valid_auth: of those, one that expires last, or None if there is none.
ReuseSource(a, i, src) ==
    IF Reusable(a, i) = {}
    THEN src = None
    ELSE /\ src \in Reusable(a, i)
         /\ \A p \in Reusable(a, i) : expires[p][i] <= expires[src][i]

\* Mutant: reuse extends the authorization instead.
NewExpiryExtended(i, src) ==
    IF src = None THEN clock + AuthzLifetime ELSE expires[src][i] + AuthzLifetime

\* The expiry of a new authorization: carried over when it is reused.
NewExpiry(i, src) ==
    IF src = None THEN clock + AuthzLifetime ELSE expires[src][i]

\* new_order: S is the payload's identifiers and src[i] the order whose
\* authorization for i is reused.  The account must exist, its status is not
\* looked at.  The order is ready at once when every authorization is reused.
\* The rows are committed one authorization at a time, but the handler does not
\* wait in between, and an order that a kill leaves half made has no reader:
\* its URL was never answered.
NewOrder(a, o, S, src) ==
    LET fresh(i) == i \in S /\ src[i] = None
        initial(i) == IF fresh(i) THEN "pending" ELSE "valid" IN
    /\ account[a] # "absent"
    /\ status[o] = "absent"
    /\ S # {}
    /\ \A i \in S : ReuseSource(a, i, src[i])
    /\ status' = [status EXCEPT ![o] =
                    IF \E i \in S : fresh(i) THEN "pending" ELSE "ready"]
    /\ owner' = [owner EXCEPT ![o] = a]
    /\ idents' = [idents EXCEPT ![o] = S]
    /\ authz' = [authz EXCEPT ![o] =
                    [i \in Identifiers |-> IF i \in S THEN initial(i) ELSE @[i]]]
    /\ expires' = [expires EXCEPT ![o] =
                    [i \in Identifiers |->
                        IF i \in S THEN NewExpiry(i, src[i]) ELSE @[i]]]
    /\ challenge' = [challenge EXCEPT ![o] =
                    [i \in Identifiers |->
                        IF i \in S THEN [t \in ChallengeTypes |-> initial(i)]
                                   ELSE @[i]]]
    /\ UNCHANGED <<account, cert, request, issued, clock, proofs, gone>>

-----------------------------------------------------------------------------
(* Challenges *)

\* respond_to_challenge up to the network call: the challenge is looked up by
\* its URL and the answering account k by its kid.  No status is tested, and
\* k need not be the order's account.
RespondToChallenge(r, k, o, i, t) ==
    /\ request[r] = Idle
    /\ account[k] # "absent"
    /\ Live(o) /\ i \in idents[o]
    /\ request' = [request EXCEPT ![r] =
                     [op |-> "validate", order |-> o, ident |-> i, type |-> t,
                      loaded |-> challenge[o][i][t]]]
    /\ UNCHANGED <<account, orderVars, authzVars, issued, clock, proofs, gone>>

\* The ORM writes a column back only if the handler left it different from
\* what it loaded: setting it to the loaded value keeps what others wrote.
Persisted(loaded, new, stored) == IF loaded = new THEN stored ELSE new

Waiting(r, op) == request[r].op = op
Done(r) == request' = [request EXCEPT ![r] = Idle]

\* Mutant: the authorizations are compared as they were before this one
\* was written.
UpdateAuthorizationStale(o, i) ==
    /\ authz' = [authz EXCEPT ![o][i] = "valid"]
    /\ status' = [status EXCEPT ![o] =
                    IF AllValid(authz, o) THEN "ready" ELSE @]

\* Mutant: one valid authorization is enough.
UpdateAuthorizationAny(o, i) ==
    /\ authz' = [authz EXCEPT ![o][i] = "valid"]
    /\ status' = [status EXCEPT ![o] = "ready"]

\* _update_authorization_status, called with a challenge just set to 'valid':
\* the authorization becomes valid and, if the freshly queried authorizations
\* of its order are all valid, so does the order become ready, whatever its
\* status was.
UpdateAuthorizationStatus(o, i) ==
    /\ authz' = [authz EXCEPT ![o][i] = "valid"]
    /\ status' = [status EXCEPT ![o] =
                    IF AllValid(authz', o) THEN "ready" ELSE @]

\* The probed host returned the expected key authorization.
ValidationSucceeds(r) ==
    LET q == request[r] IN
    /\ Waiting(r, "validate") /\ Live(q.order)
    /\ challenge' = [challenge EXCEPT ![q.order][q.ident][q.type] =
                        Persisted(q.loaded, "valid", @)]
    /\ UpdateAuthorizationStatus(q.order, q.ident)
    /\ proofs' = proofs \cup
          {[owner |-> owner[q.order], ident |-> q.ident, at |-> clock]}
    /\ Done(r)
    /\ UNCHANGED <<account, owner, idents, cert, expires, issued, clock, gone>>

\* It returned something else, or did not answer in time.
ValidationFails(r) ==
    LET q == request[r] IN
    /\ Waiting(r, "validate") /\ Live(q.order)
    /\ challenge' = [challenge EXCEPT ![q.order][q.ident][q.type] =
                        Persisted(q.loaded, "invalid", @)]
    /\ Done(r)
    /\ UNCHANGED <<account, orderVars, authz, expires, issued, clock, proofs, gone>>

-----------------------------------------------------------------------------
(* Finalization *)

\* The id of a new certificate row: one more than the largest there is.  Ids
\* are not kept from one row to the next, so that of a deleted row may come
\* back.
NewId(c) == issued[c] = None /\ \A d \in Certificates : issued[d] # None => d < c

\* finalize_order up to the commit of sign_csr: the order must be ready and
\* the common name and DNS names of the CSR those of the order.  The CSR's
\* names of other kinds are not compared, and sign_csr copies them all.
SignCertificate(r, o, csr, c) ==
    /\ request[r] = Idle
    /\ status[o] = "ready"
    /\ csr \cap Identifiers = idents[o]
    /\ NewId(c)
    /\ issued' = [issued EXCEPT ![c] =
                    [owner |-> owner[o], names |-> csr, order |-> o, renewed |-> FALSE]]
    /\ request' = [request EXCEPT ![r] = [op |-> "finalize", order |-> o, cert |-> c]]
    /\ gone' = gone \ {<<o, c>>}
    /\ UNCHANGED <<account, orderVars, authzVars, clock, proofs>>

\* No CA can sign (none configured, no key, or an unusable one): the order
\* fails in the same request, before anything is committed.
SigningFails(o) ==
    /\ status[o] = "ready"
    /\ status' = [status EXCEPT ![o] = "invalid"]
    /\ UNCHANGED <<account, owner, idents, cert, authzVars, request, issued, clock, proofs, gone>>

\* Mutant: the order is marked valid and its certificate is not recorded.
FinishFinalizeNoCert(r) ==
    LET q == request[r] IN
    /\ Waiting(r, "finalize") /\ Live(q.order) /\ issued[q.cert] # None
    /\ status' = [status EXCEPT ![q.order] = "valid"]
    /\ Done(r)
    /\ UNCHANGED <<account, owner, idents, cert, authzVars, issued, clock, proofs, gone>>

\* The rest of finalize_order: the certificate row is read again and the
\* order takes it, without a second look at the order's status.
FinishFinalize(r) ==
    LET q == request[r] IN
    /\ Waiting(r, "finalize") /\ Live(q.order) /\ issued[q.cert] # None
    /\ status' = [status EXCEPT ![q.order] = "valid"]
    /\ cert' = [cert EXCEPT ![q.order] = q.cert]
    /\ Done(r)
    /\ UNCHANGED <<account, owner, idents, authzVars, issued, clock, proofs, gone>>

\* The certificate file cannot be written after sign_csr has committed, or its
\* row has been deleted since: the rollback no longer reaches what is
\* committed and the order is failed.
FileWriteFails(r) ==
    LET q == request[r] IN
    /\ Waiting(r, "finalize") /\ Live(q.order)
    /\ status' = [status EXCEPT ![q.order] = "invalid"]
    /\ Done(r)
    /\ UNCHANGED <<account, owner, idents, cert, authzVars, issued, clock, proofs, gone>>

\* The order was deleted during the wait: the handler ends in an error.
OrderGone(r) ==
    /\ request[r] # Idle /\ ~Live(request[r].order)
    /\ Done(r)
    /\ UNCHANGED <<account, orderVars, authzVars, issued, clock, proofs, gone>>

-----------------------------------------------------------------------------
(* The certificates table, as the rest of the program changes it *)

\* A certificate of another source (an import, a form, SCEP, EST) gets a row.
OtherCertificate(c) ==
    /\ NewId(c)
    /\ issued' = [issued EXCEPT ![c] =
                    [owner |-> None, names |-> {}, order |-> None, renewed |-> FALSE]]
    /\ UNCHANGED <<account, orderVars, authzVars, request, clock, proofs, gone>>

\* delete_certificate, bulk_delete_certificates: the row goes, and nothing
\* looks for an ACME order whose certificate_id names it.
DeleteCertificate(c) ==
    /\ issued[c] # None
    /\ issued' = [issued EXCEPT ![c] = None]
    /\ gone' = gone \cup (({issued[c].order} \ {None}) \X {c})
    /\ UNCHANGED <<account, orderVars, authzVars, request, clock, proofs>>

\* renew_certificate replaces the certificate in its row by one with the same
\* subject and extensions and a key made by the server.
RenewCertificate(c) ==
    /\ issued[c] # None
    /\ issued' = [issued EXCEPT ![c] =
                    [owner |-> @.owner, names |-> @.names, order |-> @.order,
                     renewed |-> TRUE]]
    /\ UNCHANGED <<account, orderVars, authzVars, request, clock, proofs, gone>>

-----------------------------------------------------------------------------
(* Environment *)

\* A restart loses the greenlets and keeps the database.
Restart ==
    /\ request' = [r \in Requests |-> Idle]
    /\ UNCHANGED <<account, orderVars, authzVars, issued, clock, proofs, gone>>

Tick ==
    /\ clock < MaxTime
    /\ clock' = clock + 1
    /\ UNCHANGED <<account, orderVars, authzVars, request, issued, proofs, gone>>

Next ==
    \/ \E a \in Accounts : NewAccount(a) \/ DeactivateAccount(a) \/ DeleteAccount(a)
    \/ \E a \in Accounts, o \in Orders, S \in SUBSET Identifiers :
           \E src \in [S -> Orders \cup {None}] : NewOrder(a, o, S, src)
    \/ \E r \in Requests, k \in Accounts, o \in Orders, i \in Identifiers,
          t \in ChallengeTypes : RespondToChallenge(r, k, o, i, t)
    \/ \E r \in Requests, o \in Orders, csr \in SUBSET Names,
          c \in Certificates : SignCertificate(r, o, csr, c)
    \/ \E c \in Certificates :
          OtherCertificate(c) \/ DeleteCertificate(c) \/ RenewCertificate(c)
    \/ \E o \in Orders : SigningFails(o)
    \/ \E r \in Requests :
          \/ ValidationSucceeds(r) \/ ValidationFails(r)
          \/ FinishFinalize(r) \/ FileWriteFails(r) \/ OrderGone(r)
    \/ Restart
    \/ Tick

Spec == Init /\ [][Next]_vars

\* The network calls have timeouts, so a waiting request always ends.
Ends(r) ==
    \/ ValidationSucceeds(r) \/ ValidationFails(r)
    \/ FinishFinalize(r) \/ FileWriteFails(r) \/ OrderGone(r)

FairSpec == Spec /\ \A r \in Requests : WF_vars(Ends(r))

-----------------------------------------------------------------------------
(* Properties *)

\* An order past 'pending' has all its authorizations valid, whatever races
\* between its challenges, its finalizations and a failed signature
\* (create_order, _update_authorization_status and finalize_order each set
\* the status on their own).
AdvancedOrderAuthorized ==
    \A o \in Orders : status[o] \in {"ready", "valid", "invalid"} => AllValid(authz, o)

\* An order whose last authorization became valid is not left 'pending': two
\* challenges of one order that are validated concurrently each read the
\* other's authorization, and one of them must see both.
AuthorizedOrderAdvances ==
    \A o \in Orders : Live(o) /\ AllValid(authz, o) => status[o] # "pending"

\* An order and its authorizations agree, in both directions, although the
\* handlers that change the one read the other before or after they waited.
OrderMatchesAuthorizations == AdvancedOrderAuthorized /\ AuthorizedOrderAdvances

\* The proof p of order o's claim on identifier i.
Backs(p, o, i) == p.owner = owner[o] /\ p.ident = i

\* A valid authorization goes back to a validation made for an order of the
\* same account, and never outlives that validation by more than the
\* lifetime of an authorization, however often it is reused
\* (_create_authorization).
AuthorizationBackedByProof ==
    \A o \in Orders : Live(o) =>
        \A i \in idents[o] : authz[o][i] = "valid" =>
            \E p \in proofs : Backs(p, o, i) /\ expires[o][i] <= p.at + AuthzLifetime

\* An authorization that a new order finds already valid was proved within
\* the lifetime of an authorization before the order was made.
ReuseIsFresh ==
    [][\A o \in Orders : status[o] = "absent" /\ status'[o] # "absent" =>
         \A i \in idents'[o] : authz'[o][i] = "valid" =>
            \E p \in proofs :
                /\ p.owner = owner'[o] /\ p.ident = i
                /\ clock < p.at + AuthzLifetime]_vars

\* Row c holds a certificate signed for order o, its account and exactly its
\* identifiers.
SignedFor(o, c) ==
    /\ issued[c] # None
    /\ issued[c].order = o /\ issued[c].owner = owner[o]
    /\ issued[c].names \cap Identifiers = idents[o]

\* A certificate offered for download by a finished order was signed for that
\* order, its account and exactly its identifiers, also when finalizations of
\* the same or of other orders overlap, other certificates come and go and
\* its own is renewed in place: unless an administrator deleted it.
DownloadsOwnCertificate ==
    \A o \in Orders : status[o] = "valid" =>
        /\ cert[o] # None
        /\ <<o, cert[o]>> \in gone \/ SignedFor(o, cert[o])

\* The code implements the issuance policy, which speaks of DNS names.
Policy == INSTANCE IssuancePolicy WITH
    proven <- {<<p.owner, p.ident>> : p \in proofs},
    issued <- [c \in Certificates |->
                 IF issued[c] = None \/ issued[c].order = None THEN None
                 ELSE [owner |-> issued[c].owner, names |-> issued[c].names \cap Identifiers]]

\* Every certificate the ACME server signs is for an account and identifiers
\* it has validated for that account, and keeps them while its row exists:
\* whatever finalize_order, the challenges, renewals, deletions and restarts do.
ImplementsPolicy == Policy!Spec

\* acme_models.py says of an order "pending -> ready -> processing ->
\* valid/invalid": a finished order stays finished.
OrderStatusFlow ==
    [][\A o \in Orders : status[o] \in {"valid", "invalid"} =>
         status'[o] \in {status[o], "deleted"}]_vars
=============================================================================
