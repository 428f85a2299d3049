--------------------------- MODULE AcmeServerProofs ---------------------------
(***************************************************************************)
(* Proofs about AcmeServer, for any sets of accounts, identifiers, orders, *)
(* certificates and requests and any lifetime: its safety invariants, and  *)
(* that it implements IssuancePolicy.                                      *)
(***************************************************************************)
EXTENDS AcmeServer, TLAPS

\* Row c was signed for order o and holds that certificate, unless it was
\* deleted.
Own(o, c) == <<o, c>> \in gone \/ SignedFor(o, c)

\* What the rows of order o satisfy: a row that exists belongs to an account
\* and names something, the properties of AcmeServer hold of it, and it
\* expires no later than an authorization made now would, so that a
\* validation that succeeds now backs it.
OrderOK(o) ==
    /\ status[o] # "absent" => owner[o] \in Accounts /\ idents[o] # {}
    /\ status[o] \in {"ready", "valid", "invalid"} => AllValid(authz, o)
    /\ Live(o) /\ AllValid(authz, o) => status[o] # "pending"
    /\ Live(o) => \A i \in idents[o] : authz[o][i] = "valid" =>
         \E p \in proofs : Backs(p, o, i) /\ expires[o][i] <= p.at + AuthzLifetime
    /\ Live(o) => \A i \in idents[o] : expires[o][i] <= clock + AuthzLifetime
    /\ status[o] = "valid" => cert[o] # None /\ Own(o, cert[o])

\* What request r, while it waits, may still rely on.  The order of a
\* finalization passed the test for 'ready', so it is not pending, and the
\* certificate row is the one committed for it, or was deleted since.
RequestOK(r) ==
    LET q == request[r] IN
    /\ q.op = "validate" => status[q.order] # "absent" /\ q.ident \in idents[q.order]
    /\ q.op = "finalize" =>
         /\ status[q.order] \notin {"absent", "pending"}
         /\ Own(q.order, q.cert)

\* The inductive invariant.
IndInv ==
    /\ TypeOK
    /\ \A o \in Orders : OrderOK(o)
    /\ \A r \in Requests : RequestOK(r)

-----------------------------------------------------------------------------
(* Request slots *)

\* A slot that waits in respond_to_challenge holds a validation.
LEMMA ValidationSlot ==
    ASSUME TypeOK, NEW r \in Requests, Waiting(r, "validate")
    PROVE  /\ request[r] \in Validation
           /\ request[r].order \in Orders
           /\ request[r].ident \in Identifiers
           /\ request[r].type \in ChallengeTypes
  BY DEF TypeOK, Waiting, Idle, Validation, Finalization

\* A slot that waits in finalize_order holds a finalization.
LEMMA FinalizationSlot ==
    ASSUME TypeOK, NEW r \in Requests, Waiting(r, "finalize")
    PROVE  /\ request[r] \in Finalization
           /\ request[r].order \in Orders
           /\ request[r].cert \in Certificates
  BY DEF TypeOK, Waiting, Idle, Validation, Finalization

-----------------------------------------------------------------------------
(* Type correctness *)

\* Every handler keeps the rows well-typed; in particular a carried-over
\* expiry stays within the lifetime of an authorization.
LEMMA TypePreserved ==
    ASSUME IndInv, [Next]_vars
    PROVE  TypeOK'
<1> USE DEF TypeOK
<1>0. TypeOK /\ \A o \in Orders : Live(o) => owner[o] \in Accounts
  BY DEF IndInv, OrderOK, Live
<1>1. ASSUME NEW a \in Accounts, NewAccount(a)
      PROVE  TypeOK'
  BY <1>0, <1>1 DEF NewAccount, orderVars, authzVars
<1>2. ASSUME NEW a \in Accounts, DeactivateAccount(a)
      PROVE  TypeOK'
  BY <1>0, <1>2 DEF DeactivateAccount, orderVars, authzVars
<1>3. ASSUME NEW a \in Accounts, DeleteAccount(a)
      PROVE  TypeOK'
  BY <1>0, <1>3 DEF DeleteAccount, orderVars, authzVars, OrderStatus
<1>4. ASSUME NEW a \in Accounts, NEW o \in Orders, NEW S \in SUBSET Identifiers,
             NEW src \in [S -> Orders \cup {None}], NewOrder(a, o, S, src)
      PROVE  TypeOK'
  <2>1. \A i \in S : NewExpiry(i, src[i]) \in Times
    BY <1>0, <1>4, LifetimeAssumption DEF NewExpiry, Times
  <2>2. expires' \in [Orders -> [Identifiers -> Times]]
    BY <1>0, <1>4, <2>1 DEF NewOrder
  <2>3. authz' \in [Orders -> [Identifiers -> {"pending", "valid"}]]
    BY <1>0, <1>4 DEF NewOrder
  <2>4. challenge' \in [Orders -> [Identifiers -> [ChallengeTypes -> ChallengeStatus]]]
    BY <1>0, <1>4 DEF NewOrder, ChallengeStatus
  <2>5. /\ status' \in [Orders -> OrderStatus]
        /\ owner' \in [Orders -> Accounts \cup {None}]
        /\ idents' \in [Orders -> SUBSET Identifiers]
    BY <1>0, <1>4 DEF NewOrder, OrderStatus
  <2> QED
    BY <1>0, <1>4, <2>2, <2>3, <2>4, <2>5 DEF NewOrder
<1>5. ASSUME NEW r \in Requests, NEW k \in Accounts, NEW o \in Orders,
             NEW i \in Identifiers, NEW t \in ChallengeTypes,
             RespondToChallenge(r, k, o, i, t)
      PROVE  TypeOK'
  <2>1. challenge[o][i][t] \in ChallengeStatus
    BY <1>0
  <2>2. request' \in [Requests -> {Idle} \cup Validation \cup Finalization]
    BY <1>0, <1>5, <2>1 DEF RespondToChallenge, Validation
  <2> QED
    BY <1>0, <1>5, <2>2 DEF RespondToChallenge, orderVars, authzVars
<1>6. ASSUME NEW r \in Requests, ValidationSucceeds(r)
      PROVE  TypeOK'
  <2> DEFINE q == request[r]
  <2>1. /\ q.order \in Orders /\ q.ident \in Identifiers /\ q.type \in ChallengeTypes
        /\ Waiting(r, "validate") /\ Live(q.order)
    BY <1>0, <1>6, ValidationSlot DEF ValidationSucceeds
  <2>2. challenge' \in [Orders -> [Identifiers -> [ChallengeTypes -> ChallengeStatus]]]
    BY <1>0, <1>6, <2>1 DEF ValidationSucceeds, Persisted, ChallengeStatus
  <2>3. /\ authz' \in [Orders -> [Identifiers -> {"pending", "valid"}]]
        /\ status' \in [Orders -> OrderStatus]
    BY <1>0, <1>6, <2>1 DEF ValidationSucceeds, UpdateAuthorizationStatus, OrderStatus
  <2>4. owner[q.order] \in Accounts
    BY <1>0, <2>1
  <2>5. proofs' \subseteq Proof
    BY <1>0, <1>6, <2>1, <2>4 DEF ValidationSucceeds, Proof
  <2> QED
    BY <1>0, <1>6, <2>2, <2>3, <2>5 DEF ValidationSucceeds, Done
<1>7. ASSUME NEW r \in Requests, ValidationFails(r)
      PROVE  TypeOK'
  <2> DEFINE q == request[r]
  <2>1. /\ q.order \in Orders /\ q.ident \in Identifiers /\ q.type \in ChallengeTypes
        /\ Waiting(r, "validate")
    BY <1>0, <1>7, ValidationSlot DEF ValidationFails
  <2>2. challenge' \in [Orders -> [Identifiers -> [ChallengeTypes -> ChallengeStatus]]]
    BY <1>0, <1>7, <2>1 DEF ValidationFails, Persisted, ChallengeStatus
  <2> QED
    BY <1>0, <1>7, <2>2 DEF ValidationFails, Done, orderVars
<1>8. ASSUME NEW r \in Requests, NEW o \in Orders, NEW csr \in SUBSET Names,
             NEW c \in Certificates, SignCertificate(r, o, csr, c)
      PROVE  TypeOK'
  <2>1. owner[o] \in Accounts
    BY <1>0, <1>8 DEF SignCertificate, Live
  <2>2. issued' \in [Certificates -> CertificateRow \cup {None}]
    BY <1>0, <1>8, <2>1 DEF SignCertificate, CertificateRow
  <2>3. request' \in [Requests -> {Idle} \cup Validation \cup Finalization]
    BY <1>0, <1>8 DEF SignCertificate, Finalization
  <2> QED
    BY <1>0, <1>8, <2>2, <2>3 DEF SignCertificate, orderVars, authzVars
<1>16. ASSUME NEW c \in Certificates,
              OtherCertificate(c) \/ DeleteCertificate(c) \/ RenewCertificate(c)
       PROVE  TypeOK'
  <2>1. CASE OtherCertificate(c)
    <3>1. issued' \in [Certificates -> CertificateRow \cup {None}]
      BY <1>0, <2>1 DEF OtherCertificate, CertificateRow
    <3> QED
      BY <1>0, <2>1, <3>1 DEF OtherCertificate, orderVars, authzVars
  <2>2. CASE DeleteCertificate(c)
    <3>1. issued[c] \in CertificateRow
      BY <1>0, <2>2 DEF DeleteCertificate
    <3>2. gone' \subseteq Orders \X Certificates
      BY <1>0, <2>2, <3>1 DEF DeleteCertificate, CertificateRow
    <3> QED
      BY <1>0, <2>2, <3>2 DEF DeleteCertificate, orderVars, authzVars
  <2>3. CASE RenewCertificate(c)
    <3>1. issued[c] \in CertificateRow
      BY <1>0, <2>3 DEF RenewCertificate
    <3>2. [owner |-> issued[c].owner, names |-> issued[c].names,
             order |-> issued[c].order, renewed |-> TRUE] \in CertificateRow
      BY <3>1 DEF CertificateRow
    <3> QED
      BY <1>0, <2>3, <3>2 DEF RenewCertificate, orderVars, authzVars
  <2> QED
    BY <1>16, <2>1, <2>2, <2>3
<1>9. ASSUME NEW o \in Orders, SigningFails(o)
      PROVE  TypeOK'
  BY <1>0, <1>9 DEF SigningFails, OrderStatus, authzVars
<1>10. ASSUME NEW r \in Requests, FinishFinalize(r)
       PROVE  TypeOK'
  <2>1. request[r].order \in Orders /\ request[r].cert \in Certificates
    BY <1>0, <1>10, FinalizationSlot DEF FinishFinalize
  <2> QED
    BY <1>0, <1>10, <2>1 DEF FinishFinalize, Done, OrderStatus, authzVars
<1>11. ASSUME NEW r \in Requests, FileWriteFails(r)
       PROVE  TypeOK'
  <2>1. request[r].order \in Orders
    BY <1>0, <1>11, FinalizationSlot DEF FileWriteFails
  <2> QED
    BY <1>0, <1>11, <2>1 DEF FileWriteFails, Done, OrderStatus, authzVars
<1>12. ASSUME NEW r \in Requests, OrderGone(r)
       PROVE  TypeOK'
  BY <1>0, <1>12 DEF OrderGone, Done, orderVars, authzVars
<1>13. ASSUME Restart
       PROVE  TypeOK'
  BY <1>0, <1>13 DEF Restart, orderVars, authzVars
<1>14. ASSUME Tick
       PROVE  TypeOK'
  BY <1>0, <1>14, LifetimeAssumption DEF Tick, orderVars, authzVars
<1>15. ASSUME UNCHANGED vars
       PROVE  TypeOK'
  BY <1>0, <1>15 DEF vars, orderVars, authzVars
<1> QED
  BY <1>0, <1>1, <1>2, <1>3, <1>4, <1>5, <1>6, <1>7, <1>8, <1>9, <1>10, <1>11, <1>12,
     <1>13, <1>14, <1>15, <1>16 DEF Next

-----------------------------------------------------------------------------
(* The rows and the waiting requests *)

\* A step that leaves the certificates table alone, adds a row, or renews or
\* deletes one, never makes a row cease to be its order's own.
CertificatesKept ==
    \A o \in Orders, c \in Certificates :
        Own(o, c) /\ owner'[o] = owner[o] /\ idents'[o] = idents[o] => Own(o, c)'

\* A step that does not touch the table keeps it.
LEMMA CertificatesUntouched ==
    ASSUME UNCHANGED <<issued, gone>>
    PROVE  CertificatesKept
  BY DEF CertificatesKept, Own, SignedFor

\* An order that a step does not touch keeps what it satisfies, as
\* validations are never undone.
LEMMA OtherOrder ==
    ASSUME TypeOK, NEW o \in Orders, OrderOK(o),
           status'[o] = status[o], owner'[o] = owner[o], idents'[o] = idents[o],
           cert'[o] = cert[o], authz'[o] = authz[o], expires'[o] = expires[o],
           proofs \subseteq proofs', clock' \in Nat, clock <= clock',
           CertificatesKept
    PROVE  OrderOK(o)'
<1>1. /\ Live(o)' <=> Live(o)
      /\ AllValid(authz, o)' <=> AllValid(authz, o)
  BY DEF Live, AllValid
<1>2. ASSUME status[o] = "valid"
      PROVE  cert'[o] # None /\ Own(o, cert[o])'
  <2>1. cert[o] \in Certificates /\ Own(o, cert[o])
    BY <1>2 DEF OrderOK, TypeOK
  <2>3. Own(o, cert[o])'
    <3>1. PICK c \in Certificates : c = cert[o]
      BY <2>1
    <3>2. Own(o, c)'
      BY <2>1, <3>1 DEF CertificatesKept
    <3>3. cert'[o] = c
      BY <3>1
    <3> QED
      BY <3>2, <3>3 DEF Own, SignedFor
  <2> QED
    BY <1>2, <2>3 DEF OrderOK
<1>3. ASSUME Live(o), NEW i \in idents[o], authz[o][i] = "valid"
      PROVE  \E p \in proofs' : /\ p.owner = owner'[o] /\ p.ident = i
                                /\ expires'[o][i] <= p.at + AuthzLifetime
  BY <1>3 DEF OrderOK, Backs
<1>4. ASSUME Live(o), NEW i \in idents[o]
      PROVE  expires'[o][i] <= clock' + AuthzLifetime
  <2>1. expires[o][i] \in Nat /\ clock \in Nat
    BY LifetimeAssumption DEF TypeOK, Times
  <2>2. expires[o][i] <= clock + AuthzLifetime
    BY <1>4 DEF OrderOK
  <2> QED
    BY <2>1, <2>2, LifetimeAssumption
<1> QED
  BY <1>1, <1>2, <1>3, <1>4 DEF OrderOK, Backs

\* No step takes an order row back to 'absent', gives it another account or
\* other identifiers, takes it back to 'pending', or puts another certificate
\* in the place of its own unless that was deleted.
RowsAdvance ==
    /\ \A o \in Orders : status[o] # "absent" =>
         status'[o] # "absent" /\ owner'[o] = owner[o] /\ idents'[o] = idents[o]
    /\ \A o \in Orders : status[o] \notin {"absent", "pending"} =>
         status'[o] \notin {"absent", "pending"}
    /\ CertificatesKept

\* A request that goes on waiting, or has ended, keeps what it relies on.
LEMMA OtherRequest ==
    ASSUME IndInv, NEW r \in Requests, RowsAdvance,
           request'[r] \in {request[r], Idle}
    PROVE  RequestOK(r)'
<1>0. TypeOK /\ RequestOK(r)
  BY DEF IndInv
<1>1. CASE request'[r] = Idle
  BY <1>1 DEF RequestOK, Idle
<1>2. CASE request'[r] = request[r]
  <2>1. ASSUME Waiting(r, "validate")
        PROVE  /\ status'[request[r].order] # "absent"
               /\ request[r].ident \in idents'[request[r].order]
    <3>1. request[r].order \in Orders
      BY <1>0, <2>1, ValidationSlot
    <3> QED
      BY <1>0, <2>1, <3>1 DEF RequestOK, RowsAdvance, Waiting
  <2>2. ASSUME Waiting(r, "finalize")
        PROVE  /\ status'[request[r].order] \notin {"absent", "pending"}
               /\ Own(request[r].order, request[r].cert)'
    <3>1. PICK o \in Orders, c \in Certificates :
             o = request[r].order /\ c = request[r].cert
      BY <1>0, <2>2, FinalizationSlot
    <3>2. status[o] \notin {"absent", "pending"} /\ Own(o, c)
      BY <1>0, <2>2, <3>1 DEF RequestOK, Waiting
    <3>3. Own(o, c)' /\ status'[o] \notin {"absent", "pending"}
      BY <3>2 DEF RowsAdvance, CertificatesKept
    <3>4. request'[r].order = o /\ request'[r].cert = c
      BY <1>2, <3>1
    <3> QED
      BY <3>1, <3>3, <3>4 DEF Own, SignedFor
  <2> QED
    BY <1>2, <2>1, <2>2 DEF RequestOK, Waiting
<1> QED
  BY <1>1, <1>2

\* A handler that leaves orders, authorizations and certificates alone.
LEMMA RowsUntouched ==
    ASSUME IndInv, UNCHANGED <<orderVars, authz, expires, issued, gone, proofs>>,
           clock' \in Nat, clock <= clock'
    PROVE  RowsAdvance /\ \A o \in Orders : OrderOK(o)'
<1>1. RowsAdvance
  BY CertificatesUntouched DEF RowsAdvance, orderVars
<1>2. ASSUME NEW o \in Orders
      PROVE  OrderOK(o)'
  BY <1>1, OtherOrder DEF IndInv, orderVars, RowsAdvance
<1> QED
  BY <1>1, <1>2

\* delete_acme_account only takes orders out of reach.
LEMMA DeleteAccountRows ==
    ASSUME IndInv, NEW a \in Accounts, DeleteAccount(a)
    PROVE  RowsAdvance /\ \A o \in Orders : OrderOK(o)'
<1>1. \A o \in Orders : \/ status'[o] = status[o]
                        \/ status'[o] = "deleted" /\ status[o] # "absent"
  BY DEF IndInv, TypeOK, DeleteAccount, Live
<1>2. /\ UNCHANGED <<owner, idents, cert, authz, expires, issued, gone, request, proofs>>
      /\ clock' = clock /\ clock \in Nat
  BY LifetimeAssumption DEF IndInv, TypeOK, DeleteAccount, authzVars
<1>3. RowsAdvance
  BY <1>1, <1>2, CertificatesUntouched DEF RowsAdvance
<1>4. ASSUME NEW o \in Orders
      PROVE  OrderOK(o)'
  <2>1. CASE status'[o] = "deleted" /\ status[o] # "absent"
    BY <1>2, <2>1 DEF IndInv, OrderOK, Live
  <2>2. CASE status'[o] = status[o]
    BY <2>2, <1>2, <1>3, OtherOrder DEF IndInv, RowsAdvance
  <2> QED
    BY <1>1, <2>1, <2>2
<1> QED
  BY <1>3, <1>4

\* new_order: a reused authorization inherits the proof of the one it copies,
\* and with it the bound on its expiry.
LEMMA NewOrderRows ==
    ASSUME IndInv, NEW a \in Accounts, NEW o \in Orders, NEW S \in SUBSET Identifiers,
           NEW src \in [S -> Orders \cup {None}], NewOrder(a, o, S, src)
    PROVE  RowsAdvance /\ \A p \in Orders : OrderOK(p)'
<1>1. /\ status[o] = "absent" /\ S # {}
      /\ status'[o] = IF \E i \in S : src[i] = None THEN "pending" ELSE "ready"
      /\ owner'[o] = a /\ idents'[o] = S
      /\ \A i \in S : authz'[o][i] = IF src[i] = None THEN "pending" ELSE "valid"
      /\ \A i \in S : expires'[o][i] = NewExpiry(i, src[i])
  BY DEF IndInv, TypeOK, NewOrder
<1>2. \A p \in Orders \ {o} :
        /\ status'[p] = status[p] /\ owner'[p] = owner[p] /\ idents'[p] = idents[p]
        /\ authz'[p] = authz[p] /\ expires'[p] = expires[p]
  BY DEF IndInv, TypeOK, NewOrder
<1>3. UNCHANGED <<cert, issued, gone, request, proofs>> /\ clock' = clock /\ clock \in Nat
  BY LifetimeAssumption DEF IndInv, TypeOK, NewOrder
<1>4. RowsAdvance
  <2>1. \A p \in Orders : status[p] # "absent" => p # o
    BY <1>1
  <2> QED
    BY <1>2, <1>3, <2>1, CertificatesUntouched DEF RowsAdvance
<1>5. ASSUME NEW i \in S, authz'[o][i] = "valid"
      PROVE  \E p \in proofs : /\ p.owner = a /\ p.ident = i
                               /\ expires'[o][i] <= p.at + AuthzLifetime
  <2>1. src[i] # None /\ src[i] \in Orders
    BY <1>5, <1>1
  <2>2. src[i] \in Reusable(a, i)
    BY <2>1, <1>5 DEF NewOrder, ReuseSource
  <2>3. PICK p \in proofs : /\ Backs(p, src[i], i)
                            /\ expires[src[i]][i] <= p.at + AuthzLifetime
    BY <2>1, <2>2 DEF Reusable, IndInv, OrderOK
  <2>4. p.owner = a /\ p.ident = i
    BY <2>2, <2>3 DEF Backs, Reusable
  <2>5. expires'[o][i] = expires[src[i]][i]
    BY <1>5, <2>1, <1>1 DEF NewExpiry
  <2> QED
    BY <2>3, <2>4, <2>5
<1>6. OrderOK(o)'
  <2>1. status'[o] \in {"pending", "ready"}
    BY <1>1
  <2>2. AllValid(authz, o)' <=> status'[o] = "ready"
    BY <1>1 DEF AllValid
  <2>3. ASSUME NEW i \in S
        PROVE  expires'[o][i] <= clock + AuthzLifetime
    <3>1. CASE src[i] = None
      BY <3>1, <1>1, <1>3, LifetimeAssumption DEF NewExpiry
    <3>2. CASE src[i] # None
      <4>1. src[i] \in Reusable(a, i) /\ src[i] \in Orders
        BY <3>2 DEF NewOrder, ReuseSource
      <4>2. expires[src[i]][i] <= clock + AuthzLifetime
        BY <4>1 DEF Reusable, IndInv, OrderOK
      <4> QED
        BY <3>2, <4>2, <1>1 DEF NewExpiry
    <3> QED
      BY <3>1, <3>2
  <2> QED
    BY <1>1, <1>3, <1>5, <2>1, <2>2, <2>3 DEF OrderOK, Backs, Live
<1>7. ASSUME NEW p \in Orders, p # o
      PROVE  OrderOK(p)'
  BY <1>7, <1>2, <1>3, <1>4, OtherOrder DEF IndInv, RowsAdvance
<1> QED
  BY <1>4, <1>6, <1>7

\* A validation that succeeds: the order is written from what is stored now,
\* so an order that had left 'pending' has all its authorizations valid and
\* becomes 'ready' again, and one that had not does so with its last one.
LEMMA ValidationSucceedsRows ==
    ASSUME IndInv, NEW r \in Requests, ValidationSucceeds(r)
    PROVE  RowsAdvance /\ \A p \in Orders : OrderOK(p)'
<1>a. PICK o \in Orders, i \in Identifiers : o = request[r].order /\ i = request[r].ident
  BY ValidationSlot DEF IndInv, ValidationSucceeds
<1>0. TypeOK /\ OrderOK(o) /\ RequestOK(r)
  BY DEF IndInv
<1>1. Live(o) /\ i \in idents[o]
  BY <1>0, <1>a DEF ValidationSucceeds, RequestOK, Waiting
<1>2. /\ authz'[o] = [authz[o] EXCEPT ![i] = "valid"]
      /\ status'[o] = IF AllValid(authz', o) THEN "ready" ELSE status[o]
      /\ \A p \in Orders \ {o} : status'[p] = status[p] /\ authz'[p] = authz[p]
  BY <1>0, <1>a DEF TypeOK, ValidationSucceeds, UpdateAuthorizationStatus
<1>3. /\ UNCHANGED <<owner, idents, cert, expires, issued, gone>>
      /\ clock' = clock /\ clock \in Nat
      /\ proofs \subseteq proofs'
      /\ [owner |-> owner[o], ident |-> i, at |-> clock] \in proofs'
  BY <1>0, <1>a, LifetimeAssumption DEF TypeOK, ValidationSucceeds
<1>4. AllValid(authz, o)' <=> AllValid(authz', o)
  BY <1>3 DEF AllValid
<1>5. AllValid(authz, o) => AllValid(authz', o)
  BY <1>0, <1>1, <1>2 DEF AllValid, TypeOK
<1>6. RowsAdvance
  BY <1>1, <1>2, <1>3, CertificatesUntouched DEF RowsAdvance
<1>7. OrderOK(o)'
  <2>1. status'[o] # "absent" /\ Live(o)'
    BY <1>1, <1>2 DEF Live
  <2>2. owner[o] \in Accounts /\ idents[o] # {}
    BY <1>0, <1>1 DEF OrderOK, Live
  <2>3. status'[o] \in {"ready", "valid", "invalid"} => AllValid(authz', o)
    BY <1>0, <1>2, <1>5 DEF OrderOK
  <2>4. AllValid(authz', o) => status'[o] = "ready"
    BY <1>2
  <2>5. ASSUME NEW j \in idents[o], authz'[o][j] = "valid"
        PROVE  \E p \in proofs' : /\ p.owner = owner[o] /\ p.ident = j
                                  /\ expires[o][j] <= p.at + AuthzLifetime
    <3>1. CASE j = i
      <4>1. expires[o][i] <= clock + AuthzLifetime
        BY <1>0, <1>1 DEF OrderOK
      <4> QED
        BY <3>1, <4>1, <1>3
    <3>2. CASE j # i
      <4>1. authz[o][j] = "valid"
        BY <3>2, <2>5, <1>0, <1>1, <1>2 DEF TypeOK
      <4> QED
        BY <4>1, <1>0, <1>1, <1>3 DEF OrderOK, Backs
    <3> QED
      BY <3>1, <3>2
  <2>6. \A j \in idents[o] : expires[o][j] <= clock + AuthzLifetime
    BY <1>0, <1>1 DEF OrderOK
  <2>7. status'[o] # "valid"
    BY <2>3, <2>4
  <2> QED
    BY <1>3, <1>4, <2>1, <2>2, <2>3, <2>4, <2>5, <2>6, <2>7 DEF OrderOK, Backs
<1>8. ASSUME NEW p \in Orders, p # o
      PROVE  OrderOK(p)'
  BY <1>8, <1>2, <1>3, <1>6, OtherOrder DEF IndInv, RowsAdvance
<1> QED
  BY <1>6, <1>7, <1>8

\* A step that only moves order o, already past 'pending', to a status that
\* its rows support.
LEMMA OrderMoved ==
    ASSUME IndInv, NEW o \in Orders, NEW st \in {"valid", "invalid"},
           status[o] \in {"ready", "valid", "invalid"},
           status' = [status EXCEPT ![o] = st],
           UNCHANGED <<owner, idents, authz, expires, issued, gone, clock, proofs>>,
           \A p \in Orders \ {o} : cert'[p] = cert[p],
           st = "valid" => cert'[o] # None /\ Own(o, cert'[o])
    PROVE  RowsAdvance /\ \A p \in Orders : OrderOK(p)'
<1>1. TypeOK /\ OrderOK(o) /\ clock \in Nat /\ clock' = clock
  BY LifetimeAssumption DEF IndInv, TypeOK
<1>2. status'[o] = st /\ \A p \in Orders \ {o} : status'[p] = status[p]
  BY <1>1 DEF TypeOK
<1>3. RowsAdvance
  BY <1>2, CertificatesUntouched DEF RowsAdvance
<1>4. OrderOK(o)'
  <2>1. /\ AllValid(authz, o)' <=> AllValid(authz, o)
        /\ Live(o) /\ Live(o)'
    BY <1>2 DEF AllValid, Live
  <2> QED
    BY <1>1, <1>2, <2>1 DEF OrderOK, Backs, Live, Own, SignedFor
<1>5. ASSUME NEW p \in Orders, p # o
      PROVE  OrderOK(p)'
  BY <1>1, <1>2, <1>3, <1>5, OtherOrder DEF IndInv, RowsAdvance
<1> QED
  BY <1>3, <1>4, <1>5

\* finalize_order up to the commit: a fresh certificate row for a ready order.
LEMMA SignCertificateKeeps ==
    ASSUME IndInv, NEW r \in Requests, NEW o \in Orders, NEW csr \in SUBSET Names,
           NEW c \in Certificates, SignCertificate(r, o, csr, c)
    PROVE  /\ RowsAdvance /\ \A p \in Orders : OrderOK(p)'
           /\ RequestOK(r)'
           /\ \A k \in Requests \ {r} : request'[k] = request[k]
<1>1. /\ UNCHANGED <<status, owner, idents, cert, authz, expires, proofs>>
      /\ clock' = clock /\ clock \in Nat /\ TypeOK
  BY LifetimeAssumption DEF SignCertificate, orderVars, authzVars, IndInv, TypeOK
<1>2. /\ \A d \in Certificates : issued[d] # None => issued'[d] = issued[d]
      /\ gone' = gone \ {<<o, c>>}
  BY <1>1 DEF SignCertificate, NewId, TypeOK
<1>a. SignedFor(o, c)'
  <2>1. issued'[c] = [owner |-> owner[o], names |-> csr, order |-> o, renewed |-> FALSE]
    BY <1>1 DEF SignCertificate, TypeOK
  <2>2. owner[o] \in Accounts /\ csr \cap Identifiers = idents[o]
    BY DEF SignCertificate, IndInv, OrderOK
  <2>3. issued'[c] \in CertificateRow
    BY <2>1, <2>2 DEF CertificateRow
  <2>4. issued'[c] # None
    BY <2>3, NoneAssumption
  <2> QED
    BY <1>1, <2>1, <2>2, <2>4 DEF SignedFor
<1>b. CertificatesKept
  <2>1. ASSUME NEW p \in Orders, NEW d \in Certificates, Own(p, d)
        PROVE  Own(p, d)'
    <3>1. CASE <<p, d>> \in gone
      BY <3>1, <1>2, <1>a DEF Own
    <3>2. CASE SignedFor(p, d)
      BY <3>2, <1>1, <1>2 DEF Own, SignedFor
    <3> QED
      BY <2>1, <3>1, <3>2 DEF Own
  <2> QED
    BY <2>1 DEF CertificatesKept
<1>3. RowsAdvance
  BY <1>1, <1>b DEF RowsAdvance
<1>4. ASSUME NEW p \in Orders
      PROVE  OrderOK(p)'
  BY <1>1, <1>b, OtherOrder DEF IndInv
<1>5. /\ request'[r] = [op |-> "finalize", order |-> o, cert |-> c]
      /\ \A k \in Requests \ {r} : request'[k] = request[k]
  BY <1>1 DEF SignCertificate, TypeOK
<1>6. RequestOK(r)'
  BY <1>1, <1>a, <1>5 DEF RequestOK, SignCertificate, Own, SignedFor
<1> QED
  BY <1>3, <1>4, <1>5, <1>6

\* What the rest of the program does to the certificates table: a row that is
\* deleted is remembered in gone, a row that is added takes a free id.
LEMMA TableSteps ==
    ASSUME IndInv, NEW c \in Certificates,
           OtherCertificate(c) \/ DeleteCertificate(c) \/ RenewCertificate(c)
    PROVE  RowsAdvance /\ \A p \in Orders : OrderOK(p)'
<1>1. /\ UNCHANGED <<status, owner, idents, cert, authz, expires, proofs>>
      /\ clock' = clock /\ clock \in Nat /\ TypeOK
  BY LifetimeAssumption DEF OtherCertificate, DeleteCertificate, RenewCertificate,
     orderVars, authzVars, IndInv, TypeOK
<1>2. gone \subseteq gone'
  BY DEF OtherCertificate, DeleteCertificate, RenewCertificate
<1>3. ASSUME NEW p \in Orders, NEW d \in Certificates, SignedFor(p, d)
      PROVE  Own(p, d)'
  <2>1. CASE OtherCertificate(c)
    <3>1. issued'[d] = issued[d]
      BY <1>1, <1>3, <2>1 DEF OtherCertificate, NewId, SignedFor, TypeOK
    <3> QED
      BY <1>1, <1>3, <3>1 DEF Own, SignedFor
  <2>2. CASE DeleteCertificate(c)
    <3>1. CASE d = c
      <4>1. issued[c].order = p /\ p # None
        BY <1>3, <3>1, NoneAssumption DEF SignedFor
      <4> QED
        BY <2>2, <3>1, <4>1 DEF DeleteCertificate, Own
    <3>2. CASE d # c
      BY <1>1, <1>3, <2>2, <3>2 DEF DeleteCertificate, Own, SignedFor, TypeOK
    <3> QED
      BY <3>1, <3>2
  <2>3. CASE RenewCertificate(c)
    <3>1. CASE d = c
      <4>1. issued[c] \in CertificateRow
        BY <1>1, <2>3 DEF RenewCertificate, TypeOK
      <4>2. issued'[c] = [owner |-> issued[c].owner, names |-> issued[c].names,
             order |-> issued[c].order, renewed |-> TRUE]
        BY <1>1, <2>3 DEF RenewCertificate, TypeOK
      <4>3. /\ issued'[c].owner = issued[c].owner /\ issued'[c].names = issued[c].names
            /\ issued'[c].order = issued[c].order /\ issued'[c] \in CertificateRow
        BY <4>1, <4>2 DEF CertificateRow
      <4> QED
        BY <1>1, <1>3, <3>1, <4>3, NoneAssumption DEF Own, SignedFor
    <3>2. CASE d # c
      BY <1>1, <1>3, <2>3, <3>2 DEF RenewCertificate, Own, SignedFor, TypeOK
    <3> QED
      BY <3>1, <3>2
  <2> QED
    BY <2>1, <2>2, <2>3
<1>4. CertificatesKept
  BY <1>2, <1>3 DEF CertificatesKept, Own
<1>5. RowsAdvance
  BY <1>1, <1>4 DEF RowsAdvance
<1>6. ASSUME NEW p \in Orders
      PROVE  OrderOK(p)'
  BY <1>1, <1>4, OtherOrder DEF IndInv
<1> QED
  BY <1>5, <1>6

\* Every step preserves the invariant.
LEMMA InvPreserved ==
    ASSUME IndInv, [Next]_vars
    PROVE  IndInv'
<1> DEFINE Kept == RowsAdvance /\ \A o \in Orders : OrderOK(o)'
<1>0. TypeOK /\ clock \in Nat
  BY LifetimeAssumption DEF IndInv, TypeOK
<1>t. TypeOK'
  BY TypePreserved
<1>q. ASSUME Kept, \A r \in Requests : request'[r] \in {request[r], Idle}
      PROVE  IndInv'
  BY <1>t, <1>q, OtherRequest DEF IndInv
<1>1. ASSUME NEW a \in Accounts, NewAccount(a) \/ DeactivateAccount(a)
      PROVE  IndInv'
  <2>1. UNCHANGED <<orderVars, authz, expires, request, issued, gone, proofs, clock>>
    BY <1>1 DEF NewAccount, DeactivateAccount, authzVars
  <2> QED
    BY <1>0, <1>q, <2>1, RowsUntouched
<1>2. ASSUME NEW a \in Accounts, DeleteAccount(a)
      PROVE  IndInv'
  BY <1>2, <1>q, DeleteAccountRows DEF DeleteAccount
<1>3. ASSUME NEW a \in Accounts, NEW o \in Orders, NEW S \in SUBSET Identifiers,
             NEW src \in [S -> Orders \cup {None}], NewOrder(a, o, S, src)
      PROVE  IndInv'
  BY <1>3, <1>q, NewOrderRows DEF NewOrder
<1>4. ASSUME NEW r \in Requests, NEW k \in Accounts, NEW o \in Orders,
             NEW i \in Identifiers, NEW t \in ChallengeTypes,
             RespondToChallenge(r, k, o, i, t)
      PROVE  IndInv'
  <2>1. UNCHANGED <<orderVars, authz, expires, issued, gone, proofs, clock>>
    BY <1>4 DEF RespondToChallenge, authzVars
  <2>2. Kept
    BY <1>0, <2>1, RowsUntouched
  <2>3. /\ request'[r] = [op |-> "validate", order |-> o, ident |-> i, type |-> t,
                          loaded |-> challenge[o][i][t]]
        /\ \A s \in Requests \ {r} : request'[s] = request[s]
    BY <1>0, <1>4 DEF RespondToChallenge, TypeOK
  <2>4. RequestOK(r)'
    BY <1>4, <2>1, <2>3 DEF RequestOK, RespondToChallenge, orderVars, Live
  <2>5. ASSUME NEW s \in Requests, s # r
        PROVE  RequestOK(s)'
    BY <2>2, <2>3, <2>5, OtherRequest
  <2> QED
    BY <1>t, <2>2, <2>4, <2>5 DEF IndInv
<1>5. ASSUME NEW r \in Requests, ValidationSucceeds(r)
      PROVE  IndInv'
  <2>1. \A s \in Requests : request'[s] \in {request[s], Idle}
    BY <1>0, <1>5 DEF ValidationSucceeds, Done, TypeOK
  <2> QED
    BY <1>5, <1>q, <2>1, ValidationSucceedsRows
<1>6. ASSUME NEW r \in Requests, ValidationFails(r) \/ OrderGone(r)
      PROVE  IndInv'
  <2>1. UNCHANGED <<orderVars, authz, expires, issued, gone, proofs, clock>>
    BY <1>6 DEF ValidationFails, OrderGone, authzVars
  <2>2. \A s \in Requests : request'[s] \in {request[s], Idle}
    BY <1>0, <1>6 DEF ValidationFails, OrderGone, Done, TypeOK
  <2> QED
    BY <1>0, <1>q, <2>1, <2>2, RowsUntouched
<1>7. ASSUME NEW r \in Requests, NEW o \in Orders, NEW csr \in SUBSET Names,
             NEW c \in Certificates, SignCertificate(r, o, csr, c)
      PROVE  IndInv'
  <2>1. Kept /\ RequestOK(r)' /\ \A s \in Requests \ {r} : request'[s] = request[s]
    BY <1>7, SignCertificateKeeps
  <2>2. ASSUME NEW s \in Requests, s # r
        PROVE  RequestOK(s)'
    BY <2>1, <2>2, OtherRequest
  <2> QED
    BY <1>t, <2>1, <2>2 DEF IndInv
<1>8. ASSUME NEW o \in Orders, SigningFails(o)
      PROVE  IndInv'
  <2>1. Kept
    BY <1>8, OrderMoved DEF SigningFails, authzVars
  <2> QED
    BY <1>8, <1>q, <2>1 DEF SigningFails
<1>9. ASSUME NEW r \in Requests, FinishFinalize(r)
      PROVE  IndInv'
  <2>1. PICK o \in Orders, c \in Certificates : o = request[r].order /\ c = request[r].cert
    BY <1>0, <1>9, FinalizationSlot DEF FinishFinalize
  <2>2. /\ status[o] \in {"ready", "valid", "invalid"}
        /\ Own(o, c)
    BY <1>0, <1>9, <2>1
       DEF FinishFinalize, IndInv, RequestOK, Waiting, Live, TypeOK, OrderStatus
  <2>3. /\ status' = [status EXCEPT ![o] = "valid"]
        /\ cert'[o] = c /\ \A p \in Orders \ {o} : cert'[p] = cert[p]
        /\ UNCHANGED <<owner, idents, authz, expires, issued, gone, clock, proofs>>
    BY <1>0, <1>9, <2>1 DEF FinishFinalize, authzVars, TypeOK
  <2>4. Kept
    BY <2>2, <2>3, OrderMoved, NoneAssumption
  <2>5. \A s \in Requests : request'[s] \in {request[s], Idle}
    BY <1>0, <1>9 DEF FinishFinalize, Done, TypeOK
  <2> QED
    BY <1>q, <2>4, <2>5
<1>10. ASSUME NEW r \in Requests, FileWriteFails(r)
       PROVE  IndInv'
  <2>1. PICK o \in Orders : o = request[r].order
    BY <1>0, <1>10, FinalizationSlot DEF FileWriteFails
  <2>2. status[o] \in {"ready", "valid", "invalid"}
    BY <1>0, <1>10, <2>1
       DEF FileWriteFails, IndInv, RequestOK, Waiting, Live, TypeOK, OrderStatus
  <2>3. /\ status' = [status EXCEPT ![o] = "invalid"]
        /\ UNCHANGED <<owner, idents, cert, authz, expires, issued, gone, clock, proofs>>
    BY <1>10, <2>1 DEF FileWriteFails, authzVars
  <2>4. Kept
    BY <2>2, <2>3, OrderMoved
  <2>5. \A s \in Requests : request'[s] \in {request[s], Idle}
    BY <1>0, <1>10 DEF FileWriteFails, Done, TypeOK
  <2> QED
    BY <1>q, <2>4, <2>5
<1>11. ASSUME Restart
       PROVE  IndInv'
  <2>1. UNCHANGED <<orderVars, authz, expires, issued, gone, proofs, clock>>
    BY <1>11 DEF Restart, authzVars
  <2> QED
    BY <1>0, <1>11, <1>q, <2>1, RowsUntouched DEF Restart
<1>14. ASSUME NEW c \in Certificates,
              OtherCertificate(c) \/ DeleteCertificate(c) \/ RenewCertificate(c)
       PROVE  IndInv'
  <2>1. \A r \in Requests : request'[r] \in {request[r], Idle}
    BY <1>14 DEF OtherCertificate, DeleteCertificate, RenewCertificate
  <2> QED
    BY <1>14, <1>q, <2>1, TableSteps
<1>12. ASSUME Tick
       PROVE  IndInv'
  <2>1. UNCHANGED <<orderVars, authz, expires, issued, gone, proofs, request>>
    BY <1>12 DEF Tick, authzVars
  <2>2. clock' \in Nat /\ clock <= clock'
    BY <1>0, <1>12 DEF Tick
  <2> QED
    BY <1>q, <2>1, <2>2, RowsUntouched
<1>13. ASSUME UNCHANGED vars
       PROVE  IndInv'
  <2>1. UNCHANGED <<orderVars, authz, expires, issued, gone, proofs, request, clock>>
    BY <1>13 DEF vars, authzVars
  <2> QED
    BY <1>0, <1>q, <2>1, RowsUntouched
<1> QED
  BY <1>1, <1>2, <1>3, <1>4, <1>5, <1>6, <1>7, <1>8, <1>9, <1>10, <1>11, <1>12,
     <1>13, <1>14 DEF Next

\* The database starts empty and no request waits.
LEMMA InvInitially == Init => IndInv
<1> SUFFICES ASSUME Init PROVE IndInv
  OBVIOUS
<1>1. TypeOK
  BY LifetimeAssumption
     DEF Init, TypeOK, OrderStatus, ChallengeStatus, Times
<1>2. \A o \in Orders : OrderOK(o)
  BY DEF Init, OrderOK, Live
<1>3. \A r \in Requests : RequestOK(r)
  BY DEF Init, RequestOK, Idle
<1> QED
  BY <1>1, <1>2, <1>3 DEF IndInv

\* The inductive invariant holds in every reachable state.
THEOREM Invariance == Spec => []IndInv
  BY InvInitially, InvPreserved, PTL DEF Spec

\* Every reachable state of the ACME tables is well-typed.
THEOREM TypeCorrect == Spec => []TypeOK
<1>1. IndInv => TypeOK
  BY DEF IndInv
<1> QED
  BY <1>1, Invariance, PTL

\* An order past 'pending' is fully authorized, and a fully authorized order
\* is past 'pending', whatever validations, finalizations, failures and
\* restarts overlap.
THEOREM OrderStatusMatchesAuthorizations ==
    Spec => []OrderMatchesAuthorizations
<1>1. IndInv => OrderMatchesAuthorizations
  BY DEF IndInv, OrderOK, OrderMatchesAuthorizations, AdvancedOrderAuthorized,
         AuthorizedOrderAdvances
<1> QED
  BY <1>1, Invariance, PTL

\* A valid authorization goes back to a validation for the same account and
\* does not outlive it by more than the lifetime, however often it is reused.
THEOREM AuthorizationsBacked == Spec => []AuthorizationBackedByProof
<1>1. IndInv => AuthorizationBackedByProof
  BY DEF IndInv, OrderOK, AuthorizationBackedByProof
<1> QED
  BY <1>1, Invariance, PTL

\* A finished order offers a certificate that was signed for it, its account
\* and its identifiers, unless that certificate was deleted, whatever is
\* renewed, deleted or added in the certificates table.
THEOREM CertificatesOwn == Spec => []DownloadsOwnCertificate
<1>1. IndInv => DownloadsOwnCertificate
  BY DEF IndInv, OrderOK, DownloadsOwnCertificate, Own
<1> QED
  BY <1>1, Invariance, PTL

-----------------------------------------------------------------------------
(* Action properties and refinement *)

\* Only new_order makes a row.
LEMMA OnlyNewOrderCreates ==
    ASSUME IndInv, [Next]_vars, NEW o \in Orders,
           status[o] = "absent", status'[o] # "absent"
    PROVE  \E a \in Accounts, S \in SUBSET Identifiers :
             \E src \in [S -> Orders \cup {None}] : NewOrder(a, o, S, src)
<1>0. TypeOK
  BY DEF IndInv
<1>1. ASSUME NEW a \in Accounts, DeleteAccount(a) PROVE FALSE
  BY <1>0, <1>1 DEF TypeOK, DeleteAccount, Live
<1>2. ASSUME NEW r \in Requests, ValidationSucceeds(r) PROVE FALSE
  <2>1. request[r].order \in Orders /\ Live(request[r].order)
    BY <1>0, <1>2, ValidationSlot DEF ValidationSucceeds
  <2> QED
    BY <1>0, <1>2, <2>1 DEF TypeOK, ValidationSucceeds, UpdateAuthorizationStatus, Live
<1>3. ASSUME NEW r \in Requests, FinishFinalize(r) \/ FileWriteFails(r) PROVE FALSE
  <2>1. request[r].order \in Orders /\ Live(request[r].order)
    BY <1>0, <1>3, FinalizationSlot DEF FinishFinalize, FileWriteFails
  <2> QED
    BY <1>0, <1>3, <2>1 DEF TypeOK, FinishFinalize, FileWriteFails, Live
<1>4. ASSUME NEW p \in Orders, SigningFails(p) PROVE FALSE
  BY <1>0, <1>4 DEF TypeOK, SigningFails
<1>5. ASSUME NEW a \in Accounts, NEW p \in Orders, NEW S \in SUBSET Identifiers,
             NEW src \in [S -> Orders \cup {None}], NewOrder(a, p, S, src)
      PROVE  p = o
  BY <1>0, <1>5 DEF TypeOK, NewOrder
<1>6. ASSUME status' = status PROVE FALSE
  BY <1>6
<1> QED
  BY <1>1, <1>2, <1>3, <1>4, <1>5, <1>6
     DEF Next, NewAccount, DeactivateAccount, RespondToChallenge, SignCertificate,
         ValidationFails, OrderGone, Restart, Tick, vars, orderVars,
         OtherCertificate, DeleteCertificate, RenewCertificate

\* Authorizations are reused only while a validation for the same account and
\* identifier is younger than the lifetime of an authorization.
THEOREM ReuseStaysFresh == Spec => ReuseIsFresh
<1> DEFINE Fresh(o) ==
             status[o] = "absent" /\ status'[o] # "absent" =>
               \A i \in idents'[o] : authz'[o][i] = "valid" =>
                 \E p \in proofs : /\ p.owner = owner'[o] /\ p.ident = i
                                   /\ clock < p.at + AuthzLifetime
<1>1. ASSUME IndInv, [Next]_vars, NEW o \in Orders PROVE Fresh(o)
  <2> SUFFICES ASSUME status[o] = "absent", status'[o] # "absent",
                      NEW i \in idents'[o], authz'[o][i] = "valid"
               PROVE  \E p \in proofs : /\ p.owner = owner'[o] /\ p.ident = i
                                        /\ clock < p.at + AuthzLifetime
    OBVIOUS
  <2>0. TypeOK
    BY <1>1 DEF IndInv
  <2>a. PICK a \in Accounts, S \in SUBSET Identifiers :
             \E src \in [S -> Orders \cup {None}] : NewOrder(a, o, S, src)
    BY <1>1, OnlyNewOrderCreates
  <2>1. PICK src \in [S -> Orders \cup {None}] : NewOrder(a, o, S, src)
    BY <2>a
  <2>2. i \in S /\ owner'[o] = a /\ src[i] # None
    BY <2>0, <2>1 DEF TypeOK, NewOrder
  <2>3. src[i] \in Reusable(a, i) /\ src[i] \in Orders
    BY <2>1, <2>2 DEF NewOrder, ReuseSource
  <2>4. PICK p \in proofs : /\ Backs(p, src[i], i)
                            /\ expires[src[i]][i] <= p.at + AuthzLifetime
    BY <1>1, <2>3 DEF Reusable, IndInv, OrderOK
  <2>5. /\ clock < expires[src[i]][i] /\ p.owner = a /\ p.ident = i
        /\ expires[src[i]][i] \in Nat /\ clock \in Nat /\ p.at \in Nat
    <3>1. p \in Proof
      BY <2>0 DEF TypeOK
    <3>2. p.at \in Nat /\ clock \in Nat
      BY <2>0, <3>1, LifetimeAssumption DEF TypeOK, Proof
    <3>3. expires[src[i]][i] \in Nat
      BY <2>0, <2>2, <2>3, LifetimeAssumption DEF TypeOK, Times
    <3> QED
      BY <2>3, <2>4, <3>2, <3>3 DEF Reusable, Backs
  <2> QED
    BY <2>2, <2>4, <2>5, LifetimeAssumption
<1>2. IndInv /\ [Next]_vars => [\A o \in Orders : Fresh(o)]_vars
  BY <1>1
<1> QED
  BY <1>2, Invariance, PTL DEF Spec, ReuseIsFresh

\* The table of certificates changes by finalize_order or by the rest of the
\* program.
LEMMA OnlySignatureIssues ==
    ASSUME [Next]_vars, issued' # issued
    PROVE  \/ \E r \in Requests, o \in Orders, csr \in SUBSET Names,
                c \in Certificates : SignCertificate(r, o, csr, c)
           \/ \E c \in Certificates :
                OtherCertificate(c) \/ DeleteCertificate(c) \/ RenewCertificate(c)
  BY DEF Next, NewAccount, DeactivateAccount, DeleteAccount, NewOrder,
         RespondToChallenge, ValidationSucceeds, ValidationFails, SigningFails,
         FinishFinalize, FileWriteFails, OrderGone, Restart, Tick, vars

\* Only a successful validation adds a proof.
LEMMA OnlyValidationProves ==
    ASSUME [Next]_vars, proofs' # proofs
    PROVE  \E r \in Requests : ValidationSucceeds(r)
  BY DEF Next, NewAccount, DeactivateAccount, DeleteAccount, NewOrder,
         RespondToChallenge, SignCertificate, ValidationFails, SigningFails,
         FinishFinalize, FileWriteFails, OrderGone, Restart, Tick, vars,
         OtherCertificate, DeleteCertificate, RenewCertificate

\* The ACME server implements the issuance policy: each certificate it signs
\* is for identifiers whose control was shown to it for that account.
THEOREM PolicyRefinement == Spec => ImplementsPolicy
<1> DEFINE proven == {<<p.owner, p.ident>> : p \in proofs}
           said == [c \in Certificates |->
                      IF issued[c] = None \/ issued[c].order = None THEN None
                      ELSE [owner |-> issued[c].owner,
                            names |-> issued[c].names \cap Identifiers]]
<1>1. Init => Policy!Init
  BY DEF Init, Policy!Init
<1>2. ASSUME IndInv, [Next]_vars PROVE [Policy!Next]_(Policy!vars)
  <2>0. TypeOK
    BY <1>2 DEF IndInv
  <2>1. CASE issued' = issued /\ proofs' = proofs
    BY <2>1 DEF Policy!vars
  <2>2. CASE proofs' # proofs
    <3>1. PICK r \in Requests : ValidationSucceeds(r)
      BY <1>2, <2>2, OnlyValidationProves
    <3>2. PICK o \in Orders, i \in Identifiers :
             o = request[r].order /\ i = request[r].ident
      BY <2>0, <3>1, ValidationSlot DEF ValidationSucceeds
    <3>3. owner[o] \in Accounts
      BY <1>2, <3>1, <3>2 DEF IndInv, OrderOK, ValidationSucceeds, Live
    <3>4. proofs' = proofs \cup {[owner |-> owner[o], ident |-> i, at |-> clock]}
      BY <3>1, <3>2 DEF ValidationSucceeds
    <3>5. proven' = proven \cup {<<owner[o], i>>}
      <4>1. PICK new : new = [owner |-> owner[o], ident |-> i, at |-> clock]
        OBVIOUS
      <4>2. proofs' = proofs \cup {new} /\ new.owner = owner[o] /\ new.ident = i
        BY <3>4, <4>1
      <4>3. {<<p.owner, p.ident>> : p \in proofs'} =
              {<<p.owner, p.ident>> : p \in proofs} \cup {<<new.owner, new.ident>>}
        BY <4>2, Zenon
      <4> QED
        BY <4>2, <4>3, Zenon
    <3>6. issued' = issued
      BY <3>1 DEF ValidationSucceeds
    <3>7. Policy!Prove(owner[o], i)
      BY <3>5, <3>6 DEF Policy!Prove
    <3> QED
      BY <3>3, <3>7 DEF Policy!Next
  <2>3. CASE issued' # issued
    <3>1. ASSUME NEW r \in Requests, NEW o \in Orders, NEW csr \in SUBSET Names,
                 NEW c \in Certificates, SignCertificate(r, o, csr, c)
          PROVE  Policy!Next
      <4> DEFINE S == csr \cap Identifiers
      <4>1. OrderOK(o) /\ status[o] = "ready" /\ S = idents[o] /\ issued[c] = None
        BY <1>2, <3>1 DEF IndInv, SignCertificate, NewId
      <4>2. owner[o] \in Accounts /\ S # {}
        BY <4>1 DEF OrderOK
      <4>3. \A i \in S : <<owner[o], i>> \in proven
        <5>1. ASSUME NEW i \in S
              PROVE  \E p \in proofs : p.owner = owner[o] /\ p.ident = i
          BY <4>1 DEF OrderOK, AllValid, Backs, Live
        <5> QED
          BY <5>1
      <4>4. issued' = [issued EXCEPT ![c] =
                 [owner |-> owner[o], names |-> csr, order |-> o, renewed |-> FALSE]]
        BY <3>1 DEF SignCertificate
      <4>5. said' = [said EXCEPT ![c] = [owner |-> owner[o], names |-> S]]
        <5>1. /\ issued'[c] =
                    [owner |-> owner[o], names |-> csr, order |-> o, renewed |-> FALSE]
              /\ \A d \in Certificates \ {c} : issued'[d] = issued[d]
          BY <2>0, <4>4 DEF TypeOK
        <5>2. issued'[c] \in CertificateRow
          BY <4>2, <5>1 DEF CertificateRow
        <5>3. issued'[c] # None /\ o # None
          BY <5>2, NoneAssumption
        <5>4. said'[c] = [owner |-> owner[o], names |-> S]
          BY <5>1, <5>3
        <5>5. \A d \in Certificates \ {c} : said'[d] = said[d]
          BY <5>1
        <5> QED
          BY <5>4, <5>5
      <4>6. proofs' = proofs
        BY <3>1 DEF SignCertificate
      <4>7. Policy!Issue(c, owner[o], S)
        BY <4>1, <4>2, <4>3, <4>5, <4>6 DEF Policy!Issue
      <4> QED
        BY <4>2, <4>7 DEF Policy!Next
    <3>2. ASSUME NEW c \in Certificates, DeleteCertificate(c)
          PROVE  Policy!Next
      <4>1. said' = [said EXCEPT ![c] = None]
        BY <2>0, <3>2 DEF DeleteCertificate, TypeOK
      <4>2. Policy!Remove(c)
        BY <3>2, <4>1 DEF DeleteCertificate, Policy!Remove
      <4> QED
        BY <4>2 DEF Policy!Next
    <3>3. ASSUME NEW c \in Certificates, OtherCertificate(c) \/ RenewCertificate(c)
          PROVE  UNCHANGED Policy!vars
      <4>1. \A d \in Certificates \ {c} : issued'[d] = issued[d]
        BY <2>0, <3>3 DEF OtherCertificate, RenewCertificate, TypeOK
      <4>2. CASE OtherCertificate(c)
        <5>1. issued[c] = None /\ issued'[c].order = None
          BY <2>0, <4>2 DEF OtherCertificate, NewId, TypeOK
        <5> QED
          BY <4>1, <4>2, <5>1 DEF OtherCertificate, Policy!vars
      <4>3. CASE RenewCertificate(c)
        <5>1. issued[c] \in CertificateRow /\ issued[c] # None
          BY <2>0, <4>3 DEF RenewCertificate, TypeOK
        <5>2. issued'[c] = [owner |-> issued[c].owner, names |-> issued[c].names,
             order |-> issued[c].order, renewed |-> TRUE]
          BY <2>0, <4>3 DEF RenewCertificate, TypeOK
        <5>3. /\ issued'[c].owner = issued[c].owner /\ issued'[c].names = issued[c].names
              /\ issued'[c].order = issued[c].order /\ issued'[c] \in CertificateRow
          BY <5>1, <5>2 DEF CertificateRow
        <5>4. issued'[c] # None
          BY <5>3, NoneAssumption
        <5> QED
          BY <4>1, <4>3, <5>1, <5>3, <5>4 DEF RenewCertificate, Policy!vars
      <4> QED
        BY <3>3, <4>2, <4>3
    <3> QED
      BY <1>2, <2>3, <3>1, <3>2, <3>3, OnlySignatureIssues
  <2> QED
    BY <2>1, <2>2, <2>3
<1>3. IndInv /\ [Next]_vars => [Policy!Next]_(Policy!vars)
  BY <1>2
<1> QED
  BY <1>1, <1>3, Invariance, PTL DEF Spec, ImplementsPolicy, Policy!Spec
=============================================================================
