# UCM (CA_Manager) in TLA+

TLA+ models of the certificate manager in this repository, the TLC
configurations that check them on small instances, and TLAPS proofs of their
main properties for every instance. `PROJECT.json` holds the index: components,
runs, the source lines each definition stands for, the mutants that show each
property can fail, findings, hazards and theorems. Paths below are relative to
`src/backend/` unless they start with `src/`.

    tlc -config AcmeRace.cfg MCAcmeServer      # one run
    tlapm AcmeServerProofs.tla                 # one proof module

## 1. The system

UCM is a Flask application over one SQL database. It issues X.509 certificates
through a web API and through ACME, SCEP and EST, publishes CRLs and OCSP
responses, discovers certificates on the network, and records what it does in a
hash-chained audit log.

### How it runs

`gunicorn_config.py` starts **one** worker with gevent and patches the standard
library. Requests, the scheduler loop and the scan threads are greenlets of one
process: one gives way to another only where it waits for the network or
sleeps. The database drivers (sqlite3, psycopg2) do not give way. Three
consequences shape the models:

- a handler that touches only the database is **one action**;
- a handler that waits in the middle is **one action per stretch between
  waits**, and what it carries over the wait is state of the model. The waits
  that matter are easily overlooked: `AuditService.log_action` forwards each
  record to syslog over TCP (`services/syslog_service.py`), so any handler that
  logs between two commits can be interrupted there;
- a restart loses every waiting greenlet and all module-level state, and keeps
  what was committed.

The ORM adds a fourth: an object loaded before a wait is written back column by
column, and only in the columns whose value the handler changed. Where two
handlers work on one row, the models keep the value that was loaded.

### Components

| Component | State | Operations | Hard part | What makes it correct |
|---|---|---|---|---|
| ACME server | accounts, orders, authorizations, challenges, nonces | new account/order, answer a challenge, finalize, download, deactivate, delete | validations and finalizations wait and overlap; certificate committed before its order; repeated messages | no name is signed that was not validated for the account; order and authorizations agree; a nonce passes once |
| Revocation and CRLs | certificate rows, `crl_metadata`, CDP and delta switches | revoke, hold, unhold, renew, delete, full and delta CRL | CRL made after the commit of the revocation; times compared at a boundary; two notations of a serial number | what is revoked is published, under the right number, in order |
| OCSP responder | response cache | respond, invalidate, clean up | cache against revocation | a request is answered with the status |
| Discovery | profiles, runs, `discovered_certificates`, a semaphore, a fingerprint cache | manual, ad-hoc and scheduled scans, profile administration | overlapping scans, failures at every point, stale cache | permits are neither lost nor invented; what the table says was true |
| SCEP | `scep_requests`, SCEP certificates, configuration | PKCSReq, approve, reject, configure | repeated and late messages between administrative changes | one enrollment per transaction, none for a rejected one, nothing sent that is not recorded |
| Audit log | `audit_logs` with hash chain | log, cleanup, verify a range | rows without hashes, cut chains | changed rows are reported, others are not |
| ACME client, DNS providers, renewal | orders at a remote CA, failure counters, TXT records at a DNS hoster | request, verify, finalize, cancel, renew; provider administration | every step is a call that may fail or be lost; two workers on one order; shared names | records removed again, others left alone, the key belongs to the certificate |
| Login, second factor, security keys, sessions | failure counters in the table and in memory, challenges, sessions | the ways to log in, log out | two password logins, counters after waits, session lifetimes | guesses are bounded, challenges work once, sessions end |
| Client certificates | enrolled certificates, settings | enrol, look up, revoke, delete | serial numbers as text in several notations; a revocation in two commits | the certificate finds its user and nobody else; a revoked one logs nobody in |
| Single sign-on | providers, sessions, OAuth2 states | administration, LDAP login, callbacks | the provider changes while a login waits | rows name a provider; guesses bounded |
| Users, roles, groups, API keys | their rows | create, change, delete, regenerate | references nothing enforces, two commits | references resolve, keys bounded, an administrator is left |
| Rate limiter | buckets and windows in memory | check a request, set limits | fractions of tokens, shared buckets, limits of zero | no window exceeds its limit; nobody is shut out |
| Private keys: issuance, encryption, files | `prv` columns, key files, master key file | create, sign, renew, upload, delete; enable, disable, seal all | file and table change separately; not all callers open a key | every stored key can be opened and fits its certificate |
| Backup and restore | an archive | create, restore | two transactions with files between; users by name and by number | a restore can be repeated |
| Import and chain repair | CA and certificate rows and their links | import files, bundles, OPNsense; repair | order of imports, stale identifiers, merging | links resolve, keys survive, one repair is enough |
| HSM | provider and key rows, keys on the device | generate, delete, sync, sign, test, reconfigure | lost answers, two stores of one truth, listings that drop keys | after a sync rows and keys agree; a row signs with its key |
| Scheduler, reports | tasks with `last_run`, schedules | run what is due, mail | one loop for all tasks; clock minutes | every task runs again; a report is mailed once |
| Expiry alerts | settings, sender of mails | daily check | windows of days, late runs, failing mails, an exception in the run | a warning before the last day, one mail per run |
| EST, MSCA, policies, templates, trust store, notifications, webhooks, settings, frontend, ... | rows and files | create, read, update, delete; I/O | mostly none | see `PROJECT.json` |

All but the last line are modelled. They meet in four places, represented in
the modules on both sides: the certificate table (ACME, SCEP, API handlers
insert; renew and delete change; Revocation, Ocsp, Discovery and KeyVault
read), the audit log (everybody appends; waiting in its forwarding is what
splits `finalize_order`, `revoke_certificate` and the login with a security
key), the scheduler loop (Discovery, the renewal, the repair, the alerts and
the reports have an action for their task) and the restart of the process.

## 2. Modules

| Module | Models | Proofs |
|---|---|---|
| `IssuancePolicy` | abstract: what automated issuance promises | |
| `AcmeServer` | `services/acme/acme_service.py`, `api/acme/acme_api.py`, `models/acme_models.py`; implements `IssuancePolicy` | `AcmeServerProofs` |
| `AcmeJws` | nonces and `verify_jws` of `api/acme/acme_api.py` | `SystemProofs` |
| `Revocation` | `services/crl_service.py`, `revoke_certificate`, revoke/unhold/renew/delete of `api/v2/certificates.py`, `api/v2/crl.py` | `RevocationProofs` |
| `Ocsp` | `api/ocsp_routes.py`, `services/ocsp_service.py` | |
| `Discovery` | `services/discovery_service.py`, its scheduler task, `models/discovered_certificate.py` | `DiscoveryProofs` |
| `ScepServer` | `services/scep_service.py`, `api/scep_protocol.py`, `api/v2/scep.py` | `ScepServerProofs` |
| `AuditLog` | `services/audit_service.py`, the `AuditLog` table | `AuditLogProofs` |
| `DnsProviders` | the forty-eight classes of `services/acme/dns_providers/` | |
| `AcmeClient` | `services/acme/acme_client_service.py`, `services/acme_renewal_service.py`, `api/v2/acme_client.py`, `api/v2/dns_providers.py`; extends `DnsProviders` | `SystemProofs` |
| `AccessBase` | clock, workers and lockout entries shared by the next two | |
| `Login` | `api/v2/auth.py`, `api/v2/auth_methods.py`, `auth/unified.py`, `services/webauthn_service.py` | `AccessProofs` |
| `SingleSignOn` | `api/v2/sso.py` | `AccessProofs` |
| `ClientCertificates` | `services/mtls_auth_service.py`, `api/v2/mtls.py`, `api/v2/user_certificates.py` | `AccessProofs` |
| `Users` | `api/v2/users.py`, `api/v2/groups.py`, `api/v2/rbac.py`, the API keys of `api/v2/account.py` | `AccessProofs` |
| `RateLimiter` | `security/rate_limiter.py` | `AccessProofs` |
| `KeyVault` | `security/encryption.py`, `api/v2/system.py`, and the handlers of `services/ca_service.py`, `services/cert_service.py`, `api/v2/cas.py`, `api/v2/csrs.py`, `services/file_regen_service.py` that touch a private key | `StoreProofs` |
| `Backup` | `services/backup_service.py`; extends `KeyVault` | `StoreProofs` |
| `ChainLinks` | `services/smart_import/`, `api/v2/import_opnsense.py`, `services/ski_aki_backfill.py`, the imports of `cas.py` and `certificates.py` | `StoreProofs` |
| `Hsm` | `services/hsm/`, `api/v2/hsm.py` | `StoreProofs` |
| `Scheduler` | `services/scheduler_service.py`, `services/report_service.py` | `SystemProofs` (reports) |
| `ExpiryAlerts` | `services/expiry_alert_service.py` | `SystemProofs` |
| `MCAcmeServer`, `MCRevocation`, `MCDiscovery` | symmetry sets | |
| `MCAccess`, `MCStore`, `MCSystem`, `MCBackground` | instances of several modules each | |

The last four put parts that share no rows side by side: a behaviour takes one
part, chosen by `part` in the initial state, and the others keep their
variables. That checks each part on exactly the behaviours it has alone, which
is sound because no action of one part reads or writes a variable of another;
the modules that do interact are composed by extension instead (`AcmeClient`
over `DnsProviders`, `Backup` over `KeyVault`, whose restores and handlers
interleave). Each part has a specification of its own (`LoginSpec`, `BackupSpec`,
`ClientSpec`, ...), about which its theorems are stated; that a behaviour of the composition is one of
every such part is itself proved (`AccessParts`, `StoreParts`, `SystemTyped`).

Definitions whose comment begins with "Mutant" or "Mutated" are not part of the
specifications; each is a plausible mistake in the definition after it, and is
named in `PROJECT.json` with the property it breaks.

### AcmeServer

`account`, `status`/`owner`/`idents`/`cert`, `authz`/`expires` and `challenge`
are the columns of the four tables; `issued` is the certificate table, whose rows
the rest of the program adds, deletes and renews in place under the orders
(`OtherCertificate`, `DeleteCertificate`, `RenewCertificate`). A new row has the
number after the largest one (`NewId`), as in SQLite, so the id of a deleted row may come back
while an order still names it. `request` holds the two handlers that wait:

- `RespondToChallenge`, then `ValidationSucceeds` or `ValidationFails`:
  `respond_to_challenge` around `requests.get` or the DNS query. `loaded` is the
  challenge status read before it, and `Persisted` the ORM's rule for writing it
  back;
- `SignCertificate`, then `FinishFinalize` or `FileWriteFails`: `finalize_order`
  around the syslog forwarding inside `sign_csr`. `SigningFails` is the case
  where nothing was committed.

`NewOrder` includes `_create_authorization` with the reuse of a valid
authorization, which carries over its expiry; its commits are one step because the
handler does not wait between them, and an order that a kill leaves half made has no
reader. The CSR of a finalization has the DNS names of the order and any names
of other kinds (`OtherNames`), which the code does not compare. `OrderGone` is a request whose
order was deleted while it waited. The check of messages in front of the handlers
is `AcmeJws`. Left out is which account answers a challenge beyond its
existence: the code does not compare it with the order's.

`proofs` is a history of successful validations and `gone` of deleted certificates;
`ImplementsPolicy` maps `proofs` to `proven` and the rows signed for an order to the policy's
certificates. The policy speaks of DNS names: addresses and other names of a CSR are
signed unchecked. It speaks of names and accounts, not of keys: after a renewal in
place the order serves a certificate with a key the server made.

### Revocation

One CA. A row's `state`, `serial`, `stored` (the notation of `serial_number`)
and `revokedAt`; `crls` is `crl_metadata`, with a history field for what had to
be listed. `Parsed` is `int(serial_number, 16)`. `Revoke` is
`revoke_certificate` up to its commit and `FinishRevoke` or `FinishWithoutCrl`
the rest. `missed` records the revocations whose handler made no CRL (CDP off,
an exception that is caught, a restart); a later full CRL makes up for them.
Each CRL and each revocation reads a clock of its own (microseconds), so
`ClockRead` advances it.

### Discovery

A scan is a record of `run`: its row together with the local state of its thread
(`since`, the fingerprint index it uses, the probes' results). `StartScan` is
`start_scan` with `_prepare_and_launch_scan`, `Probe` one TLS probe,
`SaveResults` the rest of `_do_scan` up to its mail, `EndScan` the end of the
thread, `ScanFails` an exception before or after the results were committed,
with or without `_fail_run` succeeding. `ScanDue` is the scheduler's task; a
tick of the clock is its wake-up interval. `served` and `servedLast` are the
network.

### ScepServer

Any PKCSReq (transaction, key, password) may arrive in any state: that covers
loss, duplication, delay and reordering. `Enqueue`, `Enroll` and `Retry` are the
outcomes of `process_pkcs_req` that change or send something. A message for a
transaction whose certificate was deleted falls through to the code for a new
transaction and fails on the unique key, which changes nothing. `recorded` and
`replied` are histories.

### AuditLog

The table is a function from ids to rows. A digest is represented by its input,
which assumes that SHA-256 has no collisions. `LogAction` chains to the
row before, `LogUnhashed` stands for the handlers that insert rows themselves,
`Cleanup` for `cleanup_old_logs` with the row that logs it, `Change` for an edit
behind the service's back. `Reported` is what `verify_integrity` lists for a range.

### AcmeJws

`nonces` is the table; the messages a client may send are all combinations of a
nonce, a form of the key and a signature that verifies or not, in any state, which
covers repetition and delay. `validate_nonce` is the conditional update of the
service, and `verify_jws` the check in front of every handler, which spends the
nonce before it looks at the signature.

### Ocsp

A text column is the sequence of its encodings, so that parsing the wrong one is
a guard that fails: `load_pem_x509_certificate` needs PEM on the outside, and the
column is base64. The cache, its cleanup and the (failing) invalidation by a
revocation are there although no response ever reaches the cache.

### DnsProviders and AcmeClient

A provider is a record of how it finds the zone of a name, writes, removes and
treats errors; `PROVIDER_REGISTRY` has one record per class. `AcmeClient` takes any
of them as `provider`. `order` is a row, `remote` the CA's side, `dns` the values
at the names, and `job[w]` the position of a worker in a handler, which is split
at every request to the CA or the hoster; each request may fail, and one that
wrote may lose its answer. `create_order`, `setup_dns_challenge`
(`create_txt_record`), `verify_challenge`, `check_order_status`, `Finalize…`, `Cancel…`
and `Renewal` (with its sleeps) are the handlers. `spent` counts faults and
administrative changes and is bounded.

### Login, SingleSignOn, ClientCertificates, Users, RateLimiter

`Login` is one account: its row (`failed`, `locked`, second factor), the
trackers in memory, sessions and challenges. The two password
logins are separate actions because they count differently. There are no reset tokens:
`forgot_password` first asks `_is_email_configured`, which calls a method that
`SystemConfig` lacks and answers no, so none is ever stored. A login with a
security key is split where it waits for the syslog server.
`SingleSignOn` splits LDAP logins and callbacks at the network; `job[w]` is the
provider as it was read. Numbers of deleted rows are used again, as SQLite does.
`ClientCertificates` keeps serial numbers as text: `Hex`, `Dec` and the padded form
a proxy sends; `Find` is the lookup with its conversions and `ByFingerprint` its last
resort. `revoke_user_certificate` is the handler up to the commit of the revocation,
`revoke_user_certificate_ends` the commit that disables the enrolment; between the two the
audit record and the CRL are written, other handlers run, the process may stop
(`CertRestart`), and the handler fails when it finds its certificate
deleted (`revoke_user_certificate_fails`). A handler disables the row that has the id then, which may be that of a
later enrolment. `withdrawn` and `cut` are histories. `Users` has the handlers
on accounts, roles, groups and API keys, and the crash between the two commits
of a regenerated key. `RateLimiter` counts tokens in parts of 1/`Window` and times
as ages; a request of the window is its age and its number within its second, and a bucket is
left alone for at most `MaxIdle` seconds. Limits are any integers, since
`update_rate_limit_config` stores what it is given; `sound` in a bucket says that it
has met none below one.

### KeyVault and Backup

A row has the key pairs of its request, its certificate and its private key; the
latter is a text that is clear or sealed by a master key. `masterFile`, `envKey`
and `loaded` are the three places of the master key. Each handler that stores or
reads a key is an action that opens, seals or does neither, as its code does.
Enabling and disabling are two steps each, with a crash possible in between.
`Backup` adds the archive, the users, groups and API keys (matched by name and by
number) and one row for each way a table is matched. No handler removes the row of a user;
`ElsewhereLacks` is the restore on a database that never had the user. `restore_backup`,
`restore_rest` and `restore_answer` are its two transactions and the files between.

### ChainLinks

A table maps ids to rows; a query that takes the first row takes the one with the least
id, and a new row gets the number after the largest. A certificate has a subject, an
issuer, its pair and its signer's pair; a key identifier is the pair. A bundle is
imported object by object, the CAs in the order of their depth. Imports (one file,
a bundle with the matcher and the chain builder, OPNsense) and deletions are
actions, and so is the repair, whose passes are the operators `Identified`,
`Rechained`, `RechainedLeaves` and `Deduplicated`.

### Hsm

`keyRows` against `device`. A request reads the row, calls the device (`Device` or
`Unreachable`) and writes (`…_ends`). With PKCS#11 and Google nothing comes between,
as their libraries block the process; with Azure anything may (`NoneBlocks`). `call[w]`
is the request a greenlet works on, with the label "none" when it has none.
`Outside` is another tool that makes or destroys keys. The listings drop what they
cannot read: `Pkcs11List` and `GcpList` list nothing, `AzureList` the present versions of
the keys on curves (`EcLabels`).

### Scheduler and ExpiryAlerts

`age[t]` is the time since a task ran. The loop collects what is due (`loop.todo`), runs it
(`_run_task`, which may raise; networked tasks last while requests are served),
and sleeps. The reports task compares the clock's minute with each schedule and
mails one report after the other. `ExpiryAlerts` follows one certificate in quarters
of a day; the task runs a day after it last ran, or later. `sender` and `recipients` are what decides whether
a mail can go out (`Mailable`): only with an empty sender and recipients of its own,
because with a sender the run ends in an exception.

## 3. Runs

Passing runs; the sizes are distinct states.

| Run | Instance | States | Shows |
|---|---|---|---|
| `acme_race` | 1 account, 2 orders, 2 names and 1 of another kind, one challenge type, 2 requests, 1 certificate row that is filled, renewed, emptied and filled again, clock stopped | 1.7 M | no interleaving leaves an order ahead of or behind its authorizations (`OrderMatchesAuthorizations`), a finished order offers its own certificate unless it was deleted (`DownloadsOwnCertificate`), and issuance is what `IssuancePolicy` allows (`ImplementsPolicy`) |
| `acme_reuse` | 2 accounts, 3 orders, 1 name, 1 request, clock 0..1, lifetime 1, no certificates | 262 k | a reused authorization never outlives its validation nor passes to another account (`AuthorizationBackedByProof`, `ReuseIsFresh`) |
| `revocation` | 2 rows, 3 serials, 2 overlapping revocations, 3 CRLs, 4 clock readings | 630 k | `NumbersOrdered`, `FullCrlsListRevoked`, `DeltaLeavesNoGap`, `RevocationPublished` |
| `discovery_seen` | 1 endpoint, 2 certificates, 2 scans, 2 permits, clock 0..2 | 648 k | `LastSeenBacked` when scans overlap and end in another order |
| `background` | discovery: 1 profile, 1 endpoint, 2 scans for 1 permit, clock 0..1; scheduler: 3 tasks, 2 reports, cycle of 2 minutes, 1 restart | 597 k | `PermitsAccounted`, `ReportOnce`, and under fairness `PermitsReturn` and `SchedulerRecurs` |
| `access` | 2 workers, 2 wrong attempts before the lock, clock 1..4, 2 challenges, 1 session; providers 1..2; 2 accounts, 1 role, 1 group, 3 API keys; 1 certificate in every notation, an administrator and an operator, row ids 1..2 that come back, 1 revocation under way; 2 paths, window of 4, limits with a burst of 0, idle for at most 6 | 1.6 M | see below |
| `store` | 2 CAs, 1 certificate, 3 key pairs, 1 generated master key; 2 users, 3 numbers; 4 certificates and 5 bundles, 3 imports and deletions; 2 labels, 2 device keys, 5 requests for each of the three device types | 718 k | see below |
| `system` | ACME client: 2 orders that share a name, 2 workers, every provider, 2 disturbances of a lone order and 1 once a second order shares one of four representative providers; SCEP: 2 transactions, 2 keys, 3 certificates; audit log: 2 contents, 5 ids; alerts: three remaining times, every sender; nonces: 4, lifetime 1 | 1.5 M | see below |

`access`: `GuessesBounded` (the lock comes after the attempts it allows, plus one
for each login already past the check), `ProofsTaken` (an answer to
a challenge and a second factor work once), `TablesConsistent` (references, providers, API keys),
`EnrolmentsSound` (an enrolled certificate is found in either notation, and a revocation that
came to its end leaves no enabled enrolment),
`RateLimitKept` (a window never exceeds its limit; nobody is shut out as long as limits are
at least one), and the action property `AccessKept` (sessions end, a revoked API key
stays revoked, an administrator is left, a certificate logs in the user of an enabled row).

`store`: `KeysRecoverable` (whatever interrupts encryption, every stored key opens with
a master key there is), `StoredRowsSound` (a row has the key of its own certificate
and names a CA that is there), `LinksSound` (the same of imported rows, and one
repair makes all links), `RestoreRepeats` (a restore that stopped half-way can be
repeated), `DeviceShown` (after a lone sync the rows are the keys its listing can
read, a row uses its own key, a connected provider was reached as configured), and the action property
`KeysKept` (merges and file writes replace no key).

`system`: `IssuedWithItsKey`, `ZoneKept` (records removed, other records kept, the
provider stays), `SuccessMeansPublished`; `EnrolledOnce`, `RejectedHasNothing`,
`RepliesAreRecorded`; `OnlyFirstReportedFalsely`, `WholeLogVerifies`,
`ChangesReported`; `WarnedInTime` (where mails go out at all); `NonceOnce`.

The properties of these three runs are conjunctions of named parts that stand,
with their comments, in the module of the component; most parts have a mutant of
their own. `AccessTypeOK`, `StoreTypeOK` and `SystemTypeOK` collect the type
invariants. Where a part holds only with an exception, the exception is in
its formula and comment, and the behaviour behind it among the observations below.

**Why the bounds are enough.** Two requests, workers or scans are the fewest that
race, and every race found in the code is between two; two names make "all
authorizations" different from "this one"; three orders let an authorization be
reused from one that reused it itself; one certificate row is enough for its id to come
back under two orders; three CRLs are a base, a delta and a later
base or delta; five ids hold a chain with a row without hashes inside and rows
before it that were cut off. Two wrong attempts before the lock leave one that
counts and one that locks; a clock of four passes every lifetime once; three key
pairs are a CA, a certificate and a renewal; four imports are a root, its new key,
a CA below and a leaf in any order; two device keys let a label repeat; two ids of
enrolments let one come back under another text or user, beside another row, while a
revocation of the old row is under way. The
theorems of section 4 have none of these bounds except the
finiteness of `Scans`, of the workers and of the API keys. Deadlock is not checked: with their orders, ids or
clock used up, the instances may stop, and so may the real system when nobody
calls it.

**Fairness.** Safety runs assume none. `BackgroundSpec` has weak fairness of three
things. A scan goes on (`GoesOn`): its probes and its mail have timeouts; the
probes need no fairness of their own, as `SaveResults` is enabled throughout. The
scheduler's loop goes on (`LoopStep`): it is a thread of its own, a raising task is
caught, and every networked task has timeouts. Time passes (`HalfMinute`). The two
violation runs of `AcmeServer` and `Revocation` use `FairSpec`, weak fairness of the
end of each waiting handler. Nothing is assumed about clients or administrators.

### Findings

Four runs check a sentence of the repository and fail.

| Run | The repository says | The code does |
|---|---|---|
| `acme_order_flow` | `models/acme_models.py:62` "pending → ready → processing → valid/invalid" | `_update_authorization_status` sets "ready" on any order: a challenge answered again, or a late validation, reopens a finished one, which can then be finalized a second time |
| `crl_added` | `src/docs/USER_GUIDE.md:62` "Certificate is added to CRL automatically" | serial numbers stored in decimal (`sign_csr`, SCEP) are read as hexadecimal: another number is listed |
| `scep_approved` | `src/frontend/src/data/helpGuides.js:609` "Click **Approve** to sign and issue the certificate" | the handler sets the status only; the device stays pending |
| `ocsp_answers` | `src/CHANGELOG.md:247` "Unknown certificate serials now return proper `UNKNOWN` status in a signed OCSP response instead of `UNAUTHORIZED` error" | the CA is looked for by parsing base64 as PEM, none is found, and every request is answered UNAUTHORIZED |

### Observations

Behaviour met while modelling, without a run of its own.

Issuance, revocation, discovery, audit:

- `unhold_certificate` calls `AuditService.log`, which does not exist, after its commit:
  the CRL it should make (`api/v2/certificates.py:1336`) is not made.
- The hourly CRL task selects on a Python property and finds no CA
  (`services/crl_scheduler_task.py:126`). It is therefore no action of
  `Revocation`, and a CRL lost to a restart stays lost until someone asks for one.
- Delta CRLs do not announce a release from hold (no `removeFromCRL`).
- Nobody calls `invalidate_fingerprint_cache` ("Call when UCM certs change",
  `services/discovery_service.py:622`); for five minutes scans classify against an old inventory.
- A scheduled scan that fails, or outlasts a minute, is due again at the next
  wake-up; runs interrupted by a restart stay "running".
- `verify_integrity` expects the first row of its range to start from zeros: after a cleanup,
  or with `start_id`, that row is reported though untouched.
- An order keeps the id of a deleted certificate: SQLite gives the id again, and the order
  serves the next certificate of any source (`api/acme/acme_api.py:836`; the exception
  `gone` in `DownloadsOwnCertificate`). PostgreSQL gives no id again and refuses the deletion.
- A damaged ACME message spends its nonce; `cleanup_expired_nonces` has no caller.
- ACME signs every address, mail address and URI of a CSR: only its DNS names are
  compared with the order (`services/acme/acme_service.py:577`).
- A SCEP request repeated after its certificate was deleted signs a certificate
  that is rolled back and never sent.
- The retention task deletes from a limited query, which SQLAlchemy refuses;
  `auto_renewal_service.py` reads columns that do not exist; `ApprovalRequest` rows are
  created nowhere.

ACME client:

- Providers that take the first zone the name ends with as text (Bunny and others), the last
  two labels, or the domain itself write to the wrong zone when zones nest or look
  alike, some reporting success (the exceptions in `SuccessMeansPublished`).
- Providers that write the whole zone back empty it after a failed read (the
  exception in `SiteRecordKept`); those that replace the record, or write back what
  they read, lose the value of a concurrent order for the same name.

Access:

- The padded serial number of a proxy does not match an unpadded row; one certificate may be
  enrolled twice, in hexadecimal and decimal; one enrolled by presenting it
  cannot be revoked through user certificates; a revoked one can be enrolled again; one
  revoked or deleted on the certificates page stays enrolled.
- A restart, or the deletion of the certificate, between the two commits of
  `revoke_user_certificate` leaves the enrolment enabled (`api/v2/user_certificates.py:404`),
  and a second attempt is refused as "already revoked" (line 390; the exception `cut` in
  `RevokedDisabled`).
- The settings take any numbers as limits (`api/v2/system.py:1047`). With two requests a
  minute and no burst given, the burst is `2 // 3 = 0`, and every request is refused however
  long the client waits (the exception `sound` in `NeverShutOut`).
- The reset of passwords always answers 503 (`api/v2/auth.py:305`).
- Recovery codes are stored joined by commas and read as JSON: none is accepted.
- `login_password`, security keys and SSO store no login time, so their sessions have no
  largest lifetime; `login_password` counts failures without a lock of its own.
- An LDAP login or an OAuth2 callback may write a session row for a provider deleted meanwhile (the
  exception in `RowsOfProviders`). With encryption enabled the bind password cannot be saved.
- The key of a deactivated administrator still acts, and `update_user` may demote or
  deactivate the last one (the exceptions in `AdminLeft`).
- Regenerating works on revoked keys and beyond the limit, and a crash leaves both
  keys active (`spare` in `KeysBounded`).
- Paths with a custom limit share the bucket of their default pattern.

Keys, backup, import:

- `sign_csr`, and the API's create and renew, use a CA key without opening it: with
  encryption on they fail. Several handlers store keys in the clear with
  encryption on (`generate_csr`, the API's create and renew, all imports; compare
  `src/docs/SECURITY.md:9`). A disable that fails leaves opened keys in the clear.
- A key uploaded to a pending CSR is not compared with it; importing a re-keyed CA certificate
  without its key keeps the old one (`mixed` and `rekeyed` in the models).
- Restores lose revocations, erase keys uploaded after the backup, revive revoked API keys,
  attach members and API keys by number, and write ciphertext into key files when
  encryption is on. `create_backup` fails whenever an ACME account exists.
- Links go by name, not by signature; two CAs that certify each other make a circle,
  and the exports that follow links (`api/v2/cas.py:641` and others) do not end.
- After a CA was re-keyed in place, the repair may merge it by a stale identifier and
  lose a key. OPNsense certificates keep a link that may name nothing.

HSM:

- The listings raise and swallow it: Google's for every key, PKCS#11's because it calls a
  method `get` the library's objects lack (`services/hsm/pkcs11_provider.py:220`), Azure's
  at every RSA key, whose modulus is bytes (`services/hsm/azure_provider.py:198`). A sync then
  deletes the rows of keys that are on the device (`Pkcs11List`, `AzureList`, `GcpList`); the
  properties of a sync speak of what its listing can read. Google's signing needs a
  `primary` version, which asymmetric keys lack.
- Azure: a label used again is a new version under the old row; deleting one row destroys all
  versions; a sync that overlaps a generation drops the row of a live key, one that
  overlaps a deletion restores a ghost.
- `delete_provider` leaves the keys on the device.

Scheduler, alerts:

- A minute passed over by a slow task loses its report; failed mails are not repeated.
- With a sender configured, `check_and_send_alerts` reads `admin_email`, a column `SMTPConfig`
  lacks (`services/expiry_alert_service.py:137`), and ends before any mail: no warning is ever
  sent there (the precondition `Mailable` of `WarnedBeforeExpiry`).
- Alert settings live in memory, the recipients among them; with `alert_days` [1] a late run
  misses the only day.

## 4. Proofs

Every theorem is of the form *Spec ⇒ □Inv* (or an action property or a refinement)
and holds for all values of the constants. Each proof module defines inductive
invariants, shows that the initial states satisfy them and that each action
preserves them, and reads the properties off. The type invariants are among their
conjuncts.

| Module | Inductive invariant, beyond the properties themselves | Theorems |
|---|---|---|
| `AcmeServerProofs` | per order: it belongs to an account, and no authorization expires later than one made now would (so a validation that succeeds now backs it). Per waiting request: the order it saw "ready" is still not pending, and its certificate row is the one committed for that order, or that one was deleted (`gone`) | `TypeCorrect`, `OrderStatusMatchesAuthorizations`, `AuthorizationsBacked`, `CertificatesOwn`, `ReuseStaysFresh` (action property), `PolicyRefinement` |
| `RevocationProofs` | rows have serial numbers; times in the tables lie in the past, and no revocation shares its moment with a CRL; a delta's base is an earlier number | `NumbersStayOrdered`, `FullCrlsComplete`, `DeltasComplete`, `RevocationsPublished` |
| `DiscoveryProofs` | what an endpoint serves now was last seen now; what a probe brought home was there after its scan began; no scan began in the future | `PermitsStayAccounted`, `LastSeenStaysBacked` |
| `ScepServerProofs` | rows are recorded under their own refid; everything recorded for a transaction belongs to the row and CSR of its approved request | `StaysEnrolledOnce`, `RejectedStaysEmpty`, `RepliesStayRecorded` |
| `AuditLogProofs` | a hashed row carries the digest of what was written, and continues the row before it unless it is the first; the first starts from zeros until a cleanup | `FalseReportsOnlyFirst`, `WholeLogStaysValid`, `ChangesStayReported` |
| `SystemProofs` | nonces: one that passed is marked as used. Reports: as long as the task is due or its list is being worked through, no report of the list has been mailed for this minute. Alerts: since the window opened, no more time has passed than the failed mails and the current wait account for. ACME client: an order is known to the CA before its row is written; the CA has the key of the worker that goes on to the download; and, unless a request failed, the records in the zone are in the zone their provider finds for them and belong to an order that is not finished or is being cleaned up; a worker that has met no failure so far has published the records of the names it is through with, in the zone whose servers answer (`PublishedInv`) | `NoncePassesOnce`, `ReportMailedOnce`, `WarnedBeforeItExpires`, `KeyOfIssued`, `ZoneOfTheClient`, `SuccessIsPublished`, `SystemTyped` |
| `StoreProofs` | keys: a sealed text is sealed by a master key in the file, the environment or the copy an administrator kept, and before any loss by the one at rest; with no key in use nothing is sealed; an archive holds rows of the same kind. Restores: from the first try on, the database is between what it was then and what a whole restore makes of it. Hardware: what an answer brings was made; what a blocking call has read is so until it ends; a lone sync that was answered holds the listing of its vault. Links: references differ and were given; unless a row was re-keyed, the identifier of a CA is the pair of its certificate (`LinkInv`) | `NoKeyLost`, `RowsStaySound`, `FilesAreFaithful`, `KeysOutliveRepair` and `KeysAreKept` (action properties), `RestoreIsRepeatable`, `DeviceIsShown`, `LinksAreSound`, `StoreTyped` |
| `AccessProofs` | wrong answers are counted, or a worker has still to count them; what has no lock counts fewer than allowed; challenges to come have not been of use; a text belongs to one certificate, and an enrolment whose text was withdrawn is disabled, at work on, or cut off; see below. Rate limiter: the requests of the bucket are those that passed, numbered within a second; when nothing passed for *k* seconds a bucket that has met only limits of at least one has *k* parts of a token; what passed in this second is missing in it (`RateInv`) | `EnrolmentsStaySound`, `ProofsAreTakenOnce`, `GuessesAreBounded`, `TablesStayConsistent`, `AccessIsKept` (action property), `LimitIsKept`, `AccessTyped` |

The refinement proof maps every step to a step of `IssuancePolicy` or a stutter:
only `ValidationSucceeds` adds to `proven`, only `SignCertificate` adds to
`issued`, `DeleteCertificate` is `Remove` for a row signed for an order, and the guard of `Issue` follows from `AdvancedOrderAuthorized`
together with `AuthorizationBackedByProof`.

The bounds on guesses in `AccessProofs` are the ones a test would hardly reach. The
wrong passwords that were answered are at most those the row counts, and a row without
a lock counts fewer than `MaxAttempts`: `LoginInv` has both, since the second password
login counts without locking and the lock may run out between two requests. A refused
security key is counted after a wait, so the answers are bounded by the count *plus the
workers that have still to count one* (`Busy`); for the directory, the wrong passwords
plus the logins still waiting (`Asking`) stay below `MaxAttempts + |Worker|`.
Challenges are used once because the newest is the only one in the row and one
still to come has not been of use. A session's last use is no earlier than its birth,
which a login at the same instant needs. In `ClientCertificates` a text belongs to one
certificate and one base (`TextsApart`); with the unique column that makes the lookup
exact, and unique ids make the second commit of a revocation reach the row it is
to disable. `SsoInv` keeps kinds, numbers and the default of providers apart through
`create_provider` with a reused number, and `UsersInv` is closed under the deletion of
users, roles and groups.

`SuccessIsPublished` rests on lemmas about names: a suffix is known by its length, so
the longest hosted suffix is unique, and the search of a provider that the property speaks
of ends in the zone whose servers answer or in none (`TrustedZone`). An order whose records
are being cleaned up has its certificate, which keeps a cleanup away from an order that
is being answered for.

`LinksAreSound` needs what the import of a bundle computes for any file. `_import_cas`
and `_import_certificates` are functions of the number of objects done; that these
functions exist, and that what they have done is fine at every number, is proved by the
least number where it would fail (`CasWalkThere`, `ImportCasFine`, `LeafWalkThere`,
`ImportLeavesFine`). The order of the CAs in a file is of no consequence for these
properties, so nothing is assumed about `chain_depth`. The repair is taken phase by phase:
`Identified` leaves no CA without an identifier, `Rechained` none whose issuer is there
without a link, `Deduplicated` no two with one identifier, each keeping what the phases
before it made; `RepairedStays` shows that on such tables the whole repair is the
identity. No key is lost in a merge because the identifier of a row is the pair of its
certificate, and so is its key: the key that the remaining row takes is the one that goes.

**Assumptions.** Bounds and times are natural numbers, the numbers of attempts and the
clock's last value are not zero, `None` and the other marks are not ordinary values, sets of workers,
`Scans` and API keys are finite. `AlertAssumption` states how many late runs and failed
mails a warning survives: they do not use up the week of the seven-day window, and the
certificate is known for eight days. The assumptions are named (`AccessAssumption`, `LoginAssumption`, `SsoAssumption`,
`UsersAssumption`, `BackupAssumption`, `HsmAssumption`, `JwsAssumption`,
`SchedulerAssumption`, `AlertAssumption`, `ClientAssumption`, `NamesAssumption`,
`LabelsAssumption` (a name is a sequence of labels), `LimitsAssumption` (limits are
integers), `BurstBounded` (one of them has the largest burst), `CertificatesAssumption` and `MaxRowIdAssumption` (ids are
numbers), `LinksAssumption` (pairs are not NULL, and references that come from
OPNsense are not among those made here), ...) in
the module that declares the constants, and TLC evaluates each on its run.

**Only model-checked**: `PermitsReturn` and `SchedulerRecurs` (liveness under fairness
is beyond the prover) and the violated properties. Every invariant and every
action property of the passing runs is a theorem. That a bundle is matched and chained
as a reader of the file would (which key of several goes to which certificate,
`chain_depth`) is not a property of its own.

## 5. Not modelled

- Cryptography, ASN.1, CMS, signatures: signing and verifying succeed or fail.
- Revocation: several CAs, CA certificates and their revocation, bulk operations (loops over
  the single ones).
- ACME server: key change, the revocation endpoint (it fails on a missing
  attribute), expiry of orders (never checked by the code).
- ACME client: the proxy and the tables of domains.
- Discovery: progress counters, exports, reverse DNS, change notifications.
- Access: the reset of passwords (it cannot begin), attestation of security keys, attribute mapping and metadata of SSO, the table of
  permissions, CSRF and anomaly checks.
- Backup: the format of the archive. Import: parsing of files.
- EST, the Microsoft CA connector, templates, trust store, policies, notifications, webhooks,
  settings, reports' contents, WebSocket events, migrations and the frontend; the
  reason for each is in `PROJECT.json`.

## 6. Plan

1. `CertificateTable`: one abstract table that `AcmeServer`, `ScepServer` and
   `Revocation` each refine, so that "what was issued can be revoked and is then
   published" is stated across them.
2. The Microsoft CA connector, which tracks requests as the ACME client does, and the
   attempts of webhooks.
3. In `Revocation`: several CAs and the bulk handlers; in `Discovery`: the `last_scan_at`
   of overlapping scans.
