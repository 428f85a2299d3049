----------------------------- MODULE AcmeClient -----------------------------
(***************************************************************************)
(* The ACME client: orders placed at an external CA, their dns-01 records  *)
(* and their renewal (services/acme/acme_client_service.py,                *)
(* services/acme_renewal_service.py, api/v2/acme_client.py,                *)
(* api/v2/dns_providers.py).                                               *)
(*                                                                         *)
(* A request is served by a worker (a greenlet) that is preempted at every *)
(* call over the network; job[w] is what worker w is doing.  An order row  *)
(* is order[o]; the external CA's side of it is remote[o].  The TXT        *)
(* records are dns, written through one configured provider whose          *)
(* behaviour, provider, is one of the registry of DnsProviders.            *)
(***************************************************************************)
EXTENDS DnsProviders

CONSTANTS
  Order, Worker,
  Requests,              \* the identifiers each order asks for
  MaxDisturbances,       \* bound: steps outside the plain course of orders
  Crowded                \* bound: the provider types with which several orders are
                         \* placed, and the disturbances after the second of them

ASSUME ClientAssumption == MaxDisturbances \in Nat /\ "none" \notin Worker

(* An identifier is <<domain, is it the wildcard of that domain>>.  The    *)
(* authorization of a wildcard names the domain without "*.".              *)
Idents == UNION {Requests[o] : o \in Order}
DomainNames == {i[1] : i \in Idents}
Names == DomainNames \cup {OtherName}

ASSUME NamesAssumption == OtherName \notin DomainNames

(* Labels are strings. *)
ASSUME LabelsAssumption == DomainNames \subseteq Seq(STRING)

Value(o, i) == <<o, i>>
SiteRecord == <<"site">>

VARIABLES provider, provRow, order, remote, dns, job, spent, failed

clientVars == <<provider, provRow, order, remote, dns, job, spent, failed>>

NoOrder == [status |-> "none"]
Idle == [kind |-> "idle"]
MAX_RENEWAL_FAILURES == 5

(* What the CA reports, and what the client writes of its own. *)
RemoteStatus == {"pending", "ready", "processing", "valid", "invalid"}
Status == RemoteStatus \cup {"validating", "issued", "error"}

(* Type correctness of the orders, the records and the workers' jobs. *)
ClientTypeOK ==
  /\ provider \in ProviderKinds
  /\ provRow \in {"none", "enabled", "disabled", "deleted"}
  /\ \A o \in Order :
       order[o] = NoOrder
       \/ /\ order[o].status \in Status
          /\ order[o].chal \in [DOMAIN order[o].chal -> Idents]
          /\ DOMAIN order[o].chal \subseteq DomainNames
          /\ order[o].told \in {"nothing", "ok", "warning"}
          /\ order[o].cert \in Worker \cup {"none"}
          /\ order[o].failures \in 0..MAX_RENEWAL_FAILURES
  /\ \A o \in Order :
       remote[o] = NoOrder
       \/ /\ remote[o].status \in RemoteStatus
          /\ remote[o].proved \subseteq Requests[o]
          /\ remote[o].key \in Worker \cup {"none"}
  /\ \A n \in Names : dns[n] \subseteq {SiteRecord} \cup (Order \X Idents)
  /\ spent \in 0..MaxDisturbances /\ failed \in BOOLEAN

ClientInit ==
  /\ provider \in ProviderKinds
  /\ provRow = "none"
  /\ order = [o \in Order |-> NoOrder]
  /\ remote = [o \in Order |-> NoOrder]
  /\ dns = [n \in Names |-> IF n = OtherName THEN {SiteRecord} ELSE {}]
  /\ job = [w \in Worker |-> Idle]
  /\ spent = 0 /\ failed = FALSE

(* The orders that were begun, and the bound that applies to the provider. *)
Busy(o) == \E w \in Worker : job[w] # Idle /\ job[w].order = o
Begun == {o \in Order : remote[o] # NoOrder \/ Busy(o)}
Shared == {t \in DOMAIN Crowded : provider = PROVIDER_REGISTRY[t]}

(* A disturbance: a request over the network that fails, a refusal by the  *)
(* CA, or what an administrator does early, late, twice or otherwise out   *)
(* of the plain course of an order.                                        *)
Disturb ==
  /\ spent < MaxDisturbances
  /\ \/ \A o, p \in Begun : o = p
     \/ \E t \in Shared : spent < Crowded[t]
  /\ spent' = spent + 1
Fault == Disturb /\ failed' = TRUE
Intervene == Disturb /\ UNCHANGED failed
NoFault == UNCHANGED <<spent, failed>>

Exists(o) == order[o] # NoOrder
Values(o) == {Value(o, order[o].chal[d]) : d \in DOMAIN order[o].chal}
SetJob(w, j) == job' = [job EXCEPT ![w] = j]
SetOrder(o, field, x) == order' = [order EXCEPT ![o] = [@ EXCEPT ![field] = x]]

(* Writing a row another worker has deleted raises, and the request ends. *)
SetStatus(o, s) == IF Exists(o) THEN SetOrder(o, "status", s) ELSE UNCHANGED order

At(w, kind, step) == job[w].kind = kind /\ job[w].step = step

-----------------------------------------------------------------------------
(* request_certificate: the provider is looked at, the order is placed and *)
(* its authorizations are fetched; one that cannot be fetched is left out. *)
(* Challenges are kept by the domain of the authorization.                 *)

Request(w, o) ==
  /\ job[w] = Idle /\ remote[o] = NoOrder
  /\ \A v \in Worker : job[v] # Idle => job[v].order # o
  /\ Begun = {} \/ Shared # {}
  /\ provRow = "enabled"
  /\ SetJob(w, [kind |-> "request", step |-> "place", order |-> o])
  /\ UNCHANGED <<provider, provRow, order, remote, dns, spent, failed>>

(* told is what the request was answered: every record set up, or a        *)
(* warning; it is no column, and only a property looks at it.              *)
Row(chal) ==
  [status |-> "pending", chal |-> chal, cert |-> "none", failures |-> 0, told |-> "nothing"]

(* The domains of ids, each with the one authorization that stays stored. *)
Stored(ids) == {c \in [{i[1] : i \in ids} -> ids] : \A d \in DOMAIN c : c[d][1] = d}

DnsJob(kind, o, chal) ==
  [kind |-> kind, order |-> o, step |-> "look", chal |-> chal, zone |-> NoZone,
   seen |-> <<>>, ok |-> TRUE]

ProviderFound == provRow \in {"enabled", "disabled"}

(* setup_dns_challenge looks for the provider again before it starts. *)
SetupOrIdle(o, chal) ==
  IF ProviderFound /\ DOMAIN chal # {} THEN DnsJob("setup", o, chal) ELSE Idle

create_order(w) ==
  /\ At(w, "request", "place")
  /\ LET o == job[w].order
         Placed(ids) ==
           /\ remote' = [remote EXCEPT ![o] = [status |-> "pending", proved |-> {}, key |-> "none"]]
           /\ \E chal \in Stored(ids) :
                /\ order' = [order EXCEPT ![o] = Row(chal)]
                /\ SetJob(w, SetupOrIdle(o, chal))
     IN  \/ NoFault /\ Placed(Requests[o])
         \/ Fault /\ \E i \in Requests[o] : Placed(Requests[o] \ {i})
         \/ Fault /\ SetJob(w, Idle) /\ UNCHANGED <<order, remote>>
  /\ UNCHANGED <<provider, provRow, dns>>

-----------------------------------------------------------------------------
(* Publishing and removing records: first the zone is searched and the     *)
(* records read, then they are written; the network is waited for twice.   *)

Todo(w) == CHOOSE d \in DOMAIN job[w].chal : TRUE
Nothing == [n \in Names |-> {}]

(* The job without the domain at hand; a cancellation still deletes the row. *)
Rest(w) == LET D == (DOMAIN job[w].chal) \ {Todo(w)}
           IN  IF D = {} /\ job[w].kind # "cancel" THEN Idle
               ELSE [job[w] EXCEPT !.chal = [d \in D |-> job[w].chal[d]], !.step = "look",
                                   !.zone = NoZone, !.seen = <<>>]

(* Only some of the providers read the records before they write. *)
ReadFirst(w) ==
  IF job[w].kind = "setup" THEN provider.create \in {"append", "appendIfSame", "rewrite", "edit"}
  ELSE provider.delete \in {"each", "named", "first", "rewrite", "label"}

Look(w) ==
  LET d == Todo(w)
      Found(z, seen) == SetJob(w, [job[w] EXCEPT !.step = "write", !.zone = z, !.seen = seen])
  IN  /\ job[w].kind \in {"setup", "cleanup", "cancel"} /\ job[w].step = "look"
      /\ DOMAIN job[w].chal # {}
      /\ \/ NoFault /\ Found(ZoneOf(provider, d), IF ReadFirst(w) THEN dns ELSE Nothing)
         \/ Fault /\ \E z \in ZonesAfterFailure(provider, d) :
                     Found(z, IF ReadFirst(w) THEN dns ELSE Nothing)
         \/ "list" \in provider.blind /\ Fault /\ Found(ZoneOf(provider, d), Nothing)
      /\ UNCHANGED <<provider, provRow, order, remote, dns>>

(* A write outside the authoritative zone changes nothing that is served. *)
Effect(z, d, outcomes) == IF z = Authoritative(d) THEN outcomes ELSE {dns}

Published(w) ==
  LET d == Todo(w)
  IN  Effect(job[w].zone, d, Written(provider, dns, job[w].seen, d, Value(job[w].order, job[w].chal[d])))

(* setup_dns_challenge: one domain after the other; a failure is noted in  *)
(* the answer, and the next domain follows.                                *)
create_txt_record(w) ==
  LET o == job[w].order
      blind == "create" \in provider.blind
      given == job[w].zone # NoZone
      Answer(success) ==
        LET ok == job[w].ok /\ success
        IN  IF Rest(w) # Idle THEN SetJob(w, [Rest(w) EXCEPT !.ok = ok]) /\ UNCHANGED order
            ELSE /\ SetJob(w, Idle)
                 /\ IF Exists(o) THEN SetOrder(o, "told", IF ok THEN "ok" ELSE "warning")
                    ELSE UNCHANGED order
  IN  /\ At(w, "setup", "write")
      /\ \/ given /\ NoFault /\ dns' \in Published(w) /\ Answer(TRUE)
         \/ given /\ NoFault /\ Published(w) = {} /\ UNCHANGED dns /\ Answer(blind)
         \/ given /\ Fault /\ (UNCHANGED dns \/ dns' \in Published(w)) /\ Answer(blind)
         \/ ~given /\ NoFault /\ UNCHANGED dns /\ Answer(FALSE)
      /\ UNCHANGED <<provider, provRow, remote>>

(* cleanup_dns_challenge: the answers are not looked at. *)
delete_txt_record(w) ==
  LET d == Todo(w)
      z == job[w].zone
      done == Effect(z, d, Removed(provider, dns, job[w].seen, d))
      part == Effect(z, d, PartlyRemoved(provider, dns, job[w].seen, d))
  IN  /\ job[w].kind \in {"cleanup", "cancel"} /\ job[w].step = "write"
      /\ \/ z # NoZone /\ NoFault /\ dns' \in done
         \/ z # NoZone /\ Fault /\ dns' \in done \cup part
         \/ z = NoZone /\ NoFault /\ UNCHANGED dns
      /\ SetJob(w, Rest(w))
      /\ UNCHANGED <<provider, provRow, order, remote>>

-----------------------------------------------------------------------------
(* verify_challenges: every stored challenge is posted; was is the status  *)
(* the session has loaded (writing the same value again writes nothing).   *)

VerifyStart(w, o) ==
  /\ job[w] = Idle /\ Exists(o)
  /\ order[o].status \in {"pending", "processing", "validating"}
  /\ SetJob(w, [kind |-> "verify", order |-> o, step |-> "post", chal |-> order[o].chal,
                was |-> order[o].status, failed |-> FALSE])
  /\ IF order[o].status = "pending" /\ ~Busy(o) THEN NoFault ELSE Intervene
  /\ UNCHANGED <<provider, provRow, order, remote, dns>>

verify_challenge(w) ==
  LET o == job[w].order
      d == Todo(w)
      left == [e \in (DOMAIN job[w].chal) \ {d} |-> job[w].chal[e]]
      found == {i \in {job[w].chal[d]} : Value(o, i) \in dns[d]}
      Sent == IF remote[o].status = "pending"
                THEN remote' = [remote EXCEPT ![o].proved = @ \cup found] ELSE UNCHANGED remote
  IN  /\ At(w, "verify", "post") /\ DOMAIN job[w].chal # {}
      /\ \/ /\ NoFault /\ Sent
            /\ SetJob(w, IF Exists(o) THEN [job[w] EXCEPT !.chal = left, !.was = order[o].status]
                         ELSE [job[w] EXCEPT !.chal = left, !.failed = TRUE])
         \/ /\ Fault /\ (Sent \/ UNCHANGED remote)
            /\ SetJob(w, [job[w] EXCEPT !.chal = left, !.failed = TRUE])
      /\ UNCHANGED <<provider, provRow, order, dns>>

VerifyEnd(w) ==
  LET o == job[w].order
      s == IF remote[o].status \in {"ready", "valid"} THEN remote[o].status ELSE "validating"
  IN  /\ At(w, "verify", "post") /\ DOMAIN job[w].chal = {}
      /\ \/ job[w].failed /\ NoFault
            /\ IF job[w].was = "pending" THEN UNCHANGED order ELSE SetStatus(o, "pending")
         \/ ~job[w].failed /\ NoFault /\ SetStatus(o, s)
         \/ ~job[w].failed /\ Fault /\ SetStatus(o, IF Exists(o) /\ order[o].status \in {"ready", "valid"}
                                                    THEN order[o].status ELSE "validating")
      /\ SetJob(w, Idle)
      /\ UNCHANGED <<provider, provRow, remote, dns>>

(* check_order_status of the API: whatever the row says, it takes over the *)
(* status of the CA.                                                       *)
check_order_status(o) ==
  /\ Exists(o)
  /\ SetStatus(o, remote[o].status)
  /\ Intervene
  /\ UNCHANGED <<provider, provRow, remote, dns, job>>

-----------------------------------------------------------------------------
(* finalize_order: status, CSR, polling, download, import, cleanup.  The   *)
(* key of the certificate, named by the worker, is kept in memory only.    *)

FinalizeStart(w, o) ==
  /\ job[w] = Idle /\ Exists(o) /\ order[o].status # "issued"
  /\ SetJob(w, [kind |-> "finalize", order |-> o, step |-> "check"])
  /\ IF remote[o].status = "ready" /\ ~Busy(o) THEN NoFault ELSE Intervene
  /\ UNCHANGED <<provider, provRow, order, remote, dns>>

Step(w, s) == SetJob(w, [job[w] EXCEPT !.step = s])
IfReady(w, s) == IF s = "ready" THEN Step(w, "csr") ELSE SetJob(w, Idle)

FinalizeCheck(w) ==
  LET o == job[w].order
  IN  /\ At(w, "finalize", "check")
      /\ \/ ~Exists(o) /\ NoFault /\ SetJob(w, Idle) /\ UNCHANGED order
         \/ Exists(o) /\ NoFault /\ SetStatus(o, remote[o].status) /\ IfReady(w, remote[o].status)
         \/ Exists(o) /\ Fault /\ UNCHANGED order /\ IfReady(w, order[o].status)
      /\ UNCHANGED <<provider, provRow, remote, dns>>

(* Mutant: a status nothing else knows. *)
RaisedFailed(w) == SetStatus(job[w].order, "failed") /\ SetJob(w, Idle)

Raised(w) == SetStatus(job[w].order, "error") /\ SetJob(w, Idle)

(* Mutant: the answer to the CSR is not looked at. *)
FinalizeCsrUnchecked(w) ==
  LET o == job[w].order
  IN  /\ At(w, "finalize", "csr")
      /\ NoFault
      /\ remote' = [remote EXCEPT ![o] = IF @.status # "ready" THEN @
                                         ELSE [@ EXCEPT !.status = "processing", !.key = w]]
      /\ SetStatus(o, "processing")
      /\ IF Exists(o) THEN Step(w, "poll") ELSE SetJob(w, Idle)
      /\ UNCHANGED <<provider, provRow, dns>>

FinalizeCsr(w) ==
  LET o == job[w].order
      Taken == remote' = [remote EXCEPT ![o] = [@ EXCEPT !.status = "processing", !.key = w]]
      accepts == remote[o].status = "ready"
  IN  /\ At(w, "finalize", "csr")
      /\ \/ accepts /\ NoFault /\ Taken /\ SetStatus(o, "processing")
            /\ IF Exists(o) THEN Step(w, "poll") ELSE SetJob(w, Idle)
         \/ ~accepts /\ NoFault /\ SetJob(w, Idle) /\ UNCHANGED <<order, remote>>
         \/ accepts /\ Fault /\ Taken /\ Raised(w)
         \/ Fault /\ Raised(w) /\ UNCHANGED remote
      /\ UNCHANGED <<provider, provRow, dns>>

(* At most ten looks, three seconds apart: the CA may take longer. *)
FinalizePoll(w) ==
  LET o == job[w].order
  IN  /\ At(w, "finalize", "poll")
      /\ \/ ~Exists(o) /\ SetJob(w, Idle) /\ UNCHANGED order
         \/ /\ Exists(o) /\ SetStatus(o, remote[o].status)
            /\ IF remote[o].status = "valid" THEN Step(w, "download") ELSE SetJob(w, Idle)
      /\ UNCHANGED <<provider, provRow, remote, dns, spent, failed>>

(* Mutant: a disabled provider is not asked to clean up. *)
CleanupJobIfEnabled(o) ==
  IF provRow = "enabled" /\ provider # ManualDnsProvider /\ DOMAIN order[o].chal # {}
  THEN DnsJob("cleanup", o, order[o].chal) ELSE Idle

CleanupJob(o) ==
  IF ProviderFound /\ provider # ManualDnsProvider /\ DOMAIN order[o].chal # {}
  THEN DnsJob("cleanup", o, order[o].chal) ELSE Idle

(* A certificate that cannot be fetched or imported is only reported. *)
FinalizeImport(w) ==
  LET o == job[w].order
  IN  /\ At(w, "finalize", "download")
      /\ \/ ~Exists(o) /\ NoFault /\ SetJob(w, Idle) /\ UNCHANGED order
         \/ /\ Exists(o) /\ NoFault
            /\ order' = [order EXCEPT ![o] = [@ EXCEPT !.status = "issued", !.cert = w]]
            /\ SetJob(w, CleanupJob(o))
         \/ Fault /\ SetJob(w, Idle) /\ UNCHANGED order
         \/ Fault /\ Raised(w)
      /\ UNCHANGED <<provider, provRow, remote, dns>>

-----------------------------------------------------------------------------
(* cancel_order: the records first, then the row. *)

CancelStart(w, o) ==
  /\ job[w] = Idle /\ Exists(o)
  /\ IF CleanupJob(o) # Idle
     THEN SetJob(w, [CleanupJob(o) EXCEPT !.kind = "cancel"]) /\ UNCHANGED order
     ELSE UNCHANGED job /\ order' = [order EXCEPT ![o] = NoOrder]
  /\ Intervene
  /\ UNCHANGED <<provider, provRow, remote, dns>>

CancelEnd(w) ==
  /\ At(w, "cancel", "look") /\ DOMAIN job[w].chal = {}
  /\ order' = [order EXCEPT ![job[w].order] = NoOrder]
  /\ SetJob(w, Idle)
  /\ UNCHANGED <<provider, provRow, remote, dns, spent, failed>>

(* scheduled_acme_renewal: renew_certificate calls create_order without    *)
(* its email, which raises; the failure is counted.  renew_order of the    *)
(* API meets the same and changes nothing.                                 *)
Renewal(o) ==
  /\ Exists(o) /\ order[o].status = "issued" /\ order[o].failures < MAX_RENEWAL_FAILURES
  /\ SetOrder(o, "failures", order[o].failures + 1)
  /\ Intervene
  /\ UNCHANGED <<provider, provRow, remote, dns, job>>

-----------------------------------------------------------------------------
(* The row of the provider. *)

create_provider ==
  /\ provRow = "none"
  /\ provRow' = "enabled"
  /\ UNCHANGED <<provider, order, remote, dns, job, spent, failed>>

update_provider ==
  /\ ProviderFound
  /\ provRow' = IF provRow = "enabled" THEN "disabled" ELSE "enabled"
  /\ Intervene
  /\ UNCHANGED <<provider, order, remote, dns, job>>

(* Mutant: only orders that are not verified yet count as use. *)
InUsePending == \E o \in Order : Exists(o) /\ order[o].status = "pending"

InUse == \E o \in Order : Exists(o)

delete_provider ==
  /\ ProviderFound /\ ~InUse
  /\ provRow' = "deleted"
  /\ Intervene
  /\ UNCHANGED <<provider, order, remote, dns, job>>

-----------------------------------------------------------------------------
(* The external CA. *)

CaDecides(o) ==
  /\ remote[o] # NoOrder
  /\ \/ remote[o].status = "pending" /\ remote[o].proved = Requests[o]
        /\ remote' = [remote EXCEPT ![o] = [@ EXCEPT !.status = "ready"]]
     \/ remote[o].status = "processing"
        /\ remote' = [remote EXCEPT ![o] = [@ EXCEPT !.status = "valid"]]
  /\ UNCHANGED <<provider, provRow, order, dns, job, spent, failed>>

CaRefuses(o) ==
  /\ remote[o] # NoOrder /\ remote[o].status \in {"pending", "processing"}
  /\ remote' = [remote EXCEPT ![o] = [@ EXCEPT !.status = "invalid"]]
  /\ Intervene
  /\ UNCHANGED <<provider, provRow, order, dns, job>>

WorkerStep(w) ==
  \/ create_order(w) \/ Look(w) \/ create_txt_record(w) \/ delete_txt_record(w)
  \/ verify_challenge(w) \/ VerifyEnd(w)
  \/ FinalizeCheck(w) \/ FinalizeCsr(w) \/ FinalizePoll(w) \/ FinalizeImport(w)
  \/ CancelEnd(w)

ClientNext ==
  \/ \E w \in Worker : WorkerStep(w)
  \/ \E w \in Worker, o \in Order : 
       Request(w, o) \/ VerifyStart(w, o) \/ FinalizeStart(w, o) \/ CancelStart(w, o)
  \/ \E o \in Order : check_order_status(o) \/ Renewal(o) \/ CaDecides(o) \/ CaRefuses(o)
  \/ create_provider \/ update_provider \/ delete_provider

ClientSpec == ClientInit /\ [][ClientNext]_clientVars

-----------------------------------------------------------------------------
(* Properties. *)

(* While records of an order are published, the provider that can remove   *)
(* them exists: delete_provider refuses as long as an order uses it, and   *)
(* an order whose provider went while it was placed publishes nothing.     *)
RecordsRemovable ==
  \A o \in Order : Exists(o) /\ (\E n \in Names : Values(o) \cap dns[n] # {})
                   => ProviderFound

(* finalize_order imports a certificate together with the key made in the  *)
(* same call: it is the key the CA has certified, also when two workers    *)
(* finalize the same order or an answer was lost.                          *)
IssuedWithItsKey ==
  \A o \in Order : Exists(o) /\ order[o].cert # "none" => order[o].cert = remote[o].key

Removes == provider.delete \in {"set", "each", "named"}
Keeps == provider.create \in {"add", "replace", "appendIfSame"}
Finds == provider.zone \in {"labels", "probe", "none"}

(* When finalize_order has ended with a certificate and no request failed, *)
(* none of the order's values is left in the DNS, whatever other orders    *)
(* for the same names did meanwhile.  Providers that write back what they  *)
(* read before, or delete one record only, are not in this claim.          *)
CleanedUp ==
  Keeps /\ Removes /\ Finds /\ ~failed =>
    \A o \in Order : Exists(o) /\ order[o].cert # "none" /\ ~Busy(o)
                     => \A n \in Names : Values(o) \cap dns[n] = {}

(* A record the program did not write survives every order, except with a  *)
(* provider that writes the whole zone back after it could not read it.    *)
SiteRecordKept ==
  provider.create # "rewrite" \/ ~failed => dns[OtherName] = {SiteRecord}

(* Orders leave the zone as it was: their records are removed again, the   *)
(* provider that can do it stays, and what others wrote is kept.           *)
ZoneKept == CleanedUp /\ RecordsRemovable /\ SiteRecordKept

(* A request answered without a warning has its records published, until   *)
(* they are removed again: shown for the only order (others may replace or *)
(* remove the records of a name they share), and for the providers that    *)
(* find the most specific zone and look at what they are answered.         *)
SuccessMeansPublished ==
  \A o \in Order :
    /\ Exists(o) /\ order[o].told = "ok" /\ order[o].cert = "none"
    /\ \A w \in Worker : job[w] # Idle => job[w].kind # "cancel"
    /\ \A p \in Order \ {o} : remote[p] = NoOrder
    /\ "create" \notin provider.blind /\ provider.create # "none"
    /\ provider.zone \in {"labels", "given", "none"} \/ (provider.zone = "probe" /\ ~failed)
    => \A d \in DOMAIN order[o].chal : Value(o, order[o].chal[d]) \in dns[d]
=============================================================================
