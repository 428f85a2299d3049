---------------------------- MODULE DnsProviders ----------------------------
(***************************************************************************)
(* The DNS providers of the ACME client (services/acme/dns_providers).     *)
(*                                                                         *)
(* Forty-eight classes publish and remove the TXT record of a dns-01       *)
(* challenge through the API of a DNS hoster.  What differs between them,  *)
(* and what the client can rely on, is                                     *)
(*   zone    how the zone of a domain is found among the hosted zones:     *)
(*             "labels"   the longest suffix of labels in the listing      *)
(*             "probe"    the suffixes are asked for one by one, and a     *)
(*                        request that fails counts as not hosted          *)
(*             "text"     the first listed zone the name ends with, as     *)
(*                        text: label boundaries are not looked at         *)
(*             "textElseLastTwo"  the same, else the last two labels       *)
(*             "lastTwo"  the last two labels, hosted or not               *)
(*             "given"    the domain itself, hosted or not                 *)
(*             "soa"      probing for a SOA, else the last two labels      *)
(*             "none"     no zone, the record is addressed by its name     *)
(*   create  what writing does to the values at the record's name          *)
(*             "add"      one more record                                  *)
(*             "replace"  the new value replaces what was there            *)
(*             "append"   the values read before, and the new one          *)
(*             "appendIfSame"  the same, refused if they have changed      *)
(*             "rewrite"  every record of the zone read before, and the    *)
(*                        new one, replace the zone                        *)
(*             "edit"     a record found before by its first label is      *)
(*                        overwritten, else one more record                *)
(*             "none"     nothing, the administrator writes it             *)
(*   delete  what is removed                                               *)
(*             "set"      everything at the name, in one request           *)
(*             "each"     the records listed before, one request each      *)
(*             "named"    the same, listed by name without a zone          *)
(*             "first"    the first record listed before                   *)
(*             "rewrite"  the zone read before without the name            *)
(*             "label"    a record found before by its first label         *)
(*             "none"     nothing                                          *)
(*   blind   the requests whose refusal is not reported as a failure:      *)
(*           of "create", of "delete", of the "list" a delete starts with  *)
(* Every provider below is the record of its choices.                      *)
(***************************************************************************)
EXTENDS Naturals, Sequences, FiniteSets

CONSTANTS
  Hosted,     \* the zones of the account, in the order the API lists them
  LookAlike,  \* pairs <<d, z>>: d ends with z as text, inside a label
  OtherName   \* a name of the zones that is no challenge name

(* A domain name is the sequence of its labels. *)
LabelSuffixes(d) == {SubSeq(d, i, Len(d)) : i \in 1..Len(d)}

HostedSet == {Hosted[i] : i \in DOMAIN Hosted}

Longest(S) == CHOOSE z \in S : \A y \in S : Len(y) <= Len(z)

NoZone == <<>>

(* The zone whose servers answer for d: the most specific hosted one. *)
Authoritative(d) ==
  LET S == LabelSuffixes(d) \cap HostedSet
  IN  IF S = {} THEN NoZone ELSE Longest(S)

-----------------------------------------------------------------------------
(* Finding the zone. *)

(* Mutant: the first match from the right, the least specific zone. *)
ByLabelsShortest(d) ==
  LET S == {z \in LabelSuffixes(d) \cap HostedSet : Len(z) >= 2}
  IN  IF S = {} THEN NoZone ELSE CHOOSE z \in S : \A y \in S : Len(z) <= Len(y)

(* for i in range(len(parts) - 1): the top-level label alone is not tried. *)
ByLabels(d) ==
  LET S == {z \in LabelSuffixes(d) \cap HostedSet : Len(z) >= 2}
  IN  IF S = {} THEN NoZone ELSE Longest(S)

(* domain.endswith(zone): the first of the listing that matches. *)
ByText(d) ==
  LET S == {i \in DOMAIN Hosted : Hosted[i] \in LabelSuffixes(d)
                                  \/ <<d, Hosted[i]>> \in LookAlike}
  IN  IF S = {} THEN NoZone ELSE Hosted[CHOOSE i \in S : \A j \in S : i <= j]

(* get_zone_for_domain: the last two labels, whether hosted or not. *)
LastTwo(d) == IF Len(d) >= 2 THEN SubSeq(d, Len(d) - 1, Len(d)) ELSE d

IfHosted(z) == IF z \in HostedSet THEN z ELSE NoZone

OrElse(z, y) == IF z = NoZone THEN y ELSE z

(* The zones a provider may decide on when no request fails; NoZone when   *)
(* it finds none, or names one the API does not know and refuses.          *)
ZoneOf(p, d) ==
  CASE p.zone \in {"labels", "probe"} -> ByLabels(d)
    [] p.zone = "text" -> ByText(d)
    [] p.zone = "textElseLastTwo" -> OrElse(ByText(d), IfHosted(LastTwo(d)))
    [] p.zone = "lastTwo" -> IfHosted(LastTwo(d))
    [] p.zone = "given" -> IfHosted(d)
    [] p.zone = "soa" -> OrElse(ByLabels(d), IfHosted(LastTwo(d)))
    [] p.zone = "none" -> Authoritative(d)

(* And when a request of the search fails: a listing gives nothing, a      *)
(* probe that fails lets the search go on to the parent.                   *)
ZonesAfterFailure(p, d) ==
  CASE p.zone \in {"labels", "text"} -> {NoZone}
    [] p.zone = "textElseLastTwo" -> {IfHosted(LastTwo(d))}
    [] p.zone \in {"probe", "soa"} ->
         {z \in LabelSuffixes(d) \cap HostedSet : Len(z) >= 2} \cup {NoZone}
    [] p.zone \in {"lastTwo", "given", "none"} -> {ZoneOf(p, d)}

-----------------------------------------------------------------------------
(* The effect of a write on the TXT records, recs[n] being the values at   *)
(* the challenge name of n; seen is what was read before.  A record        *)
(* written to another zone than the authoritative one is never seen.       *)

SameZone(d, n) == Authoritative(n) = Authoritative(d)

Challenges(recs) == (DOMAIN recs) \ {OtherName}

(* Mutant: writing the zone back keeps the challenge names only. *)
WrittenBack(p, recs, seen, d, v) ==
  {[n \in DOMAIN recs |-> IF n = d THEN recs[n] \cup {v}
                          ELSE IF p.create = "rewrite" /\ n = OtherName THEN {} ELSE recs[n]]}

(* No outcome at all: the API refuses the request. *)
Written(p, recs, seen, d, v) ==
  CASE p.create = "add" -> {[recs EXCEPT ![d] = @ \cup {v}]}
    [] p.create = "replace" -> {[recs EXCEPT ![d] = {v}]}
    [] p.create = "append" -> IF seen[d] = {} /\ recs[d] # {} THEN {}
                              ELSE {[recs EXCEPT ![d] = seen[d] \cup {v}]}
    [] p.create = "appendIfSame" -> IF seen[d] # recs[d] THEN {}
                                    ELSE {[recs EXCEPT ![d] = @ \cup {v}]}
    [] p.create = "rewrite" ->
         {[n \in DOMAIN recs |->
             IF ~SameZone(d, n) THEN recs[n]
             ELSE IF n = d THEN seen[n] \cup {v} ELSE seen[n]]}
    [] p.create = "edit" ->
         LET found == {n \in Challenges(recs) : seen[n] # {}}
         IN  IF found = {} THEN {[recs EXCEPT ![d] = @ \cup {v}]}
             ELSE UNION {{[[recs EXCEPT ![n] = @ \ {w}] EXCEPT ![d] = @ \cup {v}] :
                           w \in seen[n]} : n \in found}
    [] p.create = "none" -> {recs}

(* The records a delete may leave when no request is refused. *)
Removed(p, recs, seen, d) ==
  CASE p.delete = "set" -> {[recs EXCEPT ![d] = {}]}
    [] p.delete \in {"each", "named"} -> {[recs EXCEPT ![d] = @ \ seen[d]]}
    [] p.delete = "first" ->
         IF seen[d] = {} THEN {recs}
         ELSE {[recs EXCEPT ![d] = @ \ {v}] : v \in seen[d]}
    [] p.delete = "rewrite" ->
         IF seen[d] = {} THEN {recs}
         ELSE {[n \in DOMAIN recs |-> IF ~SameZone(d, n) THEN recs[n]
                                      ELSE IF n = d THEN {} ELSE seen[n]]}
    [] p.delete = "label" ->
         LET found == {n \in Challenges(recs) : seen[n] # {}}
         IN  IF found = {} THEN {recs}
             ELSE UNION {{[recs EXCEPT ![n] = @ \ {v}] : v \in seen[n]} : n \in found}
    [] p.delete = "none" -> {recs}

(* What is left when requests of a delete are refused: a removal record by *)
(* record may have removed some, any other nothing.                        *)
PartlyRemoved(p, recs, seen, d) ==
  IF p.delete \in {"each", "named"}
  THEN {[recs EXCEPT ![d] = @ \ S] : S \in (SUBSET seen[d]) \ {seen[d]}}
  ELSE {recs}

-----------------------------------------------------------------------------
(* The providers. *)

Provider(zone, create, delete, blind) ==
  [zone |-> zone, create |-> create, delete |-> delete, blind |-> blind]

ManualDnsProvider == Provider("none", "none", "none", {})
OvhDnsProvider == Provider("labels", "add", "each", {"create", "delete"})
HetznerDnsProvider == Provider("labels", "append", "set", {})
GandiDnsProvider == Provider("probe", "replace", "set", {})
InfomaniakDnsProvider == Provider("labels", "add", "each", {"delete"})
ScalewayDnsProvider == Provider("labels", "add", "set", {})
IonosDnsProvider == Provider("labels", "add", "first", {})
NetcupDnsProvider == Provider("given", "add", "set", {})
InwxDnsProvider == Provider("given", "add", "each", {"delete"})
BookMyNameDnsProvider == Provider("none", "add", "set", {"create", "delete"})
CloudflareDnsProvider == Provider("probe", "add", "each", {"delete"})
DigitalOceanDnsProvider == Provider("probe", "add", "each", {"delete"})
Route53DnsProvider == Provider("labels", "replace", "set", {})
GoogleCloudDnsProvider == Provider("labels", "appendIfSame", "set", {"list"})
AzureDnsProvider == Provider("labels", "replace", "set", {})
LinodeDnsProvider == Provider("labels", "add", "first", {})
VultrDnsProvider == Provider("labels", "add", "first", {})
GoDaddyDnsProvider == Provider("labels", "add", "set", {})
NamecheapDnsProvider == Provider("given", "rewrite", "rewrite", {"list"})
DesecDnsProvider == Provider("labels", "replace", "set", {})
DuckDnsDnsProvider == Provider("none", "replace", "set", {})
FreeDnsDnsProvider == Provider("given", "edit", "label", {"create", "delete", "list"})
DynuDnsProvider == Provider("text", "add", "first", {"delete"})
DnsimpleDnsProvider == Provider("text", "add", "each", {"delete"})
DnsMadeEasyDnsProvider == Provider("text", "add", "each", {"delete"})
EasyDnsDnsProvider == Provider("probe", "add", "each", {"delete"})
DreamhostDnsProvider == Provider("none", "add", "first", {"delete"})
ClouDnsDnsProvider == Provider("textElseLastTwo", "add", "each", {"delete"})
DomeneshopDnsProvider == Provider("text", "add", "each", {"delete"})
PorkbunDnsProvider == Provider("lastTwo", "add", "each", {"delete", "list"})
VercelDnsProvider == Provider("lastTwo", "add", "each", {"delete"})
BunnyDnsProvider == Provider("text", "add", "each", {"delete"})
AlwaysdataDnsProvider == Provider("text", "add", "named", {"delete"})
CoreNetworksDnsProvider == Provider("text", "add", "each", {"create", "delete"})
CheckdomainDnsProvider == Provider("text", "add", "each", {"delete"})
NetlifyDnsProvider == Provider("labels", "add", "each", {})
Ns1DnsProvider == Provider("labels", "replace", "set", {})
ConstellixDnsProvider == Provider("labels", "add", "each", {"delete"})
RackspaceDnsProvider == Provider("given", "add", "each", {"delete"})
PowerDnsDnsProvider == Provider("labels", "replace", "set", {})
HostingerDnsProvider == Provider("given", "add", "each", {"delete"})
HoverDnsProvider == Provider("given", "add", "each", {"delete"})
NamecomDnsProvider == Provider("probe", "add", "each", {"delete"})
EpikDnsProvider == Provider("given", "add", "each", {"delete"})
HurricaneDnsProvider == Provider("none", "replace", "set", {"delete"})
MythicBeastsDnsProvider == Provider("given", "add", "set", {})
RcodeZeroDnsProvider == Provider("labels", "add", "set", {})
Rfc2136DnsProvider == Provider("soa", "add", "set", {})

(* The registry, by provider_type. *)
PROVIDER_REGISTRY ==
  [ manual |-> ManualDnsProvider,
    ovh |-> OvhDnsProvider,
    hetzner |-> HetznerDnsProvider,
    gandi |-> GandiDnsProvider,
    infomaniak |-> InfomaniakDnsProvider,
    scaleway |-> ScalewayDnsProvider,
    ionos |-> IonosDnsProvider,
    netcup |-> NetcupDnsProvider,
    inwx |-> InwxDnsProvider,
    bookmyname |-> BookMyNameDnsProvider,
    cloudflare |-> CloudflareDnsProvider,
    digitalocean |-> DigitalOceanDnsProvider,
    route53 |-> Route53DnsProvider,
    gcloud |-> GoogleCloudDnsProvider,
    azure |-> AzureDnsProvider,
    linode |-> LinodeDnsProvider,
    vultr |-> VultrDnsProvider,
    godaddy |-> GoDaddyDnsProvider,
    namecheap |-> NamecheapDnsProvider,
    desec |-> DesecDnsProvider,
    duckdns |-> DuckDnsDnsProvider,
    freedns |-> FreeDnsDnsProvider,
    dynu |-> DynuDnsProvider,
    dnsimple |-> DnsimpleDnsProvider,
    dnsmadeeasy |-> DnsMadeEasyDnsProvider,
    easydns |-> EasyDnsDnsProvider,
    dreamhost |-> DreamhostDnsProvider,
    cloudns |-> ClouDnsDnsProvider,
    domeneshop |-> DomeneshopDnsProvider,
    porkbun |-> PorkbunDnsProvider,
    vercel |-> VercelDnsProvider,
    bunny |-> BunnyDnsProvider,
    alwaysdata |-> AlwaysdataDnsProvider,
    corenetworks |-> CoreNetworksDnsProvider,
    checkdomain |-> CheckdomainDnsProvider,
    netlify |-> NetlifyDnsProvider,
    ns1 |-> Ns1DnsProvider,
    constellix |-> ConstellixDnsProvider,
    rackspace |-> RackspaceDnsProvider,
    powerdns |-> PowerDnsDnsProvider,
    hostinger |-> HostingerDnsProvider,
    hover |-> HoverDnsProvider,
    namecom |-> NamecomDnsProvider,
    epik |-> EpikDnsProvider,
    hurricane |-> HurricaneDnsProvider,
    mythicbeasts |-> MythicBeastsDnsProvider,
    rcodezero |-> RcodeZeroDnsProvider,
    rfc2136 |-> Rfc2136DnsProvider ]

ProviderKinds == {PROVIDER_REGISTRY[t] : t \in DOMAIN PROVIDER_REGISTRY}
=============================================================================
