-------------------------------- MODULE Hsm --------------------------------
(***************************************************************************)
(* The keys kept in hardware (services/hsm, api/v2/hsm.py): one provider   *)
(* row, the rows of its keys, and the keys the device really holds.  An    *)
(* operation reads the rows, talks to the device, and then writes the      *)
(* rows.  The calls of the PKCS#11 and Google libraries block the whole    *)
(* process; those of Azure Key Vault wait on the network, and other        *)
(* requests run meanwhile.                                                 *)
(***************************************************************************)
EXTENDS Naturals, FiniteSets, TLC

CONSTANTS HsmWorker,      \* the greenlets that serve requests
          Kinds,          \* the provider types of a run
          Vaults,         \* the tokens, vaults or key rings a config may name
          Labels,         \* the labels of keys
          SigningLabels,  \* the labels of keys made for signing
          EcLabels,       \* the labels of keys on elliptic curves; the others are RSA
          MaxKeys,        \* how many keys are ever made (a bound)
          MaxRequests     \* how many requests and outside changes there are (a bound)

ASSUME HsmAssumption ==
  /\ 1 \in Vaults /\ MaxKeys \in Nat
  /\ Kinds \subseteq {"pkcs11", "azure-keyvault", "google-kms"}

VARIABLES type,      \* the type of the provider, fixed when it is created
          provider,  \* its row: there, vault (the config), status
          keyRows,   \* the key rows by row number
          device,    \* the keys the devices hold
          made,      \* every key ever made
          call,      \* what each greenlet is doing
          tested,    \* the vault of the last test that succeeded, 0 if none
          signed,    \* the last signature: the key the row named, the key that signed
          asked,     \* how many requests and outside changes there were
          synced     \* a sync that runs alone: running, or done and nothing since

hsmVars == <<type, provider, keyRows, device, made, call, tested, signed, asked, synced>>

NoKey == [n |-> 0, label |-> "none", vault |-> 0]
NoCall == [op |-> "none", stage |-> "asked", vault |-> 0, status |-> "unknown", label |-> "none", row |-> 0, key |-> NoKey,
           ok |-> FALSE, used |-> NoKey, keys |-> {}]
Busy(w) == call[w].op # "none"

Request == asked < MaxRequests /\ asked' = asked + 1

(* A blocking library call: nothing else runs before it ends. *)
Uninterrupted(w) == type # "azure-keyvault" => \A v \in HsmWorker \ {w} : ~Busy(v)
NoneBlocks == type # "azure-keyvault" => \A v \in HsmWorker : ~Busy(v)

HsmInit ==
  /\ type \in Kinds
  /\ provider = [there |-> FALSE, vault |-> 1, status |-> "unknown"]
  /\ keyRows = << >> /\ device = {} /\ made = {} /\ signed = << >>
  /\ tested = 0 /\ synced = "no" /\ asked = 0
  /\ call = [w \in HsmWorker |-> NoCall]

----------------------------------------------------------------------------
(* What the libraries do with the device. *)

Latest(k) == ~\E j \in device : j.vault = k.vault /\ j.label = k.label /\ j.n > k.n

(* The listings drop what they cannot read: nothing is listed of a token,  *)
(* whose objects are asked with a method "get" that python-pkcs11 lacks    *)
(* (pkcs11_provider.py:220); of a vault only the present version of the    *)
(* keys on curves, since the modulus of the others is asked for its        *)
(* bit_length and is bytes (azure_provider.py:198); and nothing from       *)
(* Google, whose entries are built with a field that HsmKeyInfo lacks.     *)
Pkcs11List(v) == {}
AzureList(v) == {k \in device : k.vault = v /\ k.label \in EcLabels /\ Latest(k)}
GcpList(v) == {}
List(v) == CASE type = "pkcs11" -> Pkcs11List(v)
             [] type = "azure-keyvault" -> AzureList(v)
             [] type = "google-kms" -> GcpList(v)

(* A name may be used again, except in a key ring, where it stays taken    *)
(* even when the versions are destroyed.                                   *)
Pkcs11Accepts(v, label) == TRUE
AzureAccepts(v, label) == TRUE
GcpAccepts(v, label) == ~\E k \in made : k.vault = v /\ k.label = label
Accepts(v, label) == CASE type = "pkcs11" -> Pkcs11Accepts(v, label)
                       [] type = "azure-keyvault" -> AzureAccepts(v, label)
                       [] type = "google-kms" -> GcpAccepts(v, label)

(* Mutated: a key is looked up by its label. *)
Pkcs11FindByLabel(v, k) == {j \in device : j.vault = v /\ j.label = k.label}

(* The keys an identifier reaches in vault v: the key with that identifier *)
(* on the token; every version of the name in the vault, of which the      *)
(* latest is used; the key itself, whatever the config says, at Google.    *)
Pkcs11Find(v, k) == device \cap {j \in {k} : j.vault = v}
AzureFind(v, k) == {j \in device : j.vault = v /\ j.label = k.label}
GcpFind(v, k) == device \cap {k}
Find(v, k) == CASE type = "pkcs11" -> Pkcs11Find(v, k)
                [] type = "azure-keyvault" -> AzureFind(v, k)
                [] type = "google-kms" -> GcpFind(v, k)

(* Deleting what is not there: the token finds no object and is content,   *)
(* Google finds every version destroyed, Azure raises.                     *)
Pkcs11Deletes(v, k) == TRUE
AzureDeletes(v, k) == AzureFind(v, k) # {}
GcpDeletes(v, k) == TRUE
Deletes(v, k) == CASE type = "pkcs11" -> Pkcs11Deletes(v, k)
                   [] type = "azure-keyvault" -> AzureDeletes(v, k)
                   [] type = "google-kms" -> GcpDeletes(v, k)

(* The key that signs, or whose public part is returned.  Google names no  *)
(* primary version of a key made for signing, and the code needs one.      *)
Pkcs11Uses(v, k) == Pkcs11Find(v, k)
AzureUses(v, k) == {j \in AzureFind(v, k) : Latest(j)}
GcpUses(v, k) == {}
Uses(v, k) == CASE type = "pkcs11" -> Pkcs11Uses(v, k)
                [] type = "azure-keyvault" -> AzureUses(v, k)
                [] type = "google-kms" -> GcpUses(v, k)

(* Whether the public part comes back with a new key. *)
PublicOf(k) == IF type = "google-kms" THEN 0 ELSE k.n

----------------------------------------------------------------------------
(* The provider row. *)

create_provider(v) ==
  /\ Request /\ NoneBlocks
  /\ ~provider.there
  /\ provider' = [there |-> TRUE, vault |-> v, status |-> "unknown"]
  /\ tested' = 0 /\ synced' = "no"
  /\ UNCHANGED <<type, keyRows, device, made, call, signed>>

(* Mutated: the status survives a new configuration. *)
update_providerKeepingStatus(v) ==
  /\ Request /\ NoneBlocks
  /\ provider.there
  /\ provider' = [provider EXCEPT !.vault = v]
  /\ synced' = "no"
  /\ UNCHANGED <<type, keyRows, device, made, call, tested, signed>>

update_provider(v) ==
  /\ Request /\ NoneBlocks
  /\ provider.there
  /\ provider' = [provider EXCEPT !.vault = v, !.status = "unknown"]
  /\ synced' = "no"
  /\ UNCHANGED <<type, keyRows, device, made, call, tested, signed>>

(* Mutated: the rows of the keys stay. *)
delete_providerOnly ==
  /\ Request /\ NoneBlocks
  /\ provider.there
  /\ provider' = [provider EXCEPT !.there = FALSE]
  /\ synced' = "no"
  /\ UNCHANGED <<type, keyRows, device, made, call, tested, signed>>

(* The rows of its keys go with it, the keys stay on the device. *)
delete_provider ==
  /\ Request /\ NoneBlocks
  /\ provider.there
  /\ provider' = [provider EXCEPT !.there = FALSE]
  /\ keyRows' = << >>
  /\ synced' = "no"
  /\ UNCHANGED <<type, device, made, call, tested, signed>>

----------------------------------------------------------------------------
(* An operation: what it read before the device is asked. *)

Call(w, c) ==
  /\ Request /\ ~Busy(w) /\ Uninterrupted(w)
  /\ provider.there
  /\ call' = [call EXCEPT ![w] = [c EXCEPT !.vault = provider.vault, !.stage = "asked"]]
  /\ synced' = IF c.op = "sync" /\ \A v \in HsmWorker : ~Busy(v) THEN "running" ELSE "no"
  /\ UNCHANGED <<type, provider, keyRows, device, made, tested, signed>>

test_provider(w) == Call(w, [NoCall EXCEPT !.op = "test", !.status = provider.status])
generate_key(w, label) == Call(w, [NoCall EXCEPT !.op = "generate", !.label = label])
delete_key(w, r) == Call(w, [NoCall EXCEPT !.op = "delete", !.row = r, !.key = keyRows[r].key])
get_public_key(w, r) ==
  keyRows[r].pub = 0 /\ Call(w, [NoCall EXCEPT !.op = "public", !.row = r, !.key = keyRows[r].key])
sign(w, r) ==
  /\ keyRows[r].key.label \in SigningLabels
  /\ Call(w, [NoCall EXCEPT !.op = "sign", !.row = r, !.key = keyRows[r].key])
sync_keys(w) == Call(w, [NoCall EXCEPT !.op = "sync"])

(* The device answers; it may have done what was asked and the answer be   *)
(* lost, or not have been reached at all.                                  *)
Failed(c) == [c EXCEPT !.stage = "answered", !.ok = FALSE]
Done(c) == [c EXCEPT !.stage = "answered", !.ok = TRUE]

AnswerOf(c) ==
  CASE c.op = "test" -> {Done(c)}
    [] c.op = "generate" ->
         IF Accepts(c.vault, c.label)
           THEN {[Done(c) EXCEPT !.key = [n |-> Cardinality(made) + 1, label |-> c.label, vault |-> c.vault]]}
           ELSE {Failed(c)}
    [] c.op = "delete" -> {IF Deletes(c.vault, c.key) THEN Done(c) ELSE Failed(c)}
    [] c.op \in {"public", "sign"} ->
         IF Uses(c.vault, c.key) = {} THEN {Failed(c)}
         ELSE {[Done(c) EXCEPT !.used = k] : k \in Uses(c.vault, c.key)}
    [] c.op = "sync" -> {[Done(c) EXCEPT !.keys = List(c.vault)]}

Device(w) ==
  LET c == call[w]
  IN /\ Busy(w) /\ c.stage = "asked"
     /\ c.op = "generate" => Cardinality(made) < MaxKeys
     /\ \E a \in AnswerOf(c) :
          /\ call' \in {[call EXCEPT ![w] = a], [call EXCEPT ![w] = Failed(c)]}
          /\ made' = IF c.op = "generate" /\ a.ok THEN made \cup {a.key} ELSE made
          /\ device' = CASE c.op = "generate" /\ a.ok -> device \cup {a.key}
                         [] c.op = "delete" -> device \ Find(c.vault, c.key)
                         [] OTHER -> device
     /\ UNCHANGED <<type, provider, keyRows, tested, signed, asked, synced>>

Unreachable(w) ==
  /\ Busy(w) /\ call[w].stage = "asked"
  /\ call' = [call EXCEPT ![w] = Failed(call[w])]
  /\ UNCHANGED <<type, provider, keyRows, device, made, tested, signed, asked, synced>>

----------------------------------------------------------------------------
(* What an operation writes. *)

Stored(k) == \E r \in DOMAIN keyRows : keyRows[r].key = k
WithRow(n, row) == [r \in DOMAIN keyRows \cup {n} |-> IF r = n THEN row ELSE keyRows[r]]
NextRow(used) == 1 + (IF used = {} THEN 0 ELSE CHOOSE m \in used : \A r \in used : r <= m)

Finish(w, op) ==
  /\ Busy(w) /\ call[w].op = op /\ call[w].stage = "answered"
  /\ call' = [call EXCEPT ![w] = NoCall]
  /\ UNCHANGED <<type, device, made, asked>>

(* Only a status that differs from the one read is written; the row of a   *)
(* provider that is gone takes nothing.                                    *)
test_provider_ends(w) ==
  LET c == call[w]
      status == IF c.ok THEN "connected" ELSE "error"
  IN /\ Finish(w, "test")
     /\ provider' = IF provider.there /\ status # c.status
                      THEN [provider EXCEPT !.status = status] ELSE provider
     /\ tested' = IF c.ok THEN c.vault ELSE tested
     /\ synced' = "no" /\ UNCHANGED <<keyRows, signed>>

(* Mutated: a second row for an identifier is accepted. *)
generate_key_endsTwice(w) ==
  LET c == call[w]
  IN /\ Finish(w, "generate")
     /\ keyRows' = IF c.ok THEN WithRow(NextRow(DOMAIN keyRows), [key |-> c.key, pub |-> PublicOf(c.key)])
                ELSE keyRows
     /\ synced' = "no" /\ UNCHANGED <<provider, tested, signed>>

(* The identifiers of a provider are unique: a row that a sync added       *)
(* meanwhile makes the insertion fail.                                     *)
generate_key_ends(w) ==
  LET c == call[w]
  IN /\ Finish(w, "generate")
     /\ keyRows' = IF c.ok /\ ~Stored(c.key)
                  THEN WithRow(NextRow(DOMAIN keyRows), [key |-> c.key, pub |-> PublicOf(c.key)])
                ELSE keyRows
     /\ synced' = "no" /\ UNCHANGED <<provider, tested, signed>>

delete_key_ends(w) ==
  LET c == call[w]
  IN /\ Finish(w, "delete")
     /\ keyRows' = IF c.ok THEN [r \in DOMAIN keyRows \ {c.row} |-> keyRows[r]] ELSE keyRows
     /\ synced' = "no" /\ UNCHANGED <<provider, tested, signed>>

get_public_key_ends(w) ==
  LET c == call[w]
  IN /\ Finish(w, "public")
     /\ keyRows' = IF c.ok /\ c.row \in DOMAIN keyRows THEN [keyRows EXCEPT ![c.row].pub = c.used.n] ELSE keyRows
     /\ synced' = "no" /\ UNCHANGED <<provider, tested, signed>>

sign_ends(w) ==
  LET c == call[w]
  IN /\ Finish(w, "sign")
     /\ signed' = IF c.ok THEN <<c.key, c.used>> ELSE signed
     /\ synced' = "no" /\ UNCHANGED <<provider, keyRows, tested>>

(* The rows of new keys, numbered after all others. *)
AddedRows(keys, kept) ==
  LET new == {k \in keys : ~Stored(k)}
      Row(k) == NextRow(DOMAIN keyRows) + Cardinality({j \in new : j.n < k.n})
  IN [r \in DOMAIN kept \cup {Row(k) : k \in new} |->
        IF r \in DOMAIN kept THEN kept[r] ELSE [key |-> CHOOSE k \in new : Row(k) = r, pub |-> 0]]

(* Mutated: rows whose key is gone stay. *)
sync_keys_endsAdding(w) ==
  LET c == call[w]
  IN /\ Finish(w, "sync")
     /\ keyRows' = IF c.ok THEN AddedRows(c.keys, keyRows) ELSE keyRows
     /\ synced' = IF c.ok /\ synced = "running" THEN "done" ELSE "no"
     /\ UNCHANGED <<provider, tested, signed>>

(* The rows are read after the listing arrived. *)
sync_keys_ends(w) ==
  LET c == call[w]
      kept == [r \in {r \in DOMAIN keyRows : keyRows[r].key \in c.keys} |-> keyRows[r]]
  IN /\ Finish(w, "sync")
     /\ keyRows' = IF c.ok THEN AddedRows(c.keys, kept) ELSE keyRows
     /\ synced' = IF c.ok /\ synced = "running" THEN "done" ELSE "no"
     /\ UNCHANGED <<provider, tested, signed>>

(* The tools of the device make and destroy keys beside the program. *)
Outside(v, label) ==
  /\ Request /\ NoneBlocks
  /\ \/ /\ Cardinality(made) < MaxKeys
        /\ LET k == [n |-> Cardinality(made) + 1, label |-> label, vault |-> v]
           IN made' = made \cup {k} /\ device' = device \cup {k}
     \/ /\ \E k \in device : k.vault = v /\ k.label = label /\ device' = device \ {k}
        /\ UNCHANGED made
  /\ synced' = "no"
  /\ UNCHANGED <<type, provider, keyRows, call, tested, signed>>

HsmNext ==
  \/ \E v \in Vaults : create_provider(v) \/ update_provider(v)
  \/ delete_provider
  \/ \E v \in Vaults, label \in Labels : Outside(v, label)
  \/ \E w \in HsmWorker :
       \/ test_provider(w) \/ sync_keys(w)
       \/ \E label \in Labels : generate_key(w, label)
       \/ \E r \in DOMAIN keyRows : delete_key(w, r) \/ get_public_key(w, r) \/ sign(w, r)
       \/ Device(w) \/ Unreachable(w)
       \/ test_provider_ends(w) \/ generate_key_ends(w) \/ delete_key_ends(w)
       \/ get_public_key_ends(w) \/ sign_ends(w) \/ sync_keys_ends(w)

HsmSpec == HsmInit /\ [][HsmNext]_hsmVars

----------------------------------------------------------------------------
(* Types, with the unique identifiers of the rows (models/hsm.py,          *)
(* uq_hsm_key_provider_identifier), whatever generations and syncs do at   *)
(* the same time.                                                          *)
HsmTypeOK ==
  /\ provider.vault \in Vaults /\ provider.status \in {"unknown", "connected", "error"}
  /\ device \subseteq made /\ Cardinality(made) <= MaxKeys
  /\ \A r \in DOMAIN keyRows : keyRows[r].key \in made /\ keyRows[r].pub \in 0..MaxKeys
  /\ \A r, q \in DOMAIN keyRows : keyRows[r].key = keyRows[q].key => r = q

(* A sync that ran alone leaves no row of a key that the configured vault  *)
(* does not hold, whatever was lost before: a deletion whose answer never  *)
(* came, keys destroyed with other tools, rows of the vault of an earlier  *)
(* configuration (HsmService.sync_keys).  Of an Azure vault it leaves a    *)
(* row for the present version of every key on a curve.                    *)
SyncExact ==
  synced = "done" =>
    /\ \A r \in DOMAIN keyRows : keyRows[r].key \in device /\ keyRows[r].key.vault = provider.vault
    /\ type = "azure-keyvault" =>
         \A k \in device : k.vault = provider.vault /\ k.label \in EcLabels /\ Latest(k)
                            => \E r \in DOMAIN keyRows : keyRows[r].key = k

(* On a token, a row signs with the key it stands for and shows the public *)
(* part of that key, also when labels repeat, rows are deleted and         *)
(* numbered again, and the config moves to another token and back          *)
(* (Pkcs11Provider.sign, get_public_key).                                  *)
KeyOfItsRow ==
  type = "pkcs11" =>
    /\ signed # << >> => signed[1] = signed[2]
    /\ \A r \in DOMAIN keyRows : keyRows[r].pub \in {0, keyRows[r].key.n}

(* Without a provider there are no rows of its keys, so a new provider,    *)
(* which may get the number of the old one, inherits none                  *)
(* (HsmService.delete_provider).                                           *)
RowsOwned == type # "azure-keyvault" /\ keyRows # << >> => provider.there

(* A provider shown as connected was reached with the configuration it has *)
(* now (HsmService.test_provider, update_provider).                        *)
StatusTested ==
  type # "azure-keyvault" /\ provider.there /\ provider.status = "connected"
    => tested = provider.vault

(* What is shown of a device is so: after a sync no row is of a key that   *)
(* is gone, a row uses its own key, the rows belong to a provider, and one *)
(* shown as connected was reached as it is configured now.                 *)
DeviceShown == SyncExact /\ KeyOfItsRow /\ RowsOwned /\ StatusTested
====
