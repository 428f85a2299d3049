------------------------------ MODULE KeyVault ------------------------------
(***************************************************************************)
(* Where the private keys of CAs and certificates are: in the rows of the  *)
(* database, in the clear or sealed under the master key, and in the key   *)
(* files; and the operations that write, seal, open and use them           *)
(* (security/encryption.py, ca_service.py, cert_service.py, cas.py,        *)
(* certificates.py, csrs.py, file_regen_service.py).                       *)
(*                                                                         *)
(* A key pair is a number; a certificate or a request is the number of the *)
(* pair it certifies. A stored text holds a pair, or 0 when it is no key.  *)
(* The field mixed is history: the certificate or request and the key of   *)
(* the row were given by somebody in two uploads nothing compared.         *)
(***************************************************************************)
EXTENDS Naturals, FiniteSets, TLC

CONSTANTS Authority, Leaf,   (* the references (uuid) of CAs and certificates *)
          MaxPair,           (* key pairs ever generated *)
          MaxMaster          (* master keys ever generated *)

ASSUME VaultDistinct == Authority \cap Leaf = {} /\ MaxPair \in Nat /\ MaxMaster \in Nat

VARIABLES rows, keyFiles, pairs, masterFile, masters, envKey, loaded, safeMode, copy, busy

vaultVars == <<rows, keyFiles, pairs, masterFile, masters, envKey, loaded, safeMode, copy, busy>>
masterVars == <<masterFile, masters, envKey, loaded, safeMode, copy, busy>>

Refid == Authority \cup Leaf
EnvMaster == MaxMaster + 1
Cipher == MaxPair + 1          (* what a key file holds that is not a key *)

NoText == [form |-> "none", pair |-> 0, by |-> 0]
Clear(p) == [form |-> "clear", pair |-> p, by |-> 0]
Sealed(p, k) == [form |-> "sealed", pair |-> p, by |-> k]

NoRow == [is |-> "unused", csr |-> 0, crt |-> 0, prv |-> NoText, caref |-> "", revoked |-> FALSE, mixed |-> FALSE]
There(r) == rows[r].is = "there"
Cas == {c \in Authority : There(c)}

VaultInit ==
  /\ rows = [r \in Refid |-> NoRow]
  /\ keyFiles = [r \in Refid |-> 0]
  /\ pairs = 0
  /\ masterFile = 0 /\ masters = 0 /\ loaded = 0 /\ copy = 0
  /\ envKey = 0
  /\ safeMode = FALSE
  /\ busy = "no"

(* The key a start would load: the file is preferred to the environment. *)
AtRest == IF masterFile # 0 THEN masterFile ELSE envKey

Opens(t, k) == t.form = "clear" \/ (t.form = "sealed" /\ k # 0 /\ t.by = k)
encrypt(t, k) == IF k = 0 \/ t.form # "clear" THEN t ELSE Sealed(t.pair, k)
decrypt(t, k) == IF t.form = "sealed" /\ Opens(t, k) THEN Clear(t.pair) ELSE t

(* Requests of the interface: none while a longer one runs, none in safe mode. *)
Open == busy = "no" /\ ~safeMode

NewPair(p) == p = pairs + 1 /\ p <= MaxPair /\ pairs' = p
Write(r, row) == rows' = [rows EXCEPT ![r] = row]

(* A key is loaded as PEM: by the callers that open it first, and by those  *)
(* that take the text of the row as it is.                                  *)
Signs(c) == c \in Cas /\ Opens(rows[c].prv, loaded) /\ rows[c].prv.pair # 0
SignsAsStored(c) == c \in Cas /\ rows[c].prv.form = "clear" /\ rows[c].prv.pair # 0

----------------------------------------------------------------------------
(* Certificate authorities. *)

create_internal_ca(c, parent) ==
  /\ Open /\ rows[c].is = "unused"
  /\ parent = "" \/ Signs(parent)
  /\ \E p \in 1..MaxPair :
       /\ NewPair(p)
       /\ Write(c, [NoRow EXCEPT !.is = "there", !.crt = p, !.prv = encrypt(Clear(p), loaded), !.caref = parent])
       /\ keyFiles' = [keyFiles EXCEPT ![c] = p]
  /\ UNCHANGED masterVars

ImportedKey(old, p, keyed) == IF keyed THEN Clear(p) ELSE old

import_ca(c, keyed) ==
  /\ Open /\ rows[c].is = "unused"
  /\ \E p \in 1..MaxPair :
       /\ NewPair(p)
       /\ Write(c, [NoRow EXCEPT !.is = "there", !.crt = p, !.prv = ImportedKey(NoText, p, keyed)])
  /\ UNCHANGED <<masterVars, keyFiles>>

(* A certificate of the same subject replaces the one that is there; the   *)
(* old key stays when the file has none.                                   *)
import_existing_ca(c, keyed) ==
  /\ Open /\ c \in Cas
  /\ \E p \in 1..MaxPair :
       /\ NewPair(p)
       /\ Write(c, [rows[c] EXCEPT !.crt = p, !.prv = ImportedKey(@, p, keyed), !.mixed = ~keyed])
  /\ UNCHANGED <<masterVars, keyFiles>>

(* Mutated: only the CAs below it are looked at. *)
delete_caOfChildren(c) ==
  /\ Open /\ c \in Cas
  /\ \A d \in Cas : rows[d].caref # c
  /\ Write(c, [NoRow EXCEPT !.is = "deleted"])
  /\ UNCHANGED <<masterVars, keyFiles, pairs>>

Children(c) == {d \in Cas : rows[d].caref = c}
Issued(c) == {l \in Leaf : There(l) /\ rows[l].caref = c}
delete_ca(c) ==
  /\ Open /\ c \in Cas
  /\ Children(c) = {} /\ Issued(c) = {}
  /\ Write(c, [NoRow EXCEPT !.is = "deleted"])
  /\ UNCHANGED <<masterVars, keyFiles, pairs>>

----------------------------------------------------------------------------
(* Certificates and requests. *)

create_certificate(l, c) ==
  /\ Open /\ rows[l].is = "unused" /\ SignsAsStored(c)
  /\ \E p \in 1..MaxPair :
       /\ NewPair(p)
       /\ Write(l, [NoRow EXCEPT !.is = "there", !.crt = p, !.prv = Clear(p), !.caref = c])
  /\ UNCHANGED <<masterVars, keyFiles>>

create_mtls_certificate(l, c) ==
  /\ Open /\ rows[l].is = "unused" /\ Signs(c)
  /\ \E p \in 1..MaxPair :
       /\ NewPair(p)
       /\ Write(l, [NoRow EXCEPT !.is = "there", !.crt = p, !.prv = encrypt(Clear(p), loaded), !.caref = c])
       /\ keyFiles' = [keyFiles EXCEPT ![l] = p]
  /\ UNCHANGED masterVars

import_certificate(l, keyed) ==
  /\ Open /\ rows[l].is = "unused"
  /\ \E p \in 1..MaxPair, c \in {""} \cup Cas :
       /\ NewPair(p)
       /\ Write(l, [NoRow EXCEPT !.is = "there", !.crt = p, !.prv = ImportedKey(NoText, p, keyed), !.caref = c])
  /\ UNCHANGED <<masterVars, keyFiles>>

generate_csr(l) ==
  /\ Open /\ rows[l].is = "unused"
  /\ \E p \in 1..MaxPair :
       /\ NewPair(p)
       /\ Write(l, [NoRow EXCEPT !.is = "there", !.csr = p, !.prv = Clear(p)])
       /\ keyFiles' = [keyFiles EXCEPT ![l] = p]
  /\ UNCHANGED masterVars

upload_csr(l) ==
  /\ Open /\ rows[l].is = "unused"
  /\ \E p \in 1..MaxPair : NewPair(p) /\ Write(l, [NoRow EXCEPT !.is = "there", !.csr = p])
  /\ UNCHANGED <<masterVars, keyFiles>>

(* Nothing compares the key with the request. *)
upload_csr_private_key(l, q) ==
  /\ Open /\ There(l) /\ rows[l].csr # 0 /\ rows[l].crt = 0
  /\ rows[l].prv = NoText
  /\ Write(l, [rows[l] EXCEPT !.prv = encrypt(Clear(q), loaded), !.mixed = TRUE])
  /\ UNCHANGED <<masterVars, keyFiles, pairs>>

upload_private_key(l, q) ==
  /\ Open /\ There(l) /\ rows[l].prv = NoText
  /\ rows[l].crt # 0 => q = rows[l].crt
  /\ Write(l, [rows[l] EXCEPT !.prv = encrypt(Clear(q), loaded), !.mixed = (rows[l].crt = 0)])
  /\ UNCHANGED <<masterVars, keyFiles, pairs>>

sign_csr(l, c) ==
  /\ Open /\ There(l) /\ rows[l].csr # 0 /\ rows[l].crt = 0
  /\ SignsAsStored(c)
  /\ Write(l, [rows[l] EXCEPT !.crt = rows[l].csr, !.caref = c])
  /\ UNCHANGED <<masterVars, keyFiles, pairs>>

(* The CA of the row or, in the single request, one with the issuer's name. *)
renew_certificate(l, c) ==
  /\ Open /\ There(l) /\ rows[l].crt # 0
  /\ rows[l].caref = c \/ rows[l].caref \notin Cas
  /\ SignsAsStored(c)
  /\ \E p \in 1..MaxPair :
       /\ NewPair(p)
       /\ Write(l, [rows[l] EXCEPT !.crt = p, !.prv = Clear(p), !.revoked = FALSE, !.mixed = FALSE])
  /\ UNCHANGED <<masterVars, keyFiles>>

bulk_renew_certificates(l) ==
  /\ rows[l].caref \in Cas
  /\ renew_certificate(l, rows[l].caref)

revoke_certificate(l) ==
  /\ Open /\ There(l) /\ rows[l].crt # 0 /\ ~rows[l].revoked
  /\ Write(l, [rows[l] EXCEPT !.revoked = TRUE])
  /\ UNCHANGED <<masterVars, keyFiles, pairs>>

delete_certificate(l) ==
  /\ Open /\ There(l)
  /\ Write(l, [NoRow EXCEPT !.is = "deleted"])
  /\ UNCHANGED <<masterVars, keyFiles, pairs>>

bulk_delete_certificates(S) ==
  /\ Open /\ S # {} /\ \A l \in S : There(l)
  /\ rows' = [r \in Refid |-> IF r \in S THEN [NoRow EXCEPT !.is = "deleted"] ELSE rows[r]]
  /\ UNCHANGED <<masterVars, keyFiles, pairs>>

(* Every request of the list is signed by itself; those already signed and *)
(* those without data are left out.                                        *)
Signable(S) == {l \in S : There(l) /\ rows[l].csr # 0 /\ rows[l].crt = 0}
bulk_sign_csrs(S, c) ==
  /\ Open /\ SignsAsStored(c) /\ Signable(S) # {}
  /\ rows' = [r \in Refid |-> IF r \in Signable(S) THEN [rows[r] EXCEPT !.crt = rows[r].csr, !.caref = c] ELSE rows[r]]
  /\ UNCHANGED <<masterVars, keyFiles, pairs>>

(* A request is deleted with its files. *)
delete_csr(l) ==
  /\ Open /\ There(l)
  /\ Write(l, [NoRow EXCEPT !.is = "deleted"])
  /\ keyFiles' = [keyFiles EXCEPT ![l] = 0]
  /\ UNCHANGED <<masterVars, pairs>>

----------------------------------------------------------------------------
(* The master key. *)

(* Mutated: the certificates are forgotten. *)
decrypt_all_keysOfCas(k) == [r \in Refid |-> IF r \in Authority THEN [rows[r] EXCEPT !.prv = decrypt(@, k)] ELSE rows[r]]

encrypt_all_keys(k) == [r \in Refid |-> [rows[r] EXCEPT !.prv = encrypt(@, k)]]
decrypt_all_keys(k) == [r \in Refid |-> [rows[r] EXCEPT !.prv = decrypt(@, k)]]

Unopened(k) == {r \in Refid : rows[r].prv.form = "sealed" /\ ~Opens(rows[r].prv, k)}

enable_encryption ==
  /\ Open /\ loaded = 0 /\ masters < MaxMaster
  /\ masters' = masters + 1
  /\ masterFile' = masters'
  /\ busy' = "enabling"
  /\ UNCHANGED <<rows, keyFiles, pairs, envKey, loaded, safeMode, copy>>

enable_encryption_seals ==
  /\ busy = "enabling"
  /\ loaded' = AtRest
  /\ rows' = encrypt_all_keys(AtRest)
  /\ busy' = "no"
  /\ UNCHANGED <<keyFiles, pairs, masterFile, masters, envKey, safeMode, copy>>

(* What can be opened is stored in the clear; the rest keeps the key in use. *)
disable_encryption ==
  /\ Open /\ loaded # 0
  /\ rows' = decrypt_all_keys(loaded)
  /\ busy' = IF Unopened(loaded) = {} THEN "disabling" ELSE "no"
  /\ UNCHANGED <<keyFiles, pairs, masterFile, masters, envKey, loaded, safeMode, copy>>

disable_encryption_unloads ==
  /\ busy = "disabling"
  /\ masterFile' = 0
  /\ loaded' = envKey
  /\ busy' = "no"
  /\ UNCHANGED <<rows, keyFiles, pairs, masters, envKey, safeMode, copy>>

encrypt_all ==
  /\ Open /\ loaded # 0
  /\ rows' = encrypt_all_keys(loaded)
  /\ UNCHANGED <<masterVars, keyFiles, pairs>>

has_encrypted_keys_in_db == \E r \in Refid : rows[r].prv.form = "sealed"

(* Mutated: the key is written as it is stored. *)
regenerate_all_filesAsStored(k) ==
  [r \in Refid |->
     IF keyFiles[r] = 0 /\ rows[r].prv.form # "none"
     THEN IF rows[r].prv.pair = 0 \/ rows[r].prv.form = "sealed" THEN Cipher ELSE rows[r].prv.pair
     ELSE keyFiles[r]]

regenerate_all_files(k) ==
  [r \in Refid |->
     IF keyFiles[r] = 0 /\ rows[r].prv.form # "none" /\ Opens(rows[r].prv, k)
     THEN IF rows[r].prv.pair = 0 THEN Cipher ELSE rows[r].prv.pair
     ELSE keyFiles[r]]

(* A stop at any point, and the next start. *)
Restart ==
  /\ loaded' = AtRest
  /\ safeMode' = (AtRest = 0 /\ has_encrypted_keys_in_db)
  /\ keyFiles' = regenerate_all_files(AtRest)
  /\ busy' = "no"
  /\ UNCHANGED <<rows, pairs, masterFile, masters, envKey, copy>>

(* The host: the key file is lost with its volume or put back from a copy, *)
(* a key is put into the environment.                                      *)
LoseKeyFile == masterFile # 0 /\ busy = "no" /\ copy = 0 /\ copy' = masterFile /\ masterFile' = 0
               /\ UNCHANGED <<rows, keyFiles, pairs, masters, envKey, loaded, safeMode, busy>>
ReturnKeyFile == masterFile = 0 /\ busy = "no" /\ copy # 0 /\ masterFile' = copy
                 /\ UNCHANGED <<rows, keyFiles, pairs, masters, envKey, loaded, safeMode, copy, busy>>
SetEnv == envKey = 0 /\ busy = "no" /\ envKey' = EnvMaster
          /\ UNCHANGED <<rows, keyFiles, pairs, masterFile, masters, loaded, safeMode, copy, busy>>

CaStep ==
  \E c \in Authority :
    \/ \E parent \in {""} \cup Authority : create_internal_ca(c, parent)
    \/ \E keyed \in BOOLEAN : import_ca(c, keyed) \/ import_existing_ca(c, keyed)
    \/ delete_ca(c)
LeafStep ==
  \/ \E l \in Leaf :
       \/ \E c \in Authority : create_certificate(l, c) \/ create_mtls_certificate(l, c) \/ sign_csr(l, c) \/ renew_certificate(l, c)
       \/ \E keyed \in BOOLEAN : import_certificate(l, keyed)
       \/ generate_csr(l) \/ upload_csr(l) \/ bulk_renew_certificates(l) \/ delete_certificate(l) \/ delete_csr(l)
       \/ \E q \in 1..pairs : upload_csr_private_key(l, q) \/ upload_private_key(l, q)
  \/ \E S \in SUBSET Leaf, c \in Authority : bulk_sign_csrs(S, c)
  \/ \E S \in SUBSET Leaf : bulk_delete_certificates(S)
MasterStep ==
  \/ enable_encryption \/ disable_encryption \/ encrypt_all
HostStep == LoseKeyFile \/ ReturnKeyFile \/ SetEnv
====
