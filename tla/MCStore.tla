------------------------------ MODULE MCStore ------------------------------
(* The store in parts that share the properties: the keys of two CAs and   *)
(* one certificate with encryption on and off; the same with revocation;   *)
(* the accounts; the other tables; the links of imported certificates; and *)
(* the keys in hardware.                                                   *)
(* In each part the rest stays as it began.                                *)
EXTENDS Backup, ChainLinks, Hsm

CONSTANTS a1, a2, h1, h2
VARIABLE part

StoreInit ==
  /\ BackupInit /\ LinkInit /\ HsmInit
  /\ part \in {"keys", "revoked", "accounts", "tables", "links", "hsm"}
  /\ part # "hsm" => type = "pkcs11"

Quiet == CASE part = "keys" -> pairs' <= 2 /\ (\A l \in Leaf : ~rows'[l].revoked) /\ UNCHANGED accountVars
           [] part = "revoked" -> UNCHANGED <<accountVars, masters, envKey>>
           [] part = "accounts" -> UNCHANGED <<pairs, masters, envKey, tables>>
           [] part = "tables" -> UNCHANGED <<pairs, masters, envKey, people, acmeUsed>>

StoreNext ==
  /\ UNCHANGED part
  /\ \/ part \notin {"links", "hsm"} /\ BackupNext /\ Quiet /\ UNCHANGED <<linkVars, hsmVars>>
     \/ part = "links" /\ LinkNext /\ UNCHANGED <<allVars, hsmVars>>
     \/ part = "hsm" /\ HsmNext /\ UNCHANGED <<allVars, linkVars>>

StoreSpec == StoreInit /\ [][StoreNext]_<<allVars, linkVars, hsmVars, part>>

StoreSymmetry == Permutations({a1, a2}) \cup Permutations({h1, h2})

----------------------------------------------------------------------------
(* The rows of keys, accounts and hardware have their types. *)
StoreTypeOK == VaultTypeOK /\ HsmTypeOK

(* An imported row has the key of its certificate, its link names a CA     *)
(* that is there, through deletions and merges, and one repair makes every *)
(* link there is.                                                          *)
LinksSound == LinkTypeOK /\ KeyOfRow /\ LinksResolve /\ RepairComplete

(* Neither a merge of rows nor the writing of files replaces a key by      *)
(* another or by none.                                                     *)
KeysKept == KeysSurviveRepair /\ FilesFaithful

----------------------------------------------------------------------------
(* A root, the certificate its new key got from the old one, a CA below    *)
(* the root and a certificate of that CA.                                  *)
Cert(subject, issuer, pair, signer, ca) ==
  [subject |-> subject, issuer |-> issuer, pair |-> pair, signer |-> signer, ca |-> ca]
MCShape == [root       |-> Cert("R", "R", 1, 1, TRUE),
            newWithOld |-> Cert("R", "R", 2, 1, TRUE),
            sub        |-> Cert("I", "R", 3, 1, TRUE),
            leaf       |-> Cert("L", "I", 4, 3, FALSE)]
MCUuid == [root |-> -1, newWithOld |-> -2, sub |-> -3, leaf |-> -4]

C(c) == [type |-> "cert", cert |-> c]
K(k) == [type |-> "key", pair |-> k]
Q(k) == [type |-> "csr", pair |-> k]
MCFiles == {<<C("sub")>>, <<C("leaf"), C("sub"), C("root")>>, <<C("root"), C("sub"), K(1)>>,
            <<C("newWithOld"), K(2), Q(2)>>, <<K(4), C("sub"), C("leaf"), K(3)>>}
====
