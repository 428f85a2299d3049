------------------------------- MODULE Backup -------------------------------
(***************************************************************************)
(* Backup and restore (services/backup_service.py, api/v2/system.py): what *)
(* an archive holds of the rows of KeyVault and of the accounts, and how a *)
(* restore writes it back in two transactions with the key files between   *)
(* them. Users are matched by name and numbered by the database; members   *)
(* of groups and owners of API keys are stored by number.                  *)
(***************************************************************************)
EXTENDS KeyVault, FiniteSetsExt

CONSTANTS Person, MaxId

ASSUME BackupAssumption == IsFiniteSet(Person) /\ MaxId \in Nat

VARIABLES people,    (* the number of a user, 0 when there is none *)
          members,   (* numbers of the members of a group *)
          apiKey,    (* owner (a number, 0: no row) and state of an API key *)
          acmeUsed,  (* some ACME account exists *)
          tables,    (* versions of a row of the other tables, 0: none *)
          archive,   (* the backup file *)
          first      (* the database when a restore was first tried *)

accountVars == <<people, members, apiKey, acmeUsed, tables>>
Table == {"settings", "named", "configs"}
backupVars == <<archive, first>>
allVars == <<vaultVars, accountVars, backupVars>>

NoArchive == [made |-> FALSE, rows |-> <<>>, people |-> {}, members |-> {}, apiKey |-> [owner |-> 0, active |-> FALSE],
              tables |-> [t \in Table |-> 0]]
NoFirst == [tried |-> FALSE, rows |-> <<>>, people |-> <<>>, members |-> {}, apiKey |-> [owner |-> 0, active |-> FALSE],
            tables |-> [t \in Table |-> 0]]

BackupInit ==
  /\ VaultInit
  /\ people = [q \in Person |-> 0] /\ members = {} /\ acmeUsed = FALSE
  /\ apiKey = [owner |-> 0, active |-> FALSE]
  /\ tables = [t \in Table |-> 0]
  /\ archive = NoArchive /\ first = NoFirst

Ids(f) == {f[q] : q \in Person} \ {0}
NextId(f) == 1 + (IF Ids(f) = {} THEN 0 ELSE Max(Ids(f)))

----------------------------------------------------------------------------
(* The text of a key goes into the archive opened or, when it cannot be,   *)
(* as it is stored: no key any more.                                       *)
ExportedKey(t) ==
  IF t.form = "none" THEN NoText
  ELSE IF Opens(t, loaded) THEN Clear(t.pair) ELSE Clear(0)

_export_certificates ==
  [r \in {x \in Refid : There(x)} |->
     [crt |-> rows[r].crt, prv |-> ExportedKey(rows[r].prv), caref |-> rows[r].caref, mixed |-> rows[r].mixed]]

_export_users == {q \in Person : people[q] # 0}
_export_groups == members
_export_api_keys == apiKey
_export_named == tables["named"]
_export_configs == tables["configs"]
_export_configuration == tables["settings"]

(* The export of an ACME account reads columns the row does not have. *)
_export_acme_accounts == ~acmeUsed

create_backup ==
  /\ Open /\ _export_acme_accounts /\ ~archive.made
  /\ archive' = [made |-> TRUE, rows |-> _export_certificates, people |-> _export_users,
                 members |-> _export_groups, apiKey |-> _export_api_keys,
                 tables |-> [settings |-> _export_configuration, named |-> _export_named, configs |-> _export_configs]]
  /\ first' = NoFirst
  /\ UNCHANGED <<vaultVars, accountVars>>

----------------------------------------------------------------------------
(* The parts of a restore, as functions of the database they are given.    *)

(* Mutated: a key is replaced only by a key. *)
RestoredRowKeepingKey(a, r, old) ==
  LET prv == encrypt(a.rows[r].prv, loaded) IN
  IF old.is = "there"
  THEN [old EXCEPT !.crt = a.rows[r].crt, !.prv = IF prv = NoText THEN @ ELSE prv, !.mixed = a.rows[r].mixed]
  ELSE [NoRow EXCEPT !.is = "there", !.crt = a.rows[r].crt, !.prv = prv, !.caref = a.rows[r].caref, !.mixed = a.rows[r].mixed]

RestoredRow(a, r, old) ==
  LET prv == encrypt(a.rows[r].prv, loaded) IN
  IF old.is = "there" THEN [old EXCEPT !.crt = a.rows[r].crt, !.prv = prv, !.mixed = a.rows[r].mixed]
  ELSE [NoRow EXCEPT !.is = "there", !.crt = a.rows[r].crt, !.prv = prv, !.caref = a.rows[r].caref, !.mixed = a.rows[r].mixed]

RestoredRows(a, old) ==
  [r \in Refid |-> IF r \in DOMAIN a.rows THEN RestoredRow(a, r, old[r]) ELSE old[r]]

(* Mutated: every user of the archive is added. *)
RestoredPeopleAnew(a, old) ==
  LET Rank == CHOOSE f \in [a.people -> 1..Cardinality(a.people)] : \A x, y \in a.people : x # y => f[x] # f[y]
  IN [q \in Person |-> IF q \in a.people THEN NextId(old) + Rank[q] - 1 ELSE old[q]]

(* Users that are missing are added, each under the next number. *)
RestoredPeople(a, old) ==
  LET missing == {q \in a.people : old[q] = 0}
      Rank == CHOOSE f \in [missing -> 1..Cardinality(missing)] : \A x, y \in missing : x # y => f[x] # f[y]
  IN [q \in Person |-> IF q \in missing THEN NextId(old) + Rank[q] - 1 ELSE old[q]]

RestoredMembers(a, old) == old \cup a.members

RestoredApiKey(a, old) ==
  IF a.apiKey.owner = 0 THEN old
  ELSE IF old.owner # 0 THEN [old EXCEPT !.active = a.apiKey.active] ELSE a.apiKey

(* Settings, the tables whose rows are found by name or fingerprint (roles, *)
(* templates, trust store, providers, HSMs) and the configuration of mail,  *)
(* notifications, policies and domains: the archive's version wins.         *)
RestoredSettings(a, old) == IF a.tables["settings"] = 0 THEN old ELSE [old EXCEPT !["settings"] = a.tables["settings"]]
RestoredNamed(a, old) == IF a.tables["named"] = 0 THEN old ELSE [old EXCEPT !["named"] = a.tables["named"]]
RestoredConfigs(a, old) == IF a.tables["configs"] = 0 THEN old ELSE [old EXCEPT !["configs"] = a.tables["configs"]]
RestoredTables(a, old) == RestoredConfigs(a, RestoredNamed(a, RestoredSettings(a, old)))

(* Key files are written from the rows as they are stored. *)
RestoredFiles ==
  [r \in Refid |-> CASE rows[r].prv.form = "none" -> keyFiles[r]
                     [] rows[r].prv.form = "clear" /\ rows[r].prv.pair # 0 -> rows[r].prv.pair
                     [] OTHER -> Cipher]

(* Up to the first commit. *)
restore_backup ==
  /\ Open /\ archive.made
  /\ first' = IF first.tried THEN first
              ELSE [tried |-> TRUE, rows |-> rows, people |-> people, members |-> members, apiKey |-> apiKey, tables |-> tables]
  /\ tables' = RestoredSettings(archive, tables)
  /\ rows' = RestoredRows(archive, rows)
  /\ people' = RestoredPeople(archive, people) /\ Ids(people') \subseteq 1..MaxId
  /\ busy' = "restoring"
  /\ UNCHANGED <<keyFiles, pairs, masterFile, masters, envKey, loaded, safeMode, copy,
                 members, apiKey, acmeUsed, archive>>

(* The files, and what the second transaction adds. *)
restore_rest ==
  /\ busy = "restoring"
  /\ keyFiles' = RestoredFiles
  /\ members' = RestoredMembers(archive, members)
  /\ apiKey' = RestoredApiKey(archive, apiKey)
  /\ tables' = RestoredConfigs(archive, RestoredNamed(archive, tables))
  /\ busy' = "restored"
  /\ UNCHANGED <<rows, pairs, masterFile, masters, envKey, loaded, safeMode, copy, people, acmeUsed, backupVars>>

restore_answer ==
  /\ busy = "restored"
  /\ busy' = "no" /\ first' = NoFirst
  /\ UNCHANGED <<rows, keyFiles, pairs, masterFile, masters, envKey, loaded, safeMode, copy,
                 accountVars, archive>>

----------------------------------------------------------------------------
(* Accounts, as far as an archive holds them. *)

create_user(q) ==
  /\ Open /\ people[q] = 0 /\ NextId(people) <= MaxId
  /\ people' = [people EXCEPT ![q] = NextId(people)]
  /\ UNCHANGED <<members, apiKey, acmeUsed, tables>>

(* No handler removes the row of a user: users.py deactivates it.  An       *)
(* archive is also restored elsewhere, on a database that lacks a user of   *)
(* it and what hangs on the user.                                           *)
ElsewhereLacks(q) ==
  /\ Open /\ people[q] # 0
  /\ people' = [people EXCEPT ![q] = 0]
  /\ members' = members \ {people[q]}
  /\ apiKey' = IF apiKey.owner = people[q] THEN [owner |-> 0, active |-> FALSE] ELSE apiKey
  /\ UNCHANGED <<acmeUsed, tables>>

add_group_member(q) ==
  /\ Open /\ people[q] # 0 /\ members' = members \cup {people[q]}
  /\ UNCHANGED <<people, apiKey, acmeUsed, tables>>
create_api_key(q) ==
  /\ Open /\ people[q] # 0 /\ apiKey.owner = 0 /\ apiKey' = [owner |-> people[q], active |-> TRUE]
  /\ UNCHANGED <<people, members, acmeUsed, tables>>
delete_api_key ==
  /\ Open /\ apiKey.active /\ apiKey' = [apiKey EXCEPT !.active = FALSE]
  /\ UNCHANGED <<people, members, acmeUsed, tables>>
new_acme_account == Open /\ ~acmeUsed /\ acmeUsed' = TRUE /\ UNCHANGED <<people, members, apiKey, tables>>

edit_table(t, v) ==
  /\ Open /\ tables[t] # v /\ tables' = [tables EXCEPT ![t] = v]
  /\ UNCHANGED <<people, members, apiKey, acmeUsed>>

AccountStep ==
  \/ \E q \in Person : create_user(q) \/ ElsewhereLacks(q) \/ add_group_member(q) \/ create_api_key(q)
  \/ delete_api_key \/ new_acme_account
  \/ \E t \in Table, v \in 0..2 : edit_table(t, v)

----------------------------------------------------------------------------
KeyStep ==
  \/ CaStep \/ LeafStep \/ MasterStep \/ HostStep \/ enable_encryption_seals \/ disable_encryption_unloads
  \/ \E l \in Leaf : revoke_certificate(l)

(* What runs on the rows while no restore is being repeated. *)
BackupNext ==
  \/ KeyStep /\ first' = NoFirst /\ UNCHANGED <<accountVars, archive>>
  \/ AccountStep /\ first' = NoFirst /\ UNCHANGED <<vaultVars, archive>>
  \/ Restart /\ UNCHANGED <<accountVars, backupVars>>
  \/ create_backup \/ restore_backup \/ restore_rest \/ restore_answer

BackupSpec == BackupInit /\ [][BackupNext]_allVars

----------------------------------------------------------------------------
Texts == {NoText} \cup {Clear(p) : p \in 0..MaxPair} \cup {Sealed(p, k) : p \in 0..MaxPair, k \in 1..EnvMaster}

HoldsNothing(row) ==
  row.csr = 0 /\ row.crt = 0 /\ row.prv = NoText /\ row.caref = "" /\ row.revoked = FALSE /\ row.mixed = FALSE

(* The rows, the files and the accounts are of their types; a row that is   *)
(* gone holds nothing.                                                      *)
VaultTypeOK ==
  /\ \A r \in Refid :
       /\ rows[r].is \in {"unused", "there", "deleted"}
       /\ rows[r].csr \in 0..MaxPair /\ rows[r].crt \in 0..MaxPair /\ rows[r].prv \in Texts
       /\ rows[r].caref \in {""} \cup Authority
       /\ ~There(r) => HoldsNothing(rows[r])
  /\ keyFiles \in [Refid -> 0..Cipher] /\ pairs \in 0..MaxPair
  /\ {masterFile, masters, copy} \subseteq 0..MaxMaster /\ {envKey, loaded} \subseteq 0..EnvMaster
  /\ busy \in {"no", "enabling", "disabling", "restoring", "restored"} /\ safeMode \in BOOLEAN
  /\ people \in [Person -> 0..MaxId] /\ \A x, y \in Person : x # y /\ people[x] # 0 => people[x] # people[y]
  /\ members \cup {apiKey.owner} \subseteq 0..MaxId

(* Encryption at rest never loses a key (system.py:665-773): whatever stops *)
(* the switch on or off, and whatever is restored meanwhile, a stored key   *)
(* opens with the master key the next start loads; after the loss of the    *)
(* key file it still opens with a master key somebody holds.                *)
KeysRecoverable ==
  \A r \in Refid :
    /\ copy = 0 => Opens(rows[r].prv, AtRest) \/ rows[r].prv.form = "none"
    /\ copy = 0 => (rows[r].prv.form = "none" \/ rows[r].prv.pair # 0)
    /\ rows[r].prv.form = "sealed" => rows[r].prv.by \in {masterFile, envKey, copy}

(* The key of a row is the key of its certificate, through issuing,         *)
(* renewing, sealing, opening, archiving and restoring                      *)
(* (backup_service.py:816-890): only halves uploaded one by one may differ. *)
KeysMatch ==
  \A r \in Refid :
    There(r) /\ ~rows[r].mixed /\ rows[r].crt # 0 /\ rows[r].prv.form # "none" /\ copy = 0
      => rows[r].prv.pair = rows[r].crt

(* The CA a row names exists, also after deletions and restores             *)
(* (cas.py:464-478, backup_service.py:840-889).                             *)
ChainsResolve == \A r \in Refid : There(r) => rows[r].caref \in {""} \cup Cas

(* What a row says of itself holds: its key is its certificate's, and the   *)
(* CA it names is there.                                                    *)
StoredRowsSound == KeysMatch /\ ChainsResolve

(* A restore that stopped between its two transactions can be repeated: the *)
(* database is then what one restore would have made of it                  *)
(* (backup_service.py:919-1348).                                            *)
RestoreRepeats ==
  busy = "restored" =>
    /\ rows = RestoredRows(archive, first.rows)
    /\ people = RestoredPeople(archive, first.people)
    /\ members = RestoredMembers(archive, first.members)
    /\ apiKey = RestoredApiKey(archive, first.apiKey)
    /\ tables = RestoredTables(archive, first.tables)

(* A key file that appears holds the key of its row, sealed or not          *)
(* (file_regen_service.py:58-66, 111-119); the restore alone writes what is *)
(* stored.                                                                  *)
FilesFaithful ==
  [][\A r \in Refid :
       keyFiles[r] = 0 /\ keyFiles'[r] # 0 /\ busy # "restoring" /\ rows'[r].prv.pair # 0
         => keyFiles'[r] = rows'[r].prv.pair]_allVars

====
