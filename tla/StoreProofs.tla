---------------------------- MODULE StoreProofs ----------------------------
(***************************************************************************)
(* What TLAPS proves about the store: private keys under a master key that *)
(* is switched on and off, lost and put back (KeyVault), archives and      *)
(* restores that stop half-way (Backup), keys in hardware (Hsm), and the   *)
(* links of imported rows to the CAs that issued them (ChainLinks).        *)
(***************************************************************************)
EXTENDS MCStore, FiniteSetTheorems, FunctionTheorems, WellFoundedInduction, TLAPS

----------------------------------------------------------------------------
(* Numbers.  Next numbers are one more than the largest in use.            *)

\* A set of naturals that is not empty has a least element.
LEMMA NatMin ==
  ASSUME NEW S, S \subseteq Nat, S # {}
  PROVE  \E x \in S : \A y \in S : x <= y
<1> DEFINE R == OpToRel(<, Nat)
<1>1. \E x \in S : \A y \in S : ~(<<y, x>> \in R)
  BY NatLessThanWellFounded, WFMin
<1>2. \A x, y \in Nat : y < x => <<y, x>> \in R
  BY DEF OpToRel
<1> HIDE DEF R
<1>3. PICK x \in S : \A y \in S : ~(<<y, x>> \in R)
  BY <1>1
<1>4. \A y \in S : ~(y < x)
  BY <1>2, <1>3
<1> QED
  BY <1>4

\* A bounded set of naturals that is not empty has a greatest element.
LEMMA NatMax ==
  ASSUME NEW b \in Nat, NEW S, S \subseteq 0 .. b, S # {}
  PROVE  \E x \in S : \A y \in S : y <= x
<1> DEFINE T == {b - x : x \in S}
<1>1. T \subseteq Nat
  <2>1. \A x \in S : b - x \in Nat
    OBVIOUS
  <2> QED
    BY <2>1
<1>2. PICK z \in S : TRUE
  OBVIOUS
<1>3. b - z \in T
  OBVIOUS
<1>4. T # {}
  BY <1>3
<1>5. \E m \in T : \A y \in T : m <= y
  <2> HIDE DEF T
  <2> QED
  BY <1>1, <1>4, NatMin
<1>6. PICK m \in T : \A y \in T : m <= y
  BY <1>5
<1>7. PICK x \in S : m = b - x
  OBVIOUS
<1>8. \A y \in S : y <= x
  <2> SUFFICES ASSUME NEW y \in S PROVE y <= x
    OBVIOUS
  <2>1. b - y \in T
    OBVIOUS
  <2>2. b - x <= b - y
    BY <1>6, <1>7, <2>1
  <2> QED
    BY <2>2
<1> QED
  BY <1>8

----------------------------------------------------------------------------
(* Texts, rows and master keys. *)

RowOf == [is : {"unused", "there", "deleted"}, csr : 0 .. MaxPair, crt : 0 .. MaxPair, prv : Texts,
          caref : {""} \cup Authority, revoked : BOOLEAN, mixed : BOOLEAN]

RowTyped(row) == row \in RowOf /\ (row.is # "there" => HoldsNothing(row))

\* A sealed text opens with a master key somebody holds and, before any loss,
\* with the one at rest.
Held(t) ==
  /\ t.form = "sealed" => t.by # 0 /\ t.by \in {masterFile, envKey, copy}
  /\ copy = 0 /\ t.form = "sealed" => t.by = AtRest
  /\ copy = 0 /\ t.form # "none" => t.pair # 0

\* The key is that of the certificate or, before there is one, of the request.
Fits(row) ==
  copy = 0 /\ row.prv.form # "none" /\ ~row.mixed =>
    /\ row.crt # 0 => row.prv.pair = row.crt
    /\ row.crt = 0 /\ row.csr # 0 => row.prv.pair = row.csr

RowFine(row) == RowTyped(row) /\ Held(row.prv) /\ Fits(row)
RowsFine == DOMAIN rows = Refid /\ \A r \in Refid : RowFine(rows[r])

NoneSealed == \A r \in Refid : rows[r].prv.form # "sealed"

MasterTypes ==
  /\ keyFiles \in [Refid -> 0 .. Cipher] /\ pairs \in 0 .. MaxPair
  /\ masterFile \in 0 .. MaxMaster /\ masters \in 0 .. MaxMaster /\ copy \in 0 .. MaxMaster
  /\ envKey \in {0, EnvMaster} /\ loaded \in 0 .. EnvMaster
  /\ busy \in {"no", "enabling", "disabling", "restoring", "restored"} /\ safeMode \in BOOLEAN

\* The key in use is at rest, or was; with none in use nothing is sealed.
MasterFine ==
  /\ loaded \in {0, masterFile, envKey, copy}
  /\ copy = 0 => loaded \in {0, AtRest}
  /\ loaded = 0 /\ ~safeMode => NoneSealed
  /\ busy # "no" => ~safeMode
  /\ busy = "enabling" => loaded = 0
  /\ busy = "disabling" => NoneSealed

\* What an archive holds of a row, and what the row is by now.
EntryFine(r, e) ==
  /\ e.crt \in 0 .. MaxPair /\ e.prv \in {NoText} \cup {Clear(p) : p \in 0 .. MaxPair} /\ e.mixed \in BOOLEAN
  /\ e.caref \in {""} \cup Authority /\ e.caref \in {""} \cup DOMAIN archive.rows
  /\ rows[r].is # "unused"
  /\ copy = 0 /\ e.prv.form # "none" => 
       /\ e.prv.pair # 0
       /\ ~e.mixed /\ e.crt # 0 => e.prv.pair = e.crt
       /\ ~e.mixed /\ e.crt = 0 /\ There(r) /\ rows[r].csr # 0 => e.prv.pair = rows[r].csr

ArchiveRows ==
  archive.made => /\ DOMAIN archive.rows \subseteq Refid
                  /\ \A r \in DOMAIN archive.rows : EntryFine(r, archive.rows[r])

VaultInv == RowsFine /\ MasterTypes /\ MasterFine /\ ArchiveRows /\ ChainsResolve

\* The ranges of pairs and master keys lie in one another as the texts need.
LEMMA Bounds ==
  /\ 0 \in 0 .. MaxPair /\ 0 \in 0 .. MaxMaster /\ 0 \in 0 .. EnvMaster /\ 0 \in 0 .. Cipher
  /\ \A p \in 1 .. MaxPair : p \in 0 .. MaxPair /\ p # 0
  /\ \A p \in 0 .. MaxPair : p \in 0 .. Cipher
<1>1. MaxPair \in Nat /\ MaxMaster \in Nat
  BY VaultDistinct
<1> QED
  BY <1>1 DEF Cipher, EnvMaster

\* A text is absent, clear, or sealed with a master key.
LEMMA TextsAre ==
  \A t : t \in Texts <=> \/ t = NoText
                         \/ \E p \in 0 .. MaxPair : t = Clear(p)
                         \/ \E p \in 0 .. MaxPair, k \in 1 .. EnvMaster : t = Sealed(p, k)
  BY DEF Texts

\* An absent row and a deleted one hold nothing.
LEMMA NoRowFine ==
  /\ RowTyped(NoRow) /\ RowTyped([NoRow EXCEPT !.is = "deleted"])
  /\ RowFine(NoRow) /\ RowFine([NoRow EXCEPT !.is = "deleted"])
<1>1. NoText \in Texts /\ NoText.form = "none" /\ 0 \in 0 .. MaxPair
  BY VaultDistinct DEF Texts, NoText
<1>2. RowTyped(NoRow) /\ RowTyped([NoRow EXCEPT !.is = "deleted"])
  BY <1>1 DEF RowTyped, RowOf, NoRow, HoldsNothing
<1> QED
  BY <1>1, <1>2 DEF RowFine, Held, Fits, NoRow

\* The invariant of rows and keys holds before the first operation.
LEMMA VaultInitInv == BackupInit => VaultInv
<1> SUFFICES ASSUME BackupInit PROVE VaultInv
  OBVIOUS
<1> USE DEF BackupInit, VaultInit
<1>1. RowsFine /\ NoneSealed
  BY NoRowFine DEF RowsFine, NoneSealed, NoRow, NoText
<1>2. MasterTypes
  <2>1. 0 \in 0 .. MaxMaster /\ 0 \in 0 .. EnvMaster /\ 0 \in 0 .. Cipher /\ 0 \in 0 .. MaxPair
    BY VaultDistinct DEF Cipher, EnvMaster
  <2> QED
    BY <2>1 DEF MasterTypes
<1>3. MasterFine
  <2>1. loaded = 0 /\ copy = 0 /\ busy = "no"
    OBVIOUS
  <2> HIDE DEF BackupInit, VaultInit
  <2> QED
    BY <1>1, <2>1 DEF MasterFine
<1>4. ArchiveRows
  BY DEF ArchiveRows, NoArchive
<1>5. ChainsResolve
  BY DEF ChainsResolve, There, NoRow
<1> QED
  BY <1>1, <1>2, <1>3, <1>4, <1>5 DEF VaultInv

----------------------------------------------------------------------------
(* A step of the rows. *)

\* A row is written over another: neither does a row that was used become
\* unused, nor does the request of a row change.
Follows(old, new) ==
  /\ old.is # "unused" => new.is # "unused"
  /\ old.is # "unused" /\ new.is = "there" /\ new.csr # 0 => old.is = "there" /\ new.csr = old.csr

\* A step on the rows alone, each of which may follow what it was, keeps the
\* invariant.
LEMMA RowStep ==
  ASSUME VaultInv, Open, busy' \in {"no", "restoring"}, MasterTypes', DOMAIN rows' = Refid,
         UNCHANGED <<masterFile, masters, envKey, loaded, safeMode, copy, archive>>,
         \A r \in Refid : RowFine(rows'[r]) /\ Follows(rows[r], rows'[r]),
         \A r \in Refid : rows'[r].prv.form = "sealed" => rows[r].prv.form = "sealed" \/ loaded # 0,
         ChainsResolve'
  PROVE  VaultInv'
<1>1. UNCHANGED <<masterFile, envKey, loaded, safeMode, copy, archive>> /\ ~safeMode
  BY DEF Open
<1>2. RowsFine'
  BY <1>1 DEF RowsFine, RowFine, Held, Fits, AtRest
<1>3. MasterFine'
  <2>1. NoneSealed /\ loaded = 0 => NoneSealed'
    BY DEF NoneSealed
  <2> QED
    BY <1>1, <2>1 DEF VaultInv, MasterFine, AtRest
<1>4. ArchiveRows'
  <2> SUFFICES ASSUME archive.made, NEW r \in DOMAIN archive.rows
               PROVE  EntryFine(r, archive.rows[r])'
    BY <1>1 DEF ArchiveRows, VaultInv
  <2>1. EntryFine(r, archive.rows[r]) /\ r \in Refid
    BY DEF VaultInv, ArchiveRows
  <2> QED
    BY <1>1, <2>1 DEF EntryFine, Follows, There
<1> QED
  BY <1>2, <1>3, <1>4 DEF VaultInv
\* One row is written.
LEMMA WriteStep ==
  ASSUME VaultInv, Open, UNCHANGED <<masterVars, archive>>, MasterTypes', NEW r \in Refid, NEW row,
         Write(r, row), RowFine(row), Follows(rows[r], row), row.is = "there", row.caref \in {""} \cup Cas,
         row.prv.form = "sealed" => rows[r].prv.form = "sealed" \/ loaded # 0
  PROVE  VaultInv'
<1>1. /\ DOMAIN rows' = Refid /\ rows'[r] = row
      /\ \A x \in Refid \ {r} : rows'[x] = rows[x]
  BY DEF VaultInv, RowsFine, Write
<1>2. \A x \in Refid : RowFine(rows'[x]) /\ Follows(rows[x], rows'[x])
  BY <1>1 DEF VaultInv, RowsFine, Follows
<1>3. ChainsResolve'
  <2>1. \A c \in Cas : c \in Cas'
    BY <1>1 DEF Cas, There, Refid
  <2> QED
    BY <1>1, <2>1 DEF VaultInv, ChainsResolve, There
<1>4. \A x \in Refid : rows'[x].prv.form = "sealed" => rows[x].prv.form = "sealed" \/ loaded # 0
  BY <1>1
<1>5. UNCHANGED <<masterFile, masters, envKey, loaded, safeMode, copy, archive>> /\ busy' = "no"
  BY DEF masterVars, Open
<1> QED
  BY <1>1, <1>2, <1>3, <1>4, <1>5, RowStep

\* Rows are deleted that none of the others names.
LEMMA DeleteStep ==
  ASSUME VaultInv, Open, UNCHANGED <<masterVars, archive>>, MasterTypes', NEW S \in SUBSET Refid, DOMAIN rows' = Refid,
         \A r \in S : rows'[r] = [NoRow EXCEPT !.is = "deleted"],
         \A r \in Refid \ S : rows'[r] = rows[r],
         \A r \in Refid \ S : There(r) => rows[r].caref \notin S \cap Authority \/ rows[r].caref = ""
  PROVE  VaultInv'
<1> DEFINE gone == [NoRow EXCEPT !.is = "deleted"]
<1>1. gone.is = "deleted" /\ gone.prv.form = "none"
  BY DEF NoRow, NoText
<1>2. RowFine(gone)
  BY NoRowFine
<1> HIDE DEF gone
<1>3. \A x \in Refid : RowFine(rows'[x]) /\ Follows(rows[x], rows'[x])
  BY <1>1, <1>2 DEF VaultInv, RowsFine, Follows, gone
<1>4. \A x \in Refid : rows'[x].prv.form = "sealed" => rows[x].prv.form = "sealed" \/ loaded # 0
  BY <1>1 DEF gone
<1>5. ChainsResolve'
  <2> SUFFICES ASSUME NEW r \in Refid, There(r)', rows'[r].caref # ""
               PROVE  rows'[r].caref \in Cas'
    BY DEF ChainsResolve
  <2>1. r \notin S /\ rows'[r] = rows[r]
    BY <1>1 DEF There, gone
  <2>2. rows[r].caref \in Cas
    BY <2>1 DEF VaultInv, ChainsResolve, There
  <2> QED
    BY <2>1, <2>2 DEF Cas, There, Refid
<1>6. UNCHANGED <<masterFile, masters, envKey, loaded, safeMode, copy, archive>> /\ busy' = "no"
  BY DEF masterVars, Open
<1> QED
  BY <1>3, <1>4, <1>5, <1>6, RowStep

\* A key that is stored, sealed or not.
LEMMA StoredText ==
  ASSUME VaultInv, Open, NEW p \in 1 .. MaxPair, NEW t \in {Clear(p), encrypt(Clear(p), loaded)}
  PROVE  t \in Texts /\ t.form # "none" /\ t.pair = p /\ Held(t) /\ (t.form = "sealed" => loaded # 0)
<1>1. p \in 0 .. MaxPair /\ p # 0
  BY VaultDistinct
<1>2. \/ t = Clear(p)
      \/ loaded # 0 /\ t = Sealed(p, loaded)
  BY DEF encrypt, Clear
<1>3. CASE t = Clear(p)
  <2>1. t.form = "clear" /\ t.pair = p
    BY <1>3 DEF Clear
  <2>2. t \in Texts
    BY <1>1, <1>3 DEF Texts
  <2> QED
    BY <1>1, <2>1, <2>2 DEF Held
<1>4. CASE loaded # 0 /\ t = Sealed(p, loaded)
  <2>1. t.form = "sealed" /\ t.pair = p /\ t.by = loaded
    BY <1>4 DEF Sealed
  <2>2. loaded \in 1 .. EnvMaster
    BY <1>4, VaultDistinct DEF VaultInv, MasterTypes, EnvMaster
  <2>3. t \in Texts
    BY <1>1, <1>4, <2>2 DEF Texts
  <2> QED
    BY <1>1, <1>4, <2>1, <2>3 DEF Held, VaultInv, MasterFine
<1> QED
  BY <1>2, <1>3, <1>4

\* The absent text asks for no key.
LEMMA NoTextFine == NoText \in Texts /\ Held(NoText) /\ NoText.form = "none"
  BY DEF Texts, Held, NoText

\* A row just made holds a key that fits it.
LEMMA NewRowFine ==
  ASSUME NEW p \in 0 .. MaxPair, NEW t \in Texts, Held(t), t.form # "none" => t.pair = p,
         NEW c \in {""} \cup Authority
  PROVE  /\ RowFine([NoRow EXCEPT !.is = "there", !.crt = p, !.prv = t, !.caref = c])
         /\ RowFine([NoRow EXCEPT !.is = "there", !.csr = p, !.prv = t])
         /\ RowFine([NoRow EXCEPT !.is = "there", !.crt = p, !.prv = t])
         /\ RowFine([NoRow EXCEPT !.is = "there", !.csr = p])
<1> DEFINE a == [NoRow EXCEPT !.is = "there", !.crt = p, !.prv = t, !.caref = c]
           b == [NoRow EXCEPT !.is = "there", !.csr = p, !.prv = t]
           d == [NoRow EXCEPT !.is = "there", !.crt = p, !.prv = t]
           e == [NoRow EXCEPT !.is = "there", !.csr = p]
<1>0. 0 \in 0 .. MaxPair
  BY Bounds
<1>1. a \in RowOf /\ a.is = "there" /\ a.crt = p /\ a.csr = 0 /\ a.prv = t
  BY <1>0 DEF NoRow, RowOf
<1>2. b \in RowOf /\ b.is = "there" /\ b.crt = 0 /\ b.csr = p /\ b.prv = t
  BY <1>0 DEF NoRow, RowOf
<1>3. d \in RowOf /\ d.is = "there" /\ d.crt = p /\ d.csr = 0 /\ d.prv = t
  BY <1>0 DEF NoRow, RowOf
<1>7. e \in RowOf /\ e.is = "there" /\ e.prv = NoText
  BY <1>0, NoTextFine DEF NoRow, RowOf
<1> HIDE DEF a, b, d, e
<1>8. RowFine(e)
  BY <1>7, NoTextFine DEF RowFine, RowTyped, Fits
<1>4. RowFine(a)
  BY <1>1 DEF RowFine, RowTyped, Fits
<1>5. RowFine(b)
  BY <1>2 DEF RowFine, RowTyped, Fits
<1>6. RowFine(d)
  BY <1>3 DEF RowFine, RowTyped, Fits
<1> QED
  BY <1>4, <1>5, <1>6, <1>8 DEF a, b, d, e

\* A pair is generated, and a file may be written for it.
LEMMA PairTypes ==
  ASSUME VaultInv, UNCHANGED masterVars,
         \/ UNCHANGED pairs
         \/ \E p \in 1 .. MaxPair : NewPair(p),
         \/ UNCHANGED keyFiles
         \/ \E r \in Refid, p \in 0 .. MaxPair : keyFiles' = [keyFiles EXCEPT ![r] = p]
  PROVE  MasterTypes'
<1>1. pairs' \in 0 .. MaxPair
  BY VaultDistinct DEF NewPair, VaultInv, MasterTypes
<1>2. keyFiles' \in [Refid -> 0 .. Cipher]
  <2>1. \A p \in 0 .. MaxPair : p \in 0 .. Cipher
    BY VaultDistinct DEF Cipher
  <2> QED
    BY <2>1 DEF VaultInv, MasterTypes
<1> QED
  BY <1>1, <1>2 DEF VaultInv, MasterTypes, masterVars
\* A row is made.
LEMMA NewRowStep ==
  ASSUME VaultInv, Open, NEW r \in Refid, rows[r].is = "unused", NEW p \in 1 .. MaxPair,
         NEW t \in {NoText, Clear(p), encrypt(Clear(p), loaded)}, NEW c \in {""} \cup Cas,
         UNCHANGED <<masterVars, archive>>, MasterTypes',
         \/ Write(r, [NoRow EXCEPT !.is = "there", !.crt = p, !.prv = t, !.caref = c])
         \/ Write(r, [NoRow EXCEPT !.is = "there", !.csr = p, !.prv = t])
         \/ Write(r, [NoRow EXCEPT !.is = "there", !.crt = p, !.prv = t])
         \/ Write(r, [NoRow EXCEPT !.is = "there", !.csr = p])
  PROVE  VaultInv'
<1> DEFINE a == [NoRow EXCEPT !.is = "there", !.crt = p, !.prv = t, !.caref = c]
           b == [NoRow EXCEPT !.is = "there", !.csr = p, !.prv = t]
           d == [NoRow EXCEPT !.is = "there", !.crt = p, !.prv = t]
           e == [NoRow EXCEPT !.is = "there", !.csr = p]
<1>1. t \in Texts /\ Held(t) /\ (t.form # "none" => t.pair = p) /\ (t.form = "sealed" => loaded # 0)
  BY StoredText, NoTextFine
<1>2. p \in 0 .. MaxPair /\ c \in {""} \cup Authority
  BY Bounds DEF Cas
<1>3. RowFine(a) /\ RowFine(b) /\ RowFine(d) /\ RowFine(e)
  BY <1>1, <1>2, NewRowFine
<1>4. /\ a.is = "there" /\ a.caref = c /\ a.prv = t
      /\ b.is = "there" /\ b.caref = "" /\ b.prv = t
      /\ d.is = "there" /\ d.caref = "" /\ d.prv = t
      /\ e.is = "there" /\ e.caref = "" /\ e.prv.form = "none"
  BY DEF NoRow, NoText
<1>5. Write(r, a) \/ Write(r, b) \/ Write(r, d) \/ Write(r, e)
  OBVIOUS
<1> HIDE DEF a, b, d, e
<1>6. \A row \in {a, b, d, e} : Follows(rows[r], row)
  BY DEF Follows
<1>7. PICK row \in {a, b, d, e} : Write(r, row)
  BY <1>5
<1> QED
  BY <1>1, <1>3, <1>4, <1>6, <1>7, WriteStep

\* A row gets another certificate, another key, or both.
LEMMA ChangedRowStep ==
  ASSUME VaultInv, Open, NEW r \in Refid, There(r), NEW row \in RowOf, Write(r, row),
         row.is = "there", row.csr = rows[r].csr, row.caref \in {rows[r].caref} \cup Cas,
         Held(row.prv), row.prv.form = "sealed" => rows[r].prv.form = "sealed" \/ loaded # 0, Fits(row),
         UNCHANGED <<masterVars, archive>>, MasterTypes'
  PROVE  VaultInv'
<1>1. RowFine(row)
  BY DEF RowFine, RowTyped
<1>2. Follows(rows[r], row)
  BY DEF Follows, There
<1>3. row.caref \in {""} \cup Cas
  BY DEF VaultInv, ChainsResolve
<1> QED
  BY <1>1, <1>2, <1>3, WriteStep

\* The operations on CAs keep the invariant.
LEMMA CaStepInv ==
  ASSUME VaultInv, CaStep, UNCHANGED archive
  PROVE  VaultInv'
<1>1. PICK c \in Authority :
        \/ \E parent \in {""} \cup Authority : create_internal_ca(c, parent)
        \/ \E keyed \in BOOLEAN : import_ca(c, keyed) \/ import_existing_ca(c, keyed)
        \/ delete_ca(c)
  BY DEF CaStep
<1>2. c \in Refid
  BY DEF Refid
<1>3. CASE \E parent \in {""} \cup Authority : create_internal_ca(c, parent)
  <2>1. PICK parent \in {""} \cup Authority : create_internal_ca(c, parent)
    BY <1>3
  <2>2. Open /\ rows[c].is = "unused" /\ parent \in {""} \cup Cas /\ UNCHANGED masterVars
    BY <2>1 DEF create_internal_ca, Signs
  <2>3. PICK p \in 1 .. MaxPair :
          /\ NewPair(p) /\ keyFiles' = [keyFiles EXCEPT ![c] = p]
          /\ Write(c, [NoRow EXCEPT !.is = "there", !.crt = p, !.prv = encrypt(Clear(p), loaded), !.caref = parent])
    BY <2>1 DEF create_internal_ca
  <2>4. MasterTypes'
    <3>1. p \in 0 .. MaxPair
      BY Bounds
    <3> QED
      BY <1>2, <2>2, <2>3, <3>1, PairTypes
  <2> QED
    BY <1>2, <2>2, <2>3, <2>4, NewRowStep
<1>4. CASE \E keyed \in BOOLEAN : import_ca(c, keyed)
  <2>1. Open /\ rows[c].is = "unused" /\ UNCHANGED <<masterVars, keyFiles>>
    BY <1>4 DEF import_ca
  <2>2. PICK p \in 1 .. MaxPair : NewPair(p) /\ \E t \in {NoText, Clear(p)} :
           Write(c, [NoRow EXCEPT !.is = "there", !.crt = p, !.prv = t])
    BY <1>4 DEF import_ca, ImportedKey
  <2>3. PICK t \in {NoText, Clear(p)} : Write(c, [NoRow EXCEPT !.is = "there", !.crt = p, !.prv = t])
    BY <2>2
  <2>4. MasterTypes'
    BY <2>1, <2>2, PairTypes
  <2> QED
    BY <1>2, <2>1, <2>3, <2>4, NewRowStep
<1>5. CASE \E keyed \in BOOLEAN : import_existing_ca(c, keyed)
  <2>1. Open /\ c \in Cas /\ UNCHANGED <<masterVars, keyFiles>>
    BY <1>5 DEF import_existing_ca
  <2>2. PICK keyed \in BOOLEAN : import_existing_ca(c, keyed)
    BY <1>5
  <2>3. PICK p \in 1 .. MaxPair :
          /\ NewPair(p)
          /\ Write(c, [rows[c] EXCEPT !.crt = p, !.prv = ImportedKey(rows[c].prv, p, keyed), !.mixed = ~keyed])
    BY <2>2 DEF import_existing_ca
  <2> DEFINE t == ImportedKey(rows[c].prv, p, keyed)
             m == ~keyed
             row == [rows[c] EXCEPT !.crt = p, !.prv = t, !.mixed = m]
  <2>4. /\ Write(c, row) /\ m \in BOOLEAN
        /\ (t = Clear(p) /\ ~m) \/ (t = rows[c].prv /\ m)
    BY <2>3 DEF ImportedKey
  <2> HIDE DEF t, m
  <2>5. rows[c] \in RowOf /\ RowFine(rows[c]) /\ There(c)
    BY <1>2, <2>1 DEF VaultInv, RowsFine, RowFine, RowTyped, Cas
  <2>6. t \in Texts /\ Held(t) /\ (t.form = "sealed" => rows[c].prv.form = "sealed") /\ (m \/ t.pair = p)
    <3>1. CASE t = Clear(p) /\ ~m
      <4>1. t.form = "clear"
        BY <3>1 DEF Clear
      <4> QED
        BY <2>1, <3>1, <4>1, StoredText
    <3>2. CASE t = rows[c].prv /\ m
      BY <2>5, <3>2 DEF RowFine, RowOf
    <3> QED
      BY <2>4, <3>1, <3>2
  <2>7. p \in 0 .. MaxPair /\ p # 0
    BY Bounds
  <2>8. /\ row \in RowOf /\ row.is = "there" /\ row.csr = rows[c].csr /\ row.caref = rows[c].caref
        /\ row.prv = t /\ row.crt = p /\ row.mixed = m
    BY <2>4, <2>5, <2>6, <2>7 DEF RowOf, There
  <2>9. Write(c, row)
    BY <2>4
  <2> HIDE DEF row
  <2>10. Fits(row)
    BY <2>6, <2>7, <2>8 DEF Fits
  <2>11. MasterTypes'
    BY <2>1, <2>3, PairTypes
  <2> QED
    BY <1>2, <2>1, <2>5, <2>6, <2>8, <2>9, <2>10, <2>11, ChangedRowStep
<1>6. CASE delete_ca(c)
  <2>1. Open /\ UNCHANGED <<masterVars, keyFiles, pairs>> /\ Children(c) = {} /\ Issued(c) = {}
    BY <1>6 DEF delete_ca
  <2>2. \A r \in Refid \ {c} : There(r) => rows[r].caref # c
    BY <2>1 DEF Children, Issued, Cas, Refid
  <2>3. MasterTypes'
    BY <2>1, PairTypes
  <2>4. DOMAIN rows' = Refid /\ rows'[c] = [NoRow EXCEPT !.is = "deleted"] /\ \A r \in Refid \ {c} : rows'[r] = rows[r]
    BY <1>2, <1>6 DEF delete_ca, Write, VaultInv, RowsFine
  <2> DEFINE S == {c}
  <2>5. S \in SUBSET Refid
    BY <1>2
  <2> QED
    BY <2>1, <2>2, <2>3, <2>4, <2>5, DeleteStep
<1> QED
  BY <1>1, <1>3, <1>4, <1>5, <1>6
\* Certificates and requests that are made.
LEMMA NewLeafInv ==
  ASSUME VaultInv, NEW l \in Leaf, UNCHANGED archive,
         \/ \E c \in Authority : create_certificate(l, c) \/ create_mtls_certificate(l, c)
         \/ \E keyed \in BOOLEAN : import_certificate(l, keyed)
         \/ generate_csr(l) \/ upload_csr(l)
  PROVE  VaultInv'
<1>1. Open /\ rows[l].is = "unused" /\ UNCHANGED masterVars /\ l \in Refid
  BY DEF create_certificate, create_mtls_certificate, import_certificate, generate_csr, upload_csr, Refid
<1>2. PICK p \in 1 .. MaxPair :
        /\ NewPair(p)
        /\ UNCHANGED keyFiles \/ keyFiles' = [keyFiles EXCEPT ![l] = p]
        /\ \/ \E c \in {""} \cup Cas :
                \E t \in {NoText, Clear(p), encrypt(Clear(p), loaded)} :
                  Write(l, [NoRow EXCEPT !.is = "there", !.crt = p, !.prv = t, !.caref = c])
           \/ Write(l, [NoRow EXCEPT !.is = "there", !.csr = p, !.prv = Clear(p)])
           \/ Write(l, [NoRow EXCEPT !.is = "there", !.csr = p])
  <2>1. CASE \E c \in Authority : create_certificate(l, c)
    BY <2>1 DEF create_certificate, SignsAsStored
  <2>2. CASE \E c \in Authority : create_mtls_certificate(l, c)
    BY <2>2 DEF create_mtls_certificate, Signs
  <2>3. CASE \E keyed \in BOOLEAN : import_certificate(l, keyed)
    BY <2>3 DEF import_certificate, ImportedKey
  <2>4. CASE generate_csr(l)
    BY <2>4 DEF generate_csr
  <2>5. CASE upload_csr(l)
    BY <2>5 DEF upload_csr
  <2> QED
    BY <2>1, <2>2, <2>3, <2>4, <2>5
<1>3. MasterTypes'
  BY <1>1, <1>2, Bounds, PairTypes
<1>4. NoText \in {NoText, Clear(p), encrypt(Clear(p), loaded)} /\ "" \in {""} \cup Cas
  OBVIOUS
<1> QED
  BY <1>1, <1>2, <1>3, <1>4, NewRowStep

\* The key of a row is uploaded.
LEMMA UploadInv ==
  ASSUME VaultInv, NEW l \in Leaf, UNCHANGED archive, NEW q \in 1 .. pairs,
         upload_csr_private_key(l, q) \/ upload_private_key(l, q)
  PROVE  VaultInv'
<1> DEFINE t == encrypt(Clear(q), loaded)
<1>1. Open /\ There(l) /\ UNCHANGED <<masterVars, keyFiles, pairs>> /\ l \in Refid
  BY DEF upload_csr_private_key, upload_private_key, Refid
<1>2. PICK m \in BOOLEAN : /\ Write(l, [rows[l] EXCEPT !.prv = t, !.mixed = m])
                           /\ m \/ (rows[l].crt # 0 /\ q = rows[l].crt)
  <2>1. CASE upload_csr_private_key(l, q)
    BY <2>1 DEF upload_csr_private_key
  <2>2. CASE upload_private_key(l, q)
    <3> DEFINE m == (rows[l].crt = 0)
    <3>1. m \in BOOLEAN /\ Write(l, [rows[l] EXCEPT !.prv = t, !.mixed = m]) /\ (m \/ (rows[l].crt # 0 /\ q = rows[l].crt))
      BY <2>2 DEF upload_private_key
    <3> HIDE DEF m
    <3> QED
      BY <3>1
  <2> QED
    BY <2>1, <2>2
<1> DEFINE row == [rows[l] EXCEPT !.prv = t, !.mixed = m]
<1>3. q \in 1 .. MaxPair
  <2>1. pairs \in 0 .. MaxPair /\ MaxPair \in Nat
    BY VaultDistinct DEF VaultInv, MasterTypes
  <2> QED
    BY <2>1
<1>4. t \in Texts /\ t.pair = q /\ Held(t) /\ (t.form = "sealed" => loaded # 0)
  BY <1>1, <1>3, StoredText
<1> HIDE DEF t
<1>5. rows[l] \in RowOf /\ rows[l].is = "there"
  BY <1>1 DEF VaultInv, RowsFine, RowFine, RowTyped, There
<1>6. /\ row \in RowOf /\ row.is = "there" /\ row.csr = rows[l].csr /\ row.caref = rows[l].caref
      /\ row.prv = t /\ row.crt = rows[l].crt /\ row.mixed = m
  BY <1>2, <1>4, <1>5 DEF RowOf
<1>7. Write(l, row)
  BY <1>2
<1> HIDE DEF row
<1>8. Fits(row)
  BY <1>2, <1>4, <1>6 DEF Fits
<1>9. MasterTypes'
  BY <1>1, PairTypes
<1> QED
  BY <1>1, <1>4, <1>6, <1>7, <1>8, <1>9, ChangedRowStep

\* A request is signed: by itself, or with others.
SignedBy(l, c) == [rows[l] EXCEPT !.crt = rows[l].csr, !.caref = c]

\* A row signed from its CSR keeps its key.
LEMMA SignedRow ==
  ASSUME VaultInv, NEW l \in Refid, There(l), rows[l].csr # 0, rows[l].crt = 0, NEW c \in Cas,
         NEW row, row = SignedBy(l, c)
  PROVE  /\ row \in RowOf /\ row.is = "there" /\ row.csr = rows[l].csr /\ row.caref = c
         /\ row.prv = rows[l].prv /\ Held(row.prv) /\ Fits(row)
<1>1. rows[l] \in RowOf /\ rows[l].is = "there" /\ Held(rows[l].prv) /\ Fits(rows[l]) /\ c \in Authority
  BY DEF VaultInv, RowsFine, RowFine, RowTyped, There, Cas
<1>2. /\ row \in RowOf /\ row.is = "there" /\ row.csr = rows[l].csr /\ row.caref = c
      /\ row.prv = rows[l].prv /\ row.crt = rows[l].csr /\ row.mixed = rows[l].mixed
  BY <1>1 DEF RowOf, SignedBy
<1> QED
  BY <1>1, <1>2 DEF Fits

\* A CSR signed, alone or with others, keeps the invariant.
LEMMA SignInv ==
  ASSUME VaultInv, UNCHANGED archive,
         \/ \E l \in Leaf, c \in Authority : sign_csr(l, c)
         \/ \E S \in SUBSET Leaf, c \in Authority : bulk_sign_csrs(S, c)
  PROVE  VaultInv'
<1>1. CASE \E l \in Leaf, c \in Authority : sign_csr(l, c)
  <2>1. PICK l \in Leaf, c \in Authority : sign_csr(l, c)
    BY <1>1
  <2>2. /\ Open /\ There(l) /\ rows[l].csr # 0 /\ rows[l].crt = 0 /\ c \in Cas /\ l \in Refid
        /\ UNCHANGED <<masterVars, keyFiles, pairs>>
    BY <2>1 DEF sign_csr, SignsAsStored, Refid
  <2>3. PICK row : row = SignedBy(l, c) /\ Write(l, row)
    BY <2>1 DEF sign_csr, SignedBy
  <2>4. MasterTypes'
    BY <2>2, PairTypes
  <2>5. /\ row \in RowOf /\ row.is = "there" /\ row.csr = rows[l].csr /\ row.caref = c
        /\ row.prv = rows[l].prv /\ Held(row.prv) /\ Fits(row)
    BY <2>2, <2>3, SignedRow
  <2>6. Write(l, row) /\ UNCHANGED <<masterVars, archive>>
    BY <2>2, <2>3
  <2> HIDE DEF Write
  <2> QED
    BY <2>2, <2>4, <2>5, <2>6, ChangedRowStep
<1>2. CASE \E S \in SUBSET Leaf, c \in Authority : bulk_sign_csrs(S, c)
  <2>1. PICK S \in SUBSET Leaf, c \in Authority : bulk_sign_csrs(S, c)
    BY <1>2
  <2>2. Open /\ c \in Cas /\ UNCHANGED <<masterVars, keyFiles, pairs>>
    BY <2>1 DEF bulk_sign_csrs, SignsAsStored
  <2> DEFINE T == Signable(S)
  <2>3. T \subseteq Refid /\ \A l \in T : There(l) /\ rows[l].csr # 0 /\ rows[l].crt = 0
    BY DEF Refid, Signable
  <2>6. /\ DOMAIN rows' = Refid
        /\ \A l \in T : rows'[l] = SignedBy(l, c)
        /\ \A r \in Refid \ T : rows'[r] = rows[r]
    BY <2>1, <2>3 DEF bulk_sign_csrs, SignedBy
  <2> HIDE DEF T
  <2>7. ASSUME NEW l \in T
        PROVE  /\ rows'[l] \in RowOf /\ rows'[l].is = "there" /\ rows'[l].csr = rows[l].csr
               /\ rows'[l].caref = c /\ rows'[l].prv = rows[l].prv
               /\ Held(rows'[l].prv) /\ Fits(rows'[l])
    <3>1. PICK row : row = rows'[l]
      OBVIOUS
    <3>2. l \in Refid /\ There(l) /\ rows[l].csr # 0 /\ rows[l].crt = 0 /\ c \in Cas
      BY <2>2, <2>3
    <3>3. row = SignedBy(l, c)
      BY <2>6, <3>1
    <3>4. /\ row \in RowOf /\ row.is = "there" /\ row.csr = rows[l].csr /\ row.caref = c
          /\ row.prv = rows[l].prv /\ Held(row.prv) /\ Fits(row)
      BY <3>2, <3>3, SignedRow
    <3> QED
      BY <3>1, <3>4
  <2>8. \A r \in Refid : RowFine(rows'[r]) /\ Follows(rows[r], rows'[r])
    <3> SUFFICES ASSUME NEW r \in Refid PROVE RowFine(rows'[r]) /\ Follows(rows[r], rows'[r])
      OBVIOUS
    <3>1. CASE r \in T
      BY <2>3, <2>7, <3>1 DEF RowFine, RowTyped, Follows, There
    <3>2. CASE r \notin T
      BY <2>6, <3>2 DEF VaultInv, RowsFine, Follows
    <3> QED
      BY <3>1, <3>2
  <2>9. \A r \in Refid : rows'[r].prv.form = "sealed" => rows[r].prv.form = "sealed" \/ loaded # 0
    BY <2>6, <2>7
  <2>10. ChainsResolve'
    <3>1. \A a \in Cas : a \in Cas'
      BY <2>6, <2>7 DEF Cas, There, Refid
    <3>2. \A r \in Refid : There(r)' => rows'[r].caref \in {""} \cup Cas
      BY <2>2, <2>6, <2>7 DEF VaultInv, ChainsResolve, There
    <3> QED
      BY <3>1, <3>2 DEF ChainsResolve
  <2>11. MasterTypes'
    BY <2>2, PairTypes
  <2>12. UNCHANGED <<masterFile, masters, envKey, loaded, safeMode, copy, archive>> /\ busy' \in {"no", "restoring"}
    BY <2>2 DEF masterVars, Open
  <2> QED
    BY <2>2, <2>6, <2>8, <2>9, <2>10, <2>11, <2>12, RowStep
<1> QED
  BY <1>1, <1>2

\* A certificate is renewed: another key pair, the row and its CA stay.
LEMMA RenewInv ==
  ASSUME VaultInv, NEW l \in Leaf, UNCHANGED archive, NEW c, renew_certificate(l, c)
  PROVE  VaultInv'
<1>1. Open /\ There(l) /\ UNCHANGED <<masterVars, keyFiles>> /\ l \in Refid
  BY DEF renew_certificate, Refid
<1>2. PICK p \in 1 .. MaxPair :
        /\ NewPair(p)
        /\ Write(l, [rows[l] EXCEPT !.crt = p, !.prv = Clear(p), !.revoked = FALSE, !.mixed = FALSE])
  BY DEF renew_certificate
<1> DEFINE t == Clear(p)
           row == [rows[l] EXCEPT !.crt = p, !.prv = t, !.revoked = FALSE, !.mixed = FALSE]
<1>3. t \in Texts /\ t.form # "none" /\ t.form # "sealed" /\ t.pair = p /\ Held(t)
  <2>1. t.form = "clear"
    BY DEF Clear
  <2> QED
    BY <1>1, <2>1, StoredText
<1>4. p \in 0 .. MaxPair /\ p # 0
  BY Bounds
<1>5. rows[l] \in RowOf /\ rows[l].is = "there"
  BY <1>1 DEF VaultInv, RowsFine, RowFine, RowTyped, There
<1> HIDE DEF t
<1>6. /\ row \in RowOf /\ row.is = "there" /\ row.csr = rows[l].csr /\ row.caref = rows[l].caref
      /\ row.prv = t /\ row.crt = p
  BY <1>3, <1>4, <1>5 DEF RowOf
<1>7. Write(l, row)
  BY <1>2 DEF t
<1> HIDE DEF row
<1>8. Fits(row)
  BY <1>3, <1>4, <1>6 DEF Fits
<1>9. MasterTypes'
  BY <1>1, <1>2, PairTypes
<1> QED
  BY <1>1, <1>3, <1>6, <1>7, <1>8, <1>9, ChangedRowStep

\* A revocation keeps the invariant.
LEMMA RevokeInv ==
  ASSUME VaultInv, NEW l \in Leaf, UNCHANGED archive, revoke_certificate(l)
  PROVE  VaultInv'
<1>1. Open /\ There(l) /\ UNCHANGED <<masterVars, keyFiles, pairs>> /\ l \in Refid
  BY DEF revoke_certificate, Refid
<1> DEFINE row == [rows[l] EXCEPT !.revoked = TRUE]
<1>2. rows[l] \in RowOf /\ rows[l].is = "there" /\ Held(rows[l].prv) /\ Fits(rows[l])
  BY <1>1 DEF VaultInv, RowsFine, RowFine, RowTyped, There
<1>3. /\ row \in RowOf /\ row.is = "there" /\ row.csr = rows[l].csr /\ row.caref = rows[l].caref
      /\ row.prv = rows[l].prv /\ row.crt = rows[l].crt /\ row.mixed = rows[l].mixed
  BY <1>2 DEF RowOf
<1>4. Write(l, row)
  BY DEF revoke_certificate
<1> HIDE DEF row
<1>5. Fits(row)
  BY <1>2, <1>3 DEF Fits
<1>6. MasterTypes'
  BY <1>1, PairTypes
<1> QED
  BY <1>1, <1>2, <1>3, <1>4, <1>5, <1>6, ChangedRowStep

\* A certificate or a CSR deleted, alone or with others, keeps the invariant.
LEMMA DeleteLeafInv ==
  ASSUME VaultInv, UNCHANGED archive,
         \/ \E l \in Leaf : delete_certificate(l) \/ delete_csr(l)
         \/ \E S \in SUBSET Leaf : bulk_delete_certificates(S)
  PROVE  VaultInv'
<1>1. PICK S \in SUBSET Leaf :
        /\ Open /\ UNCHANGED <<masterVars, pairs>> /\ DOMAIN rows' = Refid
        /\ \A r \in S : rows'[r] = [NoRow EXCEPT !.is = "deleted"]
        /\ \A r \in Refid \ S : rows'[r] = rows[r]
        /\ UNCHANGED keyFiles \/ \E r \in S : keyFiles' = [keyFiles EXCEPT ![r] = 0]
  <2>1. DOMAIN rows = Refid
    BY DEF VaultInv, RowsFine
  <2>2. CASE \E l \in Leaf : delete_certificate(l) \/ delete_csr(l)
    <3>1. PICK l \in Leaf : delete_certificate(l) \/ delete_csr(l)
      BY <2>2
    <3>2. Open /\ UNCHANGED <<masterVars, pairs>> /\ Write(l, [NoRow EXCEPT !.is = "deleted"])
      BY <3>1 DEF delete_certificate, delete_csr
    <3>3. UNCHANGED keyFiles \/ keyFiles' = [keyFiles EXCEPT ![l] = 0]
      BY <3>1 DEF delete_certificate, delete_csr
    <3>4. /\ DOMAIN rows' = Refid /\ \A r \in {l} : rows'[r] = [NoRow EXCEPT !.is = "deleted"]
          /\ \A r \in Refid \ {l} : rows'[r] = rows[r]
      BY <2>1, <3>2 DEF Write, Refid
    <3>5. {l} \in SUBSET Leaf
      OBVIOUS
    <3> QED
      BY <3>2, <3>3, <3>4, <3>5
  <2>3. CASE \E S \in SUBSET Leaf : bulk_delete_certificates(S)
    <3>1. PICK S \in SUBSET Leaf : bulk_delete_certificates(S)
      BY <2>3
    <3>2. Open /\ UNCHANGED <<masterVars, keyFiles, pairs>>
      BY <3>1 DEF bulk_delete_certificates
    <3>3. /\ DOMAIN rows' = Refid /\ \A r \in S : rows'[r] = [NoRow EXCEPT !.is = "deleted"]
          /\ \A r \in Refid \ S : rows'[r] = rows[r]
      BY <3>1 DEF bulk_delete_certificates, Refid
    <3> QED
      BY <3>2, <3>3
  <2> QED
    BY <2>2, <2>3
<1>2. S \in SUBSET Refid /\ S \cap Authority = {}
  BY VaultDistinct DEF Refid
<1>3. MasterTypes'
  BY <1>1, <1>2, Bounds, PairTypes
<1>4. \A r \in Refid \ S : There(r) => rows[r].caref \notin S \cap Authority \/ rows[r].caref = ""
  BY <1>2
<1> QED
  BY <1>1, <1>2, <1>3, <1>4, DeleteStep

\* The operations on certificates and CSRs keep the invariant.
LEMMA LeafStepInv ==
  ASSUME VaultInv, UNCHANGED archive, LeafStep \/ \E l \in Leaf : revoke_certificate(l)
  PROVE  VaultInv'
<1>1. CASE \E l \in Leaf :
             \/ \E c \in Authority : create_certificate(l, c) \/ create_mtls_certificate(l, c)
             \/ \E keyed \in BOOLEAN : import_certificate(l, keyed)
             \/ generate_csr(l) \/ upload_csr(l)
  BY <1>1, NewLeafInv
<1>2. CASE \E l \in Leaf : \E q \in 1 .. pairs : upload_csr_private_key(l, q) \/ upload_private_key(l, q)
  BY <1>2, UploadInv
<1>3. CASE \/ \E l \in Leaf, c \in Authority : sign_csr(l, c)
           \/ \E S \in SUBSET Leaf, c \in Authority : bulk_sign_csrs(S, c)
  BY <1>3, SignInv
<1>4. CASE \E l \in Leaf : bulk_renew_certificates(l) \/ \E c \in Authority : renew_certificate(l, c)
  <2>1. PICK l \in Leaf : bulk_renew_certificates(l) \/ \E c \in Authority : renew_certificate(l, c)
    BY <1>4
  <2>2. \E c : renew_certificate(l, c)
    BY <2>1 DEF bulk_renew_certificates
  <2> QED
    BY <2>2, RenewInv
<1>5. CASE \E l \in Leaf : revoke_certificate(l)
  BY <1>5, RevokeInv
<1>6. CASE \/ \E l \in Leaf : delete_certificate(l) \/ delete_csr(l)
           \/ \E S \in SUBSET Leaf : bulk_delete_certificates(S)
  BY <1>6, DeleteLeafInv
<1> QED
  BY <1>1, <1>2, <1>3, <1>4, <1>5, <1>6 DEF LeafStep

----------------------------------------------------------------------------
(* The master key is switched on and off, lost and put back. *)

\* encrypt keeps the key in the text, and seals it with the key given or not at
\* all.
LEMMA SealedText ==
  ASSUME NEW t \in Texts, NEW k \in 0 .. EnvMaster, NEW e, e = encrypt(t, k)
  PROVE  /\ e \in Texts /\ e.pair = t.pair /\ (e.form = "none" <=> t.form = "none")
         /\ e = t \/ (k # 0 /\ e.form = "sealed" /\ e.by = k /\ t.form # "sealed")
<1>1. CASE e = t
  BY <1>1
<1>2. CASE k # 0 /\ t.form = "clear" /\ e = Sealed(t.pair, k)
  <2>1. t.pair \in 0 .. MaxPair
    <3>1. CASE t = NoText
      BY <1>2, <3>1 DEF NoText
    <3>2. CASE \E p \in 0 .. MaxPair : t = Clear(p)
      BY <3>2 DEF Clear
    <3>3. CASE \E p \in 0 .. MaxPair, j \in 1 .. EnvMaster : t = Sealed(p, j)
      BY <3>3 DEF Sealed
    <3> QED
      BY <3>1, <3>2, <3>3, TextsAre
  <2>2. k \in 1 .. EnvMaster
    BY <1>2, VaultDistinct DEF EnvMaster
  <2>3. e \in Texts
    BY <1>2, <2>1, <2>2 DEF Texts
  <2>4. e.form = "sealed" /\ e.by = k /\ e.pair = t.pair
    BY <1>2 DEF Sealed
  <2> QED
    BY <1>2, <2>3, <2>4
<1> QED
  BY <1>1, <1>2 DEF encrypt

\* decrypt keeps the key in the text, and leaves sealed only what it cannot
\* open.
LEMMA OpenedText ==
  ASSUME NEW t \in Texts, NEW k, NEW e, e = decrypt(t, k)
  PROVE  /\ e \in Texts /\ e.pair = t.pair /\ (e.form = "none" <=> t.form = "none")
         /\ e = t \/ e.form = "clear"
         /\ e.form = "sealed" => ~Opens(t, k)
<1>1. CASE t.form = "sealed" /\ Opens(t, k)
  <2>1. e = Clear(t.pair)
    BY <1>1 DEF decrypt
  <2>2. t.pair \in 0 .. MaxPair
    <3>1. CASE t = NoText
      BY <1>1, <3>1 DEF NoText
    <3>2. CASE \E p \in 0 .. MaxPair : t = Clear(p)
      BY <3>2 DEF Clear
    <3>3. CASE \E p \in 0 .. MaxPair, j \in 1 .. EnvMaster : t = Sealed(p, j)
      BY <3>3 DEF Sealed
    <3> QED
      BY <3>1, <3>2, <3>3, TextsAre
  <2>3. e \in Texts
    BY <2>1, <2>2 DEF Texts
  <2>4. e.form = "clear" /\ e.pair = t.pair
    BY <2>1 DEF Clear
  <2> QED
    BY <1>1, <2>3, <2>4
<1>2. CASE ~(t.form = "sealed" /\ Opens(t, k))
  <2>1. e = t
    BY <1>2 DEF decrypt
  <2> QED
    BY <1>2, <2>1
<1> QED
  BY <1>1, <1>2

\* A text of no form is the absent one.
LEMMA NoTextOnly ==
  ASSUME NEW t \in Texts, t.form = "none"
  PROVE  t = NoText
<1>1. CASE \E p \in 0 .. MaxPair : t = Clear(p)
  BY <1>1 DEF Clear
<1>2. CASE \E p \in 0 .. MaxPair, j \in 1 .. EnvMaster : t = Sealed(p, j)
  BY <1>2 DEF Sealed
<1> QED
  BY <1>1, <1>2, TextsAre

\* The text of a row is stored another way.
LEMMA RestoredText ==
  ASSUME VaultInv, NEW r \in Refid, NEW t \in Texts, t.pair = rows[r].prv.pair,
         t.form = "none" <=> rows[r].prv.form = "none",
         NEW row, row = [rows[r] EXCEPT !.prv = t]
  PROVE  /\ row.is = rows[r].is /\ row.csr = rows[r].csr /\ row.caref = rows[r].caref /\ row.prv = t
         /\ RowTyped(row) /\ Fits(row)
<1>1. rows[r] \in RowOf /\ RowTyped(rows[r]) /\ Fits(rows[r])
  BY DEF VaultInv, RowsFine, RowFine, RowTyped
<1>2. /\ row.is = rows[r].is /\ row.csr = rows[r].csr /\ row.caref = rows[r].caref /\ row.prv = t
      /\ row.crt = rows[r].crt /\ row.mixed = rows[r].mixed /\ row \in RowOf
  BY <1>1 DEF RowOf
<1>3. Fits(row)
  BY <1>1, <1>2 DEF Fits
<1>4. RowTyped(row)
  <2>1. CASE rows[r].is = "there"
    BY <1>2, <2>1 DEF RowTyped
  <2>2. CASE rows[r].is # "there"
    <3>1. HoldsNothing(rows[r])
      BY <1>1, <2>2 DEF RowTyped
    <3>2. t = NoText
      BY <3>1, NoTextFine, NoTextOnly DEF HoldsNothing
    <3>3. row.revoked = rows[r].revoked
      BY <1>1 DEF RowOf
    <3>4. HoldsNothing(row)
      BY <1>2, <3>1, <3>2, <3>3 DEF HoldsNothing
    <3> QED
      BY <1>2, <3>4 DEF RowTyped
  <2> QED
    BY <2>1, <2>2
<1> QED
  BY <1>2, <1>3, <1>4

\* A pass that rewrites the texts of all rows and keeps the keys in them keeps
\* the rows' other parts.
LEMMA TextsStep ==
  ASSUME VaultInv, NEW texts, UNCHANGED <<archive, copy>>,
         \A r \in Refid : /\ texts[r] \in Texts /\ texts[r].pair = rows[r].prv.pair
                          /\ texts[r].form = "none" <=> rows[r].prv.form = "none",
         rows' = [r \in Refid |-> [rows[r] EXCEPT !.prv = texts[r]]]
  PROVE  /\ DOMAIN rows' = Refid /\ ArchiveRows' /\ ChainsResolve'
         /\ \A r \in Refid : RowTyped(rows'[r]) /\ Fits(rows'[r]) /\ rows'[r].prv = texts[r]
<1>1. DOMAIN rows' = Refid
  OBVIOUS
<1>2. ASSUME NEW r \in Refid
      PROVE  /\ rows'[r].is = rows[r].is /\ rows'[r].csr = rows[r].csr /\ rows'[r].caref = rows[r].caref
             /\ RowTyped(rows'[r]) /\ Fits(rows'[r]) /\ rows'[r].prv = texts[r]
  <2>1. PICK row : row = rows'[r]
    OBVIOUS
  <2>2. row = [rows[r] EXCEPT !.prv = texts[r]]
    BY <2>1
  <2> QED
    BY <2>1, <2>2, RestoredText
<1>3. \A r \in Refid : There(r)' <=> There(r)
  BY <1>2 DEF There
<1>4. ChainsResolve'
  <2>1. Cas' = Cas
    BY <1>3 DEF Cas, Refid
  <2> QED
    BY <1>2, <1>3, <2>1 DEF VaultInv, ChainsResolve
<1>5. ArchiveRows'
  <2> SUFFICES ASSUME archive.made, NEW r \in DOMAIN archive.rows
               PROVE  EntryFine(r, archive.rows[r])'
    BY DEF ArchiveRows, VaultInv
  <2>1. EntryFine(r, archive.rows[r]) /\ r \in Refid
    BY DEF VaultInv, ArchiveRows
  <2> QED
    BY <1>2, <1>3, <2>1 DEF EntryFine
<1> QED
  BY <1>1, <1>2, <1>4, <1>5

\* Nothing is written but where the master key is.
LEMMA MasterStepInv ==
  ASSUME VaultInv, UNCHANGED <<rows, archive>>, MasterTypes', MasterFine',
         copy' = 0 => copy = 0,
         \A r \in Refid : Held(rows[r].prv) => Held(rows[r].prv)'
  PROVE  VaultInv'
<1>1. RowsFine'
  <2> SUFFICES ASSUME NEW r \in Refid PROVE RowFine(rows[r])'
    BY DEF VaultInv, RowsFine
  <2>1. RowFine(rows[r])
    BY DEF VaultInv, RowsFine
  <2>2. Held(rows[r].prv)'
    BY <2>1 DEF RowFine
  <2>3. Fits(rows[r])'
    BY <2>1 DEF RowFine, Fits
  <2>4. RowTyped(rows[r])'
    BY <2>1 DEF RowFine, RowTyped
  <2> QED
    BY <2>2, <2>3, <2>4 DEF RowFine
<1>2. ArchiveRows'
  BY DEF VaultInv, ArchiveRows, EntryFine, There
<1>3. ChainsResolve'
  BY DEF VaultInv, ChainsResolve, There, Cas
<1> QED
  BY <1>1, <1>2, <1>3 DEF VaultInv

\* The first half of enabling the encryption, which stores the master key, keeps
\* the invariant.
LEMMA EnableInv ==
  ASSUME VaultInv, UNCHANGED archive, enable_encryption
  PROVE  VaultInv'
<1>1. /\ Open /\ loaded = 0 /\ masterFile' = masters + 1 /\ masters' = masters + 1 /\ masters < MaxMaster
      /\ busy' = "enabling" /\ UNCHANGED <<rows, keyFiles, pairs, envKey, loaded, safeMode, copy>>
  BY DEF enable_encryption
<1>2. NoneSealed /\ ~safeMode
  BY <1>1 DEF VaultInv, MasterFine, Open
<1>3. MasterTypes'
  <2>1. masters + 1 \in 0 .. MaxMaster
    <3>1. masters \in 0 .. MaxMaster /\ MaxMaster \in Nat
      BY VaultDistinct DEF VaultInv, MasterTypes
    <3> QED
      BY <1>1, <3>1
  <2> QED
    BY <1>1, <2>1 DEF VaultInv, MasterTypes
<1>4. MasterFine'
  BY <1>1, <1>2 DEF MasterFine, NoneSealed
<1>5. \A r \in Refid : Held(rows[r].prv) => Held(rows[r].prv)'
  BY <1>1, <1>2 DEF NoneSealed, Held
<1> QED
  BY <1>1, <1>3, <1>4, <1>5, MasterStepInv

\* The last half of disabling the encryption, which drops the master key, keeps
\* the invariant.
LEMMA UnloadInv ==
  ASSUME VaultInv, UNCHANGED archive, disable_encryption_unloads
  PROVE  VaultInv'
<1>1. /\ busy = "disabling" /\ masterFile' = 0 /\ loaded' = envKey /\ busy' = "no"
      /\ UNCHANGED <<rows, keyFiles, pairs, masters, envKey, safeMode, copy>>
  BY DEF disable_encryption_unloads
<1>2. NoneSealed
  BY <1>1 DEF VaultInv, MasterFine
<1>3. MasterTypes'
  <2>1. \A k \in {0, EnvMaster} : k \in 0 .. EnvMaster
    BY VaultDistinct DEF EnvMaster
  <2> QED
    BY <1>1, <2>1, Bounds DEF VaultInv, MasterTypes
<1>4. MasterFine'
  BY <1>1, <1>2 DEF MasterFine, NoneSealed, AtRest
<1>5. \A r \in Refid : Held(rows[r].prv) => Held(rows[r].prv)'
  BY <1>1, <1>2 DEF NoneSealed, Held
<1> QED
  BY <1>1, <1>3, <1>4, <1>5, MasterStepInv

\* What the host does with the environment and the master key file keeps the
\* invariant.
LEMMA HostStepInv ==
  ASSUME VaultInv, UNCHANGED archive, HostStep
  PROVE  VaultInv'
<1>0. UNCHANGED <<rows, keyFiles, pairs, masters, loaded, safeMode, busy>> /\ (NoneSealed => NoneSealed')
  BY DEF HostStep, LoseKeyFile, ReturnKeyFile, SetEnv, NoneSealed
<1>1. MasterTypes /\ MasterFine
  BY DEF VaultInv
<1>2. CASE LoseKeyFile
  <2>1. masterFile # 0 /\ copy = 0 /\ copy' = masterFile /\ masterFile' = 0 /\ envKey' = envKey
    BY <1>2 DEF LoseKeyFile
  <2>2. MasterTypes'
    BY <1>0, <1>1, <2>1, Bounds DEF MasterTypes
  <2>3. MasterFine'
    BY <1>0, <1>1, <2>1 DEF MasterFine
  <2>4. \A r \in Refid : Held(rows[r].prv) => Held(rows[r].prv)'
    BY <1>0, <2>1 DEF Held
  <2> QED
    BY <1>0, <2>1, <2>2, <2>3, <2>4, MasterStepInv
<1>3. CASE ReturnKeyFile
  <2>1. masterFile = 0 /\ copy # 0 /\ copy' = copy /\ masterFile' = copy /\ envKey' = envKey
    BY <1>3 DEF ReturnKeyFile
  <2>2. MasterTypes'
    BY <1>0, <1>1, <2>1 DEF MasterTypes
  <2>3. MasterFine'
    BY <1>0, <1>1, <2>1 DEF MasterFine
  <2>4. \A r \in Refid : Held(rows[r].prv) => Held(rows[r].prv)'
    BY <1>0, <2>1 DEF Held
  <2> QED
    BY <1>0, <2>1, <2>2, <2>3, <2>4, MasterStepInv
<1>4. CASE SetEnv
  <2>1. envKey = 0 /\ envKey' = EnvMaster /\ UNCHANGED <<masterFile, copy>>
    BY <1>4 DEF SetEnv
  <2>2. MasterTypes'
    BY <1>0, <1>1, <2>1 DEF MasterTypes
  <2>3. MasterFine'
    BY <1>0, <1>1, <2>1 DEF MasterFine, AtRest
  <2>4. \A r \in Refid : Held(rows[r].prv) => Held(rows[r].prv)'
    BY <1>0, <2>1 DEF Held, AtRest
  <2> QED
    BY <1>0, <2>1, <2>2, <2>3, <2>4, MasterStepInv
<1> QED
  BY <1>2, <1>3, <1>4 DEF HostStep

\* A restart, with what it finds of the master key, keeps the invariant.
LEMMA RestartInv ==
  ASSUME VaultInv, UNCHANGED archive, Restart
  PROVE  VaultInv'
<1>1. /\ loaded' = AtRest /\ busy' = "no" /\ UNCHANGED <<rows, pairs, masterFile, masters, envKey, copy>>
      /\ safeMode' \in BOOLEAN /\ (AtRest = 0 /\ ~safeMode' => NoneSealed)
  BY DEF Restart, has_encrypted_keys_in_db, NoneSealed
<1>2. MasterTypes'
  <2>1. keyFiles' \in [Refid -> 0 .. Cipher]
    <3>1. \A r \in Refid : rows[r].prv \in Texts
      BY DEF VaultInv, RowsFine, RowFine, RowTyped, RowOf
    <3>2. ASSUME NEW t \in Texts
          PROVE  t.pair \in 0 .. Cipher
      <4>1. CASE t = NoText
        BY <4>1, Bounds DEF NoText
      <4>2. CASE \E p \in 0 .. MaxPair : t = Clear(p)
        BY <4>2, Bounds DEF Clear
      <4>3. CASE \E p \in 0 .. MaxPair, j \in 1 .. EnvMaster : t = Sealed(p, j)
        BY <4>3, Bounds DEF Sealed
      <4> QED
        BY <4>1, <4>2, <4>3, TextsAre
    <3>3. Cipher \in 0 .. Cipher
      BY VaultDistinct DEF Cipher
    <3>4. keyFiles \in [Refid -> 0 .. Cipher]
      BY DEF VaultInv, MasterTypes
    <3> QED
      BY <3>1, <3>2, <3>3, <3>4 DEF Restart, regenerate_all_files
  <2>2. AtRest \in 0 .. EnvMaster
    <3>1. \A k \in {0, EnvMaster} \cup 0 .. MaxMaster : k \in 0 .. EnvMaster
      BY VaultDistinct DEF EnvMaster
    <3> QED
      BY <3>1 DEF AtRest, VaultInv, MasterTypes
  <2> QED
    BY <1>1, <2>1, <2>2 DEF VaultInv, MasterTypes
<1>3. MasterFine'
  BY <1>1 DEF MasterFine, NoneSealed, AtRest
<1>4. \A r \in Refid : Held(rows[r].prv) => Held(rows[r].prv)'
  BY <1>1 DEF Held, AtRest
<1> QED
  BY <1>1, <1>2, <1>3, <1>4, MasterStepInv

\* Every text is sealed, or opened, as far as it can be.
LEMMA SealInv ==
  ASSUME VaultInv, UNCHANGED archive, NEW k \in 0 .. EnvMaster, rows' = encrypt_all_keys(k),
         k \in {masterFile, envKey, copy}, copy = 0 => k = AtRest,
         UNCHANGED <<masterFile, envKey, copy, safeMode>>, loaded' = k, busy' = "no",
         k = 0 => NoneSealed, MasterTypes'
  PROVE  VaultInv'
<1> DEFINE texts == [r \in Refid |-> encrypt(rows[r].prv, k)]
<1>1. \A r \in Refid : rows[r].prv \in Texts /\ Held(rows[r].prv)
  BY DEF VaultInv, RowsFine, RowFine, RowTyped, RowOf
<1>2. \A r \in Refid : texts[r] = encrypt(rows[r].prv, k)
  OBVIOUS
<1>3. rows' = [r \in Refid |-> [rows[r] EXCEPT !.prv = texts[r]]]
  BY DEF encrypt_all_keys
<1> HIDE DEF texts
<1>4. ASSUME NEW r \in Refid
      PROVE  /\ texts[r] \in Texts /\ texts[r].pair = rows[r].prv.pair
             /\ texts[r].form = "none" <=> rows[r].prv.form = "none"
             /\ Held(texts[r])
             /\ k = 0 => texts[r].form # "sealed"
  <2>1. /\ texts[r] \in Texts /\ texts[r].pair = rows[r].prv.pair
        /\ texts[r].form = "none" <=> rows[r].prv.form = "none"
        /\ \/ texts[r] = rows[r].prv
           \/ k # 0 /\ texts[r].form = "sealed" /\ texts[r].by = k /\ rows[r].prv.form # "sealed"
    BY <1>1, <1>2, SealedText
  <2>2. Held(texts[r])
    BY <1>1, <2>1 DEF Held
  <2>3. k = 0 => texts[r].form # "sealed"
    BY <2>1 DEF NoneSealed
  <2> QED
    BY <2>1, <2>2, <2>3
<1>5. /\ DOMAIN rows' = Refid /\ ArchiveRows' /\ ChainsResolve'
      /\ \A r \in Refid : RowTyped(rows'[r]) /\ Fits(rows'[r]) /\ rows'[r].prv = texts[r]
  BY <1>3, <1>4, TextsStep
<1>6. RowsFine'
  <2>1. \A r \in Refid : RowTyped(rows'[r]) /\ Held(rows'[r].prv) /\ Fits(rows'[r])
    BY <1>4, <1>5
  <2> QED
    BY <1>5, <2>1 DEF RowsFine, RowFine, Held, Fits, AtRest
<1>7. MasterFine'
  <2>1. k = 0 => NoneSealed'
    BY <1>4, <1>5 DEF NoneSealed
  <2> QED
    BY <2>1 DEF MasterFine, AtRest
<1> QED
  BY <1>5, <1>6, <1>7 DEF VaultInv

\* The first half of disabling the encryption, which opens the texts, keeps the
\* invariant.
LEMMA DisableInv ==
  ASSUME VaultInv, UNCHANGED archive, disable_encryption
  PROVE  VaultInv'
<1>1. /\ Open /\ loaded # 0 /\ rows' = decrypt_all_keys(loaded)
      /\ busy' \in {"no", "disabling"} /\ (busy' = "disabling" => Unopened(loaded) = {})
      /\ UNCHANGED <<keyFiles, pairs, masterFile, masters, envKey, loaded, safeMode, copy>>
  BY DEF disable_encryption
<1> DEFINE texts == [r \in Refid |-> decrypt(rows[r].prv, loaded)]
<1>2. \A r \in Refid : rows[r].prv \in Texts /\ Held(rows[r].prv)
  BY DEF VaultInv, RowsFine, RowFine, RowTyped, RowOf
<1>3. \A r \in Refid : texts[r] = decrypt(rows[r].prv, loaded)
  OBVIOUS
<1>4. rows' = [r \in Refid |-> [rows[r] EXCEPT !.prv = texts[r]]]
  BY <1>1 DEF decrypt_all_keys
<1> HIDE DEF texts
<1>5. ASSUME NEW r \in Refid
      PROVE  /\ texts[r] \in Texts /\ texts[r].pair = rows[r].prv.pair
             /\ texts[r].form = "none" <=> rows[r].prv.form = "none"
             /\ Held(texts[r])
             /\ Unopened(loaded) = {} => texts[r].form # "sealed"
  <2>1. /\ texts[r] \in Texts /\ texts[r].pair = rows[r].prv.pair
        /\ texts[r].form = "none" <=> rows[r].prv.form = "none"
        /\ texts[r] = rows[r].prv \/ texts[r].form = "clear"
        /\ texts[r].form = "sealed" => ~Opens(rows[r].prv, loaded)
    BY <1>2, <1>3, OpenedText
  <2>2. Held(texts[r])
    BY <1>2, <2>1 DEF Held
  <2>3. Unopened(loaded) = {} => texts[r].form # "sealed"
    BY <2>1 DEF Unopened
  <2> QED
    BY <2>1, <2>2, <2>3
<1>6. /\ DOMAIN rows' = Refid /\ ArchiveRows' /\ ChainsResolve'
      /\ \A r \in Refid : RowTyped(rows'[r]) /\ Fits(rows'[r]) /\ rows'[r].prv = texts[r]
  BY <1>1, <1>4, <1>5, TextsStep
<1>7. RowsFine'
  <2>1. \A r \in Refid : RowTyped(rows'[r]) /\ Held(rows'[r].prv) /\ Fits(rows'[r])
    BY <1>5, <1>6
  <2> QED
    BY <1>1, <1>6, <2>1 DEF RowsFine, RowFine, Held, Fits, AtRest
<1>8. MasterFine'
  <2>1. busy' = "disabling" => NoneSealed'
    BY <1>1, <1>5, <1>6 DEF NoneSealed
  <2> QED
    BY <1>1, <2>1 DEF VaultInv, MasterFine, AtRest, Open
<1>9. MasterTypes'
  BY <1>1 DEF VaultInv, MasterTypes
<1> QED
  BY <1>6, <1>7, <1>8, <1>9 DEF VaultInv

\* A pass that seals the texts keeps the invariant.
LEMMA SealingInv ==
  ASSUME VaultInv, UNCHANGED archive, enable_encryption_seals \/ encrypt_all
  PROVE  VaultInv'
<1>1. CASE enable_encryption_seals
  <2>1. /\ busy = "enabling" /\ loaded' = AtRest /\ rows' = encrypt_all_keys(AtRest) /\ busy' = "no"
        /\ UNCHANGED <<keyFiles, pairs, masterFile, masters, envKey, safeMode, copy>>
    BY <1>1 DEF enable_encryption_seals
  <2>2. AtRest \in 0 .. EnvMaster /\ AtRest \in {masterFile, envKey, copy}
    <3>1. \A k \in {0, EnvMaster} \cup 0 .. MaxMaster : k \in 0 .. EnvMaster
      BY VaultDistinct DEF EnvMaster
    <3> QED
      BY <3>1 DEF AtRest, VaultInv, MasterTypes
  <2>3. NoneSealed
    BY <2>1 DEF VaultInv, MasterFine
  <2>4. MasterTypes'
    BY <2>1, <2>2 DEF VaultInv, MasterTypes
  <2> QED
    BY <2>1, <2>2, <2>3, <2>4, SealInv
<1>2. CASE encrypt_all
  <2>1. Open /\ loaded # 0 /\ rows' = encrypt_all_keys(loaded) /\ UNCHANGED <<masterVars, keyFiles, pairs>>
    BY <1>2 DEF encrypt_all
  <2>2. UNCHANGED <<masterFile, envKey, copy, safeMode>> /\ loaded' = loaded /\ busy' = "no"
    BY <2>1 DEF masterVars, Open
  <2>3. loaded \in 0 .. EnvMaster /\ loaded \in {masterFile, envKey, copy} /\ (copy = 0 => loaded = AtRest)
    BY <2>1 DEF VaultInv, MasterTypes, MasterFine
  <2>4. MasterTypes'
    BY <2>1 DEF VaultInv, MasterTypes, masterVars
  <2> QED
    BY <2>1, <2>2, <2>3, <2>4, SealInv
<1> QED
  BY <1>1, <1>2

----------------------------------------------------------------------------
(* Archives. *)

\* A step that leaves rows, keys and archive alone keeps the invariant.
LEMMA VaultKept ==
  ASSUME VaultInv, UNCHANGED <<vaultVars, archive>>
  PROVE  VaultInv'
<1>1. MasterTypes' /\ MasterFine'
  BY DEF VaultInv, vaultVars, MasterTypes, MasterFine, NoneSealed, AtRest
<1>2. UNCHANGED <<rows, copy, masterFile, envKey>>
  BY DEF vaultVars
<1>3. \A r \in Refid : Held(rows[r].prv) => Held(rows[r].prv)'
  BY <1>2 DEF Held, AtRest
<1> QED
  BY <1>1, <1>2, <1>3, MasterStepInv

\* Before any loss an archive holds every key, and the one of its certificate.
LEMMA ExportedText ==
  ASSUME VaultInv, Open, NEW r \in Refid, There(r), NEW e, e = ExportedKey(rows[r].prv)
  PROVE  /\ e \in {NoText} \cup {Clear(p) : p \in 0 .. MaxPair}
         /\ e.form = "none" <=> rows[r].prv.form = "none"
         /\ copy = 0 /\ e.form # "none" => e.pair = rows[r].prv.pair
<1>1. rows[r].prv \in Texts /\ Held(rows[r].prv)
  BY DEF VaultInv, RowsFine, RowFine, RowTyped, RowOf
<1>2. CASE rows[r].prv.form = "none"
  BY <1>2 DEF ExportedKey, NoText
<1>3. CASE rows[r].prv.form # "none" /\ Opens(rows[r].prv, loaded)
  <2>1. e = Clear(rows[r].prv.pair)
    BY <1>3 DEF ExportedKey
  <2>2. rows[r].prv.pair \in 0 .. MaxPair
    <3>1. CASE \E p \in 0 .. MaxPair : rows[r].prv = Clear(p)
      BY <3>1 DEF Clear
    <3>2. CASE \E p \in 0 .. MaxPair, j \in 1 .. EnvMaster : rows[r].prv = Sealed(p, j)
      BY <3>2 DEF Sealed
    <3>3. CASE rows[r].prv = NoText
      BY <1>3, <3>3 DEF NoText
    <3> QED
      BY <1>1, <3>1, <3>2, <3>3, TextsAre
  <2>3. e.form = "clear" /\ e.pair = rows[r].prv.pair
    BY <2>1 DEF Clear
  <2> QED
    BY <1>3, <2>1, <2>2, <2>3
<1>4. CASE rows[r].prv.form # "none" /\ ~Opens(rows[r].prv, loaded)
  <2>1. e = Clear(0) /\ 0 \in 0 .. MaxPair
    BY <1>4, Bounds DEF ExportedKey
  <2>2. e.form = "clear"
    BY <2>1 DEF Clear
  <2>3. copy # 0
    <3> SUFFICES ASSUME copy = 0 PROVE FALSE
      OBVIOUS
    <3>1. rows[r].prv.form = "sealed"
      <4>1. CASE \E p \in 0 .. MaxPair : rows[r].prv = Clear(p)
        BY <1>4, <4>1 DEF Clear, Opens
      <4>2. CASE \E p \in 0 .. MaxPair, j \in 1 .. EnvMaster : rows[r].prv = Sealed(p, j)
        BY <4>2 DEF Sealed
      <4>3. CASE rows[r].prv = NoText
        BY <1>4, <4>3 DEF NoText
      <4> QED
        BY <1>1, <4>1, <4>2, <4>3, TextsAre
    <3>2. rows[r].prv.by = AtRest /\ rows[r].prv.by # 0
      BY <1>1, <3>1 DEF Held
    <3>3. loaded # 0 /\ loaded = AtRest
      BY <3>1 DEF VaultInv, MasterFine, NoneSealed, Open
    <3> QED
      BY <1>4, <3>1, <3>2, <3>3 DEF Opens
  <2> QED
    BY <1>4, <2>1, <2>2, <2>3
<1> QED
  BY <1>2, <1>3, <1>4

\* A backup made keeps the invariant.
LEMMA CreateBackupInv ==
  ASSUME VaultInv, create_backup
  PROVE  VaultInv'
<1>1. Open /\ UNCHANGED vaultVars /\ archive'.rows = _export_certificates
  BY DEF create_backup
<1>2. UNCHANGED <<rows, copy, masterFile, envKey>>
  BY <1>1 DEF vaultVars
<1>3. RowsFine' /\ MasterTypes' /\ MasterFine' /\ ChainsResolve'
  <2>1. MasterTypes' /\ MasterFine'
    BY <1>1 DEF VaultInv, vaultVars, MasterTypes, MasterFine, NoneSealed, AtRest
  <2>2. ChainsResolve'
    BY <1>2 DEF VaultInv, ChainsResolve, There, Cas
  <2>3. RowsFine'
    BY <1>2 DEF VaultInv, RowsFine, RowFine, RowTyped, Held, Fits, AtRest
  <2> QED
    BY <2>1, <2>2, <2>3
<1> DEFINE saved == archive'.rows
<1>4. /\ DOMAIN saved = {x \in Refid : There(x)}
      /\ \A r \in {x \in Refid : There(x)} :
           saved[r] = [crt |-> rows[r].crt, prv |-> ExportedKey(rows[r].prv), caref |-> rows[r].caref, mixed |-> rows[r].mixed]
  BY <1>1 DEF _export_certificates
<1>5. ASSUME NEW r \in DOMAIN saved
      PROVE  EntryFine(r, archive.rows[r])'
  <2>1. r \in Refid /\ There(r)
    BY <1>4
  <2>2. /\ saved[r].crt = rows[r].crt /\ saved[r].prv = ExportedKey(rows[r].prv)
        /\ saved[r].caref = rows[r].caref /\ saved[r].mixed = rows[r].mixed
    <3>1. saved[r] = [crt |-> rows[r].crt, prv |-> ExportedKey(rows[r].prv), caref |-> rows[r].caref, mixed |-> rows[r].mixed]
      BY <1>4, <2>1
    <3> HIDE DEF saved
    <3> QED
      BY <3>1
  <2> DEFINE e == saved[r].prv
  <2>3. /\ e \in {NoText} \cup {Clear(p) : p \in 0 .. MaxPair}
        /\ e.form = "none" <=> rows[r].prv.form = "none"
        /\ copy = 0 /\ e.form # "none" => e.pair = rows[r].prv.pair
    BY <1>1, <2>1, <2>2, ExportedText
  <2> HIDE DEF e
  <2>4. rows[r] \in RowOf /\ Held(rows[r].prv) /\ Fits(rows[r])
    BY <2>1 DEF VaultInv, RowsFine, RowFine, RowTyped
  <2>5. saved[r].crt \in 0 .. MaxPair /\ saved[r].mixed \in BOOLEAN /\ saved[r].caref \in {""} \cup Authority
    BY <2>2, <2>4 DEF RowOf
  <2>6. saved[r].caref \in {""} \cup DOMAIN saved
    BY <1>4, <2>1, <2>2 DEF VaultInv, ChainsResolve, Cas, Refid
  <2>7. copy = 0 /\ e.form # "none" =>
          /\ e.pair # 0
          /\ ~saved[r].mixed /\ saved[r].crt # 0 => e.pair = saved[r].crt
          /\ ~saved[r].mixed /\ saved[r].crt = 0 /\ rows[r].csr # 0 => e.pair = rows[r].csr
    BY <2>2, <2>3, <2>4 DEF Held, Fits
  <2>8. rows[r].is # "unused"
    BY <2>1 DEF There
  <2> HIDE DEF saved
  <2>9. saved = archive'.rows /\ e = saved[r].prv
    BY DEF saved, e
  <2> QED
    BY <1>2, <2>3, <2>5, <2>6, <2>7, <2>8, <2>9 DEF EntryFine
<1>6. ArchiveRows'
  <2>1. DOMAIN archive'.rows \subseteq Refid
    BY <1>4
  <2> QED
    BY <1>5, <2>1 DEF ArchiveRows
<1> QED
  BY <1>3, <1>6 DEF VaultInv

\* A key of an archive is stored again.
LEMMA ArchivedText ==
  ASSUME NEW u \in {NoText} \cup {Clear(p) : p \in 0 .. MaxPair}, NEW k \in 0 .. EnvMaster
  PROVE  /\ encrypt(u, k) \in Texts /\ encrypt(u, k).pair = u.pair
         /\ encrypt(u, k).form = "none" <=> u.form = "none"
         /\ encrypt(u, k).form = "sealed" => k # 0 /\ encrypt(u, k).by = k
<1>1. u \in Texts
  BY TextsAre
<1>2. u.form # "sealed"
  <2>1. CASE u = NoText
    BY <2>1 DEF NoText
  <2>2. CASE \E p \in 0 .. MaxPair : u = Clear(p)
    BY <2>2 DEF Clear
  <2> QED
    BY <2>1, <2>2
<1>3. PICK w : w = encrypt(u, k)
  OBVIOUS
<1>4. /\ w \in Texts /\ w.pair = u.pair /\ (w.form = "none" <=> u.form = "none")
      /\ w = u \/ (k # 0 /\ w.form = "sealed" /\ w.by = k /\ u.form # "sealed")
  BY <1>1, <1>3, SealedText
<1> QED
  BY <1>2, <1>3, <1>4

\* One row of an archive is written back.
LEMMA RestoredRowFine ==
  ASSUME VaultInv, Open, archive.made, NEW r \in DOMAIN archive.rows, NEW row, row = RestoredRow(archive, r, rows[r])
  PROVE  /\ RowFine(row) /\ Follows(rows[r], row) /\ row.is = "there"
         /\ row.prv.form = "sealed" => loaded # 0
         /\ There(r) => row.caref = rows[r].caref
         /\ ~There(r) => row.caref \in {""} \cup (Authority \cap DOMAIN archive.rows)
<1> DEFINE e == archive.rows[r]
           t == encrypt(e.prv, loaded)
<1>1. r \in Refid /\ EntryFine(r, e)
  BY DEF VaultInv, ArchiveRows
<1>2. rows[r] \in RowOf /\ RowTyped(rows[r])
  BY <1>1 DEF VaultInv, RowsFine, RowFine, RowTyped
<1>3. /\ e.prv \in {NoText} \cup {Clear(p) : p \in 0 .. MaxPair}
      /\ e.crt \in 0 .. MaxPair /\ e.mixed \in BOOLEAN /\ e.caref \in {""} \cup Authority
      /\ e.caref \in {""} \cup DOMAIN archive.rows
  BY <1>1 DEF EntryFine
<1>4. /\ t \in Texts /\ t.pair = e.prv.pair /\ (t.form = "none" <=> e.prv.form = "none")
      /\ t.form = "sealed" => loaded # 0 /\ t.by = loaded
  <2>1. loaded \in 0 .. EnvMaster
    BY DEF VaultInv, MasterTypes
  <2> HIDE DEF e
  <2> QED
    BY <1>3, <2>1, ArchivedText
<1>5. copy = 0 /\ t.form # "none" =>
        /\ t.pair # 0
        /\ ~e.mixed /\ e.crt # 0 => t.pair = e.crt
        /\ ~e.mixed /\ e.crt = 0 /\ There(r) /\ rows[r].csr # 0 => t.pair = rows[r].csr
  <2> HIDE DEF e, t
  <2> QED
    BY <1>1, <1>4 DEF EntryFine
<1>6. Held(t)
  <2> HIDE DEF e, t
  <2> QED
    BY <1>4, <1>5 DEF Held, VaultInv, MasterFine
<1>7. CASE There(r)
  <2>1. row = [rows[r] EXCEPT !.crt = e.crt, !.prv = t, !.mixed = e.mixed]
    BY <1>7 DEF RestoredRow, There
  <2> HIDE DEF e, t
  <2>2. /\ row \in RowOf /\ row.is = "there" /\ row.csr = rows[r].csr /\ row.caref = rows[r].caref
        /\ row.prv = t /\ row.crt = e.crt /\ row.mixed = e.mixed
    BY <1>2, <1>3, <1>4, <1>7, <2>1 DEF RowOf, There
  <2>3. Fits(row)
    BY <1>5, <1>7, <2>2 DEF Fits
  <2>4. RowFine(row)
    BY <1>6, <2>2, <2>3 DEF RowFine, RowTyped
  <2>5. Follows(rows[r], row)
    BY <1>7, <2>2 DEF Follows, There
  <2> QED
    BY <1>4, <1>7, <2>2, <2>4, <2>5
<1>8. CASE ~There(r)
  <2>1. row = [NoRow EXCEPT !.is = "there", !.crt = e.crt, !.prv = t, !.caref = e.caref, !.mixed = e.mixed]
    BY <1>8 DEF RestoredRow, There
  <2> HIDE DEF e, t
  <2>2. /\ row \in RowOf /\ row.is = "there" /\ row.csr = 0 /\ row.caref = e.caref
        /\ row.prv = t /\ row.crt = e.crt /\ row.mixed = e.mixed
    BY <1>3, <1>4, <2>1, Bounds DEF RowOf, NoRow
  <2>3. Fits(row)
    BY <1>5, <2>2 DEF Fits
  <2>4. RowFine(row)
    BY <1>6, <2>2, <2>3 DEF RowFine, RowTyped
  <2>5. Follows(rows[r], row)
    BY <2>2 DEF Follows
  <2>6. row.caref \in {""} \cup (Authority \cap DOMAIN archive.rows)
    BY <1>3, <2>2
  <2> QED
    BY <1>4, <1>8, <2>2, <2>4, <2>5, <2>6
<1> QED
  BY <1>7, <1>8

\* The rows restored from the archive keep the invariant.
LEMMA RestoreInv ==
  ASSUME VaultInv, restore_backup
  PROVE  VaultInv'
<1>1. /\ Open /\ archive.made /\ rows' = RestoredRows(archive, rows) /\ busy' = "restoring"
      /\ UNCHANGED <<keyFiles, pairs, masterFile, masters, envKey, loaded, safeMode, copy, archive>>
  BY DEF restore_backup
<1> DEFINE A == DOMAIN archive.rows
<1>2. A \subseteq Refid
  BY <1>1 DEF VaultInv, ArchiveRows
<1>3. /\ DOMAIN rows' = Refid
      /\ \A r \in A : rows'[r] = RestoredRow(archive, r, rows[r])
      /\ \A r \in Refid \ A : rows'[r] = rows[r]
  BY <1>1, <1>2 DEF RestoredRows
<1> HIDE DEF A
<1>4. ASSUME NEW r \in A
      PROVE  /\ RowFine(rows'[r]) /\ Follows(rows[r], rows'[r]) /\ rows'[r].is = "there"
             /\ rows'[r].prv.form = "sealed" => loaded # 0
             /\ There(r) => rows'[r].caref = rows[r].caref
             /\ ~There(r) => rows'[r].caref \in {""} \cup (Authority \cap A)
  BY <1>1, <1>3, RestoredRowFine DEF A
<1>5. \A r \in Refid : RowFine(rows'[r]) /\ Follows(rows[r], rows'[r])
  BY <1>3, <1>4 DEF VaultInv, RowsFine, Follows
<1>6. \A r \in Refid : rows'[r].prv.form = "sealed" => rows[r].prv.form = "sealed" \/ loaded # 0
  BY <1>3, <1>4
<1>7. ChainsResolve'
  <2>1. \A c \in Cas : c \in Cas'
    BY <1>3, <1>4 DEF Cas, There, Refid
  <2>2. \A c \in Authority \cap A : c \in Cas'
    BY <1>4 DEF Cas, There
  <2> SUFFICES ASSUME NEW r \in Refid, There(r)', rows'[r].caref # ""
               PROVE  rows'[r].caref \in Cas'
    BY DEF ChainsResolve
  <2>3. CASE There(r)
    <3>1. rows'[r].caref = rows[r].caref
      BY <1>3, <1>4, <2>3
    <3>2. rows[r].caref \in {""} \cup Cas
      BY <2>3 DEF VaultInv, ChainsResolve
    <3> QED
      BY <2>1, <3>1, <3>2
  <2>4. CASE ~There(r)
    <3>1. r \in A
      BY <1>3, <2>4 DEF There
    <3> QED
      BY <1>4, <2>2, <2>4, <3>1
  <2> QED
    BY <2>3, <2>4
<1>8. MasterTypes'
  BY <1>1 DEF VaultInv, MasterTypes
<1> QED
  BY <1>1, <1>3, <1>5, <1>6, <1>7, <1>8, RowStep

\* The rest of a restore and its answer keep the invariant.
LEMMA RestoreEndsInv ==
  ASSUME VaultInv, restore_rest \/ restore_answer
  PROVE  VaultInv'
<1>1. /\ UNCHANGED <<rows, pairs, masterFile, masters, envKey, loaded, safeMode, copy, archive>>
      /\ busy \in {"restoring", "restored"} /\ busy' \in {"restored", "no"}
      /\ keyFiles' \in {RestoredFiles, keyFiles}
  BY DEF restore_rest, restore_answer, backupVars
<1>2. RestoredFiles \in [Refid -> 0 .. Cipher]
  <2>1. \A r \in Refid : rows[r].prv \in Texts
    BY DEF VaultInv, RowsFine, RowFine, RowTyped, RowOf
  <2>2. ASSUME NEW t \in Texts
        PROVE  t.pair \in 0 .. Cipher
    <3>1. CASE t = NoText
      BY <3>1, Bounds DEF NoText
    <3>2. CASE \E p \in 0 .. MaxPair : t = Clear(p)
      BY <3>2, Bounds DEF Clear
    <3>3. CASE \E p \in 0 .. MaxPair, j \in 1 .. EnvMaster : t = Sealed(p, j)
      BY <3>3, Bounds DEF Sealed
    <3> QED
      BY <3>1, <3>2, <3>3, TextsAre
  <2>3. Cipher \in 0 .. Cipher
    BY VaultDistinct DEF Cipher
  <2>4. \A r \in Refid : keyFiles[r] \in 0 .. Cipher
    BY DEF VaultInv, MasterTypes
  <2> QED
    BY <2>1, <2>2, <2>3, <2>4 DEF RestoredFiles
<1>3. MasterTypes'
  BY <1>1, <1>2 DEF VaultInv, MasterTypes
<1>4. MasterFine'
  BY <1>1 DEF VaultInv, MasterFine, NoneSealed, AtRest
<1>5. \A r \in Refid : Held(rows[r].prv) => Held(rows[r].prv)'
  BY <1>1 DEF Held, AtRest
<1> QED
  BY <1>1, <1>3, <1>4, <1>5, MasterStepInv

\* Every step of the backup keeps the invariant of rows and keys.
LEMMA VaultStepInv ==
  ASSUME VaultInv, [BackupNext]_allVars
  PROVE  VaultInv'
<1>1. CASE KeyStep /\ UNCHANGED archive
  <2> USE <1>1
  <2>1. CASE CaStep
    BY <2>1, CaStepInv
  <2>2. CASE LeafStep \/ \E l \in Leaf : revoke_certificate(l)
    BY <2>2, LeafStepInv
  <2>3. CASE MasterStep
    BY <2>3, EnableInv, DisableInv, SealingInv DEF MasterStep
  <2>4. CASE HostStep
    BY <2>4, HostStepInv
  <2>5. CASE enable_encryption_seals
    BY <2>5, SealingInv
  <2>6. CASE disable_encryption_unloads
    BY <2>6, UnloadInv
  <2> QED
    BY <2>1, <2>2, <2>3, <2>4, <2>5, <2>6 DEF KeyStep
<1>2. CASE UNCHANGED <<vaultVars, archive>>
  BY <1>2, VaultKept
<1>3. CASE Restart /\ UNCHANGED <<accountVars, backupVars>>
  BY <1>3, RestartInv DEF backupVars
<1>4. CASE create_backup
  BY <1>4, CreateBackupInv
<1>5. CASE restore_backup
  BY <1>5, RestoreInv
<1>6. CASE restore_rest \/ restore_answer
  BY <1>6, RestoreEndsInv
<1> QED
  BY <1>1, <1>2, <1>3, <1>4, <1>5, <1>6 DEF BackupNext, allVars, backupVars

(* Every stored key can be opened with a master key at hand, whatever mix of *)
(* operations, crashes, restarts, backups and restores there was: the        *)
(* strengthening on which the theorems on keys rest (encryption.py).         *)
THEOREM VaultInvariance == BackupSpec => []VaultInv
<1>1. BackupInit => VaultInv
  BY VaultInitInv
<1>2. VaultInv /\ [BackupNext]_allVars => VaultInv'
  BY VaultStepInv
<1> QED
  BY <1>1, <1>2, PTL DEF BackupSpec

(* Encryption at rest never loses a key (system.py:665-773), for any number *)
(* of rows, pairs and master keys.                                          *)
THEOREM NoKeyLost == BackupSpec => []KeysRecoverable
<1>1. VaultInv => KeysRecoverable
  <2> SUFFICES ASSUME VaultInv, NEW r \in Refid
               PROVE  /\ copy = 0 => Opens(rows[r].prv, AtRest) \/ rows[r].prv.form = "none"
                      /\ copy = 0 => (rows[r].prv.form = "none" \/ rows[r].prv.pair # 0)
                      /\ rows[r].prv.form = "sealed" => rows[r].prv.by \in {masterFile, envKey, copy}
    BY DEF KeysRecoverable
  <2>1. rows[r].prv \in Texts /\ Held(rows[r].prv)
    BY DEF VaultInv, RowsFine, RowFine, RowTyped, RowOf
  <2>2. rows[r].prv.form \in {"none", "clear", "sealed"}
    <3>1. CASE rows[r].prv = NoText
      BY <3>1 DEF NoText
    <3>2. CASE \E p \in 0 .. MaxPair : rows[r].prv = Clear(p)
      BY <3>2 DEF Clear
    <3>3. CASE \E p \in 0 .. MaxPair, j \in 1 .. EnvMaster : rows[r].prv = Sealed(p, j)
      BY <3>3 DEF Sealed
    <3> QED
      BY <2>1, <3>1, <3>2, <3>3, TextsAre
  <2> QED
    BY <2>1, <2>2 DEF Held, Opens
<1> QED
  BY <1>1, VaultInvariance, PTL

(* The key of a row is that of its certificate, and the CA a row names is   *)
(* there (cas.py:464-478, backup_service.py:816-890).                       *)
THEOREM RowsStaySound == BackupSpec => []StoredRowsSound
<1>1. VaultInv => StoredRowsSound
  BY DEF VaultInv, RowsFine, RowFine, Fits, StoredRowsSound, KeysMatch
<1> QED
  BY <1>1, VaultInvariance, PTL

\* Which steps write a key file that was not there.
LEMMA FilesStep ==
  ASSUME VaultInv, [BackupNext]_allVars, NEW r \in Refid, busy # "restoring",
         keyFiles[r] = 0, keyFiles'[r] # 0, rows'[r].prv.pair # 0
  PROVE  keyFiles'[r] = rows'[r].prv.pair
<1>0. DOMAIN rows = Refid /\ keyFiles \in [Refid -> 0 .. Cipher]
  BY DEF VaultInv, RowsFine, MasterTypes
<1>1. CASE \E c \in Authority : \E parent \in {""} \cup Authority : create_internal_ca(c, parent)
  <2>1. PICK c \in Refid : \E parent : create_internal_ca(c, parent)
    BY <1>1 DEF Refid
  <2>2. PICK p \in 1 .. MaxPair :
          /\ keyFiles' = [keyFiles EXCEPT ![c] = p]
          /\ \E parent : Write(c, [NoRow EXCEPT !.is = "there", !.crt = p, !.prv = encrypt(Clear(p), loaded), !.caref = parent])
    BY <2>1 DEF create_internal_ca
  <2>3. r = c /\ keyFiles'[r] = p
    BY <1>0, <2>2
  <2>4. rows'[r].prv = encrypt(Clear(p), loaded)
    BY <1>0, <2>2, <2>3 DEF Write, NoRow
  <2> QED
    BY <2>3, <2>4 DEF encrypt, Clear, Sealed
<1>2. CASE \E l \in Leaf, c \in Authority : create_mtls_certificate(l, c)
  <2>1. PICK l \in Refid : \E c : create_mtls_certificate(l, c)
    BY <1>2 DEF Refid
  <2>2. PICK p \in 1 .. MaxPair :
          /\ keyFiles' = [keyFiles EXCEPT ![l] = p]
          /\ \E c : Write(l, [NoRow EXCEPT !.is = "there", !.crt = p, !.prv = encrypt(Clear(p), loaded), !.caref = c])
    BY <2>1 DEF create_mtls_certificate
  <2>3. r = l /\ keyFiles'[r] = p
    BY <1>0, <2>2
  <2>4. rows'[r].prv = encrypt(Clear(p), loaded)
    BY <1>0, <2>2, <2>3 DEF Write, NoRow
  <2> QED
    BY <2>3, <2>4 DEF encrypt, Clear, Sealed
<1>3. CASE \E l \in Leaf : generate_csr(l)
  <2>1. PICK l \in Refid : generate_csr(l)
    BY <1>3 DEF Refid
  <2>2. PICK p \in 1 .. MaxPair :
          /\ keyFiles' = [keyFiles EXCEPT ![l] = p]
          /\ Write(l, [NoRow EXCEPT !.is = "there", !.csr = p, !.prv = Clear(p)])
    BY <2>1 DEF generate_csr
  <2>3. r = l /\ keyFiles'[r] = p
    BY <1>0, <2>2
  <2>4. rows'[r].prv = Clear(p)
    BY <1>0, <2>2, <2>3 DEF Write, NoRow
  <2> QED
    BY <2>3, <2>4 DEF Clear
<1>4. CASE \E l \in Leaf : delete_csr(l)
  BY <1>0, <1>4 DEF delete_csr
<1>5. CASE Restart
  BY <1>5 DEF Restart, regenerate_all_files
<1>6. CASE UNCHANGED keyFiles
  BY <1>6
<1>7. CASE KeyStep
  <2>1. CASE CaStep
    BY <1>1, <1>6, <2>1 DEF CaStep, import_ca, import_existing_ca, delete_ca
  <2>2. CASE LeafStep
    BY <1>2, <1>3, <1>4, <1>6, <2>2 DEF LeafStep, create_certificate, import_certificate, upload_csr, upload_csr_private_key,
       upload_private_key, sign_csr, renew_certificate, bulk_renew_certificates, delete_certificate, bulk_sign_csrs,
       bulk_delete_certificates
  <2>3. CASE \E l \in Leaf : revoke_certificate(l)
    BY <1>6, <2>3 DEF revoke_certificate
  <2>4. CASE MasterStep \/ HostStep \/ enable_encryption_seals \/ disable_encryption_unloads
    BY <1>6, <2>4 DEF MasterStep, HostStep, enable_encryption, disable_encryption, encrypt_all, LoseKeyFile, ReturnKeyFile,
       SetEnv, enable_encryption_seals, disable_encryption_unloads
  <2> QED
    BY <1>7, <2>1, <2>2, <2>3, <2>4 DEF KeyStep
<1>8. CASE UNCHANGED vaultVars
  BY <1>6, <1>8 DEF vaultVars
<1>9. CASE create_backup \/ restore_backup \/ restore_answer
  BY <1>6, <1>9 DEF create_backup, restore_backup, restore_answer, vaultVars
<1>10. CASE restore_rest
  BY <1>10 DEF restore_rest
<1> QED
  BY <1>5, <1>7, <1>8, <1>9, <1>10 DEF BackupNext, allVars

(* Outside of a restore a key file that appears holds the key of its row,   *)
(* sealed or not (file_regen_service.py:58-119).                            *)
THEOREM FilesAreFaithful == BackupSpec => FilesFaithful
<1>1. VaultInv /\ [BackupNext]_allVars =>
        [\A r \in Refid :
           keyFiles[r] = 0 /\ keyFiles'[r] # 0 /\ busy # "restoring" /\ rows'[r].prv.pair # 0
             => keyFiles'[r] = rows'[r].prv.pair]_allVars
  BY FilesStep
<1> QED
  BY <1>1, VaultInvariance, PTL DEF BackupSpec, FilesFaithful

----------------------------------------------------------------------------
(* Accounts and the other tables. *)

KeyOf == [owner : 0 .. MaxId, active : BOOLEAN]
Numbered(f) == f \in [Person -> 0 .. MaxId] /\ \A x, y \in Person : x # y /\ f[x] # 0 => f[x] # f[y]

AccountFine ==
  /\ Numbered(people) /\ members \subseteq 0 .. MaxId /\ apiKey \in KeyOf
  /\ tables \in [Table -> 0 .. 2]

ArchiveFine ==
  archive.made => /\ archive.people \subseteq Person /\ archive.members \subseteq 0 .. MaxId
                  /\ archive.apiKey \in KeyOf /\ \A t \in Table : archive.tables[t] \in 0 .. 2

\* The next number is above every number in use.
LEMMA NextAbove ==
  ASSUME NEW f \in [Person -> 0 .. MaxId]
  PROVE  NextId(f) \in Nat \ {0} /\ \A q \in Person : f[q] < NextId(f)
<1>0. MaxId \in Nat
  BY BackupAssumption
<1>1. CASE Ids(f) = {}
  <2>1. NextId(f) = 1
    BY <1>1 DEF NextId
  <2>2. \A q \in Person : f[q] = 0
    BY <1>1 DEF Ids
  <2> QED
    BY <2>1, <2>2
<1>2. CASE Ids(f) # {}
  <2> DEFINE S == Ids(f)
  <2>1. S \subseteq 0 .. MaxId /\ S # {}
    BY <1>2 DEF Ids
  <2> HIDE DEF S
  <2>2. \E x \in S : \A y \in S : y <= x
    BY <1>0, <2>1, NatMax
  <2>3. \E x \in S : \A y \in S : x >= y
    BY <1>0, <2>1, <2>2
  <2>4. Max(S) \in S /\ \A y \in S : Max(S) >= y
    BY <2>3 DEF Max
  <2>5. Max(S) \in Nat
    <3>1. \A x \in S : x \in Nat
      BY <1>0, <2>1
    <3>2. Max(S) \in S
      BY <2>4
    <3> QED
      BY <3>1, <3>2
  <2>6. NextId(f) = 1 + Max(S)
    BY <1>2 DEF NextId, S
  <2>7. ASSUME NEW q \in Person PROVE f[q] < NextId(f)
    <3>1. CASE f[q] = 0
      BY <2>5, <2>6, <3>1
    <3>2. CASE f[q] # 0
      <4>1. f[q] \in S
        BY <3>2 DEF S, Ids
      <4>2. f[q] \in Nat /\ Max(S) >= f[q]
        BY <1>0, <2>4, <4>1
      <4> QED
        BY <2>5, <2>6, <4>2
    <3> QED
      BY <3>1, <3>2
  <2> QED
    BY <2>5, <2>6, <2>7
<1> QED
  BY <1>1, <1>2

\* Every finite set is counted by some one-to-one function.
LEMMA Ranked ==
  ASSUME NEW S, IsFiniteSet(S)
  PROVE  \E f \in [S -> 1 .. Cardinality(S)] : \A x, y \in S : x # y => f[x] # f[y]
<1>1. ExistsBijection(1 .. Cardinality(S), S)
  BY FS_CardinalityType
<1>2. ExistsBijection(S, 1 .. Cardinality(S))
  BY <1>1, Fun_ExistsBijSymmetric
<1>3. PICK f \in Bijection(S, 1 .. Cardinality(S)) : TRUE
  BY <1>2 DEF ExistsBijection
<1>4. f \in [S -> 1 .. Cardinality(S)] /\ \A a, b \in DOMAIN f : f[a] = f[b] => a = b
  BY <1>3 DEF Bijection, Injection, IsInjective
<1> QED
  BY <1>4

\* A restore adds who is missing and renumbers nobody.
LEMMA RestoredPeopleFine ==
  ASSUME NEW a, a.people \subseteq Person, NEW old, Numbered(old), NEW new, new = RestoredPeople(a, old)
  PROVE  /\ DOMAIN new = Person /\ new = [q \in Person |-> new[q]]
         /\ \A q \in Person : new[q] \in Nat /\ (old[q] # 0 => new[q] = old[q])
         /\ \A q \in a.people : new[q] # 0
         /\ \A q \in Person : new[q] # 0 => old[q] # 0 \/ q \in a.people
         /\ \A x, y \in Person : x # y /\ new[x] # 0 => new[x] # new[y]
<1> DEFINE missing == {q \in a.people : old[q] = 0}
           Place == CHOOSE f \in [missing -> 1 .. Cardinality(missing)] : \A x, y \in missing : x # y => f[x] # f[y]
<1>1. new = [q \in Person |-> IF q \in missing THEN NextId(old) + Place[q] - 1 ELSE old[q]]
  BY DEF RestoredPeople
<1>2. /\ missing \subseteq Person /\ \A q \in a.people : q \notin missing => old[q] # 0
      /\ missing \subseteq a.people /\ \A q \in missing : old[q] = 0
  OBVIOUS
<1> HIDE DEF missing
<1>3. IsFiniteSet(missing)
  BY <1>2, BackupAssumption, FS_Subset
<1>4. Place \in [missing -> 1 .. Cardinality(missing)] /\ \A x, y \in missing : x # y => Place[x] # Place[y]
  BY <1>3, Ranked
<1> HIDE DEF Place
<1>5. \A q \in missing : Place[q] \in Nat /\ Place[q] >= 1
  <2>1. Cardinality(missing) \in Nat
    BY <1>3, FS_CardinalityType
  <2> QED
    BY <1>4, <2>1
<1>6. old \in [Person -> 0 .. MaxId] /\ MaxId \in Nat
  BY BackupAssumption DEF Numbered
<1>7. NextId(old) \in Nat \ {0} /\ \A q \in Person : old[q] < NextId(old)
  BY <1>6, NextAbove
<1>8. \A q \in missing : new[q] = NextId(old) + Place[q] - 1 /\ new[q] \in Nat /\ new[q] >= NextId(old) /\ new[q] # 0
  BY <1>1, <1>2, <1>5, <1>7
<1>9. \A q \in Person \ missing : new[q] = old[q] /\ new[q] \in Nat
  BY <1>1, <1>6
<1>10. \A x, y \in Person : x # y /\ new[x] # 0 => new[x] # new[y]
  <2> SUFFICES ASSUME NEW x \in Person, NEW y \in Person, x # y, new[x] # 0 PROVE new[x] # new[y]
    OBVIOUS
  <2>1. CASE x \in missing /\ y \in missing
    <3>1. Place[x] # Place[y] /\ Place[x] \in Nat /\ Place[y] \in Nat
      BY <1>4, <1>5, <2>1
    <3>2. new[x] = NextId(old) + Place[x] - 1 /\ new[y] = NextId(old) + Place[y] - 1
      BY <1>8, <2>1
    <3> QED
      BY <1>7, <3>1, <3>2
  <2>2. CASE x \in missing /\ y \notin missing
    <3>1. new[x] >= NextId(old) /\ new[y] < NextId(old) /\ new[x] \in Nat /\ new[y] \in Nat
      BY <1>7, <1>8, <1>9, <2>2
    <3> QED
      BY <1>7, <3>1
  <2>3. CASE x \notin missing /\ y \in missing
    <3>1. new[y] >= NextId(old) /\ new[x] < NextId(old) /\ new[x] \in Nat /\ new[y] \in Nat
      BY <1>7, <1>8, <1>9, <2>3
    <3> QED
      BY <1>7, <3>1
  <2>4. CASE x \notin missing /\ y \notin missing
    BY <1>9, <2>4 DEF Numbered
  <2> QED
    BY <2>1, <2>2, <2>3, <2>4
<1>11. DOMAIN new = Person /\ new = [q \in Person |-> new[q]]
  BY <1>1
<1>12. \A q \in Person : new[q] \in Nat /\ (old[q] # 0 => new[q] = old[q])
  BY <1>2, <1>8, <1>9
<1>13. \A q \in a.people : new[q] # 0
  BY <1>2, <1>8, <1>9
<1>14. \A q \in Person : new[q] # 0 => old[q] # 0 \/ q \in a.people
  BY <1>2, <1>9
<1> QED
  BY <1>10, <1>11, <1>12, <1>13, <1>14

\* Nobody is missing the second time.
LEMMA RestoredPeopleTwice ==
  ASSUME NEW a, NEW old, DOMAIN old = Person, old = [q \in Person |-> old[q]], \A q \in a.people : old[q] # 0
  PROVE  RestoredPeople(a, old) = old
<1>1. {q \in a.people : old[q] = 0} = {}
  OBVIOUS
<1>2. RestoredPeople(a, old) = [q \in Person |-> old[q]]
  BY <1>1 DEF RestoredPeople
<1> QED
  BY <1>2

\* The accounts and the archive are as they must be before the first operation.
LEMMA AccountInitInv == BackupInit => AccountFine /\ ArchiveFine
<1> SUFFICES ASSUME BackupInit PROVE AccountFine /\ ArchiveFine
  OBVIOUS
<1>0. 0 \in 0 .. MaxId /\ 0 \in 0 .. 2
  BY BackupAssumption
<1>1. Numbered(people) /\ members \subseteq 0 .. MaxId
  BY <1>0 DEF BackupInit, Numbered
<1>2. apiKey \in KeyOf
  BY <1>0 DEF BackupInit, KeyOf
<1>3. tables \in [Table -> 0 .. 2]
  BY <1>0 DEF BackupInit
<1>4. ArchiveFine
  BY DEF BackupInit, ArchiveFine, NoArchive
<1> QED
  BY <1>1, <1>2, <1>3, <1>4 DEF AccountFine

\* A restored API key is a row of an API key.
LEMMA MergedApiKey ==
  ASSUME NEW a, a.apiKey \in KeyOf, NEW old \in KeyOf
  PROVE  RestoredApiKey(a, old) \in KeyOf
  BY DEF RestoredApiKey, KeyOf

\* Of each table the version of the archive wins, if it has one.
Won(new, old) == IF new = 0 THEN old ELSE new

\* A restore sets the tables it names and no others.
LEMMA MergedTables ==
  ASSUME NEW a, \A t \in Table : a.tables[t] \in 0 .. 2, NEW old \in [Table -> 0 .. 2]
  PROVE  /\ RestoredSettings(a, old) \in [Table -> 0 .. 2]
         /\ RestoredSettings(a, old)["settings"] = Won(a.tables["settings"], old["settings"])
         /\ \A t \in {"named", "configs"} : RestoredSettings(a, old)[t] = old[t]
         /\ RestoredNamed(a, old) \in [Table -> 0 .. 2]
         /\ RestoredNamed(a, old)["named"] = Won(a.tables["named"], old["named"])
         /\ \A t \in {"settings", "configs"} : RestoredNamed(a, old)[t] = old[t]
         /\ RestoredConfigs(a, old) \in [Table -> 0 .. 2]
         /\ RestoredConfigs(a, old)["configs"] = Won(a.tables["configs"], old["configs"])
         /\ \A t \in {"settings", "named"} : RestoredConfigs(a, old)[t] = old[t]
<1>1. "settings" \in Table /\ "named" \in Table /\ "configs" \in Table
  BY DEF Table
<1>2. /\ RestoredSettings(a, old) \in [Table -> 0 .. 2]
      /\ RestoredSettings(a, old)["settings"] = Won(a.tables["settings"], old["settings"])
      /\ \A t \in {"named", "configs"} : RestoredSettings(a, old)[t] = old[t]
  BY <1>1 DEF RestoredSettings, Won
<1>3. /\ RestoredNamed(a, old) \in [Table -> 0 .. 2]
      /\ RestoredNamed(a, old)["named"] = Won(a.tables["named"], old["named"])
      /\ \A t \in {"settings", "configs"} : RestoredNamed(a, old)[t] = old[t]
  BY <1>1 DEF RestoredNamed, Won
<1>4. /\ RestoredConfigs(a, old) \in [Table -> 0 .. 2]
      /\ RestoredConfigs(a, old)["configs"] = Won(a.tables["configs"], old["configs"])
      /\ \A t \in {"settings", "named"} : RestoredConfigs(a, old)[t] = old[t]
  BY <1>1 DEF RestoredConfigs, Won
<1> QED
  BY <1>2, <1>3, <1>4

\* An operation on the accounts keeps their invariant.
LEMMA AccountStepFine ==
  ASSUME AccountFine, AccountStep
  PROVE  AccountFine'
<1>0. MaxId \in Nat
  BY BackupAssumption
<1>1. Numbered(people) /\ members \subseteq 0 .. MaxId /\ apiKey \in KeyOf /\ tables \in [Table -> 0 .. 2]
  BY DEF AccountFine
<1>2. ASSUME NEW q \in Person, create_user(q)
      PROVE  AccountFine'
  <2>1. /\ people[q] = 0 /\ NextId(people) <= MaxId /\ people' = [people EXCEPT ![q] = NextId(people)]
        /\ UNCHANGED <<members, apiKey, tables>>
    BY <1>2 DEF create_user
  <2>2. NextId(people) \in Nat \ {0} /\ \A x \in Person : people[x] < NextId(people)
    BY <1>1, NextAbove DEF Numbered
  <2>3. NextId(people) \in 0 .. MaxId
    BY <1>0, <2>1, <2>2
  <2>4. \A x \in Person : people[x] \in Nat /\ people[x] # NextId(people)
    BY <1>0, <1>1, <2>2 DEF Numbered
  <2>5. Numbered(people')
    BY <1>1, <2>1, <2>3, <2>4 DEF Numbered
  <2> QED
    BY <1>1, <2>1, <2>5 DEF AccountFine, Numbered
<1>3. ASSUME NEW q \in Person, ElsewhereLacks(q)
      PROVE  AccountFine'
  <2>1. /\ people' = [people EXCEPT ![q] = 0] /\ members' \subseteq members
        /\ apiKey' \in {apiKey, [owner |-> 0, active |-> FALSE]} /\ UNCHANGED tables
    BY <1>3 DEF ElsewhereLacks
  <2>2. 0 \in 0 .. MaxId
    BY <1>0
  <2>3. Numbered(people')
    BY <1>1, <2>1, <2>2 DEF Numbered
  <2>4. apiKey' \in KeyOf
    <3>1. [owner |-> 0, active |-> FALSE] \in KeyOf
      BY <2>2 DEF KeyOf
    <3> QED
      BY <1>1, <2>1, <3>1
  <2> QED
    BY <1>1, <2>1, <2>3, <2>4 DEF AccountFine, Numbered
<1>4. ASSUME NEW q \in Person, add_group_member(q)
      PROVE  AccountFine'
  BY <1>1, <1>4 DEF add_group_member, AccountFine, Numbered
<1>5. ASSUME NEW q \in Person, create_api_key(q)
      PROVE  AccountFine'
  <2>1. apiKey' \in KeyOf
    <3>1. people[q] \in 0 .. MaxId /\ apiKey' = [owner |-> people[q], active |-> TRUE]
      BY <1>1, <1>5 DEF create_api_key, Numbered
    <3> QED
      BY <3>1 DEF KeyOf
  <2> QED
    BY <1>1, <1>5, <2>1 DEF create_api_key, AccountFine, Numbered
<1>6. CASE delete_api_key
  <2>1. apiKey' \in KeyOf
    BY <1>1, <1>6 DEF delete_api_key, KeyOf
  <2> QED
    BY <1>1, <1>6, <2>1 DEF delete_api_key, AccountFine, Numbered
<1>7. CASE new_acme_account
  BY <1>1, <1>7 DEF new_acme_account, AccountFine, Numbered
<1>8. ASSUME NEW t \in Table, NEW v \in 0 .. 2, edit_table(t, v)
      PROVE  AccountFine'
  BY <1>1, <1>8 DEF edit_table, AccountFine, Numbered
<1> QED
  BY <1>2, <1>3, <1>4, <1>5, <1>6, <1>7, <1>8 DEF AccountStep

\* Every step of the backup keeps the invariant of accounts and archive.
LEMMA AccountStepInv ==
  ASSUME AccountFine, ArchiveFine, busy \in {"restoring", "restored"} => archive.made, [BackupNext]_allVars
  PROVE  AccountFine' /\ ArchiveFine'
<1>1. CASE UNCHANGED <<accountVars, archive>>
  BY <1>1 DEF accountVars, AccountFine, Numbered, ArchiveFine
<1>2. CASE AccountStep /\ UNCHANGED archive
  BY <1>2, AccountStepFine DEF ArchiveFine
<1>3. CASE create_backup
  <2>1. UNCHANGED accountVars /\ archive'.people = _export_users /\ archive'.members = members /\ archive'.apiKey = apiKey
    BY <1>3 DEF create_backup, _export_groups, _export_api_keys
  <2>2. archive'.tables = [settings |-> tables["settings"], named |-> tables["named"], configs |-> tables["configs"]]
    BY <1>3 DEF create_backup, _export_configuration, _export_named, _export_configs
  <2>3. AccountFine'
    BY <2>1 DEF accountVars, AccountFine, Numbered
  <2>4. \A t \in Table : archive'.tables[t] \in 0 .. 2
    <3>1. archive'.tables["settings"] = tables["settings"] /\ archive'.tables["named"] = tables["named"]
          /\ archive'.tables["configs"] = tables["configs"]
      BY <2>2
    <3> QED
      BY <3>1 DEF AccountFine, Table
  <2>5. archive'.people \subseteq Person
    BY <2>1 DEF _export_users
  <2> QED
    BY <2>1, <2>3, <2>4, <2>5 DEF ArchiveFine, AccountFine
<1>4. CASE restore_backup
  <2>1. /\ archive.made /\ people' = RestoredPeople(archive, people) /\ Ids(people') \subseteq 1 .. MaxId
        /\ tables' = RestoredSettings(archive, tables) /\ UNCHANGED <<members, apiKey, archive>>
    BY <1>4 DEF restore_backup
  <2>2. Numbered(people) /\ archive.people \subseteq Person /\ \A t \in Table : archive.tables[t] \in 0 .. 2
    BY <2>1 DEF AccountFine, ArchiveFine
  <2>3. /\ DOMAIN people' = Person /\ people' = [q \in Person |-> people'[q]]
        /\ \A x, y \in Person : x # y /\ people'[x] # 0 => people'[x] # people'[y]
    <3>1. PICK new : new = people'
      OBVIOUS
    <3>2. new = RestoredPeople(archive, people)
      BY <2>1, <3>1
    <3>3. /\ DOMAIN new = Person /\ new = [q \in Person |-> new[q]]
          /\ \A x, y \in Person : x # y /\ new[x] # 0 => new[x] # new[y]
      BY <2>2, <3>2, RestoredPeopleFine
    <3> QED
      BY <3>1, <3>3
  <2>4. \A q \in Person : people'[q] \in 0 .. MaxId
    <3>1. \A q \in Person : people'[q] # 0 => people'[q] \in 1 .. MaxId
      BY <2>1 DEF Ids
    <3>2. 0 \in 0 .. MaxId /\ \A k \in 1 .. MaxId : k \in 0 .. MaxId
      BY BackupAssumption
    <3> QED
      BY <3>1, <3>2
  <2>5. Numbered(people)'
    BY <2>3, <2>4 DEF Numbered
  <2>6. tables' \in [Table -> 0 .. 2]
    BY <2>1, <2>2, MergedTables DEF AccountFine
  <2> QED
    BY <2>1, <2>5, <2>6 DEF AccountFine, ArchiveFine
<1>5. CASE restore_rest
  <2>1. /\ archive.made /\ UNCHANGED <<people, archive>> /\ members' = RestoredMembers(archive, members)
        /\ apiKey' = RestoredApiKey(archive, apiKey)
        /\ tables' = RestoredConfigs(archive, RestoredNamed(archive, tables))
    BY <1>5 DEF restore_rest, backupVars
  <2>2. /\ archive.members \subseteq 0 .. MaxId /\ archive.apiKey \in KeyOf
        /\ \A t \in Table : archive.tables[t] \in 0 .. 2
    BY <2>1 DEF ArchiveFine
  <2>3. members' \subseteq 0 .. MaxId
    BY <2>1, <2>2 DEF AccountFine, RestoredMembers
  <2>4. apiKey' \in KeyOf
    BY <2>1, <2>2, MergedApiKey DEF AccountFine
  <2>5. tables' \in [Table -> 0 .. 2]
    BY <2>1, <2>2, MergedTables DEF AccountFine
  <2> QED
    BY <2>1, <2>3, <2>4, <2>5 DEF AccountFine, ArchiveFine, Numbered
<1> QED
  BY <1>1, <1>2, <1>3, <1>4, <1>5 DEF BackupNext, allVars, backupVars, restore_answer

----------------------------------------------------------------------------
(* A restore that is repeated. *)

\* A row after a restore, next to what it was before the first one.
MergedRow(new, old, e) ==
  /\ new.is = "there"
  /\ old.is = "there" => new.csr = old.csr /\ new.caref = old.caref /\ new.revoked = old.revoked
  /\ old.is # "there" => new.csr = 0 /\ new.caref = e.caref /\ new.revoked = FALSE

FirstRows ==
  /\ DOMAIN first.rows = Refid /\ \A r \in Refid : first.rows[r] \in RowOf
  /\ \A r \in DOMAIN archive.rows : MergedRow(rows[r], first.rows[r], archive.rows[r])
  /\ \A r \in Refid \ DOMAIN archive.rows : rows[r] = first.rows[r]

FirstPeople ==
  people = RestoredPeople(archive, first.people) /\ \A q \in archive.people : people[q] # 0

FirstRest ==
  /\ members \in {first.members, RestoredMembers(archive, first.members)}
  /\ first.apiKey \in KeyOf /\ apiKey \in {first.apiKey, RestoredApiKey(archive, first.apiKey)}
  /\ first.tables \in [Table -> 0 .. 2]
  /\ tables["settings"] = Won(archive.tables["settings"], first.tables["settings"])
  /\ \A t \in {"named", "configs"} : tables[t] \in {first.tables[t], Won(archive.tables[t], first.tables[t])}

\* From the first try on, the database is between what it was then and what a
\* whole restore makes of it.
FirstFine ==
  /\ first.tried => archive.made /\ FirstRows /\ FirstPeople /\ FirstRest
  /\ busy \in {"restoring", "restored"} => first.tried /\ rows = RestoredRows(archive, first.rows)
  /\ busy = "restored" => /\ members = RestoredMembers(archive, first.members)
                          /\ apiKey = RestoredApiKey(archive, first.apiKey)
                          /\ \A t \in Table : tables[t] = Won(archive.tables[t], first.tables[t])

BackupInv == VaultInv /\ AccountFine /\ ArchiveFine /\ FirstFine

\* The invariant of the backup holds before the first operation.
LEMMA BackupInitInv == BackupInit => BackupInv
<1> SUFFICES ASSUME BackupInit PROVE BackupInv
  OBVIOUS
<1>1. first.tried = FALSE /\ busy = "no"
  BY DEF BackupInit, VaultInit, NoFirst
<1>2. FirstFine
  BY <1>1 DEF FirstFine
<1> QED
  BY <1>2, VaultInitInv, AccountInitInv DEF BackupInv

\* Two records of a row's shape with the same fields are equal, whatever the
\* sets of the fields.
LEMMA RecordsEqual ==
  ASSUME NEW I, NEW P, NEW T, NEW A,
         NEW x \in [is : I, csr : P, crt : P, prv : T, caref : A, revoked : BOOLEAN, mixed : BOOLEAN],
         NEW y \in [is : I, csr : P, crt : P, prv : T, caref : A, revoked : BOOLEAN, mixed : BOOLEAN],
         x.is = y.is, x.csr = y.csr, x.crt = y.crt, x.prv = y.prv, x.caref = y.caref,
         x.revoked = y.revoked, x.mixed = y.mixed
  PROVE  x = y
  OBVIOUS

\* Two rows with the same fields are equal.
LEMMA RowsEqual ==
  ASSUME NEW x \in RowOf, NEW y \in RowOf,
         x.is = y.is, x.csr = y.csr, x.crt = y.crt, x.prv = y.prv, x.caref = y.caref,
         x.revoked = y.revoked, x.mixed = y.mixed
  PROVE  x = y
<1>1. PICK I, P, T, A :
        RowOf = [is : I, csr : P, crt : P, prv : T, caref : A, revoked : BOOLEAN, mixed : BOOLEAN]
  BY Zenon DEF RowOf
<1> QED
  BY <1>1, RecordsEqual

\* The same row is restored from either.
LEMMA RestoredTwice ==
  ASSUME NEW r, NEW e, e = archive.rows[r], EntryFine(r, e), loaded \in 0 .. EnvMaster,
         NEW old \in RowOf, NEW new \in RowOf, MergedRow(new, old, e)
  PROVE  RestoredRow(archive, r, new) = RestoredRow(archive, r, old)
<1> DEFINE t == encrypt(e.prv, loaded)
<1>1. t \in Texts /\ e.crt \in 0 .. MaxPair /\ e.mixed \in BOOLEAN /\ e.caref \in {""} \cup Authority
  BY ArchivedText DEF EntryFine
<1> DEFINE x == [new EXCEPT !.crt = e.crt, !.prv = t, !.mixed = e.mixed]
<1>2. RestoredRow(archive, r, new) = x
  BY DEF RestoredRow, MergedRow
<1>3. CASE old.is = "there"
  <2> DEFINE y == [old EXCEPT !.crt = e.crt, !.prv = t, !.mixed = e.mixed]
  <2>1. RestoredRow(archive, r, old) = y
    BY <1>3 DEF RestoredRow
  <2> HIDE DEF t
  <2>2. x \in RowOf /\ y \in RowOf
    BY <1>1 DEF RowOf
  <2>3. /\ x.is = y.is /\ x.csr = y.csr /\ x.crt = y.crt /\ x.prv = y.prv
        /\ x.caref = y.caref /\ x.revoked = y.revoked /\ x.mixed = y.mixed
    BY <1>3 DEF MergedRow, RowOf
  <2> HIDE DEF x, y
  <2>4. x = y
    BY <2>2, <2>3, RowsEqual
  <2> QED
    BY <1>2, <2>1, <2>4
<1>4. CASE old.is # "there"
  <2> DEFINE y == [NoRow EXCEPT !.is = "there", !.crt = e.crt, !.prv = t, !.caref = e.caref, !.mixed = e.mixed]
  <2>1. RestoredRow(archive, r, old) = y
    BY <1>4 DEF RestoredRow
  <2> HIDE DEF t
  <2>2. x \in RowOf /\ y \in RowOf
    BY <1>1, Bounds DEF RowOf, NoRow
  <2>3. /\ y.is = "there" /\ y.csr = 0 /\ y.crt = e.crt /\ y.prv = t
        /\ y.caref = e.caref /\ y.revoked = FALSE /\ y.mixed = e.mixed
    BY DEF NoRow
  <2>4. /\ x.is = new.is /\ x.csr = new.csr /\ x.crt = e.crt /\ x.prv = t
        /\ x.caref = new.caref /\ x.revoked = new.revoked /\ x.mixed = e.mixed
    BY DEF RowOf
  <2>5. new.is = "there" /\ new.csr = 0 /\ new.caref = e.caref /\ new.revoked = FALSE
    BY <1>4 DEF MergedRow
  <2> HIDE DEF x, y
  <2>6. /\ x.is = y.is /\ x.csr = y.csr /\ x.crt = y.crt /\ x.prv = y.prv
        /\ x.caref = y.caref /\ x.mixed = y.mixed
    BY <2>3, <2>4, <2>5
  <2>7. x.revoked = y.revoked
    BY <2>3, <2>4, <2>5, Zenon
  <2>8. x = y
    BY <2>2, <2>6, <2>7, RowsEqual
  <2> QED
    BY <1>2, <2>1, <2>8
<1> QED
  BY <1>3, <1>4

\* A restored row is merged with what it was.
LEMMA RestoredMerges ==
  ASSUME NEW r, NEW e, e = archive.rows[r], EntryFine(r, e), loaded \in 0 .. EnvMaster,
         NEW old \in RowOf, NEW new, new = RestoredRow(archive, r, old)
  PROVE  MergedRow(new, old, e)
<1> DEFINE t == encrypt(e.prv, loaded)
<1>1. CASE old.is = "there"
  <2>1. new = [old EXCEPT !.crt = e.crt, !.prv = t, !.mixed = e.mixed]
    BY <1>1 DEF RestoredRow
  <2> HIDE DEF t
  <2>2. new.is = "there" /\ new.csr = old.csr /\ new.caref = old.caref /\ new.revoked = old.revoked
    BY <1>1, <2>1 DEF RowOf
  <2> QED
    BY <1>1, <2>2 DEF MergedRow
<1>2. CASE old.is # "there"
  <2>1. new = [NoRow EXCEPT !.is = "there", !.crt = e.crt, !.prv = t, !.caref = e.caref, !.mixed = e.mixed]
    BY <1>2 DEF RestoredRow
  <2> HIDE DEF t
  <2>2. new.is = "there" /\ new.csr = 0 /\ new.caref = e.caref /\ new.revoked = FALSE
    BY <2>1 DEF NoRow
  <2> QED
    BY <1>2, <2>2 DEF MergedRow
<1> QED
  BY <1>1, <1>2

\* An API key restored a second time stays as the first time left it.
LEMMA ApiKeyTwice ==
  ASSUME NEW a, a.apiKey \in KeyOf, NEW old \in KeyOf
  PROVE  RestoredApiKey(a, RestoredApiKey(a, old)) = RestoredApiKey(a, old)
<1>1. CASE a.apiKey.owner = 0
  BY <1>1 DEF RestoredApiKey
<1>2. CASE a.apiKey.owner # 0 /\ old.owner # 0
  <2> DEFINE x == [old EXCEPT !.active = a.apiKey.active]
             y == [x EXCEPT !.active = a.apiKey.active]
  <2>1. RestoredApiKey(a, old) = x
    BY <1>2 DEF RestoredApiKey
  <2>2. x \in KeyOf /\ x.owner = old.owner /\ x.active = a.apiKey.active
    BY DEF KeyOf
  <2>3. RestoredApiKey(a, x) = y
    BY <1>2, <2>2 DEF RestoredApiKey
  <2> HIDE DEF x
  <2>4. y \in KeyOf /\ y.owner = x.owner /\ y.active = x.active
    BY <2>2 DEF KeyOf
  <2> HIDE DEF y
  <2>5. x = y
    BY <2>2, <2>4 DEF KeyOf
  <2> QED
    BY <2>1, <2>3, <2>5
<1>3. CASE a.apiKey.owner # 0 /\ old.owner = 0
  <2> DEFINE x == a.apiKey
             y == [x EXCEPT !.active = a.apiKey.active]
  <2>1. RestoredApiKey(a, old) = x
    BY <1>3 DEF RestoredApiKey
  <2>2. RestoredApiKey(a, x) = y
    BY <1>3 DEF RestoredApiKey
  <2>3. x \in KeyOf /\ y \in KeyOf /\ y.owner = x.owner /\ y.active = x.active
    BY DEF KeyOf
  <2> HIDE DEF x, y
  <2>4. x = y
    BY <2>3 DEF KeyOf
  <2> QED
    BY <2>1, <2>2, <2>4
<1> QED
  BY <1>1, <1>2, <1>3

\* No other request leaves a restore on its way.
LEMMA KeyStepBusy ==
  ASSUME KeyStep, MasterTypes
  PROVE  busy' \notin {"restoring", "restored"}
<1>1. CASE CaStep
  BY <1>1 DEF CaStep, create_internal_ca, import_ca, import_existing_ca, delete_ca, Open, masterVars
<1>2. CASE LeafStep
  BY <1>2 DEF LeafStep, create_certificate, create_mtls_certificate, import_certificate, generate_csr, upload_csr,
     upload_csr_private_key, upload_private_key, sign_csr, renew_certificate, bulk_renew_certificates, delete_certificate,
     delete_csr, bulk_sign_csrs, bulk_delete_certificates, Open, masterVars
<1>3. CASE \E l \in Leaf : revoke_certificate(l)
  BY <1>3 DEF revoke_certificate, Open, masterVars
<1>4. CASE MasterStep \/ HostStep
  BY <1>4 DEF MasterStep, HostStep, enable_encryption, disable_encryption, encrypt_all, LoseKeyFile, ReturnKeyFile,
     SetEnv, Open, masterVars
<1>5. CASE enable_encryption_seals \/ disable_encryption_unloads
  BY <1>5 DEF enable_encryption_seals, disable_encryption_unloads
<1> QED
  BY <1>1, <1>2, <1>3, <1>4, <1>5 DEF KeyStep

\* A step that forgets the first restore compares nothing.
LEMMA NoFirstFine ==
  ASSUME first' = NoFirst, busy' \notin {"restoring", "restored"}
  PROVE  FirstFine'
<1>1. first'.tried = FALSE
  BY DEF NoFirst
<1> QED
  BY <1>1 DEF FirstFine

\* The second restore of an archive gives the rows of the first.
LEMMA TryFine ==
  ASSUME BackupInv, restore_backup
  PROVE  FirstFine'
<1>1. /\ Open /\ archive.made /\ rows' = RestoredRows(archive, rows) /\ busy' = "restoring"
      /\ people' = RestoredPeople(archive, people) /\ tables' = RestoredSettings(archive, tables)
      /\ UNCHANGED <<loaded, members, apiKey, archive>>
  BY DEF restore_backup
<1> DEFINE A == DOMAIN archive.rows
<1>2. /\ A \subseteq Refid /\ loaded \in 0 .. EnvMaster /\ DOMAIN rows = Refid
      /\ \A r \in A : EntryFine(r, archive.rows[r])
      /\ \A r \in Refid : rows[r] \in RowOf
  BY <1>1 DEF BackupInv, VaultInv, ArchiveRows, MasterTypes, RowsFine, RowFine, RowTyped
<1>3. /\ Numbered(people) /\ archive.people \subseteq Person /\ tables \in [Table -> 0 .. 2] /\ apiKey \in KeyOf
      /\ archive.apiKey \in KeyOf /\ \A t \in Table : archive.tables[t] \in 0 .. 2
  BY <1>1 DEF BackupInv, AccountFine, ArchiveFine
<1>4. /\ DOMAIN rows' = Refid
      /\ \A r \in A : rows'[r] = RestoredRow(archive, r, rows[r])
      /\ \A r \in Refid \ A : rows'[r] = rows[r]
  BY <1>1, <1>2 DEF RestoredRows
<1>5. /\ tables'["settings"] = Won(archive.tables["settings"], tables["settings"])
      /\ \A t \in {"named", "configs"} : tables'[t] = tables[t]
  BY <1>1, <1>3, MergedTables
<1> HIDE DEF A
<1>6. CASE ~first.tried
  <2> DEFINE f == first'
  <2>1. f = [tried |-> TRUE, rows |-> rows, people |-> people, members |-> members, apiKey |-> apiKey, tables |-> tables]
    BY <1>6 DEF restore_backup
  <2> HIDE DEF f
  <2>2. f.tried /\ f.rows = rows /\ f.people = people /\ f.members = members /\ f.apiKey = apiKey /\ f.tables = tables
    BY <2>1
  <2>3. FirstRows'
    <3>1. \A r \in A : MergedRow(rows'[r], rows[r], archive.rows[r])
      BY <1>2, <1>4, RestoredMerges
    <3> QED
      BY <1>1, <1>2, <1>4, <2>2, <3>1 DEF FirstRows, f, A
  <2>4. FirstPeople'
    <3>1. PICK new : new = people'
      OBVIOUS
    <3>2. new = RestoredPeople(archive, people)
      BY <1>1, <3>1
    <3>3. \A q \in archive.people : new[q] # 0
      BY <1>3, <3>2, RestoredPeopleFine
    <3> QED
      BY <1>1, <2>2, <3>1, <3>2, <3>3 DEF FirstPeople, f
  <2>5. FirstRest'
    BY <1>1, <1>3, <1>5, <2>2 DEF FirstRest, f
  <2>6. rows' = RestoredRows(archive, first.rows)'
    BY <1>1, <2>2 DEF RestoredRows, RestoredRow, f
  <2> QED
    BY <1>1, <2>2, <2>3, <2>4, <2>5, <2>6 DEF FirstFine, f
<1>7. CASE first.tried
  <2>1. first' = first
    BY <1>7 DEF restore_backup
  <2>2. FirstRows /\ FirstPeople /\ FirstRest
    BY <1>7 DEF BackupInv, FirstFine
  <2>3. /\ DOMAIN first.rows = Refid /\ \A r \in Refid : first.rows[r] \in RowOf
        /\ \A r \in A : MergedRow(rows[r], first.rows[r], archive.rows[r])
        /\ \A r \in Refid \ A : rows[r] = first.rows[r]
    BY <2>2 DEF FirstRows, A
  <2>4. \A r \in A : rows'[r] = RestoredRow(archive, r, first.rows[r])
    <3> SUFFICES ASSUME NEW r \in A PROVE RestoredRow(archive, r, rows[r]) = RestoredRow(archive, r, first.rows[r])
      BY <1>4
    <3>1. r \in Refid /\ EntryFine(r, archive.rows[r]) /\ rows[r] \in RowOf /\ first.rows[r] \in RowOf
      BY <1>2, <2>3
    <3> QED
      BY <1>2, <2>3, <3>1, RestoredTwice
  <2>5. FirstRows'
    <3>1. \A r \in A : MergedRow(rows'[r], first.rows[r], archive.rows[r])
      BY <1>2, <2>3, <2>4, RestoredMerges
    <3> QED
      BY <1>1, <1>4, <2>1, <2>3, <3>1 DEF FirstRows, A
  <2>6. rows' = RestoredRows(archive, first.rows)
    BY <1>1, <1>2, <1>4, <2>3, <2>4 DEF RestoredRows, A
  <2>7. FirstPeople'
    <3>1. people \in [Person -> 0 .. MaxId] /\ \A q \in archive.people : people[q] # 0
      BY <1>3, <2>2 DEF Numbered, FirstPeople
    <3>2. people' = people
      BY <1>1, <3>1, RestoredPeopleTwice
    <3> QED
      BY <1>1, <2>1, <2>2, <3>2 DEF FirstPeople
  <2>8. FirstRest'
    BY <1>1, <1>5, <2>1, <2>2 DEF FirstRest, Won
  <2>9. rows' = RestoredRows(archive, first.rows)'
    BY <1>1, <2>1, <2>6 DEF RestoredRows, RestoredRow
  <2> QED
    BY <1>1, <1>7, <2>1, <2>5, <2>7, <2>8, <2>9 DEF FirstFine
<1> QED
  BY <1>6, <1>7

\* The rest of the second restore gives the accounts of the first.
LEMMA RestFine ==
  ASSUME BackupInv, restore_rest
  PROVE  FirstFine'
<1>1. /\ busy = "restoring" /\ busy' = "restored" /\ UNCHANGED <<rows, loaded, people, archive, first>>
      /\ members' = RestoredMembers(archive, members) /\ apiKey' = RestoredApiKey(archive, apiKey)
      /\ tables' = RestoredConfigs(archive, RestoredNamed(archive, tables))
  BY DEF restore_rest, backupVars
<1>2. first.tried /\ rows = RestoredRows(archive, first.rows) /\ archive.made /\ FirstRows /\ FirstPeople /\ FirstRest
  BY <1>1 DEF BackupInv, FirstFine
<1>3. /\ tables \in [Table -> 0 .. 2] /\ archive.apiKey \in KeyOf /\ \A t \in Table : archive.tables[t] \in 0 .. 2
  BY <1>2 DEF BackupInv, AccountFine, ArchiveFine
<1>4. FirstRows' /\ FirstPeople'
  <2>1. FirstRows'
    BY <1>1, <1>2 DEF FirstRows
  <2>2. FirstPeople'
    BY <1>1, <1>2 DEF FirstPeople
  <2> QED
    BY <2>1, <2>2
<1>5. members' = RestoredMembers(archive, first.members)
  BY <1>1, <1>2 DEF FirstRest, RestoredMembers
<1>6. apiKey' = RestoredApiKey(archive, first.apiKey)
  BY <1>1, <1>2, <1>3, ApiKeyTwice DEF FirstRest
<1>7. /\ tables'["settings"] = tables["settings"]
      /\ tables'["named"] = Won(archive.tables["named"], tables["named"])
      /\ tables'["configs"] = Won(archive.tables["configs"], tables["configs"])
  <2> DEFINE mid == RestoredNamed(archive, tables)
  <2>1. mid \in [Table -> 0 .. 2] /\ mid["named"] = Won(archive.tables["named"], tables["named"])
        /\ mid["settings"] = tables["settings"] /\ mid["configs"] = tables["configs"]
    BY <1>3, MergedTables
  <2>2. tables' = RestoredConfigs(archive, mid)
    BY <1>1
  <2> HIDE DEF mid
  <2>3. /\ tables'["configs"] = Won(archive.tables["configs"], mid["configs"])
        /\ \A t \in {"settings", "named"} : tables'[t] = mid[t]
    BY <1>3, <2>1, <2>2, MergedTables
  <2> QED
    BY <2>1, <2>3
<1>8. \A t \in Table : tables'[t] = Won(archive.tables[t], first.tables[t])
  <2>1. /\ tables["settings"] = Won(archive.tables["settings"], first.tables["settings"])
        /\ tables["named"] \in {first.tables["named"], Won(archive.tables["named"], first.tables["named"])}
        /\ tables["configs"] \in {first.tables["configs"], Won(archive.tables["configs"], first.tables["configs"])}
    BY <1>2 DEF FirstRest
  <2> QED
    BY <1>7, <2>1 DEF Table, Won
<1>9. FirstRest'
  BY <1>1, <1>2, <1>5, <1>6, <1>8 DEF FirstRest, Table
<1>10. rows' = RestoredRows(archive, first.rows)'
  BY <1>1, <1>2 DEF RestoredRows, RestoredRow
<1> QED
  BY <1>1, <1>2, <1>4, <1>5, <1>6, <1>8, <1>9, <1>10 DEF FirstFine

\* Every step of the backup keeps its invariant.
LEMMA BackupStepInv ==
  ASSUME BackupInv, [BackupNext]_allVars
  PROVE  BackupInv'
<1>1. VaultInv'
  BY VaultStepInv DEF BackupInv
<1>2. AccountFine' /\ ArchiveFine'
  <2>1. busy \in {"restoring", "restored"} => archive.made
    BY DEF BackupInv, FirstFine
  <2> QED
    BY <2>1, AccountStepInv DEF BackupInv
<1>3. FirstFine'
  <2>1. CASE KeyStep /\ first' = NoFirst
    BY <2>1, KeyStepBusy, NoFirstFine DEF BackupInv, VaultInv
  <2>2. CASE AccountStep /\ first' = NoFirst /\ UNCHANGED vaultVars
    <3>1. busy = "no"
      BY <2>2 DEF AccountStep, create_user, ElsewhereLacks, add_group_member, create_api_key, delete_api_key,
         new_acme_account, edit_table, Open
    <3> QED
      BY <2>2, <3>1, NoFirstFine DEF vaultVars
  <2>3. CASE Restart /\ UNCHANGED <<accountVars, backupVars>>
    <3>1. UNCHANGED <<rows, people, members, apiKey, tables, archive, first>> /\ busy' = "no"
      BY <2>3 DEF Restart, accountVars, backupVars
    <3>2. (FirstRows => FirstRows') /\ (FirstPeople => FirstPeople') /\ (FirstRest => FirstRest')
      BY <3>1 DEF FirstRows, FirstPeople, FirstRest
    <3> QED
      BY <3>1, <3>2 DEF BackupInv, FirstFine
  <2>4. CASE create_backup
    BY <2>4, NoFirstFine DEF create_backup, Open, vaultVars
  <2>5. CASE restore_backup
    BY <2>5, TryFine
  <2>6. CASE restore_rest
    BY <2>6, RestFine
  <2>7. CASE restore_answer
    BY <2>7, NoFirstFine DEF restore_answer
  <2>8. CASE UNCHANGED allVars
    <3>1. UNCHANGED <<rows, people, members, apiKey, tables, archive, first, busy, loaded>>
      BY <2>8 DEF allVars, vaultVars, accountVars, backupVars
    <3>2. (FirstRows => FirstRows') /\ (FirstPeople => FirstPeople') /\ (FirstRest => FirstRest')
      BY <3>1 DEF FirstRows, FirstPeople, FirstRest
    <3>3. rows = RestoredRows(archive, first.rows) => rows' = RestoredRows(archive, first.rows)'
      BY <3>1 DEF RestoredRows, RestoredRow
    <3> QED
      BY <3>1, <3>2, <3>3 DEF BackupInv, FirstFine
  <2> QED
    BY <2>1, <2>2, <2>3, <2>4, <2>5, <2>6, <2>7, <2>8 DEF BackupNext
<1> QED
  BY <1>1, <1>2, <1>3 DEF BackupInv

(* Beside the keys, accounts and tables stay consistent, and what a restore  *)
(* began with is remembered until it is complete: the strengthening on which *)
(* the repetition of restores rests (backup_service.py:717-1350).            *)
THEOREM BackupInvariance == BackupSpec => []BackupInv
<1>1. BackupInit => BackupInv
  BY BackupInitInv
<1>2. BackupInv /\ [BackupNext]_allVars => BackupInv'
  BY BackupStepInv
<1> QED
  BY <1>1, <1>2, PTL DEF BackupSpec

(* However often a restore stops between its transactions and is repeated,  *)
(* also with encryption switched by restarts in between, the database is    *)
(* what one restore would have made of it (backup_service.py:919-1348).     *)
THEOREM RestoreIsRepeatable == BackupSpec => []RestoreRepeats
<1>1. BackupInv => RestoreRepeats
  <2> SUFFICES ASSUME BackupInv, busy = "restored" PROVE RestoreRepeats
    BY DEF RestoreRepeats
  <2>1. /\ first.tried /\ rows = RestoredRows(archive, first.rows) /\ archive.made /\ FirstPeople /\ FirstRest
        /\ members = RestoredMembers(archive, first.members) /\ apiKey = RestoredApiKey(archive, first.apiKey)
        /\ \A t \in Table : tables[t] = Won(archive.tables[t], first.tables[t])
    BY DEF BackupInv, FirstFine
  <2>2. /\ tables \in [Table -> 0 .. 2] /\ first.tables \in [Table -> 0 .. 2]
        /\ \A t \in Table : archive.tables[t] \in 0 .. 2
    BY <2>1 DEF BackupInv, AccountFine, ArchiveFine, FirstRest
  <2>3. tables = RestoredTables(archive, first.tables)
    <3> DEFINE s == RestoredSettings(archive, first.tables)
               n == RestoredNamed(archive, s)
               c == RestoredConfigs(archive, n)
    <3>1. /\ s \in [Table -> 0 .. 2] /\ s["settings"] = Won(archive.tables["settings"], first.tables["settings"])
          /\ \A t \in {"named", "configs"} : s[t] = first.tables[t]
      BY <2>2, MergedTables
    <3> HIDE DEF s
    <3>2. /\ n \in [Table -> 0 .. 2] /\ n["named"] = Won(archive.tables["named"], s["named"])
          /\ \A t \in {"settings", "configs"} : n[t] = s[t]
      BY <2>2, <3>1, MergedTables
    <3> HIDE DEF n
    <3>3. /\ c \in [Table -> 0 .. 2] /\ c["configs"] = Won(archive.tables["configs"], n["configs"])
          /\ \A t \in {"settings", "named"} : c[t] = n[t]
      BY <2>2, <3>2, MergedTables
    <3>4. c = RestoredTables(archive, first.tables)
      BY DEF RestoredTables, s, n
    <3> HIDE DEF c
    <3>5. \A t \in Table : c[t] = tables[t]
      BY <2>1, <3>1, <3>2, <3>3 DEF Table
    <3> QED
      BY <2>2, <3>3, <3>4, <3>5
  <2> QED
    BY <2>1, <2>3 DEF RestoreRepeats, FirstPeople
<1> QED
  BY <1>1, BackupInvariance, PTL

(* Rows, files, master keys and accounts keep their types; two users never  *)
(* share a number, also after a restore (backup_service.py:892-918).        *)
THEOREM VaultTyped == BackupSpec => []VaultTypeOK
<1>1. BackupInv => VaultTypeOK
  <2> SUFFICES ASSUME BackupInv PROVE VaultTypeOK
    OBVIOUS
  <2>1. ASSUME NEW r \in Refid
        PROVE  /\ rows[r].is \in {"unused", "there", "deleted"}
               /\ rows[r].csr \in 0..MaxPair /\ rows[r].crt \in 0..MaxPair /\ rows[r].prv \in Texts
               /\ rows[r].caref \in {""} \cup Authority
               /\ ~There(r) => HoldsNothing(rows[r])
    BY DEF BackupInv, VaultInv, RowsFine, RowFine, RowTyped, RowOf, There
  <2>2. MasterTypes
    BY DEF BackupInv, VaultInv
  <2>3. {envKey, loaded} \subseteq 0 .. EnvMaster
    <3>1. \A k \in {0, EnvMaster} : k \in 0 .. EnvMaster
      BY VaultDistinct DEF EnvMaster
    <3> QED
      BY <2>2, <3>1 DEF MasterTypes
  <2>4. /\ people \in [Person -> 0..MaxId] /\ \A x, y \in Person : x # y /\ people[x] # 0 => people[x] # people[y]
        /\ members \cup {apiKey.owner} \subseteq 0..MaxId
    BY DEF BackupInv, AccountFine, Numbered, KeyOf
  <2> QED
    BY <2>1, <2>2, <2>3, <2>4 DEF VaultTypeOK, MasterTypes
<1> QED
  BY <1>1, BackupInvariance, PTL

----------------------------------------------------------------------------
(* Keys in hardware. *)

KeyName == [n : Nat, label : Labels \cup {"none"}, vault : Vaults \cup {0}]
CallOf == [op : {"none", "test", "generate", "delete", "public", "sign", "sync"}, stage : {"asked", "answered"},
           vault : Vaults \cup {0}, status : {"unknown", "connected", "error"}, label : Labels \cup {"none"}, row : Nat,
           key : KeyName, ok : BOOLEAN, used : KeyName, keys : SUBSET KeyName]

\* Keys are numbered as they are made.
DeviceFine ==
  /\ type \in {"pkcs11", "azure-keyvault", "google-kms"}
  /\ provider \in [there : BOOLEAN, vault : Vaults, status : {"unknown", "connected", "error"}]
  /\ device \subseteq made /\ made \subseteq KeyName /\ IsFiniteSet(made) /\ Cardinality(made) <= MaxKeys
  /\ \A k \in made : k.n \in 1 .. Cardinality(made)
  /\ \A j, k \in made : j.n = k.n => j = k
  /\ synced \in {"no", "running", "done"}

KeyRowsFine ==
  /\ \E b \in Nat : DOMAIN keyRows \subseteq 0 .. b
  /\ \A r \in DOMAIN keyRows : keyRows[r] \in [key : made, pub : 0 .. MaxKeys]
  /\ \A r, q \in DOMAIN keyRows : keyRows[r].key = keyRows[q].key => r = q

\* What an answer brings was made; a token uses the key it is asked for.
AnswerFine(c) ==
  c.stage = "answered" /\ c.ok =>
    /\ c.op = "generate" => c.key \in made
    /\ c.op \in {"public", "sign"} => c.used \in made /\ (type = "pkcs11" => c.used = c.key)
    /\ c.op = "sync" => c.keys \subseteq made

\* What a blocking call has read is so until it ends.
ReadFine(c) ==
  /\ provider.there /\ c.vault = provider.vault
  /\ c.op = "test" => c.status = provider.status
  /\ c.op \in {"delete", "public", "sign"} => c.row \in DOMAIN keyRows /\ keyRows[c.row].key = c.key

CallsFine ==
  /\ call \in [HsmWorker -> CallOf]
  /\ \A w \in HsmWorker : AnswerFine(call[w])
  /\ type # "azure-keyvault" =>
       \A w \in HsmWorker : Busy(w) => ReadFine(call[w]) /\ \A v \in HsmWorker : Busy(v) => v = w

KeysShown == {keyRows[r].key : r \in DOMAIN keyRows}

SyncFine ==
  /\ synced = "running" =>
       \E w \in HsmWorker : /\ call[w].op = "sync" /\ call[w].vault = provider.vault
                            /\ \A v \in HsmWorker : Busy(v) => v = w
                            /\ call[w].stage = "answered" /\ call[w].ok => call[w].keys = List(provider.vault)
  /\ synced = "done" => (\A w \in HsmWorker : ~Busy(w)) /\ KeysShown = List(provider.vault)

HsmShown == KeyOfItsRow /\ RowsOwned /\ StatusTested

HsmInv == DeviceFine /\ KeyRowsFine /\ CallsFine /\ SyncFine /\ HsmShown

\* A worker without a call has one of the shape of calls.
LEMMA NoCallFine == NoCall \in CallOf /\ NoCall.op = "none" /\ NoCall.stage = "asked" /\ NoKey \in KeyName
<1>1. NoKey \in KeyName
  BY DEF NoKey, KeyName
<1>2. NoCall \in CallOf
  BY <1>1 DEF NoCall, CallOf
<1> QED
  BY <1>1, <1>2 DEF NoCall

\* The invariant of the HSM holds before the first call.
LEMMA HsmInitInv == HsmInit => HsmInv
<1> SUFFICES ASSUME HsmInit PROVE HsmInv
  OBVIOUS
<1>1. DeviceFine
  <2>1. IsFiniteSet({}) /\ Cardinality({}) = 0
    BY FS_EmptySet
  <2>2. made = {} /\ device = {} /\ synced = "no" /\ type \in {"pkcs11", "azure-keyvault", "google-kms"}
    BY HsmAssumption DEF HsmInit
  <2>3. provider \in [there : BOOLEAN, vault : Vaults, status : {"unknown", "connected", "error"}]
    BY HsmAssumption DEF HsmInit
  <2>4. Cardinality(made) <= MaxKeys
    BY <2>1, <2>2, HsmAssumption
  <2> QED
    BY <2>1, <2>2, <2>3, <2>4 DEF DeviceFine
<1>2. DOMAIN keyRows = {}
  BY DEF HsmInit
<1>3. KeyRowsFine
  <2>1. 0 \in Nat /\ DOMAIN keyRows \subseteq 0 .. 0
    BY <1>2
  <2>2. \E b \in Nat : DOMAIN keyRows \subseteq 0 .. b
    BY <2>1
  <2> QED
    BY <1>2, <2>2 DEF KeyRowsFine
<1>4. CallsFine
  <2>1. call = [w \in HsmWorker |-> NoCall]
    BY DEF HsmInit
  <2>2. call \in [HsmWorker -> CallOf] /\ \A w \in HsmWorker : call[w].op = "none" /\ call[w].stage = "asked"
    BY <2>1, NoCallFine
  <2> QED
    BY <2>2 DEF CallsFine, AnswerFine, Busy
<1>5. SyncFine
  BY DEF HsmInit, SyncFine
<1>6. HsmShown
  BY <1>2 DEF HsmInit, HsmShown, KeyOfItsRow, RowsOwned, StatusTested
<1> QED
  BY <1>1, <1>3, <1>4, <1>5, <1>6 DEF HsmInv

\* Another key is made.
LEMMA NewKeyFine ==
  ASSUME DeviceFine, NEW k \in KeyName, k.n = Cardinality(made) + 1, Cardinality(made) < MaxKeys
  PROVE  /\ IsFiniteSet(made \cup {k}) /\ Cardinality(made \cup {k}) <= MaxKeys /\ k \notin made
         /\ \A x \in made \cup {k} : x.n \in 1 .. Cardinality(made \cup {k})
         /\ \A i, j \in made \cup {k} : i.n = j.n => i = j
<1> DEFINE c == Cardinality(made)
<1>1. c \in Nat
  BY FS_CardinalityType DEF DeviceFine
<1>2. MaxKeys \in Nat /\ c < MaxKeys /\ k.n = c + 1
  BY HsmAssumption
<1>3. \A x \in made : x.n \in 1 .. c
  BY DEF DeviceFine
<1> HIDE DEF c
<1>4. \A x \in made : x.n # k.n /\ x.n \in 1 .. c + 1
  BY <1>1, <1>2, <1>3
<1>5. k \notin made
  BY <1>4
<1>6. IsFiniteSet(made \cup {k}) /\ Cardinality(made \cup {k}) = c + 1
  BY <1>5, FS_AddElement DEF DeviceFine, c
<1>7. c + 1 <= MaxKeys /\ c + 1 \in 1 .. c + 1
  BY <1>1, <1>2
<1>8. \A x \in made \cup {k} : x.n \in 1 .. c + 1
  BY <1>2, <1>4, <1>7
<1>9. \A i, j \in made \cup {k} : i.n = j.n => i = j
  BY <1>4 DEF DeviceFine
<1> QED
  BY <1>5, <1>6, <1>7, <1>8, <1>9

\* A step that leaves the calls alone.
LEMMA CallsStay ==
  ASSUME CallsFine, NoneBlocks, call' = call, type' = type, made \subseteq made'
  PROVE  CallsFine'
<1>1. call' \in [HsmWorker -> CallOf]
  BY DEF CallsFine
<1>2. \A w \in HsmWorker : AnswerFine(call[w])'
  BY DEF CallsFine, AnswerFine
<1>3. type' # "azure-keyvault" => \A w \in HsmWorker : ~Busy(w)'
  BY DEF NoneBlocks, Busy
<1> QED
  BY <1>1, <1>2, <1>3 DEF CallsFine

\* A step of one call: the others stay as they are.
LEMMA CallsMove ==
  ASSUME CallsFine, NEW w \in HsmWorker, NEW d \in CallOf, call' = [call EXCEPT ![w] = d],
         type' = type, made \subseteq made', AnswerFine(d)', Uninterrupted(w),
         type # "azure-keyvault" /\ d.op # "none" => ReadFine(d)'
  PROVE  CallsFine'
<1>1. call' \in [HsmWorker -> CallOf] /\ call'[w] = d /\ \A v \in HsmWorker \ {w} : call'[v] = call[v]
  BY DEF CallsFine
<1>2. \A v \in HsmWorker \ {w} : AnswerFine(call[v])'
  <2> SUFFICES ASSUME NEW v \in HsmWorker \ {w} PROVE AnswerFine(call[v])'
    OBVIOUS
  <2>1. AnswerFine(call[v])
    BY DEF CallsFine
  <2>2. call'[v] = call[v]
    BY <1>1
  <2> QED
    BY <2>1, <2>2 DEF AnswerFine
<1>3. AnswerFine(call[w])'
  BY <1>1 DEF AnswerFine
<1>4. \A v \in HsmWorker : AnswerFine(call[v])'
  BY <1>2, <1>3
<1>5. ASSUME type' # "azure-keyvault", NEW v \in HsmWorker, Busy(v)'
      PROVE  ReadFine(call[v])' /\ \A u \in HsmWorker : Busy(u)' => u = v
  <2>1. \A u \in HsmWorker \ {w} : ~Busy(u)'
    BY <1>1, <1>5 DEF Uninterrupted, Busy
  <2>2. v = w /\ d.op # "none"
    BY <2>1, <1>1, <1>5 DEF Busy
  <2>3. ReadFine(call[w])'
    BY <2>2, <1>1, <1>5 DEF ReadFine
  <2> QED
    BY <2>1, <2>2, <2>3
<1> QED
  BY <1>1, <1>4, <1>5 DEF CallsFine

\* The call of a busy worker is the only one of a blocking library.
LEMMA BusyAlone ==
  ASSUME CallsFine, NEW w \in HsmWorker, Busy(w)
  PROVE  /\ Uninterrupted(w) /\ call[w] \in CallOf /\ AnswerFine(call[w])
         /\ type # "azure-keyvault" => ReadFine(call[w])
BY DEF CallsFine, Uninterrupted

\* A provider added, changed or deleted keeps the invariant.
LEMMA ProviderStepFine ==
  ASSUME HsmInv, NEW v \in Vaults, create_provider(v) \/ update_provider(v) \/ delete_provider
  PROVE  HsmInv'
<1>1. type' = type /\ device' = device /\ made' = made /\ call' = call /\ signed' = signed /\ synced' = "no" /\ NoneBlocks
  BY DEF create_provider, update_provider, delete_provider
<1>2. /\ provider' \in [there : BOOLEAN, vault : Vaults, status : {"unknown", "connected", "error"}]
      /\ provider'.there => provider'.status = "unknown"
  <2>1. provider \in [there : BOOLEAN, vault : Vaults, status : {"unknown", "connected", "error"}]
    BY DEF HsmInv, DeviceFine
  <2>2. CASE create_provider(v)
    BY <2>2 DEF create_provider
  <2>3. CASE update_provider(v)
    BY <2>1, <2>3 DEF update_provider
  <2>4. CASE delete_provider
    BY <2>1, <2>4 DEF delete_provider
  <2> QED
    BY <2>2, <2>3, <2>4
<1>3. (keyRows' = keyRows /\ provider'.there = TRUE) \/ (DOMAIN keyRows' = {} /\ keyRows' = << >>)
  <2>1. provider \in [there : BOOLEAN, vault : Vaults, status : {"unknown", "connected", "error"}]
    BY DEF HsmInv, DeviceFine
  <2>2. CASE create_provider(v)
    <3>1. keyRows' = keyRows
      BY <2>2 DEF create_provider
    <3>2. provider' = [there |-> TRUE, vault |-> v, status |-> "unknown"]
      BY <2>2 DEF create_provider
    <3>3. provider'.there = TRUE
      BY <3>2
    <3> QED
      BY <3>1, <3>3
  <2>3. CASE update_provider(v)
    <3>1. keyRows' = keyRows
      BY <2>3 DEF update_provider
    <3>2. provider' = [provider EXCEPT !.vault = v, !.status = "unknown"] /\ provider.there
      BY <2>3 DEF update_provider
    <3>3. provider'.there = TRUE
      BY <2>1, <3>2
    <3> QED
      BY <3>1, <3>2, <3>3
  <2>4. CASE delete_provider
    BY <2>4 DEF delete_provider
  <2> QED
    BY <2>2, <2>3, <2>4
<1>4. DeviceFine'
  BY <1>1, <1>2 DEF HsmInv, DeviceFine
<1>5. KeyRowsFine'
  <2>1. CASE keyRows' = keyRows
    BY <1>1, <2>1 DEF HsmInv, KeyRowsFine
  <2>2. CASE DOMAIN keyRows' = {}
    <3>1. 0 \in Nat /\ DOMAIN keyRows' \subseteq 0 .. 0
      BY <2>2
    <3> QED
      BY <2>2, <3>1 DEF KeyRowsFine
  <2> QED
    BY <2>1, <2>2, <1>3
<1>6. CallsFine'
  BY <1>1, CallsStay DEF HsmInv
<1>7. SyncFine'
  BY <1>1 DEF SyncFine
<1>8. KeyOfItsRow'
  <2>1. type' = "pkcs11" /\ signed' # << >> => signed'[1] = signed'[2]
    BY <1>1 DEF HsmInv, HsmShown, KeyOfItsRow
  <2>2. type' = "pkcs11" => \A r \in DOMAIN keyRows' : keyRows'[r].pub \in {0, keyRows'[r].key.n}
    BY <1>1, <1>3 DEF HsmInv, HsmShown, KeyOfItsRow
  <2> QED
    BY <2>1, <2>2 DEF KeyOfItsRow
<1>9. RowsOwned' /\ StatusTested'
  BY <1>2, <1>3 DEF RowsOwned, StatusTested
<1> QED
  BY <1>4, <1>5, <1>6, <1>7, <1>8, <1>9 DEF HsmInv, HsmShown

\* More keys are made, and the rows stay.
LEMMA RowsStay ==
  ASSUME KeyRowsFine, keyRows' = keyRows, made \subseteq made'
  PROVE  KeyRowsFine'
<1>1. \A r \in DOMAIN keyRows : keyRows[r] \in [key : made', pub : 0 .. MaxKeys]
  BY DEF KeyRowsFine
<1> QED
  BY <1>1 DEF KeyRowsFine

\* A key made or removed on the device by another program keeps the invariant.
LEMMA OutsideFine ==
  ASSUME HsmInv, NEW v \in Vaults, NEW label \in Labels, Outside(v, label)
  PROVE  HsmInv'
<1>1. /\ type' = type /\ provider' = provider /\ keyRows' = keyRows /\ call' = call /\ tested' = tested
      /\ signed' = signed /\ synced' = "no" /\ NoneBlocks
  BY DEF Outside
<1>2. DeviceFine' /\ made \subseteq made'
  <2> DEFINE k == [n |-> Cardinality(made) + 1, label |-> label, vault |-> v]
  <2>1. CASE Cardinality(made) < MaxKeys /\ made' = made \cup {k} /\ device' = device \cup {k}
    <3>0. Cardinality(made) \in Nat
      BY FS_CardinalityType DEF HsmInv, DeviceFine
    <3>1. k \in KeyName /\ k.n = Cardinality(made) + 1
      BY <3>0 DEF KeyName
    <3> HIDE DEF k
    <3>2. /\ IsFiniteSet(made') /\ Cardinality(made') <= MaxKeys
          /\ \A x \in made' : x.n \in 1 .. Cardinality(made')
          /\ \A i, j \in made' : i.n = j.n => i = j
      BY <2>1, <3>1, NewKeyFine DEF HsmInv
    <3>3. made' \subseteq KeyName /\ device' \subseteq made' /\ made \subseteq made'
      BY <2>1, <3>1 DEF HsmInv, DeviceFine
    <3>4. /\ type' \in {"pkcs11", "azure-keyvault", "google-kms"} /\ synced' \in {"no", "running", "done"}
          /\ provider' \in [there : BOOLEAN, vault : Vaults, status : {"unknown", "connected", "error"}]
      BY <1>1 DEF HsmInv, DeviceFine
    <3> QED
      BY <3>2, <3>3, <3>4 DEF DeviceFine
  <2>2. CASE made' = made /\ device' \subseteq device
    BY <1>1, <2>2 DEF HsmInv, DeviceFine
  <2>3. \/ Cardinality(made) < MaxKeys /\ made' = made \cup {k} /\ device' = device \cup {k}
        \/ made' = made /\ device' \subseteq device
    BY DEF Outside
  <2> QED
    BY <2>1, <2>2, <2>3
<1>3. KeyRowsFine'
  BY <1>1, <1>2, RowsStay DEF HsmInv
<1>4. CallsFine'
  BY <1>1, <1>2, CallsStay DEF HsmInv
<1>5. SyncFine'
  BY <1>1 DEF SyncFine
<1>6. HsmShown'
  BY <1>1 DEF HsmInv, HsmShown, KeyOfItsRow, RowsOwned, StatusTested
<1> QED
  BY <1>2, <1>3, <1>4, <1>5, <1>6 DEF HsmInv

\* An operation has read what it needs.
LEMMA CallFine ==
  ASSUME HsmInv, NEW w \in HsmWorker, NEW c \in CallOf, c.op # "none", Call(w, c),
         c.op = "test" => c.status = provider.status,
         c.op \in {"delete", "public", "sign"} => c.row \in DOMAIN keyRows /\ keyRows[c.row].key = c.key
  PROVE  HsmInv'
<1>0. PICK d : d = [c EXCEPT !.vault = provider.vault, !.stage = "asked"]
  OBVIOUS
<1>1. /\ type' = type /\ provider' = provider /\ keyRows' = keyRows /\ device' = device /\ made' = made
      /\ tested' = tested /\ signed' = signed
  BY DEF Call
<1>2. call' = [call EXCEPT ![w] = d] /\ ~Busy(w) /\ Uninterrupted(w) /\ provider.there
  BY <1>0 DEF Call
<1>3. synced' = IF c.op = "sync" /\ \A v \in HsmWorker : ~Busy(v) THEN "running" ELSE "no"
  BY DEF Call
<1>4. provider.vault \in Vaults
  BY DEF HsmInv, DeviceFine
<1>5. d \in CallOf
  BY <1>0, <1>4 DEF CallOf
<1>6. /\ d.op = c.op /\ d.stage = "asked" /\ d.vault = provider.vault /\ d.status = c.status
      /\ d.row = c.row /\ d.key = c.key
  BY <1>0 DEF CallOf
<1>7. DeviceFine'
  <2>1. synced' \in {"no", "running", "done"}
    BY <1>3
  <2> QED
    BY <1>1, <2>1 DEF HsmInv, DeviceFine
<1>8. KeyRowsFine'
  BY <1>1 DEF HsmInv, KeyRowsFine
<1>9. CallsFine'
  <2>1. AnswerFine(d)'
    BY <1>6 DEF AnswerFine
  <2>2. ReadFine(d)'
    BY <1>1, <1>2, <1>6 DEF ReadFine
  <2> QED
    BY <1>1, <1>2, <1>5, <2>1, <2>2, CallsMove DEF HsmInv
<1>10. SyncFine'
  <2>1. CASE synced' = "no"
    BY <2>1 DEF SyncFine
  <2>2. CASE c.op = "sync" /\ (\A v \in HsmWorker : ~Busy(v)) /\ synced' = "running"
    <3>1. call'[w] = d /\ \A v \in HsmWorker \ {w} : call'[v] = call[v]
      BY <1>2 DEF HsmInv, CallsFine
    <3>2. \A v \in HsmWorker : Busy(v)' => v = w
      BY <2>2, <3>1 DEF Busy
    <3>3. call'[w].op = "sync" /\ call'[w].vault = provider'.vault /\ call'[w].stage = "asked"
      BY <1>1, <1>6, <2>2, <3>1
    <3> QED
      BY <2>2, <3>2, <3>3 DEF SyncFine
  <2> QED
    BY <1>3, <2>1, <2>2
<1>11. HsmShown'
  BY <1>1 DEF HsmInv, HsmShown, KeyOfItsRow, RowsOwned, StatusTested
<1> QED
  BY <1>7, <1>8, <1>9, <1>10, <1>11 DEF HsmInv

\* A call that starts keeps the invariant.
LEMMA CallStepFine ==
  ASSUME HsmInv, NEW w \in HsmWorker,
         \/ test_provider(w) \/ sync_keys(w)
         \/ \E label \in Labels : generate_key(w, label)
         \/ \E r \in DOMAIN keyRows : delete_key(w, r) \/ get_public_key(w, r) \/ sign(w, r)
  PROVE  HsmInv'
<1>1. CASE test_provider(w)
  <2> DEFINE c == [NoCall EXCEPT !.op = "test", !.status = provider.status]
  <2>1. provider.status \in {"unknown", "connected", "error"}
    BY DEF HsmInv, DeviceFine
  <2>2. c \in CallOf /\ c.op = "test" /\ c.status = provider.status
    BY <2>1, NoCallFine DEF CallOf
  <2>3. Call(w, c)
    BY <1>1 DEF test_provider
  <2> HIDE DEF c
  <2> QED
    BY <2>2, <2>3, CallFine
<1>2. CASE sync_keys(w)
  <2> DEFINE c == [NoCall EXCEPT !.op = "sync"]
  <2>1. c \in CallOf /\ c.op = "sync"
    BY NoCallFine DEF CallOf
  <2>2. Call(w, c)
    BY <1>2 DEF sync_keys
  <2> HIDE DEF c
  <2> QED
    BY <2>1, <2>2, CallFine
<1>3. ASSUME NEW label \in Labels, generate_key(w, label) PROVE HsmInv'
  <2> DEFINE c == [NoCall EXCEPT !.op = "generate", !.label = label]
  <2>1. c \in CallOf /\ c.op = "generate"
    BY NoCallFine DEF CallOf
  <2>2. Call(w, c)
    BY <1>3 DEF generate_key
  <2> HIDE DEF c
  <2> QED
    BY <2>1, <2>2, CallFine
<1>4. ASSUME NEW r \in DOMAIN keyRows, NEW op \in {"delete", "public", "sign"},
             Call(w, [NoCall EXCEPT !.op = op, !.row = r, !.key = keyRows[r].key])
      PROVE  HsmInv'
  <2> DEFINE c == [NoCall EXCEPT !.op = op, !.row = r, !.key = keyRows[r].key]
  <2>1. r \in Nat
    BY DEF HsmInv, KeyRowsFine
  <2>2. keyRows[r].key \in KeyName
    BY DEF HsmInv, KeyRowsFine, DeviceFine
  <2>3. c \in CallOf /\ c.op = op /\ c.row = r /\ c.key = keyRows[r].key
    BY <2>1, <2>2, NoCallFine DEF CallOf
  <2>4. Call(w, c)
    BY <1>4
  <2> HIDE DEF c
  <2> QED
    BY <2>3, <2>4, CallFine
<1>5. ASSUME NEW r \in DOMAIN keyRows, delete_key(w, r) \/ get_public_key(w, r) \/ sign(w, r) PROVE HsmInv'
  <2>1. CASE delete_key(w, r)
    BY <1>4, <2>1 DEF delete_key
  <2>2. CASE get_public_key(w, r)
    BY <1>4, <2>2 DEF get_public_key
  <2>3. CASE sign(w, r)
    BY <1>4, <2>3 DEF sign
  <2> QED
    BY <1>5, <2>1, <2>2, <2>3
<1> QED
  BY <1>1, <1>2, <1>3, <1>5

\* What a library finds is on the device; a token uses the key it is asked for.
LEMMA FindFine ==
  ASSUME DeviceFine, NEW v, NEW k
  PROVE  /\ Uses(v, k) \subseteq device /\ List(v) \subseteq device
         /\ type = "pkcs11" => \A j \in Uses(v, k) : j = k
<1>1. CASE type = "pkcs11"
  BY <1>1 DEF Uses, List, Pkcs11Uses, Pkcs11Find, Pkcs11List
<1>2. CASE type = "azure-keyvault"
  BY <1>2 DEF Uses, List, AzureUses, AzureFind, AzureList
<1>3. CASE type = "google-kms"
  BY <1>3 DEF Uses, List, GcpUses, GcpList
<1> QED
  BY <1>1, <1>2, <1>3 DEF DeviceFine

\* An answer belongs to the call it answers.
AnswerTo(c, d) ==
  /\ d.stage = "answered" /\ d.op = c.op /\ d.vault = c.vault /\ d.status = c.status /\ d.row = c.row
  /\ c.op # "generate" => d.key = c.key

\* A failed call and a done one are answers to the call.
LEMMA AnswerForms ==
  ASSUME NEW c \in CallOf
  PROVE  /\ Failed(c) \in CallOf /\ AnswerTo(c, Failed(c)) /\ Failed(c).ok = FALSE
         /\ Done(c) \in CallOf /\ AnswerTo(c, Done(c))
<1>1. Failed(c) \in CallOf /\ AnswerTo(c, Failed(c))
  BY DEF CallOf, Failed, AnswerTo
<1>2. Failed(c).ok = FALSE
  BY DEF CallOf, Failed
<1>3. Done(c) \in CallOf /\ AnswerTo(c, Done(c))
  BY DEF CallOf, Done, AnswerTo
<1> QED
  BY <1>1, <1>2, <1>3

\* What an answer says of the device is so when the device gives it.
LEMMA AnswerIs ==
  ASSUME DeviceFine, NEW c \in CallOf, c.op # "none", NEW a \in AnswerOf(c)
  PROVE  /\ a \in CallOf /\ AnswerTo(c, a)
         /\ c.op = "generate" /\ a.ok = TRUE => a.key.n = Cardinality(made) + 1
         /\ c.op \in {"public", "sign"} /\ a.ok = TRUE => a.used \in device /\ (type = "pkcs11" => a.used = c.key)
         /\ c.op = "sync" /\ a.ok = TRUE => a.keys = List(c.vault)
<1>0. c.op \in {"test", "generate", "delete", "public", "sign", "sync"}
  BY DEF CallOf
<1> PICK d \in CallOf : d = Done(c) /\ AnswerTo(c, d)
  BY AnswerForms
<1>1. CASE c.op = "test"
  <2>1. a = Done(c)
    BY <1>1 DEF AnswerOf
  <2> QED
    BY <1>1, <2>1, AnswerForms
<1>2. CASE c.op = "generate"
  <2>1. a = [Done(c) EXCEPT !.key = [n |-> Cardinality(made) + 1, label |-> c.label, vault |-> c.vault]] \/ a = Failed(c)
    BY <1>2 DEF AnswerOf
  <2>2. PICK k : k = [n |-> Cardinality(made) + 1, label |-> c.label, vault |-> c.vault]
    OBVIOUS
  <2>3. k \in KeyName /\ k.n = Cardinality(made) + 1
    <3>1. Cardinality(made) \in Nat
      BY FS_CardinalityType DEF DeviceFine
    <3>2. c.label \in Labels \cup {"none"} /\ c.vault \in Vaults \cup {0}
      BY DEF CallOf
    <3> QED
      BY <2>2, <3>1, <3>2 DEF KeyName
  <2>4. CASE a = [Done(c) EXCEPT !.key = k]
    <3>1. a \in CallOf /\ a.key = k
      BY <2>3, <2>4 DEF CallOf
    <3>2. AnswerTo(c, a)
      BY <1>2, <2>4 DEF CallOf, AnswerTo
    <3> QED
      BY <1>2, <2>3, <3>1, <3>2
  <2>5. CASE a = Failed(c)
    BY <1>2, <2>5, AnswerForms
  <2> QED
    BY <2>1, <2>2, <2>4, <2>5
<1>3. CASE c.op = "delete"
  <2>1. a = Done(c) \/ a = Failed(c)
    BY <1>3 DEF AnswerOf
  <2> QED
    BY <1>3, <2>1, AnswerForms
<1>4. CASE c.op \in {"public", "sign"}
  <2>1. a = Failed(c) \/ \E k \in Uses(c.vault, c.key) : a = [Done(c) EXCEPT !.used = k]
    BY <1>4 DEF AnswerOf
  <2>2. CASE a = Failed(c)
    BY <1>4, <2>2, AnswerForms
  <2>3. ASSUME NEW k \in Uses(c.vault, c.key), a = [Done(c) EXCEPT !.used = k]
        PROVE  a \in CallOf /\ AnswerTo(c, a) /\ a.used \in device /\ (type = "pkcs11" => a.used = c.key)
    <3>1. k \in device /\ (type = "pkcs11" => k = c.key)
      BY FindFine
    <3>2. k \in KeyName
      BY <3>1 DEF DeviceFine
    <3>3. a \in CallOf /\ a.used = k
      BY <2>3, <3>2 DEF CallOf
    <3>4. AnswerTo(c, a)
      BY <2>3 DEF CallOf, AnswerTo
    <3> QED
      BY <3>1, <3>3, <3>4
  <2> QED
    BY <1>4, <2>1, <2>2, <2>3
<1>5. CASE c.op = "sync"
  <2>1. a = [Done(c) EXCEPT !.keys = List(c.vault)]
    BY <1>5 DEF AnswerOf
  <2>2. PICK l : l = List(c.vault)
    OBVIOUS
  <2>3. l \subseteq KeyName
    BY <2>2, FindFine DEF DeviceFine
  <2>4. a \in CallOf /\ a.keys = l
    BY <2>1, <2>2, <2>3 DEF CallOf
  <2>5. AnswerTo(c, a)
    BY <2>1, <2>2 DEF CallOf, AnswerTo
  <2> QED
    BY <1>5, <2>2, <2>4, <2>5
<1> QED
  BY <1>0, <1>1, <1>2, <1>3, <1>4, <1>5

\* A listing names nothing that the vault does not hold.
LEMMA ListHeld ==
  ASSUME DeviceFine, NEW v
  PROVE  List(v) \subseteq {k \in device : k.vault = v}
<1>1. CASE type = "pkcs11"
  BY <1>1 DEF List, Pkcs11List
<1>2. CASE type = "azure-keyvault"
  BY <1>2 DEF List, AzureList
<1>3. CASE type = "google-kms"
  BY <1>3 DEF List, GcpList
<1> QED
  BY <1>1, <1>2, <1>3 DEF DeviceFine

\* The listing of a vault depends on the device alone.
LEMMA ListSame ==
  ASSUME DeviceFine, type' = type, device' = device, NEW v
  PROVE  List(v)' = List(v)
<1>1. CASE type = "pkcs11"
  BY <1>1 DEF List, Pkcs11List
<1>2. CASE type = "azure-keyvault"
  BY <1>2 DEF List, AzureList, Latest
<1>3. CASE type = "google-kms"
  BY <1>3 DEF List, GcpList
<1> QED
  BY <1>1, <1>2, <1>3 DEF DeviceFine

\* An answer arrives.
LEMMA AnsweredFine ==
  ASSUME HsmInv, NEW w \in HsmWorker, Busy(w), NEW d \in CallOf, AnswerTo(call[w], d),
         call' = [call EXCEPT ![w] = d], DeviceFine', made \subseteq made', AnswerFine(d)',
         type' = type, provider' = provider, keyRows' = keyRows, tested' = tested, signed' = signed, synced' = synced,
         call[w].op = "sync" => device' = device /\ (d.ok = TRUE => d.keys = List(call[w].vault))
  PROVE  HsmInv'
<1>1. KeyRowsFine'
  BY RowsStay DEF HsmInv
<1>2. CallsFine'
  <2>1. Uninterrupted(w) /\ (type # "azure-keyvault" => ReadFine(call[w]))
    BY BusyAlone DEF HsmInv
  <2>2. ASSUME type # "azure-keyvault" PROVE ReadFine(d)'
    <3>1. ReadFine(call[w])
      BY <2>1, <2>2
    <3> QED
      BY <3>1 DEF ReadFine, AnswerTo
  <2> QED
    BY <2>1, <2>2, CallsMove DEF HsmInv
<1>3. SyncFine'
  <2>1. call'[w] = d /\ \A v \in HsmWorker \ {w} : call'[v] = call[v]
    BY DEF HsmInv, CallsFine
  <2>2. CASE synced = "no"
    BY <2>2 DEF SyncFine
  <2>3. CASE synced = "running"
    <3>1. PICK u \in HsmWorker : /\ call[u].op = "sync" /\ call[u].vault = provider.vault
                                 /\ \A v \in HsmWorker : Busy(v) => v = u
      BY <2>3 DEF HsmInv, SyncFine
    <3>2. u = w
      BY <3>1
    <3>3. List(provider.vault)' = List(provider.vault)
      <4>1. PICK v : v = provider.vault
        OBVIOUS
      <4>2. List(v)' = List(v)
        BY <3>1, <3>2, ListSame DEF HsmInv
      <4>3. provider'.vault = v
        BY <4>1
      <4> QED
        BY <4>1, <4>2, <4>3
    <3>4. d.op = "sync" /\ d.vault = provider'.vault
      BY <3>1, <3>2 DEF AnswerTo
    <3>5. d.ok = TRUE => d.keys = List(provider.vault)'
      BY <3>1, <3>2, <3>3
    <3>6. \A v \in HsmWorker : Busy(v)' => v = w
      BY <2>1, <3>1, <3>2 DEF Busy
    <3>7. d.ok \in BOOLEAN
      BY DEF CallOf
    <3>8. call'[w].stage = "answered" /\ call'[w].ok => call'[w].keys = List(provider.vault)'
      BY <2>1, <3>5, <3>7
    <3> QED
      BY <2>1, <2>3, <3>4, <3>6, <3>8 DEF SyncFine
  <2>4. synced # "done"
    BY DEF HsmInv, SyncFine
  <2> QED
    BY <2>2, <2>3, <2>4 DEF HsmInv, DeviceFine
<1>4. HsmShown'
  BY DEF HsmInv, HsmShown, KeyOfItsRow, RowsOwned, StatusTested
<1> QED
  BY <1>1, <1>2, <1>3, <1>4 DEF HsmInv

\* A call that does not reach the device keeps the invariant.
LEMMA UnreachableFine ==
  ASSUME HsmInv, NEW w \in HsmWorker, Unreachable(w)
  PROVE  HsmInv'
<1>1. PICK d : d = Failed(call[w])
  OBVIOUS
<1>2. call[w] \in CallOf
  BY DEF HsmInv, CallsFine
<1>3. d \in CallOf /\ AnswerTo(call[w], d) /\ d.ok = FALSE
  BY <1>1, <1>2, AnswerForms
<1>4. AnswerFine(d)'
  BY <1>3 DEF AnswerFine
<1>5. DeviceFine'
  BY DEF HsmInv, DeviceFine, Unreachable
<1> QED
  BY <1>1, <1>3, <1>4, <1>5, AnsweredFine DEF Unreachable

\* A call the device carries out keeps the invariant.
LEMMA DeviceStepFine ==
  ASSUME HsmInv, NEW w \in HsmWorker, Device(w)
  PROVE  HsmInv'
<1>1. PICK c : c = call[w]
  OBVIOUS
<1>2. /\ type' = type /\ provider' = provider /\ keyRows' = keyRows /\ tested' = tested /\ signed' = signed
      /\ synced' = synced /\ Busy(w) /\ (c.op = "generate" => Cardinality(made) < MaxKeys)
  BY <1>1 DEF Device
<1>3. c \in CallOf /\ c.op # "none"
  BY <1>1, <1>2 DEF HsmInv, CallsFine, Busy
<1>4. PICK a \in AnswerOf(c) :
        /\ call' \in {[call EXCEPT ![w] = a], [call EXCEPT ![w] = Failed(c)]}
        /\ made' = IF c.op = "generate" /\ a.ok THEN made \cup {a.key} ELSE made
        /\ device' = CASE c.op = "generate" /\ a.ok -> device \cup {a.key}
                       [] c.op = "delete" -> device \ Find(c.vault, c.key)
                       [] OTHER -> device
  BY <1>1 DEF Device
<1>5. /\ a \in CallOf /\ AnswerTo(c, a)
      /\ c.op = "generate" /\ a.ok = TRUE => a.key.n = Cardinality(made) + 1
      /\ c.op \in {"public", "sign"} /\ a.ok = TRUE => a.used \in device /\ (type = "pkcs11" => a.used = c.key)
      /\ c.op = "sync" /\ a.ok = TRUE => a.keys = List(c.vault)
  BY <1>3, AnswerIs DEF HsmInv
<1>6. a.ok \in BOOLEAN /\ a.key \in KeyName
  BY <1>5 DEF CallOf
<1>7. DeviceFine' /\ made \subseteq made'
  <2>1. CASE c.op = "generate" /\ a.ok = TRUE
    <3>1. made' = made \cup {a.key} /\ device' = device \cup {a.key}
      BY <1>4, <2>1
    <3>2. /\ IsFiniteSet(made') /\ Cardinality(made') <= MaxKeys
          /\ \A x \in made' : x.n \in 1 .. Cardinality(made')
          /\ \A i, j \in made' : i.n = j.n => i = j
      BY <1>2, <1>5, <1>6, <2>1, <3>1, NewKeyFine DEF HsmInv
    <3>3. made' \subseteq KeyName /\ device' \subseteq made' /\ made \subseteq made'
      BY <1>6, <3>1 DEF HsmInv, DeviceFine
    <3>4. /\ type' \in {"pkcs11", "azure-keyvault", "google-kms"} /\ synced' \in {"no", "running", "done"}
          /\ provider' \in [there : BOOLEAN, vault : Vaults, status : {"unknown", "connected", "error"}]
      BY <1>2 DEF HsmInv, DeviceFine
    <3> QED
      BY <3>2, <3>3, <3>4 DEF DeviceFine
  <2>2. CASE ~(c.op = "generate" /\ a.ok = TRUE)
    <3>1. made' = made
      BY <1>4, <1>6, <2>2
    <3>2. device' \subseteq device
      BY <1>4, <1>6, <2>2
    <3> QED
      BY <1>2, <3>1, <3>2 DEF HsmInv, DeviceFine
  <2> QED
    BY <2>1, <2>2
<1>8. AnswerFine(a)'
  <2>1. device \subseteq made
    BY DEF HsmInv, DeviceFine
  <2>2. a.ok = TRUE /\ c.op = "generate" => a.key \in made'
    BY <1>4
  <2>3. a.ok = TRUE /\ c.op = "sync" => a.keys \subseteq made'
    BY <1>5, <1>7, <2>1, FindFine DEF HsmInv
  <2>4. a.ok = TRUE /\ c.op \in {"public", "sign"} => a.used \in made' /\ (type' = "pkcs11" => a.used = a.key)
    BY <1>2, <1>5, <1>7, <2>1 DEF AnswerTo
  <2>5. a.op = c.op
    BY <1>5 DEF AnswerTo
  <2> QED
    BY <1>6, <2>2, <2>3, <2>4, <2>5 DEF AnswerFine
<1>9. c.op = "sync" => device' = device
  BY <1>4
<1>10. CASE call' = [call EXCEPT ![w] = a]
  BY <1>1, <1>2, <1>5, <1>7, <1>8, <1>9, <1>10, AnsweredFine
<1>11. CASE call' = [call EXCEPT ![w] = Failed(c)]
  <2>1. PICK d : d = Failed(c)
    OBVIOUS
  <2>2. d \in CallOf /\ AnswerTo(c, d) /\ d.ok = FALSE
    BY <1>3, <2>1, AnswerForms
  <2>3. AnswerFine(d)'
    BY <2>2 DEF AnswerFine
  <2> QED
    BY <1>1, <1>2, <1>7, <1>9, <1>11, <2>1, <2>2, <2>3, AnsweredFine
<1> QED
  BY <1>4, <1>10, <1>11

\* A new row is numbered above the others.
LEMMA NextRowAbove ==
  ASSUME NEW S, NEW b \in Nat, S \subseteq 0 .. b
  PROVE  NextRow(S) \in Nat /\ \A r \in S : r < NextRow(S)
<1>1. CASE S = {}
  BY <1>1 DEF NextRow
<1>2. CASE S # {}
  <2>1. \E x \in S : \A y \in S : y <= x
    BY <1>2, NatMax
  <2>2. PICK m : m = CHOOSE x \in S : \A y \in S : y <= x
    OBVIOUS
  <2>3. m \in S /\ \A y \in S : y <= m
    BY <2>1, <2>2
  <2>4. NextRow(S) = 1 + m
    BY <1>2, <2>2 DEF NextRow
  <2>5. m \in Nat /\ \A r \in S : r \in Nat
    BY <2>3
  <2> QED
    BY <2>3, <2>4, <2>5
<1> QED
  BY <1>1, <1>2

\* An operation ends, and its greenlet is free.
LEMMA FinishFine ==
  ASSUME HsmInv, NEW w \in HsmWorker, NEW op, Finish(w, op)
  PROVE  /\ CallsFine' /\ type' = type /\ device' = device /\ made' = made
         /\ Busy(w) /\ call[w].op = op /\ call[w].stage = "answered" /\ call[w] \in CallOf /\ AnswerFine(call[w])
         /\ call'[w] = NoCall /\ \A v \in HsmWorker \ {w} : call'[v] = call[v]
         /\ type # "azure-keyvault" => ReadFine(call[w])
<1>1. /\ type' = type /\ device' = device /\ made' = made
      /\ Busy(w) /\ call[w].op = op /\ call[w].stage = "answered" /\ call' = [call EXCEPT ![w] = NoCall]
  BY DEF Finish
<1>2. /\ Uninterrupted(w) /\ call[w] \in CallOf /\ AnswerFine(call[w])
      /\ type # "azure-keyvault" => ReadFine(call[w])
  BY <1>1, BusyAlone DEF HsmInv
<1>3. PICK d : d = NoCall
  OBVIOUS
<1>4. d \in CallOf /\ d.op = "none" /\ d.stage = "asked"
  BY <1>3, NoCallFine
<1>5. AnswerFine(d)'
  BY <1>4 DEF AnswerFine
<1>6. CallsFine'
  BY <1>1, <1>2, <1>3, <1>4, <1>5, CallsMove DEF HsmInv
<1>7. call'[w] = NoCall /\ \A v \in HsmWorker \ {w} : call'[v] = call[v]
  BY <1>1 DEF HsmInv, CallsFine
<1> QED
  BY <1>1, <1>2, <1>6, <1>7

\* The end of a provider's test keeps the invariant.
LEMMA TestEndsFine ==
  ASSUME HsmInv, NEW w \in HsmWorker, test_provider_ends(w)
  PROVE  HsmInv'
<1>1. PICK c : c = call[w]
  OBVIOUS
<1>2. PICK status : status = IF c.ok THEN "connected" ELSE "error"
  OBVIOUS
<1>3. /\ Finish(w, "test") /\ synced' = "no" /\ keyRows' = keyRows /\ signed' = signed
      /\ provider' = IF provider.there /\ status # c.status THEN [provider EXCEPT !.status = status] ELSE provider
      /\ tested' = IF c.ok THEN c.vault ELSE tested
  BY <1>1, <1>2 DEF test_provider_ends
<1>4. /\ CallsFine' /\ type' = type /\ device' = device /\ made' = made /\ c.op = "test" /\ c \in CallOf
      /\ type # "azure-keyvault" => ReadFine(c)
  BY <1>1, <1>3, FinishFine
<1>5. provider \in [there : BOOLEAN, vault : Vaults, status : {"unknown", "connected", "error"}]
  BY DEF HsmInv, DeviceFine
<1>6. status \in {"connected", "error"} /\ (status = "connected" => c.ok)
  BY <1>2
<1>7. /\ provider' \in [there : BOOLEAN, vault : Vaults, status : {"unknown", "connected", "error"}]
      /\ provider'.there = provider.there /\ provider'.vault = provider.vault
      /\ provider.there /\ c.status = provider.status => provider'.status = status
  <2>1. CASE provider.there /\ status # c.status
    BY <1>3, <1>5, <1>6, <2>1
  <2>2. CASE ~(provider.there /\ status # c.status)
    BY <1>3, <1>5, <2>2
  <2> QED
    BY <2>1, <2>2
<1>8. DeviceFine'
  BY <1>3, <1>4, <1>7 DEF HsmInv, DeviceFine
<1>9. KeyRowsFine'
  BY <1>3, <1>4 DEF HsmInv, KeyRowsFine
<1>10. SyncFine'
  BY <1>3 DEF SyncFine
<1>11. KeyOfItsRow' /\ RowsOwned'
  BY <1>3, <1>4, <1>7 DEF HsmInv, HsmShown, KeyOfItsRow, RowsOwned
<1>12. StatusTested'
  <2> SUFFICES ASSUME type # "azure-keyvault", provider'.status = "connected" PROVE tested' = provider'.vault
    BY <1>4 DEF StatusTested
  <2>1. provider.there /\ c.vault = provider.vault /\ c.status = provider.status
    BY <1>4 DEF ReadFine
  <2>2. status = "connected"
    BY <1>7, <2>1
  <2> QED
    BY <1>3, <1>6, <1>7, <2>1, <2>2
<1> QED
  BY <1>4, <1>8, <1>9, <1>10, <1>11, <1>12 DEF HsmInv, HsmShown

\* An operation on the rows of keys ends.
LEMMA RowsEndFine ==
  ASSUME HsmInv, NEW w \in HsmWorker, NEW op, Finish(w, op), provider' = provider, tested' = tested,
         synced' \in {"no", "done"}, KeyRowsFine', SyncFine', KeyOfItsRow', RowsOwned'
  PROVE  HsmInv'
<1>1. CallsFine' /\ type' = type /\ device' = device /\ made' = made
  BY FinishFine
<1>2. DeviceFine'
  BY <1>1 DEF HsmInv, DeviceFine
<1>3. StatusTested'
  BY <1>1 DEF HsmInv, HsmShown, StatusTested
<1> QED
  BY <1>1, <1>2, <1>3 DEF HsmInv, HsmShown

\* The row stored for a generated key keeps the invariant.
LEMMA GenerateEndsFine ==
  ASSUME HsmInv, NEW w \in HsmWorker, generate_key_ends(w)
  PROVE  HsmInv'
<1>1. PICK c : c = call[w]
  OBVIOUS
<1>2. PICK n : n = NextRow(DOMAIN keyRows)
  OBVIOUS
<1>3. PICK row : row = [key |-> c.key, pub |-> PublicOf(c.key)]
  OBVIOUS
<1>4. /\ Finish(w, "generate") /\ synced' = "no" /\ provider' = provider /\ tested' = tested /\ signed' = signed
      /\ keyRows' = IF c.ok /\ ~Stored(c.key) THEN WithRow(n, row) ELSE keyRows
  BY <1>1, <1>2, <1>3 DEF generate_key_ends
<1>5. /\ type' = type /\ made' = made /\ c.op = "generate" /\ c.stage = "answered" /\ AnswerFine(c)
      /\ type # "azure-keyvault" => ReadFine(c)
  BY <1>1, <1>4, FinishFine
<1>6. SyncFine'
  BY <1>4 DEF SyncFine
<1>7. RowsOwned'
  <2>1. type # "azure-keyvault" => provider.there
    BY <1>5 DEF ReadFine
  <2> QED
    BY <1>4, <1>5, <2>1 DEF RowsOwned
<1>8. CASE keyRows' = keyRows
  <2>1. KeyRowsFine'
    BY <1>5, <1>8 DEF HsmInv, KeyRowsFine
  <2>2. KeyOfItsRow'
    BY <1>4, <1>5, <1>8 DEF HsmInv, HsmShown, KeyOfItsRow
  <2> QED
    BY <1>4, <1>6, <1>7, <2>1, <2>2, RowsEndFine
<1>9. CASE c.ok /\ ~Stored(c.key) /\ keyRows' = WithRow(n, row)
  <2>1. PICK b \in Nat : DOMAIN keyRows \subseteq 0 .. b
    BY DEF HsmInv, KeyRowsFine
  <2>2. n \in Nat /\ n \notin DOMAIN keyRows
    BY <1>2, <2>1, NextRowAbove
  <2>3. c.key \in made
    BY <1>5, <1>9 DEF AnswerFine
  <2>4. c.key.n \in 0 .. MaxKeys
    <3>1. Cardinality(made) \in Nat /\ Cardinality(made) <= MaxKeys /\ c.key.n \in 1 .. Cardinality(made)
      BY <2>3, FS_CardinalityType DEF HsmInv, DeviceFine
    <3> QED
      BY <3>1, HsmAssumption
  <2>5. PublicOf(c.key) \in {0, c.key.n} /\ PublicOf(c.key) \in 0 .. MaxKeys
    BY <2>4, HsmAssumption DEF PublicOf
  <2>6. row \in [key : made, pub : 0 .. MaxKeys] /\ row.key = c.key /\ row.pub \in {0, row.key.n}
    BY <1>3, <2>3, <2>5
  <2>7. /\ DOMAIN keyRows' = DOMAIN keyRows \cup {n} /\ keyRows'[n] = row
        /\ \A r \in DOMAIN keyRows : keyRows'[r] = keyRows[r]
    BY <1>9, <2>2 DEF WithRow
  <2>8. KeyRowsFine'
    <3>1. b + n \in Nat /\ DOMAIN keyRows' \subseteq 0 .. b + n
      BY <2>1, <2>2, <2>7
    <3>2. \A r \in DOMAIN keyRows' : keyRows'[r] \in [key : made', pub : 0 .. MaxKeys]
      BY <1>5, <2>6, <2>7 DEF HsmInv, KeyRowsFine
    <3>3. \A r \in DOMAIN keyRows : keyRows[r].key # c.key
      BY <1>9 DEF Stored
    <3>4. \A r, q \in DOMAIN keyRows' : keyRows'[r].key = keyRows'[q].key => r = q
      BY <2>6, <2>7, <3>3 DEF HsmInv, KeyRowsFine
    <3> QED
      BY <3>1, <3>2, <3>4 DEF KeyRowsFine
  <2>9. KeyOfItsRow'
    <3>1. type = "pkcs11" => \A r \in DOMAIN keyRows' : keyRows'[r].pub \in {0, keyRows'[r].key.n}
      BY <2>6, <2>7 DEF HsmInv, HsmShown, KeyOfItsRow
    <3> QED
      BY <1>4, <1>5, <3>1 DEF HsmInv, HsmShown, KeyOfItsRow
  <2> QED
    BY <1>4, <1>6, <1>7, <2>8, <2>9, RowsEndFine
<1> QED
  BY <1>4, <1>8, <1>9

\* The row removed for a deleted key keeps the invariant.
LEMMA DeleteEndsFine ==
  ASSUME HsmInv, NEW w \in HsmWorker, delete_key_ends(w)
  PROVE  HsmInv'
<1>1. PICK c : c = call[w]
  OBVIOUS
<1>2. /\ Finish(w, "delete") /\ synced' = "no" /\ provider' = provider /\ tested' = tested /\ signed' = signed
      /\ keyRows' = IF c.ok THEN [r \in DOMAIN keyRows \ {c.row} |-> keyRows[r]] ELSE keyRows
  BY <1>1 DEF delete_key_ends
<1>3. type' = type /\ made' = made /\ (type # "azure-keyvault" => ReadFine(c))
  BY <1>1, <1>2, FinishFine
<1>4. DOMAIN keyRows' \subseteq DOMAIN keyRows /\ \A r \in DOMAIN keyRows' : keyRows'[r] = keyRows[r]
  BY <1>2
<1>5. KeyRowsFine'
  <2>1. PICK b \in Nat : DOMAIN keyRows \subseteq 0 .. b
    BY DEF HsmInv, KeyRowsFine
  <2>2. DOMAIN keyRows' \subseteq 0 .. b
    BY <1>4, <2>1
  <2> QED
    BY <1>3, <1>4, <2>2 DEF HsmInv, KeyRowsFine
<1>6. SyncFine'
  BY <1>2 DEF SyncFine
<1>7. RowsOwned'
  <2>1. type # "azure-keyvault" => provider.there
    BY <1>3 DEF ReadFine
  <2> QED
    BY <1>2, <1>3, <2>1 DEF RowsOwned
<1>8. KeyOfItsRow'
  <2>1. type = "pkcs11" => \A r \in DOMAIN keyRows' : keyRows'[r].pub \in {0, keyRows'[r].key.n}
    BY <1>4 DEF HsmInv, HsmShown, KeyOfItsRow
  <2> QED
    BY <1>2, <1>3, <2>1 DEF HsmInv, HsmShown, KeyOfItsRow
<1> QED
  BY <1>2, <1>5, <1>6, <1>7, <1>8, RowsEndFine

\* The public part stored after the device gave it keeps the invariant.
LEMMA PublicEndsFine ==
  ASSUME HsmInv, NEW w \in HsmWorker, get_public_key_ends(w)
  PROVE  HsmInv'
<1>1. PICK c : c = call[w]
  OBVIOUS
<1>2. /\ Finish(w, "public") /\ synced' = "no" /\ provider' = provider /\ tested' = tested /\ signed' = signed
      /\ keyRows' = IF c.ok /\ c.row \in DOMAIN keyRows THEN [keyRows EXCEPT ![c.row].pub = c.used.n] ELSE keyRows
  BY <1>1 DEF get_public_key_ends
<1>3. /\ type' = type /\ made' = made /\ c.op = "public" /\ c.stage = "answered" /\ AnswerFine(c)
      /\ type # "azure-keyvault" => ReadFine(c)
  BY <1>1, <1>2, FinishFine
<1>4. SyncFine'
  BY <1>2 DEF SyncFine
<1>5. RowsOwned'
  <2>1. type # "azure-keyvault" => provider.there
    BY <1>3 DEF ReadFine
  <2> QED
    BY <1>2, <1>3, <2>1 DEF RowsOwned
<1>6. CASE keyRows' = keyRows
  <2>1. KeyRowsFine'
    BY <1>3, <1>6 DEF HsmInv, KeyRowsFine
  <2>2. KeyOfItsRow'
    BY <1>2, <1>3, <1>6 DEF HsmInv, HsmShown, KeyOfItsRow
  <2> QED
    BY <1>2, <1>4, <1>5, <2>1, <2>2, RowsEndFine
<1>7. CASE c.ok /\ c.row \in DOMAIN keyRows /\ keyRows' = [keyRows EXCEPT ![c.row].pub = c.used.n]
  <2>1. c.used \in made /\ (type = "pkcs11" => c.used = c.key)
    BY <1>3, <1>7 DEF AnswerFine
  <2>2. PICK p : p = c.used.n
    OBVIOUS
  <2>3. p \in 0 .. MaxKeys
    <3>1. Cardinality(made) \in Nat /\ Cardinality(made) <= MaxKeys /\ p \in 1 .. Cardinality(made)
      BY <2>1, <2>2, FS_CardinalityType DEF HsmInv, DeviceFine
    <3> QED
      BY <3>1, HsmAssumption
  <2>4. \A r \in DOMAIN keyRows : keyRows[r] \in [key : made, pub : 0 .. MaxKeys]
    BY DEF HsmInv, KeyRowsFine
  <2>5. DOMAIN keyRows' = DOMAIN keyRows
    BY <1>7
  <2>6. /\ \A r \in DOMAIN keyRows \ {c.row} : keyRows'[r] = keyRows[r]
        /\ keyRows'[c.row] = [keyRows[c.row] EXCEPT !.pub = p]
    BY <1>7, <2>2
  <2>7. /\ keyRows'[c.row] \in [key : made, pub : 0 .. MaxKeys]
        /\ keyRows'[c.row].key = keyRows[c.row].key /\ keyRows'[c.row].pub = p
    BY <1>7, <2>3, <2>4, <2>6
  <2>8. KeyRowsFine'
    <3>1. \A r \in DOMAIN keyRows' : keyRows'[r] \in [key : made', pub : 0 .. MaxKeys]
      BY <1>3, <2>4, <2>5, <2>6, <2>7
    <3>2. \A r \in DOMAIN keyRows : keyRows'[r].key = keyRows[r].key
      BY <2>6, <2>7
    <3>3. \A r, q \in DOMAIN keyRows' : keyRows'[r].key = keyRows'[q].key => r = q
      BY <2>5, <3>2 DEF HsmInv, KeyRowsFine
    <3>4. \E b \in Nat : DOMAIN keyRows' \subseteq 0 .. b
      BY <2>5 DEF HsmInv, KeyRowsFine
    <3> QED
      BY <3>1, <3>3, <3>4 DEF KeyRowsFine
  <2>9. KeyOfItsRow'
    <3>1. ASSUME type = "pkcs11", NEW r \in DOMAIN keyRows' PROVE keyRows'[r].pub \in {0, keyRows'[r].key.n}
      <4>1. CASE r = c.row
        <5>1. keyRows[c.row].key = c.key
          BY <1>3, <3>1 DEF ReadFine
        <5> QED
          BY <2>1, <2>2, <2>7, <3>1, <4>1, <5>1
      <4>2. CASE r # c.row
        BY <2>5, <2>6, <3>1, <4>2 DEF HsmInv, HsmShown, KeyOfItsRow
      <4> QED
        BY <4>1, <4>2
    <3> QED
      BY <1>2, <1>3, <3>1 DEF HsmInv, HsmShown, KeyOfItsRow
  <2> QED
    BY <1>2, <1>4, <1>5, <2>8, <2>9, RowsEndFine
<1> QED
  BY <1>2, <1>6, <1>7

\* A signature handed out keeps the invariant.
LEMMA SignEndsFine ==
  ASSUME HsmInv, NEW w \in HsmWorker, sign_ends(w)
  PROVE  HsmInv'
<1>1. PICK c : c = call[w]
  OBVIOUS
<1>2. /\ Finish(w, "sign") /\ synced' = "no" /\ provider' = provider /\ tested' = tested /\ keyRows' = keyRows
      /\ signed' = IF c.ok THEN <<c.key, c.used>> ELSE signed
  BY <1>1 DEF sign_ends
<1>3. type' = type /\ made' = made /\ c.op = "sign" /\ c.stage = "answered" /\ AnswerFine(c)
  BY <1>1, <1>2, FinishFine
<1>4. KeyRowsFine'
  BY <1>2, <1>3 DEF HsmInv, KeyRowsFine
<1>5. SyncFine'
  BY <1>2 DEF SyncFine
<1>6. RowsOwned'
  BY <1>2, <1>3 DEF HsmInv, HsmShown, RowsOwned
<1>7. KeyOfItsRow'
  <2>1. ASSUME type = "pkcs11" PROVE signed' # << >> => signed'[1] = signed'[2]
    <3>1. CASE c.ok
      <4>1. c.used = c.key
        BY <1>3, <2>1, <3>1 DEF AnswerFine
      <4>2. signed' = <<c.key, c.used>>
        BY <1>2, <3>1
      <4> QED
        BY <4>1, <4>2
    <3>2. CASE ~c.ok
      BY <1>2, <2>1, <3>2 DEF HsmInv, HsmShown, KeyOfItsRow
    <3> QED
      BY <3>1, <3>2
  <2> QED
    BY <1>2, <1>3, <2>1 DEF HsmInv, HsmShown, KeyOfItsRow
<1> QED
  BY <1>2, <1>4, <1>5, <1>6, <1>7, RowsEndFine

\* Keys are numbered apart, so their ranks differ.
LEMMA RanksDiffer ==
  ASSUME NEW N, IsFiniteSet(N), \A k \in N : k.n \in Nat, \A j, k \in N : j.n = k.n => j = k
  PROVE  /\ \A k \in N : /\ Cardinality({x \in N : x.n < k.n}) \in Nat
                         /\ Cardinality({x \in N : x.n < k.n}) <= Cardinality(N)
         /\ \A j, k \in N : Cardinality({x \in N : x.n < j.n}) = Cardinality({x \in N : x.n < k.n}) => j = k
<1> DEFINE Below(k) == {x \in N : x.n < k.n}
<1>1. \A k \in N : IsFiniteSet(Below(k)) /\ Cardinality(Below(k)) \in Nat /\ Cardinality(Below(k)) <= Cardinality(N)
  <2> SUFFICES ASSUME NEW k \in N
               PROVE  IsFiniteSet(Below(k)) /\ Cardinality(Below(k)) \in Nat /\ Cardinality(Below(k)) <= Cardinality(N)
    OBVIOUS
  <2>1. Below(k) \in SUBSET N
    OBVIOUS
  <2> HIDE DEF Below
  <2> QED
    BY <2>1, FS_Subset, FS_CardinalityType
<1>2. ASSUME NEW j \in N, NEW k \in N, j.n < k.n PROVE Cardinality(Below(j)) # Cardinality(Below(k))
  <2>1. Below(j) \in SUBSET Below(k) /\ j \in Below(k) /\ j \notin Below(j)
    BY <1>2
  <2>2. IsFiniteSet(Below(k))
    BY <1>1
  <2> HIDE DEF Below
  <2>3. Below(j) # Below(k)
    BY <2>1
  <2> QED
    BY <2>1, <2>2, <2>3, FS_Subset
<1>3. ASSUME NEW j \in N, NEW k \in N, Cardinality(Below(j)) = Cardinality(Below(k)) PROVE j = k
  <2>1. ~(j.n < k.n) /\ ~(k.n < j.n)
    BY <1>2, <1>3
  <2>2. j.n = k.n
    BY <2>1
  <2> QED
    BY <2>2
<1> QED
  BY <1>1, <1>3

\* What a sync leaves: bounded row numbers, one row per listed key, and no row
\* with a public part but those that were there.
RowsAdded(keys, rws) ==
  /\ \E b \in Nat : DOMAIN rws \subseteq 0 .. b
  /\ \A r \in DOMAIN rws : rws[r] \in [key : made, pub : 0 .. MaxKeys]
  /\ \A r, q \in DOMAIN rws : rws[r].key = rws[q].key => r = q
  /\ {rws[r].key : r \in DOMAIN rws} = keys
  /\ \A r \in DOMAIN rws : (r \in DOMAIN keyRows /\ rws[r] = keyRows[r]) \/ rws[r].pub = 0

\* A sync keeps the rows of listed keys and adds one row for each other key.
LEMMA AddedRowsFine ==
  ASSUME HsmInv, NEW keys, keys \subseteq made,
         NEW kept, kept = [r \in {r \in DOMAIN keyRows : keyRows[r].key \in keys} |-> keyRows[r]],
         NEW rws, rws = AddedRows(keys, kept)
  PROVE  RowsAdded(keys, rws)
<1>1. PICK N : N = {k \in keys : ~Stored(k)}
  OBVIOUS
<1>2. PICK base : base = NextRow(DOMAIN keyRows)
  OBVIOUS
<1> DEFINE Row(k) == base + Cardinality({j \in N : j.n < k.n})
<1>3. rws = [r \in DOMAIN kept \cup {Row(k) : k \in N} |->
              IF r \in DOMAIN kept THEN kept[r] ELSE [key |-> CHOOSE k \in N : Row(k) = r, pub |-> 0]]
  BY <1>1, <1>2 DEF AddedRows
<1>4. PICK b \in Nat : DOMAIN keyRows \subseteq 0 .. b
  BY DEF HsmInv, KeyRowsFine
<1>5. base \in Nat /\ \A r \in DOMAIN keyRows : r \in Nat /\ r < base
  BY <1>2, <1>4, NextRowAbove
<1>6. /\ IsFiniteSet(N) /\ Cardinality(N) \in Nat /\ N \subseteq made
      /\ \A k \in N : k.n \in Nat
      /\ \A j, k \in N : j.n = k.n => j = k
  <2>1. N \in SUBSET made
    BY <1>1
  <2>2. IsFiniteSet(N) /\ Cardinality(N) \in Nat
    BY <2>1, FS_Subset, FS_CardinalityType DEF HsmInv, DeviceFine
  <2>3. \A k \in made : k.n \in Nat
    BY FS_CardinalityType DEF HsmInv, DeviceFine
  <2> QED
    BY <2>1, <2>2, <2>3 DEF HsmInv, DeviceFine
<1>7. \A k \in N : Row(k) \in Nat /\ Row(k) <= base + Cardinality(N) /\ Row(k) >= base
  <2> SUFFICES ASSUME NEW k \in N PROVE Row(k) \in Nat /\ Row(k) <= base + Cardinality(N) /\ Row(k) >= base
    OBVIOUS
  <2>1. PICK x : x = Cardinality({j \in N : j.n < k.n})
    OBVIOUS
  <2>2. x \in Nat /\ x <= Cardinality(N)
    BY <1>6, <2>1, RanksDiffer
  <2>3. Row(k) = base + x
    BY <2>1
  <2> QED
    BY <1>5, <1>6, <2>2, <2>3
<1>8. ASSUME NEW j \in N, NEW k \in N, Row(j) = Row(k) PROVE j = k
  <2>1. PICK x : x = Cardinality({i \in N : i.n < j.n})
    OBVIOUS
  <2>2. PICK y : y = Cardinality({i \in N : i.n < k.n})
    OBVIOUS
  <2>3. x \in Nat /\ y \in Nat /\ (x = y => j = k)
    BY <1>6, <2>1, <2>2, RanksDiffer
  <2>4. base + x = base + y
    BY <1>8, <2>1, <2>2
  <2> QED
    BY <1>5, <2>3, <2>4
<1> HIDE DEF Row
<1>9. \A k \in N : Row(k) \notin DOMAIN keyRows
  BY <1>5, <1>7
<1>10. /\ DOMAIN kept \subseteq DOMAIN keyRows
       /\ \A r \in DOMAIN keyRows : r \in DOMAIN kept <=> keyRows[r].key \in keys
       /\ \A r \in DOMAIN kept : kept[r] = keyRows[r]
  OBVIOUS
<1>11. DOMAIN rws = DOMAIN kept \cup {Row(k) : k \in N} /\ \A r \in DOMAIN kept : rws[r] = keyRows[r]
  BY <1>3, <1>10
<1>12. \A k \in N : rws[Row(k)].key = k /\ rws[Row(k)].pub = 0 /\ rws[Row(k)] \in [key : made, pub : 0 .. MaxKeys]
  <2> SUFFICES ASSUME NEW k \in N
               PROVE  rws[Row(k)].key = k /\ rws[Row(k)].pub = 0 /\ rws[Row(k)] \in [key : made, pub : 0 .. MaxKeys]
    OBVIOUS
  <2>1. Row(k) \notin DOMAIN kept /\ Row(k) \in DOMAIN kept \cup {Row(j) : j \in N}
    BY <1>9, <1>10
  <2>2. PICK x : x = CHOOSE j \in N : Row(j) = Row(k)
    OBVIOUS
  <2>3. x = k
    BY <1>8, <2>2
  <2>4. rws[Row(k)] = [key |-> k, pub |-> 0]
    BY <1>3, <2>1, <2>2, <2>3
  <2>5. k \in made /\ 0 \in 0 .. MaxKeys
    BY <1>6, HsmAssumption
  <2> QED
    BY <2>4, <2>5
<1>13. \E m \in Nat : DOMAIN rws \subseteq 0 .. m
  <2>1. PICK m : m = base + Cardinality(N)
    OBVIOUS
  <2>2. m \in Nat /\ base <= m
    BY <1>5, <1>6, <2>1
  <2>3. \A r \in DOMAIN kept : r \in 0 .. m
    BY <1>5, <1>10, <2>2
  <2>4. \A k \in N : Row(k) \in 0 .. m
    BY <1>7, <2>1, <2>2
  <2>5. DOMAIN rws \subseteq 0 .. m
    BY <1>11, <2>3, <2>4
  <2> QED
    BY <2>2, <2>5
<1>14. \A r \in DOMAIN rws : rws[r] \in [key : made, pub : 0 .. MaxKeys]
  <2>1. \A r \in DOMAIN kept : rws[r] \in [key : made, pub : 0 .. MaxKeys]
    BY <1>10, <1>11 DEF HsmInv, KeyRowsFine
  <2> QED
    BY <1>11, <1>12, <2>1
<1>15. \A r \in DOMAIN rws : (r \in DOMAIN keyRows /\ rws[r] = keyRows[r]) \/ rws[r].pub = 0
  BY <1>10, <1>11, <1>12
<1>16. \A r \in DOMAIN kept : rws[r].key \in keys /\ rws[r].key \notin N
  BY <1>1, <1>10, <1>11 DEF Stored
<1>17. {rws[r].key : r \in DOMAIN rws} = keys
  <2>1. \A r \in DOMAIN rws : rws[r].key \in keys
    BY <1>1, <1>11, <1>12, <1>16
  <2>2. ASSUME NEW k \in keys PROVE \E r \in DOMAIN rws : rws[r].key = k
    <3>1. CASE k \in N
      BY <1>11, <1>12, <3>1
    <3>2. CASE k \notin N
      <4>1. PICK r \in DOMAIN keyRows : keyRows[r].key = k
        BY <1>1, <3>2 DEF Stored
      <4>2. r \in DOMAIN kept
        BY <1>10, <4>1
      <4> QED
        BY <1>11, <4>1, <4>2
    <3> QED
      BY <3>1, <3>2
  <2> QED
    BY <2>1, <2>2
<1>18. ASSUME NEW r \in DOMAIN rws, NEW q \in DOMAIN rws, rws[r].key = rws[q].key PROVE r = q
  <2>1. CASE r \in DOMAIN kept /\ q \in DOMAIN kept
    BY <1>10, <1>11, <1>18, <2>1 DEF HsmInv, KeyRowsFine
  <2>2. CASE r \notin DOMAIN kept /\ q \notin DOMAIN kept
    <3>1. PICK j \in N : r = Row(j)
      BY <1>11, <2>2
    <3>2. PICK k \in N : q = Row(k)
      BY <1>11, <2>2
    <3> QED
      BY <1>12, <1>18, <3>1, <3>2
  <2>3. CASE r \in DOMAIN kept /\ q \notin DOMAIN kept
    BY <1>11, <1>12, <1>16, <1>18, <2>3
  <2>4. CASE r \notin DOMAIN kept /\ q \in DOMAIN kept
    BY <1>11, <1>12, <1>16, <1>18, <2>4
  <2> QED
    BY <2>1, <2>2, <2>3, <2>4
<1> QED
  BY <1>13, <1>14, <1>15, <1>17, <1>18 DEF RowsAdded

\* The rows a sync leaves keep the invariant.
LEMMA SyncEndsFine ==
  ASSUME HsmInv, NEW w \in HsmWorker, sync_keys_ends(w)
  PROVE  HsmInv'
<1>1. PICK c : c = call[w]
  OBVIOUS
<1>2. PICK kept : kept = [r \in {r \in DOMAIN keyRows : keyRows[r].key \in c.keys} |-> keyRows[r]]
  OBVIOUS
<1>3. /\ Finish(w, "sync") /\ provider' = provider /\ tested' = tested /\ signed' = signed
      /\ keyRows' = IF c.ok THEN AddedRows(c.keys, kept) ELSE keyRows
      /\ synced' = IF c.ok /\ synced = "running" THEN "done" ELSE "no"
  BY <1>1, <1>2 DEF sync_keys_ends
<1>4. /\ type' = type /\ made' = made /\ device' = device
      /\ Busy(w) /\ c.op = "sync" /\ c.stage = "answered" /\ AnswerFine(c)
      /\ call'[w] = NoCall /\ \A v \in HsmWorker \ {w} : call'[v] = call[v]
      /\ type # "azure-keyvault" => ReadFine(c)
  BY <1>1, <1>3, FinishFine
<1>5. RowsOwned'
  <2>1. type # "azure-keyvault" => provider.there
    BY <1>4 DEF ReadFine
  <2> QED
    BY <1>3, <1>4, <2>1 DEF RowsOwned
<1>6. synced' \in {"no", "done"}
  BY <1>3
<1>7. CASE ~c.ok
  <2>1. keyRows' = keyRows /\ synced' = "no"
    BY <1>3, <1>7
  <2>2. KeyRowsFine'
    BY <1>4, <2>1 DEF HsmInv, KeyRowsFine
  <2>3. SyncFine'
    BY <2>1 DEF SyncFine
  <2>4. KeyOfItsRow'
    BY <1>3, <1>4, <2>1 DEF HsmInv, HsmShown, KeyOfItsRow
  <2> QED
    BY <1>3, <1>5, <1>6, <2>2, <2>3, <2>4, RowsEndFine
<1>8. CASE c.ok
  <2>1. c.keys \subseteq made
    BY <1>4, <1>8 DEF AnswerFine
  <2>2. PICK rws : rws = AddedRows(c.keys, kept)
    OBVIOUS
  <2>3. keyRows' = rws
    BY <1>3, <1>8, <2>2
  <2>4. PICK keys : keys = c.keys
    OBVIOUS
  <2>5. /\ \E b \in Nat : DOMAIN rws \subseteq 0 .. b
        /\ \A r \in DOMAIN rws : rws[r] \in [key : made, pub : 0 .. MaxKeys]
        /\ \A r, q \in DOMAIN rws : rws[r].key = rws[q].key => r = q
        /\ {rws[r].key : r \in DOMAIN rws} = keys
        /\ \A r \in DOMAIN rws : (r \in DOMAIN keyRows /\ rws[r] = keyRows[r]) \/ rws[r].pub = 0
    <3>1. keys \subseteq made
      BY <2>1, <2>4
    <3>2. kept = [r \in {r \in DOMAIN keyRows : keyRows[r].key \in keys} |-> keyRows[r]]
      BY <1>2, <2>4
    <3>3. rws = AddedRows(keys, kept)
      BY <2>2, <2>4
    <3>4. RowsAdded(keys, rws)
      BY <3>1, <3>2, <3>3, AddedRowsFine
    <3> QED
      BY <3>4 DEF RowsAdded
  <2>6. KeyRowsFine'
    BY <1>4, <2>3, <2>5 DEF KeyRowsFine
  <2>7. KeyOfItsRow'
    <3>1. type = "pkcs11" => \A r \in DOMAIN rws : rws[r].pub \in {0, rws[r].key.n}
      BY <2>5 DEF HsmInv, HsmShown, KeyOfItsRow
    <3> QED
      BY <1>3, <1>4, <2>3, <3>1 DEF HsmInv, HsmShown, KeyOfItsRow
  <2>8. SyncFine'
    <3>1. CASE synced # "running"
      BY <1>3, <3>1 DEF SyncFine
    <3>2. CASE synced = "running"
      <4>1. PICK u \in HsmWorker :
              /\ call[u].op = "sync" /\ call[u].vault = provider.vault
              /\ \A v \in HsmWorker : Busy(v) => v = u
              /\ call[u].stage = "answered" /\ call[u].ok => call[u].keys = List(provider.vault)
        BY <3>2 DEF HsmInv, SyncFine
      <4>2. u = w
        BY <1>4, <4>1
      <4>3. keys = List(provider.vault)
        BY <1>1, <1>4, <1>8, <2>4, <4>1, <4>2
      <4>4. \A v \in HsmWorker : ~Busy(v)'
        BY <1>4, <4>1, <4>2, NoCallFine DEF Busy
      <4>5. KeysShown' = keys
        BY <2>3, <2>5 DEF KeysShown
      <4>6. List(provider.vault)' = List(provider.vault)
        <5>1. PICK v : v = provider.vault
          OBVIOUS
        <5>2. List(v)' = List(v)
          BY <1>4, ListSame DEF HsmInv
        <5>3. provider'.vault = v
          BY <1>3, <5>1
        <5> QED
          BY <5>1, <5>2, <5>3
      <4>7. synced' = "done"
        BY <1>3, <1>8, <3>2
      <4> QED
        BY <4>3, <4>4, <4>5, <4>6, <4>7 DEF SyncFine
    <3> QED
      BY <3>1, <3>2
  <2> QED
    BY <1>3, <1>5, <1>6, <2>6, <2>7, <2>8, RowsEndFine
<1> QED
  BY <1>7, <1>8

\* Every step of the HSM service keeps the invariant.
LEMMA HsmStepInv ==
  ASSUME HsmInv, [HsmNext]_hsmVars
  PROVE  HsmInv'
<1>1. CASE \E v \in Vaults : create_provider(v) \/ update_provider(v)
  BY <1>1, ProviderStepFine
<1>2. CASE delete_provider
  BY <1>2, HsmAssumption, ProviderStepFine
<1>3. CASE \E v \in Vaults, label \in Labels : Outside(v, label)
  BY <1>3, OutsideFine
<1>4. ASSUME NEW w \in HsmWorker,
             \/ test_provider(w) \/ sync_keys(w)
             \/ \E label \in Labels : generate_key(w, label)
             \/ \E r \in DOMAIN keyRows : delete_key(w, r) \/ get_public_key(w, r) \/ sign(w, r)
      PROVE  HsmInv'
  BY <1>4, CallStepFine
<1>5. ASSUME NEW w \in HsmWorker, Device(w) \/ Unreachable(w) PROVE HsmInv'
  BY <1>5, DeviceStepFine, UnreachableFine
<1>6. ASSUME NEW w \in HsmWorker,
             \/ test_provider_ends(w) \/ generate_key_ends(w) \/ delete_key_ends(w)
             \/ get_public_key_ends(w) \/ sign_ends(w) \/ sync_keys_ends(w)
      PROVE  HsmInv'
  BY <1>6, TestEndsFine, GenerateEndsFine, DeleteEndsFine, PublicEndsFine, SignEndsFine, SyncEndsFine
<1>7. CASE UNCHANGED hsmVars
  <2>1. /\ type' = type /\ provider' = provider /\ keyRows' = keyRows /\ device' = device /\ made' = made
        /\ call' = call /\ tested' = tested /\ signed' = signed /\ synced' = synced
    BY <1>7 DEF hsmVars
  <2>2. DeviceFine' /\ KeyRowsFine'
    BY <2>1 DEF HsmInv, DeviceFine, KeyRowsFine
  <2>3. CallsFine'
    <3>1. call' \in [HsmWorker -> CallOf] /\ \A w \in HsmWorker : AnswerFine(call[w])'
      BY <2>1 DEF HsmInv, CallsFine, AnswerFine
    <3>2. \A w \in HsmWorker : (Busy(w)' <=> Busy(w)) /\ (ReadFine(call[w])' <=> ReadFine(call[w]))
      BY <2>1 DEF Busy, ReadFine
    <3> QED
      BY <2>1, <3>1, <3>2 DEF HsmInv, CallsFine
  <2>4. SyncFine'
    <3>1. PICK v : v = provider.vault
      OBVIOUS
    <3>2. List(v)' = List(v)
      BY <2>1, ListSame DEF HsmInv
    <3>3. List(provider.vault)' = List(provider.vault)
      BY <2>1, <3>1, <3>2
    <3>4. KeysShown' = KeysShown /\ \A w \in HsmWorker : Busy(w)' <=> Busy(w)
      BY <2>1 DEF KeysShown, Busy
    <3> QED
      BY <2>1, <3>3, <3>4 DEF HsmInv, SyncFine
  <2>5. HsmShown'
    BY <2>1 DEF HsmInv, HsmShown, KeyOfItsRow, RowsOwned, StatusTested
  <2> QED
    BY <2>2, <2>3, <2>4, <2>5 DEF HsmInv
<1>8. HsmNext \/ UNCHANGED hsmVars
  OBVIOUS
<1> QED
  BY <1>1, <1>2, <1>3, <1>4, <1>5, <1>6, <1>7, <1>8 DEF HsmNext

\* The rows of keys, the calls under way and the keys of the devices fit
\* together through every interleaving of the operations (HsmService).
THEOREM HsmInvariance == HsmSpec => []HsmInv
<1>1. HsmInit => HsmInv
  BY HsmInitInv
<1>2. HsmInv /\ [HsmNext]_hsmVars => HsmInv'
  BY HsmStepInv
<1> QED
  BY <1>1, <1>2, PTL DEF HsmSpec

\* What is shown of a device is so, for every number of greenlets, vaults and
\* keys: a sync that ran alone leaves no row of a key that the vault does not hold
\* and a row for every curve key of an Azure vault, a token signs with the key of the row, rows have a provider, and a provider shown as
\* connected was reached as it is configured (HsmService.sync_keys,
\* Pkcs11Provider.sign, delete_provider, test_provider).
THEOREM DeviceIsShown == HsmSpec => []DeviceShown
<1>1. HsmInv => DeviceShown
  <2> SUFFICES ASSUME HsmInv, synced = "done"
               PROVE  /\ \A r \in DOMAIN keyRows : keyRows[r].key \in device /\ keyRows[r].key.vault = provider.vault
                      /\ type = "azure-keyvault" =>
                           \A k \in device : k.vault = provider.vault /\ k.label \in EcLabels /\ Latest(k)
                                              => \E r \in DOMAIN keyRows : keyRows[r].key = k
    BY DEF HsmInv, HsmShown, DeviceShown, SyncExact
  <2>1. {keyRows[r].key : r \in DOMAIN keyRows} = List(provider.vault)
    BY DEF HsmInv, SyncFine, KeysShown
  <2>2. List(provider.vault) \subseteq {k \in device : k.vault = provider.vault}
    BY ListHeld DEF HsmInv
  <2>3. type = "azure-keyvault" =>
          List(provider.vault) = {k \in device : k.vault = provider.vault /\ k.label \in EcLabels /\ Latest(k)}
    BY DEF List, AzureList
  <2> QED
    BY <2>1, <2>2, <2>3
<1> QED
  BY <1>1, HsmInvariance, PTL

\* Identifiers of keys stay unique in the rows, and every row names a key that
\* was made (uq_hsm_key_provider_identifier).
THEOREM HsmTyped == HsmSpec => []HsmTypeOK
<1>1. HsmInv => HsmTypeOK
  BY DEF HsmInv, DeviceFine, KeyRowsFine, HsmTypeOK
<1> QED
  BY <1>1, HsmInvariance, PTL

----------------------------------------------------------------------------
(* The links of imported rows.  A table is fine if its rows have their      *)
(* type, its references differ and were given, and its links resolve.       *)

Refs == Nat \cup {Uuid[c] : c \in Certs}
CaRow == [ref : Refs, cert : Certs, ski : {0} \cup Pairs, serial : BOOLEAN, prv : {0} \cup Pairs, caref : Refs]
LeafRow == [cert : Certs, aki : {0} \cup Pairs, serial : BOOLEAN, prv : {0} \cup Pairs, caref : Refs, opn : BOOLEAN]

Bounded(T) == \E b \in Nat : DOMAIN T \subseteq 1 .. b
Known(T) == {0} \cup {T[i].ref : i \in DOMAIN T}

RowsTyped(T) ==
  /\ Bounded(T) /\ T \in [DOMAIN T -> CaRow]
  /\ \A i \in DOMAIN T : Shape[T[i].cert].ca

RefsGiven(T, R) ==
  /\ \A i \in DOMAIN T : T[i].ref # 0 /\ (T[i].ref \in Nat => T[i].ref <= R)
  /\ \A i, h \in DOMAIN T : T[i].ref = T[h].ref => i = h

CarefsKnown(T) == \A i \in DOMAIN T : T[i].caref \in Known(T)

CasFine(T, R) == RowsTyped(T) /\ RefsGiven(T, R) /\ CarefsKnown(T)

(* Without a change of keys, the key and the identifier of a row are those  *)
(* of its certificate.                                                      *)
CaKeysFine(T) == \A i \in DOMAIN T : {T[i].prv, T[i].ski} \subseteq {0, Shape[T[i].cert].pair}
LeafKeysFine(V) == \A i \in DOMAIN V : V[i].prv \in {0, Shape[V[i].cert].pair}

LeavesFine(V) ==
  /\ Bounded(V) /\ V \in [DOMAIN V -> LeafRow]
  /\ \A i \in DOMAIN V : ~Shape[V[i].cert].ca

LeavesLinked(V, T) == \A i \in DOMAIN V : V[i].caref \in Known(T) \/ V[i].opn

LinkInv ==
  /\ refs \in Nat /\ CasFine(cas, refs) /\ LeavesFine(leaves) /\ LeavesLinked(leaves, cas)
  /\ {repaired, rekeyed} \subseteq BOOLEAN
  /\ ~rekeyed => CaKeysFine(cas) /\ LeafKeysFine(leaves)
  /\ \A q \in requests : q.prv \in {0, q.pair}
  /\ RepairComplete

\* The first of some ids is one of them, and no other is smaller.
LEMMA FirstIn ==
  ASSUME NEW ids, ids \subseteq Nat, ids # {}
  PROVE  FirstOf(ids) \in ids /\ \A h \in ids : FirstOf(ids) <= h
<1>1. \E i \in ids : \A h \in ids : i <= h
  BY NatMin
<1> QED
  BY <1>1 DEF FirstOf

\* The only row of its kind is the first one.
LEMMA FirstOnly ==
  ASSUME NEW i \in Nat
  PROVE  FirstOf({i}) = i
BY FirstIn

\* The next row number is above every number in use (SQLite).
LEMMA FreeIdAbove ==
  ASSUME NEW T, Bounded(T)
  PROVE  FreeId(T) \in Nat \ {0} /\ \A i \in DOMAIN T : i \in Nat /\ i < FreeId(T)
<1>1. PICK b \in Nat : DOMAIN T \subseteq 1 .. b
  BY DEF Bounded
<1>2. CASE DOMAIN T = {}
  BY <1>2 DEF FreeId
<1>3. CASE DOMAIN T # {}
  <2>1. \E m \in DOMAIN T : \A h \in DOMAIN T : h <= m
    BY <1>1, <1>3, NatMax
  <2> DEFINE m == CHOOSE m \in DOMAIN T : \A h \in DOMAIN T : h <= m
  <2>2. m \in DOMAIN T /\ \A h \in DOMAIN T : h <= m
    BY <2>1
  <2>3. FreeId(T) = 1 + m
    BY <1>3 DEF FreeId
  <2> HIDE DEF m
  <2> QED
    BY <1>1, <2>2, <2>3
<1> QED
  BY <1>2, <1>3

\* A new row comes after the others and leaves them as they are.
LEMMA InsertedRow ==
  ASSUME NEW T, NEW row, Bounded(T)
  PROVE  /\ Bounded(Inserted(T, row))
         /\ DOMAIN Inserted(T, row) = DOMAIN T \cup {FreeId(T)}
         /\ FreeId(T) \notin DOMAIN T
         /\ Inserted(T, row)[FreeId(T)] = row
         /\ \A i \in DOMAIN T : Inserted(T, row)[i] = T[i]
         /\ \A S : T \in [DOMAIN T -> S] /\ row \in S => Inserted(T, row) \in [DOMAIN Inserted(T, row) -> S]
<1>1. FreeId(T) \in Nat \ {0} /\ \A i \in DOMAIN T : i \in Nat /\ i < FreeId(T)
  BY FreeIdAbove
<1>2. PICK b \in Nat : DOMAIN T \subseteq 1 .. b
  BY DEF Bounded
<1>3. DOMAIN Inserted(T, row) = DOMAIN T \cup {FreeId(T)}
  BY DEF Inserted
<1>4. DOMAIN Inserted(T, row) \subseteq 1 .. (b + FreeId(T))
  BY <1>1, <1>2, <1>3
<1>5. Bounded(Inserted(T, row))
  BY <1>1, <1>4 DEF Bounded
<1>6. FreeId(T) \notin DOMAIN T
  BY <1>1
<1>7. Inserted(T, row)[FreeId(T)] = row /\ \A i \in DOMAIN T : Inserted(T, row)[i] = T[i]
  BY <1>6 DEF Inserted
<1>8. ASSUME NEW S, T \in [DOMAIN T -> S], row \in S
      PROVE  Inserted(T, row) \in [DOMAIN Inserted(T, row) -> S]
  BY <1>8 DEF Inserted
<1> QED
  BY <1>3, <1>5, <1>6, <1>7, <1>8

\* A search in a table ends in one of its references, or in none.
LEMMA RefOfKnown ==
  ASSUME NEW T, Bounded(T), NEW ids \in SUBSET DOMAIN T
  PROVE  /\ RefOf(T, ids) \in Known(T)
         /\ ids # {} => FirstOf(ids) \in ids /\ RefOf(T, ids) = T[FirstOf(ids)].ref
<1>1. ids \subseteq Nat
  BY DEF Bounded
<1> QED
  BY <1>1, FirstIn DEF RefOf, Known

\* The issuer that an import finds is in the table, or is none.
LEMMA IssuerKnown ==
  ASSUME NEW T, Bounded(T), NEW c
  PROVE  Issuer(T, c) \in Known(T)
<1>1. BySki(T, Shape[c].signer) \in SUBSET DOMAIN T /\ BySubject(T, Shape[c].issuer) \in SUBSET DOMAIN T
  BY DEF BySki, BySubject
<1> QED
  BY <1>1, RefOfKnown DEF Issuer

\* References are numbers or come from OPNsense, and 0 is a reference.
LEMMA KnownRefs ==
  ASSUME NEW T, RowsTyped(T)
  PROVE  Known(T) \subseteq Refs
BY DEF Known, RowsTyped, CaRow, Refs

\* A certificate has a pair and a signer, and neither is NULL.
LEMMA PairsOf ==
  ASSUME NEW c \in Certs
  PROVE  /\ Shape[c].pair \in Pairs /\ Shape[c].signer \in Pairs
         /\ Shape[c].pair # 0 /\ Shape[c].signer # 0
         /\ Uuid[c] \in Refs /\ Uuid[c] \notin Nat
BY LinksAssumption DEF Pairs, Refs

\* A new CA with a reference of its own leaves the table fine.
LEMMA InsertedCa ==
  ASSUME NEW T, NEW R \in Nat, CasFine(T, R), NEW R1 \in Nat, R <= R1,
         NEW row \in CaRow, Shape[row.cert].ca, row.caref \in Known(T),
         row.ref # 0, row.ref \in Nat => row.ref <= R1, \A i \in DOMAIN T : T[i].ref # row.ref
  PROVE  /\ CasFine(Inserted(T, row), R1)
         /\ Known(T) \subseteq Known(Inserted(T, row)) /\ row.ref \in Known(Inserted(T, row))
         /\ CaKeysFine(T) /\ {row.prv, row.ski} \subseteq {0, Shape[row.cert].pair} => CaKeysFine(Inserted(T, row))
<1> DEFINE U == Inserted(T, row)
           n == FreeId(T)
<1>1. Bounded(T) /\ T \in [DOMAIN T -> CaRow]
  BY DEF CasFine, RowsTyped
<1>2. /\ Bounded(U) /\ DOMAIN U = DOMAIN T \cup {n} /\ n \notin DOMAIN T
      /\ U[n] = row /\ \A i \in DOMAIN T : U[i] = T[i]
  BY <1>1, InsertedRow
<1>3. U \in [DOMAIN U -> CaRow]
  BY <1>1, InsertedRow
<1> HIDE DEF U, n
<1>4. RowsTyped(U)
  BY <1>2, <1>3 DEF CasFine, RowsTyped
<1>5. Known(T) \subseteq Known(U) /\ row.ref \in Known(U)
  BY <1>2 DEF Known
<1>6. \A i \in DOMAIN T : T[i].ref # 0 /\ (T[i].ref \in Nat => T[i].ref <= R1)
  BY DEF CasFine, RefsGiven
<1>7. RefsGiven(U, R1)
  <2>1. \A i \in DOMAIN U : U[i].ref # 0 /\ (U[i].ref \in Nat => U[i].ref <= R1)
    BY <1>2, <1>6
  <2>2. \A i, h \in DOMAIN U : U[i].ref = U[h].ref => i = h
    BY <1>2 DEF CasFine, RefsGiven
  <2> QED
    BY <2>1, <2>2 DEF RefsGiven
<1>8. CarefsKnown(U)
  BY <1>2, <1>5 DEF CarefsKnown, CasFine
<1>9. CaKeysFine(T) /\ {row.prv, row.ski} \subseteq {0, Shape[row.cert].pair} => CaKeysFine(U)
  BY <1>2 DEF CaKeysFine
<1> QED
  BY <1>4, <1>5, <1>7, <1>8, <1>9 DEF CasFine, U

\* A row that keeps its reference and its link can be replaced.
LEMMA ReplacedCa ==
  ASSUME NEW T, NEW R \in Nat, CasFine(T, R), NEW f \in DOMAIN T, NEW row \in CaRow, Shape[row.cert].ca,
         row.ref = T[f].ref, row.caref = T[f].caref
  PROVE  /\ CasFine([T EXCEPT ![f] = row], R) /\ Known([T EXCEPT ![f] = row]) = Known(T)
         /\ CaKeysFine(T) /\ {row.prv, row.ski} \subseteq {0, Shape[row.cert].pair} => CaKeysFine([T EXCEPT ![f] = row])
<1> DEFINE U == [T EXCEPT ![f] = row]
<1>1. T \in [DOMAIN T -> CaRow]
  BY DEF CasFine, RowsTyped
<1>2. /\ DOMAIN U = DOMAIN T /\ U[f] = row /\ \A i \in DOMAIN T : i # f => U[i] = T[i]
      /\ U \in [DOMAIN U -> CaRow]
  BY <1>1
<1> HIDE DEF U
<1>3. \A i \in DOMAIN T : U[i].ref = T[i].ref /\ U[i].caref = T[i].caref
  BY <1>2
<1>4. Known(U) = Known(T)
  BY <1>2, <1>3 DEF Known
<1>5. RowsTyped(U)
  BY <1>2 DEF CasFine, RowsTyped, Bounded
<1>6. RefsGiven(U, R) /\ CarefsKnown(U)
  BY <1>2, <1>3, <1>4 DEF CasFine, RefsGiven, CarefsKnown
<1>7. CaKeysFine(T) /\ {row.prv, row.ski} \subseteq {0, Shape[row.cert].pair} => CaKeysFine(U)
  BY <1>2 DEF CaKeysFine
<1> QED
  BY <1>4, <1>5, <1>6, <1>7 DEF CasFine, U

\* Importing the file of a CA keeps the tables sound (import_ca).
LEMMA ImportCaInv ==
  ASSUME LinkInv, NEW c \in Certs, NEW keyed \in BOOLEAN, NEW asCa \in BOOLEAN, import_ca_file(c, keyed, asCa)
  PROVE  LinkInv'
<1> DEFINE old == BySubject(cas, Shape[c].subject)
           f == FirstOf(old)
<1>1. /\ refs \in Nat /\ CasFine(cas, refs) /\ Shape[c].ca /\ Bounded(cas) /\ cas \in [DOMAIN cas -> CaRow]
      /\ repaired' = FALSE /\ leaves' = leaves /\ requests' = requests
  BY DEF LinkInv, CasFine, RowsTyped, import_ca_file
<1>2. /\ Shape[c].pair \in Pairs
  BY PairsOf
<1>3. /\ refs' \in Nat /\ CasFine(cas, refs)' /\ Known(cas) \subseteq Known(cas')
      /\ rekeyed' \in BOOLEAN
      /\ ~rekeyed' => ~rekeyed /\ (CaKeysFine(cas) => CaKeysFine(cas'))
  <2>1. CASE old = {}
    <3> DEFINE row == [ref |-> refs + 1, cert |-> c, ski |-> Shape[c].pair, serial |-> FALSE,
                       prv |-> IF keyed THEN Shape[c].pair ELSE 0, caref |-> 0]
    <3>1. cas' = Inserted(cas, row) /\ refs' = refs + 1 /\ rekeyed' = rekeyed
      BY <2>1, <1>1 DEF import_ca_file, LinkInv
    <3>2. /\ row \in CaRow /\ Shape[row.cert].ca /\ row.caref \in Known(cas) /\ row.ref # 0
          /\ row.ref \in Nat /\ row.ref = refs + 1 /\ row.ref <= refs + 1
          /\ {row.prv, row.ski} \subseteq {0, Shape[row.cert].pair}
      BY <1>1, <1>2 DEF CaRow, Refs, Known
    <3>3. \A i \in DOMAIN cas : cas[i].ref # row.ref
      BY <1>1, <3>2 DEF CasFine, RefsGiven
    <3> HIDE DEF row
    <3>4. /\ CasFine(cas', refs + 1) /\ Known(cas) \subseteq Known(cas')
          /\ CaKeysFine(cas) => CaKeysFine(cas')
      BY <1>1, <3>1, <3>2, <3>3, InsertedCa
    <3> QED
      BY <1>1, <3>1, <3>4 DEF LinkInv
  <2>2. CASE old # {}
    <3>1. f \in DOMAIN cas
      <4>1. old \in SUBSET DOMAIN cas
        BY DEF BySubject
      <4> QED
        BY <1>1, <2>2, <4>1, RefOfKnown
    <3> DEFINE row == [cas[f] EXCEPT !.cert = c, !.prv = IF keyed THEN Shape[c].pair ELSE @,
                                     !.ski = IF asCa THEN @ ELSE Shape[c].pair]
    <3>2. cas' = [cas EXCEPT ![f] = row] /\ refs' = refs
      BY <2>2, <3>1 DEF import_ca_file
    <3>3. /\ rekeyed' \in BOOLEAN
          /\ ~rekeyed' => ~rekeyed /\ Shape[cas[f].cert].pair = Shape[c].pair
      BY <2>2 DEF import_ca_file, LinkInv
    <3>4. cas[f] \in CaRow
      BY <1>1, <3>1
    <3>5. /\ row \in CaRow /\ row.cert = c /\ row.ref = cas[f].ref /\ row.caref = cas[f].caref
          /\ row.prv \in {cas[f].prv, Shape[c].pair} /\ row.ski \in {cas[f].ski, Shape[c].pair}
      BY <1>2, <3>4 DEF CaRow
    <3> HIDE DEF row, f
    <3>6. /\ CasFine(cas', refs) /\ Known(cas') = Known(cas)
          /\ CaKeysFine(cas) /\ {row.prv, row.ski} \subseteq {0, Shape[row.cert].pair} => CaKeysFine(cas')
      BY <1>1, <3>1, <3>2, <3>5, ReplacedCa
    <3>7. CaKeysFine(cas) /\ ~rekeyed' => {row.prv, row.ski} \subseteq {0, Shape[row.cert].pair}
      BY <3>1, <3>3, <3>5 DEF CaKeysFine
    <3> QED
      BY <1>1, <3>2, <3>3, <3>6, <3>7
  <2> QED
    BY <2>1, <2>2
<1>4. LeavesLinked(leaves, cas)'
  BY <1>1, <1>3 DEF LinkInv, LeavesLinked
<1>5. RepairComplete'
  BY <1>1 DEF RepairComplete
<1> QED
  BY <1>1, <1>3, <1>4, <1>5 DEF LinkInv

\* A new certificate with a link that resolves leaves the table fine.
LEMMA InsertedLeaf ==
  ASSUME NEW V, LeavesFine(V), NEW T, LeavesLinked(V, T), NEW row \in LeafRow, ~Shape[row.cert].ca,
         row.caref \in Known(T) \/ row.opn
  PROVE  /\ LeavesFine(Inserted(V, row)) /\ LeavesLinked(Inserted(V, row), T)
         /\ LeafKeysFine(V) /\ row.prv \in {0, Shape[row.cert].pair} => LeafKeysFine(Inserted(V, row))
<1> DEFINE U == Inserted(V, row)
           n == FreeId(V)
<1>1. Bounded(V) /\ V \in [DOMAIN V -> LeafRow]
  BY DEF LeavesFine
<1>2. /\ Bounded(U) /\ DOMAIN U = DOMAIN V \cup {n} /\ n \notin DOMAIN V
      /\ U[n] = row /\ \A i \in DOMAIN V : U[i] = V[i]
  BY <1>1, InsertedRow
<1>3. U \in [DOMAIN U -> LeafRow]
  BY <1>1, InsertedRow
<1> HIDE DEF U, n
<1> QED
  BY <1>2, <1>3 DEF LeavesFine, LeavesLinked, LeafKeysFine, U

\* Importing the file of a certificate keeps the tables sound
\* (import_certificate).
LEMMA ImportCertificateInv ==
  ASSUME LinkInv, NEW c \in Certs, NEW keyed \in BOOLEAN, import_certificate_file(c, keyed)
  PROVE  LinkInv'
<1> DEFINE old == {i \in BySubject(leaves, Shape[c].subject) : Shape[leaves[i].cert].issuer = Shape[c].issuer}
           f == FirstOf(old)
<1>1. /\ LeavesFine(leaves) /\ Bounded(leaves) /\ leaves \in [DOMAIN leaves -> LeafRow] /\ ~Shape[c].ca
      /\ LeavesLinked(leaves, cas) /\ RowsTyped(cas) /\ Bounded(cas)
      /\ repaired' = FALSE /\ cas' = cas /\ requests' = requests /\ refs' = refs
  BY DEF LinkInv, LeavesFine, CasFine, RowsTyped, import_certificate_file
<1>2. /\ Shape[c].pair \in Pairs /\ Shape[c].signer \in Pairs
  BY PairsOf
<1>3. /\ LeavesFine(leaves') /\ LeavesLinked(leaves', cas) /\ rekeyed' \in BOOLEAN
      /\ ~rekeyed' => ~rekeyed /\ (LeafKeysFine(leaves) => LeafKeysFine(leaves'))
  <2>1. CASE old = {}
    <3> DEFINE row == [cert |-> c, aki |-> Shape[c].signer, serial |-> FALSE,
                       prv |-> IF keyed THEN Shape[c].pair ELSE 0, caref |-> Issuer(cas, c), opn |-> FALSE]
    <3>1. leaves' = Inserted(leaves, row) /\ rekeyed' = rekeyed
      BY <2>1 DEF import_certificate_file, LinkInv
    <3>2. Issuer(cas, c) \in Known(cas) /\ Issuer(cas, c) \in Refs
      BY <1>1, IssuerKnown, KnownRefs
    <3>3. /\ row \in LeafRow /\ ~Shape[row.cert].ca /\ row.caref \in Known(cas)
          /\ row.prv \in {0, Shape[row.cert].pair}
      BY <1>1, <1>2, <3>2 DEF LeafRow
    <3> HIDE DEF row
    <3> QED
      BY <1>1, <3>1, <3>3, InsertedLeaf DEF LinkInv
  <2>2. CASE old # {}
    <3>1. f \in DOMAIN leaves
      <4>1. old \in SUBSET DOMAIN leaves
        BY DEF BySubject
      <4> QED
        BY <1>1, <2>2, <4>1, RefOfKnown
    <3> DEFINE row == [leaves[f] EXCEPT !.cert = c, !.aki = Shape[c].signer, !.prv = IF keyed THEN Shape[c].pair ELSE @]
    <3>2. leaves' = [leaves EXCEPT ![f] = row]
      BY <2>2, <3>1 DEF import_certificate_file
    <3>3. /\ rekeyed' \in BOOLEAN
          /\ ~rekeyed' => ~rekeyed /\ Shape[leaves[f].cert].pair = Shape[c].pair
      BY <2>2 DEF import_certificate_file, LinkInv
    <3>4. leaves[f] \in LeafRow
      BY <1>1, <3>1
    <3>5. /\ row \in LeafRow /\ row.cert = c /\ row.caref = leaves[f].caref /\ row.opn = leaves[f].opn
          /\ row.prv \in {leaves[f].prv, Shape[c].pair}
      BY <1>2, <3>4 DEF LeafRow
    <3> HIDE DEF row, f
    <3>6. /\ DOMAIN leaves' = DOMAIN leaves /\ leaves'[f] = row /\ \A i \in DOMAIN leaves : i # f => leaves'[i] = leaves[i]
          /\ leaves' \in [DOMAIN leaves' -> LeafRow]
      BY <1>1, <3>1, <3>2, <3>5
    <3>7. LeavesFine(leaves') /\ LeavesLinked(leaves', cas)
      BY <1>1, <3>1, <3>5, <3>6 DEF LeavesFine, LeavesLinked, Bounded
    <3>8. ~rekeyed' /\ LeafKeysFine(leaves) => LeafKeysFine(leaves')
      BY <3>1, <3>3, <3>5, <3>6 DEF LeafKeysFine
    <3> QED
      BY <3>3, <3>7, <3>8
  <2> QED
    BY <2>1, <2>2
<1>4. RepairComplete'
  BY <1>1 DEF RepairComplete
<1> QED
  BY <1>1, <1>3, <1>4 DEF LinkInv

\* Rows from OPNsense bring references of their own (import_items).
LEMMA OpnsenseInv ==
  ASSUME LinkInv, NEW c \in Certs,
         import_opnsense_ca(c) \/ \E issuer \in Certs : import_opnsense_cert(c, issuer)
  PROVE  LinkInv'
<1>1. /\ Shape[c].pair \in Pairs /\ \A i \in Certs : Uuid[i] \in Refs /\ Uuid[i] \notin Nat
  BY PairsOf
<1>2. CASE import_opnsense_ca(c)
  <2> DEFINE row == [ref |-> Uuid[c], cert |-> c, ski |-> 0, serial |-> FALSE, prv |-> Shape[c].pair, caref |-> 0]
  <2>1. /\ cas' = Inserted(cas, row) /\ repaired' = FALSE /\ Shape[c].ca /\ \A i \in DOMAIN cas : cas[i].ref # row.ref
        /\ UNCHANGED <<leaves, requests, refs, rekeyed>>
    BY <1>2 DEF import_opnsense_ca
  <2>2. /\ row \in CaRow /\ row.cert = c /\ row.caref \in Known(cas) /\ row.ref # 0 /\ row.ref \notin Nat
        /\ {row.prv, row.ski} \subseteq {0, Shape[row.cert].pair}
    BY <1>1 DEF CaRow, Refs, Known
  <2> HIDE DEF row
  <2>3. refs \in Nat /\ CasFine(cas, refs)
    BY DEF LinkInv
  <2>4. CasFine(cas', refs) /\ Known(cas) \subseteq Known(cas') /\ (CaKeysFine(cas) => CaKeysFine(cas'))
    BY <2>1, <2>2, <2>3, InsertedCa
  <2>5. LeavesLinked(leaves, cas') /\ RepairComplete'
    BY <2>1, <2>4 DEF LinkInv, LeavesLinked, RepairComplete
  <2> QED
    BY <2>1, <2>4, <2>5 DEF LinkInv
<1>3. CASE \E issuer \in Certs : import_opnsense_cert(c, issuer)
  <2>1. PICK issuer \in Certs : import_opnsense_cert(c, issuer)
    BY <1>3
  <2> DEFINE row == [cert |-> c, aki |-> 0, serial |-> TRUE, prv |-> Shape[c].pair, caref |-> Uuid[issuer], opn |-> TRUE]
  <2>2. leaves' = Inserted(leaves, row) /\ repaired' = FALSE /\ ~Shape[c].ca /\ UNCHANGED <<cas, requests, refs, rekeyed>>
    BY <2>1 DEF import_opnsense_cert
  <2>3. row \in LeafRow /\ row.cert = c /\ row.opn /\ row.prv \in {0, Shape[row.cert].pair}
    BY <1>1 DEF LeafRow
  <2> HIDE DEF row
  <2>4. /\ LeavesFine(leaves') /\ LeavesLinked(leaves', cas) /\ (LeafKeysFine(leaves) => LeafKeysFine(leaves'))
    BY <2>2, <2>3, InsertedLeaf DEF LinkInv
  <2>5. RepairComplete'
    BY <2>2 DEF RepairComplete
  <2> QED
    BY <2>2, <2>4, <2>5 DEF LinkInv
<1> QED
  BY <1>2, <1>3

\* A CA is deleted only if no row names it (delete_ca).
LEMMA DeleteCaInv ==
  ASSUME LinkInv, NEW f \in DOMAIN cas, delete_linked_ca(f)
  PROVE  LinkInv'
<1>1. /\ cas' = [h \in DOMAIN cas \ {f} |-> cas[h]] /\ repaired' = FALSE /\ UNCHANGED <<leaves, requests, refs, rekeyed>>
      /\ \A h \in DOMAIN cas : cas[h].caref # cas[f].ref
      /\ \A h \in DOMAIN leaves : leaves[h].caref # cas[f].ref
  BY DEF delete_linked_ca
<1>2. DOMAIN cas' = DOMAIN cas \ {f} /\ \A i \in DOMAIN cas' : cas'[i] = cas[i]
  BY <1>1
<1>3. RowsTyped(cas) /\ RefsGiven(cas, refs) /\ CarefsKnown(cas)
  BY DEF LinkInv, CasFine
<1>4. RowsTyped(cas')
  <2>1. cas' \in [DOMAIN cas' -> CaRow]
    BY <1>1, <1>3 DEF RowsTyped
  <2> QED
    BY <1>2, <1>3, <2>1 DEF RowsTyped, Bounded
<1>5. RefsGiven(cas', refs)
  BY <1>2, <1>3 DEF RefsGiven
<1>6. \A r \in Known(cas) : r # cas[f].ref => r \in Known(cas')
  BY <1>2 DEF Known
<1>7. CarefsKnown(cas') /\ LeavesLinked(leaves, cas')
  BY <1>1, <1>2, <1>3, <1>6 DEF CarefsKnown, LeavesLinked, LinkInv
<1>8. CaKeysFine(cas) => CaKeysFine(cas')
  BY <1>2 DEF CaKeysFine
<1>9. RepairComplete'
  BY <1>1 DEF RepairComplete
<1> QED
  BY <1>1, <1>4, <1>5, <1>7, <1>8, <1>9 DEF LinkInv, CasFine

\* An object of a file that is a certificate is one of the certificates, and
\* the key that is matched with it is its own (KeyMatcher.match_all).
LEMMA ObjectOf ==
  ASSUME NEW objs \in Files
  PROVE  /\ Len(objs) \in Nat /\ DOMAIN objs = 1 .. Len(objs)
         /\ \A j \in DOMAIN objs : objs[j].type = "cert" =>
              objs[j].cert \in Certs /\ match_all(objs, j) \in {0, Shape[objs[j].cert].pair}
         /\ \A j \in DOMAIN objs : objs[j].type = "csr" => match_all(objs, j) \in {0, objs[j].pair}
<1>1. objs \in Seq(Object)
  BY LinksAssumption
<1>2. Len(objs) \in Nat /\ DOMAIN objs = 1 .. Len(objs) /\ \A j \in DOMAIN objs : objs[j] \in Object
  BY <1>1
<1>3. \A j \in DOMAIN objs : match_all(objs, j) \in {0, PairOf(objs[j])}
  BY DEF match_all
<1>4. \A j \in DOMAIN objs : objs[j].type = "cert" => objs[j].cert \in Certs
  BY <1>2 DEF Object
<1> QED
  BY <1>2, <1>3, <1>4 DEF PairOf

(* What an import of CAs has done so far. *)
AccFine(acc) ==
  /\ DOMAIN acc = {"cas", "refs", "maps"} /\ acc.refs \in Nat /\ CasFine(acc.cas, acc.refs)
  /\ Known(cas) \subseteq Known(acc.cas) /\ (CaKeysFine(cas) => CaKeysFine(acc.cas))
  /\ \A k \in Pairs : acc.maps.ski[k] \in Known(acc.cas)
  /\ \A n \in Subjects : acc.maps.subject[n] \in Known(acc.cas)

\* What an import remembers are references of the table.
LEMMA RememberedKnown ==
  ASSUME NEW acc, AccFine(acc), NEW U, Known(acc.cas) \subseteq Known(U), NEW c, NEW r \in Known(U), NEW k
  PROVE  /\ \A p \in Pairs : Remembered(acc.maps, c, r, k).ski[p] \in Known(U)
         /\ \A n \in Subjects : Remembered(acc.maps, c, r, k).subject[n] \in Known(U)
BY DEF AccFine, Remembered

\* The parent that an import gives to a CA is in the table, or is none.
LEMMA ParentKnown ==
  ASSUME NEW acc, AccFine(acc), NEW c \in Certs
  PROVE  ParentOf(acc, c) \in Known(acc.cas)
<1>1. Bounded(acc.cas)
  BY DEF AccFine, CasFine, RowsTyped
<1>2. BySki(acc.cas, Shape[c].signer) \in SUBSET DOMAIN acc.cas /\ BySubject(acc.cas, Shape[c].issuer) \in SUBSET DOMAIN acc.cas
  BY DEF BySki, BySubject
<1>3. /\ RefOf(acc.cas, BySki(acc.cas, Shape[c].signer)) \in Known(acc.cas)
      /\ RefOf(acc.cas, BySubject(acc.cas, Shape[c].issuer)) \in Known(acc.cas)
  BY <1>1, <1>2, RefOfKnown
<1>4. Shape[c].signer \in Pairs /\ Shape[c].issuer \in Subjects /\ 0 \in Known(acc.cas)
  BY DEF Pairs, Subjects, Known
<1>5. acc.maps.ski[Shape[c].signer] \in Known(acc.cas) /\ acc.maps.subject[Shape[c].issuer] \in Known(acc.cas)
  BY <1>4 DEF AccFine
<1> QED
  BY <1>3, <1>4, <1>5 DEF ParentOf

\* One CA of a bundle is added, or found in the table (_import_cas).
LEMMA ImportOneFine ==
  ASSUME NEW objs \in Files, NEW skip, NEW acc, AccFine(acc),
         NEW j \in DOMAIN objs, objs[j].type = "cert", Shape[objs[j].cert].ca
  PROVE  AccFine(_import_ca(objs, skip, acc, j))
<1> DEFINE c == objs[j].cert
           old == IF skip THEN Duplicate(acc.cas, c) ELSE {}
           row == [ref |-> acc.refs + 1, cert |-> c, ski |-> Shape[c].pair, serial |-> TRUE,
                   prv |-> match_all(objs, j), caref |-> ParentOf(acc, c)]
<1>1. /\ c \in Certs /\ match_all(objs, j) \in {0, Shape[c].pair} /\ Shape[c].ca
  BY ObjectOf
<1>2. Shape[c].pair \in Pairs /\ ParentOf(acc, c) \in Known(acc.cas)
  BY <1>1, PairsOf, ParentKnown
<1>3. /\ acc.refs \in Nat /\ CasFine(acc.cas, acc.refs) /\ Bounded(acc.cas) /\ RowsTyped(acc.cas)
  BY DEF AccFine, CasFine, RowsTyped
<1>4. CASE old = {}
  <2> DEFINE U == Inserted(acc.cas, row)
             new == [cas |-> U, refs |-> acc.refs + 1, maps |-> Remembered(acc.maps, c, acc.refs + 1, Shape[c].pair)]
  <2>1. _import_ca(objs, skip, acc, j) = new
    BY <1>4 DEF _import_ca
  <2>2. ParentOf(acc, c) \in Refs
    BY <1>2, <1>3, KnownRefs
  <2>3. /\ row \in CaRow /\ row.cert = c /\ row.caref \in Known(acc.cas) /\ row.ref = acc.refs + 1
        /\ {row.prv, row.ski} \subseteq {0, Shape[row.cert].pair}
    BY <1>1, <1>2, <1>3, <2>2 DEF CaRow, Refs
  <2>4. \A i \in DOMAIN acc.cas : acc.cas[i].ref # row.ref
    BY <1>3, <2>3 DEF CasFine, RefsGiven
  <2> HIDE DEF row
  <2>5. /\ acc.refs + 1 \in Nat /\ acc.refs <= acc.refs + 1 /\ row.ref # 0 /\ row.ref <= acc.refs + 1
    BY <1>3, <2>3
  <2>6. /\ CasFine(U, acc.refs + 1) /\ Known(acc.cas) \subseteq Known(U) /\ row.ref \in Known(U)
        /\ CaKeysFine(acc.cas) => CaKeysFine(U)
    BY <1>1, <1>3, <2>3, <2>4, <2>5, InsertedCa
  <2> HIDE DEF U
  <2>7. /\ \A p \in Pairs : new.maps.ski[p] \in Known(U)
        /\ \A n \in Subjects : new.maps.subject[n] \in Known(U)
    <3>1. acc.refs + 1 \in Known(U) /\ Known(acc.cas) \subseteq Known(U)
      BY <2>3, <2>6
    <3>2. /\ \A p \in Pairs : Remembered(acc.maps, c, acc.refs + 1, Shape[c].pair).ski[p] \in Known(U)
          /\ \A n \in Subjects : Remembered(acc.maps, c, acc.refs + 1, Shape[c].pair).subject[n] \in Known(U)
      BY <3>1, RememberedKnown
    <3> QED
      BY <3>2
  <2>8. DOMAIN new = {"cas", "refs", "maps"} /\ new.cas = U /\ new.refs = acc.refs + 1
    OBVIOUS
  <2> HIDE DEF new
  <2>9. AccFine(new)
    BY <2>5, <2>6, <2>7, <2>8 DEF AccFine
  <2> QED
    BY <2>1, <2>9
<1>5. CASE old # {}
  <2> DEFINE kept == acc.cas[FirstOf(old)]
             new == [acc EXCEPT !.maps = Remembered(@, c, kept.ref, kept.ski)]
  <2>1. _import_ca(objs, skip, acc, j) = new
    BY <1>5 DEF _import_ca
  <2>2. old \in SUBSET DOMAIN acc.cas
    BY DEF Duplicate, BySki
  <2>3. kept.ref \in Known(acc.cas)
    BY <1>3, <1>5, <2>2, RefOfKnown DEF Known
  <2>4. DOMAIN new = {"cas", "refs", "maps"} /\ new.cas = acc.cas /\ new.refs = acc.refs
        /\ new.maps = Remembered(acc.maps, c, kept.ref, kept.ski)
    BY DEF AccFine
  <2> HIDE DEF new, kept
  <2>5. /\ \A p \in Pairs : new.maps.ski[p] \in Known(acc.cas)
        /\ \A n \in Subjects : new.maps.subject[n] \in Known(acc.cas)
    <3>1. Known(acc.cas) \subseteq Known(acc.cas)
      OBVIOUS
    <3>2. /\ \A p \in Pairs : Remembered(acc.maps, c, kept.ref, kept.ski).ski[p] \in Known(acc.cas)
          /\ \A n \in Subjects : Remembered(acc.maps, c, kept.ref, kept.ski).subject[n] \in Known(acc.cas)
      BY <2>3, <3>1, RememberedKnown
    <3> QED
      BY <2>4, <3>2
  <2>6. AccFine(new)
    BY <2>4, <2>5 DEF AccFine
  <2> QED
    BY <2>1, <2>6
<1> QED
  BY <1>4, <1>5

CasStart == [cas |-> cas, refs |-> refs, maps |-> NoMaps]
CasStep(objs, skip, acc, n) ==
  IF NthCa(objs, n) = {} THEN acc ELSE _import_ca(objs, skip, acc, CHOOSE j \in NthCa(objs, n) : TRUE)
CasWalk(objs, skip, g, k) == g = [n \in 0 .. k |-> IF n = 0 THEN CasStart ELSE CasStep(objs, skip, g[n - 1], n)]

\* A walk over the CAs of a file goes on by one more.
LEMMA CasWalkOn ==
  ASSUME NEW objs, NEW skip, NEW k \in Nat, k # 0, NEW g, CasWalk(objs, skip, g, k - 1)
  PROVE  \E h : CasWalk(objs, skip, h, k)
<1> DEFINE h == [n \in 0 .. k |-> IF n = k THEN CasStep(objs, skip, g[k - 1], k) ELSE g[n]]
           w == [n \in 0 .. k |-> IF n = 0 THEN CasStart ELSE CasStep(objs, skip, h[n - 1], n)]
<1>1. \A n \in 0 .. (k - 1) : g[n] = IF n = 0 THEN CasStart ELSE CasStep(objs, skip, g[n - 1], n)
  BY DEF CasWalk
<1>2. \A n \in 0 .. k : n # k => n \in 0 .. (k - 1) /\ h[n] = g[n]
  OBVIOUS
<1>3. \A n \in 0 .. k : n # 0 => n - 1 \in 0 .. k /\ n - 1 # k
  OBVIOUS
<1>4. \A n \in 0 .. k : n # 0 => h[n - 1] = g[n - 1]
  <2> HIDE DEF h
  <2> QED
    BY <1>2, <1>3
<1>5. \A n \in 0 .. k : h[n] = w[n]
  <2> SUFFICES ASSUME NEW n \in 0 .. k PROVE h[n] = w[n]
    OBVIOUS
  <2>1. w[n] = IF n = 0 THEN CasStart ELSE CasStep(objs, skip, h[n - 1], n)
    BY DEF w
  <2>2. CASE n = k
    <3>1. h[n] = CasStep(objs, skip, g[k - 1], k)
      BY <2>2
    <3> QED
      BY <1>4, <2>1, <2>2, <3>1
  <2>3. CASE n # k
    BY <1>1, <1>2, <1>4, <2>1, <2>3
  <2> QED
    BY <2>2, <2>3
<1>6. h = w
  BY <1>5
<1> QED
  BY <1>6 DEF CasWalk

\* The walk over the CAs of a file exists, whatever the file.
LEMMA CasWalkThere ==
  ASSUME NEW objs, NEW skip, NEW k \in Nat
  PROVE  \E g : CasWalk(objs, skip, g, k)
<1> DEFINE S == {n \in Nat : ~ \E g : CasWalk(objs, skip, g, n)}
<1>1. ASSUME S # {} PROVE FALSE
  <2>1. PICK n \in S : \A m \in S : n <= m
    BY <1>1, NatMin
  <2>2. CASE n = 0
    <3> DEFINE g == [m \in 0 .. 0 |-> CasStart]
    <3>1. g = [m \in 0 .. 0 |-> IF m = 0 THEN CasStart ELSE CasStep(objs, skip, g[m - 1], m)]
      OBVIOUS
    <3>2. CasWalk(objs, skip, g, 0)
      BY <3>1 DEF CasWalk
    <3> QED
      BY <2>1, <2>2, <3>2
  <2>3. CASE n # 0
    <3>1. n - 1 \in Nat /\ n - 1 \notin S
      BY <2>1, <2>3
    <3>2. PICK g : CasWalk(objs, skip, g, n - 1)
      BY <3>1
    <3> QED
      BY <2>1, <2>3, <3>2, CasWalkOn
  <2> QED
    BY <2>2, <2>3
<1> QED
  BY <1>1

\* The import of the CAs goes through the file one CA at a time.
LEMMA ImportCasWalks ==
  ASSUME NEW objs \in Files, NEW skip
  PROVE  CasWalk(objs, skip, _import_cas(objs, skip), Len(objs))
<1>1. Len(objs) \in Nat
  BY ObjectOf
<1>2. \E g : CasWalk(objs, skip, g, Len(objs))
  BY <1>1, CasWalkThere
<1>3. _import_cas(objs, skip) = CHOOSE g : CasWalk(objs, skip, g, Len(objs))
  BY DEF _import_cas, CasWalk, CasStart, CasStep
<1> QED
  BY <1>2, <1>3

\* After any number of CAs, what the import has done is fine.
LEMMA ImportCasFine ==
  ASSUME LinkInv, NEW objs \in Files, NEW skip
  PROVE  AccFine(_import_cas(objs, skip)[Len(objs)])
<1> DEFINE A == _import_cas(objs, skip)
           S == {n \in Nat : n <= Len(objs) /\ ~AccFine(A[n])}
<1>1. Len(objs) \in Nat
  BY ObjectOf
<1>2. \A n \in 0 .. Len(objs) : A[n] = IF n = 0 THEN CasStart ELSE CasStep(objs, skip, A[n - 1], n)
  BY ImportCasWalks DEF CasWalk
<1> HIDE DEF A
<1>3. AccFine(CasStart)
  BY DEF LinkInv, AccFine, CasStart, NoMaps, Known
<1>4. ASSUME NEW acc, AccFine(acc), NEW n PROVE AccFine(CasStep(objs, skip, acc, n))
  <2>1. CASE NthCa(objs, n) = {}
    BY <1>4, <2>1 DEF CasStep
  <2>2. CASE NthCa(objs, n) # {}
    <3> DEFINE j == CHOOSE j \in NthCa(objs, n) : TRUE
    <3>1. j \in NthCa(objs, n)
      BY <2>2
    <3> HIDE DEF j
    <3>2. j \in DOMAIN objs /\ objs[j].type = "cert" /\ Shape[objs[j].cert].ca
      BY <3>1 DEF NthCa, Indices
    <3>3. AccFine(_import_ca(objs, skip, acc, j))
      BY <1>4, <3>2, ImportOneFine
    <3> QED
      BY <2>2, <3>3 DEF CasStep, j
  <2> QED
    BY <2>1, <2>2
<1>5. ASSUME S # {} PROVE FALSE
  <2>1. PICK n \in S : \A m \in S : n <= m
    BY <1>5, NatMin
  <2>2. CASE n = 0
    BY <1>1, <1>2, <1>3, <2>1, <2>2
  <2>3. CASE n # 0
    <3>1. n - 1 \in Nat /\ n - 1 \notin S /\ n - 1 <= Len(objs) /\ n \in 0 .. Len(objs)
      BY <1>1, <2>1, <2>3
    <3>2. AccFine(A[n - 1])
      BY <3>1
    <3>3. AccFine(A[n])
      BY <1>2, <1>4, <2>3, <3>1, <3>2
    <3> QED
      BY <2>1, <3>3
  <2> QED
    BY <2>2, <2>3
<1> QED
  BY <1>1, <1>5 DEF A

LeafDue(objs, skip, rws, j) ==
  /\ objs[j].type = "cert" /\ ~Shape[objs[j].cert].ca
  /\ ~(skip /\ \E i \in DOMAIN rws : rws[i].serial /\ rws[i].cert = objs[j].cert)
LeafNew(objs, T, j) ==
  [cert |-> objs[j].cert, aki |-> Shape[objs[j].cert].signer, serial |-> TRUE,
   prv |-> match_all(objs, j), caref |-> Issuer(T, objs[j].cert), opn |-> FALSE]
LeafAdded(objs, skip, T, rws, j) == IF LeafDue(objs, skip, rws, j) THEN Inserted(rws, LeafNew(objs, T, j)) ELSE rws
LeafWalk(objs, skip, T, g, k) ==
  g = [n \in 0 .. k |-> IF n = 0 THEN leaves ELSE LeafAdded(objs, skip, T, g[n - 1], n)]

\* A walk over the certificates of a file goes on by one more.
LEMMA LeafWalkOn ==
  ASSUME NEW objs, NEW skip, NEW T, NEW k \in Nat, k # 0, NEW g, LeafWalk(objs, skip, T, g, k - 1)
  PROVE  \E h : LeafWalk(objs, skip, T, h, k)
<1> DEFINE h == [n \in 0 .. k |-> IF n = k THEN LeafAdded(objs, skip, T, g[k - 1], k) ELSE g[n]]
           w == [n \in 0 .. k |-> IF n = 0 THEN leaves ELSE LeafAdded(objs, skip, T, h[n - 1], n)]
<1>1. \A n \in 0 .. (k - 1) : g[n] = IF n = 0 THEN leaves ELSE LeafAdded(objs, skip, T, g[n - 1], n)
  BY DEF LeafWalk
<1>2. \A n \in 0 .. k : n # k => n \in 0 .. (k - 1) /\ h[n] = g[n]
  OBVIOUS
<1>3. \A n \in 0 .. k : n # 0 => n - 1 \in 0 .. k /\ n - 1 # k
  OBVIOUS
<1>4. \A n \in 0 .. k : n # 0 => h[n - 1] = g[n - 1]
  <2> HIDE DEF h
  <2> QED
    BY <1>2, <1>3
<1>5. \A n \in 0 .. k : h[n] = w[n]
  <2> SUFFICES ASSUME NEW n \in 0 .. k PROVE h[n] = w[n]
    OBVIOUS
  <2>1. w[n] = IF n = 0 THEN leaves ELSE LeafAdded(objs, skip, T, h[n - 1], n)
    BY DEF w
  <2>2. CASE n = k
    <3>1. h[n] = LeafAdded(objs, skip, T, g[k - 1], k)
      BY <2>2
    <3> QED
      BY <1>4, <2>1, <2>2, <3>1
  <2>3. CASE n # k
    BY <1>1, <1>2, <1>4, <2>1, <2>3
  <2> QED
    BY <2>2, <2>3
<1>6. h = w
  BY <1>5
<1> QED
  BY <1>6 DEF LeafWalk

\* The walk over the certificates of a file exists, whatever the file.
LEMMA LeafWalkThere ==
  ASSUME NEW objs, NEW skip, NEW T, NEW k \in Nat
  PROVE  \E g : LeafWalk(objs, skip, T, g, k)
<1> DEFINE S == {n \in Nat : ~ \E g : LeafWalk(objs, skip, T, g, n)}
<1>1. ASSUME S # {} PROVE FALSE
  <2>1. PICK n \in S : \A m \in S : n <= m
    BY <1>1, NatMin
  <2>2. CASE n = 0
    <3> DEFINE g == [m \in 0 .. 0 |-> leaves]
    <3>1. g = [m \in 0 .. 0 |-> IF m = 0 THEN leaves ELSE LeafAdded(objs, skip, T, g[m - 1], m)]
      OBVIOUS
    <3>2. LeafWalk(objs, skip, T, g, 0)
      BY <3>1 DEF LeafWalk
    <3> QED
      BY <2>1, <2>2, <3>2
  <2>3. CASE n # 0
    <3>1. n - 1 \in Nat /\ n - 1 \notin S
      BY <2>1, <2>3
    <3>2. PICK g : LeafWalk(objs, skip, T, g, n - 1)
      BY <3>1
    <3> QED
      BY <2>1, <2>3, <3>2, LeafWalkOn
  <2> QED
    BY <2>2, <2>3
<1> QED
  BY <1>1

\* The import of the certificates goes through the file one object at a time.
LEMMA ImportLeavesWalks ==
  ASSUME NEW objs \in Files, NEW skip, NEW T
  PROVE  LeafWalk(objs, skip, T, _import_certificates(objs, skip, T), Len(objs))
<1>1. Len(objs) \in Nat
  BY ObjectOf
<1>2. \E g : LeafWalk(objs, skip, T, g, Len(objs))
  BY <1>1, LeafWalkThere
<1>3. _import_certificates(objs, skip, T) = CHOOSE g : LeafWalk(objs, skip, T, g, Len(objs))
  BY DEF _import_certificates, LeafWalk, LeafAdded, LeafDue, LeafNew
<1> QED
  BY <1>2, <1>3

LeavesKept(V, T) == LeavesFine(V) /\ LeavesLinked(V, T) /\ (LeafKeysFine(leaves) => LeafKeysFine(V))

\* The certificates of a bundle are linked to CAs of the table as the bundle
\* left it (_import_certificates).
LEMMA ImportLeavesFine ==
  ASSUME NEW objs \in Files, NEW skip, NEW T, RowsTyped(T), LeavesFine(leaves), LeavesLinked(leaves, T)
  PROVE  LeavesKept(_import_certificates(objs, skip, T)[Len(objs)], T)
<1> DEFINE A == _import_certificates(objs, skip, T)
           S == {n \in Nat : n <= Len(objs) /\ ~LeavesKept(A[n], T)}
<1>1. Len(objs) \in Nat /\ DOMAIN objs = 1 .. Len(objs)
  BY ObjectOf
<1>2. \A n \in 0 .. Len(objs) : A[n] = IF n = 0 THEN leaves ELSE LeafAdded(objs, skip, T, A[n - 1], n)
  BY ImportLeavesWalks DEF LeafWalk
<1> HIDE DEF A
<1>3. LeavesKept(leaves, T)
  BY DEF LeavesKept
<1>4. ASSUME NEW V, LeavesKept(V, T), NEW n \in DOMAIN objs PROVE LeavesKept(LeafAdded(objs, skip, T, V, n), T)
  <2>1. CASE ~LeafDue(objs, skip, V, n)
    BY <1>4, <2>1 DEF LeafAdded
  <2>2. CASE LeafDue(objs, skip, V, n)
    <3> DEFINE row == LeafNew(objs, T, n)
    <3>1. /\ objs[n].cert \in Certs /\ match_all(objs, n) \in {0, Shape[objs[n].cert].pair} /\ ~Shape[objs[n].cert].ca
      BY <2>2, ObjectOf DEF LeafDue
    <3>2. Issuer(T, objs[n].cert) \in Known(T) /\ Issuer(T, objs[n].cert) \in Refs
      BY IssuerKnown, KnownRefs DEF RowsTyped
    <3>3. Shape[objs[n].cert].pair \in Pairs /\ Shape[objs[n].cert].signer \in Pairs
      BY <3>1, PairsOf
    <3>4. /\ row \in LeafRow /\ ~Shape[row.cert].ca /\ row.caref \in Known(T) /\ row.prv \in {0, Shape[row.cert].pair}
      BY <3>1, <3>2, <3>3 DEF LeafNew, LeafRow
    <3> HIDE DEF row
    <3>5. LeavesKept(Inserted(V, row), T)
      BY <1>4, <3>4, InsertedLeaf DEF LeavesKept
    <3> QED
      BY <2>2, <3>5 DEF LeafAdded, row
  <2> QED
    BY <2>1, <2>2
<1>5. ASSUME S # {} PROVE FALSE
  <2>1. PICK n \in S : \A m \in S : n <= m
    BY <1>5, NatMin
  <2>2. CASE n = 0
    BY <1>1, <1>2, <1>3, <2>1, <2>2
  <2>3. CASE n # 0
    <3>1. n - 1 \in Nat /\ n - 1 \notin S /\ n - 1 <= Len(objs) /\ n \in 0 .. Len(objs) /\ n \in DOMAIN objs
      BY <1>1, <2>1, <2>3
    <3>2. LeavesKept(A[n - 1], T)
      BY <3>1
    <3>3. LeavesKept(A[n], T)
      BY <1>2, <1>4, <2>3, <3>1, <3>2
    <3> QED
      BY <2>1, <3>3
  <2> QED
    BY <2>2, <2>3
<1> QED
  BY <1>1, <1>5 DEF A

\* A bundle of any objects in any order keeps the tables sound
\* (SmartImporter.execute).
LEMMA ExecuteInv ==
  ASSUME LinkInv, NEW objs \in Files, NEW skip \in BOOLEAN, execute(objs, skip)
  PROVE  LinkInv'
<1> DEFINE done == _import_cas(objs, skip)[Len(objs)]
<1>1. /\ cas' = done.cas /\ refs' = done.refs
      /\ leaves' = _import_certificates(objs, skip, done.cas)[Len(objs)]
      /\ requests' = requests \cup _import_csrs(objs) /\ repaired' = FALSE /\ rekeyed' = rekeyed
  BY DEF execute
<1>2. AccFine(done)
  BY ImportCasFine
<1> HIDE DEF done
<1>3. /\ refs' \in Nat /\ CasFine(cas, refs)' /\ Known(cas) \subseteq Known(cas') /\ (CaKeysFine(cas) => CaKeysFine(cas'))
  BY <1>1, <1>2 DEF AccFine
<1>4. RowsTyped(cas') /\ LeavesFine(leaves) /\ LeavesLinked(leaves, cas')
  BY <1>3 DEF CasFine, LinkInv, LeavesLinked
<1>5. LeavesKept(leaves', cas')
  BY <1>1, <1>4, ImportLeavesFine
<1>6. \A q \in requests' : q.prv \in {0, q.pair}
  <2>1. \A q \in _import_csrs(objs) : q.prv \in {0, q.pair}
    BY ObjectOf DEF _import_csrs, Indices
  <2> QED
    BY <1>1, <2>1 DEF LinkInv
<1>7. RepairComplete'
  BY <1>1 DEF RepairComplete
<1> QED
  BY <1>1, <1>3, <1>5, <1>6, <1>7 DEF LinkInv, LeavesKept

(* The repair, phase by phase: every CA has an identifier; none is left     *)
(* without a link whose issuer is there; no two have one identifier.        *)

SkisSet(T) == \A i \in DOMAIN T : T[i].ski # 0
SkisDiffer(T) == \A i, h \in DOMAIN T : i # h => T[i].ski # T[h].ski
CasLinked(T) ==
  \A i, h \in DOMAIN T : T[i].caref = 0 /\ i # h /\ T[i].ski # Shape[T[i].cert].signer
                           => T[h].ski # Shape[T[i].cert].signer
AkisSet(V) == \A i \in DOMAIN V : V[i].aki # 0
NoneOrphan(V, T) == \A i \in DOMAIN V, h \in DOMAIN T : V[i].caref = 0 => T[h].ski # V[i].aki

\* The first phase fills in identifiers and leaves the rest of a row.
LEMMA IdentifiedFine ==
  ASSUME NEW T, NEW R, CasFine(T, R)
  PROVE  /\ CasFine(Identified(T), R) /\ SkisSet(Identified(T)) /\ Known(Identified(T)) = Known(T)
         /\ DOMAIN Identified(T) = DOMAIN T /\ \A i \in DOMAIN T : Identified(T)[i].prv = T[i].prv
         /\ CaKeysFine(T) => CaKeysFine(Identified(T))
<1> DEFINE U == Identified(T)
<1>1. Bounded(T) /\ T \in [DOMAIN T -> CaRow] /\ \A i \in DOMAIN T : T[i] \in CaRow
  BY DEF CasFine, RowsTyped
<1>2. DOMAIN U = DOMAIN T
  BY DEF Identified
<1>3. ASSUME NEW i \in DOMAIN T
      PROVE  /\ U[i] \in CaRow /\ U[i].cert = T[i].cert /\ U[i].ref = T[i].ref /\ U[i].caref = T[i].caref
             /\ U[i].prv = T[i].prv /\ U[i].ski # 0 /\ U[i].ski \in {T[i].ski, Shape[T[i].cert].pair}
  <2>1. T[i] \in CaRow /\ T[i].cert \in Certs
    BY <1>1 DEF CaRow
  <2>2. Shape[T[i].cert].pair \in Pairs /\ Shape[T[i].cert].pair # 0
    BY <2>1, PairsOf
  <2>3. U[i] = [T[i] EXCEPT !.ski = IF @ = 0 THEN Shape[T[i].cert].pair ELSE @]
    BY DEF Identified
  <2> HIDE DEF U
  <2> QED
    BY <2>1, <2>2, <2>3 DEF CaRow
<1>4. U = [i \in DOMAIN U |-> U[i]]
  BY DEF Identified
<1> HIDE DEF U
<1>5. U \in [DOMAIN U -> CaRow]
  BY <1>2, <1>3, <1>4
<1>6. Known(U) = Known(T)
  BY <1>2, <1>3 DEF Known
<1>7. RowsTyped(U)
  BY <1>2, <1>3, <1>5 DEF RowsTyped, Bounded, CasFine
<1>8. RefsGiven(U, R) /\ CarefsKnown(U)
  BY <1>2, <1>3, <1>6 DEF RefsGiven, CarefsKnown, CasFine
<1>9. SkisSet(U) /\ (CaKeysFine(T) => CaKeysFine(U))
  BY <1>2, <1>3 DEF SkisSet, CaKeysFine
<1> QED
  BY <1>2, <1>3, <1>6, <1>7, <1>8, <1>9 DEF CasFine, U

\* The second phase links every CA whose issuer is there.
LEMMA RechainedFine ==
  ASSUME NEW T, NEW R, CasFine(T, R)
  PROVE  /\ CasFine(Rechained(T), R) /\ Known(Rechained(T)) = Known(T) /\ CasLinked(Rechained(T))
         /\ DOMAIN Rechained(T) = DOMAIN T
         /\ \A i \in DOMAIN T : Rechained(T)[i].prv = T[i].prv /\ Rechained(T)[i].ski = T[i].ski
         /\ CaKeysFine(T) => CaKeysFine(Rechained(T))
<1> DEFINE U == Rechained(T)
           Parent(i) == {p \in DOMAIN T \ {i} : T[p].ski = Shape[T[i].cert].signer}
           Link(i) == IF T[i].caref = 0 /\ Shape[T[i].cert].signer # T[i].ski THEN RefOf(T, Parent(i)) ELSE T[i].caref
<1>1. Bounded(T) /\ T \in [DOMAIN T -> CaRow] /\ (\A i \in DOMAIN T : T[i] \in CaRow) /\ RowsTyped(T)
  BY DEF CasFine, RowsTyped
<1>2. DOMAIN U = DOMAIN T
  BY DEF Rechained
<1>3. ASSUME NEW i \in DOMAIN T PROVE U[i] = [T[i] EXCEPT !.caref = Link(i)]
  BY DEF Rechained
<1>4. ASSUME NEW i \in DOMAIN T
      PROVE  /\ Link(i) \in Known(T) /\ Link(i) \in Refs
             /\ Link(i) = 0 => T[i].caref = 0 /\ (Shape[T[i].cert].signer = T[i].ski \/ Parent(i) = {})
  <2>1. Parent(i) \in SUBSET DOMAIN T /\ T[i].caref \in Known(T)
    BY DEF CasFine, CarefsKnown
  <2>2. RefOf(T, Parent(i)) \in Known(T)
    BY <1>1, <2>1, RefOfKnown
  <2>3. Parent(i) # {} => RefOf(T, Parent(i)) # 0
    <3>1. Parent(i) # {} => FirstOf(Parent(i)) \in DOMAIN T /\ RefOf(T, Parent(i)) = T[FirstOf(Parent(i))].ref
      BY <1>1, <2>1, RefOfKnown
    <3> QED
      BY <3>1 DEF CasFine, RefsGiven
  <2>4. Link(i) \in Known(T)
    BY <2>1, <2>2
  <2> QED
    BY <1>1, <2>3, <2>4, KnownRefs
<1>5. U = [i \in DOMAIN U |-> U[i]]
  BY DEF Rechained
<1> HIDE DEF U, Link
<1>6. ASSUME NEW i \in DOMAIN T
      PROVE  /\ U[i] \in CaRow /\ U[i].cert = T[i].cert /\ U[i].ref = T[i].ref /\ U[i].caref = Link(i)
             /\ U[i].prv = T[i].prv /\ U[i].ski = T[i].ski
  BY <1>1, <1>3, <1>4 DEF CaRow
<1>7. U \in [DOMAIN U -> CaRow]
  BY <1>2, <1>5, <1>6
<1>8. Known(U) = Known(T)
  BY <1>2, <1>6 DEF Known
<1>9. RowsTyped(U)
  BY <1>2, <1>6, <1>7 DEF RowsTyped, Bounded, CasFine
<1>10. RefsGiven(U, R) /\ CarefsKnown(U)
  BY <1>2, <1>4, <1>6, <1>8 DEF RefsGiven, CarefsKnown, CasFine
<1>11. CaKeysFine(T) => CaKeysFine(U)
  BY <1>2, <1>6 DEF CaKeysFine
<1>12. CasLinked(U)
  BY <1>2, <1>4, <1>6 DEF CasLinked
<1> QED
  BY <1>2, <1>6, <1>8, <1>9, <1>10, <1>11, <1>12 DEF CasFine, U

\* Of the CAs with one identifier, one stays.
LEMMA KeeperThere ==
  ASSUME NEW T, Bounded(T), NEW i \in DOMAIN T
  PROVE  Keeper(T, T[i].ski) \in DOMAIN T /\ T[Keeper(T, T[i].ski)].ski = T[i].ski
<1> DEFINE same == {h \in DOMAIN T : T[h].ski = T[i].ski}
           linked == Linked(T, same)
           keyed == Keyed(T, same)
           best == IF linked \cap keyed # {} THEN linked \cap keyed
                   ELSE IF linked # {} THEN linked
                   ELSE IF keyed # {} THEN keyed ELSE same
<1>1. Keeper(T, T[i].ski) = FirstOf(best)
  BY DEF Keeper
<1>2. linked \subseteq same /\ keyed \subseteq same /\ i \in same
  BY DEF Linked, Keyed
<1> HIDE DEF linked, keyed
<1>3. best # {} /\ best \subseteq same
  BY <1>2
<1>4. best \subseteq Nat
  BY <1>3 DEF Bounded
<1> HIDE DEF best
<1>5. FirstOf(best) \in same
  BY <1>3, <1>4, FirstIn
<1> QED
  BY <1>1, <1>5

\* What a link is once the duplicates are merged: a row that stays, if it
\* named a row.
LEMMA MergedThere ==
  ASSUME NEW T, NEW R, CasFine(T, R), NEW r
  PROVE  /\ r \notin Known(T) \/ r = 0 => Merged(T, r) = r
         /\ r \in Known(T) /\ r # 0 => \E i \in DOMAIN T : Keeper(T, T[i].ski) = i /\ Merged(T, r) = T[i].ref
         /\ Merged(T, r) = 0 => r = 0
<1> DEFINE row == {i \in DOMAIN T : T[i].ref = r}
<1>1. Bounded(T) /\ \A i \in DOMAIN T : T[i].ref # 0
  BY DEF CasFine, RowsTyped, RefsGiven
<1>2. CASE row = {}
  <2>1. Merged(T, r) = r
    BY <1>2 DEF Merged
  <2>2. r \notin Known(T) \/ r = 0
    BY <1>2 DEF Known
  <2> QED
    BY <2>1, <2>2
<1>3. CASE row # {}
  <2> DEFINE f == FirstOf(row)
             k == Keeper(T, T[f].ski)
  <2>1. Merged(T, r) = T[k].ref
    BY <1>3 DEF Merged
  <2>2. f \in row
    BY <1>1, <1>3, RefOfKnown
  <2>3. f \in DOMAIN T /\ r # 0 /\ r \in Known(T)
    BY <1>1, <2>2 DEF Known
  <2> HIDE DEF f
  <2>4. k \in DOMAIN T /\ T[k].ski = T[f].ski
    BY <1>1, <2>3, KeeperThere
  <2>5. Keeper(T, T[k].ski) = k
    BY <2>4
  <2> HIDE DEF k
  <2> QED
    BY <1>1, <2>1, <2>3, <2>4, <2>5
<1> QED
  BY <1>2, <1>3

\* The key of a row that stays is its own or that of a row merged with it, and
\* it has one if any of them has.
LEMMA KeyTakenFine ==
  ASSUME NEW T, RowsTyped(T), NEW i \in DOMAIN T
  PROVE  /\ KeyTaken(T, i) \in {0} \cup Pairs
         /\ \E h \in DOMAIN T : T[h].ski = T[i].ski /\ KeyTaken(T, i) = T[h].prv
         /\ KeyTaken(T, i) = 0 => \A h \in DOMAIN T : T[h].ski = T[i].ski => T[h].prv = 0
<1> DEFINE keyed == Keyed(T, {h \in DOMAIN T : T[h].ski = T[i].ski})
<1>1. keyed = {h \in DOMAIN T : T[h].ski = T[i].ski /\ T[h].prv # 0}
  BY DEF Keyed
<1>2. Bounded(T) /\ \A h \in DOMAIN T : T[h].prv \in {0} \cup Pairs
  BY DEF RowsTyped, CaRow
<1>3. keyed # {} => FirstOf(keyed) \in keyed
  BY <1>1, <1>2, RefOfKnown
<1>4. KeyTaken(T, i) = IF T[i].prv = 0 /\ keyed # {} THEN T[FirstOf(keyed)].prv ELSE T[i].prv
  BY DEF KeyTaken
<1> HIDE DEF keyed
<1>5. CASE T[i].prv = 0 /\ keyed # {}
  BY <1>1, <1>2, <1>3, <1>4, <1>5
<1>6. CASE ~(T[i].prv = 0 /\ keyed # {})
  BY <1>1, <1>2, <1>4, <1>6
<1> QED
  BY <1>5, <1>6

\* The last phase merges the CAs with one identifier.
LEMMA DeduplicatedFine ==
  ASSUME NEW T, NEW R, CasFine(T, R), SkisSet(T), CasLinked(T)
  PROVE  LET D == Deduplicated(T) IN
         /\ CasFine(D, R) /\ SkisSet(D) /\ SkisDiffer(D) /\ CasLinked(D)
         /\ \A h \in DOMAIN D : h \in DOMAIN T /\ D[h].ski = T[h].ski
         /\ \A r \in Known(T) : Merged(T, r) \in Known(D)
         /\ CaKeysFine(T) => CaKeysFine(D)
         /\ CaKeysFine(T) => \A i \in DOMAIN T : T[i].prv # 0 => \E h \in DOMAIN D : D[h].prv = T[i].prv
<1> DEFINE D == Deduplicated(T)
<1>1. RowsTyped(T) /\ Bounded(T) /\ (\A i \in DOMAIN T : T[i] \in CaRow) /\ RefsGiven(T, R) /\ CarefsKnown(T)
  BY DEF CasFine, RowsTyped
<1>2. DOMAIN D = {i \in DOMAIN T : Keeper(T, T[i].ski) = i}
  BY DEF Deduplicated
<1>3. ASSUME NEW i \in DOMAIN D PROVE D[i] = [T[i] EXCEPT !.prv = KeyTaken(T, i), !.caref = Merged(T, T[i].caref)]
  BY <1>1, <1>2 DEF Deduplicated, CaRow
<1>4. D = [i \in DOMAIN D |-> D[i]]
  BY DEF Deduplicated
<1> HIDE DEF D
<1>5. \A i \in DOMAIN D : i \in DOMAIN T /\ Keeper(T, T[i].ski) = i
  BY <1>2
<1>6. ASSUME NEW i \in DOMAIN D PROVE Merged(T, T[i].caref) \in Refs
  <2>1. T[i].caref \in Refs /\ \A h \in DOMAIN T : T[h].ref \in Refs
    BY <1>1, <1>5 DEF CaRow
  <2> QED
    BY <2>1, MergedThere
<1>7. ASSUME NEW i \in DOMAIN D
      PROVE  /\ D[i] \in CaRow /\ D[i].ref = T[i].ref /\ D[i].cert = T[i].cert /\ D[i].ski = T[i].ski
             /\ D[i].prv = KeyTaken(T, i) /\ D[i].caref = Merged(T, T[i].caref)
  <2>1. T[i] \in CaRow /\ KeyTaken(T, i) \in {0} \cup Pairs
    BY <1>1, <1>5, KeyTakenFine
  <2> QED
    BY <1>3, <1>6, <2>1 DEF CaRow
<1>8. D \in [DOMAIN D -> CaRow]
  BY <1>4, <1>7
<1>9. RowsTyped(D)
  BY <1>1, <1>5, <1>7, <1>8 DEF RowsTyped, Bounded
<1>10. RefsGiven(D, R)
  BY <1>1, <1>5, <1>7 DEF RefsGiven
<1>11. ASSUME NEW r \in Known(T) PROVE Merged(T, r) \in Known(D)
  <2>1. CASE r = 0
    BY <2>1, MergedThere DEF Known
  <2>2. CASE r # 0
    <3>1. PICK i \in DOMAIN T : Keeper(T, T[i].ski) = i /\ Merged(T, r) = T[i].ref
      BY <2>2, MergedThere
    <3> QED
      BY <1>2, <1>7, <3>1 DEF Known
  <2> QED
    BY <2>1, <2>2
<1>12. CarefsKnown(D)
  BY <1>1, <1>5, <1>7, <1>11 DEF CarefsKnown
<1>13. SkisSet(D) /\ SkisDiffer(D)
  BY <1>5, <1>7 DEF SkisSet, SkisDiffer
<1>14. CasLinked(D)
  <2> SUFFICES ASSUME NEW i \in DOMAIN D, NEW h \in DOMAIN D, D[i].caref = 0, i # h, D[i].ski # Shape[D[i].cert].signer
               PROVE  D[h].ski # Shape[D[i].cert].signer
    BY DEF CasLinked
  <2>1. T[i].caref = 0
    BY <1>7, MergedThere
  <2> QED
    BY <1>5, <1>7, <2>1 DEF CasLinked
<1>15. ASSUME CaKeysFine(T), NEW i \in DOMAIN T PROVE T[i].ski = Shape[T[i].cert].pair /\ T[i].prv \in {0, T[i].ski}
  BY <1>15 DEF CaKeysFine, SkisSet
<1>16. ASSUME CaKeysFine(T), NEW i \in DOMAIN D
       PROVE  D[i].ski = Shape[D[i].cert].pair /\ D[i].prv \in {0, D[i].ski}
  <2>1. i \in DOMAIN T
    BY <1>5
  <2>2. PICK h \in DOMAIN T : T[h].ski = T[i].ski /\ KeyTaken(T, i) = T[h].prv
    BY <1>1, <2>1, KeyTakenFine
  <2>3. T[h].prv \in {0, T[h].ski} /\ T[i].ski = Shape[T[i].cert].pair
    BY <1>15, <1>16, <2>1, <2>2
  <2> QED
    BY <1>7, <2>2, <2>3
<1>17. CaKeysFine(T) => CaKeysFine(D)
  BY <1>16 DEF CaKeysFine
<1>18. ASSUME CaKeysFine(T), NEW i \in DOMAIN T, T[i].prv # 0 PROVE \E h \in DOMAIN D : D[h].prv = T[i].prv
  <2> DEFINE k == Keeper(T, T[i].ski)
  <2>1. k \in DOMAIN T /\ T[k].ski = T[i].ski
    BY <1>1, KeeperThere
  <2>2. k \in DOMAIN D
    BY <1>2, <2>1
  <2> HIDE DEF k
  <2>3. KeyTaken(T, k) # 0
    BY <1>1, <1>18, <2>1, KeyTakenFine
  <2>4. D[k].prv = D[k].ski /\ D[k].ski = T[i].ski
    BY <1>7, <1>16, <1>18, <2>1, <2>2, <2>3
  <2>5. T[i].prv = T[i].ski
    BY <1>15, <1>18
  <2> QED
    BY <2>2, <2>4, <2>5
<1> QED
  BY <1>5, <1>7, <1>9, <1>10, <1>11, <1>12, <1>13, <1>14, <1>17, <1>18 DEF CasFine, D

\* The certificates are linked like the CAs, and what they named is merged.
LEMMA RechainedLeavesFine ==
  ASSUME NEW T, NEW R, CasFine(T, R), NEW V, LeavesFine(V), LeavesLinked(V, T),
         NEW D, \A r \in Known(T) : Merged(T, r) \in Known(D), RowsTyped(D),
         \A h \in DOMAIN D : h \in DOMAIN T /\ D[h].ski = T[h].ski
  PROVE  LET W == RechainedLeaves(T, V) IN
         /\ LeavesFine(W) /\ LeavesLinked(W, D) /\ AkisSet(W) /\ NoneOrphan(W, D)
         /\ LeafKeysFine(V) => LeafKeysFine(W)
<1> DEFINE W == RechainedLeaves(T, V)
           Aki(i) == IF V[i].aki = 0 THEN Shape[V[i].cert].signer ELSE V[i].aki
           Link(i) == IF V[i].caref = 0 THEN RefOf(T, BySki(T, Aki(i))) ELSE V[i].caref
<1>1. Bounded(T) /\ RowsTyped(T) /\ Bounded(V) /\ (\A i \in DOMAIN V : V[i] \in LeafRow) /\ \A h \in DOMAIN T : T[h].ref # 0
  BY DEF CasFine, RowsTyped, LeavesFine, RefsGiven
<1>2. DOMAIN W = DOMAIN V /\ W = [i \in DOMAIN W |-> W[i]]
  BY DEF RechainedLeaves
<1>3. ASSUME NEW i \in DOMAIN V PROVE W[i] = [V[i] EXCEPT !.aki = Aki(i), !.caref = Merged(T, Link(i))]
  BY <1>1 DEF RechainedLeaves, LeafRow
<1>4. ASSUME NEW i \in DOMAIN V PROVE Aki(i) # 0 /\ Aki(i) \in Pairs
  <2>1. V[i].aki \in {0} \cup Pairs /\ V[i].cert \in Certs
    BY <1>1 DEF LeafRow
  <2>2. Shape[V[i].cert].signer \in Pairs /\ Shape[V[i].cert].signer # 0
    BY <2>1, PairsOf
  <2> QED
    BY <2>1, <2>2
<1> HIDE DEF W, Aki
<1>5. ASSUME NEW i \in DOMAIN V
      PROVE  /\ Merged(T, Link(i)) \in Refs /\ (Merged(T, Link(i)) \in Known(D) \/ V[i].opn)
             /\ Merged(T, Link(i)) = 0 => BySki(T, Aki(i)) = {}
  <2> DEFINE ids == BySki(T, Aki(i))
  <2>1. ids \in SUBSET DOMAIN T
    BY DEF BySki
  <2>2. RefOf(T, ids) \in Known(T) /\ (ids # {} => FirstOf(ids) \in ids /\ RefOf(T, ids) = T[FirstOf(ids)].ref)
    BY <1>1, <2>1, RefOfKnown
  <2> HIDE DEF ids
  <2>3. ids # {} => RefOf(T, ids) # 0
    BY <1>1, <2>1, <2>2
  <2>4. Link(i) = IF V[i].caref = 0 THEN RefOf(T, ids) ELSE V[i].caref
    BY DEF ids
  <2> HIDE DEF Link
  <2>5. Link(i) \in Known(T) \/ V[i].opn
    BY <2>2, <2>4 DEF LeavesLinked
  <2>6. Link(i) \in Refs
    <3>1. V[i].caref \in Refs /\ Known(T) \subseteq Refs
      BY <1>1, KnownRefs DEF LeafRow
    <3> QED
      BY <2>2, <2>4, <3>1
  <2>7. Merged(T, Link(i)) \in Refs
    <3>1. \A h \in DOMAIN T : T[h].ref \in Refs
      BY <1>1 DEF RowsTyped, CaRow
    <3> QED
      BY <2>6, <3>1, MergedThere
  <2>8. Merged(T, Link(i)) = 0 => Link(i) = 0
    BY MergedThere
  <2>9. Link(i) = 0 => ids = {}
    BY <2>3, <2>4
  <2> QED
    BY <2>5, <2>7, <2>8, <2>9 DEF ids
<1> HIDE DEF Link
<1>6. ASSUME NEW i \in DOMAIN V
      PROVE  /\ W[i] \in LeafRow /\ W[i].cert = V[i].cert /\ W[i].aki = Aki(i) /\ W[i].prv = V[i].prv
             /\ W[i].opn = V[i].opn /\ W[i].caref = Merged(T, Link(i))
  <2> DEFINE a == Aki(i)
             l == Merged(T, Link(i))
  <2>1. V[i] \in LeafRow /\ a \in Pairs /\ l \in Refs
    BY <1>1, <1>4, <1>5
  <2>2. W[i] = [V[i] EXCEPT !.aki = a, !.caref = l]
    BY <1>3
  <2> HIDE DEF a, l
  <2>3. /\ W[i] \in LeafRow /\ W[i].cert = V[i].cert /\ W[i].aki = a /\ W[i].prv = V[i].prv
        /\ W[i].opn = V[i].opn /\ W[i].caref = l
    BY <2>1, <2>2 DEF LeafRow
  <2> QED
    BY <2>3 DEF a, l
<1>7. W \in [DOMAIN W -> LeafRow]
  BY <1>2, <1>6
<1>8. LeavesFine(W) /\ LeavesLinked(W, D) /\ AkisSet(W) /\ (LeafKeysFine(V) => LeafKeysFine(W))
  BY <1>2, <1>4, <1>5, <1>6, <1>7 DEF LeavesFine, LeavesLinked, AkisSet, LeafKeysFine, Bounded
<1>9. NoneOrphan(W, D)
  <2> SUFFICES ASSUME NEW i \in DOMAIN W, NEW h \in DOMAIN D, W[i].caref = 0 PROVE D[h].ski # W[i].aki
    BY DEF NoneOrphan
  <2>1. BySki(T, Aki(i)) = {} /\ Aki(i) # 0 /\ W[i].aki = Aki(i)
    BY <1>2, <1>4, <1>5, <1>6
  <2>2. h \notin BySki(T, Aki(i))
    BY <2>1
  <2>3. T[h].ski # Aki(i)
    BY <2>1, <2>2 DEF BySki
  <2> QED
    BY <2>1, <2>3
<1> QED
  BY <1>8, <1>9 DEF W

\* A row alone with its identifier stays, with its key.
LEMMA KeeperAlone ==
  ASSUME NEW T, Bounded(T), SkisDiffer(T), NEW i \in DOMAIN T
  PROVE  Keeper(T, T[i].ski) = i /\ KeyTaken(T, i) = T[i].prv
<1>1. {h \in DOMAIN T : T[h].ski = T[i].ski} = {i}
  BY DEF SkisDiffer
<1>2. Keeper(T, T[i].ski) = i
  BY KeeperThere DEF SkisDiffer
<1>3. KeyTaken(T, i) = T[i].prv
  <2> DEFINE keyed == Keyed(T, {h \in DOMAIN T : T[h].ski = T[i].ski})
  <2>1. T[i].prv = 0 => keyed = {}
    BY <1>1 DEF Keyed
  <2> QED
    BY <2>1 DEF KeyTaken
<1> QED
  BY <1>2, <1>3

\* Once repaired, another repair changes nothing.
LEMMA RepairedStays ==
  ASSUME NEW T, NEW R, CasFine(T, R), SkisSet(T), SkisDiffer(T), CasLinked(T),
         NEW V, LeavesFine(V), AkisSet(V), NoneOrphan(V, T)
  PROVE  Repair(T, V) = [cas |-> T, leaves |-> V]
<1>1. /\ Bounded(T) /\ T \in [DOMAIN T -> CaRow] /\ (\A i \in DOMAIN T : T[i] \in CaRow) /\ RefsGiven(T, R)
      /\ V \in [DOMAIN V -> LeafRow] /\ (\A i \in DOMAIN V : V[i] \in LeafRow)
  BY DEF CasFine, RowsTyped, LeavesFine
<1>2. Identified(T) = T
  <2>1. \A i \in DOMAIN T : [T[i] EXCEPT !.ski = IF @ = 0 THEN Shape[T[i].cert].pair ELSE @] = T[i]
    BY <1>1 DEF SkisSet, CaRow
  <2>2. Identified(T) = [i \in DOMAIN T |-> T[i]]
    BY <2>1 DEF Identified
  <2> QED
    BY <1>1, <2>2
<1>3. Rechained(T) = T
  <2> DEFINE Parent(i) == {p \in DOMAIN T \ {i} : T[p].ski = Shape[T[i].cert].signer}
             Link(i) == IF T[i].caref = 0 /\ Shape[T[i].cert].signer # T[i].ski THEN RefOf(T, Parent(i)) ELSE T[i].caref
  <2>1. ASSUME NEW i \in DOMAIN T PROVE Link(i) = T[i].caref
    <3>1. T[i].caref = 0 /\ Shape[T[i].cert].signer # T[i].ski => Parent(i) = {}
      BY DEF CasLinked
    <3> QED
      BY <3>1 DEF RefOf
  <2>2. \A i \in DOMAIN T : [T[i] EXCEPT !.caref = T[i].caref] = T[i]
    BY <1>1 DEF CaRow
  <2>3. Rechained(T) = [i \in DOMAIN T |-> [T[i] EXCEPT !.caref = Link(i)]]
    BY DEF Rechained
  <2> HIDE DEF Link
  <2>4. Rechained(T) = [i \in DOMAIN T |-> T[i]]
    BY <2>1, <2>2, <2>3
  <2> QED
    BY <1>1, <2>4
<1>4. ASSUME NEW r PROVE Merged(T, r) = r
  <2> DEFINE row == {i \in DOMAIN T : T[i].ref = r}
  <2>1. CASE row = {}
    BY <2>1 DEF Merged
  <2>2. CASE row # {}
    <3>1. FirstOf(row) \in row
      BY <1>1, <2>2, RefOfKnown
    <3>2. Keeper(T, T[FirstOf(row)].ski) = FirstOf(row)
      BY <1>1, <3>1, KeeperAlone
    <3> QED
      BY <2>2, <3>1, <3>2 DEF Merged
  <2> QED
    BY <2>1, <2>2
<1>5. Deduplicated(T) = T
  <2>1. {i \in DOMAIN T : Keeper(T, T[i].ski) = i} = DOMAIN T
    BY <1>1, KeeperAlone
  <2>2. \A i \in DOMAIN T : [T[i] EXCEPT !.prv = KeyTaken(T, i), !.caref = Merged(T, @)] = T[i]
    <3> SUFFICES ASSUME NEW i \in DOMAIN T PROVE [T[i] EXCEPT !.prv = KeyTaken(T, i), !.caref = Merged(T, @)] = T[i]
      OBVIOUS
    <3>1. KeyTaken(T, i) = T[i].prv
      BY <1>1, KeeperAlone
    <3>2. T[i] \in CaRow /\ Merged(T, T[i].caref) = T[i].caref
      BY <1>1, <1>4
    <3> QED
      BY <3>1, <3>2 DEF CaRow
  <2>3. Deduplicated(T) = [i \in DOMAIN T |-> T[i]]
    BY <2>1, <2>2 DEF Deduplicated
  <2> QED
    BY <1>1, <2>3
<1>6. RechainedLeaves(T, V) = V
  <2> DEFINE Aki(i) == IF V[i].aki = 0 THEN Shape[V[i].cert].signer ELSE V[i].aki
             Link(i) == IF V[i].caref = 0 THEN RefOf(T, BySki(T, Aki(i))) ELSE V[i].caref
  <2>1. ASSUME NEW i \in DOMAIN V PROVE Aki(i) = V[i].aki /\ Link(i) = V[i].caref
    <3>1. Aki(i) = V[i].aki
      BY DEF AkisSet
    <3>2. V[i].caref = 0 => BySki(T, V[i].aki) = {}
      BY DEF NoneOrphan, BySki
    <3> QED
      BY <3>1, <3>2 DEF RefOf
  <2>2. \A i \in DOMAIN V : [V[i] EXCEPT !.aki = V[i].aki, !.caref = V[i].caref] = V[i]
    BY <1>1 DEF LeafRow
  <2>3. RechainedLeaves(T, V) = [i \in DOMAIN V |-> [V[i] EXCEPT !.aki = Aki(i), !.caref = Merged(T, Link(i))]]
    BY DEF RechainedLeaves
  <2> HIDE DEF Aki, Link
  <2>4. \A i \in DOMAIN V : [V[i] EXCEPT !.aki = Aki(i), !.caref = Merged(T, Link(i))] = V[i]
    BY <1>4, <2>1, <2>2
  <2>5. RechainedLeaves(T, V) = [i \in DOMAIN V |-> V[i]]
    BY <2>3, <2>4
  <2> QED
    BY <1>1, <2>5
<1> QED
  BY <1>2, <1>3, <1>5, <1>6 DEF Repair

\* The repair keeps the tables sound and leaves nothing to repair; no key is
\* lost (backfill_ski_aki).
LEMMA RepairInv ==
  ASSUME LinkInv, backfill_ski_aki
  PROVE  /\ LinkInv'
         /\ ~rekeyed => \A i \in DOMAIN cas : cas[i].prv # 0 => \E h \in DOMAIN cas' : cas'[h].prv = cas[i].prv
<1> DEFINE I == Identified(cas)
           T == Rechained(I)
<1>1. /\ cas' = Deduplicated(T) /\ leaves' = RechainedLeaves(T, leaves) /\ repaired' = TRUE
      /\ UNCHANGED <<requests, refs, rekeyed>>
  BY DEF backfill_ski_aki, Repair
<1>2. /\ CasFine(I, refs) /\ SkisSet(I) /\ Known(I) = Known(cas) /\ DOMAIN I = DOMAIN cas
      /\ \A i \in DOMAIN cas : I[i].prv = cas[i].prv
      /\ CaKeysFine(cas) => CaKeysFine(I)
  BY IdentifiedFine DEF LinkInv
<1> HIDE DEF I
<1>3. /\ CasFine(T, refs) /\ Known(T) = Known(I) /\ CasLinked(T) /\ DOMAIN T = DOMAIN I
      /\ \A i \in DOMAIN I : T[i].prv = I[i].prv /\ T[i].ski = I[i].ski
      /\ CaKeysFine(I) => CaKeysFine(T)
  BY <1>2, RechainedFine
<1> HIDE DEF T
<1>4. SkisSet(T)
  BY <1>2, <1>3 DEF SkisSet
<1>5. /\ CasFine(cas', refs) /\ SkisSet(cas') /\ SkisDiffer(cas') /\ CasLinked(cas')
      /\ \A h \in DOMAIN cas' : h \in DOMAIN T /\ cas'[h].ski = T[h].ski
      /\ \A r \in Known(T) : Merged(T, r) \in Known(cas')
      /\ CaKeysFine(T) => CaKeysFine(cas')
      /\ CaKeysFine(T) => \A i \in DOMAIN T : T[i].prv # 0 => \E h \in DOMAIN cas' : cas'[h].prv = T[i].prv
  BY <1>1, <1>3, <1>4, DeduplicatedFine
<1>6. LeavesFine(leaves) /\ LeavesLinked(leaves, T) /\ RowsTyped(cas')
  BY <1>2, <1>3, <1>5 DEF LinkInv, LeavesLinked, CasFine
<1>7. /\ LeavesFine(leaves') /\ LeavesLinked(leaves', cas') /\ AkisSet(leaves') /\ NoneOrphan(leaves', cas')
      /\ LeafKeysFine(leaves) => LeafKeysFine(leaves')
  BY <1>1, <1>3, <1>5, <1>6, RechainedLeavesFine
<1>8. Repair(cas', leaves') = [cas |-> cas', leaves |-> leaves']
  BY <1>5, <1>7, RepairedStays
<1>9. RepairComplete'
  BY <1>5, <1>7, <1>8 DEF RepairComplete, SkisDiffer, CasLinked, NoneOrphan
<1>10. LinkInv'
  BY <1>1, <1>2, <1>3, <1>5, <1>7, <1>9 DEF LinkInv
<1>11. ASSUME ~rekeyed, NEW i \in DOMAIN cas, cas[i].prv # 0 PROVE \E h \in DOMAIN cas' : cas'[h].prv = cas[i].prv
  <2>1. CaKeysFine(T)
    BY <1>2, <1>3, <1>11 DEF LinkInv
  <2>2. i \in DOMAIN T /\ T[i].prv = cas[i].prv
    BY <1>2, <1>3, <1>11
  <2> QED
    BY <1>5, <1>11, <2>1, <2>2
<1> QED
  BY <1>10, <1>11

\* Nothing changes in the tables when nothing happens to them.
LEMMA LinksStay ==
  ASSUME LinkInv, UNCHANGED linkVars
  PROVE  LinkInv'
<1>1. cas' = cas /\ leaves' = leaves /\ requests' = requests /\ refs' = refs /\ repaired' = repaired /\ rekeyed' = rekeyed
  BY DEF linkVars
<1>2. RepairComplete'
  BY <1>1 DEF LinkInv, RepairComplete
<1> QED
  BY <1>1, <1>2 DEF LinkInv

\* At first the tables are empty.
LEMMA LinkInitInv == LinkInit => LinkInv
<1> SUFFICES ASSUME LinkInit PROVE LinkInv
  OBVIOUS
<1>1. DOMAIN <<>> = {} /\ \A S : <<>> \in [{} -> S]
  OBVIOUS
<1> QED
  BY <1>1 DEF LinkInit, LinkInv, CasFine, RowsTyped, RefsGiven, CarefsKnown, LeavesFine, LeavesLinked, CaKeysFine,
           LeafKeysFine, RepairComplete, Bounded

\* Every import, deletion and repair keeps the invariant.
LEMMA LinkStepInv == LinkInv /\ [LinkNext]_linkVars => LinkInv'
<1> SUFFICES ASSUME LinkInv, [LinkNext]_linkVars PROVE LinkInv'
  OBVIOUS
<1>1. CASE LinkStep
  <2>1. CASE \E c \in Certs, keyed \in BOOLEAN :
               (\E asCa \in BOOLEAN : import_ca_file(c, keyed, asCa)) \/ import_certificate_file(c, keyed)
    BY <2>1, ImportCaInv, ImportCertificateInv
  <2>2. CASE \E c \in Certs : import_opnsense_ca(c) \/ \E issuer \in Certs : import_opnsense_cert(c, issuer)
    BY <2>2, OpnsenseInv
  <2>3. CASE \E objs \in Files, skip \in BOOLEAN : execute(objs, skip)
    BY <2>3, ExecuteInv
  <2>4. CASE \E i \in DOMAIN cas : delete_linked_ca(i)
    BY <2>4, DeleteCaInv
  <2> QED
    BY <1>1, <2>1, <2>2, <2>3, <2>4 DEF LinkStep
<1>2. CASE backfill_ski_aki
  BY <1>2, RepairInv
<1>3. CASE UNCHANGED linkVars
  BY <1>3, LinksStay
<1> QED
  BY <1>1, <1>2, <1>3 DEF LinkNext

\* The invariant of the links holds for any certificates, files and bounds.
THEOREM LinkInvariance == LinkSpec => []LinkInv
<1> QED
  BY LinkInitInv, LinkStepInv, PTL DEF LinkSpec

\* Whatever is imported, deleted and repaired in whichever order, for any set
\* of certificates and any files: a row has the key of its certificate, its
\* link names a CA that is there, and one repair leaves nothing for another to
\* do (SmartImporter.execute, import_items, delete_ca, backfill_ski_aki).
THEOREM LinksAreSound == LinkSpec => []LinksSound
<1>1. LinkInv => LinksSound
  <2> SUFFICES ASSUME LinkInv PROVE LinksSound
    OBVIOUS
  <2>1. /\ \A i \in DOMAIN cas : cas[i] \in CaRow /\ Shape[cas[i].cert].ca
        /\ \A i \in DOMAIN leaves : leaves[i] \in LeafRow /\ ~Shape[leaves[i].cert].ca
    BY DEF LinkInv, CasFine, RowsTyped, LeavesFine
  <2>2. LinkTypeOK
    BY <2>1 DEF LinkInv, CasFine, RefsGiven, LinkTypeOK, CaRow, LeafRow
  <2>3. KeyOfRow
    BY DEF LinkInv, CaKeysFine, LeafKeysFine, KeyOfRow
  <2>4. LinksResolve
    BY DEF LinkInv, CasFine, CarefsKnown, LeavesLinked, Known, LinksResolve
  <2>5. RepairComplete
    BY DEF LinkInv
  <2> QED
    BY <2>2, <2>3, <2>4, <2>5 DEF LinksSound
<1> QED
  BY <1>1, LinkInvariance, PTL

\* The merging of CAs with one identifier loses no private key, as long as no
\* file put a certificate with another key into a row (backfill_ski_aki).
THEOREM KeysOutliveRepair == LinkSpec => KeysSurviveRepair
<1>1. LinkInv /\ [LinkNext]_linkVars =>
        [repaired' /\ ~rekeyed =>
           \A i \in DOMAIN cas : cas[i].prv # 0 => \E h \in DOMAIN cas' : cas'[h].prv = cas[i].prv]_linkVars
  <2> SUFFICES ASSUME LinkInv, LinkNext, repaired', ~rekeyed
               PROVE  \A i \in DOMAIN cas : cas[i].prv # 0 => \E h \in DOMAIN cas' : cas'[h].prv = cas[i].prv
    OBVIOUS
  <2>1. backfill_ski_aki
    <3>1. ASSUME LinkStep PROVE repaired' = FALSE
      BY <3>1 DEF LinkStep, import_ca_file, import_certificate_file, import_opnsense_ca, import_opnsense_cert, execute,
                  delete_linked_ca
    <3> QED
      BY <3>1 DEF LinkNext
  <2> QED
    BY <2>1, RepairInv
<1> QED
  BY <1>1, LinkInvariance, PTL DEF LinkSpec, KeysSurviveRepair

----------------------------------------------------------------------------
(* The store in parts. *)

\* The composed store runs one part at a time, so each part keeps its own
\* specification.
THEOREM StoreParts == StoreSpec => BackupSpec /\ HsmSpec /\ LinkSpec
<1>1. StoreInit => BackupInit /\ HsmInit /\ LinkInit
  BY DEF StoreInit
<1>2. [StoreNext]_<<allVars, linkVars, hsmVars, part>> => [BackupNext]_allVars /\ [HsmNext]_hsmVars /\ [LinkNext]_linkVars
  BY DEF StoreNext
<1> QED
  BY <1>1, <1>2, PTL DEF StoreSpec, BackupSpec, HsmSpec, LinkSpec

\* In the composed store no step replaces a key by another or by none: neither
\* the merging of CAs nor the writing of the files of keys (backfill_ski_aki,
\* regenerate_all_files).
THEOREM KeysAreKept == StoreSpec => KeysKept
<1>1. BackupSpec => FilesFaithful
  BY FilesAreFaithful
<1>2. LinkSpec => KeysSurviveRepair
  BY KeysOutliveRepair
<1> QED
  BY <1>1, <1>2, StoreParts DEF KeysKept

\* In the composed store every row of a key, an account and a device has its
\* type, for every value of the constants (KeyVault, Backup, Hsm).
THEOREM StoreTyped == StoreSpec => []StoreTypeOK
<1>1. VaultTypeOK /\ HsmTypeOK => StoreTypeOK
  BY DEF StoreTypeOK
<1> QED
  BY <1>1, StoreParts, VaultTyped, HsmTyped, PTL
=============================================================================
