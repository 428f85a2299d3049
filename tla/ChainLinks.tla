----------------------------- MODULE ChainLinks -----------------------------
(***************************************************************************)
(* Imported certificates and the links from a row to the CA that issued    *)
(* it: the imports of single files (cas.py, certificates.py), of bundles   *)
(* (services/smart_import) and from OPNsense (import_opnsense.py), and the *)
(* hourly repair (ski_aki_backfill.py) that fills in key identifiers,      *)
(* links orphans and merges CAs with one identifier.                       *)
(*                                                                         *)
(* A table maps ids to rows. A key pair is a number and is the identifier   *)
(* (SKI) of the certificates made for it; 0 stands for NULL. A certificate *)
(* is its own serial number.                                               *)
(***************************************************************************)
EXTENDS Integers, Sequences, FiniteSets, SequencesExt

CONSTANTS Shape,    (* certificate -> subject, issuer, its pair, the signer's pair, ca *)
          Uuid,     (* certificate -> its reference in OPNsense *)
          Files,    (* what may be imported as a bundle: sequences of objects *)
          MaxCas, MaxLeaves,   (* rows of the tables *)
          MaxImports           (* imports and deletions *)

VARIABLES cas, leaves, requests, refs, imports, repaired, rekeyed

linkVars == <<cas, leaves, requests, refs, imports, repaired, rekeyed>>

Certs == DOMAIN Shape
Pairs == {Shape[c].pair : c \in Certs} \cup {Shape[c].signer : c \in Certs}
Subjects == {Shape[c].subject : c \in Certs} \cup {Shape[c].issuer : c \in Certs}
SelfSigned(c) == Shape[c].subject = Shape[c].issuer
Object == [type : {"cert"}, cert : Certs] \cup [type : {"key", "csr"}, pair : Nat \ {0}]

(* A reference is a number where it is made here (refs is the last one),   *)
(* and never one where it comes from OPNsense.                             *)
ASSUME LinksAssumption ==
  /\ \A c \in Certs : Shape[c].pair \in Nat \ {0} /\ Shape[c].signer \in Nat \ {0} /\ Uuid[c] \notin Nat
  /\ Files \subseteq Seq(Object)

(* The first of some ids, and the reference of its row. *)
FirstOf(ids) == CHOOSE i \in ids : \A h \in ids : i <= h
RefOf(table, ids) == IF ids = {} THEN 0 ELSE table[FirstOf(ids)].ref

(* The rows with an identifier, and with a subject. *)
BySki(table, k) == {i \in DOMAIN table : k # 0 /\ table[i].ski = k}
BySubject(table, n) == {i \in DOMAIN table : Shape[table[i].cert].subject = n}

FreeId(table) == IF DOMAIN table = {} THEN 1 ELSE 1 + CHOOSE i \in DOMAIN table : \A h \in DOMAIN table : h <= i
Inserted(table, row) == [i \in DOMAIN table \cup {FreeId(table)} |-> IF i = FreeId(table) THEN row ELSE table[i]]

LinkInit ==
  /\ cas = <<>> /\ leaves = <<>> /\ requests = {} /\ refs = 0 /\ imports = 0
  /\ repaired = FALSE /\ rekeyed = FALSE

----------------------------------------------------------------------------
(* Files with one certificate. *)

(* A CA of that subject is replaced in place. The form for CAs keeps the   *)
(* identifier of the row, the one for certificates replaces it.            *)
import_ca_file(c, keyed, asCa) ==
  LET old == BySubject(cas, Shape[c].subject)
      Replaced(r) == [r EXCEPT !.cert = c, !.prv = IF keyed THEN Shape[c].pair ELSE @,
                               !.ski = IF asCa THEN @ ELSE Shape[c].pair]
      new == [ref |-> refs + 1, cert |-> c, ski |-> Shape[c].pair, serial |-> FALSE,
              prv |-> IF keyed THEN Shape[c].pair ELSE 0, caref |-> 0]
  IN
  /\ Shape[c].ca
  /\ cas' = IF old = {} THEN Inserted(cas, new) ELSE [cas EXCEPT ![FirstOf(old)] = Replaced(@)]
  /\ refs' = IF old = {} THEN refs + 1 ELSE refs
  /\ rekeyed' = (rekeyed \/ (old # {} /\ Shape[cas[FirstOf(old)].cert].pair # Shape[c].pair))
  /\ repaired' = FALSE
  /\ UNCHANGED <<leaves, requests>>

(* By the authority key identifier and, without a match, by the name. *)
Issuer(table, c) ==
  LET byKey == BySki(table, Shape[c].signer)
  IN RefOf(table, IF byKey # {} THEN byKey ELSE BySubject(table, Shape[c].issuer))

import_certificate_file(c, keyed) ==
  LET old == {i \in BySubject(leaves, Shape[c].subject) : Shape[leaves[i].cert].issuer = Shape[c].issuer}
      new == [cert |-> c, aki |-> Shape[c].signer, serial |-> FALSE, prv |-> IF keyed THEN Shape[c].pair ELSE 0,
              caref |-> Issuer(cas, c), opn |-> FALSE]
      Replaced(r) == [r EXCEPT !.cert = c, !.aki = Shape[c].signer, !.prv = IF keyed THEN Shape[c].pair ELSE @]
  IN
  /\ ~Shape[c].ca
  /\ leaves' = IF old = {} THEN Inserted(leaves, new) ELSE [leaves EXCEPT ![FirstOf(old)] = Replaced(@)]
  /\ repaired' = FALSE
  /\ rekeyed' = (rekeyed \/ (old # {} /\ Shape[leaves[FirstOf(old)].cert].pair # Shape[c].pair))
  /\ UNCHANGED <<cas, requests, refs>>

----------------------------------------------------------------------------
(* Bundles. An object of a file is [type, cert or pair].                   *)

Indices(objs, T) == {i \in DOMAIN objs : objs[i].type = T}
PairOf(o) == IF o.type = "cert" THEN Shape[o.cert].pair ELSE o.pair
Rank(objs, j, T) == Cardinality({i \in Indices(objs, T) : i <= j /\ PairOf(objs[i]) = PairOf(objs[j])})
CountOf(objs, T, k) == Cardinality({i \in Indices(objs, T) : PairOf(objs[i]) = k})

(* Mutated: keys and certificates are paired as they come. *)
match_allByPosition(objs, j) ==
  LET keys == SetToSortSeq(Indices(objs, "key"), <=)
      n == Cardinality({i \in Indices(objs, objs[j].type) : i <= j})
  IN IF n \in DOMAIN keys THEN PairOf(objs[keys[n]]) ELSE 0

(* Every key goes to the first certificate of its pair that has none yet,  *)
(* then to a request: the n-th key of a pair to the n-th certificate.      *)
match_all(objs, j) ==
  LET k == PairOf(objs[j])
      before == IF objs[j].type = "csr" THEN CountOf(objs, "cert", k) ELSE 0
  IN IF before + Rank(objs, j, objs[j].type) <= CountOf(objs, "key", k) THEN k ELSE 0

(* The issuer of cur among the certificates of the file. *)
IssuerInFile(objs, cur, visited) ==
  LET certs == Indices(objs, "cert")
      byKey == {i \in certs : Shape[objs[i].cert].pair = Shape[objs[cur].cert].signer}
      last == CHOOSE i \in byKey : \A h \in byKey : h <= i
      named == {i \in certs \ visited : Shape[objs[i].cert].subject = Shape[objs[cur].cert].issuer}
      pool == IF \E i \in named : Shape[objs[i].cert].ca THEN {i \in named : Shape[objs[i].cert].ca} ELSE named
  IN IF byKey # {} /\ last \notin visited THEN last
     ELSE IF pool # {} THEN CHOOSE i \in pool : \A h \in pool : i <= h
     ELSE 0

_build_chain_for_leaf(objs, leaf) ==
  LET walk[n \in 0..Len(objs)] ==
        IF n = 0 THEN <<leaf>>
        ELSE LET w == walk[n - 1]
                 up == IssuerInFile(objs, Last(w), ToSet(w))
             IN IF up = 0 \/ (n > 1 /\ SelfSigned(objs[Last(w)].cert)) THEN w ELSE Append(w, up)
  IN walk[Len(objs)]

(* How far a CA is from the leaf of the last chain through it; without     *)
(* leaves the intermediates are numbered as they come and a root has 0.    *)
chain_depth(objs, j) ==
  LET certs == Indices(objs, "cert")
      ends == {i \in certs : ~Shape[objs[i].cert].ca}
      through == {i \in ends : j \in ToSet(_build_chain_for_leaf(objs, i))}
      leaf == CHOOSE i \in through : \A h \in through : h <= i
      chain == _build_chain_for_leaf(objs, leaf)
      subs == {i \in certs : Shape[objs[i].cert].ca /\ ~SelfSigned(objs[i].cert)}
  IN IF ends = {} THEN IF j \in subs THEN Cardinality({i \in subs : i <= j}) ELSE 0
     ELSE IF through = {} THEN 0
     ELSE (CHOOSE n \in DOMAIN chain : chain[n] = j) - 1

Depth == [objs \in Files |-> [j \in Indices(objs, "cert") |-> chain_depth(objs, j)]]

(* The CA of a file that is imported as the n-th, if it has that many: the *)
(* deepest come first.                                                     *)
NthCa(objs, n) ==
  LET S == {i \in Indices(objs, "cert") : Shape[objs[i].cert].ca}
  IN {i \in S : \E depth \in {Depth[objs]} :
                  Cardinality({h \in S : depth[h] > depth[i] \/ (depth[h] = depth[i] /\ h < i)}) = n - 1}

Duplicate(table, c) ==
  LET bySki == BySki(table, Shape[c].pair)
  IN IF bySki # {} THEN bySki ELSE {i \in DOMAIN table : table[i].serial /\ table[i].cert = c}

NoMaps == [ski |-> [k \in Pairs |-> 0], subject |-> [n \in Subjects |-> 0]]

(* The link of a CA of the file: what this import knows, then the table.   *)
ParentOf(acc, c) ==
  LET known == acc.maps.ski[Shape[c].signer]
      byKey == BySki(acc.cas, Shape[c].signer)
      named == acc.maps.subject[Shape[c].issuer]
  IN IF SelfSigned(c) THEN 0
     ELSE IF known # 0 THEN known
     ELSE IF byKey # {} THEN RefOf(acc.cas, byKey)
     ELSE IF named # 0 THEN named
     ELSE RefOf(acc.cas, BySubject(acc.cas, Shape[c].issuer))

(* What the import remembers of a CA: its reference by identifier and name. *)
Remembered(maps, c, ref, ski) ==
  [ski |-> [k \in Pairs |-> IF k = ski THEN ref ELSE maps.ski[k]],
   subject |-> [n \in Subjects |-> IF n = Shape[c].subject THEN ref ELSE maps.subject[n]]]

_import_ca(objs, skip, acc, j) ==
  LET c == objs[j].cert
      old == IF skip THEN Duplicate(acc.cas, c) ELSE {}
      kept == acc.cas[FirstOf(old)]
      row == [ref |-> acc.refs + 1, cert |-> c, ski |-> Shape[c].pair, serial |-> TRUE,
              prv |-> match_all(objs, j), caref |-> ParentOf(acc, c)]
  IN IF old = {}
     THEN [cas |-> Inserted(acc.cas, row), refs |-> acc.refs + 1,
           maps |-> Remembered(acc.maps, c, acc.refs + 1, Shape[c].pair)]
     ELSE [acc EXCEPT !.maps = Remembered(@, c, kept.ref, kept.ski)]

(* The table, the references and the maps after n CAs. *)
_import_cas(objs, skip) ==
  LET after[n \in 0..Len(objs)] ==
        IF n = 0 THEN [cas |-> cas, refs |-> refs, maps |-> NoMaps]
        ELSE IF NthCa(objs, n) = {} THEN after[n - 1]
        ELSE _import_ca(objs, skip, after[n - 1], CHOOSE j \in NthCa(objs, n) : TRUE)
  IN after

(* The table after the first n objects. *)
_import_certificates(objs, skip, table) ==
  LET Due(j, rows) == /\ objs[j].type = "cert" /\ ~Shape[objs[j].cert].ca
                      /\ ~(skip /\ \E i \in DOMAIN rows : rows[i].serial /\ rows[i].cert = objs[j].cert)
      Row(j) == [cert |-> objs[j].cert, aki |-> Shape[objs[j].cert].signer, serial |-> TRUE,
                 prv |-> match_all(objs, j), caref |-> Issuer(table, objs[j].cert), opn |-> FALSE]
      after[n \in 0..Len(objs)] ==
        IF n = 0 THEN leaves
        ELSE IF Due(n, after[n - 1]) THEN Inserted(after[n - 1], Row(n))
        ELSE after[n - 1]
  IN after

_import_csrs(objs) == {[pair |-> objs[j].pair, prv |-> match_all(objs, j)] : j \in Indices(objs, "csr")}

(* One transaction. *)
execute(objs, skip) ==
  /\ \E done \in {_import_cas(objs, skip)[Len(objs)]} :
       /\ cas' = done.cas /\ refs' = done.refs
       /\ leaves' = _import_certificates(objs, skip, done.cas)[Len(objs)]
  /\ requests' = requests \cup _import_csrs(objs)
  /\ repaired' = FALSE
  /\ UNCHANGED rekeyed

----------------------------------------------------------------------------
(* OPNsense: rows keep the references they have there, the CA of a         *)
(* certificate is not looked for, and identifiers are left out.            *)

import_opnsense_ca(c) ==
  /\ Shape[c].ca /\ \A i \in DOMAIN cas : cas[i].ref # Uuid[c]
  /\ cas' = Inserted(cas, [ref |-> Uuid[c], cert |-> c, ski |-> 0, serial |-> FALSE,
                           prv |-> Shape[c].pair, caref |-> 0])
  /\ repaired' = FALSE
  /\ UNCHANGED <<leaves, requests, refs, rekeyed>>

import_opnsense_cert(c, issuer) ==
  /\ ~Shape[c].ca /\ \A i \in DOMAIN leaves : ~(leaves[i].opn /\ leaves[i].cert = c)
  /\ Shape[issuer].ca /\ Shape[issuer].pair = Shape[c].signer
  /\ leaves' = Inserted(leaves, [cert |-> c, aki |-> 0, serial |-> TRUE, prv |-> Shape[c].pair,
                                 caref |-> Uuid[issuer], opn |-> TRUE])
  /\ repaired' = FALSE
  /\ UNCHANGED <<cas, requests, refs, rekeyed>>

----------------------------------------------------------------------------
(* The repair: identifiers, orphans, duplicates. *)

Identified(table) == [i \in DOMAIN table |-> [table[i] EXCEPT !.ski = IF @ = 0 THEN Shape[table[i].cert].pair ELSE @]]

(* Mutated: only among the rows that were there before. *)
RechainedEarlier(table) ==
  LET Parent(i) == {p \in DOMAIN table : p < i /\ table[p].ski = Shape[table[i].cert].signer}
  IN [i \in DOMAIN table |->
        [table[i] EXCEPT !.caref = IF @ = 0 /\ Shape[table[i].cert].signer # table[i].ski THEN RefOf(table, Parent(i)) ELSE @]]

Rechained(table) ==
  LET Parent(i) == {p \in DOMAIN table \ {i} : table[p].ski = Shape[table[i].cert].signer}
  IN [i \in DOMAIN table |->
        [table[i] EXCEPT !.caref = IF @ = 0 /\ Shape[table[i].cert].signer # table[i].ski THEN RefOf(table, Parent(i)) ELSE @]]

Linked(table, ids) == {i \in ids : table[i].caref # 0}
Keyed(table, ids) == {i \in ids : table[i].prv # 0}

(* Of the rows with identifier k, the one that stays. *)
Keeper(table, k) ==
  LET same == {i \in DOMAIN table : table[i].ski = k}
      linked == Linked(table, same)
      keyed == Keyed(table, same)
  IN FirstOf(IF linked \cap keyed # {} THEN linked \cap keyed
             ELSE IF linked # {} THEN linked
             ELSE IF keyed # {} THEN keyed ELSE same)

(* Mutated: the row that stays has its own key or none. *)
KeyTakenNot(table, i) == table[i].prv

(* The key of row i, or else the first there is in the rows merged with it. *)
KeyTaken(table, i) ==
  LET keyed == Keyed(table, {h \in DOMAIN table : table[h].ski = table[i].ski})
  IN IF table[i].prv = 0 /\ keyed # {} THEN table[FirstOf(keyed)].prv ELSE table[i].prv

(* Mutated: what named a duplicate is left as it is. *)
MergedNot(table, r) == r

(* The reference that takes the place of r once the duplicates are merged. *)
Merged(table, r) ==
  LET row == {i \in DOMAIN table : table[i].ref = r}
  IN IF row = {} THEN r ELSE table[Keeper(table, table[FirstOf(row)].ski)].ref

Deduplicated(table) ==
  [i \in {i \in DOMAIN table : Keeper(table, table[i].ski) = i} |->
     [table[i] EXCEPT !.prv = KeyTaken(table, i), !.caref = Merged(table, @)]]

RechainedLeaves(table, rows) ==
  [i \in DOMAIN rows |->
     LET aki == IF rows[i].aki = 0 THEN Shape[rows[i].cert].signer ELSE rows[i].aki
         link == IF rows[i].caref = 0 THEN RefOf(table, BySki(table, aki)) ELSE rows[i].caref
     IN [rows[i] EXCEPT !.aki = aki, !.caref = Merged(table, link)]]

Repair(table, rows) ==
  LET linked == Rechained(Identified(table))
  IN [cas |-> Deduplicated(linked), leaves |-> RechainedLeaves(linked, rows)]

backfill_ski_aki ==
  LET done == Repair(cas, leaves)
  IN /\ cas' = done.cas /\ leaves' = done.leaves
     /\ repaired' = TRUE
     /\ UNCHANGED <<requests, refs, rekeyed>>

delete_linked_ca(i) ==
  /\ \A h \in DOMAIN cas : cas[h].caref # cas[i].ref
  /\ \A h \in DOMAIN leaves : leaves[h].caref # cas[i].ref
  /\ cas' = [h \in DOMAIN cas \ {i} |-> cas[h]] /\ repaired' = FALSE
  /\ UNCHANGED <<leaves, requests, refs, rekeyed>>

LinkStep ==
  \/ \E c \in Certs, keyed \in BOOLEAN :
       \/ \E asCa \in BOOLEAN : import_ca_file(c, keyed, asCa)
       \/ import_certificate_file(c, keyed)
  \/ \E c \in Certs :
       \/ import_opnsense_ca(c)
       \/ \E issuer \in Certs : import_opnsense_cert(c, issuer)
  \/ \E objs \in Files, skip \in BOOLEAN : execute(objs, skip)
  \/ \E i \in DOMAIN cas : delete_linked_ca(i)

(* The bounds. *)
Fit == /\ Cardinality(DOMAIN cas') <= MaxCas /\ Cardinality(DOMAIN leaves') <= MaxLeaves
       /\ Cardinality(requests') <= 1 /\ imports < MaxImports

LinkNext ==
  \/ LinkStep /\ Fit /\ imports' = imports + 1
  \/ backfill_ski_aki /\ UNCHANGED imports

LinkSpec == LinkInit /\ [][LinkNext]_linkVars

----------------------------------------------------------------------------
(* The tables hold rows of their type; references are not given twice.     *)
LinkTypeOK ==
  /\ \A i \in DOMAIN cas :
       /\ cas[i].cert \in Certs /\ Shape[cas[i].cert].ca /\ cas[i].ski \in {0} \cup Pairs
       /\ cas[i].prv \in {0} \cup Pairs
       /\ \A h \in DOMAIN cas : h # i => cas[h].ref # cas[i].ref
  /\ \A i \in DOMAIN leaves : leaves[i].cert \in Certs /\ ~Shape[leaves[i].cert].ca /\ leaves[i].aki \in {0} \cup Pairs
  /\ {repaired, rekeyed} \subseteq BOOLEAN

(* The key of a row is the key of its certificate or request               *)
(* (matcher.py:25-94, ski_aki_backfill.py:149-203), as long as no file put  *)
(* a certificate with another key into a row.                              *)
KeyOfRow ==
  /\ ~rekeyed => \A i \in DOMAIN cas : cas[i].prv \in {0, Shape[cas[i].cert].pair}
  /\ ~rekeyed => \A i \in DOMAIN leaves : leaves[i].prv \in {0, Shape[leaves[i].cert].pair}
  /\ \A q \in requests : q.prv \in {0, q.pair}

(* The link of a CA names a row, and so does the link of a certificate     *)
(* that does not come from OPNsense, whatever was merged or deleted        *)
(* (ski_aki_backfill.py:185-203, cas.py:464-478).                          *)
LinksResolve ==
  LET known == {0} \cup {cas[i].ref : i \in DOMAIN cas}
  IN /\ \A i \in DOMAIN cas : cas[i].caref \in known
     /\ \A i \in DOMAIN leaves : leaves[i].caref \in known \/ leaves[i].opn

(* One repair is enough (ski_aki_backfill.py:99-206): no two CAs share an  *)
(* identifier, no row without a link has its issuer in the store, and      *)
(* another repair would change nothing.                                    *)
RepairComplete ==
  repaired =>
    /\ \A i, h \in DOMAIN cas : i # h => cas[i].ski # cas[h].ski
    /\ \A i, h \in DOMAIN cas : cas[i].caref = 0 /\ i # h /\ cas[i].ski # Shape[cas[i].cert].signer
                                  => cas[h].ski # Shape[cas[i].cert].signer
    /\ \A i \in DOMAIN leaves, h \in DOMAIN cas : leaves[i].caref = 0 => cas[h].ski # leaves[i].aki
    /\ Repair(cas, leaves) = [cas |-> cas, leaves |-> leaves]

(* Merging duplicates loses no private key (ski_aki_backfill.py:151-183)   *)
(* as long as no row was re-keyed: the row would keep its old identifier or *)
(* its old key, and be merged with what it no longer is.                   *)
KeysSurviveRepair ==
  [][repaired' /\ ~rekeyed =>
       \A i \in DOMAIN cas : cas[i].prv # 0 => \E h \in DOMAIN cas' : cas'[h].prv = cas[i].prv]_linkVars

====
