---------------------------- MODULE SingleSignOn ----------------------------
(***************************************************************************)
(* Providers of single sign-on and the logins of one user through them     *)
(* (api/v2/sso.py).  A callback and an LDAP login read their provider,     *)
(* wait for the network, and then act on what they read: job[w] is the     *)
(* provider as it was.  A row that a commit has expired is read again.     *)
(* SQLite gives the number of a deleted last row to the next one.          *)
(***************************************************************************)
EXTENDS AccessBase

CONSTANTS
  SsoKinds,            \* bound: the sets of kinds of provider of one behaviour
  Settings,            \* bound: what an administrator saves of a provider
  MaxStates,           \* bound: states of OAuth2 handed out
  MaxProviderId        \* bound: provider numbers

ASSUME SsoAssumption ==
  /\ MaxStates \in Nat /\ MaxProviderId \in Nat
  /\ \A K \in SsoKinds : K \subseteq {"oauth2", "saml", "ldap"}
  /\ Settings \subseteq [enabled : BOOLEAN, create : BOOLEAN, update : BOOLEAN, role : {"viewer", "operator", "admin"}]

VARIABLES
  kinds,               \* the kinds of provider of this behaviour
  providers,           \* SSOProvider rows
  sealed,              \* key_encryption.is_enabled
  member,              \* the User row: [there, role, failed, locked]
  rowOf,               \* rowOf[subject]: the SSOSession row
  asked,               \* states handed out; the session of the browser holds the last
  job,                 \* job[w]: the login that waits for the network
  guesses              \* wrong passwords sent to the directory since the last clearing

ssoVars == <<kinds, providers, sealed, member, rowOf, asked, job, guesses>>

Subjects == {"name", "dn"}
SubjectOf(k) == IF k = "ldap" THEN "dn" ELSE "name"
Idle == [kind |-> "idle"]
NoRow == [provider |-> 0, late |-> FALSE]

SsoInit ==
  /\ kinds \in SsoKinds
  /\ providers = {} /\ asked = 0 /\ guesses = 0
  /\ sealed \in BOOLEAN
  /\ \E e \in BOOLEAN : member = [there |-> e, role |-> "viewer", failed |-> 0, locked |-> 0]
  /\ rowOf = [s \in Subjects |-> NoRow]
  /\ job = [w \in Worker |-> Idle]

(* Type correctness; provider numbers are unique. *)
SsoTypeOK ==
  /\ \A p \in providers : p.id \in 1..MaxProviderId /\ p.kind \in kinds
  /\ \A p, q \in providers : p.id = q.id => p = q
  /\ member.there \in BOOLEAN /\ member.role \in {"viewer", "operator", "admin"}
  /\ member.locked \in 0..Horizon + LockoutTime
  /\ asked \in 0..MaxStates
  /\ \A w \in Worker : job[w].kind \in kinds \cup {"idle"}

-----------------------------------------------------------------------------
(* Providers. *)

NewId == IF providers = {} THEN 1 ELSE 1 + CHOOSE i \in {p.id : p \in providers} :
                                             \A p \in providers : p.id <= i
Undefaulted(P) == {[p EXCEPT !.default = FALSE] : p \in P}
Saved(k, i, d, x) ==
  [kind |-> k, id |-> i, default |-> d, enabled |-> x.enabled, create |-> x.create,
   update |-> x.update, role |-> x.role]

(* Mutant: the other providers keep the mark. *)
OthersKept(d, P) == P

(* A new default takes the mark from the others. *)
Others(d, P) == IF d THEN Undefaulted(P) ELSE P

(* With key encryption enabled a bind password cannot be stored:           *)
(* encrypt_string is no method of KeyEncryption, and the request fails.    *)
Storable(k, secret) == ~(k = "ldap" /\ sealed /\ secret)

create_provider(k, d, x, secret) ==
  /\ \A p \in providers : p.kind # k
  /\ Storable(k, secret) /\ NewId <= MaxProviderId
  /\ providers' = Others(d, providers) \cup {Saved(k, NewId, d, x)}
  /\ UNCHANGED <<kinds, sealed, member, rowOf, asked, job, guesses>>

update_provider(p, d, x, secret) ==
  /\ Storable(p.kind, secret)
  /\ providers' = Others(d, providers \ {p}) \cup {Saved(p.kind, p.id, d, x)}
  /\ UNCHANGED <<kinds, sealed, member, rowOf, asked, job, guesses>>

toggle_provider(p) ==
  /\ providers' = (providers \ {p}) \cup {[p EXCEPT !.enabled = ~@]}
  /\ UNCHANGED <<kinds, sealed, member, rowOf, asked, job, guesses>>

(* Mutant: the rows of the provider stay. *)
RowsLeft(p) == UNCHANGED rowOf

RowsDeleted(p) == rowOf' = [s \in Subjects |-> IF rowOf[s].provider = p.id THEN NoRow ELSE rowOf[s]]

delete_provider(p) ==
  /\ RowsDeleted(p)
  /\ providers' = providers \ {p}
  /\ UNCHANGED <<kinds, sealed, member, asked, job, guesses>>

-----------------------------------------------------------------------------
(* The end of every login: the account, the SSOSession row, the session.   *)

(* What the login keeps of its provider. *)
Read(p) == [kind |-> p.kind, id |-> p.id, create |-> p.create, update |-> p.update, role |-> p.role]

Gone(p) == \A q \in providers : q.id # p.id

(* _resolve_role on the settings that were read before the wait. *)
_resolve_role(p) == p.role

_get_or_create_sso_user(p, m) ==
  IF m.there THEN (IF p.update THEN [m EXCEPT !.role = _resolve_role(p)] ELSE m)
             ELSE [there |-> TRUE, role |-> _resolve_role(p), failed |-> 0, locked |-> 0]
Refused(p) == ~member.there /\ ~p.create
Commits(p) == ~member.there \/ p.update

(* A commit has expired the provider, and the number of one that is gone   *)
(* cannot be read again: the login ends with an error, the account stays   *)
(* changed.  Without a commit the row is written with the old number.      *)
RowWritten(p) ==
  LET s == SubjectOf(p.kind)
  IN  \/ rowOf[s] # NoRow /\ UNCHANGED rowOf
      \/ rowOf[s] = NoRow /\ Gone(p) /\ Commits(p) /\ UNCHANGED rowOf
      \/ /\ rowOf[s] = NoRow /\ (Gone(p) => ~Commits(p))
         /\ rowOf' = [rowOf EXCEPT ![s] = [provider |-> p.id, late |-> Gone(p)]]

SignedOn(p) ==
  /\ ~Refused(p)
  /\ member' = _get_or_create_sso_user(p, member)
  /\ RowWritten(p)
  /\ UNCHANGED <<kinds, providers, sealed, asked, guesses>>

-----------------------------------------------------------------------------
(* OAuth2 and SAML. *)

initiate_sso_login ==
  /\ \E p \in providers : p.enabled /\ p.kind = "oauth2"
  /\ asked < MaxStates /\ asked' = asked + 1
  /\ UNCHANGED <<kinds, providers, sealed, member, rowOf, job, guesses>>

(* The state is that of the session and stays there. *)
sso_callback_oauth2(w, p) ==
  /\ job[w] = Idle /\ p.kind = "oauth2" /\ p.enabled /\ asked > 0
  /\ job' = [job EXCEPT ![w] = Read(p)]
  /\ UNCHANGED <<kinds, providers, sealed, member, rowOf, asked, guesses>>

(* The token and the user's data arrive, or one of the two is refused. *)
oauth2_answer(w) ==
  /\ job[w].kind = "oauth2"
  /\ job' = [job EXCEPT ![w] = Idle]
  /\ SignedOn(job[w]) \/ UNCHANGED <<kinds, providers, sealed, member, rowOf, asked, guesses>>

(* The assertion is in the request: no wait. *)
sso_callback_saml(p) ==
  /\ p.kind = "saml" /\ p.enabled
  /\ SignedOn(Read(p))
  /\ UNCHANGED job

-----------------------------------------------------------------------------
(* LDAP, with a lockout on the row of the account. *)

LdapLocked == member.locked # 0 /\ clock < member.locked

_check_ldap_lockout(m) ==
  IF m.locked # 0 /\ clock >= m.locked THEN [m EXCEPT !.locked = 0, !.failed = 0] ELSE m

(* Mutant: the failures of an account that was unlocked are forgotten. *)
_record_ldap_failed_attemptOnce(m) == [m EXCEPT !.failed = 1]

_record_ldap_failed_attempt(m) ==
  IF ~m.there THEN m
  ELSE [m EXCEPT !.failed = @ + 1,
                 !.locked = IF m.failed + 1 >= MaxAttempts THEN clock + LockoutTime ELSE @]

_clear_ldap_failed_attempts(m) == [m EXCEPT !.failed = 0, !.locked = 0]

ldap_login(w, p) ==
  /\ job[w] = Idle /\ p.kind = "ldap" /\ p.enabled /\ ~LdapLocked
  /\ member' = _check_ldap_lockout(member)
  /\ guesses' = IF _check_ldap_lockout(member) # member THEN 0 ELSE guesses
  /\ job' = [job EXCEPT ![w] = Read(p)]
  /\ UNCHANGED <<kinds, providers, sealed, rowOf, asked>>

(* A wrong password, a directory out of reach and a bind password that     *)
(* cannot be decrypted end in the same count.                              *)
ldap_refused(w) ==
  /\ job[w].kind = "ldap" /\ member.failed < MaxAttempts + Cardinality(Worker)
  /\ job' = [job EXCEPT ![w] = Idle]
  /\ member' = _record_ldap_failed_attempt(member)
  /\ guesses' = IF member.there THEN guesses + 1 ELSE guesses
  /\ UNCHANGED <<kinds, providers, sealed, rowOf, asked>>

ldap_accepted(w) ==
  LET p == job[w]
  IN  /\ p.kind = "ldap" /\ ~sealed
      /\ job' = [job EXCEPT ![w] = Idle]
      /\ \/ Refused(p) /\ UNCHANGED <<member, rowOf, guesses>>
         \/ /\ ~Refused(p)
            /\ member' = _clear_ldap_failed_attempts(_get_or_create_sso_user(p, member))
            /\ guesses' = 0
            /\ RowWritten(p)
      /\ UNCHANGED <<kinds, providers, sealed, asked>>

-----------------------------------------------------------------------------
SsoStep ==
  \/ \E k \in kinds, d, secret \in BOOLEAN, x \in Settings : create_provider(k, d, x, secret)
  \/ \E p \in providers :
       \/ \E d, secret \in BOOLEAN, x \in Settings : update_provider(p, d, x, secret)
       \/ toggle_provider(p) \/ delete_provider(p) \/ sso_callback_saml(p)
       \/ \E w \in Worker : sso_callback_oauth2(w, p) \/ ldap_login(w, p)
  \/ initiate_sso_login
  \/ \E w \in Worker : oauth2_answer(w) \/ ldap_refused(w) \/ ldap_accepted(w)

SsoNext ==
  \/ SsoStep /\ UNCHANGED clock
  \/ Tick /\ UNCHANGED ssoVars

SsoSpec == clock = 1 /\ SsoInit /\ [][SsoNext]_<<clock, ssoVars>>

-----------------------------------------------------------------------------
(* There is one provider of each kind, and one of them at most is the      *)
(* default, whatever is created, changed and deleted in between.           *)
ProvidersDistinct ==
  \A p, q \in providers : p # q => p.kind # q.kind /\ ~(p.default /\ q.default)

(* A session row refers to a provider that exists.  The one exception is   *)
(* written by a login whose provider was deleted while it was waiting.     *)
RowsOfProviders ==
  \A s \in Subjects : rowOf[s] # NoRow /\ ~rowOf[s].late =>
                        \E p \in providers : p.id = rowOf[s].provider

(* The directory is asked about at most MaxAttempts wrong passwords before *)
(* the account is locked, and one more for each further login that had     *)
(* passed the check of the lock while the others were waiting.             *)
DirectoryGuesses == guesses <= MaxAttempts + Cardinality(Worker) - 1
====
