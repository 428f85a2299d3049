------------------------------ MODULE MCAccess ------------------------------
(***************************************************************************)
(* The five parts of access share the clock, the greenlets and the limits  *)
(* and no rows: a behaviour is one of one part, chosen at the start, and   *)
(* the variables of the others keep their first values.                    *)
(***************************************************************************)
EXTENDS Login, SingleSignOn, Users, ClientCertificates, RateLimiter, TLC

CONSTANTS w1, w2, u1, u2

VARIABLE part

accessVars == <<clock, part, loginVars, ssoVars, userVars, certVars, rateVars>>

MCMixes == {{"login", "password"}, {"password", "code"}, {"login", "key"}}
MCSsoKinds == {{"ldap"}, {"saml", "oauth2"}}
MCSettings ==
  {[enabled |-> TRUE, create |-> TRUE, update |-> TRUE, role |-> "admin"],
   [enabled |-> TRUE, create |-> FALSE, update |-> FALSE, role |-> "operator"]}
MCLimits == {[rpm |-> 2, burst |-> 0], [rpm |-> 2, burst |-> 1], [rpm |-> 1, burst |-> 2]}
MCDefaultLimit == [rpm |-> 3, burst |-> 2]

(* The first values of the parts that a behaviour does not take. *)
Quiet(p) == part # p
Still(p, first) == Quiet(p) => first

AccessInit ==
  /\ clock = 1
  /\ part \in {"login", "sso", "users", "cert", "rate"}
  /\ LoginInit /\ Still("login", ways = {"login", "key"})
  /\ SsoInit /\ Still("sso", ~sealed /\ member.there /\ kinds = {"ldap"})
  /\ CertInit /\ Still("cert", store = {})
  /\ UsersInit /\ RateInit

AccessNext ==
  /\ UNCHANGED part
  /\ \/ part = "login" /\ LoginNext /\ UNCHANGED <<ssoVars, userVars, certVars, rateVars>>
     \/ part = "sso" /\ SsoNext /\ UNCHANGED <<loginVars, userVars, certVars, rateVars>>
     \/ part = "users" /\ UsersNext /\ UNCHANGED <<clock, loginVars, ssoVars, certVars, rateVars>>
     \/ part = "cert" /\ CertNext /\ UNCHANGED <<clock, loginVars, ssoVars, userVars, rateVars>>
     \/ part = "rate" /\ RateNext /\ UNCHANGED <<clock, loginVars, ssoVars, userVars, certVars>>

AccessSpec == AccessInit /\ [][AccessNext]_accessVars

----------------------------------------------------------------------------
(* The rows of accounts, providers, users and certificates have their types. *)
AccessTypeOK == LoginTypeOK /\ SsoTypeOK /\ UsersTypeOK /\ CertTypeOK

(* Whatever way a password, a code, a key or a directory is guessed at,    *)
(* and however the attempts overlap, the lock comes after the attempts it  *)
(* allows (record_failed_attempt, _record_2fa_failure,                     *)
(* _record_ldap_failed_attempt).                                           *)
GuessesBounded == PasswordGuesses /\ DirectoryGuesses

(* What administration leaves in the tables: references that resolve, one  *)
(* provider of a kind and one default, keys within their limit.            *)
TablesConsistent == ReferencesResolve /\ RowsOfProviders /\ ProvidersDistinct /\ KeysBounded

(* Access is kept by those who should have it, and by nobody else:         *)
(* sessions end, an API key that was revoked stays revoked, an             *)
(* administrator is left, and a certificate logs in the user of an enabled *)
(* enrolment.                                                              *)
AccessKept == SessionsFresh /\ RevokedForGood /\ AdminLeft /\ CertificateOfUser

(* Workers differ in nothing but their name. *)
AccessSymmetry == Permutations({w1, w2})
====
