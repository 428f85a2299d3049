------------------------------- MODULE Login --------------------------------
(***************************************************************************)
(* One account and the ways into it: passwords with lockout, the second    *)
(* factor, security keys, and the sessions they open (api/v2/auth.py,      *)
(* api/v2/auth_methods.py, auth/unified.py, services/webauthn_service.py,  *)
(* api/v2/webauthn.py, the password and 2FA parts of api/v2/account.py and *)
(* api/v2/users.py).                                                       *)
(*                                                                         *)
(* forgot_password always answers 503: _is_email_configured calls          *)
(* SystemConfig.get, which that class does not have, and takes the error   *)
(* for "not configured".  Nothing else sets a reset token, so              *)
(* reset_password never finds one, and neither changes any state.          *)
(*                                                                         *)
(* Requests that only use the database run to their end; the one that      *)
(* waits for the syslog server between the check of a security key and     *)
(* the count of its failure has two steps (checking[w]).                   *)
(***************************************************************************)
EXTENDS AccessBase

CONSTANTS
  Session,             \* browser sessions
  Challenge,           \* bound: WebAuthn challenges, 1..n
  ChallengeLife, SessionTimeout, SessionMaxLifetime,
  MaxCounter,          \* bound: failed_logins
  Mixes                \* bound: the ways in that are taken together in one behaviour

ASSUME LoginAssumption ==
  /\ Challenge \subseteq Nat \ {0} /\ MaxCounter \in Nat
  /\ ChallengeLife \in Nat /\ SessionTimeout \in Nat /\ SessionMaxLifetime \in Nat

VARIABLES
  ways,                \* the ways in that this behaviour takes, one of Mixes
  acct,                \* the row of the account
  sess,                \* sess[s]: the server-side session
  codes, keys,         \* _2fa_failed_attempts, _WEBAUTHN_FAILED of the account
  challenge,           \* challenge[c]: 0 none, else expires_at
  checking,            \* checking[w]: a refused key whose failure is not counted yet
  tries,               \* wrong answers given since the counter was last cleared
  opened               \* how often each challenge has been of use

loginVars == <<ways, acct, sess, codes, keys, challenge, checking, tries, opened>>

NoSession == [user |-> "none", login |-> 0, last |-> 0, born |-> 0, totp |-> FALSE, factor |-> FALSE]

LoginInit ==
  /\ ways \in Mixes
  /\ acct = [active |-> TRUE, failed |-> 0, locked |-> 0, secret |-> FALSE, totp |-> FALSE,
             key |-> "none", made |-> 0]
  /\ sess = [s \in Session |-> NoSession]
  /\ codes = NoEntry /\ keys = NoEntry
  /\ challenge = [c \in Challenge |-> 0]
  /\ checking = [w \in Worker |-> FALSE]
  /\ tries = [password |-> 0, code |-> 0, key |-> 0]
  /\ opened = [c \in Challenge |-> 0]

(* Type correctness of the account, its sessions and the trackers. *)
LoginTypeOK ==
  /\ acct.active \in BOOLEAN /\ acct.totp \in BOOLEAN /\ acct.secret \in BOOLEAN
  /\ acct.totp => acct.secret
  /\ acct.failed \in 0..MaxCounter /\ acct.locked \in 0..Horizon + LockoutTime
  /\ acct.key \in {"none", "enabled", "disabled"}
  /\ \A s \in Session : sess[s].user \in {"none", "pending", "full"}
  /\ checking \in [Worker -> BOOLEAN]

(* A session as a login leaves it.  totp: the account had a second factor  *)
(* when the password was taken; factor: a code has been taken.             *)
Opened(timed) ==
  [user |-> "full", login |-> IF timed THEN clock ELSE 0, last |-> IF timed THEN clock ELSE 0,
   born |-> clock, totp |-> FALSE, factor |-> FALSE]

SetSession(s, r) == sess' = [sess EXCEPT ![s] = r]

-----------------------------------------------------------------------------
(* login: the older of the two password logins. *)

AccountLocked == acct.locked # 0 /\ clock < acct.locked

(* _check_account_lockout: a lock that has run out is cleared. *)
LockChecked(a) == IF a.locked # 0 /\ clock >= a.locked
                  THEN [a EXCEPT !.locked = 0, !.failed = 0] ELSE a
TriesChecked == IF acct.locked # 0 /\ clock >= acct.locked THEN 0 ELSE tries.password

(* Mutant: the account is locked one wrong password later. *)
RecordFailedLate(a) ==
  [a EXCEPT !.failed = @ + 1,
            !.locked = IF a.failed + 1 > MaxAttempts THEN clock + LockoutTime ELSE @]

(* _record_failed_attempt: counter and lock are committed together; the    *)
(* alert is never mailed (on_security_alert has no argument event_type).   *)
RecordFailed(a) ==
  [a EXCEPT !.failed = @ + 1,
            !.locked = IF a.failed + 1 >= MaxAttempts THEN clock + LockoutTime ELSE @]

login_fails ==
  /\ ~AccountLocked /\ LockChecked(acct).failed < MaxCounter
  /\ acct' = RecordFailed(LockChecked(acct))
  /\ tries' = [tries EXCEPT !.password = TriesChecked + 1]
  /\ UNCHANGED <<sess, codes, keys, challenge, checking, opened>>

login(s) ==
  /\ ~AccountLocked /\ acct.active
  /\ acct' = [LockChecked(acct) EXCEPT !.failed = 0, !.locked = 0]
  /\ tries' = [tries EXCEPT !.password = 0]
  /\ SetSession(s, Opened(TRUE))
  /\ UNCHANGED <<codes, keys, challenge, checking, opened>>

-----------------------------------------------------------------------------
(* login_password, and the code that completes it. *)

login_password_fails ==
  /\ acct.active /\ acct.failed < MaxCounter
  /\ acct' = [acct EXCEPT !.failed = @ + 1]
  /\ UNCHANGED <<sess, codes, keys, challenge, checking, tries, opened>>

(* Mutant: the session is the user's before the code has been given. *)
PendingWithUser == [NoSession EXCEPT !.user = "full", !.born = clock, !.totp = TRUE]

Pending == [NoSession EXCEPT !.user = "pending", !.born = clock, !.totp = TRUE]

login_password(s) ==
  /\ acct.active
  /\ acct' = [acct EXCEPT !.failed = 0]
  /\ tries' = [tries EXCEPT !.password = 0]
  /\ SetSession(s, IF acct.totp THEN Pending ELSE Opened(FALSE))
  /\ UNCHANGED <<codes, keys, challenge, checking, opened>>

(* login_2fa.  The recovery codes are stored joined by commas and read as  *)
(* JSON, so none is ever accepted; the failure is counted without a wait.  *)
login_2fa(s) ==
  /\ sess[s].user = "pending" /\ ~EntryLocked(codes)
  /\ acct.active /\ acct.secret
  /\ codes' = NoEntry
  /\ tries' = [tries EXCEPT !.code = 0]
  /\ SetSession(s, [Opened(FALSE) EXCEPT !.totp = TRUE, !.factor = TRUE, !.born = sess[s].born])
  /\ UNCHANGED <<acct, keys, challenge, checking, opened>>

CodeRefused == codes' = EntryFailed(EntryChecked(codes))

login_2fa_fails(s) ==
  /\ sess[s].user = "pending" /\ ~EntryLocked(codes)
  /\ acct.active /\ acct.secret
  /\ CodeRefused
  /\ tries' = [tries EXCEPT !.code = IF EntryChecked(codes) = NoEntry THEN 1 ELSE @ + 1]
  /\ UNCHANGED <<acct, sess, keys, challenge, checking, opened>>

(* An account that is no longer active ends the pending login. *)
login_2fa_inactive(s) ==
  /\ sess[s].user = "pending" /\ ~EntryLocked(codes) /\ ~acct.active
  /\ codes' = EntryChecked(codes)
  /\ tries' = [tries EXCEPT !.code = IF EntryChecked(codes) = NoEntry THEN 0 ELSE @]
  /\ SetSession(s, NoSession)
  /\ UNCHANGED <<acct, keys, challenge, checking, opened>>

-----------------------------------------------------------------------------
(* Security keys.  A new challenge drops those that have run out. *)

Fresh == [c \in Challenge |-> IF challenge[c] < clock THEN 0 ELSE challenge[c]]

webauthn_start ==
  /\ acct.active /\ acct.key = "enabled" /\ acct.made + 1 \in Challenge
  /\ acct' = [acct EXCEPT !.made = @ + 1]
  /\ challenge' = [Fresh EXCEPT ![acct.made + 1] = clock + ChallengeLife]
  /\ UNCHANGED <<sess, codes, keys, checking, tries, opened>>

ChallengeValid(c) == challenge[c] # 0 /\ clock < challenge[c]

(* Mutant: the challenge stays in the table. *)
ChallengeKept(c) == UNCHANGED challenge

ChallengeTaken(c) == challenge' = [challenge EXCEPT ![c] = 0]

(* verify_authentication and the login it ends in are one transaction. *)
webauthn_verify(s, c) ==
  /\ ~EntryLocked(keys) /\ acct.active /\ acct.key = "enabled" /\ ChallengeValid(c)
  /\ ChallengeTaken(c)
  /\ keys' = NoEntry
  /\ acct' = [acct EXCEPT !.failed = 0]
  /\ tries' = [tries EXCEPT !.key = 0, !.password = 0]
  /\ SetSession(s, Opened(FALSE))
  /\ opened' = [opened EXCEPT ![c] = @ + 1]
  /\ UNCHANGED <<codes, checking>>

(* A refused key: its failure is logged first and counted afterwards. *)
webauthn_refused(w) ==
  /\ ~checking[w] /\ ~EntryLocked(keys) /\ acct.active
  /\ keys' = EntryChecked(keys)
  /\ checking' = [checking EXCEPT ![w] = TRUE]
  /\ tries' = [tries EXCEPT !.key = IF EntryChecked(keys) = NoEntry /\ keys # NoEntry THEN 1 ELSE @ + 1]
  /\ UNCHANGED <<acct, sess, codes, challenge, opened>>

webauthn_counted(w) ==
  /\ checking[w]
  /\ checking' = [checking EXCEPT ![w] = FALSE]
  /\ keys' = EntryFailed(keys)
  /\ UNCHANGED <<acct, sess, codes, challenge, tries, opened>>

-----------------------------------------------------------------------------
(* verify_session: what every authenticated request goes through. *)

TooOld(r) == r.login # 0 /\ clock > r.login + SessionMaxLifetime

(* Mutant: the last use is compared with the wrong limit. *)
IdleTooLongByLifetime(r) == r.last # 0 /\ clock > r.last + SessionTimeout + SessionMaxLifetime

IdleTooLong(r) == r.last # 0 /\ clock > r.last + SessionTimeout

Accepted(s) == sess[s].user = "full" /\ acct.active /\ ~TooOld(sess[s]) /\ ~IdleTooLong(sess[s])

verify_session(s) ==
  /\ sess[s].user = "full" /\ acct.active
  /\ SetSession(s, IF Accepted(s) THEN [sess[s] EXCEPT !.last = clock] ELSE NoSession)
  /\ UNCHANGED <<acct, codes, keys, challenge, checking, tries, opened>>

logout(s) ==
  /\ Accepted(s)
  /\ SetSession(s, NoSession)
  /\ UNCHANGED <<acct, codes, keys, challenge, checking, tries, opened>>

(* SessionCleanupTask: files not written for longer than the lifetime. *)
session_cleanup ==
  /\ \E s \in Session : sess[s] # NoSession
  /\ sess' = [s \in Session |->
                IF sess[s].last + SessionMaxLifetime < clock /\ sess[s].born + SessionMaxLifetime < clock
                THEN NoSession ELSE sess[s]]
  /\ UNCHANGED <<acct, codes, keys, challenge, checking, tries, opened>>

-----------------------------------------------------------------------------
(* What the owner changes through an accepted session. *)

enable_2fa(s) ==
  /\ Accepted(s)
  /\ acct' = [acct EXCEPT !.secret = TRUE]
  /\ UNCHANGED <<sess, codes, keys, challenge, checking, tries, opened>>

confirm_2fa(s) ==
  /\ Accepted(s) /\ acct.secret
  /\ acct' = [acct EXCEPT !.totp = TRUE]
  /\ UNCHANGED <<sess, codes, keys, challenge, checking, tries, opened>>

(* Mutant: the secret goes, the second factor stays on. *)
disable_2faSecretOnly(s) ==
  /\ Accepted(s) /\ acct.secret
  /\ acct' = [acct EXCEPT !.secret = FALSE]
  /\ UNCHANGED <<sess, codes, keys, challenge, checking, tries, opened>>

disable_2fa(s) ==
  /\ Accepted(s) /\ acct.secret
  /\ acct' = [acct EXCEPT !.totp = FALSE, !.secret = FALSE]
  /\ UNCHANGED <<sess, codes, keys, challenge, checking, tries, opened>>

SetKey(s, k) ==
  /\ Accepted(s) /\ acct' = [acct EXCEPT !.key = k]
  /\ UNCHANGED <<sess, codes, keys, challenge, checking, tries, opened>>

verify_registration(s) == acct.key = "none" /\ SetKey(s, "enabled")

toggle_credential(s) ==
  acct.key # "none" /\ SetKey(s, IF acct.key = "enabled" THEN "disabled" ELSE "enabled")

delete_credential(s) == acct.key # "none" /\ SetKey(s, "none")

(* toggle_user_status by an administrator. *)
toggle_account ==
  /\ acct' = [acct EXCEPT !.active = ~@]
  /\ UNCHANGED <<sess, codes, keys, challenge, checking, tries, opened>>

(* A restart of the server forgets the trackers and the requests at work. *)
Restart ==
  /\ codes' = NoEntry /\ keys' = NoEntry
  /\ checking' = [w \in Worker |-> FALSE]
  /\ tries' = [tries EXCEPT !.code = 0, !.key = 0]
  /\ UNCHANGED <<acct, sess, challenge, opened>>

Takes(way) == way \in ways

SessionStep(s) ==
  \/ Takes("login") /\ login(s)
  \/ Takes("password") /\ login_password(s)
  \/ Takes("code") /\ \/ login_2fa(s) \/ login_2fa_fails(s) \/ login_2fa_inactive(s)
                      \/ enable_2fa(s) \/ confirm_2fa(s) \/ disable_2fa(s)
  \/ Takes("key") /\ \/ verify_registration(s) \/ toggle_credential(s) \/ delete_credential(s)
                     \/ \E c \in Challenge : webauthn_verify(s, c)
  \/ verify_session(s) \/ logout(s)

LoginStep ==
  \/ Takes("login") /\ login_fails
  \/ Takes("password") /\ login_password_fails
  \/ Takes("key") /\ \/ webauthn_start
                     \/ \E w \in Worker : webauthn_refused(w) \/ webauthn_counted(w)
  \/ session_cleanup \/ toggle_account \/ Restart
  \/ \E s \in Session : SessionStep(s)

LoginNext ==
  \/ LoginStep /\ UNCHANGED <<clock, ways>>
  \/ Tick /\ UNCHANGED loginVars

LoginSpec == clock = 1 /\ LoginInit /\ [][LoginNext]_<<clock, loginVars>>

-----------------------------------------------------------------------------
(* However the logins interleave, and whichever of the two password logins *)
(* they go through, the older one answers at most MaxAttempts wrong        *)
(* passwords before it locks the account, and a pending login takes at     *)
(* most MaxAttempts wrong codes.  A refused key is counted after a wait,   *)
(* so as many more as there are other workers may pass the check.          *)
PasswordGuesses ==
  /\ tries.password <= MaxAttempts
  /\ tries.code <= MaxAttempts
  /\ tries.key <= MaxAttempts + Cardinality(Worker) - 1

(* The answer to one WebAuthn challenge opens one session, though another  *)
(* request may present it again before the challenge runs out.             *)
ChallengeOnce == \A c \in Challenge : opened[c] <= 1

(* A session opened by login_password for an account with a confirmed      *)
(* second factor is nobody's until a code has been taken, whatever happens *)
(* to the account or to its second factor in between.                      *)
SecondFactorTaken == \A s \in Session : sess[s].user = "full" /\ sess[s].totp => sess[s].factor

(* Each way in takes its own proof, and takes it once: the answer to a     *)
(* challenge, and the code of the second factor.                           *)
ProofsTaken == ChallengeOnce /\ SecondFactorTaken

(* A request is accepted for a session only within the timeout of the last *)
(* accepted one, and, for a session that holds the time of its login, only *)
(* within the largest lifetime of that login.                              *)
SessionsFresh ==
  [][\A s \in Session :
       /\ sess[s].user = "full" /\ sess'[s].user = "full"
       /\ sess'[s].born = sess[s].born /\ sess'[s].last # sess[s].last
       => /\ sess[s].last # 0 => clock <= sess[s].last + SessionTimeout
          /\ sess[s].login # 0 => clock <= sess[s].born + SessionMaxLifetime]_loginVars
====
