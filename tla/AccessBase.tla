----------------------------- MODULE AccessBase -----------------------------
(***************************************************************************)
(* What the modules of the access run share: the greenlets that serve      *)
(* requests, the clock and the largest number of bad guesses (five in      *)
(* api/v2/auth.py, api/v2/auth_methods.py and api/v2/sso.py).              *)
(***************************************************************************)
EXTENDS Naturals, FiniteSets

CONSTANTS
  Worker,              \* greenlets serving requests at the same time
  MaxAttempts,         \* MAX_FAILED_ATTEMPTS, _MAX_2FA_ATTEMPTS, _MAX_LDAP_ATTEMPTS
  LockoutTime,         \* fifteen minutes
  Horizon              \* bound: the last value of the clock

ASSUME AccessAssumption ==
  /\ IsFiniteSet(Worker)
  /\ MaxAttempts \in Nat \ {0} /\ LockoutTime \in Nat /\ Horizon \in Nat \ {0}

VARIABLE clock         \* the time of day; 0 stands for "no time" in a row

Tick == clock < Horizon /\ clock' = clock + 1

(* An entry of the trackers kept in memory, and one that is not there. *)
NoEntry == [count |-> 0, until |-> 0]

(* _check_2fa_lockout: the lock still runs. *)
EntryLocked(e) == e.until # 0 /\ clock < e.until

(* _check_2fa_lockout: a lock that has run out drops the entry. *)
EntryChecked(e) == IF e.until # 0 /\ clock >= e.until THEN NoEntry ELSE e

(* _record_2fa_failure. *)
EntryFailed(e) ==
  [count |-> e.count + 1,
   until |-> IF e.count + 1 >= MaxAttempts THEN clock + LockoutTime ELSE e.until]
====
