---------------------------- MODULE RateLimiter -----------------------------
(***************************************************************************)
(* The rate limiter for the requests of one address that share a bucket    *)
(* (security/rate_limiter.py): paths under one default pattern, each of    *)
(* which may be under a custom limit of its own.  A bucket counts tokens   *)
(* in parts of 1/Window, and its times are ages, so that time may go on    *)
(* for ever: a request is <<age, n>>, the n-th of its second, counted      *)
(* from 0.  check_rate_limit runs under a lock.                            *)
(*                                                                         *)
(* A limit is any pair of numbers: update_rate_limit_config                *)
(* (api/v2/system.py) stores what it is given, a burst that is left out is *)
(* a third of the limit per minute, rounded down, and the defaults come    *)
(* from the environment, some of them divided.                             *)
(***************************************************************************)
EXTENDS Integers, FiniteSets

CONSTANTS
  Path,                \* request paths under the same default pattern
  Limits,              \* bound: pairs [rpm, burst] of a custom limit
  DefaultLimit,        \* the limit of the pattern
  Window,              \* sixty seconds
  MaxIdle              \* bound: seconds a bucket is left alone

ASSUME LimitsAssumption ==
  /\ Window \in Nat \ {0} /\ MaxIdle \in Nat
  /\ \A l \in Limits \cup {DefaultLimit} : l.rpm \in Int /\ l.burst \in Int

(* The limits are finitely many: one of them has the largest burst. *)
ASSUME BurstBounded ==
  \E m \in Limits \cup {DefaultLimit} : \A l \in Limits \cup {DefaultLimit} : l.burst <= m.burst

VARIABLES
  custom,              \* custom[p]: the limit set for p, or the default
  bucket,              \* [tokens, idle, requests, there, sound]: idle is the age of
                       \* last_update; sound: it has met no limit below one
  passed,              \* the requests that were let through
  verdict              \* the last answer: [path, allowed, shut]

rateVars == <<custom, bucket, passed, verdict>>

NoBucket == [tokens |-> 0, idle |-> 0, requests |-> {}, there |-> FALSE, sound |-> TRUE]
None == [path |-> "none", allowed |-> TRUE, shut |-> FALSE]

RateInit ==
  /\ custom = [p \in Path |-> DefaultLimit]
  /\ bucket = NoBucket /\ passed = {} /\ verdict = None

Least(a, b) == IF a <= b THEN a ELSE b
MaxBurst == CHOOSE b \in {l.burst : l \in Limits \cup {DefaultLimit}} :
              \A l \in Limits \cup {DefaultLimit} : l.burst <= b

(* Type correctness: a bucket holds no more than the largest burst. *)
RateTypeOK ==
  /\ bucket.there => bucket.tokens \in Int /\ bucket.tokens <= MaxBurst * Window
  /\ bucket.idle \in Nat
  /\ \A x \in bucket.requests : x[1] \in 0..Window

get_limit(p) == custom[p]

(* A new bucket is full. *)
Found(p) == IF bucket.there THEN bucket
            ELSE [tokens |-> get_limit(p).burst * Window, idle |-> 0, requests |-> {},
                  there |-> TRUE, sound |-> TRUE]

AtLeastOne(l) == l.rpm >= 1 /\ l.burst >= 1

Younger(s) == {x \in s : x[1] < Window}

(* One more request, now. *)
OfNow(s) == {x \in s : x[1] = 0}
Appended(s) == s \cup {<<0, Cardinality(OfNow(s))>>}

Filled(p, b) == Least(get_limit(p).burst * Window, b.tokens + b.idle * get_limit(p).rpm)

(* Mutant: a refused request costs a token too. *)
AfterRefusalPaid(t) == IF t >= Window THEN t - Window ELSE 0

AfterRefusal(t) == t

(* Mutant: one request too many in a window. *)
RoomLate(p, n) == n <= get_limit(p).rpm

Room(p, n) == n < get_limit(p).rpm

check_rate_limit(p) ==
  LET b == Found(p)
      t == Filled(p, b)
      r == Younger(b.requests)
      ok == t >= Window /\ Room(p, Cardinality(r))
      sound == b.sound /\ AtLeastOne(get_limit(p))
  IN  /\ bucket' = [tokens |-> IF ok THEN t - Window ELSE AfterRefusal(t), idle |-> 0,
                    requests |-> IF ok THEN Appended(r) ELSE r, there |-> TRUE,
                    sound |-> sound]
      /\ passed' = IF ok THEN Appended(Younger(passed)) ELSE Younger(passed)
      /\ verdict' = [path |-> p, allowed |-> ok, shut |-> ~ok /\ Younger(passed) = {} /\ sound]
      /\ UNCHANGED custom

(* set_custom_limit and remove_custom_limit. *)
set_custom_limit(p, l) ==
  /\ custom' = [custom EXCEPT ![p] = l]
  /\ verdict' = None
  /\ UNCHANGED <<bucket, passed>>

clear_bucket ==
  /\ bucket' = NoBucket /\ passed' = {} /\ verdict' = None
  /\ UNCHANGED custom

(* Ages grow; older than the window they are all the same. *)
Older(s) == {<<Least(x[1] + 1, Window), x[2]>> : x \in s}

Second ==
  /\ bucket.idle < MaxIdle
  /\ bucket' = [bucket EXCEPT !.idle = IF bucket.there THEN @ + 1 ELSE @, !.requests = Older(@)]
  /\ passed' = Younger(Older(passed))
  /\ verdict' = None
  /\ UNCHANGED custom

RateNext ==
  \/ \E p \in Path : check_rate_limit(p) \/ \E l \in Limits \cup {DefaultLimit} : set_custom_limit(p, l)
  \/ clear_bucket \/ Second

RateSpec == RateInit /\ [][RateNext]_rateVars

-----------------------------------------------------------------------------
(* A path never gets more requests through in a window than its limit per  *)
(* minute, and no more than its burst at one moment, although another path *)
(* with another limit draws on the same bucket.                            *)
WindowBounded ==
  verdict # None /\ verdict.allowed =>
    /\ Cardinality(passed) <= custom[verdict.path].rpm
    /\ Cardinality(OfNow(passed)) <= MaxBurst

(* Nobody is shut out by requests that were refused: as long as a bucket   *)
(* meets limits of at least one, a request is refused only if another of   *)
(* the bucket was let through less than a window ago.                      *)
NeverShutOut == ~verdict.shut

(* The limiter lets through no more than the limit and shuts nobody out,   *)
(* and a bucket holds no more than the largest burst.                      *)
RateLimitKept == RateTypeOK /\ WindowBounded /\ NeverShutOut
====
