------------------------------ MODULE AcmeJws ------------------------------
(***************************************************************************)
(* The nonces of the ACME server and the check in front of its handlers    *)
(* (verify_jws of api/acme/acme_api.py).  A client may send a message      *)
(* again, and the network may deliver a copy at any time: any message with *)
(* a nonce that was given out, or with an invented one, may arrive in any  *)
(* state.  Every answer gives out a new nonce.                             *)
(***************************************************************************)
EXTENDS Naturals

CONSTANTS MaxNonces,  \* how many nonces are given out (a bound)
          NonceLife,  \* one hour, in ticks
          MaxTicks    \* bound of the clock

ASSUME JwsAssumption == MaxNonces \in Nat /\ NonceLife \in Nat

VARIABLES nonces,  \* the acme_nonces table: a function from the tokens in it
          given,   \* how many nonces were given out: the tokens are 1 .. given
          ticks,
          passed   \* history: per token, how many messages passed verify_jws

jwsVars == <<nonces, given, ticks, passed>>

Forms == {"jwk", "kid", "neither"}

JwsInit == nonces = [n \in {} |-> 0] /\ given = 0 /\ ticks = 0 /\ passed = [n \in 1 .. MaxNonces |-> 0]

(* A table with one more nonce. *)
generate_nonce(table) ==
  /\ given < MaxNonces /\ given' = given + 1
  /\ nonces' = [n \in DOMAIN table \cup {given + 1} |->
                  IF n = given + 1 THEN [expires |-> ticks + NonceLife, used |-> FALSE] ELSE table[n]]

new_nonce == generate_nonce(nonces) /\ UNCHANGED <<ticks, passed>>

(* Mutated: a nonce is good until it expires. *)
validate_nonceUnused(n) == n \in DOMAIN nonces /\ nonces[n].expires > ticks

(* One UPDATE marks the nonce and tells whether it was good. *)
validate_nonce(n) == n \in DOMAIN nonces /\ ~nonces[n].used /\ nonces[n].expires > ticks

Spent(n) == IF validate_nonce(n) THEN [nonces EXCEPT ![n].used = TRUE] ELSE nonces

(* A message for this URL or another, with nonce n or none (0), in the     *)
(* form its key is given in, intact or not: the nonce is spent before the  *)
(* rest is looked at.  With a kid no key is at hand and the message        *)
(* passes on to its handler.                                               *)
verify_jws(url, n, form, intact) ==
  LET passes == url /\ validate_nonce(n) /\ (form = "kid" \/ (form = "jwk" /\ intact))
  IN /\ generate_nonce(IF url THEN Spent(n) ELSE nonces)
     /\ passed' = IF passes THEN [passed EXCEPT ![n] = @ + 1] ELSE passed
     /\ UNCHANGED ticks

Expire == ticks < MaxTicks /\ ticks' = ticks + 1 /\ UNCHANGED <<nonces, given, passed>>

JwsNext ==
  \/ new_nonce \/ Expire
  \/ \E url, intact \in BOOLEAN, n \in 0 .. MaxNonces, form \in Forms :
       verify_jws(url, n, form, intact)

JwsSpec == JwsInit /\ [][JwsNext]_jwsVars

----------------------------------------------------------------------------
(* However often and in whatever order copies of messages arrive, at most  *)
(* one message passes with a nonce, also one that was damaged on the way   *)
(* and sent again, and none with a nonce that was never given out          *)
(* (validate_nonce).                                                       *)
NonceOnce == \A n \in 1 .. MaxNonces : passed[n] <= IF n <= given THEN 1 ELSE 0
====
