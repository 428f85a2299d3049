---------------------------- MODULE IssuancePolicy ----------------------------
(***************************************************************************)
(* What automated issuance promises, whatever protocol carries it: a       *)
(* certificate is signed for an account only if control of every           *)
(* identifier it names has been shown in answer to a challenge given to    *)
(* that account, and a certificate once signed keeps its owner and its     *)
(* identifiers until it is removed.                                        *)
(*                                                                         *)
(* This is the abstract specification; module AcmeServer, translated from  *)
(* the ACME code, is shown to implement it.                                *)
(***************************************************************************)
CONSTANTS Accounts, Identifiers, Certificates, None

VARIABLES
    proven,     \* pairs <<account, identifier>> whose control has been shown
    issued      \* what each signed certificate says, None for an unused id

vars == <<proven, issued>>

Init ==
    /\ proven = {}
    /\ issued = [c \in Certificates |-> None]

\* Control of identifier i is shown in answer to a challenge of account a.
Prove(a, i) ==
    /\ proven' = proven \cup {<<a, i>>}
    /\ UNCHANGED issued

\* Certificate c is signed for account a and the identifiers S.
Issue(c, a, S) ==
    /\ issued[c] = None
    /\ S # {}
    /\ \A i \in S : <<a, i>> \in proven
    /\ issued' = [issued EXCEPT ![c] = [owner |-> a, names |-> S]]
    /\ UNCHANGED proven

\* Certificate c is removed; its id may be given again.
Remove(c) ==
    /\ issued' = [issued EXCEPT ![c] = None]
    /\ UNCHANGED proven

Next ==
    \/ \E a \in Accounts, i \in Identifiers : Prove(a, i)
    \/ \E c \in Certificates, a \in Accounts, S \in SUBSET Identifiers :
           Issue(c, a, S)
    \/ \E c \in Certificates : Remove(c)

Spec == Init /\ [][Next]_vars
=============================================================================
