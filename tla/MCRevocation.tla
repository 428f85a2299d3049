----------------------------- MODULE MCRevocation -----------------------------
(* Instances of Revocation for TLC. *)
EXTENDS Revocation, TLC

\* Rows, serial numbers and requests are interchangeable names.
Symmetric == Permutations(Rows) \cup Permutations(Serials) \cup Permutations(Requests)
=============================================================================
