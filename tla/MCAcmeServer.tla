----------------------------- MODULE MCAcmeServer -----------------------------
(* Instances of AcmeServer for TLC. *)
EXTENDS AcmeServer, TLC

\* Orders and request slots are interchangeable names, and so are the
\* identifiers and the accounts; certificate ids are ordered.
Symmetric ==
    Permutations(Orders) \cup Permutations(Requests) \cup Permutations(Identifiers) \cup
    Permutations(Accounts)
=============================================================================
