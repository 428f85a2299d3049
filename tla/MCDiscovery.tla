----------------------------- MODULE MCDiscovery -----------------------------
(* Instances of Discovery for TLC. *)
EXTENDS Discovery, TLC

\* Scans, endpoints and fingerprints are interchangeable names.
Symmetric ==
    Permutations(Scans) \cup Permutations(Endpoints) \cup Permutations(Fingerprints)
=============================================================================
