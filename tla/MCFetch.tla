------------------------------ MODULE MCFetch ------------------------------
(* Small instances of Fetch for TLC. *)
EXTENDS Fetch

Fetches3 == 1..3
Fetches4 == 1..4

\* The urls are alike.
UrlSymmetry == Permutations(Urls)

=============================================================================
