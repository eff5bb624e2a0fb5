--------------------------- MODULE MCLoginLimiter ---------------------------
EXTENDS LoginLimiter, TLC

(* Attempts are alike, and so are addresses *)
Symmetry == Permutations(Clients) \cup Permutations(Addresses)
=============================================================================
