--------------------------- MODULE MCAuthSessions ---------------------------
(* The session store on a small instance.  Users, sessions and requests    *)
(* are interchangeable, and every property here is a safety property.      *)
EXTENDS AuthSessions, TLC

Symmetry == Permutations(Users) \cup Permutations(Sessions) \cup Permutations(Requests)
=============================================================================
