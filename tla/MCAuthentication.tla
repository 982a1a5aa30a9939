--------------------------- MODULE MCAuthentication ---------------------------
(* Small instances of Authentication for TLC.                                *)
EXTENDS Authentication, TLC

CONSTANTS owner, admin, s1, s2, r1, r2, t1, t2

Symmetry == Permutations({s1, s2}) \cup Permutations({r1, r2}) \cup Permutations({t1, t2})
==============================================================================
