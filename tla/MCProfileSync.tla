--------------------------- MODULE MCProfileSync ---------------------------
(* ProfileSync with interchangeable users and requests. *)
EXTENDS ProfileSync, TLC

Symmetry == Permutations(User) \union Permutations(Request)
=============================================================================
