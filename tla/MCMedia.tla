------------------------------- MODULE MCMedia -------------------------------
(* Media with interchangeable users, uuids and requests in flight. *)
EXTENDS Media, TLC

Symmetry == Permutations(User) \union Permutations(Uuid) \union Permutations(Request)
=============================================================================
