--------------------------- MODULE MCRegistration ---------------------------
(* Registration with interchangeable ids, codes and requests. *)
EXTENDS Registration, TLC

Symmetry == Permutations(User) \union Permutations(Code) \union Permutations(Request)
=============================================================================
