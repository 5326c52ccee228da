----------------------------- MODULE MCSessions -----------------------------
(* Sessions on small sets of interchangeable users, requests and uuids. *)
EXTENDS Sessions, TLC

(* Tokens and families are opaque uuids, requests differ only in what they *)
(* do, and users are alike.                                                *)
Symmetry ==
  Permutations(Request) \union Permutations(Token) \union Permutations(Family) \union Permutations(User)
=============================================================================
