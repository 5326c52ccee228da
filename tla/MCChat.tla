------------------------------- MODULE MCChat -------------------------------
(* Chat on small sets; users, sockets, requests and uuids are opaque. *)
EXTENDS Chat, TLC

Symmetry ==
  Permutations(User) \union Permutations(Conversation) \union Permutations(Message)
    \union Permutations(Socket) \union Permutations(Request)
=============================================================================
