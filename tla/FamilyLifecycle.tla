-------------------------- MODULE FamilyLifecycle --------------------------
(***************************************************************************)
(* What the auth service promises about a refresh-token family, whoever    *)
(* rotates or revokes its tokens and in whatever order: a family is opened *)
(* once, by the request that draws its uuid, and once it is closed (no     *)
(* token of it is stored and no request will store one) it stays closed.   *)
(***************************************************************************)
CONSTANT Family     \* the values uuidv4() gives to `family`

VARIABLE phase      \* phase[f]: where family f is in its life

Phase == {"unopened", "open", "closed"}

Init == phase = [f \in Family |-> "unopened"]

Open(f) ==
  /\ phase[f] = "unopened"
  /\ phase' = [phase EXCEPT ![f] = "open"]

Close(f) ==
  /\ phase[f] = "open"
  /\ phase' = [phase EXCEPT ![f] = "closed"]

Next == \E f \in Family : Open(f) \/ Close(f)

Spec == Init /\ [][Next]_phase
=============================================================================
