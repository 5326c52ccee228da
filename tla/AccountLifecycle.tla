-------------------------- MODULE AccountLifecycle --------------------------
(***************************************************************************)
(* What registering and verifying promise about an account, whatever the   *)
(* requests, crashes and clock between: it comes into being once, is       *)
(* verified or is stuck for good, is announced to the other services only  *)
(* when verified, and holds tokens only when announced.                    *)
(***************************************************************************)
CONSTANT User       \* the ids uuid() can give an account

VARIABLES
  stage,            \* stage[u]: where account u is in its life
  announced,        \* accounts the other services have been told of
  holders           \* accounts a refresh token has been issued to

lifecycle == <<stage, announced, holders>>

Stage == {"absent", "pending", "verified", "stuck"}

Init ==
  /\ stage = [u \in User |-> "absent"]
  /\ announced = {}
  /\ holders = {}

Create(u) ==
  /\ stage[u] = "absent"
  /\ stage' = [stage EXCEPT ![u] = "pending"]
  /\ UNCHANGED <<announced, holders>>

Verify(u) ==
  /\ stage[u] = "pending"
  /\ stage' = [stage EXCEPT ![u] = "verified"]
  /\ UNCHANGED <<announced, holders>>

(* The clock may run out for several accounts at once. *)
GiveUp(lost) ==
  /\ \A u \in lost : stage[u] = "pending"
  /\ stage' = [u \in User |-> IF u \in lost THEN "stuck" ELSE stage[u]]
  /\ UNCHANGED <<announced, holders>>

Announce(u) ==
  /\ stage[u] = "verified"
  /\ announced' = announced \union {u}
  /\ UNCHANGED <<stage, holders>>

Issue(u) ==
  /\ u \in announced
  /\ holders' = holders \union {u}
  /\ UNCHANGED <<stage, announced>>

Next ==
  \/ \E u \in User : Create(u) \/ Verify(u) \/ Announce(u) \/ Issue(u)
  \/ \E lost \in SUBSET User : GiveUp(lost)

Spec == Init /\ [][Next]_lifecycle
=============================================================================
