------------------------- MODULE RecommendationsProofs -------------------------
(* Proofs about Recommendations, for any users and jobs. *)
EXTENDS Recommendations, TLAPS

USE RecommendationsAssumption

(* A job that has not ended was taken up once for each try that was        *)
(* rejected and each death, and once more if it is being handled.          *)
InHand(j) == IF At(j, "store") \/ At(j, "publish") \/ At(j, "finish") THEN 1 ELSE 0

Accounted(j) ==
  job[j] # null =>
    /\ job[j].attemptsMade <= Attempts /\ job[j].stalled <= MaxStalled + 1
    /\ job[j].at \notin {"failed", "completed"} =>
         /\ job[j].attemptsMade < Attempts /\ job[j].stalled <= MaxStalled
         /\ job[j].runs = job[j].attemptsMade + job[j].stalled + InHand(j)
    /\ job[j].at \in {"failed", "completed"} => job[j].runs <= Attempts + MaxStalled
    /\ job[j].at = "failed" => job[j].attemptsMade = Attempts \/ job[j].stalled = MaxStalled + 1

Empty == answered \subseteq {<<>>} /\ \A u \in User : recs[u] = <<>>

IInv == TypeOK /\ Empty /\ \A j \in Job : Accounted(j)

LEMMA InitIInv == Init => IInv
  BY DEF Init, IInv, TypeOK, Empty, Accounted

LEMMA TypeStep == ASSUME IInv, [Next]_vars PROVE TypeOK' /\ Empty'
  <1> USE DEF IInv
  <1>1. ASSUME NEW u \in User, NEW j \in Job, Enqueue(j, u)
        PROVE  job' \in [Job -> RefreshJob \union {null}]
    BY <1>1 DEF TypeOK, Enqueue, RefreshJob, Place
  <1>2. ASSUME NEW u \in User, GetRecommendations(u) PROVE TypeOK' /\ Empty'
    BY <1>1, <1>2 DEF TypeOK, Empty, GetRecommendations
  <1>3. ASSUME NEW u \in User, Expire(u) PROVE TypeOK' /\ Empty'
    BY <1>3 DEF TypeOK, Empty, Expire
  <1>4. ASSUME NEW u \in User, NEW j \in Job, TriggerRefresh(j, u) PROVE TypeOK' /\ Empty'
    BY <1>1, <1>4 DEF TypeOK, Empty, TriggerRefresh
  <1>5. ASSUME NEW j \in Job, Worker(j) PROVE TypeOK' /\ Empty'
    <2>1. job[j] \in RefreshJob
      BY <1>5 DEF TypeOK, Worker, HandleRefresh, StoreRecommendations, PublishRefreshed, Complete,
                  RefreshFails, Stall, At
    <2>2. CASE HandleRefresh(j)
      BY <2>1, <2>2 DEF TypeOK, Empty, HandleRefresh, RefreshJob, Place
    <2>3. CASE StoreRecommendations(j)
      <3>1. recs' \in [User -> Seq(User)] /\ \A u \in User : recs'[u] = <<>>
        BY <2>3 DEF TypeOK, Empty, StoreRecommendations, Computed
      <3>2. job' \in [Job -> RefreshJob \union {null}]
        BY <2>1, <2>3 DEF TypeOK, StoreRecommendations, RefreshJob, Place
      <3> QED BY <2>3, <3>1, <3>2 DEF TypeOK, Empty, StoreRecommendations
    <2>4. CASE PublishRefreshed(j)
      BY <2>1, <2>4 DEF TypeOK, Empty, PublishRefreshed, RefreshJob, Place
    <2>5. CASE RefreshFails(j)
      <3>1. \A k \in Nat, w \in {"delayed", "failed"} :
              [job[j] EXCEPT !.attemptsMade = k, !.at = w] \in RefreshJob
        BY <2>1 DEF RefreshJob, Place
      <3>2. job[j].attemptsMade + 1 \in Nat
        BY <2>1, SMTT(30) DEF RefreshJob
      <3>3. job'[j] \in RefreshJob
        BY <2>5, <3>1, <3>2 DEF RefreshFails, TypeOK
      <3>4. job' \in [Job -> RefreshJob \union {null}]
        BY <2>5, <3>3 DEF TypeOK, RefreshFails
      <3> QED BY <2>5, <3>4 DEF TypeOK, Empty, RefreshFails
    <2>6. CASE Stall(j)
      <3>1. \A k \in Nat, w \in {"waiting", "failed"} :
              [job[j] EXCEPT !.stalled = k, !.at = w] \in RefreshJob
        BY <2>1 DEF RefreshJob, Place
      <3>2. job[j].stalled + 1 \in Nat
        BY <2>1 DEF RefreshJob
      <3>3. job'[j] \in RefreshJob
        BY <2>6, <3>1, <3>2 DEF Stall, TypeOK
      <3>4. job' \in [Job -> RefreshJob \union {null}]
        BY <2>6, <3>3 DEF TypeOK, Stall
      <3> QED BY <2>6, <3>4 DEF TypeOK, Empty, Stall
    <2>7. CASE Complete(j)
      BY <2>1, <2>7 DEF TypeOK, Empty, Complete, RefreshJob, Place
    <2> QED BY <1>5, <2>2, <2>3, <2>4, <2>5, <2>6, <2>7 DEF Worker
  <1>6. CASE UNCHANGED vars
    BY <1>6 DEF TypeOK, Empty, vars
  <1> QED BY <1>2, <1>3, <1>4, <1>5, <1>6 DEF Next

LEMMA AccountedStep ==
  ASSUME IInv, [Next]_vars, NEW j \in Job
  PROVE  Accounted(j)'
  <1> USE DEF IInv
  <1>1. CASE job'[j] = job[j]
    BY <1>1 DEF Accounted, InHand, At
  <1>2. ASSUME NEW i \in Job, NEW u \in User, Enqueue(i, u) PROVE Accounted(j)'
    <2>1. CASE i = j
      BY <1>2, <2>1 DEF Enqueue, Accounted, InHand, At, TypeOK, Attempts, MaxStalled
    <2>2. CASE i # j
      BY <1>1, <1>2, <2>2 DEF Enqueue, TypeOK
    <2> QED BY <2>1, <2>2
  <1>3. ASSUME NEW i \in Job, i # j, Worker(i) PROVE job'[j] = job[j]
    BY <1>3 DEF TypeOK, Worker, HandleRefresh, StoreRecommendations, PublishRefreshed, Complete,
                RefreshFails, Stall
  <1>4. CASE Worker(j)
    <2>1. /\ job[j] \in RefreshJob /\ job[j] # null
          /\ job[j].runs \in Nat /\ job[j].attemptsMade \in Nat /\ job[j].stalled \in Nat
      BY <1>4 DEF TypeOK, RefreshJob, Worker, HandleRefresh, StoreRecommendations, PublishRefreshed, Complete,
                  RefreshFails, Stall, At
    <2>2. CASE HandleRefresh(j)
      BY <2>1, <2>2 DEF TypeOK, RefreshJob, HandleRefresh, Accounted, InHand, At, Attempts, MaxStalled
    <2>3. CASE StoreRecommendations(j)
      BY <2>1, <2>3 DEF TypeOK, RefreshJob, StoreRecommendations, Accounted, InHand, At, Attempts, MaxStalled
    <2>4. CASE PublishRefreshed(j)
      BY <2>1, <2>4 DEF TypeOK, RefreshJob, PublishRefreshed, Accounted, InHand, At, Attempts, MaxStalled
    <2>5. CASE RefreshFails(j)
      <3>1. /\ job'[j] # null
            /\ job'[j].attemptsMade = job[j].attemptsMade + 1
            /\ job'[j].stalled = job[j].stalled /\ job'[j].runs = job[j].runs
            /\ job'[j].at = IF job[j].attemptsMade + 1 < Attempts THEN "delayed" ELSE "failed"
        <4> DEFINE w == IF job[j].attemptsMade + 1 < Attempts THEN "delayed" ELSE "failed"
                   k == job[j].attemptsMade + 1
        <4>1. job'[j] = [job[j] EXCEPT !.attemptsMade = k, !.at = w]
          BY <2>5 DEF TypeOK, RefreshFails
        <4>2. w \in Place /\ k \in Nat
          BY <2>1 DEF Place
        <4> HIDE DEF w, k, IInv
        <4>3. /\ job'[j] # null /\ job'[j].attemptsMade = k /\ job'[j].at = w /\ job'[j].runs = job[j].runs
              /\ job'[j].stalled = job[j].stalled
          <5>1. [job[j] EXCEPT !.attemptsMade = k, !.at = w] \in RefreshJob
            BY <2>1, <4>2 DEF RefreshJob
          <5> QED BY <2>1, <4>1, <4>2, <5>1 DEF RefreshJob
        <4> QED BY <4>3 DEF w, k
      <3>2. /\ job[j].attemptsMade < Attempts /\ job[j].stalled <= MaxStalled
            /\ job[j].runs = job[j].attemptsMade + job[j].stalled + 1
        BY <2>5 DEF RefreshFails, Accounted, InHand, At
      <3> HIDE DEF IInv
      <3> QED BY <2>1, <3>1, <3>2 DEF Accounted, InHand, At, Attempts, MaxStalled
    <2>6. CASE Stall(j)
      <3>1. /\ job'[j] # null
            /\ job'[j].attemptsMade = job[j].attemptsMade
            /\ job'[j].stalled = job[j].stalled + 1 /\ job'[j].runs = job[j].runs
            /\ job'[j].at = IF job[j].stalled < MaxStalled THEN "waiting" ELSE "failed"
        <4> DEFINE w == IF job[j].stalled < MaxStalled THEN "waiting" ELSE "failed"
                   k == job[j].stalled + 1
        <4>1. job'[j] = [job[j] EXCEPT !.stalled = k, !.at = w]
          BY <2>6 DEF TypeOK, Stall
        <4>2. w \in Place /\ k \in Nat
          BY <2>1 DEF Place
        <4> HIDE DEF w, k, IInv
        <4>3. /\ job'[j] # null /\ job'[j].stalled = k /\ job'[j].at = w /\ job'[j].runs = job[j].runs
              /\ job'[j].attemptsMade = job[j].attemptsMade
          <5>1. [job[j] EXCEPT !.stalled = k, !.at = w] \in RefreshJob
            BY <2>1, <4>2 DEF RefreshJob
          <5> QED BY <2>1, <4>1, <4>2, <5>1 DEF RefreshJob
        <4> QED BY <4>3 DEF w, k
      <3>2. /\ job[j].attemptsMade < Attempts /\ job[j].stalled <= MaxStalled
            /\ job[j].runs = job[j].attemptsMade + job[j].stalled + 1
        BY <2>6 DEF Stall, Accounted, InHand, At
      <3> HIDE DEF IInv
      <3> QED BY <2>1, <3>1, <3>2 DEF Accounted, InHand, At, Attempts, MaxStalled
    <2>7. CASE Complete(j)
      <3>1. /\ job'[j] # null /\ job'[j].at = "completed"
            /\ job'[j].attemptsMade = job[j].attemptsMade /\ job'[j].stalled = job[j].stalled
            /\ job'[j].runs = job[j].runs
        BY <2>1, <2>7 DEF TypeOK, RefreshJob, Place, Complete
      <3>2. /\ job[j].attemptsMade < Attempts /\ job[j].stalled <= MaxStalled
            /\ job[j].runs = job[j].attemptsMade + job[j].stalled + 1
        BY <2>7 DEF Complete, Accounted, InHand, At
      <3> HIDE DEF IInv
      <3> QED BY <2>1, <3>1, <3>2 DEF Accounted, Attempts, MaxStalled
    <2> QED BY <1>4, <2>2, <2>3, <2>4, <2>5, <2>6, <2>7 DEF Worker
  <1>5. ASSUME NEW u \in User, GetRecommendations(u) PROVE Accounted(j)'
    BY <1>1, <1>2, <1>5 DEF GetRecommendations
  <1>6. ASSUME NEW u \in User, Expire(u) PROVE Accounted(j)'
    BY <1>1, <1>6 DEF Expire
  <1>7. ASSUME NEW u \in User, NEW i \in Job, TriggerRefresh(i, u) PROVE Accounted(j)'
    BY <1>2, <1>7 DEF TriggerRefresh
  <1>8. CASE UNCHANGED vars
    BY <1>1, <1>8 DEF vars
  <1> QED BY <1>1, <1>3, <1>4, <1>5, <1>6, <1>7, <1>8 DEF Next

LEMMA Inductive == Spec => []IInv
  <1>1. ASSUME IInv, [Next]_vars PROVE IInv'
    BY <1>1, TypeStep, AccountedStep DEF IInv
  <1> QED BY <1>1, InitIInv, PTL DEF Spec

(* A job is taken up four times at most (recommendations.service.ts:33,    *)
(* attempts: 3, and one stall), and fails for a reason.                    *)
THEOREM RunsAreBounded == Spec => []RunsBounded
  <1>1. IInv => RunsBounded
    <2> SUFFICES ASSUME IInv, NEW j \in Job, job[j] # null
                 PROVE  /\ job[j].runs <= Attempts + MaxStalled
                        /\ job[j].at = "failed" =>
                             job[j].attemptsMade = Attempts \/ job[j].stalled = MaxStalled + 1
      BY DEF RunsBounded
    <2>1. /\ job[j].attemptsMade \in Nat /\ job[j].stalled \in Nat /\ job[j].runs \in Nat
      BY DEF IInv, TypeOK, RefreshJob
    <2>2. Accounted(j)
      BY DEF IInv
    <2>3. InHand(j) \in {0, 1}
      BY DEF InHand
    <2>4. CASE job[j].at \in {"failed", "completed"}
      BY <2>2, <2>4 DEF Accounted
    <2>5. CASE job[j].at \notin {"failed", "completed"}
      BY <2>1, <2>2, <2>3, <2>5 DEF Accounted, Attempts, MaxStalled
    <2> QED BY <2>4, <2>5
  <1> QED BY <1>1, Inductive, PTL

(* Nothing is ever served from the cache (recommendations.service.ts:24-30 *)
(* with the processor's placeholder).                                      *)
THEOREM NothingIsServed == Spec => []NeverServed
  <1>1. IInv => NeverServed
    BY DEF IInv, Empty, NeverServed
  <1> QED BY <1>1, Inductive, PTL

(* The Redis lists, the jobs and the answers have their types.             *)
THEOREM TypeCorrect == Spec => []TypeOK
  <1>1. IInv => TypeOK
    BY DEF IInv
  <1> QED BY <1>1, Inductive, PTL

-----------------------------------------------------------------------------
(* Why every job ends.  The rest of a job's life is measured by what it    *)
(* has left of tries and stalls, and by how far this run has come.         *)
Ahead(w) ==
  CASE w \in {"waiting", "delayed"} -> 4 [] w = "store" -> 3 [] w = "publish" -> 2 [] w = "finish" -> 1
    [] OTHER -> 0

Rest(j) ==
  5 * (Attempts + MaxStalled + 1 - job[j].attemptsMade - job[j].stalled) + Ahead(job[j].at)

(* No step touches a job but one that leaves less of its life: with the    *)
(* fairness of the worker, this is the argument for EveryJobEnds.          *)
JobsWearOut ==
  [][\A j \in Job : job[j] # null /\ job'[j] # job[j] => Rest(j) \in Nat /\ Rest(j)' < Rest(j)]_vars

LEMMA RestBounded == ASSUME IInv, NEW j \in Job, job[j] # null PROVE Rest(j) \in Nat
  <1>1. job[j].attemptsMade \in 0 .. Attempts /\ job[j].stalled \in 0 .. MaxStalled + 1
    BY DEF IInv, Accounted, TypeOK, RefreshJob, Attempts, MaxStalled
  <1>2. Ahead(job[j].at) \in Nat
    BY DEF Ahead
  <1>3. job[j].attemptsMade + job[j].stalled <= Attempts + MaxStalled + 1
    BY <1>1 DEF Attempts, MaxStalled
  <1> QED BY <1>1, <1>2, <1>3 DEF Rest, Attempts, MaxStalled

LEMMA WorkerWears ==
  ASSUME IInv, NEW j \in Job, Worker(j)
  PROVE  Rest(j)' < Rest(j)
  <1>1. /\ job[j] \in RefreshJob
        /\ job[j].attemptsMade \in Nat /\ job[j].stalled \in Nat
    BY DEF IInv, TypeOK, RefreshJob, Worker, HandleRefresh, StoreRecommendations, PublishRefreshed, Complete,
           RefreshFails, Stall, At
  <1> DEFINE a == job[j].attemptsMade
             s == job[j].stalled
             w == job[j].at
  <1>2. \/ /\ job'[j].attemptsMade = a /\ job'[j].stalled = s
           /\ \/ w \in {"waiting", "delayed"} /\ job'[j].at = "store"
              \/ w = "store" /\ job'[j].at = "publish"
              \/ w = "publish" /\ job'[j].at = "finish"
              \/ w = "finish" /\ job'[j].at = "completed"
        \/ /\ job'[j].attemptsMade = a + 1 /\ job'[j].stalled = s
           /\ w \in {"store", "publish"} /\ job'[j].at \in {"delayed", "failed"}
        \/ /\ job'[j].attemptsMade = a /\ job'[j].stalled = s + 1
           /\ w \in {"store", "publish", "finish"} /\ job'[j].at \in {"waiting", "failed"}
    <2>1. CASE HandleRefresh(j)
      BY <1>1, <2>1 DEF HandleRefresh, At, IInv, TypeOK, RefreshJob
    <2>2. CASE StoreRecommendations(j)
      BY <1>1, <2>2 DEF StoreRecommendations, At, IInv, TypeOK, RefreshJob
    <2>3. CASE PublishRefreshed(j)
      BY <1>1, <2>3 DEF PublishRefreshed, At, IInv, TypeOK, RefreshJob
    <2>4. CASE RefreshFails(j)
      BY <1>1, <2>4 DEF RefreshFails, At, IInv, TypeOK, RefreshJob
    <2>5. CASE Stall(j)
      BY <1>1, <2>5 DEF Stall, At, IInv, TypeOK, RefreshJob
    <2>6. CASE Complete(j)
      BY <1>1, <2>6 DEF Complete, At, IInv, TypeOK, RefreshJob
    <2> QED BY <2>1, <2>2, <2>3, <2>4, <2>5, <2>6 DEF Worker
  <1>3. CASE job'[j].attemptsMade = a /\ job'[j].stalled = s
    BY <1>1, <1>2, <1>3 DEF Rest, Ahead, Attempts, MaxStalled
  <1>4. CASE job'[j].attemptsMade = a + 1 /\ job'[j].stalled = s
    BY <1>1, <1>2, <1>4 DEF Rest, Ahead, Attempts, MaxStalled
  <1>5. CASE job'[j].attemptsMade = a /\ job'[j].stalled = s + 1
    BY <1>1, <1>2, <1>5 DEF Rest, Ahead, Attempts, MaxStalled
  <1> QED BY <1>2, <1>3, <1>4, <1>5

(* Reads, triggers and the worker's steps (recommendations.processor.ts:9) *)
(* only ever use a job up, whatever rejects and whoever dies.              *)
THEOREM EveryJobWearsOut == Spec => JobsWearOut
  <1>1. ASSUME IInv, [Next]_vars, NEW j \in Job, job[j] # null, job'[j] # job[j]
        PROVE  Rest(j) \in Nat /\ Rest(j)' < Rest(j)
    <2>1. Worker(j)
      BY <1>1 DEF IInv, TypeOK, Next, vars, GetRecommendations, Expire, TriggerRefresh, Enqueue, Worker,
                  HandleRefresh, StoreRecommendations, PublishRefreshed, Complete, RefreshFails, Stall
    <2> QED BY <1>1, <2>1, WorkerWears, RestBounded
  <1>2. IInv /\ [Next]_vars =>
          [\A j \in Job : job[j] # null /\ job'[j] # job[j] => Rest(j) \in Nat /\ Rest(j)' < Rest(j)]_vars
    BY <1>1
  <1> QED BY <1>2, Inductive, PTL DEF Spec, JobsWearOut
=============================================================================
