---------------------------- MODULE Recommendations ----------------------------
(***************************************************************************)
(* recommendations-service: a Redis list per user, the Bull queue of       *)
(* refresh jobs, and the event recommendations.refreshed.  A read that     *)
(* finds nothing enqueues a job.  The worker of the processor handles one  *)
(* job at a time: it stores the list and publishes, and Bull completes and *)
(* removes the job; when either call rejects, the job waits 5 s and is     *)
(* tried again, three times in all, and is then kept as failed.  A job     *)
(* whose process died is stalled: Bull puts it back once without counting  *)
(* a try, and fails it the second time.                                    *)
(*                                                                         *)
(* Bull and Redis are external; the handlers are the repository's.  The    *)
(* cron job has an empty body.                                             *)
(***************************************************************************)
EXTENDS Naturals, Sequences

CONSTANTS
  User,   \* user ids
  Job,    \* job ids
  null    \* no job

Attempts   == 3
MaxStalled == 1

Place == {"waiting", "store", "publish", "finish", "delayed", "failed", "completed"}

RefreshJob == [user : User, at : Place,
               attemptsMade : Nat, stalled : Nat, runs : Nat]

ASSUME RecommendationsAssumption == null \notin RefreshJob

VARIABLES
  recs,       \* recs[u]: the list in Redis, the empty one when there is no key
  job,        \* job[j]: the job with id j, runs counting how often it was taken up, or null
  stream,     \* some stream stores recommendations.refreshed; no service creates one
  answered    \* history: lists that reads were answered with

vars == <<recs, job, stream, answered>>

Init ==
  /\ recs = [u \in User |-> <<>>]
  /\ job = [j \in Job |-> null]
  /\ stream \in BOOLEAN
  /\ answered = {}

At(j, where) == job[j] # null /\ job[j].at = where

(* triggerRefresh *)
Enqueue(j, u) ==
  /\ job[j] = null
  /\ job' = [job EXCEPT ![j] = [user |-> u, at |-> "waiting", attemptsMade |-> 0, stalled |-> 0, runs |-> 0]]

(* POST /recommendations/refresh *)
TriggerRefresh(j, u) == Enqueue(j, u) /\ UNCHANGED <<recs, stream, answered>>

(* GET /recommendations: what is cached, or nothing and a job; no answer   *)
(* when the queue cannot be reached.                                       *)
GetRecommendations(u) ==
  /\ answered' = answered \union {recs[u]}
  /\ IF recs[u] = <<>> THEN \E j \in Job : Enqueue(j, u) ELSE UNCHANGED job
  /\ UNCHANGED <<recs, stream>>

-----------------------------------------------------------------------------
(* The worker *)

(* What handleRefresh computes: a placeholder so far. *)
Computed(u) == <<>>

Idle == \A j \in Job : ~At(j, "store") /\ ~At(j, "publish") /\ ~At(j, "finish")

(* mutant: nothing promotes a job whose backoff is over *)
HandleWaiting(j) ==
  /\ Idle
  /\ At(j, "waiting")
  /\ job' = [job EXCEPT ![j].at = "store", ![j].runs = @ + 1]
  /\ UNCHANGED <<recs, stream, answered>>

(* A job that waits, or whose backoff is over, is taken up. *)
HandleRefresh(j) ==
  /\ Idle
  /\ At(j, "waiting") \/ At(j, "delayed")
  /\ job' = [job EXCEPT ![j].at = "store", ![j].runs = @ + 1]
  /\ UNCHANGED <<recs, stream, answered>>

(* del, rpush unless there is nothing to push, expire in one pipeline,     *)
(* which resolves also when its commands had errors.                       *)
StoreRecommendations(j) ==
  /\ At(j, "store")
  /\ recs' \in {recs, [recs EXCEPT ![job[j].user] = Computed(job[j].user)]}
  /\ job' = [job EXCEPT ![j].at = "publish"]
  /\ UNCHANGED <<stream, answered>>

(* mutant: the publish is not awaited *)
PublishUnawaited(j) ==
  /\ At(j, "publish")
  /\ job' = [job EXCEPT ![j].at = "finish"]
  /\ UNCHANGED <<recs, stream, answered>>

(* js.publish resolves once a stream has stored the event.  Nobody reads   *)
(* the event.                                                              *)
PublishRefreshed(j) ==
  /\ At(j, "publish") /\ stream
  /\ job' = [job EXCEPT ![j].at = "finish"]
  /\ UNCHANGED <<recs, stream, answered>>

(* The handler has returned: Bull moves the job on and removes it.         *)
Complete(j) ==
  /\ At(j, "finish")
  /\ job' = [job EXCEPT ![j].at = "completed"]
  /\ UNCHANGED <<recs, stream, answered>>

(* mutant: one try too many *)
RefreshFailsLate(j) ==
  /\ At(j, "store") \/ At(j, "publish")
  /\ job' = [job EXCEPT ![j] = [@ EXCEPT
       !.attemptsMade = job[j].attemptsMade + 1,
       !.at = IF job[j].attemptsMade < Attempts THEN "delayed" ELSE "failed"]]
  /\ UNCHANGED <<recs, stream, answered>>

(* One of the calls rejects. *)
RefreshFails(j) ==
  /\ At(j, "store") \/ At(j, "publish")
  /\ job' = [job EXCEPT ![j] = [@ EXCEPT
       !.attemptsMade = job[j].attemptsMade + 1,
       !.at = IF job[j].attemptsMade + 1 < Attempts THEN "delayed" ELSE "failed"]]
  /\ UNCHANGED <<recs, stream, answered>>

(* The process died: the job is found stalled. *)
Stall(j) ==
  /\ At(j, "store") \/ At(j, "publish") \/ At(j, "finish")
  /\ job' = [job EXCEPT ![j] = [@ EXCEPT
       !.stalled = job[j].stalled + 1,
       !.at = IF job[j].stalled < MaxStalled THEN "waiting" ELSE "failed"]]
  /\ UNCHANGED <<recs, stream, answered>>

(* The key's time to live is over, if there is a key. *)
Expire(u) ==
  /\ recs' = [recs EXCEPT ![u] = <<>>]
  /\ UNCHANGED <<job, stream, answered>>

Worker(j) ==
  \/ HandleRefresh(j) \/ StoreRecommendations(j) \/ PublishRefreshed(j) \/ Complete(j)
  \/ RefreshFails(j) \/ Stall(j)

Next ==
  \/ \E u \in User : GetRecommendations(u) \/ Expire(u) \/ \E j \in Job : TriggerRefresh(j, u)
  \/ \E j \in Job : Worker(j)

(* The worker goes on while it has a job: the process is started again,    *)
(* Bull looks for stalled jobs and promotes those whose backoff is over.   *)
Spec == Init /\ [][Next]_vars /\ WF_vars(\E j \in Job : Worker(j))

-----------------------------------------------------------------------------
(* Properties *)

TypeOK ==
  /\ recs \in [User -> Seq(User)]
  /\ job \in [Job -> RefreshJob \union {null}]
  /\ stream \in BOOLEAN
  /\ answered \subseteq Seq(User)

(* However its tries fail and its processes die, in whatever order, a job  *)
(* is taken up four times at most, and it ends failed only after three     *)
(* tries that were rejected or two deaths.                                 *)
RunsBounded ==
  \A j \in Job : job[j] # null =>
    /\ job[j].runs <= Attempts + MaxStalled
    /\ job[j].at = "failed" => job[j].attemptsMade = Attempts \/ job[j].stalled = MaxStalled + 1

(* Every job comes to its end, completed or kept as failed, although tries *)
(* are rejected, processes die and new jobs are enqueued meanwhile.        *)
EveryJobEnds ==
  \A j \in Job : job[j] # null ~> job[j] # null /\ job[j].at \in {"completed", "failed"}

(* Without a stream for recommendations.refreshed, which no service        *)
(* creates, every job ends as a failed one, although its list was stored,  *)
(* and stays in the queue for good: a completed job would be removed.      *)
KeptAsFailed ==
  \A j \in Job : job[j] # null /\ ~stream ~> []At(j, "failed")

(* No read is ever answered from the cache, so each of them enqueues a job:*)
(* the list that the worker stores is empty, and an empty one is a miss.   *)
NeverServed == answered \subseteq {<<>>} /\ \A u \in User : recs[u] = <<>>
=============================================================================
