----------------------------- MODULE ProfileSync -----------------------------
(***************************************************************************)
(* How accounts and profiles travel between services: the profile service  *)
(* hears user.registered and user.deleted on plain NATS subscriptions (a   *)
(* message that finds it down is lost), writes Profile rows and publishes  *)
(* profile.updated; the search service keeps an OpenSearch index from the  *)
(* JetStream streams profile_updated and user_deleted, which it creates    *)
(* when it starts.  Its two consumers are ephemeral and deliver all: after *)
(* a restart both streams are read again from the first message.           *)
(*                                                                         *)
(* The content of a profile is the number of the edit that wrote it.  The  *)
(* auth service appears as the two events it sends (Registration and       *)
(* Sessions have its handlers); user.deleted may overtake user.registered, *)
(* because an account can be deleted while its verifyOtp is on its way.    *)
(***************************************************************************)
EXTENDS Naturals, Sequences, Functions

CONSTANTS
  User,       \* user ids
  Request,    \* PATCH /profiles/me requests
  MaxEvents,  \* bound on the events the auth service sends
  null        \* no row, no document, no argument

Profile == [edit : Nat, active : BOOLEAN]
Update  == [user : User, edit : Nat]

ASSUME EventsAssumption == MaxEvents \in Nat
ASSUME NullAssumption == null \notin User \union Profile \union Update \union Nat

VARIABLES
  events,       \* number of events the auth service has sent
  gone,         \* users with a user.deleted event sent
  profileUp,    \* the profile service is running
  created,      \* its subscription to user.registered: messages not yet handled
  removed,      \* its subscription to user.deleted: messages not yet handled
  profile,      \* profile[u]: the Profile row of u, or null
  edits,        \* edits written so far
  pc, frame,    \* next call of each PATCH, and the row its upsert returned
  searchUp,     \* the search service is running
  streams,      \* the two streams exist
  updates,      \* stream profile_updated
  deletions,    \* stream user_deleted
  updateCons,   \* consumer of updates: next message, messages to redeliver
  deleteCons,   \* consumer of deletions
  index,        \* index[u]: the edit in u's document, or null
  missed,       \* history: users whose user.deleted the profile service did not apply
  redone        \* history: users with an update redelivered since the search service started

auth     == <<events, gone>>
inboxes  == <<profileUp, created, removed>>
patches  == <<edits, pc, frame>>
stored   == <<streams, updates, deletions>>
consumer == <<searchUp, updateCons, deleteCons, redone>>
vars     == <<auth, inboxes, profile, patches, stored, consumer, index, missed>>

Consumer == [next : Nat \ {0}, redo : SUBSET Nat]
(* mutant: sequence numbers counted from zero *)
RewoundToZero == [next |-> 0, redo |-> {}]

Rewound  == [next |-> 1, redo |-> {}]

TypeOK ==
  /\ events \in 0 .. MaxEvents /\ gone \subseteq User
  /\ profileUp \in BOOLEAN /\ searchUp \in BOOLEAN /\ streams \in BOOLEAN
  /\ created \in Seq(User) /\ removed \in Seq(User)
  /\ profile \in [User -> Profile \union {null}]
  /\ edits \in Nat
  /\ pc \in [Request -> {"new", "publish", "done", "failed"}]
  /\ frame \in [Request -> Update \union {null}]
  /\ updates \in Seq(Update) /\ deletions \in Seq(User)
  /\ updateCons \in Consumer /\ deleteCons \in Consumer
  /\ updateCons.next <= Len(updates) + 1 /\ updateCons.redo \subseteq DOMAIN updates
  /\ deleteCons.next <= Len(deletions) + 1 /\ deleteCons.redo \subseteq DOMAIN deletions
  /\ index \in [User -> Nat \union {null}]
  /\ missed \subseteq User /\ redone \subseteq User

Init ==
  /\ events = 0 /\ gone = {}
  /\ profileUp = FALSE /\ created = <<>> /\ removed = <<>>
  /\ profile = [u \in User |-> null]
  /\ edits = 0
  /\ pc = [r \in Request |-> "new"]
  /\ frame = [r \in Request |-> null]
  /\ searchUp = FALSE /\ streams = FALSE
  /\ updates = <<>> /\ deletions = <<>>
  /\ updateCons = Rewound /\ deleteCons = Rewound
  /\ index = [u \in User |-> null]
  /\ missed = {} /\ redone = {}

-----------------------------------------------------------------------------
(* The auth service's events.  Each can be sent again: two verifyOtp that   *)
(* both found the code unused each publish user.registered, and            *)
(* deleteAccount finds an account that is deleted already.                 *)

PublishUserRegistered(u) ==
  /\ events < MaxEvents
  /\ events' = events + 1
  /\ created' = IF profileUp THEN Append(created, u) ELSE created
  /\ UNCHANGED <<gone, profileUp, removed, profile, patches, stored, consumer, index, missed>>

PublishUserDeleted(u) ==
  /\ events < MaxEvents
  /\ events' = events + 1
  /\ gone' = gone \union {u}
  /\ removed' = IF profileUp THEN Append(removed, u) ELSE removed
  /\ missed' = IF profileUp THEN missed ELSE missed \union {u}
  /\ deletions' = IF streams THEN Append(deletions, u) ELSE deletions
  /\ UNCHANGED <<profileUp, created, profile, patches, streams, updates, consumer, index>>

-----------------------------------------------------------------------------
(* The profile service *)

(* onModuleInit subscribes to both subjects: what was sent before is lost. *)
ProfileStart ==
  /\ ~profileUp
  /\ profileUp' = TRUE
  /\ UNCHANGED <<auth, created, removed, profile, patches, stored, consumer, index, missed>>

ProfileCrash ==
  /\ profileUp
  /\ profileUp' = FALSE
  /\ created' = <<>> /\ removed' = <<>>
  /\ missed' = missed \union Range(removed)
  /\ pc' = [r \in Request |-> IF pc[r] = "publish" THEN "failed" ELSE pc[r]]
  /\ frame' = [r \in Request |-> null]
  /\ UNCHANGED <<auth, profile, edits, stored, consumer, index>>

(* mutants: the upsert's update clause repeats the create clause, or       *)
(* activates the row                                                       *)
DefaultRowOverwrites(u) == [edit |-> 0, active |-> profile[u] = null \/ profile[u].active]
DefaultRowActivates(u) ==
  IF profile[u] = null THEN [edit |-> 0, active |-> TRUE] ELSE [profile[u] EXCEPT !.active = TRUE]

(* createIfNotExists: an upsert that updates nothing. *)
DefaultRow(u) == IF profile[u] = null THEN [edit |-> 0, active |-> TRUE] ELSE profile[u]

(* The user.registered loop; a handler that throws is only logged. *)
HandleUserRegistered ==
  /\ created # <<>>
  /\ created' = Tail(created)
  /\ profile' \in {profile, [profile EXCEPT ![Head(created)] = DefaultRow(Head(created))]}
  /\ UNCHANGED <<auth, profileUp, removed, patches, stored, consumer, index, missed>>

(* The user.deleted loop.  deactivate is an update: it throws when there   *)
(* is no row, which is logged like any other error.                        *)
HandleUserDeleted ==
  /\ removed # <<>>
  /\ removed' = Tail(removed)
  /\ LET u == Head(removed) IN
       \/ /\ profile[u] # null
          /\ profile' = [profile EXCEPT ![u].active = FALSE]
          /\ UNCHANGED missed
       \/ /\ missed' = missed \union {u}
          /\ UNCHANGED profile
  /\ UNCHANGED <<auth, profileUp, created, patches, stored, consumer, index>>

(* DELETE /profiles/me publishes nothing. *)
DeactivateMe(u) ==
  /\ profileUp
  /\ profile[u] # null
  /\ profile' = [profile EXCEPT ![u].active = FALSE]
  /\ UNCHANGED <<auth, inboxes, patches, stored, consumer, index, missed>>

(* mutant: an edit activates the row *)
EditedActivates(u, n) == [edit |-> n, active |-> TRUE]

(* patch, upsert: the row keeps isActive, or starts active. *)
Edited(u, n) ==
  IF profile[u] = null THEN [edit |-> n, active |-> TRUE] ELSE [profile[u] EXCEPT !.edit = n]

(* mutant: a rejected upsert is logged and the event published all the same *)
PatchUpsertBestEffort(r, u) ==
  /\ profileUp
  /\ pc[r] = "new"
  /\ edits' = edits + 1
  /\ profile' \in {profile, [profile EXCEPT ![u] = Edited(u, edits')]}
  /\ pc' = [pc EXCEPT ![r] = "publish"]
  /\ frame' = [frame EXCEPT ![r] = [user |-> u, edit |-> edits']]
  /\ UNCHANGED <<auth, inboxes, stored, consumer, index, missed>>

(* PATCH /profiles/me. *)
PatchUpsert(r, u) ==
  /\ profileUp
  /\ pc[r] = "new"
  /\ edits' = edits + 1
  /\ profile' = [profile EXCEPT ![u] = Edited(u, edits')]
  /\ pc' = [pc EXCEPT ![r] = "publish"]
  /\ frame' = [frame EXCEPT ![r] = [user |-> u, edit |-> edits']]
  /\ UNCHANGED <<auth, inboxes, stored, consumer, index, missed>>

(* publishProfileUpdated rejects without a stream.  The interests.changed  *)
(* event that may follow has no stream and no reader: whether the request  *)
(* then fails changes no state.                                            *)
PatchPublish(r) ==
  /\ pc[r] = "publish"
  /\ \/ /\ streams
        /\ updates' = Append(updates, frame[r])
        /\ pc' = [pc EXCEPT ![r] = "done"]
     \/ /\ UNCHANGED updates
        /\ pc' = [pc EXCEPT ![r] = "failed"]
  /\ frame' = [frame EXCEPT ![r] = null]
  /\ UNCHANGED <<auth, inboxes, profile, edits, streams, deletions, consumer, index, missed>>

-----------------------------------------------------------------------------
(* The search service *)

(* mutant: the new consumers deliver new messages only *)
SearchStartDeliverNew ==
  /\ ~searchUp
  /\ searchUp' = TRUE /\ streams' = TRUE
  /\ updateCons' = [next |-> Len(updates) + 1, redo |-> {}]
  /\ deleteCons' = [next |-> Len(deletions) + 1, redo |-> {}]
  /\ redone' = {}
  /\ UNCHANGED <<auth, inboxes, profile, patches, updates, deletions, index, missed>>

(* onModuleInit adds the streams (a no-op when they exist) and subscribes  *)
(* with two new consumers that deliver all.                                *)
SearchStart ==
  /\ ~searchUp
  /\ searchUp' = TRUE /\ streams' = TRUE
  /\ updateCons' = Rewound /\ deleteCons' = Rewound
  /\ redone' = {}
  /\ UNCHANGED <<auth, inboxes, profile, patches, updates, deletions, index, missed>>

SearchCrash ==
  /\ searchUp
  /\ searchUp' = FALSE
  /\ UNCHANGED <<auth, inboxes, profile, patches, stored, updateCons, deleteCons, redone,
                 index, missed>>

(* A consumer is given the next message of its stream, or one it has to    *)
(* have again.                                                             *)
Deliverable(cons, stream) ==
  cons.redo \union (IF cons.next <= Len(stream) THEN {cons.next} ELSE {})

Given(cons, m) ==
  [next |-> IF m = cons.next THEN m + 1 ELSE cons.next, redo |-> cons.redo \ {m}]

Again(cons, m) == [cons EXCEPT !.redo = @ \union {m}]

(* The profile.updated loop: index whatever the message says, then ack; on *)
(* an error nak.  An ack that comes too late counts as none.               *)
HandleProfileUpdated(m) ==
  /\ searchUp
  /\ m \in Deliverable(updateCons, updates)
  /\ LET u == updates[m].user
         indexed == [index EXCEPT ![u] = updates[m].edit]
     IN  \/ /\ index' = indexed
            /\ updateCons' = Given(updateCons, m)
            /\ UNCHANGED redone
         \/ /\ index' \in {index, indexed}
            /\ updateCons' = Again(Given(updateCons, m), m)
            /\ redone' = redone \union {u}
  /\ UNCHANGED <<auth, inboxes, profile, patches, stored, searchUp, deleteCons, missed>>

(* The user.deleted loop: deleteProfile swallows errors, so the message is *)
(* acked whether or not the document is gone.                              *)
HandleUserDeletedInSearch(m) ==
  /\ searchUp
  /\ m \in Deliverable(deleteCons, deletions)
  /\ index' \in {index, [index EXCEPT ![deletions[m]] = null]}
  /\ deleteCons' \in {Given(deleteCons, m), Again(Given(deleteCons, m), m)}
  /\ UNCHANGED <<auth, inboxes, profile, patches, stored, searchUp, updateCons, redone, missed>>

ProfileService ==
  \/ ProfileStart \/ ProfileCrash \/ HandleUserRegistered \/ HandleUserDeleted
  \/ \E u \in User : DeactivateMe(u) \/ \E r \in Request : PatchUpsert(r, u)
  \/ \E r \in Request : PatchPublish(r)

SearchService ==
  \/ SearchStart \/ SearchCrash
  \/ \E m \in DOMAIN updates : HandleProfileUpdated(m)
  \/ \E m \in DOMAIN deletions : HandleUserDeletedInSearch(m)

Next ==
  \/ \E u \in User : PublishUserRegistered(u) \/ PublishUserDeleted(u)
  \/ ProfileService
  \/ SearchService

Spec == Init /\ [][Next]_vars

-----------------------------------------------------------------------------
(* Properties *)

UpdatesOf(u) == {m \in DOMAIN updates : updates[m].user = u}

CaughtUp == updateCons.next = Len(updates) + 1 /\ updateCons.redo = {}

(* When the search service has read its stream to the end, the document of *)
(* a user is the last update published, however often the service was      *)
(* restarted and the stream replayed in between; the exceptions are users  *)
(* with an update that was redelivered out of order since the last start,  *)
(* and users in the stream of deletions.                                   *)
IndexFollowsStream ==
  searchUp /\ CaughtUp =>
    \A u \in User \ (redone \union Range(deletions)) :
      UpdatesOf(u) # {} =>
        \E m \in UpdatesOf(u) : /\ index[u] = updates[m].edit
                                /\ \A n \in UpdatesOf(u) : n <= m

(* A hit can be shown: the client asks the profile service for each user   *)
(* that a search returns, and finds a row at least as new as the document, *)
(* whatever the replays and redeliveries that wrote the document, and in   *)
(* whichever order two edits were saved and published.                     *)
HitsHaveProfiles ==
  \A u \in User : index[u] # null => profile[u] # null /\ profile[u].edit >= index[u]

(* A user.registered that arrives after its user has already edited the    *)
(* profile, or a second one from a verification that ran twice, never      *)
(* takes the edit back.                                                    *)
EditsSurvive ==
  [][\A u \in User : profile[u] # null => profile'[u] # null /\ profile'[u].edit >= profile[u].edit]_vars

(* Once inactive, a profile stays inactive: neither a late user.registered *)
(* nor a PATCH in flight when the account is deleted wakes it up.          *)
InactiveStaysInactive ==
  [][\A u \in User : profile[u] # null /\ ~profile[u].active => profile'[u] # null /\ ~profile'[u].active]_vars

(* A user.deleted that the profile service applied keeps holding: unless   *)
(* it was lost or found no row, the profile of a deleted account is        *)
(* inactive as soon as the message has left the subscription.              *)
DeletionReachesProfile ==
  \A u \in gone \ (missed \union Range(removed)) : profile[u] # null /\ ~profile[u].active

(* openapi/openapi.yaml:195-196, on user.deleted every service deletes the *)
(* user's data (Saga).  With nothing left to deliver, a deleted user whose deletion  *)
(* is in the stream is in no search result.                                *)
DeletedLeavesSearch ==
  searchUp /\ CaughtUp /\ deleteCons.next = Len(deletions) + 1 /\ deleteCons.redo = {} =>
    \A u \in Range(deletions) : index[u] = null
=============================================================================
