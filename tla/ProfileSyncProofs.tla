--------------------------- MODULE ProfileSyncProofs ---------------------------
(***************************************************************************)
(* Proofs about ProfileSync, for any users and any number of PATCH         *)
(* requests, crashes and redeliveries.  The three parts of the invariant   *)
(* stand apart: what is published and indexed has been saved (Saved), a    *)
(* deletion that left its subscription was applied (DeletionReachesProfile *)
(* itself), and the index is where its consumer is (InStep).               *)
(***************************************************************************)
EXTENDS ProfileSync, SequenceTheorems, TLAPS

USE NullAssumption

(* A PATCH that has still to publish knows the row it wrote. *)
FramesSet == \A r \in Request : pc[r] = "publish" => frame[r] \in Update

Types == TypeOK /\ FramesSet

(* The row of u holds edit e or a later one. *)
Holds(u, e) == profile[u] # null /\ profile[u].edit >= e

(* Edits are numbered in the order they are saved, and whatever is on its  *)
(* way to the index was saved before.                                      *)
Saved ==
  /\ \A u \in User : profile[u] # null => profile[u].edit <= edits
  /\ \A r \in Request : pc[r] = "publish" => Holds(frame[r].user, frame[r].edit)
  /\ \A m \in DOMAIN updates : Holds(updates[m].user, updates[m].edit)
  /\ \A u \in User : index[u] # null => Holds(u, index[u])

(* Message m is the last one about u that the consumer has passed. *)
LastPassed(u, m) ==
  /\ m \in UpdatesOf(u) /\ m < updateCons.next
  /\ \A n \in UpdatesOf(u) : n < updateCons.next => n <= m

(* The document of a user whose messages were neither redelivered nor      *)
(* deleted is that of the last one passed, once one has been passed since  *)
(* the search service started.                                             *)
InStep ==
  searchUp =>
    \A u \in User \ (redone \union Range(deletions)) :
      /\ updateCons.redo \intersect UpdatesOf(u) = {}
      /\ (\E m \in UpdatesOf(u) : m < updateCons.next) =>
           \E m \in UpdatesOf(u) : LastPassed(u, m) /\ index[u] = updates[m].edit

-----------------------------------------------------------------------------
LEMMA GivenTypes ==
  ASSUME NEW stream, Len(stream) \in Nat, DOMAIN stream = 1 .. Len(stream), NEW cons \in Consumer,
         cons.next <= Len(stream) + 1, cons.redo \subseteq DOMAIN stream,
         NEW m \in Deliverable(cons, stream),
         NEW c \in {Given(cons, m), Again(Given(cons, m), m)}
  PROVE  /\ c \in Consumer /\ c.next <= Len(stream) + 1 /\ c.redo \subseteq DOMAIN stream
         /\ c.next = IF m = cons.next THEN m + 1 ELSE cons.next
  <1>1. DOMAIN stream = 1 .. Len(stream) /\ Len(stream) \in Nat
    OBVIOUS
  <1>2. cons.next \in Nat \ {0} /\ cons.redo \in SUBSET Nat
    BY DEF Consumer
  <1>3. m \in DOMAIN stream
    BY <1>1, <1>2 DEF Deliverable
  <1>4. /\ Given(cons, m) \in Consumer
        /\ Given(cons, m).next = IF m = cons.next THEN m + 1 ELSE cons.next
        /\ Given(cons, m).next <= Len(stream) + 1
        /\ Given(cons, m).redo \subseteq DOMAIN stream
    BY <1>1, <1>2, <1>3 DEF Given, Consumer, Deliverable
  <1>5. /\ Again(Given(cons, m), m) \in Consumer
        /\ Again(Given(cons, m), m).next = Given(cons, m).next
        /\ Again(Given(cons, m), m).redo = Given(cons, m).redo \union {m}
    BY <1>1, <1>3, <1>4 DEF Again, Consumer
  <1> QED BY <1>3, <1>4, <1>5

LEMMA RewoundTypes ==
  ASSUME NEW T, NEW stream \in Seq(T)
  PROVE  Rewound \in Consumer /\ Rewound.next <= Len(stream) + 1 /\ Rewound.redo \subseteq DOMAIN stream
  <1>1. Len(stream) \in Nat
    BY LenProperties
  <1> QED BY <1>1 DEF Rewound, Consumer

LEMMA AppendTypes ==
  ASSUME NEW T, NEW stream \in Seq(T), NEW e \in T
  PROVE  /\ Append(stream, e) \in Seq(T)
         /\ Len(Append(stream, e)) = Len(stream) + 1
         /\ Len(stream) \in Nat
         /\ DOMAIN stream = 1 .. Len(stream)
         /\ DOMAIN Append(stream, e) = 1 .. Len(stream) + 1
         /\ \A m \in DOMAIN stream : Append(stream, e)[m] = stream[m]
         /\ Append(stream, e)[Len(stream) + 1] = e
  BY AppendProperties, LenProperties

LEMMA SeqElements == ASSUME NEW T, NEW s \in Seq(T) PROVE \A i \in DOMAIN s : s[i] \in T
  BY LenProperties, ElementOfSeq

LEMMA AppendRange ==
  ASSUME NEW T, NEW s \in Seq(T), NEW e \in T
  PROVE  Range(s) \subseteq Range(Append(s, e)) /\ e \in Range(Append(s, e))
  <1>1. /\ Len(s) \in Nat
        /\ DOMAIN s = 1 .. Len(s) /\ DOMAIN Append(s, e) = 1 .. Len(s) + 1
        /\ \A m \in DOMAIN s : Append(s, e)[m] = s[m]
        /\ Append(s, e)[Len(s) + 1] = e
    BY AppendTypes
  <1> QED BY <1>1 DEF Range

LEMMA TailRange ==
  ASSUME NEW T, NEW s \in Seq(T), s # <<>>
  PROVE  Range(s) \subseteq {Head(s)} \union Range(Tail(s))
  <1> SUFFICES ASSUME NEW i \in DOMAIN s, s[i] # Head(s) PROVE s[i] \in Range(Tail(s))
    BY DEF Range
  <1>1. DOMAIN s = 1 .. Len(s) /\ Len(s) \in Nat
    BY LenProperties
  <1>2. Tail(s) \in Seq(T) /\ Len(Tail(s)) = Len(s) - 1
    BY HeadTailProperties
  <1>3. DOMAIN Tail(s) = 1 .. Len(s) - 1
    BY <1>2, LenProperties
  <1>4. i # 1
    BY <1>1
  <1>5. i - 1 \in 1 .. Len(s) - 1 /\ i - 1 + 1 = i
    BY <1>1, <1>4
  <1>6. Tail(s)[i - 1] = s[i]
    BY <1>2, <1>5, HeadTailProperties
  <1> QED BY <1>3, <1>5, <1>6 DEF Range

(* What an update of isActive or of the edit does to a row. *)
LEMMA RowFields ==
  ASSUME NEW p \in Profile
  PROVE  /\ p # null /\ p.edit \in Nat /\ p.active \in BOOLEAN
         /\ [p EXCEPT !.active = FALSE] \in Profile
         /\ [p EXCEPT !.active = FALSE].edit = p.edit /\ ~[p EXCEPT !.active = FALSE].active
  BY DEF Profile

LEMMA EditedFields ==
  ASSUME NEW p \in Profile, NEW n \in Nat
  PROVE  /\ [p EXCEPT !.edit = n] \in Profile /\ [p EXCEPT !.edit = n] # null
         /\ [p EXCEPT !.edit = n].edit = n /\ [p EXCEPT !.edit = n].active = p.active
  BY DEF Profile

(* patch writes a profile row. *)
LEMMA EditedTypes ==
  ASSUME NEW u \in User, NEW n \in Nat, profile[u] \in Profile \union {null}
  PROVE  Edited(u, n) \in Profile
  BY DEF Edited, Profile

LEMMA Deactivates ==
  ASSUME TypeOK, NEW v \in User, profile[v] # null, profile' = [profile EXCEPT ![v].active = FALSE]
  PROVE  /\ profile' \in [User -> Profile \union {null}]
         /\ profile'[v] = [profile[v] EXCEPT !.active = FALSE]
         /\ \A u \in User \ {v} : profile'[u] = profile[u]
  <1>1. profile[v] \in Profile /\ profile \in [User -> Profile \union {null}]
    BY DEF TypeOK
  <1>2. [profile[v] EXCEPT !.active = FALSE] \in Profile
    BY <1>1, RowFields
  <1> QED BY <1>1, <1>2

LEMMA InitTypes == Init => Types
  <1> SUFFICES ASSUME Init PROVE Types
    OBVIOUS
  <1>1. updates \in Seq(Update) /\ deletions \in Seq(User) /\ created \in Seq(User) /\ removed \in Seq(User)
    BY EmptySeq DEF Init
  <1>2. /\ updateCons \in Consumer /\ deleteCons \in Consumer
        /\ updateCons.next <= Len(updates) + 1 /\ updateCons.redo \subseteq DOMAIN updates
        /\ deleteCons.next <= Len(deletions) + 1 /\ deleteCons.redo \subseteq DOMAIN deletions
    BY <1>1, RewoundTypes DEF Init
  <1>3. events \in 0 .. MaxEvents
    BY EventsAssumption DEF Init
  <1> QED BY <1>1, <1>2, <1>3 DEF Init, Types, TypeOK, FramesSet

LEMMA TypesStep == ASSUME Types, [Next]_vars PROVE Types'
  <1> USE DEF Types, TypeOK, FramesSet
  <1>0. /\ 1 \in Nat /\ \A n \in Nat : n + 1 \in Nat
    OBVIOUS
  <1>1. ASSUME NEW u \in User, PublishUserRegistered(u) PROVE Types'
    <2>1. events' \in 0 .. MaxEvents
      BY <1>1, EventsAssumption DEF PublishUserRegistered
    <2>2. created' \in Seq(User)
      BY <1>1, AppendTypes DEF PublishUserRegistered
    <2> QED BY <1>1, <2>1, <2>2 DEF PublishUserRegistered, patches, stored, consumer
  <1>2. ASSUME NEW u \in User, PublishUserDeleted(u) PROVE Types'
    <2>1. removed' \in Seq(User)
      BY <1>2, AppendTypes DEF PublishUserDeleted
    <2>2. /\ deletions' \in Seq(User)
          /\ deleteCons'.next <= Len(deletions') + 1 /\ deleteCons'.redo \subseteq DOMAIN deletions'
      BY <1>2, AppendTypes DEF PublishUserDeleted, consumer, Consumer
    <2>3. events' \in 0 .. MaxEvents
      BY <1>2, EventsAssumption DEF PublishUserDeleted
    <2> QED BY <1>2, <2>1, <2>2, <2>3 DEF PublishUserDeleted, patches, consumer
  <1>3. CASE ProfileStart
    BY <1>3 DEF ProfileStart, auth, patches, stored, consumer
  <1>4. CASE ProfileCrash
    <2>1. missed' \subseteq User
      BY <1>4, LenProperties, ElementOfSeq DEF ProfileCrash, Range
    <2>2. pc' \in [Request -> {"new", "publish", "done", "failed"}] /\ FramesSet'
      BY <1>4 DEF ProfileCrash
    <2> QED BY <1>4, <2>1, <2>2, EmptySeq DEF ProfileCrash, auth, stored, consumer
  <1>5. CASE HandleUserRegistered
    <2>1. Head(created) \in User /\ created' \in Seq(User)
      BY <1>5, HeadTailProperties DEF HandleUserRegistered
    <2>2. DefaultRow(Head(created)) \in Profile
      BY <2>1 DEF DefaultRow, Profile
    <2>3. profile' \in [User -> Profile \union {null}]
      BY <1>5, <2>1, <2>2 DEF HandleUserRegistered
    <2> QED BY <1>5, <2>1, <2>3 DEF HandleUserRegistered, auth, patches, stored, consumer
  <1>6. CASE HandleUserDeleted
    <2>1. Head(removed) \in User /\ removed' \in Seq(User)
      BY <1>6, HeadTailProperties DEF HandleUserDeleted
    <2>2. profile' \in [User -> Profile \union {null}] /\ missed' \subseteq User
      BY <1>6, <2>1, Deactivates DEF HandleUserDeleted
    <2> QED BY <1>6, <2>1, <2>2 DEF HandleUserDeleted, auth, patches, stored, consumer
  <1>7. ASSUME NEW u \in User, DeactivateMe(u) PROVE Types'
    <2>1. profile' \in [User -> Profile \union {null}]
      BY <1>7, Deactivates DEF DeactivateMe
    <2> QED BY <1>7, <2>1 DEF DeactivateMe, auth, inboxes, patches, stored, consumer
  <1>8. ASSUME NEW r \in Request, NEW u \in User, PatchUpsert(r, u) PROVE Types'
    <2>1. edits' \in Nat
      BY <1>8 DEF PatchUpsert
    <2>2. Edited(u, edits') \in Profile
      <3>1. profile[u] \in Profile \union {null}
        OBVIOUS
      <3> HIDE DEF Types, TypeOK, FramesSet
      <3> QED BY <2>1, <3>1, EditedTypes
    <2>3. profile' \in [User -> Profile \union {null}]
      BY <1>8, <2>2 DEF PatchUpsert
    <2>4. [user |-> u, edit |-> edits'] \in Update
      BY <2>1 DEF Update
    <2>5. /\ pc' \in [Request -> {"new", "publish", "done", "failed"}]
          /\ frame' \in [Request -> Update \union {null}]
          /\ FramesSet'
      BY <1>8, <2>4 DEF PatchUpsert
    <2> QED BY <1>8, <2>1, <2>3, <2>5 DEF PatchUpsert, auth, inboxes, stored, consumer
  <1>9. ASSUME NEW r \in Request, PatchPublish(r) PROVE Types'
    <2>1. /\ pc' \in [Request -> {"new", "publish", "done", "failed"}]
          /\ frame' \in [Request -> Update \union {null}]
          /\ FramesSet'
      BY <1>9 DEF PatchPublish
    <2>2. frame[r] \in Update
      BY <1>9 DEF PatchPublish
    <2>3. /\ updates' \in Seq(Update)
          /\ updateCons'.next <= Len(updates') + 1 /\ updateCons'.redo \subseteq DOMAIN updates'
      <3>1. updateCons' = updateCons /\ (updates' = updates \/ updates' = Append(updates, frame[r]))
        BY <1>9 DEF PatchPublish, consumer
      <3>2. /\ Append(updates, frame[r]) \in Seq(Update)
            /\ Len(Append(updates, frame[r])) = Len(updates) + 1 /\ Len(updates) \in Nat
            /\ DOMAIN updates \subseteq DOMAIN Append(updates, frame[r])
        BY <2>2, AppendTypes
      <3>3. updateCons.next \in Nat
        BY DEF Consumer
      <3>4. CASE updates' = updates
        BY <3>1, <3>4
      <3>5. CASE updates' = Append(updates, frame[r])
        <4>1. updateCons.next <= Len(updates) + 1 + 1 /\ updateCons.redo \subseteq DOMAIN updates
          BY <3>2, <3>3
        <4>2. Len(updates') = Len(updates) + 1 /\ DOMAIN updates \subseteq DOMAIN updates'
          BY <3>2, <3>5
        <4> QED BY <3>1, <3>2, <3>5, <4>1, <4>2
      <3> QED BY <3>1, <3>4, <3>5
    <2> QED BY <1>9, <2>1, <2>3 DEF PatchPublish, auth, inboxes, consumer
  <1>10. CASE SearchStart
    BY <1>10, RewoundTypes DEF SearchStart, auth, inboxes, patches
  <1>11. CASE SearchCrash
    BY <1>11 DEF SearchCrash, auth, inboxes, patches, stored
  <1>12. ASSUME NEW m \in DOMAIN updates, HandleProfileUpdated(m) PROVE Types'
    <2>1. m \in Deliverable(updateCons, updates)
      BY <1>12 DEF HandleProfileUpdated
    <2>2. updateCons' \in {Given(updateCons, m), Again(Given(updateCons, m), m)}
      BY <1>12 DEF HandleProfileUpdated
    <2>3. /\ updateCons' \in Consumer /\ updateCons'.next <= Len(updates) + 1
          /\ updateCons'.redo \subseteq DOMAIN updates
      <3>1. /\ Len(updates) \in Nat /\ DOMAIN updates = 1 .. Len(updates) /\ updateCons \in Consumer
            /\ updateCons.next <= Len(updates) + 1 /\ updateCons.redo \subseteq DOMAIN updates
        BY LenProperties
      <3> HIDE DEF Types, TypeOK
      <3> QED BY <2>1, <2>2, <3>1, GivenTypes
    <2>4. updates[m] \in Update
      BY LenProperties, ElementOfSeq
    <2>5. index' \in [User -> Nat \union {null}] /\ redone' \subseteq User
      BY <1>12, <2>4 DEF HandleProfileUpdated, Update
    <2> QED BY <1>12, <2>3, <2>5 DEF HandleProfileUpdated, auth, inboxes, patches, stored
  <1>13. ASSUME NEW m \in DOMAIN deletions, HandleUserDeletedInSearch(m) PROVE Types'
    <2>1. m \in Deliverable(deleteCons, deletions)
      BY <1>13 DEF HandleUserDeletedInSearch
    <2>2. /\ deleteCons' \in Consumer /\ deleteCons'.next <= Len(deletions) + 1
          /\ deleteCons'.redo \subseteq DOMAIN deletions
      <3>1. /\ Len(deletions) \in Nat /\ DOMAIN deletions = 1 .. Len(deletions)
            /\ deleteCons \in Consumer
            /\ deleteCons.next <= Len(deletions) + 1 /\ deleteCons.redo \subseteq DOMAIN deletions
        BY LenProperties
      <3>2. deleteCons' \in {Given(deleteCons, m), Again(Given(deleteCons, m), m)}
        BY <1>13 DEF HandleUserDeletedInSearch
      <3> HIDE DEF Types, TypeOK
      <3> QED BY <2>1, <3>1, <3>2, GivenTypes
    <2>3. index' \in [User -> Nat \union {null}]
      BY <1>13 DEF HandleUserDeletedInSearch
    <2> QED BY <1>13, <2>2, <2>3 DEF HandleUserDeletedInSearch, auth, inboxes, patches, stored
  <1>14. CASE UNCHANGED vars
    BY <1>14 DEF vars, auth, inboxes, patches, stored, consumer
  <1> QED BY <1>1, <1>2, <1>3, <1>4, <1>5, <1>6, <1>7, <1>8, <1>9, <1>10, <1>11, <1>12, <1>13, <1>14
          DEF Next, ProfileService, SearchService

-----------------------------------------------------------------------------
(* Rows *)

(* A row never goes away, never goes back to an earlier edit and never     *)
(* becomes active again.                                                   *)
RowAdvances(u) ==
  profile[u] # null =>
    /\ profile'[u] # null
    /\ profile'[u].edit >= profile[u].edit
    /\ ~profile[u].active => ~profile'[u].active

EditsBounded == \A u \in User : profile[u] # null => profile[u].edit <= edits

(* The ways in which a row changes. *)
RowChanges(u) ==
  \/ profile'[u] = profile[u] /\ edits' >= edits
  \/ profile[u] = null /\ profile'[u] = [edit |-> 0, active |-> TRUE] /\ edits' = edits
  \/ profile[u] = null /\ profile'[u] = [edit |-> edits', active |-> TRUE] /\ edits' = edits + 1
  \/ profile[u] # null /\ profile'[u] = [profile[u] EXCEPT !.edit = edits'] /\ edits' = edits + 1
  \/ profile[u] # null /\ profile'[u] = [profile[u] EXCEPT !.active = FALSE] /\ edits' = edits

LEMMA Changes == ASSUME Types, [Next]_vars, NEW u \in User PROVE RowChanges(u)
  <1> USE DEF Types, TypeOK
  <1>0. ASSUME NEW v \in User, edits' = edits,
               profile' = profile \/ (profile[v] # null /\ profile' = [profile EXCEPT ![v].active = FALSE])
        PROVE  RowChanges(u)
    <2>1. CASE profile' = profile
      BY <1>0, <2>1 DEF RowChanges
    <2>2. CASE profile[v] # null /\ profile' = [profile EXCEPT ![v].active = FALSE]
      <3>1. /\ profile'[v] = [profile[v] EXCEPT !.active = FALSE]
            /\ \A w \in User \ {v} : profile'[w] = profile[w]
        BY <2>2, Deactivates
      <3>2. CASE u = v
        BY <1>0, <2>2, <3>1, <3>2 DEF RowChanges
      <3>3. CASE u # v
        BY <1>0, <3>1, <3>3 DEF RowChanges
      <3> QED BY <3>2, <3>3
    <2> QED BY <1>0, <2>1, <2>2
  <1>1. CASE UNCHANGED <<profile, edits>>
    BY <1>1 DEF RowChanges
  <1>2. CASE HandleUserRegistered
    <2>1. Head(created) \in User /\ edits' = edits
      BY <1>2, HeadTailProperties DEF HandleUserRegistered, patches
    <2>2. profile'[u] = profile[u] \/ profile'[u] = DefaultRow(u)
      BY <1>2, <2>1 DEF HandleUserRegistered
    <2> QED BY <2>1, <2>2 DEF DefaultRow, RowChanges
  <1>3. CASE HandleUserDeleted
    <2>1. Head(removed) \in User /\ edits' = edits
      BY <1>3, HeadTailProperties DEF HandleUserDeleted, patches
    <2>2. \/ profile' = profile
          \/ /\ profile[Head(removed)] # null
             /\ profile' = [profile EXCEPT ![Head(removed)].active = FALSE]
      BY <1>3 DEF HandleUserDeleted
    <2> QED BY <1>0, <2>1, <2>2
  <1>4. ASSUME NEW v \in User, DeactivateMe(v) PROVE RowChanges(u)
    BY <1>0, <1>4 DEF DeactivateMe, patches
  <1>5. ASSUME NEW r \in Request, NEW v \in User, PatchUpsert(r, v) PROVE RowChanges(u)
    <2>1. edits' = edits + 1 /\ (profile'[u] = profile[u] \/ profile'[u] = Edited(u, edits'))
      BY <1>5 DEF PatchUpsert
    <2> QED BY <2>1 DEF Edited, RowChanges
  <1> QED BY <1>1, <1>2, <1>3, <1>4, <1>5
          DEF Next, ProfileService, SearchService, vars, patches, PublishUserRegistered,
              PublishUserDeleted, ProfileStart, ProfileCrash, PatchPublish, SearchStart,
              SearchCrash, HandleProfileUpdated, HandleUserDeletedInSearch

LEMMA RowStep ==
  ASSUME Types, EditsBounded, [Next]_vars, NEW u \in User
  PROVE  RowAdvances(u) /\ (profile'[u] # null => profile'[u].edit <= edits')
  <1>1. edits \in Nat /\ edits' \in Nat
    BY TypesStep DEF Types, TypeOK
  <1>2. profile[u] # null => /\ profile[u] \in Profile /\ profile[u].edit <= edits
                             /\ profile[u].edit \in Nat
    BY DEF Types, TypeOK, EditsBounded, Profile
  <1>3. RowChanges(u)
    BY Changes
  <1>4. \A n \in Nat, b \in BOOLEAN :
          [edit |-> n, active |-> b].edit = n /\ [edit |-> n, active |-> b] \in Profile
    BY DEF Profile
  <1>5. null \notin Profile
    OBVIOUS
  <1>6. CASE profile'[u] = profile[u] /\ edits' >= edits
    BY <1>1, <1>2, <1>6 DEF RowAdvances
  <1>7. CASE profile[u] = null
    BY <1>1, <1>3, <1>4, <1>5, <1>7 DEF RowAdvances, RowChanges
  <1>8. CASE profile[u] # null /\ profile'[u] = [profile[u] EXCEPT !.edit = edits'] /\ edits' = edits + 1
    <2>1. profile'[u] # null /\ profile'[u].edit = edits' /\ profile'[u].active = profile[u].active
      BY <1>1, <1>2, <1>8, EditedFields
    <2>2. edits + 1 >= profile[u].edit /\ edits' <= edits'
      BY <1>1, <1>2, <1>8
    <2> QED BY <1>8, <2>1, <2>2 DEF RowAdvances
  <1>9. CASE profile[u] # null /\ profile'[u] = [profile[u] EXCEPT !.active = FALSE] /\ edits' = edits
    <2>1. profile'[u] # null /\ profile'[u].edit = profile[u].edit /\ ~profile'[u].active
      <3>1. profile'[u] \in Profile
        BY <1>2, <1>9, RowFields
      <3>2. profile'[u].edit = profile[u].edit /\ ~profile'[u].active
        BY <1>2, <1>9, RowFields
      <3> QED BY <1>5, <3>1, <3>2
    <2>2. profile[u].edit >= profile[u].edit /\ profile[u].edit <= edits
      BY <1>2, <1>9
    <2> QED BY <1>9, <2>1, <2>2 DEF RowAdvances
  <1> QED BY <1>3, <1>6, <1>7, <1>8, <1>9 DEF RowChanges

LEMMA HoldsOn ==
  ASSUME Types, Types', EditsBounded, [Next]_vars, NEW u \in User, NEW e \in Nat, Holds(u, e)
  PROVE  Holds(u, e)'
  <1>1. RowAdvances(u)
    BY RowStep
  <1>2. profile[u].edit \in Nat /\ (profile'[u] # null => profile'[u].edit \in Nat)
    BY DEF Types, TypeOK, Holds, Profile
  <1> QED BY <1>1, <1>2 DEF Holds, RowAdvances

LEMMA BoundStep == ASSUME Types, EditsBounded, [Next]_vars PROVE EditsBounded'
  BY RowStep DEF EditsBounded

LEMMA SavedStep == ASSUME Types, Types', Saved, [Next]_vars PROVE Saved'
  <1>0. EditsBounded /\ EditsBounded'
    BY BoundStep DEF Saved, EditsBounded
  <1>1. \A m \in DOMAIN updates : updates[m].user \in User /\ updates[m].edit \in Nat
    <2>1. \A m \in DOMAIN updates : updates[m] \in Update
      BY SeqElements DEF Types, TypeOK
    <2> QED BY <2>1 DEF Update
  <1>2. \A r \in Request : pc[r] = "publish" => frame[r].user \in User /\ frame[r].edit \in Nat
    BY DEF Types, FramesSet, Update
  <1>3. ASSUME NEW r \in Request, pc'[r] = "publish"
        PROVE  Holds(frame[r].user, frame[r].edit)'
    <2>1. CASE pc[r] = "publish" /\ frame'[r] = frame[r]
      <3>1. Holds(frame[r].user, frame[r].edit)
        BY <2>1 DEF Saved
      <3> DEFINE u == frame[r].user
                 e == frame[r].edit
      <3>2. u \in User /\ e \in Nat
        BY <1>2, <2>1
      <3>3. profile'[u] # null /\ profile'[u].edit >= e
        <4> HIDE DEF u, e
        <4>1. Holds(u, e)
          BY <3>1 DEF u, e
        <4> QED BY <1>0, <3>2, <4>1, HoldsOn DEF Holds
      <3> QED BY <2>1, <3>3 DEF Holds
    <2>2. CASE \E u \in User : PatchUpsert(r, u)
      <3> PICK u \in User : PatchUpsert(r, u)
        BY <2>2
      <3>1. edits' \in Nat /\ profile'[u] = Edited(u, edits')
        BY DEF PatchUpsert, Types, TypeOK
      <3>2. Edited(u, edits').edit = edits' /\ Edited(u, edits') # null
        <4>1. profile[u] # null => profile[u] \in Profile
          BY DEF Types, TypeOK
        <4>2. [edit |-> edits', active |-> TRUE] \in Profile
          BY <3>1 DEF Profile
        <4>3. [edit |-> edits', active |-> TRUE].edit = edits' /\ [edit |-> edits', active |-> TRUE] # null
          BY <4>2
        <4> QED BY <3>1, <4>1, <4>3, EditedFields DEF Edited
      <3>3. frame'[r].user = u /\ frame'[r].edit = edits'
        BY DEF PatchUpsert, Types, TypeOK
      <3> QED BY <3>1, <3>2, <3>3 DEF Holds
    <2>3. CASE UNCHANGED <<pc, frame>>
      BY <1>3, <2>1, <2>3
    <2>4. CASE ProfileCrash
      BY <1>3, <2>4 DEF ProfileCrash, Types, TypeOK
    <2>5. ASSUME NEW q \in Request, q # r, NEW u \in User, PatchUpsert(q, u)
          PROVE  Holds(frame[r].user, frame[r].edit)'
      BY <1>3, <2>1, <2>5 DEF PatchUpsert, Types, TypeOK
    <2>6. ASSUME NEW q \in Request, PatchPublish(q) PROVE Holds(frame[r].user, frame[r].edit)'
      BY <1>3, <2>1, <2>6 DEF PatchPublish, Types, TypeOK
    <2> QED
      BY <2>2, <2>3, <2>4, <2>5, <2>6
      DEF Next, ProfileService, SearchService, vars, patches, PublishUserRegistered,
          PublishUserDeleted, ProfileStart, HandleUserRegistered, HandleUserDeleted,
          DeactivateMe, SearchStart, SearchCrash, HandleProfileUpdated, HandleUserDeletedInSearch
  <1>4. ASSUME NEW m \in DOMAIN updates' PROVE Holds(updates[m].user, updates[m].edit)'
    <2>1. CASE m \in DOMAIN updates /\ updates'[m] = updates[m]
      <3> DEFINE u == updates[m].user
                 e == updates[m].edit
      <3>1. u \in User /\ e \in Nat /\ Holds(u, e)
        BY <1>1, <2>1 DEF Saved
      <3>2. profile'[u] # null /\ profile'[u].edit >= e
        <4> HIDE DEF u, e
        <4> QED BY <1>0, <3>1, HoldsOn DEF Holds
      <3> QED BY <2>1, <3>2 DEF Holds
    <2>2. ASSUME NEW r \in Request, PatchPublish(r), updates' # updates
          PROVE  \/ m \in DOMAIN updates /\ updates'[m] = updates[m]
                 \/ updates'[m] = frame[r] /\ pc[r] = "publish"
      <3>1. updates' = Append(updates, frame[r]) /\ pc[r] = "publish" /\ frame[r] \in Update
        BY <2>2 DEF PatchPublish, Types, FramesSet
      <3>2. updates \in Seq(Update)
        BY DEF Types, TypeOK
      <3>3. /\ Len(updates) \in Nat
            /\ DOMAIN updates = 1 .. Len(updates) /\ DOMAIN updates' = 1 .. Len(updates) + 1
            /\ \A n \in DOMAIN updates : updates'[n] = updates[n]
            /\ updates'[Len(updates) + 1] = frame[r]
        BY <3>1, <3>2, AppendTypes
      <3> QED BY <1>4, <3>1, <3>3
    <2>3. ASSUME NEW r \in Request, PatchPublish(r), updates'[m] = frame[r], pc[r] = "publish"
          PROVE  Holds(updates[m].user, updates[m].edit)'
      <3> DEFINE u == frame[r].user
                 e == frame[r].edit
      <3>1. u \in User /\ e \in Nat /\ Holds(u, e)
        BY <1>2, <2>3 DEF Saved
      <3>2. profile'[u] # null /\ profile'[u].edit >= e
        <4> HIDE DEF u, e
        <4> QED BY <1>0, <3>1, HoldsOn DEF Holds
      <3> QED BY <2>3, <3>2 DEF Holds
    <2> QED
      BY <1>4, <2>1, <2>2, <2>3
      DEF Next, ProfileService, SearchService, vars, stored, PublishUserRegistered,
          PublishUserDeleted, ProfileStart, ProfileCrash, HandleUserRegistered, HandleUserDeleted,
          DeactivateMe, PatchUpsert, SearchStart, SearchCrash, HandleProfileUpdated,
          HandleUserDeletedInSearch
  <1>5. ASSUME NEW u \in User, index'[u] # null PROVE Holds(u, index[u])'
    <2>1. \/ index'[u] = index[u]
          \/ \E m \in DOMAIN updates : updates[m].user = u /\ index'[u] = updates[m].edit
      BY <1>5, SMTT(30) DEF Types, TypeOK, Next, ProfileService, SearchService, vars, PublishUserRegistered,
          PublishUserDeleted, ProfileStart, ProfileCrash, HandleUserRegistered, HandleUserDeleted,
          DeactivateMe, PatchUpsert, PatchPublish, SearchStart, SearchCrash, HandleProfileUpdated,
          HandleUserDeletedInSearch
    <2>2. \E e \in Nat : index'[u] = e /\ Holds(u, e)
      BY <1>1, <1>5, <2>1, SMTT(30) DEF Saved, Types, TypeOK
    <2>3. PICK e \in Nat : index'[u] = e /\ Holds(u, e)
      BY <2>2
    <2>4. profile'[u] # null /\ profile'[u].edit >= e
      BY <1>0, <2>3, HoldsOn DEF Holds
    <2> QED BY <2>3, <2>4 DEF Holds
  <1> QED BY <1>0, <1>3, <1>4, <1>5 DEF Saved, EditsBounded

LEMMA DeletionStep ==
  ASSUME Types, DeletionReachesProfile, EditsBounded, [Next]_vars
  PROVE  DeletionReachesProfile'
  <1> USE DEF Types, TypeOK
  <1> SUFFICES ASSUME NEW u \in gone', u \notin missed', u \notin Range(removed')
               PROVE  profile'[u] # null /\ ~profile'[u].active
    BY DEF DeletionReachesProfile
  <1>1. u \in User
    BY TypesStep
  <1>2. CASE u \in gone /\ u \notin missed /\ u \notin Range(removed)
    <2>1. profile[u] # null /\ ~profile[u].active
      BY <1>2 DEF DeletionReachesProfile
    <2> QED BY <1>1, <2>1, RowStep DEF RowAdvances
  <1>3. CASE HandleUserDeleted
    <2>1. /\ Head(removed) \in User /\ removed' = Tail(removed)
          /\ removed \in Seq(User) /\ removed # <<>>
      BY <1>3, HeadTailProperties DEF HandleUserDeleted
    <2>2. Range(removed) \subseteq {Head(removed)} \union Range(removed')
      BY <2>1, TailRange
    <2>3. CASE u = Head(removed)
      <3>1. profile[u] # null /\ profile' = [profile EXCEPT ![u].active = FALSE]
        BY <1>3, <2>3 DEF HandleUserDeleted
      <3>2. profile[u] \in Profile /\ profile'[u] = [profile[u] EXCEPT !.active = FALSE]
        BY <1>1, <3>1, Deactivates
      <3>3. ~[profile[u] EXCEPT !.active = FALSE].active /\ [profile[u] EXCEPT !.active = FALSE] # null
        BY <3>2, RowFields
      <3> QED BY <3>2, <3>3
    <2>4. CASE u # Head(removed)
      <3>1. u \in gone /\ u \notin missed /\ u \notin Range(removed)
        BY <1>3, <2>2, <2>4 DEF HandleUserDeleted, auth
      <3> QED BY <1>2, <3>1
    <2> QED BY <2>3, <2>4
  <1>4. ASSUME NEW v \in User, PublishUserDeleted(v) PROVE profile'[u] # null /\ ~profile'[u].active
    <2>1. Range(removed) \subseteq Range(removed')
      BY <1>4, AppendRange DEF PublishUserDeleted
    <2>2. missed \subseteq missed'
      BY <1>4 DEF PublishUserDeleted
    <2>3. u # v
      <3>1. CASE profileUp
        <4>1. removed' = Append(removed, v)
          BY <1>4, <3>1 DEF PublishUserDeleted
        <4>2. v \in Range(removed')
          BY <4>1, AppendRange
        <4> QED BY <4>2
      <3>2. CASE ~profileUp
        BY <1>4, <3>2 DEF PublishUserDeleted
      <3> QED BY <3>1, <3>2
    <2> QED BY <1>2, <1>4, <2>1, <2>2, <2>3 DEF PublishUserDeleted
  <1>5. CASE ProfileCrash
    BY <1>2, <1>5 DEF ProfileCrash, auth
  <1> QED BY <1>2, <1>3, <1>4, <1>5
          DEF Next, ProfileService, SearchService, vars, auth, inboxes, PublishUserRegistered,
              ProfileStart, HandleUserRegistered, DeactivateMe, PatchUpsert, PatchPublish,
              SearchStart, SearchCrash, HandleProfileUpdated, HandleUserDeletedInSearch

-----------------------------------------------------------------------------
(* The index *)

(* What InStep says of one user. *)
Follows(u) ==
  /\ updateCons.redo \intersect UpdatesOf(u) = {}
  /\ (\E m \in UpdatesOf(u) : m < updateCons.next) =>
       \E m \in UpdatesOf(u) : LastPassed(u, m) /\ index[u] = updates[m].edit

LEMMA InStepByUser ==
  InStep <=> (searchUp => \A u \in User \ (redone \union Range(deletions)) : Follows(u))
  BY DEF InStep, Follows

(* A step that leaves the document of u and the consumer's place among its *)
(* messages alone.                                                         *)
LEMMA FollowsOn ==
  ASSUME Types, NEW u \in User, Follows(u),
         UpdatesOf(u) \subseteq UpdatesOf(u)',
         \A m \in UpdatesOf(u)' : m < updateCons'.next => m \in UpdatesOf(u) /\ m < updateCons.next,
         \A m \in UpdatesOf(u) : updates'[m] = updates[m] /\ (m < updateCons.next => m < updateCons'.next),
         updateCons'.redo \intersect UpdatesOf(u)' = {},
         index'[u] = index[u]
  PROVE  Follows(u)'
  BY DEF Follows, LastPassed

LEMMA PublishFollows ==
  ASSUME Types, NEW r \in Request, PatchPublish(r), NEW u \in User, Follows(u)
  PROVE  Follows(u)'
  <1> USE DEF Types, TypeOK
  <1>1. /\ updateCons' = updateCons /\ index' = index
        /\ updates' = updates \/ (updates' = Append(updates, frame[r]) /\ frame[r] \in Update)
    BY DEF PatchPublish, consumer, FramesSet
  <1>2. CASE updates' = updates
    BY <1>1, <1>2 DEF Follows, LastPassed, UpdatesOf
  <1>3. CASE updates' = Append(updates, frame[r]) /\ frame[r] \in Update
    <2>1. /\ Len(updates) \in Nat
          /\ DOMAIN updates = 1 .. Len(updates)
          /\ DOMAIN updates' = 1 .. Len(updates) + 1
          /\ \A m \in DOMAIN updates : updates'[m] = updates[m]
      BY <1>3, AppendTypes
    <2>2. /\ updateCons.next \in Nat /\ updateCons.next <= Len(updates) + 1
          /\ updateCons.redo \subseteq 1 .. Len(updates)
      BY <2>1 DEF Consumer
    <2>3. \A m \in DOMAIN updates' : m < updateCons.next => m \in DOMAIN updates
      BY <2>1, <2>2
    <2>4. UpdatesOf(u) \subseteq UpdatesOf(u)'
      BY <2>1 DEF UpdatesOf
    <2>5. \A m \in UpdatesOf(u)' : m \in DOMAIN updates => m \in UpdatesOf(u)
      BY <2>1 DEF UpdatesOf
    <2>6. updateCons.redo \intersect UpdatesOf(u)' = {}
      BY <2>1, <2>2, <2>5 DEF Follows
    <2>7. \A m \in UpdatesOf(u)' : m < updateCons'.next => m \in UpdatesOf(u) /\ m < updateCons.next
      BY <1>1, <2>3, <2>5 DEF UpdatesOf
    <2>8. \A m \in UpdatesOf(u) :
            updates'[m] = updates[m] /\ (m < updateCons.next => m < updateCons'.next)
      BY <1>1, <2>1 DEF UpdatesOf
    <2> QED BY <1>1, <2>4, <2>6, <2>7, <2>8, FollowsOn
  <1> QED BY <1>1, <1>2, <1>3

LEMMA HandleFollows ==
  ASSUME Types, NEW m \in DOMAIN updates, HandleProfileUpdated(m),
         NEW u \in User, u \notin redone', Follows(u)
  PROVE  Follows(u)'
  <1> USE DEF Types, TypeOK
  <1>1. m \in Deliverable(updateCons, updates) /\ updates' = updates
    BY DEF HandleProfileUpdated, stored
  <1>2. /\ updateCons' \in {Given(updateCons, m), Again(Given(updateCons, m), m)}
        /\ updateCons'.next = IF m = updateCons.next THEN m + 1 ELSE updateCons.next
    <2>1. /\ Len(updates) \in Nat /\ DOMAIN updates = 1 .. Len(updates) /\ updateCons \in Consumer
          /\ updateCons.next <= Len(updates) + 1 /\ updateCons.redo \subseteq DOMAIN updates
      BY LenProperties
    <2>2. updateCons' \in {Given(updateCons, m), Again(Given(updateCons, m), m)}
      BY DEF HandleProfileUpdated
    <2> HIDE DEF Types, TypeOK
    <2> QED BY <1>1, <2>1, <2>2, GivenTypes
  <1>3. updateCons'.redo \subseteq updateCons.redo \union {m}
    BY <1>2 DEF Given, Again
  <1>4. /\ DOMAIN updates \subseteq Nat /\ updateCons.next \in Nat
        /\ UpdatesOf(u)' = UpdatesOf(u) /\ UpdatesOf(u) \subseteq DOMAIN updates
    BY <1>1, LenProperties DEF UpdatesOf, Consumer
  <1>5. CASE updates[m].user # u
    <2>1. m \notin UpdatesOf(u)
      BY <1>5 DEF UpdatesOf
    <2>2. index'[u] = index[u]
      BY <1>5 DEF HandleProfileUpdated
    <2>3. updateCons'.redo \intersect UpdatesOf(u)' = {}
      <3>1. updateCons.redo \intersect UpdatesOf(u) = {}
        BY DEF Follows
      <3>2. UpdatesOf(u)' = UpdatesOf(u) /\ updateCons'.redo \subseteq updateCons.redo \union {m}
        BY <1>3, <1>4
      <3> HIDE DEF Types, TypeOK
      <3> QED BY <2>1, <3>1, <3>2
    <2>4. \A n \in UpdatesOf(u) : n < updateCons'.next <=> n < updateCons.next
      BY <1>2, <1>4, <2>1
    <2> QED BY <1>1, <1>4, <2>2, <2>3, <2>4, FollowsOn
  <1>6. CASE updates[m].user = u
    <2>1. /\ index' = [index EXCEPT ![u] = updates[m].edit]
          /\ updateCons' = Given(updateCons, m)
      BY <1>6 DEF HandleProfileUpdated
    <2>2. m \in UpdatesOf(u) /\ index'[u] = updates'[m].edit
      BY <1>1, <1>6, <2>1 DEF UpdatesOf
    <2>3. m = updateCons.next
      BY <1>1, <2>2 DEF Follows, Deliverable
    <2>4. updateCons'.next = m + 1 /\ updateCons'.redo \intersect UpdatesOf(u) = {}
      BY <1>2, <2>1, <2>3 DEF Given, Follows
    <2>5. \A n \in UpdatesOf(u) : n < m + 1 => n <= m
      BY <1>4
    <2>6. LastPassed(u, m)'
      BY <1>4, <2>2, <2>4, <2>5 DEF LastPassed
    <2> QED BY <1>4, <2>2, <2>4, <2>6 DEF Follows
  <1> QED BY <1>5, <1>6

LEMMA InStepStep == ASSUME Types, InStep, [Next]_vars PROVE InStep'
  <1> USE DEF Types, TypeOK
  <1> SUFFICES ASSUME searchUp', NEW u \in User, u \notin redone', u \notin Range(deletions')
               PROVE  Follows(u)'
    <2>1. (searchUp => \A u \in User \ (redone \union Range(deletions)) : Follows(u))' => InStep'
      BY DEF InStep, Follows, LastPassed, UpdatesOf
    <2> QED BY <2>1
  <1>1. ASSUME UNCHANGED <<updates, updateCons, index>>, Follows(u) PROVE Follows(u)'
    BY <1>1 DEF Follows, LastPassed, UpdatesOf
  <1>2. ASSUME searchUp, u \notin redone, u \notin Range(deletions) PROVE Follows(u)
    BY <1>2, InStepByUser
  <1>3. ASSUME NEW v \in User, PublishUserDeleted(v) PROVE Follows(u)'
    <2>1. Range(deletions) \subseteq Range(deletions')
      BY <1>3, AppendRange DEF PublishUserDeleted
    <2> QED BY <1>1, <1>2, <1>3, <2>1 DEF PublishUserDeleted, consumer
  <1>4. ASSUME NEW r \in Request, PatchPublish(r) PROVE Follows(u)'
    BY <1>2, <1>4, PublishFollows DEF PatchPublish, consumer
  <1>5. CASE SearchStart
    <2>1. updateCons'.next = 1 /\ updateCons'.redo = {}
      BY <1>5 DEF SearchStart, Rewound
    <2>2. \A m \in UpdatesOf(u)' : ~(m < 1)
      <3>1. updates' = updates /\ DOMAIN updates = 1 .. Len(updates) /\ Len(updates) \in Nat
        BY <1>5, LenProperties DEF SearchStart
      <3> QED BY <3>1 DEF UpdatesOf
    <2> QED BY <2>1, <2>2 DEF Follows
  <1>6. CASE SearchCrash
    BY <1>6 DEF SearchCrash
  <1>7. ASSUME NEW m \in DOMAIN updates, HandleProfileUpdated(m) PROVE Follows(u)'
    <2>1. searchUp /\ u \notin redone /\ u \notin Range(deletions)
      BY <1>7 DEF HandleProfileUpdated, stored
    <2> QED BY <1>2, <1>7, <2>1, HandleFollows
  <1>8. ASSUME NEW m \in DOMAIN deletions, HandleUserDeletedInSearch(m) PROVE Follows(u)'
    <2>1. searchUp /\ u \notin redone /\ u \notin Range(deletions)
      BY <1>8 DEF HandleUserDeletedInSearch, stored
    <2>2. deletions[m] # u
      BY <2>1 DEF Range
    <2>3. index'[u] = index[u] /\ UNCHANGED <<updates, updateCons>>
      BY <1>8, <2>2 DEF HandleUserDeletedInSearch, stored
    <2>4. Follows(u)
      BY <1>2, <2>1
    <2> QED BY <2>3, <2>4 DEF Follows, LastPassed, UpdatesOf
  <1> QED BY <1>1, <1>2, <1>3, <1>4, <1>5, <1>6, <1>7, <1>8
          DEF Next, ProfileService, SearchService, vars, stored, consumer, PublishUserRegistered,
              ProfileStart, ProfileCrash, HandleUserRegistered, HandleUserDeleted, DeactivateMe,
              PatchUpsert

-----------------------------------------------------------------------------
(* Theorems *)

IInv == Types /\ Saved /\ DeletionReachesProfile /\ InStep

LEMMA Inductive == Spec => []IInv
  <1>1. Init => IInv
    <2>1. Init => Saved /\ DeletionReachesProfile /\ InStep
      BY DEF Init, Saved, DeletionReachesProfile, InStep
    <2> QED BY <2>1, InitTypes DEF IInv
  <1>2. IInv /\ [Next]_vars => IInv'
    <2> SUFFICES ASSUME IInv, [Next]_vars PROVE IInv'
      OBVIOUS
    <2>1. Types /\ Saved /\ DeletionReachesProfile /\ InStep /\ EditsBounded
      BY DEF IInv, Saved, EditsBounded
    <2>2. Types'
      BY <2>1, TypesStep
    <2>3. Saved'
      BY <2>1, <2>2, SavedStep
    <2>4. DeletionReachesProfile'
      BY <2>1, DeletionStep
    <2>5. InStep'
      BY <2>1, InStepStep
    <2> QED BY <2>2, <2>3, <2>4, <2>5 DEF IInv
  <1> QED BY <1>1, <1>2, PTL DEF Spec

(* The tables, subscriptions, streams and consumers have their types. *)
THEOREM TypeCorrect == Spec => []TypeOK
  <1>1. IInv => TypeOK
    BY DEF IInv, Types
  <1> QED BY <1>1, Inductive, PTL

(* For any number of users and edits and any replays: whoever a search     *)
(* returns has a profile row, as new as the document (search.listener.ts:42*)
(* indexes only what profile.service.ts:46 has saved).                     *)
THEOREM HitsAreProfiles == Spec => []HitsHaveProfiles
  <1>1. IInv => HitsHaveProfiles
    BY DEF IInv, Saved, Holds, HitsHaveProfiles
  <1> QED BY <1>1, Inductive, PTL

(* A deletion that the profile service's subscription handed out and that  *)
(* found a row keeps the profile inactive (profile.listener.ts:38-51).     *)
THEOREM DeletionHolds == Spec => []DeletionReachesProfile
  <1>1. IInv => DeletionReachesProfile
    BY DEF IInv
  <1> QED BY <1>1, Inductive, PTL

(* Streams are replayed from the start as often as the service restarts:   *)
(* when its consumer is at the end, the documents are those of the last    *)
(* updates, but for users redelivered or deleted (search.listener.ts:26-50)*)
THEOREM IndexFollows == Spec => []IndexFollowsStream
  <1>1. IInv => IndexFollowsStream
    <2> SUFFICES ASSUME IInv, searchUp, CaughtUp,
                        NEW u \in User \ (redone \union Range(deletions)), UpdatesOf(u) # {}
                 PROVE  \E m \in UpdatesOf(u) :
                          index[u] = updates[m].edit /\ \A n \in UpdatesOf(u) : n <= m
      BY DEF IndexFollowsStream
    <2>1. Follows(u)
      BY InStepByUser DEF IInv
    <2>2. \A m \in UpdatesOf(u) : m < updateCons.next
      BY LenProperties DEF IInv, Types, TypeOK, UpdatesOf, CaughtUp
    <2>3. PICK m \in UpdatesOf(u) : LastPassed(u, m) /\ index[u] = updates[m].edit
      BY <2>1, <2>2 DEF Follows
    <2> QED BY <2>2, <2>3 DEF LastPassed
  <1> QED BY <1>1, Inductive, PTL

LEMMA RowsAdvance == Spec => [][\A u \in User : RowAdvances(u)]_vars
  <1>1. IInv /\ [Next]_vars => [\A u \in User : RowAdvances(u)]_vars
    BY RowStep DEF IInv, Saved, EditsBounded
  <1> QED BY <1>1, Inductive, PTL DEF Spec

(* createIfNotExists updates nothing and edits are saved in order: no step *)
(* of any service takes an edit back (profile.repository.ts:14-56).        *)
THEOREM EditsStay == Spec => EditsSurvive
  <1>1. [\A u \in User : RowAdvances(u)]_vars =>
          [\A u \in User : profile[u] # null => profile'[u] # null /\ profile'[u].edit >= profile[u].edit]_vars
    BY DEF RowAdvances
  <1> QED BY <1>1, RowsAdvance, PTL DEF EditsSurvive

(* No upsert of the profile service writes isActive of a row that exists:  *)
(* an inactive profile stays so (profile.repository.ts:45-54).             *)
THEOREM InactiveForGood == Spec => InactiveStaysInactive
  <1>1. [\A u \in User : RowAdvances(u)]_vars =>
          [\A u \in User : profile[u] # null /\ ~profile[u].active =>
             profile'[u] # null /\ ~profile'[u].active]_vars
    BY DEF RowAdvances
  <1> QED BY <1>1, RowsAdvance, PTL DEF InactiveStaysInactive
=============================================================================
