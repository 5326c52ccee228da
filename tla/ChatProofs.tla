------------------------------ MODULE ChatProofs ------------------------------
(***************************************************************************)
(* Proofs about Chat, for any users, conversations, requests, sockets and  *)
(* page sizes, and any finite set of messages.  First: the conversation a  *)
(* request is given is one of exactly the two users it named; hasEvery     *)
(* alone does not say so, it takes that no conversation has more than two  *)
(* participants, which is what Tables adds.  Then: what a client has of    *)
(* the dialog it shows (Views), and what was published of a message.       *)
(***************************************************************************)
EXTENDS Chat, FiniteSetTheorems, WellFoundedInduction, TLAPS

(* What the table and the locals of a request may hold. *)
Tables ==
  /\ conversation \in [Conversation -> Pair \union {null}]
  /\ start \in [Request -> Start \union {null}]

Started == Tables /\ StartedIsTheirs

(* A pair of two different users that hasEvery finds in a conversation is  *)
(* all of the conversation.                                                *)
LEMMA PairFillsPair ==
  ASSUME NEW p \in Pair, NEW q \in Pair, p \subseteq q, Cardinality(p) = 2
  PROVE  p = q
<1>1. PICK a \in User, b \in User : p = {a, b}
  BY DEF Pair
<1>2. a # b
  <2>1. Cardinality({a}) = 1
    BY FS_Singleton
  <2> QED BY <1>1, <2>1
<1>3. PICK c \in User, d \in User : q = {c, d}
  BY DEF Pair
<1> QED BY <1>1, <1>2, <1>3

(* What a request finds is a conversation of its two users.                *)
LEMMA StartFindStarted ==
  ASSUME Started, NEW r \in Request, NEW a \in User, NEW b \in User, StartFind(r, a, b)
  PROVE  Started'
<1>1. {a, b} \in Pair /\ conversation' = conversation
  BY DEF StartFind, Pair, rows
<1>2. ASSUME NEW c \in Conversation,
             Matches(c, {a, b}),
             start' = [start EXCEPT ![r] = [step |-> "done", pair |-> {a, b}, got |-> c]]
      PROVE  Started'
  <2>1. conversation[c] \in Pair /\ {a, b} \subseteq conversation[c]
    BY <1>2 DEF Started, Tables, Matches, Exists
  <2>2. Cardinality({a, b}) = 2 => conversation[c] = {a, b}
    BY <1>1, <2>1, PairFillsPair
  <2>3. Tables'
    BY <1>1, <1>2 DEF Started, Tables, Start
  <2>4. start'[r] = [step |-> "done", pair |-> {a, b}, got |-> c]
        /\ \A q \in Request \ {r} : start'[q] = start[q]
    BY <1>2 DEF Started, Tables
  <2>5. StartedIsTheirs'
    <3> SUFFICES ASSUME NEW q \in Request, start'[q] # null, start'[q].got # null,
                        Cardinality(start'[q].pair) = 2
                 PROVE  conversation[start'[q].got] = start'[q].pair
      BY <1>1 DEF StartedIsTheirs
    <3>1. CASE q = r
      BY <3>1, <2>2, <2>4
    <3>2. CASE q # r
      BY <3>2, <2>4 DEF Started, StartedIsTheirs
    <3> QED BY <3>1, <3>2
  <2> QED BY <2>3, <2>5 DEF Started
<1>3. CASE start' = [start EXCEPT ![r] = [step |-> "create", pair |-> {a, b}, got |-> null]]
  <2>1. Tables'
    BY <1>1, <1>3 DEF Started, Tables, Start
  <2>2. start'[r] = [step |-> "create", pair |-> {a, b}, got |-> null]
        /\ \A q \in Request \ {r} : start'[q] = start[q]
    BY <1>3 DEF Started, Tables
  <2>3. StartedIsTheirs'
    BY <1>1, <2>2 DEF Started, StartedIsTheirs
  <2> QED BY <2>1, <2>3 DEF Started
<1> QED BY <1>2, <1>3 DEF StartFind

(* A conversation created for a request is stored under a fresh id: those  *)
(* that other requests were given stay as they are.                        *)
LEMMA StartCreateStarted ==
  ASSUME Started, NEW r \in Request, StartCreate(r)
  PROVE  Started'
<1>1. PICK c \in Conversation, got \in Conversation \union {null} :
        /\ got \in {c, null}
        /\ ~Exists(c)
        /\ conversation' = [conversation EXCEPT ![c] = start[r].pair]
        /\ start' = [start EXCEPT ![r].step = "done", ![r].got = got]
  BY DEF StartCreate
<1>2. start[r] \in Start
  BY DEF StartCreate, Started, Tables
<1>3. start'[r] = [start[r] EXCEPT !.step = "done", !.got = got]
      /\ \A q \in Request \ {r} : start'[q] = start[q]
  BY <1>1 DEF Started, Tables
<1>4. conversation'[c] = start[r].pair
      /\ \A d \in Conversation \ {c} : conversation'[d] = conversation[d]
  BY <1>1 DEF Started, Tables
<1>5. start'[r] \in Start
      /\ start'[r].pair = start[r].pair /\ start'[r].got = got
  BY <1>2, <1>3 DEF Start
<1>6. Tables'
  <2>1. conversation' \in [Conversation -> Pair \union {null}]
    BY <1>1, <1>2 DEF Started, Tables, Start
  <2>2. start' \in [Request -> Start \union {null}]
    BY <1>1, <1>3, <1>5 DEF Started, Tables
  <2> QED BY <2>1, <2>2 DEF Tables
<1>7. StartedIsTheirs'
  <2> SUFFICES ASSUME NEW q \in Request, start'[q] # null, start'[q].got # null,
                      Cardinality(start'[q].pair) = 2
               PROVE  conversation'[start'[q].got] = start'[q].pair
    BY DEF StartedIsTheirs
  <2>1. CASE q = r
    BY <2>1, <1>1, <1>4, <1>5
  <2>2. CASE q # r
    <3>1. start'[q] = start[q] /\ start[q] \in Start
      BY <1>3, <2>2 DEF Started, Tables
    <3>2. conversation[start[q].got] = start[q].pair
      BY <3>1 DEF Started, StartedIsTheirs
    <3>3. start[q].pair # null
      BY <3>1, NullAssumption DEF Start
    <3>4. start[q].got \in Conversation \ {c}
      BY <1>1, <3>1, <3>2, <3>3 DEF Exists, Start
    <3> QED BY <1>4, <3>1, <3>2, <3>4
  <2> QED BY <2>1, <2>2
<1> QED BY <1>6, <1>7 DEF Started

(* A crash ends the requests in flight and gives them nothing.             *)
LEMMA CrashStarted ==
  ASSUME Started, Crash
  PROVE  Started'
<1>1. conversation' = conversation
      /\ start' = [r \in Request |->
                     IF start[r] # null THEN [start[r] EXCEPT !.step = "done"] ELSE null]
  BY DEF Crash
<1>2. \A r \in Request : start'[r] # null =>
        /\ start'[r] \in Start
        /\ start[r] # null
        /\ start'[r].got = start[r].got /\ start'[r].pair = start[r].pair
  <2> SUFFICES ASSUME NEW r \in Request, start'[r] # null
               PROVE  /\ start'[r] \in Start
                      /\ start[r] # null
                      /\ start'[r].got = start[r].got /\ start'[r].pair = start[r].pair
    OBVIOUS
  <2>1. start[r] # null /\ start'[r] = [start[r] EXCEPT !.step = "done"]
    BY <1>1
  <2>2. start[r] \in Start
    BY <2>1 DEF Started, Tables
  <2> QED BY <2>1, <2>2 DEF Start
<1>3. Tables'
  BY <1>1, <1>2 DEF Started, Tables
<1>4. StartedIsTheirs'
  BY <1>1, <1>2 DEF Started, StartedIsTheirs
<1> QED BY <1>3, <1>4 DEF Started

LEMMA InitStarted == Init => Started
BY DEF Init, Started, Tables, StartedIsTheirs, Pair

LEMMA NextStarted == Started /\ [Next]_vars => Started'
<1> SUFFICES ASSUME Started, [Next]_vars
             PROVE  Started'
  OBVIOUS
<1>1. CASE UNCHANGED <<conversation, start>>
  BY <1>1 DEF Started, Tables, StartedIsTheirs
<1>2. CASE StartConversation
  BY <1>2, StartFindStarted, StartCreateStarted DEF StartConversation
<1>3. CASE Send
  BY <1>1, <1>3, SMTT(30) DEF Send, SendMessage, SaveMessage, TellRoom, PublishMessageSent
<1>4. CASE Gateway
  BY <1>1, <1>4 DEF Gateway, HandleConnection, HandleDisconnect, JoinConversation, GetMessages, rows
<1>5. CASE Tick
  BY <1>1, <1>5 DEF Tick, rows
<1>6. CASE Crash
  BY <1>6, CrashStarted
<1>7. CASE UNCHANGED vars
  BY <1>1, <1>7 DEF vars, rows
<1> QED BY <1>2, <1>3, <1>4, <1>5, <1>6, <1>7 DEF Next

(* A request that named two different users is given the conversation of   *)
(* exactly these two, for any number of users and conversations, and with  *)
(* conversations of one user with himself in the table.                    *)
THEOREM StartedWithTarget == Spec => []StartedIsTheirs
<1>1. Started => StartedIsTheirs
  BY DEF Started
<1> QED BY InitStarted, NextStarted, <1>1, PTL DEF Spec

-----------------------------------------------------------------------------
(* Messages, rooms and pages *)

(* The least of a set of instants.                                         *)
LEMMA MinOfInstants ==
  ASSUME NEW S \in SUBSET Nat, S # {}
  PROVE  Min(S) \in S /\ \A t \in S : Min(S) <= t
<1>1. PICK x \in S : \A y \in S : <<y, x>> \notin OpToRel(<, Nat)
  BY NatLessThanWellFounded, WFMin
<1>2. \A y \in S : x <= y
  <2> SUFFICES ASSUME NEW y \in S PROVE x <= y
    OBVIOUS
  <2>1. x \in Nat /\ y \in Nat /\ ~(y < x)
    BY <1>1 DEF OpToRel
  <2> QED BY <2>1
<1> QED BY <1>2 DEF Min

(* What is stored of a message belongs to a conversation that exists.      *)
RowsHaveConversation == \A m \in Message : row[m] # null => Exists(row[m].conv)

Types == TypeOK /\ RowsHaveConversation

(* The pages read so far lie at or above the cursors, and hold each        *)
(* message once.                                                           *)
ReadAbove(v) ==
  /\ IsFiniteSet(v.read) /\ v.fetched = Cardinality(v.read)
  /\ \A m \in v.read : Stored(m) /\ row[m].conv = v.conv /\ ~Below(m, v)

(* Where a message the room was told of is for the client of v: received,  *)
(* on a page still to come, or at a page's end.                            *)
Reaches(m, v) ==
  \/ m \in v.read \union v.live
  \/ row[m].at \in v.cursors
  \/ ~v.complete /\ Below(m, v)

Unmissed(v) == \A m \in Message : Told(m) /\ row[m].conv = v.conv => Reaches(m, v)

Views == \A s \in Socket : view[s] # null => ReadAbove(view[s]) /\ Unmissed(view[s])

IInv == Types /\ Views /\ AcknowledgedIsPushed

(* There is no bound on the messages, and at any time finitely many are    *)
(* stored or on their way to the database.                                 *)
Kept == {m \in Message : row[m] # null}
FewRows == IsFiniteSet(Kept)

(* A step adds one row at most. *)
LEMMA FewRowsStep == ASSUME TypeOK, FewRows, [Next]_vars PROVE FewRows'
<1>1. ASSUME NEW m, Kept' \subseteq Kept \union {m} PROVE FewRows'
  <2>1. IsFiniteSet(Kept \union {m})
    BY FS_AddElement DEF FewRows
  <2> QED BY <1>1, <2>1, FS_Subset DEF FewRows
<1>2. ASSUME row' = row PROVE FewRows'
  BY <1>2 DEF FewRows, Kept
<1>3. ASSUME NEW m \in Message, NEW x, row' = [row EXCEPT ![m] = x] PROVE FewRows'
  <2>1. Kept' \subseteq Kept \union {m}
    BY <1>3 DEF Kept, TypeOK
  <2> QED BY <1>1, <2>1
<1>4. CASE Send
  <2>1. ASSUME NEW m \in Message, NEW s \in Socket, NEW c \in Conversation, SendMessage(m, s, c) PROVE FewRows'
    BY <1>3, <2>1 DEF SendMessage
  <2>2. ASSUME NEW m \in Message, SaveMessage(m) PROVE FewRows'
    BY <1>2, <1>3, <2>2 DEF SaveMessage
  <2>3. ASSUME NEW m \in Message, TellRoom(m) \/ PublishMessageSent(m) PROVE FewRows'
    BY <1>2, <2>3 DEF TellRoom, PublishMessageSent
  <2> QED BY <1>4, <2>1, <2>2, <2>3 DEF Send
<1>5. CASE Crash
  <2>1. Kept' \subseteq Kept
    BY <1>5 DEF Crash, Kept
  <2> QED BY <2>1, FS_Subset DEF FewRows
<1>6. CASE StartConversation \/ Gateway \/ Tick \/ UNCHANGED vars
  BY <1>2, <1>6 DEF StartConversation, StartFind, StartCreate, Gateway, HandleConnection, HandleDisconnect,
                    JoinConversation, GetMessages, Tick, rows, vars
<1> QED BY <1>4, <1>5, <1>6 DEF Next

LEMMA StoredRow ==
  ASSUME Types, NEW m \in Message, status[m] # "new"
  PROVE  row[m] \in Row /\ conversation[row[m].conv] \in Pair
  BY DEF Types, TypeOK, RowsHaveConversation, Exists, Row

LEMMA InitIInv == Init => IInv
<1> SUFFICES ASSUME Init PROVE IInv
  OBVIOUS
<1>1. Types
  BY TimeAssumption DEF Init, Types, TypeOK, RowsHaveConversation, Step, Time
<1>2. Views /\ AcknowledgedIsPushed
  BY DEF Init, Views, AcknowledgedIsPushed
<1> QED BY <1>1, <1>2 DEF IInv

-----------------------------------------------------------------------------
(* What a step does to the dialogs that are open *)

(* It is enough to look at each dialog that is open after the step.        *)
LEMMA ViewsNow ==
  ASSUME Types',
         \A s \in Socket : \A v \in View : v = view'[s] => ReadAbove(v)' /\ Unmissed(v)'
  PROVE  Views'
<1> SUFFICES ASSUME NEW s \in Socket, view'[s] # null
             PROVE  ReadAbove(view[s])' /\ Unmissed(view[s])'
  BY DEF Views
<1>1. PICK v \in View : v = view'[s]
  BY DEF Types, TypeOK
<1>2. ReadAbove(v)' /\ Unmissed(v)'
  BY <1>1
<1> QED BY <1>1, <1>2 DEF ReadAbove, Unmissed, Reaches, Below, Stored, Told

(* A dialog keeps its pages when stored messages stay and no room is told. *)
LEMMA PageOfOthers ==
  ASSUME NEW v \in View,
         \A m \in Message : Stored(m) => Stored(m)' /\ row'[m] = row[m],
         \A m \in Message : Told(m)' => Told(m),
         ReadAbove(v), Unmissed(v)
  PROVE  ReadAbove(v)' /\ Unmissed(v)'
<1>1. v.read \subseteq Message
  BY DEF View
<1>2. ReadAbove(v)'
  BY <1>1 DEF ReadAbove, Below
<1>3. \A m \in Message : Told(m) => Stored(m)
  BY DEF Told, Stored
<1>4. Unmissed(v)'
  <2> SUFFICES ASSUME NEW m \in Message, Told(m)', row'[m].conv = v.conv
               PROVE  Reaches(m, v)'
    BY DEF Unmissed
  <2>1. Told(m) /\ Stored(m) /\ Stored(m)' /\ row'[m] = row[m]
    BY <1>3
  <2>2. Reaches(m, v)
    BY <2>1 DEF Unmissed
  <2> QED BY <2>1, <2>2 DEF Reaches, Below
<1> QED BY <1>2, <1>4

(* A step that opens no dialog, changes no stored row and tells no room.   *)
LEMMA ViewsStay ==
  ASSUME Types', Views,
         \A s \in Socket : view'[s] \in {view[s], null},
         \A m \in Message : Stored(m) => Stored(m)' /\ row'[m] = row[m],
         \A m \in Message : Told(m)' => Told(m)
  PROVE  Views'
<1>1. ASSUME NEW s \in Socket, NEW v \in View, v = view'[s]
      PROVE  ReadAbove(v)' /\ Unmissed(v)'
  <2>1. v = view[s] /\ v # null
    BY <1>1, NullAssumption
  <2>2. ReadAbove(v) /\ Unmissed(v)
    BY <2>1 DEF Views
  <2> QED BY <2>2, PageOfOthers
<1> QED BY <1>1, ViewsNow

(* Acknowledged messages stay published, to the peer of their sender.      *)
LEMMA AcknowledgedStay ==
  ASSUME Types, AcknowledgedIsPushed, pushed \subseteq pushed',
         \A c \in Conversation : Exists(c) => conversation'[c] = conversation[c],
         \A m \in Message : status'[m] = "published" => status[m] = "published" /\ row'[m] = row[m]
  PROVE  AcknowledgedIsPushed'
<1> SUFFICES ASSUME NEW m \in Message, status'[m] = "published"
             PROVE  \E e \in pushed' :
                      /\ e.message = m
                      /\ row'[m].sender \in conversation'[row'[m].conv] =>
                           conversation'[row'[m].conv] \subseteq {row'[m].sender, e.recipient}
  BY DEF AcknowledgedIsPushed
<1>1. status[m] = "published" /\ row'[m] = row[m] /\ row[m] \in Row /\ Exists(row[m].conv)
  BY DEF Types, TypeOK, RowsHaveConversation
<1>2. conversation'[row[m].conv] = conversation[row[m].conv]
  BY <1>1 DEF Row
<1> QED BY <1>1, <1>2 DEF AcknowledgedIsPushed

(* Steps of sockets and requests touch no message.                         *)
LEMMA NoMessage ==
  ASSUME Types, Types', Views, AcknowledgedIsPushed,
         row' = row, status' = status, pushed' = pushed,
         \A c \in Conversation : Exists(c) => conversation'[c] = conversation[c],
         \A s \in Socket : view'[s] \in {view[s], null}
  PROVE  IInv'
<1>1. Views'
  <2>1. \A m \in Message : Stored(m) => Stored(m)' /\ row'[m] = row[m]
    BY DEF Stored
  <2>2. \A m \in Message : Told(m)' => Told(m)
    BY DEF Told
  <2> QED BY <2>1, <2>2, ViewsStay
<1>2. AcknowledgedIsPushed'
  BY AcknowledgedStay
<1> QED BY <1>1, <1>2 DEF IInv

-----------------------------------------------------------------------------
(* One lemma for each step *)

LEMMA StartTypes ==
  ASSUME IInv, StartConversation
  PROVE  Types' /\ \A c \in Conversation : Exists(c) => conversation'[c] = conversation[c]
<1>1. PICK r \in Request : StartCreate(r) \/ \E a, b \in User : StartFind(r, a, b)
  BY DEF StartConversation
<1>2. CASE StartCreate(r)
  <2>1. PICK c \in Conversation, got \in Conversation \union {null} :
          /\ ~Exists(c)
          /\ conversation' = [conversation EXCEPT ![c] = start[r].pair]
          /\ start' = [start EXCEPT ![r].step = "done", ![r].got = got]
    BY <1>2 DEF StartCreate
  <2>2. start[r] \in Start
    BY <1>2 DEF StartCreate, IInv, Types, TypeOK
  <2>3. [start[r] EXCEPT !.step = "done", !.got = got] \in Start
    BY <2>2 DEF Start
  <2>4. start' \in [Request -> Start \union {null}]
    BY <2>1, <2>3 DEF IInv, Types, TypeOK
  <2>5. conversation' \in [Conversation -> Pair \union {null}] /\ start[r].pair # null
    BY <2>1, <2>2, NullAssumption DEF IInv, Types, TypeOK, Start
  <2>6. \A d \in Conversation : Exists(d) => conversation'[d] = conversation[d]
    BY <2>1 DEF IInv, Types, TypeOK
  <2>7. RowsHaveConversation'
    <3> SUFFICES ASSUME NEW m \in Message, row[m] # null PROVE conversation'[row[m].conv] # null
      BY <1>2 DEF RowsHaveConversation, Exists, StartCreate
    <3>1. row[m].conv \in Conversation /\ Exists(row[m].conv)
      BY DEF IInv, Types, TypeOK, RowsHaveConversation, Row
    <3> QED BY <2>6, <3>1 DEF Exists
  <2> QED BY <1>2, <2>4, <2>5, <2>6, <2>7 DEF StartCreate, IInv, Types, TypeOK, sockets
<1>3. CASE \E a, b \in User : StartFind(r, a, b)
  <2>1. PICK a \in User, b \in User : StartFind(r, a, b)
    BY <1>3
  <2>2. {a, b} \in Pair
    BY DEF Pair
  <2>3. PICK x \in Start : start' = [start EXCEPT ![r] = x]
    <3>1. [step |-> "create", pair |-> {a, b}, got |-> null] \in Start
      BY <2>2 DEF Start
    <3>2. \A c \in Conversation : [step |-> "done", pair |-> {a, b}, got |-> c] \in Start
      BY <2>2 DEF Start
    <3> QED BY <2>1, <3>1, <3>2 DEF StartFind
  <2>4. start' \in [Request -> Start \union {null}]
    BY <2>3 DEF IInv, Types, TypeOK
  <2> QED BY <2>1, <2>4 DEF StartFind, IInv, Types, TypeOK, RowsHaveConversation, Exists, rows, sockets
<1> QED BY <1>1, <1>2, <1>3

LEMMA StartStep ==
  ASSUME IInv, StartConversation
  PROVE  IInv'
<1>1. row' = row /\ status' = status /\ pushed' = pushed /\ view' = view
  BY DEF StartConversation, StartCreate, StartFind, rows, sockets
<1> QED BY <1>1, StartTypes, NoMessage DEF IInv

LEMMA SendMessageStep ==
  ASSUME IInv, NEW m \in Message, NEW s \in Socket, NEW c \in Conversation, SendMessage(m, s, c)
  PROVE  IInv'
<1>1. [conv |-> c, sender |-> who[s], at |-> now] \in Row
  BY DEF SendMessage, IInv, Types, TypeOK, Row
<1>2. Types'
  <2>1. TypeOK'
    BY <1>1, NullAssumption DEF SendMessage, IInv, Types, TypeOK, Step, sockets
  <2>2. RowsHaveConversation'
    BY <1>1 DEF SendMessage, IInv, Types, TypeOK, RowsHaveConversation, Exists
  <2> QED BY <2>1, <2>2 DEF Types
<1>3. \A n \in Message : Stored(n) => Stored(n)' /\ row'[n] = row[n]
  BY DEF SendMessage, Stored, IInv, Types, TypeOK
<1>4. \A n \in Message : Told(n)' => Told(n)
  BY DEF SendMessage, Told, IInv, Types, TypeOK
<1>5. Views'
  BY <1>2, <1>3, <1>4, ViewsStay DEF SendMessage, IInv, sockets
<1>6. AcknowledgedIsPushed'
  <2>1. \A n \in Message : status'[n] = "published" => status[n] = "published" /\ row'[n] = row[n]
    BY DEF SendMessage, IInv, Types, TypeOK
  <2> QED BY <2>1, AcknowledgedStay DEF SendMessage, IInv
<1> QED BY <1>2, <1>5, <1>6 DEF IInv

LEMMA SaveMessageStep ==
  ASSUME IInv, NEW m \in Message, SaveMessage(m)
  PROVE  IInv'
<1>1. Types'
  BY NullAssumption DEF SaveMessage, IInv, Types, TypeOK, RowsHaveConversation, Exists, Step, sockets
<1>2. \A n \in Message : Stored(n) => Stored(n)' /\ row'[n] = row[n]
  BY DEF SaveMessage, Stored, IInv, Types, TypeOK
<1>3. \A n \in Message : Told(n)' => Told(n)
  BY DEF SaveMessage, Told, IInv, Types, TypeOK
<1>4. Views'
  BY <1>1, <1>2, <1>3, ViewsStay DEF SaveMessage, IInv, sockets
<1>5. AcknowledgedIsPushed'
  <2>1. \A n \in Message : status'[n] = "published" => status[n] = "published" /\ row'[n] = row[n]
    BY DEF SaveMessage, IInv, Types, TypeOK
  <2> QED BY <2>1, AcknowledgedStay DEF SaveMessage, IInv
<1> QED BY <1>1, <1>4, <1>5 DEF IInv

(* Who is in the room when it is told has the message.                     *)
LEMMA TellRoomStep ==
  ASSUME IInv, NEW m \in Message, TellRoom(m)
  PROVE  IInv'
<1>1. row' = row /\ conversation' = conversation /\ pushed' = pushed /\ status[m] = "saved"
  BY DEF TellRoom
<1>2. \A n \in Message : Stored(n)' <=> Stored(n)
  BY DEF TellRoom, Stored, IInv, Types, TypeOK
<1>3. AcknowledgedIsPushed'
  <2>1. \A n \in Message : status'[n] = "published" => status[n] = "published" /\ row'[n] = row[n]
    BY DEF TellRoom, IInv, Types, TypeOK
  <2> QED BY <1>1, <2>1, AcknowledgedStay DEF IInv
<1>4. CASE status' = [status EXCEPT ![m] = "silent"] /\ view' = view
  <2>1. Types'
    BY <1>4 DEF TellRoom, IInv, Types, TypeOK, RowsHaveConversation, Exists, Step
  <2>2. \A n \in Message : Told(n)' => Told(n)
    BY <1>4 DEF Told, IInv, Types, TypeOK
  <2>3. Views'
    BY <1>1, <1>2, <1>4, <2>1, <2>2, ViewsStay DEF IInv
  <2> QED BY <1>3, <2>1, <2>3 DEF IInv
<1>5. CASE /\ status' = [status EXCEPT ![m] = "told"]
           /\ view' = [s \in Socket |->
                         IF s \in Room(row[m].conv) THEN [view[s] EXCEPT !.live = @ \union {m}]
                                                    ELSE view[s]]
  <2>1. \A s \in Room(row[m].conv) :
          /\ view[s] \in View /\ view'[s] \in View
          /\ view'[s].live = view[s].live \union {m}
          /\ view'[s].conv = view[s].conv /\ view'[s].read = view[s].read
          /\ view'[s].fetched = view[s].fetched /\ view'[s].cursors = view[s].cursors
          /\ view'[s].complete = view[s].complete
    <3> SUFFICES ASSUME NEW s \in Room(row[m].conv)
                 PROVE  /\ view[s] \in View /\ view'[s] \in View
                        /\ view'[s].live = view[s].live \union {m}
                        /\ view'[s].conv = view[s].conv /\ view'[s].read = view[s].read
                        /\ view'[s].fetched = view[s].fetched /\ view'[s].cursors = view[s].cursors
                        /\ view'[s].complete = view[s].complete
      OBVIOUS
    <3>1. s \in Socket /\ view[s] \in View
      BY DEF Room, IInv, Types, TypeOK
    <3>2. view'[s] = [view[s] EXCEPT !.live = view[s].live \union {m}]
      BY <1>5, <3>1
    <3> QED BY <3>1, <3>2 DEF View
  <2>2. \A s \in Socket \ Room(row[m].conv) : view'[s] = view[s]
    BY <1>5
  <2>3. Types'
    <3>1. view' \in [Socket -> View \union {null}]
      <4>1. \A s \in Socket : view'[s] \in View \union {null}
        BY <2>1, <2>2 DEF IInv, Types, TypeOK
      <4> QED BY <1>5, <4>1
    <3> QED BY <1>5, <3>1 DEF TellRoom, IInv, Types, TypeOK, RowsHaveConversation, Exists, Step
  <2>4. ASSUME NEW s \in Socket, NEW w \in View, w = view'[s]
        PROVE  ReadAbove(w)' /\ Unmissed(w)'
    <3>1. PICK v \in View : v = view[s]
      BY <2>1, <2>2, <2>4
    <3>2. /\ w.conv = v.conv /\ w.read = v.read /\ w.fetched = v.fetched
          /\ w.cursors = v.cursors /\ w.complete = v.complete /\ v.live \subseteq w.live
          /\ v.conv = row[m].conv => m \in w.live
      BY <2>1, <2>2, <2>4, <3>1, NullAssumption DEF Room
    <3>3. ReadAbove(v) /\ Unmissed(v)
      BY <3>1, NullAssumption DEF IInv, Views
    <3>4. v.read \subseteq Message
      BY DEF View
    <3>5. ReadAbove(w)'
      BY <1>1, <1>2, <3>2, <3>3, <3>4 DEF ReadAbove, Below
    <3>6. Unmissed(w)'
      <4> SUFFICES ASSUME NEW n \in Message, Told(n)', row'[n].conv = w.conv
                   PROVE  Reaches(n, w)'
        BY DEF Unmissed
      <4>1. CASE n = m
        BY <1>1, <3>2, <4>1 DEF Reaches
      <4>2. CASE n # m
        <5>1. Told(n)
          BY <1>5, <4>2 DEF Told, IInv, Types, TypeOK
        <5>2. Reaches(n, v)
          BY <1>1, <3>2, <3>3, <5>1 DEF Unmissed
        <5> QED BY <1>1, <1>2, <3>2, <5>2 DEF Reaches, Below
      <4> QED BY <4>1, <4>2
    <3> QED BY <3>5, <3>6
  <2> QED BY <1>3, <2>3, <2>4, ViewsNow DEF IInv
<1> QED BY <1>4, <1>5 DEF TellRoom

(* The recipient is the other participant.                                 *)
LEMMA RecipientIsPeer ==
  ASSUME Types, NEW m \in Message, row[m] # null, NEW u \in Recipients(m)
  PROVE  /\ u \in User \union {null}
         /\ row[m].sender \in conversation[row[m].conv] =>
              conversation[row[m].conv] \subseteq {row[m].sender, u}
<1>1. row[m] \in Row /\ conversation[row[m].conv] \in Pair
  BY DEF Types, TypeOK, RowsHaveConversation, Exists, Row
<1>2. PICK a \in User, b \in User : conversation[row[m].conv] = {a, b}
  BY <1>1 DEF Pair
<1>3. u \in {a, b} \ {row[m].sender} \/ ({a, b} \ {row[m].sender} = {} /\ u = null)
  BY <1>2 DEF Recipients
<1> QED BY <1>2, <1>3

LEMMA PublishStep ==
  ASSUME IInv, NEW m \in Message, PublishMessageSent(m)
  PROVE  IInv'
<1>1. PICK u \in Recipients(m) :
        LET sent == pushed \union {[message |-> m, recipient |-> u]} IN
          \/ pushed' = sent /\ status' = [status EXCEPT ![m] = "published"]
          \/ pushed' \in {pushed, sent} /\ status' = [status EXCEPT ![m] = "failed"]
  BY DEF PublishMessageSent
<1> DEFINE e == [message |-> m, recipient |-> u]
<1>2. row[m] # null /\ row' = row /\ conversation' = conversation /\ view' = view /\ status[m] = "told"
  BY DEF PublishMessageSent, IInv, Types, TypeOK, sockets
<1>3. /\ u \in User \union {null}
      /\ row[m].sender \in conversation[row[m].conv] =>
           conversation[row[m].conv] \subseteq {row[m].sender, u}
  BY <1>2, RecipientIsPeer DEF IInv
<1>4. e \in Event
  BY <1>3 DEF Event
<1>5. Types'
  BY <1>1, <1>2, <1>4 DEF PublishMessageSent, IInv, Types, TypeOK, RowsHaveConversation, Exists, Step, sockets
<1>6. \A n \in Message : Stored(n) => Stored(n)' /\ row'[n] = row[n]
  BY <1>1, <1>2 DEF Stored, IInv, Types, TypeOK
<1>7. \A n \in Message : Told(n)' => Told(n)
  BY <1>1, <1>2 DEF Told, IInv, Types, TypeOK
<1>8. Views'
  BY <1>2, <1>5, <1>6, <1>7, ViewsStay DEF IInv
<1>9. AcknowledgedIsPushed'
  <2> SUFFICES ASSUME NEW n \in Message, status'[n] = "published"
               PROVE  \E d \in pushed' :
                        /\ d.message = n
                        /\ row[n].sender \in conversation[row[n].conv] =>
                             conversation[row[n].conv] \subseteq {row[n].sender, d.recipient}
    BY <1>2 DEF AcknowledgedIsPushed
  <2>1. CASE n = m
    <3>1. e \in pushed'
      BY <1>1, <2>1 DEF IInv, Types, TypeOK
    <3> QED BY <1>3, <2>1, <3>1
  <2>2. CASE n # m
    <3>1. status[n] = "published" /\ pushed \subseteq pushed'
      BY <1>1, <2>2 DEF IInv, Types, TypeOK
    <3> QED BY <3>1 DEF IInv, AcknowledgedIsPushed
  <2> QED BY <2>1, <2>2
<1> QED BY <1>5, <1>8, <1>9 DEF IInv

LEMMA CrashStep ==
  ASSUME IInv, Crash
  PROVE  IInv'
<1>1. \A m \in Message : status'[m] \in Step /\ (row'[m] = null <=> status'[m] = "new")
                         /\ row'[m] \in {row[m], null}
  BY NullAssumption DEF Crash, IInv, Types, TypeOK, Step
<1>2. start' \in [Request -> Start \union {null}]
  <2>1. \A r \in Request : start'[r] \in Start \union {null}
    <3> SUFFICES ASSUME NEW r \in Request, start[r] # null
                 PROVE  [start[r] EXCEPT !.step = "done"] \in Start
      BY DEF Crash
    <3>1. start[r] \in Start
      BY DEF IInv, Types, TypeOK
    <3> QED BY <3>1 DEF Start
  <2> QED BY <2>1 DEF Crash
<1>3. Types'
  <2>1. TypeOK'
    <3>1. row' \in [Message -> Row \union {null}] /\ status' \in [Message -> Step]
      BY <1>1 DEF Crash, IInv, Types, TypeOK
    <3>2. who' \in [Socket -> User \union {null}] /\ view' \in [Socket -> View \union {null}]
      BY DEF Crash
    <3> QED BY <1>1, <1>2, <3>1, <3>2 DEF Crash, IInv, Types, TypeOK
  <2>2. RowsHaveConversation'
    BY <1>1 DEF Crash, IInv, Types, RowsHaveConversation, Exists
  <2> QED BY <2>1, <2>2 DEF Types
<1>4. Views'
  BY DEF Crash, Views
<1>5. AcknowledgedIsPushed'
  <2>1. \A m \in Message : status'[m] = "published" => status[m] = "published" /\ row'[m] = row[m]
    BY DEF Crash, IInv, Types, TypeOK, Step
  <2> QED BY <2>1, AcknowledgedStay DEF Crash, IInv
<1> QED BY <1>3, <1>4, <1>5 DEF IInv

-----------------------------------------------------------------------------
(* Pages *)

(* A page holds messages below the cursors, none of them older than one    *)
(* that it leaves out; it leaves none out when there is no more, and it is *)
(* empty only when there is none.                                          *)
LEMMA PageFacts ==
  ASSUME TypeOK, FewRows, NEW v, NEW limit \in Nat, NEW p \in Pages(v, limit),
         limit = 0 => ~HasMore(v, limit)
  PROVE  /\ IsFiniteSet(p) /\ p \subseteq Message
         /\ \A m \in p : Below(m, v)
         /\ \A m \in p : \A n \in Message \ p : Below(n, v) => row[m].at >= row[n].at
         /\ ~HasMore(v, limit) => \A m \in Message : Below(m, v) => m \in p
         /\ p = {} => \A m \in Message : ~Below(m, v)
<1> DEFINE found == {m \in Message : Below(m, v)}
<1>1. /\ p \in SUBSET found
      /\ Cardinality(p) = (IF Cardinality(found) > limit THEN limit ELSE Cardinality(found))
      /\ \A m \in p : \A n \in found \ p : row[m].at >= row[n].at
  BY DEF Pages
<1>2. IsFiniteSet(found)
  <2>1. found \in SUBSET Kept
    BY DEF Below, Stored, Kept, TypeOK
  <2> QED BY <2>1, FS_Subset DEF FewRows
<1>3. IsFiniteSet(p) /\ (Cardinality(found) = Cardinality(p) => found = p)
  BY <1>1, <1>2, FS_Subset
<1>4. HasMore(v, limit) <=> Cardinality(found) > limit
  BY DEF HasMore
<1>5. ~HasMore(v, limit) => found = p
  BY <1>1, <1>3, <1>4
<1>6. p = {} => found = {}
  <2> SUFFICES ASSUME p = {} PROVE found = {}
    OBVIOUS
  <2>1. Cardinality(p) = 0
    BY FS_EmptySet
  <2>2. Cardinality(found) \in Nat
    BY <1>2, FS_CardinalityType
  <2>3. Cardinality(found) = 0
    BY <1>1, <1>4, <2>1, <2>2
  <2> QED BY <1>2, <2>3, FS_EmptySet
<1> QED BY <1>1, <1>3, <1>5, <1>6

(* The dialog w that the client of v has after page p.                     *)
IsNext(w, v, p, limit) ==
  /\ w.conv = v.conv /\ w.live = v.live
  /\ w.read = v.read \union p
  /\ w.fetched = v.fetched + Cardinality(p)
  /\ w.cursors = IF p = {} THEN v.cursors ELSE v.cursors \union {Min({row[m].at : m \in p})}
  /\ w.complete = ~HasMore(v, limit)

LEMMA PageEnd ==
  ASSUME Types, NEW p \in SUBSET Message, p # {}, \A m \in p : Stored(m)
  PROVE  /\ Min({row[m].at : m \in p}) \in {row[m].at : m \in p}
         /\ Min({row[m].at : m \in p}) \in Time
         /\ \A m \in p : Min({row[n].at : n \in p}) <= row[m].at
<1> DEFINE S == {row[m].at : m \in p}
<1>1. \A m \in p : row[m] \in Row /\ row[m].at \in Time
  <2> SUFFICES ASSUME NEW m \in p PROVE row[m] \in Row /\ row[m].at \in Time
    OBVIOUS
  <2>1. status[m] # "new"
    BY DEF Stored
  <2>2. row[m] \in Row
    BY <2>1, StoredRow
  <2> QED BY <2>2 DEF Row
<1>2. S \subseteq Time /\ S \in SUBSET Nat /\ S # {}
  BY <1>1, TimeAssumption DEF Time
<1>3. Min(S) \in S /\ \A t \in S : Min(S) <= t
  BY <1>2, MinOfInstants
<1> HIDE DEF S
<1>4. Min(S) \in Time
  BY <1>2, <1>3
<1> QED BY <1>3, <1>4 DEF S

LEMMA NextPage ==
  ASSUME Types, FewRows, NEW v \in View, ~v.complete, ReadAbove(v), Unmissed(v),
         NEW limit \in Nat, NEW p \in Pages(v, limit), limit = 0 => ~HasMore(v, limit),
         NEW w, IsNext(w, v, p, limit)
  PROVE  ReadAbove(w) /\ Unmissed(w)
<1>1. /\ IsFiniteSet(p) /\ p \subseteq Message
      /\ \A m \in p : Below(m, v)
      /\ \A m \in p : \A n \in Message \ p : Below(n, v) => row[m].at >= row[n].at
      /\ ~HasMore(v, limit) => \A m \in Message : Below(m, v) => m \in p
      /\ p = {} => \A m \in Message : ~Below(m, v)
  BY PageFacts DEF Types
<1>2. /\ w.conv = v.conv /\ w.live = v.live
      /\ w.read = v.read \union p
      /\ w.fetched = v.fetched + Cardinality(p)
      /\ v.cursors \subseteq w.cursors
      /\ p = {} => w.cursors = v.cursors
      /\ w.complete = ~HasMore(v, limit)
  BY DEF IsNext
<1>3. \A m \in p : Stored(m) /\ row[m].conv = v.conv
  BY <1>1 DEF Below
<1>4. ASSUME p # {}
      PROVE  /\ w.cursors = v.cursors \union {Min({row[m].at : m \in p})}
             /\ Min({row[m].at : m \in p}) \in {row[m].at : m \in p}
             /\ Min({row[m].at : m \in p}) \in Nat
             /\ \A m \in p : Min({row[n].at : n \in p}) <= row[m].at
  <2>1. Time \subseteq Nat
    BY TimeAssumption DEF Time
  <2>2. /\ Min({row[m].at : m \in p}) \in {row[m].at : m \in p}
        /\ Min({row[m].at : m \in p}) \in Time
        /\ \A m \in p : Min({row[n].at : n \in p}) <= row[m].at
    BY <1>1, <1>3, <1>4, PageEnd
  <2>3. w.cursors = v.cursors \union {Min({row[m].at : m \in p})}
    BY <1>4 DEF IsNext
  <2> QED BY <2>1, <2>2, <2>3
<1>5. v.read \intersect p = {}
  BY <1>1 DEF ReadAbove
<1>6. IsFiniteSet(w.read) /\ w.fetched = Cardinality(w.read)
  <2>1. IsFiniteSet(v.read) /\ v.fetched = Cardinality(v.read)
    BY DEF ReadAbove
  <2>2. Cardinality(v.read) \in Nat /\ Cardinality(p) \in Nat
    BY <1>1, <2>1, FS_CardinalityType
  <2>3. /\ IsFiniteSet(v.read \union p)
        /\ Cardinality(v.read \union p) = Cardinality(v.read) + Cardinality(p) - Cardinality(v.read \intersect p)
    BY <1>1, <2>1, FS_Union
  <2>4. Cardinality(v.read \intersect p) = 0
    BY <1>5, FS_EmptySet
  <2> QED BY <1>2, <2>1, <2>2, <2>3, <2>4
<1>7. \A m \in w.read : Stored(m) /\ row[m].conv = w.conv /\ ~Below(m, w)
  <2> SUFFICES ASSUME NEW m \in w.read
               PROVE  Stored(m) /\ row[m].conv = w.conv /\ ~Below(m, w)
    OBVIOUS
  <2>1. CASE m \in v.read
    BY <1>2, <2>1 DEF ReadAbove, Below
  <2>2. CASE m \in p
    <3>1. \E t \in w.cursors : t \in Nat /\ t <= row[m].at
      BY <1>4, <2>2
    <3>2. status[m] # "new" /\ m \in Message
      BY <1>1, <1>3, <2>2 DEF Stored
    <3>3. row[m].at \in Nat
      BY <3>2, StoredRow, TimeAssumption DEF Row, Time
    <3>4. ~Below(m, w)
      BY <3>1, <3>3 DEF Below
    <3> QED BY <1>2, <1>3, <2>2, <3>4
  <2> QED BY <1>2, <2>1, <2>2
<1>8. Unmissed(w)
  <2> SUFFICES ASSUME NEW m \in Message, Told(m), row[m].conv = w.conv
               PROVE  Reaches(m, w)
    BY DEF Unmissed
  <2>1. Reaches(m, v)
    BY <1>2 DEF Unmissed
  <2>2. CASE m \in v.read \union v.live \/ row[m].at \in v.cursors
    BY <1>2, <2>2 DEF Reaches
  <2>3. CASE m \in p
    BY <1>2, <2>3 DEF Reaches
  <2>4. CASE Below(m, v) /\ m \notin p
    <3>1. p # {} /\ HasMore(v, limit)
      BY <1>1, <2>4
    <3>2. PICK n \in p : Min({row[k].at : k \in p}) = row[n].at
      BY <1>4, <3>1
    <3>3. row[n].at >= row[m].at /\ row[n].at \in w.cursors /\ row[n].at \in Nat
      BY <1>1, <1>4, <2>4, <3>1, <3>2
    <3>4. row[m].at \in Nat
      <4>1. row[m] \in Row
        BY StoredRow DEF Told
      <4> QED BY <4>1, TimeAssumption DEF Row, Time
    <3>5. CASE row[m].at = row[n].at
      BY <3>3, <3>5 DEF Reaches
    <3>6. CASE row[m].at < row[n].at
      <4>1. \A t \in w.cursors : row[m].at < t
        BY <1>4, <2>4, <3>1, <3>2, <3>6 DEF Below
      <4>2. Below(m, w)
        BY <1>2, <2>4, <4>1 DEF Below
      <4> QED BY <1>2, <3>1, <4>2 DEF Reaches
    <3> QED BY <3>3, <3>4, <3>5, <3>6
  <2> QED BY <2>1, <2>2, <2>3, <2>4 DEF Reaches
<1> QED BY <1>6, <1>7, <1>8 DEF ReadAbove

LEMMA GetMessagesStep ==
  ASSUME IInv, FewRows, NEW s \in Socket, NEW limit \in Limit, GetMessages(s, limit)
  PROVE  IInv'
<1>1. PICK p \in Pages(view[s], limit) :
        view' = [view EXCEPT
          ![s].read = @ \union p,
          ![s].fetched = @ + Cardinality(p),
          ![s].cursors = IF p = {} THEN @ ELSE @ \union {Min({row[m].at : m \in p})},
          ![s].complete = ~HasMore(view[s], limit)]
  BY DEF GetMessages
<1>2. PICK v \in View : v = view[s]
  BY DEF GetMessages, IInv, Types, TypeOK
<1> DEFINE w == [v EXCEPT !.read = v.read \union p, !.fetched = v.fetched + Cardinality(p),
                   !.cursors = IF p = {} THEN v.cursors ELSE v.cursors \union {Min({row[m].at : m \in p})},
                   !.complete = ~HasMore(v, limit)]
<1>3. view' = [view EXCEPT ![s] = w]
  BY <1>1, <1>2 DEF View, IInv, Types, TypeOK
<1>4. /\ row' = row /\ status' = status /\ pushed' = pushed /\ conversation' = conversation
      /\ ~v.complete /\ limit \in Nat /\ (limit = 0 => ~HasMore(v, limit)) /\ p \in Pages(v, limit)
  BY <1>2, LimitAssumption DEF GetMessages, rows
<1>5. ReadAbove(v) /\ Unmissed(v)
  BY <1>2, NullAssumption DEF IInv, Views
<1>6. IsFiniteSet(p) /\ p \subseteq Message /\ \A m \in p : Below(m, v)
  BY <1>4, PageFacts DEF IInv, Types
<1>7. p # {} => Min({row[m].at : m \in p}) \in Time
  BY <1>6, PageEnd DEF Below, IInv
<1>8. w \in View
  <2>1. Cardinality(p) \in Nat
    BY <1>6, FS_CardinalityType
  <2>2. v.read \union p \in SUBSET Message /\ v.fetched + Cardinality(p) \in Nat
    BY <1>6, <2>1 DEF View
  <2>3. (IF p = {} THEN v.cursors ELSE v.cursors \union {Min({row[m].at : m \in p})}) \in SUBSET Time
    BY <1>7 DEF View
  <2>4. (~HasMore(v, limit)) \in BOOLEAN
    <3>1. CASE HasMore(v, limit)
      <4>1. (~HasMore(v, limit)) = FALSE
        BY <3>1
      <4> QED BY <4>1
    <3>2. CASE ~HasMore(v, limit)
      <4>1. (~HasMore(v, limit)) = TRUE
        BY <3>2
      <4> QED BY <4>1
    <3> QED BY <3>1, <3>2
  <2> QED BY <2>2, <2>3, <2>4 DEF View
<1>9. IsNext(w, v, p, limit)
  BY DEF IsNext, View
<1>10. ReadAbove(w) /\ Unmissed(w)
  <2> HIDE DEF w
  <2> QED BY <1>4, <1>5, <1>9, NextPage DEF IInv
<1>11. Types'
  <2> HIDE DEF w
  <2> QED BY <1>3, <1>8 DEF GetMessages, IInv, Types, TypeOK, RowsHaveConversation, Exists, rows
<1>12. Views'
  <2> HIDE DEF w
  <2>1. ASSUME NEW x \in Socket, NEW u \in View, u = view'[x]
        PROVE  ReadAbove(u)' /\ Unmissed(u)'
    <3>1. ReadAbove(u) /\ Unmissed(u)
      <4>1. CASE x = s
        BY <1>3, <1>10, <2>1, <4>1 DEF IInv, Types, TypeOK
      <4>2. CASE x # s
        BY <1>3, <2>1, <4>2, NullAssumption DEF IInv, Types, TypeOK, Views
      <4> QED BY <4>1, <4>2
    <3>2. \A m \in Message : Stored(m) => Stored(m)' /\ row'[m] = row[m]
      BY <1>4 DEF Stored
    <3>3. \A m \in Message : Told(m)' => Told(m)
      BY <1>4 DEF Told
    <3> QED BY <3>1, <3>2, <3>3, PageOfOthers
  <2> QED BY <1>11, <2>1, ViewsNow
<1>13. AcknowledgedIsPushed'
  BY <1>4, AcknowledgedStay DEF IInv
<1> QED BY <1>11, <1>12, <1>13 DEF IInv

(* Whoever joins has every message of the dialog still to read.            *)
LEMMA JoinStep ==
  ASSUME IInv, NEW s \in Socket, NEW c \in Conversation, JoinConversation(s, c)
  PROVE  IInv'
<1> DEFINE w == [conv |-> c, live |-> {}, read |-> {}, fetched |-> 0, cursors |-> {}, complete |-> FALSE]
<1>1. /\ row' = row /\ status' = status /\ pushed' = pushed /\ conversation' = conversation
      /\ view' = [view EXCEPT ![s] = w]
  BY DEF JoinConversation, rows
<1>2. w \in View
  BY DEF View
<1>3. Types'
  <2> HIDE DEF w
  <2> QED BY <1>1, <1>2 DEF JoinConversation, IInv, Types, TypeOK, RowsHaveConversation, Exists, rows
<1>4. ReadAbove(w) /\ Unmissed(w)
  BY FS_EmptySet DEF ReadAbove, Unmissed, Reaches, Below, Told, Stored
<1>5. Views'
  <2> HIDE DEF w
  <2>1. ASSUME NEW x \in Socket, NEW u \in View, u = view'[x]
        PROVE  ReadAbove(u)' /\ Unmissed(u)'
    <3>1. ReadAbove(u) /\ Unmissed(u)
      <4>1. CASE x = s
        BY <1>1, <1>4, <2>1, <4>1 DEF IInv, Types, TypeOK
      <4>2. CASE x # s
        BY <1>1, <2>1, <4>2, NullAssumption DEF IInv, Types, TypeOK, Views
      <4> QED BY <4>1, <4>2
    <3>2. \A m \in Message : Stored(m) => Stored(m)' /\ row'[m] = row[m]
      BY <1>1 DEF Stored
    <3>3. \A m \in Message : Told(m)' => Told(m)
      BY <1>1 DEF Told
    <3> QED BY <3>1, <3>2, <3>3, PageOfOthers
  <2> QED BY <1>3, <2>1, ViewsNow
<1>6. AcknowledgedIsPushed'
  BY <1>1, AcknowledgedStay DEF IInv
<1> QED BY <1>3, <1>5, <1>6 DEF IInv

LEMMA ConnectionStep ==
  ASSUME IInv, NEW s \in Socket,
         HandleDisconnect(s) \/ \E u \in User : HandleConnection(s, u)
  PROVE  IInv'
<1>1. /\ row' = row /\ status' = status /\ pushed' = pushed /\ conversation' = conversation
      /\ \A x \in Socket : view'[x] \in {view[x], null}
  BY DEF HandleDisconnect, HandleConnection, rows, IInv, Types, TypeOK
<1>2. Types'
  BY DEF HandleDisconnect, HandleConnection, rows, IInv, Types, TypeOK, RowsHaveConversation, Exists
<1> QED BY <1>1, <1>2, NoMessage DEF IInv

LEMMA TickStep ==
  ASSUME IInv, Tick
  PROVE  IInv'
<1>1. row' = row /\ status' = status /\ pushed' = pushed /\ conversation' = conversation /\ view' = view
  BY DEF Tick, rows, sockets
<1>2. now' \in Time
  BY TimeAssumption DEF Tick, IInv, Types, TypeOK, Time
<1>3. Types'
  BY <1>1, <1>2 DEF Tick, rows, sockets, IInv, Types, TypeOK, RowsHaveConversation, Exists
<1> QED BY <1>1, <1>3, NoMessage DEF IInv

LEMMA NextIInv ==
  ASSUME IInv, FewRows, [Next]_vars
  PROVE  IInv'
<1>1. CASE StartConversation
  BY <1>1, StartStep
<1>2. CASE Send
  BY <1>2, SendMessageStep, SaveMessageStep, TellRoomStep, PublishStep DEF Send
<1>3. CASE Gateway
  BY <1>3, ConnectionStep, JoinStep, GetMessagesStep DEF Gateway
<1>4. CASE Tick
  BY <1>4, TickStep
<1>5. CASE Crash
  BY <1>5, CrashStep
<1>6. CASE UNCHANGED vars
  <2>1. Types'
    BY <1>6 DEF vars, rows, sockets, IInv, Types, TypeOK, RowsHaveConversation, Exists
  <2> QED BY <1>6, <2>1, NoMessage DEF vars, rows, sockets, IInv
<1> QED BY <1>1, <1>2, <1>3, <1>4, <1>5, <1>6 DEF Next

LEMMA Inductive == Spec => []IInv
<1>1. IInv /\ FewRows /\ [Next]_vars => IInv' /\ FewRows'
  BY NextIInv, FewRowsStep DEF IInv, Types
<1>2. Init => IInv /\ FewRows
  <2> SUFFICES ASSUME Init PROVE FewRows
    BY InitIInv
  <2>1. Kept = {}
    BY DEF Init, Kept
  <2> QED BY <2>1, FS_EmptySet DEF FewRows
<1> QED BY <1>1, <1>2, PTL DEF Spec

(* Tables, handlers, sockets and dialogs have their types.                 *)
THEOREM TypeCorrect == Spec => []TypeOK
<1>1. IInv => TypeOK
  BY DEF IInv, Types
<1> QED BY Inductive, <1>1, PTL

(* For any number of messages, sockets and page sizes: a client that joins *)
(* the room (chat.gateway.ts:49-56) before it reads the history            *)
(* (chat.repository.ts:27-34) to its end misses no message the room was    *)
(* told of, but for those at the very createdAt where a page ended.        *)
THEOREM NoneMissed == Spec => []NothingMissed
<1>1. IInv => NothingMissed
  BY DEF IInv, Views, Unmissed, Reaches, NothingMissed
<1> QED BY Inductive, <1>1, PTL

(* Pages of one dialog never repeat a message: createdAt lt cursor and the *)
(* order of the pages (pagination.ts:7-15).                                *)
THEOREM PagesAreDisjoint == Spec => []NoneTwice
<1>1. IInv => NoneTwice
  BY DEF IInv, Views, ReadAbove, NoneTwice
<1> QED BY Inductive, <1>1, PTL

(* send_message is acknowledged only after its event was published, to the *)
(* peer of the sender (chat.gateway.ts:59-84).                             *)
THEOREM AcknowledgedMeansPushed == Spec => []AcknowledgedIsPushed
<1>1. IInv => AcknowledgedIsPushed
  BY DEF IInv
<1> QED BY Inductive, <1>1, PTL
=============================================================================
