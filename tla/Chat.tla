-------------------------------- MODULE Chat --------------------------------
(***************************************************************************)
(* The chat service: POST /v1/chat/conversations, the paged history of     *)
(* GET /v1/chat/conversations/:id/messages, and the Socket.IO gateway.     *)
(* The presence and typing keys that the gateway writes to Redis are left  *)
(* out: no service reads them.                                             *)
(*                                                                         *)
(* Handlers are cut at every awaited call, as in Sessions.  The clients do *)
(* what openapi/android-api-guide.md asks of them: a dialog is opened by   *)
(* joining its room and then reading its history page by page, newest      *)
(* first, with the createdAt of the last message received as the cursor.   *)
(* A message is a uuid and its row; ids of conversations that do not exist *)
(* are left out, for the calls that get one change nothing.                *)
(***************************************************************************)
EXTENDS Integers, FiniteSets, FiniteSetsExt

CONSTANTS
  User,          \* user ids
  Conversation,  \* uuids of conversations
  Message,       \* uuids of messages
  Socket,        \* socket.io connections
  Request,       \* POST /conversations requests
  Limit,         \* the page sizes clients ask for
  MaxTime,       \* bound on the clock
  null           \* no row, no user, no dialog

Pair  == {{a, b} : a, b \in User}
Time  == 0 .. MaxTime
Row   == [conv : Conversation, sender : User, at : Time]
Event == [message : Message, recipient : User \union {null}]
Start == [step : {"create", "done"}, pair : Pair, got : Conversation \union {null}]
View  == [conv : Conversation, live : SUBSET Message, read : SUBSET Message, fetched : Nat,
          cursors : SUBSET Time, complete : BOOLEAN]

ASSUME TimeAssumption == MaxTime \in Nat
ASSUME LimitAssumption == Limit \subseteq Nat
ASSUME NullAssumption ==
  null \notin User \union Pair \union Conversation \union Row \union Start \union View

VARIABLES
  now,           \* the clock that createdAt is taken from
  conversation,  \* conversation[c]: the participants in the row, or null
  start,         \* start[r]: the locals of a POST /conversations, or null
  row,           \* row[m]: the Message row of m, or what is about to be stored
  status,        \* status[m]: how far send_message has come with m
  pushed,        \* events published as chat.message.sent
  who,           \* who[s]: the user of an open socket, or null
  view           \* view[s]: the dialog open at s, the messages its client received live
                 \* and in pages, and the createdAt at which each page ended

rows    == <<conversation, row, status, pushed>>
sockets == <<who, view>>
vars    == <<now, rows, start, sockets>>

(* "saved", "told": before getConversation, before the publish.  "silent", *)
(* "failed": a call rejected before, after the room was told.              *)
Step == {"new", "sending", "saved", "told", "published", "silent", "failed"}

Stored(m) == status[m] \notin {"new", "sending"}
Told(m)   == status[m] \in {"told", "published", "failed"}
Room(c)   == {s \in Socket : view[s] # null /\ view[s].conv = c}

TypeOK ==
  /\ now \in Time
  /\ conversation \in [Conversation -> Pair \union {null}]
  /\ start \in [Request -> Start \union {null}]
  /\ row \in [Message -> Row \union {null}]
  /\ status \in [Message -> Step]
  /\ \A m \in Message : row[m] = null <=> status[m] = "new"
  /\ pushed \subseteq Event
  /\ who \in [Socket -> User \union {null}]
  /\ view \in [Socket -> View \union {null}]

Exists(c) == conversation[c] # null

(* openapi/android-api-guide.md:350, starting a conversation is idempotent *)
(* and returns the existing one: no two conversations of the same two.     *)
OneConversationPerPair ==
  \A c, d \in Conversation :
    Exists(c) /\ conversation[c] = conversation[d] /\ Cardinality(conversation[c]) = 2 => c = d

(* The service may start on the conversations of an earlier run. *)
Init ==
  /\ now = 0
  /\ conversation \in [Conversation -> Pair \union {null}]
  /\ OneConversationPerPair
  /\ start = [r \in Request |-> null]
  /\ row = [m \in Message |-> null]
  /\ status = [m \in Message |-> "new"]
  /\ pushed = {}
  /\ who = [s \in Socket |-> null]
  /\ view = [s \in Socket |-> null]

-----------------------------------------------------------------------------
(* POST /v1/chat/conversations *)

(* mutant: hasSome in place of hasEvery *)
MatchesSome(c, pair) == Exists(c) /\ conversation[c] \intersect pair # {}

(* where: participants hasEvery sorted. *)
Matches(c, pair) == Exists(c) /\ pair \subseteq conversation[c]

(* findFirst has no order: any match may be the one returned. *)
StartFind(r, a, b) ==
  /\ start[r] = null
  /\ \/ \E c \in Conversation :
          /\ Matches(c, {a, b})
          /\ start' = [start EXCEPT ![r] = [step |-> "done", pair |-> {a, b}, got |-> c]]
     \/ /\ \A c \in Conversation : ~Matches(c, {a, b})
        /\ start' = [start EXCEPT ![r] = [step |-> "create", pair |-> {a, b}, got |-> null]]
  /\ UNCHANGED <<now, rows, sockets>>

(* The create may be done and its answer lost. *)
StartCreate(r) ==
  /\ start[r] # null /\ start[r].step = "create"
  /\ \E c \in Conversation :
       /\ ~Exists(c)
       /\ conversation' = [conversation EXCEPT ![c] = start[r].pair]
       /\ \E got \in {c, null} :
            start' = [start EXCEPT ![r].step = "done", ![r].got = got]
  /\ UNCHANGED <<now, row, status, pushed, sockets>>

-----------------------------------------------------------------------------
(* send_message *)

(* createdAt is taken when the insert begins.  Nothing asks whether the    *)
(* sender takes part in the conversation.                                  *)
SendMessage(m, s, c) ==
  /\ status[m] = "new"
  /\ who[s] # null /\ Exists(c)
  /\ row' = [row EXCEPT ![m] = [conv |-> c, sender |-> who[s], at |-> now]]
  /\ status' = [status EXCEPT ![m] = "sending"]
  /\ UNCHANGED <<now, conversation, pushed, start, sockets>>

(* The insert commits, later than its createdAt says; it commits and the   *)
(* answer is lost; or it is rejected and the client may send again.        *)
SaveMessage(m) ==
  /\ status[m] = "sending"
  /\ \/ /\ \E next \in {"saved", "silent"} : status' = [status EXCEPT ![m] = next]
        /\ UNCHANGED row
     \/ /\ status' = [status EXCEPT ![m] = "new"]
        /\ row' = [row EXCEPT ![m] = null]
  /\ UNCHANGED <<now, conversation, pushed, start, sockets>>

(* When getConversation answers, new_message goes to the room. *)
TellRoom(m) ==
  /\ status[m] = "saved"
  /\ \/ /\ status' = [status EXCEPT ![m] = "told"]
        /\ view' = [s \in Socket |->
                      IF s \in Room(row[m].conv) THEN [view[s] EXCEPT !.live = @ \union {m}]
                                                 ELSE view[s]]
     \/ /\ status' = [status EXCEPT ![m] = "silent"]
        /\ UNCHANGED view
  /\ UNCHANGED <<now, conversation, row, pushed, start, who>>

(* mutant: filter in place of find *)
RecipientsAll(m) == {conversation[row[m].conv] \ {row[m].sender}}

(* participants.find(p => p !== senderId) ?? '' *)
Recipients(m) ==
  LET others == conversation[row[m].conv] \ {row[m].sender}
  IN  IF others = {} THEN {null} ELSE others

(* mutant: a publish that fails is only logged *)
PublishMessageSentBestEffort(m) ==
  /\ status[m] = "told"
  /\ \E u \in Recipients(m) : pushed' \in {pushed, pushed \union {[message |-> m, recipient |-> u]}}
  /\ status' = [status EXCEPT ![m] = "published"]
  /\ UNCHANGED <<now, conversation, row, start, sockets>>

PublishMessageSent(m) ==
  /\ status[m] = "told"
  /\ \E u \in Recipients(m) :
       LET sent == pushed \union {[message |-> m, recipient |-> u]} IN
         \/ /\ pushed' = sent
            /\ status' = [status EXCEPT ![m] = "published"]
         \/ /\ pushed' \in {pushed, sent}
            /\ status' = [status EXCEPT ![m] = "failed"]
  /\ UNCHANGED <<now, conversation, row, start, sockets>>

-----------------------------------------------------------------------------
(* Sockets *)

(* handleConnection; a handshake without a user is cut off.                *)
HandleConnection(s, u) ==
  /\ who[s] = null
  /\ who' = [who EXCEPT ![s] = u]
  /\ UNCHANGED <<now, rows, start, view>>

HandleDisconnect(s) ==
  /\ who[s] # null
  /\ who' = [who EXCEPT ![s] = null]
  /\ view' = [view EXCEPT ![s] = null]
  /\ UNCHANGED <<now, rows, start>>

(* join_conversation.  A socket never leaves a room; the dialog it opened  *)
(* last is the one its client shows.                                       *)
JoinConversation(s, c) ==
  /\ who[s] # null /\ Exists(c)
  /\ view' = [view EXCEPT ![s] =
       [conv |-> c, live |-> {}, read |-> {}, fetched |-> 0, cursors |-> {}, complete |-> FALSE]]
  /\ UNCHANGED <<now, rows, start, who>>

-----------------------------------------------------------------------------
(* GET /v1/chat/conversations/:id/messages *)

(* mutant: lte in place of lt *)
BelowOrAt(m, v) == Stored(m) /\ row[m].conv = v.conv /\ \A t \in v.cursors : row[m].at <= t

(* where: conversationId, createdAt lt cursor. *)
Below(m, v) == Stored(m) /\ row[m].conv = v.conv /\ \A t \in v.cursors : row[m].at < t

(* buildCursorPage: of the limit + 1 rows asked for, in descending order   *)
(* of createdAt and no order among equals, the first limit are the page;   *)
(* the row that is left over says that there is more.                      *)
Pages(v, limit) ==
  LET found == {m \in Message : Below(m, v)} IN
    {p \in SUBSET found :
       /\ Cardinality(p) = (IF Cardinality(found) > limit THEN limit ELSE Cardinality(found))
       /\ \A m \in p : \A n \in found \ p : row[m].at >= row[n].at}

(* mutant: take limit, so that no row is ever left over *)
HasMoreNever(v, limit) == FALSE

HasMore(v, limit) == Cardinality({m \in Message : Below(m, v)}) > limit

(* A page of zero messages with more to come has no last message to take   *)
(* the cursor from: the handler throws.                                    *)
GetMessages(s, limit) ==
  /\ view[s] # null /\ ~view[s].complete
  /\ limit = 0 => ~HasMore(view[s], limit)
  /\ \E p \in Pages(view[s], limit) :
       view' = [view EXCEPT
         ![s].read = @ \union p,
         ![s].fetched = @ + Cardinality(p),
         ![s].cursors = IF p = {} THEN @ ELSE @ \union {Min({row[m].at : m \in p})},
         ![s].complete = ~HasMore(view[s], limit)]
  /\ UNCHANGED <<now, rows, start, who>>

-----------------------------------------------------------------------------
Tick ==
  /\ now < MaxTime
  /\ now' = now + 1
  /\ UNCHANGED <<rows, start, sockets>>

(* The process dies: every socket with it, and every handler in flight. *)
Crash ==
  /\ \E s \in Socket : who[s] # null
  /\ who' = [s \in Socket |-> null] /\ view' = [s \in Socket |-> null]
  /\ row' = [m \in Message |-> IF status[m] = "sending" THEN null ELSE row[m]]
  /\ status' = [m \in Message |->
       CASE status[m] = "sending" -> "new"
         [] status[m] = "saved"   -> "silent"
         [] status[m] = "told"    -> "failed"
         [] OTHER                 -> status[m]]
  /\ start' = [r \in Request |->
       IF start[r] # null THEN [start[r] EXCEPT !.step = "done"] ELSE null]
  /\ UNCHANGED <<now, conversation, pushed>>

StartConversation ==
  \E r \in Request : StartCreate(r) \/ \E a, b \in User : StartFind(r, a, b)

Send ==
  \E m \in Message :
    \/ \E s \in Socket, c \in Conversation : SendMessage(m, s, c)
    \/ SaveMessage(m) \/ TellRoom(m) \/ PublishMessageSent(m)

Gateway ==
  \E s \in Socket :
    \/ \E u \in User : HandleConnection(s, u)
    \/ HandleDisconnect(s)
    \/ \E c \in Conversation : JoinConversation(s, c)
    \/ \E limit \in Limit : GetMessages(s, limit)

Next == StartConversation \/ Send \/ Gateway \/ Tick \/ Crash

Spec == Init /\ [][Next]_vars

-----------------------------------------------------------------------------
(* Properties *)

(* A conversation started with another user is a conversation of exactly   *)
(* these two, whatever other conversations, among them those somebody has  *)
(* with himself, the look-up may come across.                              *)
StartedIsTheirs ==
  \A r \in Request :
    start[r] # null /\ start[r].got # null /\ Cardinality(start[r].pair) = 2 =>
      conversation[start[r].got] = start[r].pair

(* A client that joins the room and then reads the history to its end has  *)
(* every message the room was ever told of, although messages are stored   *)
(* late, sent between the pages and pages have any size.  The exceptions   *)
(* are messages with the very createdAt at which one page ended.           *)
NothingMissed ==
  \A s \in Socket : view[s] # null /\ view[s].complete =>
    \A m \in Message :
      Told(m) /\ row[m].conv = view[s].conv /\ row[m].at \notin view[s].cursors =>
        m \in view[s].read \union view[s].live

(* No page repeats a message of an earlier page of the same dialog: the    *)
(* pages hold as many messages as they hold different ones.                *)
NoneTwice ==
  \A s \in Socket : view[s] # null => view[s].fetched = Cardinality(view[s].read)

(* The sender is told message_sent only for a message that is stored and   *)
(* was published, to the peer when sender and peer are the participants.   *)
AcknowledgedIsPushed ==
  \A m \in Message : status[m] = "published" =>
    \E e \in pushed :
      /\ e.message = m
      /\ row[m].sender \in conversation[row[m].conv] =>
           conversation[row[m].conv] \subseteq {row[m].sender, e.recipient}
=============================================================================
