---------------------------- MODULE Notifications ----------------------------
(***************************************************************************)
(* notifications-service: device tokens, and the loop that turns each      *)
(* chat.message.sent event into one push per device of the recipient.  The *)
(* service creates the stream when it first starts; its consumer is        *)
(* ephemeral and delivers all, so every start reads the stream from its    *)
(* first message.  A message is delivered again after a nak and when its   *)
(* ack comes too late.                                                     *)
(*                                                                         *)
(* A push that FCM refuses, or that a process without FCM skips, is only   *)
(* noted in a NotificationLog row; the loop goes on as after a push.       *)
(***************************************************************************)
EXTENDS Naturals, Sequences

CONSTANTS
  User,         \* user ids
  Token,        \* FCM device tokens
  MaxMessages,  \* bound on the stream
  null          \* no row, no recipient, no message in hand

Message == 1 .. MaxMessages
Status  == {"sent", "failed", "skipped"}
Push    == [msg : Message, todo : SUBSET Token, device : Token \union {null}, status : Status]

ASSUME NotificationsAssumption ==
  MaxMessages \in Nat /\ null \notin User \union Token \union Push

VARIABLES
  device,   \* device[t]: the user of the DeviceToken row of t, or null
  stream,   \* stream chat_message_sent: the recipients, null for an empty one
  service,  \* "never" started, "up" or "down"
  fcm,      \* the process running has FCM configured
  next,     \* consumer: the next message of the stream
  redo,     \* consumer: messages to deliver again
  push,     \* the message in hand: devices to go, device tried but not logged; or null
  settled,  \* history: <<m, t>>, FCM took the push of m to t, or a NotificationLog row
            \*   says that it failed or was skipped
  theirs,   \* history: <<m, t>>, t was its recipient's when m was published or later
  steady    \* history: <<m, t>>, t was its recipient's when m was published and ever since

histories == <<settled, theirs, steady>>
vars      == <<device, stream, service, fcm, next, redo, push, histories>>

TypeOK ==
  /\ device \in [Token -> User \union {null}]
  /\ stream \in Seq(User \union {null}) /\ Len(stream) <= MaxMessages
  /\ service \in {"never", "up", "down"} /\ fcm \in BOOLEAN
  /\ next \in 1 .. Len(stream) + 1
  /\ redo \subseteq 1 .. next - 1
  /\ push \in Push \union {null}
  /\ push # null => push.msg \in 1 .. next - 1
  /\ settled \subseteq (DOMAIN stream) \X Token
  /\ theirs \subseteq (DOMAIN stream) \X Token
  /\ steady \subseteq (DOMAIN stream) \X Token

Init ==
  /\ device = [t \in Token |-> null]
  /\ stream = <<>>
  /\ service = "never" /\ fcm = FALSE
  /\ next = 1 /\ redo = {}
  /\ push = null
  /\ settled = {} /\ theirs = {} /\ steady = {}

(* mutant: a recipient left out is a condition left out *)
DevicesOfAnyone(u) == {t \in Token : u # null => device[t] = u}

(* findMany where userId; the empty recipient has no devices. *)
DevicesOf(u) == IF u = null THEN {} ELSE {t \in Token : device[t] = u}

-----------------------------------------------------------------------------
(* Device tokens *)

Moved(t, u) ==
  /\ device' = [device EXCEPT ![t] = u]
  /\ steady' = {p \in steady : p[2] = t => stream[p[1]] = u}
  /\ theirs' = theirs \union {<<m, t>> : m \in {n \in DOMAIN stream : u # null /\ stream[n] = u}}
  /\ UNCHANGED <<stream, service, fcm, next, redo, push, settled>>

(* registerDeviceToken: the token moves to its latest user. *)
RegisterDeviceToken(t, u) == Moved(t, u)

(* removeDeviceToken; when the delete fails nobody is told and nothing     *)
(* changes.                                                                *)
RemoveDeviceToken(t) == device[t] # null /\ Moved(t, null)

-----------------------------------------------------------------------------
(* chat-service publishes; without the stream its publish rejects. *)
PublishMessageSent(u) ==
  /\ service # "never" /\ Len(stream) < MaxMessages
  /\ stream' = Append(stream, u)
  /\ steady' = steady \union {<<Len(stream) + 1, t>> : t \in DevicesOf(u)}
  /\ theirs' = theirs \union {<<Len(stream) + 1, t>> : t \in {d \in Token : u # null /\ device[d] = u}}
  /\ UNCHANGED <<device, service, fcm, next, redo, push, settled>>

-----------------------------------------------------------------------------
(* The listener *)

(* mutant: the new consumer delivers new messages only *)
StartDeliverNew ==
  /\ service # "up"
  /\ service' = "up" /\ fcm' \in BOOLEAN
  /\ next' = Len(stream) + 1 /\ redo' = {}
  /\ UNCHANGED <<device, stream, push, histories>>

(* mutant: sequence numbers counted from 0 *)
StartAtZero ==
  /\ service # "up"
  /\ service' = "up" /\ fcm' \in BOOLEAN
  /\ next' = 0 /\ redo' = {}
  /\ UNCHANGED <<device, stream, push, histories>>

(* The constructor looks whether FCM is configured; onModuleInit: a new    *)
(* consumer that delivers all.                                             *)
Start ==
  /\ service # "up"
  /\ service' = "up" /\ fcm' \in BOOLEAN
  /\ next' = 1 /\ redo' = {}
  /\ UNCHANGED <<device, stream, push, histories>>

Crash ==
  /\ service = "up"
  /\ service' = "down" /\ fcm' = FALSE
  /\ push' = null
  /\ UNCHANGED <<device, stream, next, redo, histories>>

Deliverable == redo \union (IF next <= Len(stream) THEN {next} ELSE {})

Take(m) ==
  /\ service = "up" /\ push = null
  /\ m \in Deliverable
  /\ next' = IF m = next THEN next + 1 ELSE next

(* sendPush begins with the devices the recipient has at this moment.      *)
Deliver(m) ==
  /\ Take(m)
  /\ redo' = redo \ {m}
  /\ push' = [msg |-> m, todo |-> DevicesOf(stream[m]), device |-> null, status |-> "sent"]
  /\ UNCHANGED <<device, stream, service, fcm, histories>>

(* The look-up of the devices rejects: nak. *)
DeliverFails(m) ==
  /\ Take(m)
  /\ redo' = redo \union {m}
  /\ UNCHANGED <<device, stream, service, fcm, push, histories>>

(* The device in hand, to be logged next. *)
InHand == <<push.msg, push.device>>

(* FCM's send: it takes the push, refuses it, or takes it and the answer   *)
(* is lost; without FCM the push is skipped.                               *)
Send(t) ==
  /\ push # null /\ push.device = null /\ t \in push.todo
  /\ \E s \in (IF fcm THEN {"sent", "failed"} ELSE {"skipped"}) :
       /\ push' = [push EXCEPT !.todo = @ \ {t}, !.device = t, !.status = s]
       /\ \/ s # "skipped" /\ settled' = settled \union {<<push.msg, t>>}
          \/ s # "sent" /\ UNCHANGED settled
  /\ UNCHANGED <<device, stream, service, fcm, next, redo, theirs, steady>>

(* What the row written now puts on record: a push refused or skipped.     *)
Refusal == IF push.status = "sent" THEN {} ELSE {InHand}

LogWritten(t) ==
  /\ push # null /\ push.device = t
  /\ settled' = settled \union Refusal
  /\ push' = [push EXCEPT !.device = null, !.status = "sent"]
  /\ UNCHANGED <<device, stream, service, fcm, next, redo, theirs, steady>>

(* mutant: an error is logged and the message acknowledged *)
LogFailsAcked ==
  /\ push # null /\ push.device # null
  /\ push' = null
  /\ UNCHANGED <<device, stream, service, fcm, next, redo, histories>>

(* notificationLog.create rejects, the row stored or not: nak, and the     *)
(* devices to go are dropped.                                              *)
LogFails ==
  /\ push # null /\ push.device # null
  /\ settled' \in {settled, settled \union Refusal}
  /\ push' = null
  /\ redo' = redo \union {push.msg}
  /\ UNCHANGED <<device, stream, service, fcm, next, theirs, steady>>

(* The ack, which may come too late. *)
Ack ==
  /\ push # null /\ push.device = null /\ push.todo = {}
  /\ push' = null
  /\ redo' \in {redo, redo \union {push.msg}}
  /\ UNCHANGED <<device, stream, service, fcm, next, histories>>

Listener ==
  \/ Start \/ Crash
  \/ \E m \in Message : Deliver(m) \/ DeliverFails(m)
  \/ \E t \in Token : Send(t) \/ LogWritten(t)
  \/ LogFails \/ Ack

Next ==
  \/ \E t \in Token : RemoveDeviceToken(t) \/ \E u \in User : RegisterDeviceToken(t, u)
  \/ \E u \in User \union {null} : PublishMessageSent(u)
  \/ Listener

(* The service is started again when it is down, the loop goes on while it *)
(* is up, and JetStream passes no message over for ever.                   *)
Fairness ==
  /\ WF_vars(Start)
  /\ WF_vars(\E t \in Token : Send(t)) /\ WF_vars(\E t \in Token : LogWritten(t))
  /\ WF_vars(Ack)
  /\ \A m \in Message : SF_vars(Deliver(m))

Spec == Init /\ [][Next]_vars /\ Fairness

-----------------------------------------------------------------------------
(* Properties *)

(* The consumer has done with m. *)
Acked(m) == m < next /\ m \notin redo /\ (push = null \/ push.msg # m)

(* A message leaves the consumer only when, for every device that was its  *)
(* recipient's all the time, FCM took the push or a NotificationLog row    *)
(* says that it was refused or skipped: a log write that fails for one     *)
(* device does not cost the others their push, nor does a restart.  (A     *)
(* push on record as refused is not tried again.)                          *)
NothingAckedUnsettled ==
  service = "up" => \A p \in steady : Acked(p[1]) => p \in settled

(* A push is tried only for a device that was the recipient's when the     *)
(* message was published or has been since, though sendPush works on a     *)
(* snapshot of the devices, and a message is pushed again whenever the     *)
(* service starts.                                                         *)
PushedToRecipients == push # null /\ push.device # null => InHand \in theirs

(* If the service stays up at last and the database stops failing, every   *)
(* message is settled for every device that stays its recipient's,         *)
(* whatever was nak'd, acknowledged late or lost with the process before,  *)
(* and although messages are pushed again and the devices keep changing.   *)
(* Where FCM is configured and refuses nothing, that is a push.            *)
EverySteadyDeviceSettled ==
  <>[](service = "up") /\ <>[][~LogFails /\ ~\E m \in Message : DeliverFails(m)]_vars =>
    \A m \in Message, t \in Token :
      <<m, t>> \in steady ~> <<m, t>> \in settled \/ <<m, t>> \notin steady
=============================================================================
