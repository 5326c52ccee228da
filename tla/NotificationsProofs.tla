-------------------------- MODULE NotificationsProofs --------------------------
(***************************************************************************)
(* Proofs about Notifications, for any users, tokens and length of the     *)
(* stream.  A message leaves the consumer in three ways: acknowledged,     *)
(* taken in hand, or not yet reached; the invariant says in each case what *)
(* has been settled or is still to be.                                     *)
(***************************************************************************)
EXTENDS Notifications, SequenceTheorems, TLAPS

USE NotificationsAssumption

(* A device that counts as steady is its recipient's now. *)
SteadyIsOwned == \A p \in steady : stream[p[1]] # null /\ device[p[2]] = stream[p[1]]

(* Only the service that is up has a message in hand. *)
HandUp == push # null => service = "up"

Types == TypeOK /\ HandUp

(* The message in hand: each steady device is to go, is settled, or is the *)
(* one whose refusal is about to be put on record.                         *)
InHandCovered ==
  push # null =>
    \A p \in steady :
      p[1] = push.msg => \/ p[2] \in push.todo
                         \/ p \in settled
                         \/ p = InHand /\ push.status # "sent"

(* What the consumer has passed, but for the message in hand and those it  *)
(* has to deliver again, is settled.                                       *)
PassedSettled == service = "up" => \A p \in steady : Acked(p[1]) => p \in settled

(* Whoever is the recipient's device now counts as having been, and so do  *)
(* the devices a message in hand has still to be pushed to.                *)
OwnedIsTheirs ==
  \A m \in DOMAIN stream, t \in Token : stream[m] # null /\ device[t] = stream[m] => <<m, t>> \in theirs

ToGoIsTheirs == push # null => \A t \in push.todo : <<push.msg, t>> \in theirs

-----------------------------------------------------------------------------
LEMMA StreamFacts ==
  ASSUME TypeOK
  PROVE  /\ Len(stream) \in Nat /\ DOMAIN stream = 1 .. Len(stream) /\ Len(stream) <= MaxMessages
         /\ next \in Nat /\ next <= Len(stream) + 1
         /\ \A m \in DOMAIN stream : stream[m] \in User \union {null}
         /\ steady \subseteq (1 .. Len(stream)) \X Token
  <1>1. Len(stream) \in Nat /\ DOMAIN stream = 1 .. Len(stream)
    BY LenProperties DEF TypeOK
  <1>2. \A m \in DOMAIN stream : stream[m] \in User \union {null}
    BY <1>1, ElementOfSeq DEF TypeOK
  <1> QED BY <1>1, <1>2 DEF TypeOK

(* A message in hand can be told from none. *)
LEMMA PushFacts ==
  ASSUME TypeOK, push # null
  PROVE  /\ push \in Push /\ push.msg \in Message /\ push.todo \subseteq Token
         /\ push.device \in Token \union {null} /\ push.status \in Status
         /\ push.msg \in 1 .. Len(stream) /\ push.msg \in 1 .. next - 1
  <1>1. push \in Push /\ push.msg \in 1 .. next - 1
    BY DEF TypeOK
  <1>2. push.msg \in 1 .. Len(stream)
    BY <1>1, StreamFacts
  <1> QED BY <1>1, <1>2 DEF Push

LEMMA Taken ==
  ASSUME NEW m \in Message, NEW todo \in SUBSET Token
  PROVE  /\ [msg |-> m, todo |-> todo, device |-> null, status |-> "sent"] \in Push
         /\ [msg |-> m, todo |-> todo, device |-> null, status |-> "sent"] # null
  <1>1. [msg |-> m, todo |-> todo, device |-> null, status |-> "sent"] \in Push
    BY DEF Push, Status
  <1> QED BY <1>1

(* A send takes one device from those to go; its log row puts it back.     *)
LEMMA Tried ==
  ASSUME TypeOK, NEW t \in Token, Send(t)
  PROVE  /\ push # null /\ push' \in Push /\ push' # null /\ push'.msg = push.msg
         /\ push'.todo = push.todo \ {t} /\ push'.device = t
         /\ push.device = null /\ t \in push.todo
         /\ settled \subseteq settled' /\ settled' \subseteq settled \union {<<push.msg, t>>}
         /\ <<push.msg, t>> \in settled' \/ push'.status # "sent"
  <1>1. PICK s \in (IF fcm THEN {"sent", "failed"} ELSE {"skipped"}) :
          /\ push' = [push EXCEPT !.todo = push.todo \ {t}, !.device = t, !.status = s]
          /\ \/ s # "skipped" /\ settled' = settled \union {<<push.msg, t>>}
             \/ s # "sent" /\ UNCHANGED settled
    BY DEF Send
  <1>2. /\ push # null /\ push \in Push /\ push.msg \in Message /\ push.todo \subseteq Token
        /\ s \in Status
    BY PushFacts DEF Send, Status
  <1>3. [push EXCEPT !.todo = push.todo \ {t}, !.device = t, !.status = s] \in Push
    BY <1>2 DEF Push
  <1>4. /\ push'.msg = push.msg /\ push'.todo = push.todo \ {t}
        /\ push'.device = t /\ push'.status = s
    BY <1>1, <1>2 DEF Push
  <1> QED BY <1>1, <1>2, <1>3, <1>4 DEF Send

LEMMA Logged ==
  ASSUME TypeOK, NEW t \in Token, LogWritten(t)
  PROVE  /\ push # null /\ push' \in Push /\ push' # null /\ push'.msg = push.msg
         /\ push'.todo = push.todo /\ push'.device = null /\ push.device = t
         /\ settled' = settled \union Refusal
  <1>1. /\ push # null /\ push \in Push /\ push.msg \in Message /\ push.todo \subseteq Token
        /\ push' = [push EXCEPT !.device = null, !.status = "sent"]
    BY PushFacts DEF LogWritten
  <1>2. [push EXCEPT !.device = null, !.status = "sent"] \in Push
    BY <1>1 DEF Push, Status
  <1>3. push'.msg = push.msg /\ push'.todo = push.todo /\ push'.device = null
    BY <1>1 DEF Push
  <1> QED BY <1>1, <1>2, <1>3 DEF LogWritten

(* What is put on record is the device in hand. *)
LEMMA OnRecord ==
  ASSUME TypeOK, push # null, push.device # null
  PROVE  Refusal \subseteq (DOMAIN stream) \X Token /\ Refusal \subseteq {InHand}
  <1>1. push.msg \in DOMAIN stream /\ push.device \in Token
    BY PushFacts, StreamFacts
  <1> QED BY <1>1 DEF Refusal, InHand

LEMMA TakeFacts ==
  ASSUME TypeOK, NEW m \in Message, Take(m)
  PROVE  /\ m \in 1 .. Len(stream) /\ m \in 1 .. next' - 1
         /\ next' \in 1 .. Len(stream) + 1 /\ redo \subseteq 1 .. next' - 1
         /\ m \in redo \/ m = next
         /\ next' = IF m = next THEN next + 1 ELSE next
  <1>1. Len(stream) \in Nat /\ next \in 1 .. Len(stream) + 1 /\ redo \subseteq 1 .. next - 1
    BY StreamFacts DEF TypeOK
  <1>2. (m \in redo \/ (m = next /\ next <= Len(stream))) /\ next' = IF m = next THEN next + 1 ELSE next
    BY DEF Take, Deliverable
  <1>3. CASE m = next
    <2>1. next' = next + 1 /\ next <= Len(stream)
      BY <1>1, <1>2, <1>3
    <2> QED BY <1>1, <1>3, <2>1
  <1>4. CASE m # next
    <2>1. next' = next /\ m \in redo
      BY <1>2, <1>4
    <2> QED BY <1>1, <1>4, <2>1
  <1> QED BY <1>3, <1>4

LEMMA TypesStep == ASSUME Types, [Next]_vars PROVE Types'
  <1> USE DEF Types, HandUp
  <1>0. /\ Len(stream) \in Nat /\ DOMAIN stream = 1 .. Len(stream) /\ Len(stream) <= MaxMessages
        /\ next \in Nat /\ next <= Len(stream) + 1
    BY StreamFacts
  <1>1. ASSUME NEW t \in Token, NEW u \in User \union {null}, Moved(t, u) PROVE Types'
    BY <1>1 DEF Moved, TypeOK
  <1>2. ASSUME NEW u \in User \union {null}, PublishMessageSent(u) PROVE Types'
    <2>1. /\ stream' \in Seq(User \union {null}) /\ Len(stream') = Len(stream) + 1
          /\ Len(stream') <= MaxMessages
      BY <1>0, <1>2, AppendProperties DEF PublishMessageSent, TypeOK
    <2>2. DOMAIN stream' = 1 .. Len(stream) + 1
      BY <2>1, LenProperties
    <2>3. next \in 1 .. Len(stream') + 1
      BY <1>0, <2>1 DEF TypeOK
    <2>4. \A t \in DevicesOf(u) : <<Len(stream) + 1, t>> \in (DOMAIN stream') \X Token
      BY <1>0, <2>2 DEF DevicesOf
    <2>5. settled \subseteq (DOMAIN stream') \X Token /\ steady' \subseteq (DOMAIN stream') \X Token
      BY <1>0, <1>2, <2>2, <2>4 DEF PublishMessageSent, TypeOK
    <2> QED BY <1>2, <2>1, <2>3, <2>5 DEF PublishMessageSent, TypeOK
  <1>3. CASE Start
    <2>1. 1 \in 1 .. Len(stream) + 1
      BY <1>0
    <2>2. push' = null
      BY <1>3 DEF Start
    <2> QED BY <1>3, <2>1, <2>2 DEF Start, histories, TypeOK
  <1>4. CASE Crash
    BY <1>4 DEF Crash, histories, TypeOK
  <1>5. ASSUME NEW m \in Message, Deliver(m) PROVE Types'
    <2>1. /\ m \in 1 .. next' - 1 /\ next' \in 1 .. Len(stream) + 1 /\ redo \subseteq 1 .. next' - 1
      BY <1>5, TakeFacts DEF Deliver
    <2>2. push' \in Push /\ push'.msg = m
      BY <1>5, Taken DEF Deliver, DevicesOf
    <2> QED BY <1>5, <2>1, <2>2 DEF Deliver, Take, histories, TypeOK
  <1>6. ASSUME NEW m \in Message, DeliverFails(m) PROVE Types'
    <2>1. /\ m \in 1 .. next' - 1 /\ next' \in 1 .. Len(stream) + 1 /\ redo \subseteq 1 .. next' - 1
          /\ push = null
      BY <1>6, TakeFacts DEF DeliverFails, Take
    <2> QED BY <1>6, <2>1 DEF DeliverFails, Take, histories, TypeOK
  <1>7. ASSUME NEW t \in Token, Send(t) PROVE Types'
    <2>1. push' \in Push /\ push'.msg = push.msg /\ push.msg \in 1 .. Len(stream)
      BY <1>7, PushFacts, Tried
    <2>2. settled' \subseteq (DOMAIN stream) \X Token
      <3>1. settled' \subseteq settled \union {<<push.msg, t>>} /\ settled \subseteq (DOMAIN stream) \X Token
        BY <1>7, Tried DEF TypeOK
      <3>2. <<push.msg, t>> \in (DOMAIN stream) \X Token
        BY <1>0, <2>1
      <3> QED BY <3>1, <3>2
    <2>3. push # null /\ UNCHANGED <<device, stream, service, fcm, next, redo, theirs, steady>>
      BY <1>7 DEF Send
    <2> QED BY <2>1, <2>2, <2>3 DEF TypeOK
  <1>8. ASSUME NEW t \in Token, LogWritten(t) PROVE Types'
    <2>1. push' \in Push /\ push'.msg = push.msg
      BY <1>8, Logged
    <2>2. settled' \subseteq (DOMAIN stream) \X Token
      BY <1>8, Logged, OnRecord DEF TypeOK
    <2>3. push # null /\ UNCHANGED <<device, stream, service, fcm, next, redo, theirs, steady>>
      BY <1>8 DEF LogWritten
    <2> QED BY <2>1, <2>2, <2>3 DEF TypeOK
  <1>9. CASE LogFails
    <2>1. settled' \subseteq (DOMAIN stream) \X Token
      BY <1>9, OnRecord DEF LogFails, TypeOK
    <2> QED BY <1>9, <2>1, PushFacts DEF LogFails, TypeOK
  <1>10. CASE Ack
    BY <1>10, PushFacts DEF Ack, histories, TypeOK
  <1>11. CASE UNCHANGED vars
    BY <1>11 DEF vars, histories, TypeOK
  <1> QED BY <1>1, <1>2, <1>3, <1>4, <1>5, <1>6, <1>7, <1>8, <1>9, <1>10, <1>11
          DEF Next, Listener, RegisterDeviceToken, RemoveDeviceToken

-----------------------------------------------------------------------------
(* A step that leaves the consumer, the message in hand and what is settled*)
(* alone and takes nothing but devices from the steady ones.               *)
LEMMA Undisturbed ==
  ASSUME InHandCovered, PassedSettled, UNCHANGED <<service, next, redo, push, settled>>,
         steady' \subseteq steady
  PROVE  InHandCovered' /\ PassedSettled'
  BY DEF InHandCovered, PassedSettled, Acked, InHand

LEMMA OwnedStep == ASSUME Types, SteadyIsOwned, [Next]_vars PROVE SteadyIsOwned'
  <1> USE DEF Types
  <1>1. ASSUME NEW t \in Token, NEW u \in User \union {null}, Moved(t, u) PROVE SteadyIsOwned'
    <2> SUFFICES ASSUME NEW p \in steady' PROVE stream'[p[1]] # null /\ device'[p[2]] = stream'[p[1]]
      BY DEF SteadyIsOwned
    <2>1. /\ p \in steady /\ (p[2] = t => stream[p[1]] = u)
          /\ stream' = stream /\ device' = [device EXCEPT ![t] = u]
      BY <1>1 DEF Moved
    <2>2. stream[p[1]] # null /\ device[p[2]] = stream[p[1]] /\ p[2] \in Token
      BY <2>1 DEF SteadyIsOwned, TypeOK
    <2> QED BY <2>1, <2>2 DEF TypeOK
  <1>2. ASSUME NEW u \in User \union {null}, PublishMessageSent(u) PROVE SteadyIsOwned'
    <2> SUFFICES ASSUME NEW p \in steady' PROVE stream'[p[1]] # null /\ device'[p[2]] = stream'[p[1]]
      BY DEF SteadyIsOwned
    <2>1. /\ \A m \in 1 .. Len(stream) : stream'[m] = stream[m]
          /\ stream'[Len(stream) + 1] = u /\ device' = device
      BY <1>2, AppendProperties DEF PublishMessageSent, TypeOK
    <2>2. CASE p \in steady
      <3>1. p[1] \in 1 .. Len(stream)
        BY <2>2, StreamFacts
      <3> QED BY <2>1, <2>2, <3>1 DEF SteadyIsOwned
    <2>3. ASSUME NEW t \in DevicesOf(u), p = <<Len(stream) + 1, t>>
          PROVE  stream'[p[1]] # null /\ device'[p[2]] = stream'[p[1]]
      <3>1. u # null /\ device[t] = u
        BY <2>3 DEF DevicesOf
      <3> QED BY <2>1, <2>3, <3>1
    <2> QED BY <1>2, <2>2, <2>3 DEF PublishMessageSent
  <1>3. CASE UNCHANGED <<device, stream, steady>>
    BY <1>3 DEF SteadyIsOwned
  <1> QED BY <1>1, <1>2, <1>3
          DEF Next, Listener, RegisterDeviceToken, RemoveDeviceToken, vars, histories, Start, Crash,
              Deliver, DeliverFails, Send, LogWritten, LogFails, Ack

(* What is passed is settled, whatever is taken in hand or back next.      *)
LEMMA SettledStep ==
  ASSUME Types, SteadyIsOwned, InHandCovered, PassedSettled, [Next]_vars
  PROVE  InHandCovered' /\ PassedSettled'
  <1> USE DEF Types, HandUp
  <1>0. /\ next \in Nat /\ next <= Len(stream) + 1 /\ Len(stream) \in Nat
        /\ \A p \in steady : p[1] \in 1 .. Len(stream) /\ p[2] \in Token
    BY StreamFacts
  <1>1. ASSUME NEW t \in Token, NEW u \in User \union {null}, Moved(t, u)
        PROVE  InHandCovered' /\ PassedSettled'
    BY <1>1, Undisturbed DEF Moved
  <1>2. ASSUME NEW u \in User \union {null}, PublishMessageSent(u) PROVE InHandCovered' /\ PassedSettled'
    <2>1. ASSUME NEW p \in steady', p \notin steady PROVE p[1] = Len(stream) + 1
      BY <1>2, <2>1 DEF PublishMessageSent
    <2>2. push # null => push.msg \in 1 .. Len(stream)
      BY PushFacts
    <2>3. \A p \in steady' : p \notin steady => ~(p[1] < next) /\ (push # null => p[1] # push.msg)
      BY <1>0, <2>1, <2>2
    <2> QED BY <1>2, <2>3 DEF PublishMessageSent, InHandCovered, PassedSettled, Acked, InHand
  <1>3. CASE Start
    <2>1. push' = null /\ next' = 1 /\ steady' = steady
      BY <1>3 DEF Start, histories
    <2>2. \A p \in steady : ~(p[1] < 1)
      BY <1>0
    <2> QED BY <2>1, <2>2 DEF InHandCovered, PassedSettled, Acked
  <1>4. CASE Crash
    BY <1>4 DEF Crash, histories, InHandCovered, PassedSettled
  <1>5. ASSUME NEW m \in Message, Take(m), steady' = steady, service' = service, settled' = settled,
               NEW p \in steady, p[1] # m, p[1] < next', p[1] \notin redo' , redo \ {m} \subseteq redo'
        PROVE  p \in settled
    <2>1. push = null /\ service = "up" /\ next' = IF m = next THEN next + 1 ELSE next
      BY <1>5 DEF Take
    <2>2. p[1] < next
      BY <1>0, <1>5, <2>1
    <2> QED BY <1>5, <2>1, <2>2 DEF PassedSettled, Acked
  <1>6. ASSUME NEW m \in Message, Deliver(m) PROVE InHandCovered' /\ PassedSettled'
    <2>1. /\ push' = [msg |-> m, todo |-> DevicesOf(stream[m]), device |-> null, status |-> "sent"]
          /\ redo' = redo \ {m} /\ UNCHANGED <<steady, service, settled, device, stream>>
          /\ Take(m)
      BY <1>6 DEF Deliver, histories
    <2>2. push' # null /\ push'.msg = m /\ push'.todo = DevicesOf(stream[m])
      BY <2>1, Taken DEF DevicesOf
    <2>3. \A p \in steady : p[1] = m => p[2] \in DevicesOf(stream[m])
      BY <1>0 DEF SteadyIsOwned, DevicesOf
    <2>4. \A p \in steady : p[1] # m /\ p[1] < next' /\ p[1] \notin redo' => p \in settled
      BY <1>5, <2>1
    <2> QED BY <2>1, <2>2, <2>3, <2>4 DEF InHandCovered, PassedSettled, Acked
  <1>7. ASSUME NEW m \in Message, DeliverFails(m) PROVE InHandCovered' /\ PassedSettled'
    <2>1. /\ push' = null /\ redo' = redo \union {m} /\ UNCHANGED <<steady, service, settled>>
          /\ Take(m)
      BY <1>7 DEF DeliverFails, Take, histories
    <2>2. \A p \in steady : p[1] # m /\ p[1] < next' /\ p[1] \notin redo' => p \in settled
      BY <1>5, <2>1
    <2> QED BY <2>1, <2>2 DEF InHandCovered, PassedSettled, Acked
  <1>8. ASSUME NEW t \in Token, Send(t) PROVE InHandCovered' /\ PassedSettled'
    <2>1. UNCHANGED <<next, redo, steady, service>>
      BY <1>8 DEF Send
    <2>2. \A p \in steady : p = <<p[1], p[2]>> /\ p[2] # null
      BY StreamFacts
    <2>3. InHandCovered'
      <3> SUFFICES ASSUME NEW p \in steady, p[1] = push.msg
                   PROVE  p[2] \in push'.todo \/ p \in settled' \/ (p = InHand' /\ push'.status # "sent")
        BY <1>8, <2>1, Tried DEF InHandCovered
      <3>0. /\ push # null /\ push.device = null /\ push'.todo = push.todo \ {t}
            /\ settled \subseteq settled'
        BY <1>8, Tried
      <3>1. p # InHand
        BY <2>2, <3>0 DEF InHand
      <3>2. p[2] \in push.todo \/ p \in settled
        BY <3>0, <3>1 DEF InHandCovered
      <3>3. CASE p[2] = t
        BY <1>8, <2>2, <3>3, Tried DEF InHand
      <3>4. CASE p[2] # t
        BY <3>0, <3>2, <3>4
      <3> QED BY <3>3, <3>4
    <2> QED BY <1>8, <2>1, <2>3, Tried DEF PassedSettled, Acked
  <1>9. ASSUME NEW t \in Token, LogWritten(t) PROVE InHandCovered' /\ PassedSettled'
    <2>1. UNCHANGED <<next, redo, steady, service>>
      BY <1>9 DEF LogWritten
    <2>2. push.status # "sent" => InHand \in settled'
      BY <1>9, Logged DEF Refusal
    <2>3. InHandCovered'
      BY <1>9, <2>1, <2>2, Logged DEF InHandCovered
    <2> QED BY <1>9, <2>1, <2>3, Logged DEF PassedSettled, Acked
  <1>10. CASE LogFails
    BY <1>10 DEF LogFails, InHandCovered, PassedSettled, Acked
  <1>11. CASE Ack
    <2>1. /\ push # null /\ push.device = null /\ push.todo = {} /\ push' = null
          /\ redo \subseteq redo' /\ UNCHANGED <<service, next, settled, steady>>
      BY <1>11 DEF Ack, histories
    <2>2. \A p \in steady : p # InHand
      BY <1>0, <2>1 DEF InHand
    <2>3. \A p \in steady : p[1] = push.msg => p \in settled
      BY <2>1, <2>2 DEF InHandCovered
    <2> QED BY <2>1, <2>3 DEF InHandCovered, PassedSettled, Acked
  <1>12. CASE UNCHANGED vars
    BY <1>12, Undisturbed DEF vars, histories
  <1> QED BY <1>1, <1>2, <1>3, <1>4, <1>6, <1>7, <1>8, <1>9, <1>10, <1>11, <1>12
          DEF Next, Listener, RegisterDeviceToken, RemoveDeviceToken

(* A message in hand goes to devices that were its recipient's when it was *)
(* taken, whoever they move to meanwhile.                                  *)
LEMMA TheirsStep ==
  ASSUME Types, OwnedIsTheirs, ToGoIsTheirs, PushedToRecipients, [Next]_vars
  PROVE  OwnedIsTheirs' /\ ToGoIsTheirs' /\ PushedToRecipients'
  <1> USE DEF Types
  <1>0. DOMAIN stream = 1 .. Len(stream) /\ Len(stream) \in Nat
    BY StreamFacts
  <1>1. ASSUME NEW t \in Token, NEW u \in User \union {null}, Moved(t, u)
        PROVE  OwnedIsTheirs' /\ ToGoIsTheirs' /\ PushedToRecipients'
    <2>1. /\ device' = [device EXCEPT ![t] = u] /\ UNCHANGED <<stream, push>>
          /\ theirs' = theirs \union {<<m, t>> : m \in {n \in DOMAIN stream : u # null /\ stream[n] = u}}
      BY <1>1 DEF Moved
    <2>2. OwnedIsTheirs'
      <3> SUFFICES ASSUME NEW m \in DOMAIN stream, NEW d \in Token,
                          stream[m] # null, device'[d] = stream[m]
                   PROVE  <<m, d>> \in theirs'
        BY <2>1 DEF OwnedIsTheirs
      <3>1. CASE d = t
        BY <2>1, <3>1 DEF TypeOK
      <3>2. CASE d # t
        BY <2>1, <3>2 DEF TypeOK, OwnedIsTheirs
      <3> QED BY <3>1, <3>2
    <2> QED BY <2>1, <2>2 DEF ToGoIsTheirs, PushedToRecipients, InHand
  <1>2. ASSUME NEW u \in User \union {null}, PublishMessageSent(u)
        PROVE  OwnedIsTheirs' /\ ToGoIsTheirs' /\ PushedToRecipients'
    <2>1. /\ stream' = Append(stream, u) /\ UNCHANGED <<device, push>>
          /\ theirs' = theirs \union {<<Len(stream) + 1, d>> : d \in {e \in Token : u # null /\ device[e] = u}}
      BY <1>2 DEF PublishMessageSent
    <2>2. /\ DOMAIN stream' = 1 .. Len(stream) + 1 /\ stream'[Len(stream) + 1] = u
          /\ \A m \in 1 .. Len(stream) : stream'[m] = stream[m]
      BY <2>1, AppendProperties, LenProperties DEF TypeOK
    <2>3. ASSUME NEW m \in DOMAIN stream', NEW d \in Token, stream'[m] # null, device'[d] = stream'[m]
          PROVE  <<m, d>> \in theirs'
      <3>1. CASE m \in 1 .. Len(stream)
        BY <1>0, <2>1, <2>2, <2>3, <3>1 DEF OwnedIsTheirs
      <3>2. CASE m = Len(stream) + 1
        BY <2>1, <2>2, <2>3, <3>2
      <3> QED BY <1>0, <2>2, <3>1, <3>2
    <2> QED BY <2>1, <2>3 DEF OwnedIsTheirs, ToGoIsTheirs, PushedToRecipients, InHand
  <1>3. ASSUME NEW m \in Message, Deliver(m)
        PROVE  OwnedIsTheirs' /\ ToGoIsTheirs' /\ PushedToRecipients'
    <2>1. /\ push' = [msg |-> m, todo |-> DevicesOf(stream[m]), device |-> null, status |-> "sent"]
          /\ UNCHANGED <<device, stream, theirs>> /\ m \in DOMAIN stream
      BY <1>0, <1>3, TakeFacts DEF Deliver, histories
    <2>2. push'.msg = m /\ push'.todo = DevicesOf(stream[m]) /\ push'.device = null
      BY <2>1
    <2>3. \A t \in DevicesOf(stream[m]) : <<m, t>> \in theirs
      BY <2>1 DEF OwnedIsTheirs, DevicesOf
    <2> QED BY <2>1, <2>2, <2>3 DEF OwnedIsTheirs, ToGoIsTheirs, PushedToRecipients
  <1>4. ASSUME NEW t \in Token, Send(t)
        PROVE  OwnedIsTheirs' /\ ToGoIsTheirs' /\ PushedToRecipients'
    <2>1. UNCHANGED <<device, stream, theirs>>
      BY <1>4 DEF Send
    <2>2. /\ push # null /\ push'.msg = push.msg /\ push'.todo \subseteq push.todo
          /\ push'.device = t /\ t \in push.todo
      BY <1>4, Tried
    <2> QED BY <2>1, <2>2 DEF OwnedIsTheirs, ToGoIsTheirs, PushedToRecipients, InHand
  <1>5. ASSUME NEW t \in Token, LogWritten(t)
        PROVE  OwnedIsTheirs' /\ ToGoIsTheirs' /\ PushedToRecipients'
    <2>1. UNCHANGED <<device, stream, theirs>>
      BY <1>5 DEF LogWritten
    <2>2. push # null /\ push'.msg = push.msg /\ push'.todo = push.todo /\ push'.device = null
      BY <1>5, Logged
    <2> QED BY <2>1, <2>2 DEF OwnedIsTheirs, ToGoIsTheirs, PushedToRecipients
  <1>6. ASSUME push' \in {push, null}, UNCHANGED <<device, stream, theirs>>
        PROVE  OwnedIsTheirs' /\ ToGoIsTheirs' /\ PushedToRecipients'
    BY <1>6 DEF OwnedIsTheirs, ToGoIsTheirs, PushedToRecipients, InHand
  <1>7. ASSUME NEW m \in Message, DeliverFails(m)
        PROVE  OwnedIsTheirs' /\ ToGoIsTheirs' /\ PushedToRecipients'
    BY <1>6, <1>7 DEF DeliverFails, histories
  <1>8. CASE Start \/ Crash \/ LogFails \/ Ack \/ UNCHANGED vars
    BY <1>6, <1>8 DEF Start, Crash, LogFails, Ack, vars, histories
  <1> QED BY <1>1, <1>2, <1>3, <1>4, <1>5, <1>7, <1>8
          DEF Next, Listener, RegisterDeviceToken, RemoveDeviceToken

-----------------------------------------------------------------------------
(* Theorems *)

IInv ==
  /\ Types
  /\ SteadyIsOwned /\ InHandCovered /\ PassedSettled
  /\ OwnedIsTheirs /\ ToGoIsTheirs /\ PushedToRecipients

LEMMA Inductive == Spec => []IInv
  <1>1. Init => IInv
    <2> SUFFICES ASSUME Init PROVE IInv
      OBVIOUS
    <2>1. stream \in Seq(User \union {null}) /\ Len(stream) = 0
      BY EmptySeq DEF Init
    <2>2. TypeOK
      <3>1. next \in 1 .. Len(stream) + 1 /\ Len(stream) <= MaxMessages
        BY <2>1 DEF Init
      <3> QED BY <2>1, <3>1 DEF Init, TypeOK
    <2>3. DOMAIN stream = {}
      BY <2>1, EmptySeq, LenProperties DEF Init
    <2> QED BY <2>2, <2>3 DEF Init, IInv, Types, HandUp, SteadyIsOwned, InHandCovered, PassedSettled,
                              OwnedIsTheirs, ToGoIsTheirs, PushedToRecipients
  <1>2. IInv /\ [Next]_vars => IInv'
    BY TypesStep, OwnedStep, SettledStep, TheirsStep DEF IInv
  <1> QED BY <1>1, <1>2, PTL DEF Spec

(* The tables, the stream and the consumer have their types. *)
THEOREM TypeCorrect == Spec => []TypeOK
  <1>1. IInv => TypeOK
    BY DEF IInv, Types
  <1> QED BY <1>1, Inductive, PTL

(* For any number of devices and messages, restarts, naks, late acks and   *)
(* whatever FCM answers: the listener acknowledges a message               *)
(* (notifications.listener.ts:34-45) only when, for every device that was  *)
(* its recipient's throughout, FCM took the push or the refusal or the     *)
(* skipping is on record (notifications.service.ts:55-73), although        *)
(* sendPush works on a snapshot of the devices.                            *)
THEOREM NothingUnaccounted == Spec => []NothingAckedUnsettled
  <1>1. IInv => NothingAckedUnsettled
    BY DEF IInv, PassedSettled, NothingAckedUnsettled
  <1> QED BY <1>1, Inductive, PTL

(* For any number of devices that change hands and any number of restarts: *)
(* sendPush (notifications.service.ts:46-75) tries a message on no device  *)
(* that was never its recipient's since it was published, although one may *)
(* have moved on between the look-up and the push.                         *)
THEOREM OnlyRecipientsPushed == Spec => []PushedToRecipients
  <1>1. IInv => PushedToRecipients
    BY DEF IInv
  <1> QED BY <1>1, Inductive, PTL
=============================================================================
