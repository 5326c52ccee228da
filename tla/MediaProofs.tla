------------------------------ MODULE MediaProofs ------------------------------
(***************************************************************************)
(* Proofs about Media and the gateway it sits behind, for any users, uuids *)
(* and numbers of requests.  IInv is the inductive invariant: what the     *)
(* locals of a request say at each of its calls, that a URL or an object   *)
(* has its row, what a removal leaves behind, and how long tokens live.    *)
(***************************************************************************)
EXTENDS Media, FiniteSetTheorems, TLAPS

USE GatewayAssumption, MediaAssumption, MediaNullAssumption

(* The row of i is stored and its owner is u. *)
Filed(i, u) == row[i] # null /\ row[i].user = u

Settled(i) == row[i] # null /\ row[i].status # "pending"

(* Nobody but r has to do with the uuid that r is about to store. *)
Claimed(r) ==
  LET i == call[r].key.id IN
  /\ row[i] = null
  /\ \A k \in object : k.id # i
  /\ \A s \in Request : s # r /\ call[s] # null => call[s].key.id # i

(* What the locals of a request hold at the call it makes next. *)
CallFits(r) ==
  LET c == call[r]
      i == call[r].key.id
  IN  c # null =>
    /\ c.bearer = c.user
    /\ c.at \in {"create", "answerUpload", "remove", "mark"} => c.key = MediaKey(c.user, i)
    /\ c.at = "create" => Claimed(r) /\ c.made = {}
    /\ c.at \in {"answerUpload", "remove", "mark"} => Filed(i, c.user)
    /\ c.at = "mark" => removal[i] # "none"
    /\ c.at \in {"announce", "answerConfirm"} => Settled(i)
    /\ c.at = "answerConfirm" => i \in announced
    /\ c.at = "removePhoto" => c.key.photo /\ c.key.user = c.user
    /\ c.made \subseteq {i}

CallsFit == \A r \in Request : CallFits(r)

UrlsFiled ==
  \A i \in Uuid : url[i] # null =>
    Filed(i, url[i].key.user) /\ url[i].key = MediaKey(url[i].key.user, i)

ObjectsFiled == \A k \in object : ~k.photo => Filed(k.id, k.user)

RemovedIsGone ==
  /\ \A k \in object : ~k.photo => removal[k.id] # "removed"
  /\ \A i \in Uuid : row[i] # null /\ row[i].status = "deleted" => removal[i] # "none"

AnnouncedSettled == \A i \in announced : Settled(i)

(* Nobody whose account is closed is issued a token. *)
TokensEnd ==
  \A u \in User : expires[u] # null /\ closed[u] # null => expires[u] <= closed[u] + AccessTtl

TokensLast == \A u \in User : expires[u] # null => expires[u] <= now + AccessTtl

IInv ==
  /\ TypeOK
  /\ CallsFit
  /\ UrlsFiled /\ ObjectsFiled
  /\ RemovedIsGone /\ AnnouncedSettled
  /\ TokensEnd /\ TokensLast

(* How rows may change: they are never removed, keep their owner and do    *)
(* not become pending again.                                               *)
RowsKeep ==
  \A i \in Uuid : row[i] # null =>
    /\ row'[i] # null /\ row'[i].user = row[i].user
    /\ row[i].status # "pending" => row'[i].status # "pending"

LEMMA InitIInv == Init => IInv
  BY DEF Init, GatewayInit, IInv, TypeOK, GatewayTypeOK, CallsFit, CallFits, UrlsFiled, ObjectsFiled,
         RemovedIsGone, AnnouncedSettled, TokensEnd, TokensLast

(* The gateway lets a request in for the subject of its token only. *)
LEMMA ActsForSubject ==
  ASSUME NEW bearer \in User \union {null}, NEW u \in ActsFor(bearer)
  PROVE  u = bearer /\ u \in User /\ ValidToken(u)
  BY DEF ActsFor, Admits, UserHeader, Routes, ValidToken

(* The locals of a request in flight have their types. *)
LEMMA CallType ==
  ASSUME TypeOK, NEW r \in Request, call[r] # null
  PROVE  /\ call[r] \in Call
         /\ call[r].bearer \in User \union {null} /\ call[r].user \in User
         /\ call[r].key \in Key /\ call[r].key.id \in Uuid /\ call[r].key.user \in User
         /\ call[r].until \in Nat /\ call[r].heard \in BOOLEAN /\ call[r].made \subseteq Uuid
  BY DEF TypeOK, Call, Key

LEMMA RowType ==
  ASSUME TypeOK, NEW i \in Uuid, row[i] # null
  PROVE  row[i] \in Row /\ row[i].user \in User
  BY DEF TypeOK, Row

LEMMA KeyType ==
  ASSUME NEW u \in User, NEW i \in Uuid
  PROVE  /\ MediaKey(u, i) \in Key /\ MediaKey(u, i).id = i /\ MediaKey(u, i).user = u /\ ~MediaKey(u, i).photo
         /\ PhotoKey(u, i) \in Key /\ PhotoKey(u, i).id = i /\ PhotoKey(u, i).user = u /\ PhotoKey(u, i).photo
  BY DEF MediaKey, PhotoKey, Key

(* Opening a request puts a well-formed record into its slot. *)
LEMMA OpenType ==
  ASSUME TypeOK, NEW r \in Request, NEW u \in User, NEW b \in User \union {null}, NEW k \in Key,
         NEW until \in Nat,
         NEW step \in {"create", "announce", "remove", "removePhoto"}, Open(r, step, b, u, k, until)
  PROVE  /\ call[r] = null
         /\ call' \in [Request -> Call \union {null}]
         /\ \A s \in Request : s # r => call'[s] = call[s]
         /\ call'[r] # null
         /\ call'[r].at = step /\ call'[r].bearer = b /\ call'[r].user = u /\ call'[r].key = k
         /\ call'[r].made = {}
         /\ UNCHANGED gateway
  <1> DEFINE c == [at |-> step, bearer |-> b, user |-> u, key |-> k, until |-> until,
                   heard |-> TRUE, made |-> {}]
  <1>1. c \in Call
    BY DEF Call
  <1>2. call' = [call EXCEPT ![r] = c] /\ call[r] = null /\ UNCHANGED gateway
    BY DEF Open
  <1>3. c # null
    BY <1>1
  <1> QED BY <1>1, <1>2, <1>3 DEF TypeOK
Kept(i) == removal[i] # "none" => removal'[i] # "none"

(* A request that does not move keeps what it knows, while the others do   *)
(* not meddle with a uuid that is not theirs.                              *)
LEMMA OtherCall ==
  ASSUME IInv, NEW s \in Request, call'[s] = call[s],
         RowsKeep, announced \subseteq announced', \A i \in Uuid : Kept(i),
         \A i \in Uuid : row[i] = null /\ row'[i] # null =>
           \E t \in Request : t # s /\ call[t] # null /\ call[t].key.id = i,
         \A k \in object' \ object : row[k.id] # null \/ Fresh(k.id),
         \A t \in Request : t # s /\ call'[t] # null =>
           \/ call[t] # null /\ call'[t].key.id = call[t].key.id
           \/ Fresh(call'[t].key.id)
           \/ row[call'[t].key.id] # null
           \/ call'[t].key \in object
  PROVE  CallFits(s)'
  <1> SUFFICES ASSUME call[s] # null PROVE CallFits(s)'
    BY DEF CallFits
  <1> DEFINE i == call[s].key.id
  <1>1. i \in Uuid
    BY CallType DEF IInv
  <1>2. CallFits(s) /\ Kept(i)
    BY <1>1 DEF IInv, CallsFit
  <1>3. ASSUME call[s].at = "create" PROVE Claimed(s)'
    <2>1. Claimed(s)
      BY <1>2, <1>3 DEF CallFits
    <2>2. ~Fresh(i)
      BY DEF Fresh
    <2>3. row'[i] = null
      BY <1>1, <2>1 DEF Claimed
    <2>4. \A k \in object' : k.id # i
      BY <2>1, <2>2 DEF Claimed
    <2>5. \A t \in Request : t # s /\ call'[t] # null => call'[t].key.id # i
      BY <2>1, <2>2 DEF Claimed
    <2> QED BY <2>3, <2>4, <2>5 DEF Claimed
  <1>4. ASSUME Filed(i, call[s].user) PROVE Filed(i, call[s].user)'
    BY <1>1, <1>4 DEF Filed, RowsKeep
  <1>5. ASSUME Settled(i) PROVE Settled(i)'
    BY <1>1, <1>5 DEF Settled, RowsKeep
  <1>6. removal[i] # "none" => removal'[i] # "none"
    BY <1>2 DEF Kept
  <1> QED BY <1>2, <1>3, <1>4, <1>5, <1>6 DEF CallFits, Filed, Settled, MediaKey

(* Steps that leave what is stored alone: only the locals can go wrong.    *)
LEMMA StoredAlone ==
  ASSUME IInv, UNCHANGED <<stored, removal>>, announced \subseteq announced'
  PROVE  /\ RowsKeep /\ UrlsFiled' /\ ObjectsFiled' /\ RemovedIsGone'
         /\ \A i \in Uuid : Kept(i)
         /\ announced' = announced => AnnouncedSettled'
  BY DEF IInv, stored, RowsKeep, UrlsFiled, ObjectsFiled, RemovedIsGone, AnnouncedSettled, Filed, Settled, Kept

(* What has its row keeps it. *)
LEMMA RowsKept ==
  ASSUME IInv, RowsKeep
  PROVE  /\ url' = url => UrlsFiled'
         /\ object' \subseteq object => ObjectsFiled'
         /\ announced' = announced => AnnouncedSettled'
  <1>1. \A j \in Uuid : \A u \in User : Filed(j, u) => Filed(j, u)'
    BY DEF Filed, RowsKeep
  <1>2. \A j \in Uuid : Settled(j) => Settled(j)'
    BY DEF Settled, RowsKeep
  <1>3. \A j \in Uuid : url[j] # null => url[j].key.user \in User
    BY DEF IInv, TypeOK, Url, Key
  <1>4. \A k \in object : k.user \in User /\ k.id \in Uuid
    BY DEF IInv, TypeOK, Key
  <1>5. url' = url => UrlsFiled'
    BY <1>1, <1>3 DEF IInv, UrlsFiled
  <1>6. object' \subseteq object => ObjectsFiled'
    BY <1>1, <1>4 DEF IInv, ObjectsFiled
  <1>7. announced' = announced => AnnouncedSettled'
    BY <1>2 DEF IInv, AnnouncedSettled, TypeOK
  <1> QED BY <1>5, <1>6, <1>7

LEMMA GatewayAlone ==
  ASSUME IInv, UNCHANGED gateway
  PROVE  GatewayTypeOK' /\ TokensEnd' /\ TokensLast'
  BY DEF IInv, TypeOK, gateway, GatewayTypeOK, TokensEnd, TokensLast

(* The slots other than r's, in a step that opens a request in r.          *)
LEMMA OpenStep ==
  ASSUME IInv, NEW r \in Request, NEW b \in User \union {null}, NEW u \in ActsFor(b),
         NEW k \in Key, NEW until \in Nat,
         NEW step \in {"create", "announce", "remove", "removePhoto"}, Open(r, step, b, u, k, until),
         Fresh(k.id) \/ row[k.id] # null \/ k \in object,
         RowsKeep, UNCHANGED <<object, announced, removal>>,
         \A i \in Uuid : row[i] = null => row'[i] = null,
         CallFits(r)'
  PROVE  CallsFit'
  <1>1. u \in User
    BY ActsForSubject
  <1>2. /\ \A s \in Request : s # r => call'[s] = call[s]
        /\ call'[r].key = k
    BY <1>1, OpenType DEF IInv
  <1>3. \A i \in Uuid : Kept(i)
    BY DEF Kept
  <1>4. ASSUME NEW s \in Request, s # r PROVE CallFits(s)'
    <2>1. \A t \in Request : t # s /\ call'[t] # null =>
           \/ call[t] # null /\ call'[t].key.id = call[t].key.id
           \/ Fresh(call'[t].key.id)
           \/ row[call'[t].key.id] # null
           \/ call'[t].key \in object
      BY <1>2
    <2> QED BY <1>2, <1>3, <1>4, <2>1, OtherCall
  <1> QED BY <1>4 DEF CallsFit

(* The slots other than r's, in a step of the request in r. *)
LEMMA MoveStep ==
  ASSUME IInv, NEW r \in Request, call[r] # null,
         \A s \in Request : s # r => call'[s] = call[s],
         call'[r] # null => call'[r].key.id = call[r].key.id,
         RowsKeep, announced \subseteq announced', \A i \in Uuid : Kept(i),
         object' \subseteq object,
         \A i \in Uuid : row[i] = null /\ row'[i] # null => i = call[r].key.id,
         CallFits(r)'
  PROVE  CallsFit'
  <1>1. ASSUME NEW s \in Request, s # r PROVE CallFits(s)'
    <2>1. \A i \in Uuid : row[i] = null /\ row'[i] # null =>
            \E t \in Request : t # s /\ call[t] # null /\ call[t].key.id = i
      BY <1>1
    <2>2. \A t \in Request : t # s /\ call'[t] # null =>
            call[t] # null /\ call'[t].key.id = call[t].key.id
      OBVIOUS
    <2> QED BY <1>1, <2>1, <2>2, OtherCall
  <1> QED BY <1>1 DEF CallsFit
Ats == {"create", "answerUpload", "announce", "answerConfirm", "remove", "mark", "removePhoto"}

LEMMA GoToType ==
  ASSUME TypeOK, NEW r \in Request, call[r] # null, NEW step \in Ats, GoTo(r, step)
  PROVE  /\ call' \in [Request -> Call \union {null}]
         /\ \A s \in Request : s # r => call'[s] = call[s]
         /\ call'[r] # null /\ call'[r].at = step
         /\ call'[r].bearer = call[r].bearer /\ call'[r].user = call[r].user
         /\ call'[r].key = call[r].key /\ call'[r].made = call[r].made
         /\ UNCHANGED gateway
  <1>1. call[r] \in Call
    BY CallType
  <1>2. [call[r] EXCEPT !.at = step] \in Call
    BY <1>1 DEF Call, Ats
  <1>3. call' = [call EXCEPT ![r] = [call[r] EXCEPT !.at = step]] /\ UNCHANGED gateway
    BY DEF GoTo
  <1> QED BY <1>1, <1>2, <1>3 DEF TypeOK, Call

LEMMA EndType ==
  ASSUME TypeOK, NEW r \in Request, End(r)
  PROVE  /\ call' \in [Request -> Call \union {null}]
         /\ \A s \in Request : s # r => call'[s] = call[s]
         /\ call'[r] = null
         /\ UNCHANGED gateway
  BY DEF TypeOK, End

(* A request that ends and leaves everything else as it is. *)
LEMMA EndStep ==
  ASSUME IInv, NEW r \in Request, call[r] # null, End(r), UNCHANGED <<stored, announced, removal>>
  PROVE  IInv'
  <1>1. /\ RowsKeep /\ UrlsFiled' /\ ObjectsFiled' /\ RemovedIsGone' /\ AnnouncedSettled'
        /\ \A i \in Uuid : Kept(i)
    BY StoredAlone
  <1>2. CallsFit'
    BY <1>1, EndType, MoveStep DEF IInv, CallFits, stored
  <1>3. TypeOK' /\ TokensEnd' /\ TokensLast'
    BY EndType, GatewayAlone DEF IInv, TypeOK, stored
  <1> QED BY <1>1, <1>2, <1>3 DEF IInv

(* The steps of requestUpload. *)
LEMMA UploadSteps ==
  ASSUME IInv, NEW r \in Request
  PROVE  /\ \A b \in User \union {null} : \A u \in ActsFor(b), i \in Uuid :
              RequestUpload(r, b, u, i) => IInv'
         /\ CreateRow(r) \/ AnswerUpload(r) => IInv'
  <1>1. ASSUME NEW b \in User \union {null}, NEW u \in ActsFor(b), NEW i \in Uuid,
               RequestUpload(r, b, u, i)
        PROVE  IInv'
    <2>1. u = b /\ u \in User /\ now + UrlTtl \in Nat /\ MediaKey(u, i) \in Key /\ MediaKey(u, i).id = i
      BY ActsForSubject, KeyType DEF IInv, TypeOK, GatewayTypeOK
    <2>2. /\ call[r] = null /\ call' \in [Request -> Call \union {null}]
          /\ \A s \in Request : s # r => call'[s] = call[s]
          /\ call'[r].at = "create" /\ call'[r].bearer = u /\ call'[r].user = u
          /\ call'[r].key = MediaKey(u, i) /\ call'[r].made = {}
          /\ UNCHANGED gateway
      BY <1>1, <2>1, OpenType DEF RequestUpload, IInv
    <2>3. Fresh(i) /\ UNCHANGED <<stored, announced, removal>> /\ Open(r, "create", b, u, MediaKey(u, i), now + UrlTtl)
      BY <1>1 DEF RequestUpload
    <2>4. Claimed(r)'
      BY <2>1, <2>2, <2>3 DEF Claimed, Fresh, stored
    <2>5. CallFits(r)'
      BY <2>1, <2>2, <2>4 DEF CallFits
    <2>6. /\ RowsKeep /\ UrlsFiled' /\ ObjectsFiled' /\ RemovedIsGone' /\ AnnouncedSettled'
      BY <2>3, StoredAlone
    <2>7. CallsFit'
      BY <1>1, <2>1, <2>3, <2>5, <2>6, OpenStep DEF stored
    <2>8. TypeOK' /\ TokensEnd' /\ TokensLast'
      BY <2>2, <2>3, GatewayAlone DEF IInv, TypeOK, stored
    <2> QED BY <2>6, <2>7, <2>8 DEF IInv
  <1>2. ASSUME CreateRow(r) PROVE IInv'
    <2> DEFINE i == call[r].key.id
               new == [user |-> call[r].user, status |-> "pending"]
    <2>1. /\ call[r] \in Call /\ call[r] # null /\ i \in Uuid /\ call[r].user \in User
          /\ call[r].at = "create" /\ CallFits(r)
      BY <1>2, CallType DEF CreateRow, At, IInv, CallsFit
    <2>2. new \in Row /\ new # null
      BY <2>1 DEF Row
    <2>3. row' = [row EXCEPT ![i] = new] /\ UNCHANGED <<gateway, object, url, announced, removal>>
      BY <1>2 DEF CreateRow
    <2>4. Claimed(r) /\ row[i] = null /\ call[r].made = {} /\ call[r].key = MediaKey(call[r].user, i)
          /\ call[r].bearer = call[r].user
      BY <2>1 DEF CallFits, Claimed
    <2>5. /\ call' \in [Request -> Call \union {null}]
          /\ \A s \in Request : s # r => call'[s] = call[s]
          /\ call'[r] # null /\ call'[r].at = "answerUpload"
          /\ call'[r].key = call[r].key /\ call'[r].user = call[r].user
          /\ call'[r].bearer = call[r].bearer /\ call'[r].made = {i}
      <3>1. call' = [call EXCEPT ![r].at = "answerUpload", ![r].made = @ \union {i}]
        BY <1>2 DEF CreateRow
      <3>2. call'[r] = [call[r] EXCEPT !.at = "answerUpload", !.made = call[r].made \union {i}]
        BY <3>1 DEF IInv, TypeOK
      <3>3. call'[r] \in Call
        <4>1. \A m \in SUBSET Uuid : [call[r] EXCEPT !.at = "answerUpload", !.made = m] \in Call
          BY <2>1 DEF Call
        <4>2. call[r].made \union {i} \in SUBSET Uuid
          BY <2>1, <2>4
        <4> QED BY <3>2, <4>1, <4>2
      <3> QED BY <2>1, <2>4, <3>1, <3>2, <3>3, SMTT(30) DEF IInv, TypeOK, Call
    <2>6. row'[i] = new /\ (\A j \in Uuid : j # i => row'[j] = row[j]) /\ row' \in [Uuid -> Row \union {null}]
      BY <2>1, <2>2, <2>3 DEF IInv, TypeOK
    <2>7. RowsKeep
      BY <2>4, <2>6 DEF RowsKeep
    <2>8. CallFits(r)'
      BY <2>2, <2>4, <2>5, <2>6 DEF CallFits, Filed
    <2>9. CallsFit'
      <3>1. \A j \in Uuid : Kept(j)
        BY <2>3 DEF Kept
      <3> QED BY <2>1, <2>3, <2>5, <2>6, <2>7, <2>8, <3>1, MoveStep
    <2>10. UrlsFiled' /\ ObjectsFiled' /\ AnnouncedSettled'
      BY <2>3, <2>7, RowsKept
    <2>11. RemovedIsGone'
      BY <2>3, <2>6 DEF IInv, RemovedIsGone
    <2>12. TypeOK' /\ TokensEnd' /\ TokensLast'
      BY <2>3, <2>5, <2>6, GatewayAlone DEF IInv, TypeOK
    <2> QED BY <2>9, <2>10, <2>11, <2>12 DEF IInv
  <1>3. ASSUME AnswerUpload(r) PROVE IInv'
    <2> DEFINE i == call[r].key.id
               new == [key |-> call[r].key, until |-> call[r].until]
    <2>1. /\ call[r] # null /\ i \in Uuid /\ call[r].user \in User /\ call[r].key \in Key
          /\ call[r].until \in Nat /\ call[r].at = "answerUpload" /\ CallFits(r)
      BY <1>3, CallType DEF AnswerUpload, At, IInv, CallsFit
    <2>2. End(r) /\ UNCHANGED <<row, object, announced, removal>>
      BY <1>3 DEF AnswerUpload
    <2>3. url' \in {url, [url EXCEPT ![i] = new]}
      BY <1>3 DEF AnswerUpload
    <2>4. new \in Url /\ Filed(i, new.key.user) /\ new.key = MediaKey(new.key.user, i)
      BY <2>1, KeyType DEF Url, CallFits
    <2>5. UrlsFiled' /\ url' \in [Uuid -> Url \union {null}]
      BY <2>2, <2>3, <2>4 DEF IInv, TypeOK, UrlsFiled, Filed
    <2>6. RowsKeep /\ (\A j \in Uuid : Kept(j))
      BY <2>2 DEF RowsKeep, Kept
    <2>7. CallsFit'
      BY <2>1, <2>2, <2>6, EndType, MoveStep DEF IInv, CallFits
    <2>8. ObjectsFiled' /\ RemovedIsGone' /\ AnnouncedSettled'
      BY <2>2 DEF IInv, ObjectsFiled, RemovedIsGone, AnnouncedSettled, Filed, Settled
    <2>9. TypeOK' /\ TokensEnd' /\ TokensLast'
      BY <2>2, <2>5, EndType, GatewayAlone DEF IInv, TypeOK
    <2> QED BY <2>5, <2>7, <2>8, <2>9 DEF IInv
  <1> QED BY <1>1, <1>2, <1>3
(* The steps of confirmUpload. *)
LEMMA ConfirmSteps ==
  ASSUME IInv, NEW r \in Request
  PROVE  /\ \A b \in User \union {null} : \A u \in ActsFor(b), i \in Uuid :
              ConfirmUpload(r, b, u, i) => IInv'
         /\ Announce(r) \/ AnswerConfirm(r) => IInv'
  <1>1. ASSUME NEW b \in User \union {null}, NEW u \in ActsFor(b), NEW i \in Uuid,
               ConfirmUpload(r, b, u, i)
        PROVE  IInv'
    <2>1. u = b /\ u \in User /\ MediaKey(u, i) \in Key /\ MediaKey(u, i).id = i
      BY ActsForSubject, KeyType
    <2>2. /\ row[i] # null /\ UNCHANGED <<object, url, announced, removal>>
          /\ row' = [row EXCEPT ![i].status = "active"]
          /\ Open(r, "announce", b, u, MediaKey(u, i), 0)
      BY <1>1 DEF ConfirmUpload
    <2>3. /\ call[r] = null /\ call' \in [Request -> Call \union {null}]
          /\ \A s \in Request : s # r => call'[s] = call[s]
          /\ call'[r].at = "announce" /\ call'[r].bearer = u /\ call'[r].user = u
          /\ call'[r].key = MediaKey(u, i) /\ call'[r].made = {}
          /\ UNCHANGED gateway
      BY <2>1, <2>2, OpenType DEF IInv
    <2>4. /\ row'[i] # null /\ row'[i].status = "active" /\ row'[i].user = row[i].user
          /\ \A j \in Uuid : j # i => row'[j] = row[j]
          /\ row' \in [Uuid -> Row \union {null}]
      <3>1. row[i] \in Row
        BY <2>2, RowType DEF IInv
      <3>2. [row[i] EXCEPT !.status = "active"] \in Row
        BY <3>1 DEF Row
      <3> QED BY <2>2, <3>1, <3>2 DEF IInv, TypeOK, Row
    <2>5. RowsKeep /\ \A j \in Uuid : row[j] = null => row'[j] = null
      BY <2>2, <2>4 DEF RowsKeep
    <2>6. CallFits(r)'
      BY <2>1, <2>3, <2>4 DEF CallFits, Settled
    <2>7. CallsFit'
      BY <2>1, <2>2, <2>5, <2>6, OpenStep
    <2>8. UrlsFiled' /\ ObjectsFiled' /\ AnnouncedSettled'
      BY <2>2, <2>5, RowsKept
    <2>9. RemovedIsGone'
      BY <2>2, <2>4 DEF IInv, RemovedIsGone
    <2>10. TypeOK' /\ TokensEnd' /\ TokensLast'
      BY <2>2, <2>3, <2>4, GatewayAlone DEF IInv, TypeOK
    <2> QED BY <2>7, <2>8, <2>9, <2>10 DEF IInv
  <1>2. ASSUME Announce(r) PROVE IInv'
    <2> DEFINE i == call[r].key.id
    <2>1. /\ call[r] # null /\ call[r].at = "announce" /\ i \in Uuid /\ CallFits(r)
      BY <1>2, CallType DEF Announce, At, IInv, CallsFit
    <2>2. /\ announced' = announced \union {i} /\ UNCHANGED <<stored, removal>>
          /\ GoTo(r, "answerConfirm")
      BY <1>2 DEF Announce
    <2>3. /\ call' \in [Request -> Call \union {null}]
          /\ \A s \in Request : s # r => call'[s] = call[s]
          /\ call'[r] # null /\ call'[r].at = "answerConfirm"
          /\ call'[r].bearer = call[r].bearer /\ call'[r].user = call[r].user
          /\ call'[r].key = call[r].key /\ call'[r].made = call[r].made
          /\ UNCHANGED gateway
      BY <2>1, <2>2, GoToType DEF IInv, Ats
    <2>4. Settled(i) /\ row' = row
      BY <2>1, <2>2 DEF CallFits, Settled, stored
    <2>5. RowsKeep /\ UrlsFiled' /\ ObjectsFiled' /\ RemovedIsGone' /\ \A j \in Uuid : Kept(j)
      BY <2>2, StoredAlone
    <2>6. CallFits(r)'
      BY <2>1, <2>2, <2>3, <2>4 DEF CallFits, Settled
    <2>7. CallsFit'
      BY <2>1, <2>2, <2>3, <2>5, <2>6, MoveStep DEF stored
    <2>8. AnnouncedSettled'
      BY <2>2, <2>4 DEF IInv, AnnouncedSettled, Settled, stored
    <2>9. TypeOK' /\ TokensEnd' /\ TokensLast'
      BY <2>1, <2>2, <2>3, GatewayAlone DEF IInv, TypeOK, stored
    <2> QED BY <2>5, <2>7, <2>8, <2>9 DEF IInv
  <1>3. ASSUME AnswerConfirm(r) PROVE IInv'
    BY <1>3, EndStep DEF AnswerConfirm, At
  <1> QED BY <1>1, <1>2, <1>3

(* The steps of deleteMedia. *)
LEMMA DeleteSteps ==
  ASSUME IInv, NEW r \in Request
  PROVE  /\ \A b \in User \union {null} : \A u \in ActsFor(b), i \in Uuid :
              DeleteMedia(r, b, u, i) => IInv'
         /\ RemoveObject(r) \/ MarkDeleted(r) => IInv'
  <1>1. ASSUME NEW b \in User \union {null}, NEW u \in ActsFor(b), NEW i \in Uuid,
               DeleteMedia(r, b, u, i)
        PROVE  IInv'
    <2>1. u = b /\ u \in User /\ MediaKey(u, i) \in Key /\ MediaKey(u, i).id = i
      BY ActsForSubject, KeyType
    <2>2. /\ row[i] # null /\ row[i].user = u /\ UNCHANGED <<stored, announced, removal>>
          /\ Open(r, "remove", b, u, MediaKey(u, i), 0)
      BY <1>1 DEF DeleteMedia
    <2>3. /\ call[r] = null /\ call' \in [Request -> Call \union {null}]
          /\ \A s \in Request : s # r => call'[s] = call[s]
          /\ call'[r].at = "remove" /\ call'[r].bearer = u /\ call'[r].user = u
          /\ call'[r].key = MediaKey(u, i) /\ call'[r].made = {}
          /\ UNCHANGED gateway
      BY <2>1, <2>2, OpenType DEF IInv
    <2>4. CallFits(r)'
      BY <2>1, <2>2, <2>3 DEF CallFits, Filed, stored
    <2>5. /\ RowsKeep /\ UrlsFiled' /\ ObjectsFiled' /\ RemovedIsGone' /\ AnnouncedSettled'
      BY <2>2, StoredAlone
    <2>6. CallsFit'
      BY <2>1, <2>2, <2>4, <2>5, OpenStep DEF stored
    <2>7. TypeOK' /\ TokensEnd' /\ TokensLast'
      BY <2>2, <2>3, GatewayAlone DEF IInv, TypeOK, stored
    <2> QED BY <2>5, <2>6, <2>7 DEF IInv
  <1>2. ASSUME RemoveObject(r) PROVE IInv'
    <2> DEFINE i == call[r].key.id
    <2>1. /\ call[r] # null /\ call[r].at = "remove" /\ i \in Uuid /\ call[r].user \in User
          /\ Filed(i, call[r].user) /\ call[r].key = MediaKey(call[r].user, i) /\ CallFits(r)
      BY <1>2, CallType DEF RemoveObject, At, IInv, CallsFit, CallFits
    <2>2. /\ object' = object \ {call[r].key} /\ removal' = [removal EXCEPT ![i] = "removed"]
          /\ UNCHANGED <<row, url, announced>> /\ GoTo(r, "mark")
      BY <1>2 DEF RemoveObject
    <2>3. /\ call' \in [Request -> Call \union {null}]
          /\ \A s \in Request : s # r => call'[s] = call[s]
          /\ call'[r] # null /\ call'[r].at = "mark"
          /\ call'[r].bearer = call[r].bearer /\ call'[r].user = call[r].user
          /\ call'[r].key = call[r].key /\ call'[r].made = call[r].made
          /\ UNCHANGED gateway
      BY <2>1, <2>2, GoToType DEF IInv, Ats
    <2>4. /\ removal'[i] = "removed" /\ \A j \in Uuid : j # i => removal'[j] = removal[j]
          /\ removal' \in [Uuid -> {"none", "removed", "after"}]
      BY <2>1, <2>2 DEF IInv, TypeOK
    <2>5. RowsKeep /\ \A j \in Uuid : Kept(j)
      BY <2>2, <2>4 DEF RowsKeep, Kept
    <2>6. CallFits(r)'
      BY <2>1, <2>2, <2>3, <2>4 DEF CallFits, Filed
    <2>7. CallsFit'
      BY <2>1, <2>2, <2>3, <2>5, <2>6, MoveStep
    <2>8. UrlsFiled' /\ ObjectsFiled' /\ AnnouncedSettled'
      BY <2>2, <2>5, RowsKept
    <2>9. RemovedIsGone'
      <3>1. ASSUME NEW k \in object', ~k.photo PROVE removal'[k.id] # "removed"
        <4>1. k \in object /\ k \in Key /\ k.id \in Uuid /\ k # call[r].key
          BY <2>2, <3>1 DEF IInv, TypeOK, Key
        <4>2. Filed(k.id, k.user) /\ removal[k.id] # "removed"
          BY <3>1, <4>1 DEF IInv, ObjectsFiled, RemovedIsGone
        <4>3. CASE k.id = i
          <5>1. k.user = call[r].user
            BY <2>1, <4>2, <4>3 DEF Filed
          <5>2. k = call[r].key
            BY <2>1, <3>1, <4>1, <4>3, <5>1 DEF MediaKey, Key
          <5> QED BY <4>1, <5>2
        <4>4. CASE k.id # i
          BY <2>4, <4>1, <4>2, <4>4
        <4> QED BY <4>3, <4>4
      <3>2. \A j \in Uuid : row'[j] # null /\ row'[j].status = "deleted" => removal'[j] # "none"
        BY <2>2, <2>4 DEF IInv, RemovedIsGone
      <3> QED BY <3>1, <3>2 DEF RemovedIsGone
    <2>10. TypeOK' /\ TokensEnd' /\ TokensLast'
      BY <2>2, <2>3, <2>4, GatewayAlone DEF IInv, TypeOK
    <2> QED BY <2>7, <2>8, <2>9, <2>10 DEF IInv
  <1>3. ASSUME MarkDeleted(r) PROVE IInv'
    <2> DEFINE i == call[r].key.id
    <2>1. /\ call[r] # null /\ call[r].at = "mark" /\ i \in Uuid /\ row[i] # null /\ removal[i] # "none"
      BY <1>3, CallType DEF MarkDeleted, At, IInv, CallsFit, CallFits, Filed
    <2>2. /\ row' = [row EXCEPT ![i].status = "deleted"] /\ End(r)
          /\ UNCHANGED <<object, url, announced, removal>>
      BY <1>3 DEF MarkDeleted
    <2>3. /\ row'[i] # null /\ row'[i].status = "deleted" /\ row'[i].user = row[i].user
          /\ \A j \in Uuid : j # i => row'[j] = row[j]
          /\ row' \in [Uuid -> Row \union {null}]
      <3>1. row[i] \in Row
        BY <2>1, RowType DEF IInv
      <3>2. [row[i] EXCEPT !.status = "deleted"] \in Row
        BY <3>1, SMTT(30) DEF Row
      <3> QED BY <2>1, <2>2, <3>1, <3>2 DEF IInv, TypeOK, Row
    <2>4. RowsKeep /\ \A j \in Uuid : Kept(j)
      BY <2>2, <2>3, SMTT(30) DEF RowsKeep, Kept
    <2>5. CallsFit'
      BY <2>1, <2>2, <2>3, <2>4, EndType, MoveStep DEF IInv, CallFits
    <2>6. UrlsFiled' /\ ObjectsFiled' /\ AnnouncedSettled'
      BY <2>2, <2>4, RowsKept, SMTT(30)
    <2>7. RemovedIsGone'
      BY <2>1, <2>2, <2>3 DEF IInv, RemovedIsGone
    <2>8. TypeOK' /\ TokensEnd' /\ TokensLast'
      BY <2>2, <2>3, EndType, GatewayAlone DEF IInv, TypeOK
    <2> QED BY <2>5, <2>6, <2>7, <2>8 DEF IInv
  <1> QED BY <1>1, <1>2, <1>3
(* The steps of photos. *)
LEMMA PhotoSteps ==
  ASSUME IInv, NEW r \in Request
  PROVE  /\ \A b \in User \union {null} : \A u \in ActsFor(b) :
              \A k \in object : DeletePhoto(r, b, u, k) => IInv'
         /\ \A u \in User, i \in Uuid : UploadPhoto(u, i) => IInv'
         /\ RemovePhoto(r) => IInv'
  <1>1. ASSUME NEW b \in User \union {null}, NEW u \in ActsFor(b), NEW k \in object,
               DeletePhoto(r, b, u, k)
        PROVE  IInv'
    <2>1. u = b /\ u \in User /\ k \in Key
      BY ActsForSubject DEF IInv, TypeOK
    <2>2. /\ k.photo /\ k.user = u /\ UNCHANGED <<stored, announced, removal>>
          /\ Open(r, "removePhoto", b, u, k, 0)
      BY <1>1 DEF DeletePhoto
    <2>3. /\ call[r] = null /\ call' \in [Request -> Call \union {null}]
          /\ \A s \in Request : s # r => call'[s] = call[s]
          /\ call'[r].at = "removePhoto" /\ call'[r].bearer = u /\ call'[r].user = u
          /\ call'[r].key = k /\ call'[r].made = {}
          /\ UNCHANGED gateway
      BY <2>1, <2>2, OpenType DEF IInv
    <2>4. CallFits(r)'
      BY <2>1, <2>2, <2>3 DEF CallFits
    <2>5. /\ RowsKeep /\ UrlsFiled' /\ ObjectsFiled' /\ RemovedIsGone' /\ AnnouncedSettled'
      BY <2>2, StoredAlone
    <2>6. CallsFit'
      BY <2>1, <2>2, <2>4, <2>5, OpenStep DEF stored
    <2>7. TypeOK' /\ TokensEnd' /\ TokensLast'
      BY <2>2, <2>3, GatewayAlone DEF IInv, TypeOK, stored
    <2> QED BY <2>5, <2>6, <2>7 DEF IInv
  <1>2. ASSUME NEW u \in User, NEW i \in Uuid, UploadPhoto(u, i) PROVE IInv'
    <2>1. /\ Fresh(i) /\ object' = object \union {PhotoKey(u, i)}
          /\ UNCHANGED <<gateway, row, url, announced, call, removal>>
      BY <1>2 DEF UploadPhoto
    <2>2. PhotoKey(u, i) \in Key /\ PhotoKey(u, i).id = i /\ PhotoKey(u, i).photo
      BY KeyType
    <2>3. RowsKeep /\ \A j \in Uuid : Kept(j)
      BY <2>1 DEF RowsKeep, Kept
    <2>4. CallsFit'
      <3>1. ASSUME NEW s \in Request PROVE CallFits(s)'
        BY <2>1, <2>2, <2>3, OtherCall
      <3> QED BY <3>1 DEF CallsFit
    <2>5. UrlsFiled' /\ AnnouncedSettled'
      BY <2>1, <2>3, RowsKept
    <2>6. ObjectsFiled' /\ RemovedIsGone'
      BY <2>1, <2>2 DEF IInv, ObjectsFiled, RemovedIsGone, Filed
    <2>7. TypeOK' /\ TokensEnd' /\ TokensLast'
      BY <2>1, <2>2, GatewayAlone DEF IInv, TypeOK
    <2> QED BY <2>4, <2>5, <2>6, <2>7 DEF IInv
  <1>3. ASSUME RemovePhoto(r) PROVE IInv'
    <2>1. /\ call[r] # null /\ End(r) /\ object' = object \ {call[r].key}
          /\ UNCHANGED <<row, url, announced, removal>>
      BY <1>3 DEF RemovePhoto, At
    <2>2. RowsKeep /\ \A j \in Uuid : Kept(j)
      BY <2>1 DEF RowsKeep, Kept
    <2>3. CallsFit'
      BY <2>1, <2>2, EndType, MoveStep DEF IInv, CallFits
    <2>4. UrlsFiled' /\ ObjectsFiled' /\ AnnouncedSettled'
      BY <2>1, <2>2, RowsKept
    <2>5. RemovedIsGone'
      BY <2>1 DEF IInv, RemovedIsGone
    <2>6. TypeOK' /\ TokensEnd' /\ TokensLast'
      BY <2>1, EndType, GatewayAlone DEF IInv, TypeOK
    <2> QED BY <2>3, <2>4, <2>5, <2>6 DEF IInv
  <1> QED BY <1>1, <1>2, <1>3

(* The client's PUT. *)
LEMMA PutStep == ASSUME IInv, NEW i \in Uuid, Put(i) PROVE IInv'
  <1>1. /\ url[i] # null /\ object' = object \union {url[i].key}
        /\ removal' = [removal EXCEPT ![i] = IF removal[i] = "none" THEN "none" ELSE "after"]
        /\ UNCHANGED <<gateway, row, url, announced, call>>
    BY DEF Put, IInv, TypeOK
  <1>2. /\ url[i].key \in Key /\ url[i].key.user \in User
        /\ Filed(i, url[i].key.user) /\ url[i].key = MediaKey(url[i].key.user, i)
    BY <1>1 DEF IInv, TypeOK, UrlsFiled, Url, Key
  <1>3. url[i].key.id = i /\ ~url[i].key.photo
    BY <1>2, KeyType
  <1>4. /\ removal'[i] # "removed" /\ (removal[i] # "none" => removal'[i] # "none")
        /\ \A j \in Uuid : j # i => removal'[j] = removal[j]
        /\ removal' \in [Uuid -> {"none", "removed", "after"}]
    BY <1>1 DEF IInv, TypeOK
  <1>5. RowsKeep /\ \A j \in Uuid : Kept(j)
    BY <1>1, <1>4 DEF RowsKeep, Kept
  <1>6. CallsFit'
    <2>1. ASSUME NEW s \in Request PROVE CallFits(s)'
      <3>1. \A k \in object' \ object : row[k.id] # null
        BY <1>1, <1>2, <1>3 DEF Filed
      <3> QED BY <1>1, <1>5, <3>1, OtherCall
    <2> QED BY <2>1 DEF CallsFit
  <1>7. UrlsFiled' /\ AnnouncedSettled'
    BY <1>1, <1>5, RowsKept
  <1>8. ObjectsFiled'
    BY <1>1, <1>2, <1>3 DEF IInv, ObjectsFiled, Filed
  <1>9. RemovedIsGone'
    <2>1. \A k \in object' : ~k.photo => removal'[k.id] # "removed"
      <3>1. \A k \in object : k.id \in Uuid
        BY DEF IInv, TypeOK, Key
      <3> QED BY <1>1, <1>3, <1>4, <3>1 DEF IInv, RemovedIsGone
    <2>2. \A j \in Uuid : row'[j] # null /\ row'[j].status = "deleted" => removal'[j] # "none"
      BY <1>1, <1>4 DEF IInv, RemovedIsGone
    <2> QED BY <2>1, <2>2 DEF RemovedIsGone
  <1>10. TypeOK' /\ TokensEnd' /\ TokensLast'
    BY <1>1, <1>2, <1>4, GatewayAlone DEF IInv, TypeOK
  <1> QED BY <1>6, <1>7, <1>8, <1>9, <1>10 DEF IInv

(* The gateway gives up on a request, or a request breaks off. *)
LEMMA FailureSteps ==
  ASSUME IInv, NEW r \in Request, Unavailable(r) \/ Abort(r)
  PROVE  IInv'
  <1>1. ASSUME Unavailable(r) PROVE IInv'
    <2>1. /\ call[r] # null /\ call' = [call EXCEPT ![r].heard = FALSE]
          /\ UNCHANGED <<gateway, stored, announced, removal>>
      BY <1>1 DEF Unavailable, At
    <2>2. /\ call' \in [Request -> Call \union {null}]
          /\ \A s \in Request : s # r => call'[s] = call[s]
          /\ call'[r] # null /\ call'[r].at = call[r].at
          /\ call'[r].bearer = call[r].bearer /\ call'[r].user = call[r].user
          /\ call'[r].key = call[r].key /\ call'[r].made = call[r].made
      <3>1. call[r] \in Call
        BY <2>1, CallType DEF IInv
      <3>2. [call[r] EXCEPT !.heard = FALSE] \in Call
        BY <3>1 DEF Call
      <3>3. call' = [call EXCEPT ![r] = [call[r] EXCEPT !.heard = FALSE]]
        BY <2>1
      <3> QED BY <3>1, <3>2, <3>3 DEF IInv, TypeOK, Call
    <2>3. /\ RowsKeep /\ UrlsFiled' /\ ObjectsFiled' /\ RemovedIsGone' /\ AnnouncedSettled'
          /\ \A i \in Uuid : Kept(i)
      BY <2>1, StoredAlone
    <2>4. CallFits(r)'
      <3>1. CallFits(r)
        BY DEF IInv, CallsFit
      <3>2. Claimed(r) => Claimed(r)'
        BY <2>1, <2>2 DEF Claimed, stored
      <3> QED BY <2>1, <2>2, <3>1, <3>2 DEF CallFits, Filed, Settled, stored
    <2>5. CallsFit'
      BY <2>1, <2>2, <2>3, <2>4, MoveStep DEF stored
    <2>6. TypeOK' /\ TokensEnd' /\ TokensLast'
      BY <2>1, <2>2, GatewayAlone DEF IInv, TypeOK, stored
    <2> QED BY <2>3, <2>5, <2>6 DEF IInv
  <1>2. ASSUME Abort(r) PROVE IInv'
    BY <1>2, EndStep DEF Abort
  <1> QED BY <1>1, <1>2

(* Time and tokens. *)
LEMMA TimeSteps ==
  ASSUME IInv,
         Clock \/ (Tokens /\ UNCHANGED <<stored, announced, call, removal>>)
  PROVE  IInv'
  <1>1. /\ UNCHANGED <<row, object, announced, call, removal>>
        /\ url' \in [Uuid -> Url \union {null}] /\ \A i \in Uuid : url'[i] \in {url[i], null}
    BY DEF Clock, stored, IInv, TypeOK
  <1>2. GatewayTypeOK' /\ TokensEnd' /\ TokensLast'
    <2>1. CASE Clock
      BY <2>1 DEF Clock, Tick, IInv, TypeOK, GatewayTypeOK, TokensEnd, TokensLast
    <2>2. ASSUME NEW u \in User, Issue(u) PROVE GatewayTypeOK' /\ TokensEnd' /\ TokensLast'
      BY <2>2 DEF Issue, IInv, TypeOK, GatewayTypeOK, TokensEnd, TokensLast
    <2>3. ASSUME NEW u \in User, Close(u) PROVE GatewayTypeOK' /\ TokensEnd' /\ TokensLast'
      BY <2>3 DEF Close, IInv, TypeOK, GatewayTypeOK, TokensEnd, TokensLast
    <2> QED BY <2>1, <2>2, <2>3 DEF Tokens
  <1>3. RowsKeep /\ \A i \in Uuid : Kept(i)
    BY <1>1 DEF RowsKeep, Kept
  <1>4. CallsFit'
    <2>1. ASSUME NEW s \in Request PROVE CallFits(s)'
      BY <1>1, <1>3, OtherCall
    <2> QED BY <2>1 DEF CallsFit
  <1>5. UrlsFiled'
    BY <1>1 DEF IInv, UrlsFiled, Filed
  <1>6. ObjectsFiled' /\ AnnouncedSettled'
    BY <1>1, <1>3, RowsKept
  <1>7. RemovedIsGone'
    BY <1>1 DEF IInv, RemovedIsGone
  <1>8. TypeOK'
    BY <1>1, <1>2 DEF IInv, TypeOK
  <1> QED BY <1>2, <1>4, <1>5, <1>6, <1>7, <1>8 DEF IInv

LEMMA Inductive == Spec => []IInv
  <1>1. IInv /\ [Next]_vars => IInv'
    <2> SUFFICES ASSUME IInv, [Next]_vars PROVE IInv'
      OBVIOUS
    <2>1. ASSUME NEW r \in Request, Arrive(r) PROVE IInv'
      <3>1. PICK b \in User \union {null} : \E u \in ActsFor(b), i \in Uuid :
              \/ RequestUpload(r, b, u, i) \/ ConfirmUpload(r, b, u, i)
              \/ DeleteMedia(r, b, u, i) \/ UploadPhoto(u, i)
              \/ \E k \in object : DeletePhoto(r, b, u, k)
        BY <2>1 DEF Arrive
      <3>2. ActsFor(b) \subseteq User
        BY ActsForSubject
      <3> QED BY <3>1, <3>2, UploadSteps, ConfirmSteps, DeleteSteps, PhotoSteps
    <2>2. ASSUME NEW r \in Request, Proceed(r) PROVE IInv'
      BY <2>2, UploadSteps, ConfirmSteps, DeleteSteps, PhotoSteps DEF Proceed
    <2>3. ASSUME NEW r \in Request, Unavailable(r) \/ Abort(r) PROVE IInv'
      BY <2>3, FailureSteps
    <2>4. ASSUME NEW i \in Uuid, Put(i) PROVE IInv'
      BY <2>4, PutStep
    <2>5. CASE UNCHANGED vars
      <3>1. RowsKeep /\ UrlsFiled' /\ ObjectsFiled' /\ RemovedIsGone' /\ AnnouncedSettled'
            /\ \A i \in Uuid : Kept(i)
        BY <2>5, StoredAlone DEF vars
      <3>2. CallsFit'
        <4>1. ASSUME NEW s \in Request PROVE CallFits(s)'
          BY <2>5, <3>1, OtherCall DEF vars, stored
        <4> QED BY <4>1 DEF CallsFit
      <3>3. TypeOK' /\ TokensEnd' /\ TokensLast'
        BY <2>5, GatewayAlone DEF vars, stored, IInv, TypeOK
      <3> QED BY <3>1, <3>2, <3>3 DEF IInv
    <2> QED BY <2>1, <2>2, <2>3, <2>4, <2>5, TimeSteps DEF Next
  <1> QED BY <1>1, InitIInv, PTL DEF Spec
-----------------------------------------------------------------------------
(* Theorems *)

(* The types of the rows, objects, URLs, tokens and of a handler's locals. *)
THEOREM TypeCorrect == Spec => []TypeOK
  <1>1. IInv => TypeOK
    BY DEF IInv
  <1> QED BY <1>1, Inductive, PTL

(* Every object of the bucket that was not uploaded as a photo has a row   *)
(* of its owner: media.service.ts:60 comes before the answer that carries  *)
(* the URL.                                                                *)
THEOREM EveryObjectHasRow == Spec => []ObjectHasRow
  <1>1. IInv => ObjectHasRow
    BY DEF IInv, ObjectsFiled, Filed, ObjectHasRow
  <1> QED BY <1>1, Inductive, PTL

(* deleteMedia removes before it marks (media.service.ts:98-99): the object*)
(* of a deleted row, if there is one, was PUT after its removal.           *)
THEOREM DeletedIsGone == Spec => []DeletedObjectIsGone
  <1>1. IInv => DeletedObjectIsGone
    <2> SUFFICES ASSUME IInv, NEW i \in Uuid, row[i] # null, row[i].status = "deleted",
                        MediaKey(row[i].user, i) \in object
                 PROVE  removal[i] = "after"
      BY DEF DeletedObjectIsGone
    <2>1. MediaKey(row[i].user, i).id = i /\ ~MediaKey(row[i].user, i).photo
      BY RowType, KeyType DEF IInv
    <2>2. removal[i] # "none" /\ removal[i] # "removed"
      BY <2>1 DEF IInv, RemovedIsGone
    <2> QED BY <2>2 DEF IInv, TypeOK
  <1> QED BY <1>1, Inductive, PTL

(* However often the gateway gives up on it, a request makes one row       *)
(* (proxy.service.ts:54, no second fetch).                                 *)
THEOREM OneRow == Spec => []OneRowPerRequest
  <1>1. IInv => OneRowPerRequest
    <2> SUFFICES ASSUME IInv, NEW r \in Request, call[r] # null
                 PROVE  Cardinality(call[r].made) <= 1
      BY DEF OneRowPerRequest
    <2>1. call[r].made = {} \/ call[r].made = {call[r].key.id}
      BY DEF IInv, CallsFit, CallFits
    <2>2. Cardinality({}) = 0 /\ Cardinality({call[r].key.id}) = 1
      BY FS_EmptySet, FS_Singleton
    <2> QED BY <2>1, <2>2
  <1> QED BY <1>1, Inductive, PTL

(* A confirmation is answered after its event is published, which tells of *)
(* a row that is no longer pending (media.service.ts:71-87).               *)
THEOREM ConfirmedMeansAnnounced == Spec => []ConfirmedIsAnnounced
  <1>1. IInv => ConfirmedIsAnnounced
    BY DEF IInv, CallsFit, CallFits, AnnouncedSettled, Settled, ConfirmedIsAnnounced, At
  <1> QED BY <1>1, Inductive, PTL

(* An object is removed, and a row marked deleted, only in a request with  *)
(* its owner's token: the gateway's header (proxy.service.ts:18-26) and the*)
(* two look-ups of the owner (media.service.ts:96, upload.controller.ts).  *)
THEOREM OwnersRemove == Spec => OnlyOwnersRemove
  <1> DEFINE A == /\ \A k \in object \ object' : \E r \in Request : call[r] # null /\ call[r].bearer = k.user
                  /\ \A i \in Uuid :
                       row'[i] # row[i] /\ row'[i].status = "deleted" =>
                         \E r \in Request : call[r] # null /\ call[r].bearer = row[i].user
  <1>1. IInv /\ [Next]_vars => A
    <2> SUFFICES ASSUME IInv, [Next]_vars PROVE A
      OBVIOUS
    <2>1. CASE UNCHANGED <<row, object>>
      BY <2>1
    <2>2. ASSUME NEW r \in Request, CreateRow(r) PROVE A
      <3>1. /\ row' = [row EXCEPT ![call[r].key.id] = [user |-> call[r].user, status |-> "pending"]]
            /\ object' = object
        BY <2>2 DEF CreateRow
      <3> QED BY <3>1 DEF IInv, TypeOK
    <2>3. ASSUME NEW i \in Uuid, row[i] # null, row' = [row EXCEPT ![i].status = "active"], object' = object
          PROVE  A
      <3>1. row[i] \in Row
        BY <2>3, RowType DEF IInv
      <3>2. row'[i].status = "active" /\ \A j \in Uuid : j # i => row'[j] = row[j]
        BY <2>3, <3>1 DEF IInv, TypeOK, Row
      <3> QED BY <2>3, <3>2
    <2>4. ASSUME object \subseteq object', row' = row PROVE A
      BY <2>4
    <2>5. ASSUME NEW r \in Request, RemoveObject(r) \/ RemovePhoto(r) PROVE A
      <3>1. /\ call[r] # null /\ object' = object \ {call[r].key} /\ row' = row
            /\ call[r].at \in {"remove", "removePhoto"} /\ CallFits(r)
        BY <2>5 DEF RemoveObject, RemovePhoto, At, IInv, CallsFit
      <3>2. call[r].bearer = call[r].key.user
        BY <3>1 DEF CallFits, MediaKey
      <3> QED BY <3>1, <3>2
    <2>6. ASSUME NEW r \in Request, MarkDeleted(r) PROVE A
      <3>1. /\ call[r] # null /\ call[r].at = "mark" /\ object' = object /\ CallFits(r)
            /\ row' = [row EXCEPT ![call[r].key.id].status = "deleted"]
        BY <2>6 DEF MarkDeleted, At, IInv, CallsFit
      <3>2. call[r].bearer = row[call[r].key.id].user
        BY <3>1 DEF CallFits, Filed
      <3>3. \A j \in Uuid : j # call[r].key.id => row'[j] = row[j]
        BY <3>1 DEF IInv, TypeOK
      <3> QED BY <3>1, <3>2, <3>3
    <2>7. ASSUME NEW r \in Request, Arrive(r) PROVE A
      BY <2>1, <2>3, <2>4, <2>7
         DEF Arrive, RequestUpload, ConfirmUpload, DeleteMedia, UploadPhoto, DeletePhoto, stored
    <2>8. ASSUME NEW r \in Request, Proceed(r) PROVE A
      BY <2>1, <2>2, <2>5, <2>6, <2>8 DEF Proceed, AnswerUpload, Announce, AnswerConfirm, stored
    <2>9. ASSUME NEW i \in Uuid, Put(i) PROVE A
      BY <2>4, <2>9 DEF Put
    <2> QED BY <2>1, <2>7, <2>8, <2>9 DEF Next, Unavailable, Abort, Clock, stored, vars
  <1>2. OnlyOwnersRemove <=> [][A]_vars
    BY DEF OnlyOwnersRemove
  <1> QED BY <1>1, <1>2, Inductive, PTL DEF Spec, OnlyOwnersRemove

(* A token lets nobody in for longer than its lifetime after the account it*)
(* was issued for was deleted and logged out (jwt.strategy.ts:21-30).      *)
THEOREM ClosedMeansOver == Spec => ClosedIsOver
  <1> DEFINE A == \A r \in Request :
                    call[r] = null /\ call'[r] # null /\ closed[call'[r].user] # null =>
                      now < closed[call'[r].user] + AccessTtl
  <1>1. IInv /\ [Next]_vars => A
    <2> SUFFICES ASSUME IInv, [Next]_vars, NEW s \in Request, call[s] = null, call'[s] # null,
                        closed[call'[s].user] # null
                 PROVE  now < closed[call'[s].user] + AccessTtl
      OBVIOUS
    <2>1. ASSUME NEW u \in User, ValidToken(u), call'[s].user = u
          PROVE  now < closed[call'[s].user] + AccessTtl
      BY <2>1 DEF ValidToken, IInv, TypeOK, GatewayTypeOK, TokensEnd
    <2>2. ASSUME NEW r \in Request, Arrive(r) PROVE now < closed[call'[s].user] + AccessTtl
      <3>1. PICK b \in User \union {null} : \E u \in ActsFor(b), i \in Uuid :
              \/ RequestUpload(r, b, u, i) \/ ConfirmUpload(r, b, u, i)
              \/ DeleteMedia(r, b, u, i) \/ UploadPhoto(u, i)
              \/ \E k \in object : DeletePhoto(r, b, u, k)
        BY <2>2 DEF Arrive
      <3>2. ASSUME NEW u \in ActsFor(b), NEW k, NEW until, NEW step, Open(r, step, b, u, k, until)
            PROVE  now < closed[call'[s].user] + AccessTtl
        <4>1. ValidToken(u) /\ u \in User
          BY ActsForSubject
        <4>2. r = s /\ call'[r].user = u
          BY <3>2 DEF Open, IInv, TypeOK
        <4> QED BY <2>1, <4>1, <4>2
      <3>3. \A u \in ActsFor(b), i \in Uuid : ~UploadPhoto(u, i)
        BY DEF UploadPhoto
      <3> QED BY <3>1, <3>2, <3>3 DEF RequestUpload, ConfirmUpload, DeleteMedia, DeletePhoto
    <2>3. ASSUME NEW r \in Request, call[r] # null, \A t \in Request : t # r => call'[t] = call[t]
          PROVE  FALSE
      BY <2>3
    <2>4. ASSUME NEW r \in Request, Proceed(r) \/ Unavailable(r) \/ Abort(r) PROVE FALSE
      BY <2>3, <2>4 DEF Proceed, CreateRow, AnswerUpload, Announce, AnswerConfirm, RemoveObject, MarkDeleted,
                        RemovePhoto, Unavailable, Abort, At, End, GoTo, IInv, TypeOK
    <2>5. call' # call
      OBVIOUS
    <2> QED BY <2>2, <2>4, <2>5 DEF Next, Put, Clock, vars
  <1>2. ClosedIsOver <=> [][A]_vars
    BY DEF ClosedIsOver
  <1> QED BY <1>1, <1>2, Inductive, PTL DEF Spec, ClosedIsOver
=============================================================================
