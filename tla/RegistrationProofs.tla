-------------------------- MODULE RegistrationProofs --------------------------
(***************************************************************************)
(* Proofs about Registration, for any numbers of addresses, ids, codes and *)
(* requests and any lifetimes.  The invariant says at each call of a       *)
(* handler what the calls before it have already written (Fits): no other  *)
(* request takes any of it back.                                           *)
(***************************************************************************)
EXTENDS Registration, FiniteSetTheorems, TLAPS

USE NullAssumption, TimeAssumption

VerifyCall == {"incr", "expire", "lookup", "useOtp", "markVerified", "delAttempts",
               "publish", "verifyAudit", "insert", "session"}

Redeemed == VerifyCall \ {"incr", "expire", "lookup", "useOtp"}
Activated == Redeemed \ {"markVerified"}

(* What holds when request r is about to make the call pc[r]. *)
Fits(r) ==
  /\ pc[r] = "createUser" => frame[r].email \in Email
  /\ pc[r] \in {"createOtp", "registerAudit"} \union VerifyCall =>
       frame[r].usr \in User /\ account[frame[r].usr] # null
  /\ pc[r] = "createOtp" => otp[frame[r].usr] = null
  /\ pc[r] \in Redeemed \union {"useOtp"} => otp[frame[r].usr] # null
  /\ pc[r] \in Redeemed => otp[frame[r].usr].used
  /\ pc[r] \in Activated => account[frame[r].usr].verified
  /\ pc[r] \in {"verifyAudit", "insert", "session"} => frame[r].usr \in published
  /\ pc[r] \in {"insert", "session"} => <<frame[r].usr, "EMAIL_VERIFIED">> \in audit

(* The request that created a row is the one that writes its OTP. *)
OneWriter ==
  \A r, q \in Request :
    pc[r] = "createOtp" /\ pc[q] = "createOtp" /\ frame[r].usr = frame[q].usr => r = q

OtpHasAccount == \A u \in User : otp[u] # null => account[u] # null

Types == TypeOK /\ OtpHasAccount

Shape == Types /\ OneWriter /\ \A r \in Request : Fits(r)

(* Nothing that a handler relies on is taken back. *)
Kept ==
  /\ \A u \in User :
       /\ account[u] # null =>
            account'[u] # null /\ (account[u].verified => account'[u].verified)
       /\ otp[u] # null => otp'[u] # null /\ (otp[u].used => otp'[u].used)
  /\ published \subseteq published' /\ audit \subseteq audit'

(* Only request r moves. *)
OnlyMoves(r) == \A q \in Request \ {r} : pc'[q] = pc[q] /\ frame'[q] = frame[q]

-----------------------------------------------------------------------------
(* Rows and frames *)

LEMMA AccountFields ==
  ASSUME NEW a \in Account
  PROVE  /\ a # null /\ a.email \in Email /\ a.verified \in BOOLEAN /\ a.deleted \in BOOLEAN
         /\ [a EXCEPT !.verified = TRUE] \in Account /\ [a EXCEPT !.verified = TRUE] # null
         /\ [a EXCEPT !.verified = TRUE].verified
         /\ [a EXCEPT !.verified = TRUE].email = a.email
         /\ [a EXCEPT !.deleted = TRUE] \in Account /\ [a EXCEPT !.deleted = TRUE] # null
         /\ [a EXCEPT !.deleted = TRUE].verified = a.verified
         /\ [a EXCEPT !.deleted = TRUE].email = a.email
  BY DEF Account

LEMMA OtpFields ==
  ASSUME NEW o \in OtpCode
  PROVE  /\ o # null /\ [o EXCEPT !.used = TRUE] \in OtpCode
         /\ [o EXCEPT !.used = TRUE] # null /\ [o EXCEPT !.used = TRUE].used
         /\ o.used \in BOOLEAN /\ o.expiresAt \in Time
         /\ [o EXCEPT !.used = TRUE].expiresAt = o.expiresAt
  BY DEF OtpCode

LEMMA GoToTypes ==
  ASSUME TypeOK, NEW r \in Request, NEW n \in Call, NEW locals \in Frame, GoTo(r, n, locals)
  PROVE  /\ pc' \in [Request -> Call] /\ frame' \in [Request -> Frame]
         /\ pc'[r] = n /\ frame'[r] = locals /\ OnlyMoves(r)
  BY DEF TypeOK, GoTo, OnlyMoves

LEMMA ContinueTypes ==
  ASSUME TypeOK, NEW r \in Request, NEW n \in Call, Continue(r, n)
  PROVE  /\ pc' \in [Request -> Call] /\ frame' \in [Request -> Frame]
         /\ pc'[r] = n /\ frame'[r] = frame[r] /\ OnlyMoves(r)
  BY DEF TypeOK, Continue, GoTo, OnlyMoves

LEMMA EndTypes ==
  ASSUME TypeOK, NEW r \in Request, NEW n \in Over, End(r, n)
  PROVE  /\ pc' \in [Request -> Call] /\ frame' \in [Request -> Frame]
         /\ pc'[r] = n /\ frame'[r] = NoFrame /\ OnlyMoves(r)
  <1>1. n \in Call /\ NoFrame \in Frame
    BY DEF Over, Call, NoFrame, Frame
  <1> QED BY <1>1 DEF TypeOK, End, GoTo, OnlyMoves

LEMMA TimeTypes ==
  ASSUME now \in 0 .. MaxTime
  PROVE  now + OtpTtl \in Time /\ now \in Nat /\ now + OtpTtl # null
  BY DEF Time

-----------------------------------------------------------------------------
(* What one step of a request does to the tables and to the request *)

(* A step of request r that keeps what the others rely on and writes no    *)
(* first OTP for any of them.                                              *)
LEMMA OthersFit ==
  ASSUME Shape, NEW r \in Request, OnlyMoves(r), Kept,
         \A q \in Request \ {r} :
           pc[q] = "createOtp" => otp'[frame[q].usr] = otp[frame[q].usr],
         NEW q \in Request \ {r}
  PROVE  Fits(q)'
  <1> DEFINE u == frame[q].usr
  <1>1. pc'[q] = pc[q] /\ frame'[q] = frame[q] /\ Fits(q)
    BY DEF OnlyMoves, Shape
  <1>2. pc[q] = "createOtp" => otp'[u] = otp[u]
    OBVIOUS
  <1>3. u \in User => /\ account[u] # null =>
                           account'[u] # null /\ (account[u].verified => account'[u].verified)
                      /\ otp[u] # null => otp'[u] # null /\ (otp[u].used => otp'[u].used)
    BY DEF Kept
  <1>4. published \subseteq published' /\ audit \subseteq audit'
    BY DEF Kept
  <1>5. frame'[q].usr = u /\ frame'[q].email = frame[q].email
    BY <1>1
  <1>6. /\ pc[q] = "createUser" => frame[q].email \in Email
        /\ pc[q] \in {"createOtp", "registerAudit"} \union VerifyCall => u \in User /\ account[u] # null
        /\ pc[q] = "createOtp" => otp[u] = null
        /\ pc[q] \in Redeemed \union {"useOtp"} => otp[u] # null
        /\ pc[q] \in Redeemed => otp[u].used
        /\ pc[q] \in Activated => account[u].verified
        /\ pc[q] \in {"verifyAudit", "insert", "session"} => u \in published
        /\ pc[q] \in {"insert", "session"} => <<u, "EMAIL_VERIFIED">> \in audit
    BY <1>1 DEF Fits
  <1> HIDE DEF u
  <1>7. /\ pc[q] = "createUser" => frame[q].email \in Email
        /\ pc[q] \in {"createOtp", "registerAudit"} \union VerifyCall => u \in User /\ account'[u] # null
        /\ pc[q] = "createOtp" => otp'[u] = null
        /\ pc[q] \in Redeemed \union {"useOtp"} => otp'[u] # null
        /\ pc[q] \in Redeemed => otp'[u].used
        /\ pc[q] \in Activated => account'[u].verified
        /\ pc[q] \in {"verifyAudit", "insert", "session"} => u \in published'
        /\ pc[q] \in {"insert", "session"} => <<u, "EMAIL_VERIFIED">> \in audit'
    BY <1>2, <1>3, <1>4, <1>6 DEF VerifyCall, Redeemed, Activated
  <1> QED BY <1>1, <1>5, <1>7 DEF Fits

LEMMA InitShape == Init => Shape
  <1> SUFFICES ASSUME Init PROVE Shape
    OBVIOUS
  <1>1. TypeOK
    BY DEF Init, TypeOK, Call, Frame, NoFrame
  <1> QED BY <1>1 DEF Init, Shape, Types, OtpHasAccount, OneWriter, Fits, VerifyCall, Redeemed, Activated

(* Everything a step of request r owes to the others and to itself. *)
Moves(r) ==
  /\ Types' /\ Kept /\ OnlyMoves(r) /\ Fits(r)'
  /\ \A q \in Request \ {r} :
       pc[q] = "createOtp" =>
         otp'[frame[q].usr] = otp[frame[q].usr] /\ (pc'[r] = "createOtp" => frame'[r].usr # frame[q].usr)

LEMMA MovesKeepShape == ASSUME Shape, NEW r \in Request, Moves(r) PROVE Shape'
  <1>1. \A q \in Request \ {r} : Fits(q)'
    BY OthersFit DEF Moves
  <1>2. OneWriter'
    BY DEF Shape, OneWriter, Moves, OnlyMoves
  <1> QED BY <1>1, <1>2 DEF Moves, Shape

(* Most calls write neither a row nor a counter that others rely on. *)
LEMMA Untouched ==
  ASSUME Shape, NEW r \in Request, UNCHANGED <<account, otp>>,
         published \subseteq published', audit \subseteq audit',
         TypeOK', OnlyMoves(r), Fits(r)', pc'[r] # "createOtp"
  PROVE  Moves(r)
  BY DEF Shape, Types, OtpHasAccount, Moves, Kept

LEMMA RegisterFindStep ==
  ASSUME Shape, NEW r \in Request, NEW e \in Email, RegisterFind(r, e) PROVE Moves(r)
  <1> USE DEF Shape, Types
  <1>1. UNCHANGED <<store, outside, now, hist>>
    BY DEF RegisterFind
  <1>2. CASE End(r, "conflict")
    <2>1. pc' \in [Request -> Call] /\ frame' \in [Request -> Frame] /\ pc'[r] = "conflict" /\ OnlyMoves(r)
      BY <1>2, EndTypes DEF Over
    <2>2. Fits(r)'
      BY <2>1 DEF Fits, VerifyCall, Redeemed, Activated
    <2>3. TypeOK'
      BY <1>1, <2>1 DEF TypeOK, store, outside, hist
    <2> QED BY <1>1, <2>1, <2>2, <2>3, Untouched DEF store, outside
  <1>3. CASE GoTo(r, "createUser", [NoFrame EXCEPT !.email = e])
    <2>1. [NoFrame EXCEPT !.email = e] \in Frame /\ [NoFrame EXCEPT !.email = e].email = e
      BY DEF NoFrame, Frame
    <2>2. /\ pc' \in [Request -> Call] /\ frame' \in [Request -> Frame] /\ pc'[r] = "createUser"
          /\ OnlyMoves(r) /\ frame'[r].email = e
      BY <1>3, <2>1, GoToTypes DEF Call
    <2>3. Fits(r)'
      BY <2>2 DEF Fits, VerifyCall, Redeemed, Activated
    <2>4. TypeOK'
      BY <1>1, <2>2 DEF TypeOK, store, outside, hist
    <2> QED BY <1>1, <2>2, <2>3, <2>4, Untouched DEF store, outside
  <1> QED BY <1>2, <1>3 DEF RegisterFind

LEMMA CreateUserStep ==
  ASSUME Shape, NEW r \in Request, NEW u \in User, CreateUser(r, u) PROVE Moves(r)
  <1> USE DEF Shape, Types
  <1>1. /\ pc[r] = "createUser" /\ account[u] = null /\ frame[r].email \in Email
        /\ UNCHANGED <<otp, attempts, audit, outside, now, hist>>
    BY DEF CreateUser, Fits
  <1>2. CASE End(r, "duplicate") /\ UNCHANGED account
    <2>1. pc' \in [Request -> Call] /\ frame' \in [Request -> Frame] /\ pc'[r] = "duplicate" /\ OnlyMoves(r)
      BY <1>2, EndTypes DEF Over
    <2>2. Fits(r)'
      BY <2>1 DEF Fits, VerifyCall, Redeemed, Activated
    <2>3. TypeOK'
      BY <1>1, <1>2, <2>1 DEF TypeOK, outside, hist
    <2> QED BY <1>1, <1>2, <2>1, <2>2, <2>3, Untouched DEF outside
  <1>3. CASE /\ account' = [account EXCEPT ![u] =
                              [email |-> frame[r].email, verified |-> FALSE, deleted |-> FALSE]]
             /\ GoTo(r, "createOtp", [frame[r] EXCEPT !.usr = u])
    <2>1. [frame[r] EXCEPT !.usr = u] \in Frame /\ [frame[r] EXCEPT !.usr = u].usr = u
      <3>1. frame[r] \in Frame
        BY DEF TypeOK
      <3> QED BY <3>1 DEF Frame
    <2>2. /\ pc' \in [Request -> Call] /\ frame' \in [Request -> Frame] /\ pc'[r] = "createOtp"
          /\ OnlyMoves(r) /\ frame'[r].usr = u
      BY <1>3, <2>1, GoToTypes DEF Call
    <2>3. [email |-> frame[r].email, verified |-> FALSE, deleted |-> FALSE] \in Account
      BY <1>1 DEF Account
    <2>4. /\ account' \in [User -> Account \union {null}] /\ account'[u] # null
          /\ \A v \in User \ {u} : account'[v] = account[v]
      BY <1>3, <2>3 DEF TypeOK
    <2>5. otp[u] = null
      BY <1>1 DEF OtpHasAccount
    <2>6. Fits(r)'
      BY <1>1, <2>2, <2>4, <2>5 DEF Fits, VerifyCall, Redeemed, Activated
    <2>7. Types'
      BY <1>1, <2>2, <2>4 DEF TypeOK, OtpHasAccount, outside, hist
    <2>8. Kept
      BY <1>1, <2>4 DEF Kept, outside
    <2>9. \A q \in Request : pc[q] = "createOtp" => frame[q].usr # u
      BY <1>1 DEF Fits
    <2> QED BY <1>1, <2>2, <2>6, <2>7, <2>8, <2>9 DEF Moves
  <1> QED BY <1>2, <1>3 DEF CreateUser

LEMMA CreateOtpStep ==
  ASSUME Shape, NEW r \in Request, NEW c \in Code, CreateOtp(r, c) PROVE Moves(r)
  <1> USE DEF Shape, Types
  <1> DEFINE u == frame[r].usr
             o == [code |-> c, used |-> FALSE, expiresAt |-> now + OtpTtl]
  <1>1. /\ pc[r] = "createOtp" /\ u \in User /\ account[u] # null /\ otp[u] = null
        /\ otp' = [otp EXCEPT ![u] = o]
        /\ UNCHANGED <<account, attempts, audit, outside, now, hist>>
    BY DEF CreateOtp, Fits
  <1>2. /\ pc' \in [Request -> Call] /\ frame' \in [Request -> Frame] /\ pc'[r] = "registerAudit"
        /\ OnlyMoves(r) /\ frame'[r] = frame[r]
    BY ContinueTypes DEF CreateOtp, Call
  <1>3. o \in OtpCode
    BY TimeTypes DEF OtpCode, TypeOK
  <1>4. otp' \in [User -> OtpCode \union {null}] /\ \A v \in User \ {u} : otp'[v] = otp[v]
    BY <1>1, <1>3 DEF TypeOK
  <1>5. otp'[u] # null
    BY <1>1, <1>3 DEF TypeOK
  <1>6. Fits(r)'
    BY <1>1, <1>2 DEF Fits, VerifyCall, Redeemed, Activated
  <1>7. Types'
    BY <1>1, <1>2, <1>4 DEF TypeOK, OtpHasAccount, outside, hist
  <1>8. Kept
    BY <1>1, <1>4 DEF Kept, outside
  <1>9. \A q \in Request \ {r} : pc[q] = "createOtp" => frame[q].usr \in User \ {u}
    BY <1>1 DEF OneWriter, Fits
  <1> QED BY <1>2, <1>4, <1>6, <1>7, <1>8, <1>9 DEF Moves

LEMMA RegisterAuditStep ==
  ASSUME Shape, NEW r \in Request, RegisterAudit(r) PROVE Moves(r)
  <1> USE DEF Shape, Types
  <1>1. /\ pc[r] = "registerAudit" /\ frame[r].usr \in User
        /\ audit' = audit \union {<<frame[r].usr, "USER_REGISTERED">>}
        /\ UNCHANGED <<account, otp, attempts, outside, now, hist>>
    BY DEF RegisterAudit, Log, Fits
  <1>2. pc' \in [Request -> Call] /\ frame' \in [Request -> Frame] /\ pc'[r] = "done" /\ OnlyMoves(r)
    BY EndTypes DEF RegisterAudit, Over
  <1>3. Fits(r)'
    BY <1>2 DEF Fits, VerifyCall, Redeemed, Activated
  <1>4. TypeOK'
    BY <1>1, <1>2 DEF TypeOK, Event, outside, hist
  <1> QED BY <1>1, <1>2, <1>3, <1>4, Untouched DEF outside

LEMMA VerifyFindStep ==
  ASSUME Shape, NEW r \in Request, NEW e \in Email, NEW c \in Code, VerifyFind(r, e, c) PROVE Moves(r)
  <1> USE DEF Shape, Types
  <1>1. UNCHANGED <<store, outside, now, hist>>
    BY DEF VerifyFind
  <1>2. CASE End(r, "failed")
    <2>1. pc' \in [Request -> Call] /\ frame' \in [Request -> Frame] /\ pc'[r] = "failed" /\ OnlyMoves(r)
      BY <1>2, EndTypes DEF Over
    <2>2. Fits(r)'
      BY <2>1 DEF Fits, VerifyCall, Redeemed, Activated
    <2>3. TypeOK'
      BY <1>1, <2>1 DEF TypeOK, store, outside, hist
    <2> QED BY <1>1, <2>1, <2>2, <2>3, Untouched DEF store, outside
  <1>3. ASSUME NEW u \in User, Live(u, e), GoTo(r, "incr", [usr |-> u, email |-> e, code |-> c])
        PROVE  Moves(r)
    <2>1. [usr |-> u, email |-> e, code |-> c] \in Frame
      BY DEF Frame
    <2>2. /\ pc' \in [Request -> Call] /\ frame' \in [Request -> Frame] /\ pc'[r] = "incr"
          /\ OnlyMoves(r) /\ frame'[r].usr = u
      BY <1>3, <2>1, GoToTypes DEF Call
    <2>3. account'[u] # null
      BY <1>1, <1>3 DEF Live, Registered, store
    <2>4. Fits(r)'
      BY <2>2, <2>3 DEF Fits, VerifyCall, Redeemed, Activated
    <2>5. TypeOK'
      BY <1>1, <2>2 DEF TypeOK, store, outside, hist
    <2> QED BY <1>1, <2>2, <2>4, <2>5, Untouched DEF store, outside
  <1> QED BY <1>2, <1>3 DEF VerifyFind

(* The three ways CountAttempt, SetCounterTtl and FindOtp can go on. *)
LEMMA EarlyCalls ==
  ASSUME Shape, NEW r \in Request, pc[r] \in {"incr", "expire", "lookup"},
         \/ Continue(r, "expire") \/ Continue(r, "lookup") \/ End(r, "failed")
         \/ (Continue(r, "useOtp") /\ otp[frame[r].usr] # null),
         UNCHANGED <<account, otp, audit, outside, now>>,
         attempts' \in [User -> Counter \union {null}], lookups' \in [User -> Nat], uneven' \subseteq User
  PROVE  Moves(r)
  <1> USE DEF Shape, Types
  <1>1. frame[r].usr \in User /\ account[frame[r].usr] # null
    BY DEF Fits, VerifyCall
  <1>2. CASE End(r, "failed")
    <2>1. pc' \in [Request -> Call] /\ frame' \in [Request -> Frame] /\ pc'[r] = "failed" /\ OnlyMoves(r)
      BY <1>2, EndTypes DEF Over
    <2>2. Fits(r)'
      BY <2>1 DEF Fits, VerifyCall, Redeemed, Activated
    <2>3. TypeOK'
      BY <2>1 DEF TypeOK, outside
    <2> QED BY <2>1, <2>2, <2>3, Untouched DEF outside
  <1>3. ASSUME NEW n \in {"expire", "lookup", "useOtp"}, Continue(r, n),
               n = "useOtp" => otp[frame[r].usr] # null
        PROVE  Moves(r)
    <2>1. /\ pc' \in [Request -> Call] /\ frame' \in [Request -> Frame] /\ pc'[r] = n
          /\ OnlyMoves(r) /\ frame'[r] = frame[r]
      BY <1>3, ContinueTypes DEF Call
    <2>2. Fits(r)'
      BY <1>1, <1>3, <2>1 DEF Fits, VerifyCall, Redeemed, Activated
    <2>3. TypeOK'
      BY <2>1 DEF TypeOK, outside
    <2> QED BY <2>1, <2>2, <2>3, Untouched DEF outside
  <1> QED BY <1>2, <1>3

LEMMA CountAttemptStep == ASSUME Shape, NEW r \in Request, CountAttempt(r) PROVE Moves(r)
  <1> USE DEF Shape, Types
  <1> DEFINE u == frame[r].usr
             counter == IF attempts[u] = null THEN [count |-> 1, expiresAt |-> null]
                        ELSE [attempts[u] EXCEPT !.count = @ + 1]
  <1>1. pc[r] = "incr" /\ u \in User
    BY DEF CountAttempt, Fits, VerifyCall
  <1>2. counter \in Counter
    <2>1. attempts[u] # null => attempts[u] \in Counter
      BY <1>1 DEF TypeOK
    <2> QED BY <2>1 DEF Counter
  <1>3. attempts' \in [User -> Counter \union {null}] /\ uneven' \subseteq User
    BY <1>1, <1>2 DEF CountAttempt, TypeOK
  <1> QED BY <1>1, <1>3, EarlyCalls DEF CountAttempt, TypeOK

LEMMA SetCounterTtlStep == ASSUME Shape, NEW r \in Request, SetCounterTtl(r) PROVE Moves(r)
  <1> USE DEF Shape, Types
  <1> DEFINE u == frame[r].usr
  <1>1. pc[r] = "expire" /\ u \in User
    BY DEF SetCounterTtl, Fits, VerifyCall
  <1>2. attempts[u] # null => [attempts[u] EXCEPT !.expiresAt = now + OtpTtl] \in Counter
    <2>1. attempts[u] # null => attempts[u] \in Counter
      BY <1>1 DEF TypeOK
    <2>2. now + OtpTtl \in Time
      BY TimeTypes DEF TypeOK
    <2> QED BY <2>1, <2>2 DEF Counter
  <1>3. attempts' \in [User -> Counter \union {null}]
    BY <1>1, <1>2 DEF SetCounterTtl, TypeOK
  <1> QED BY <1>1, <1>3, EarlyCalls DEF SetCounterTtl, TypeOK, hist

LEMMA FindOtpStep == ASSUME Shape, NEW r \in Request, FindOtp(r) PROVE Moves(r)
  <1> USE DEF Shape, Types
  <1>1. pc[r] = "lookup" /\ frame[r].usr \in User
    BY DEF FindOtp, Fits, VerifyCall
  <1>2. lookups' \in [User -> Nat]
    BY <1>1 DEF FindOtp, TypeOK
  <1>3. UNCHANGED <<account, otp, attempts, audit, outside, now, uneven>>
    BY DEF FindOtp, store
  <1>4. End(r, "failed") \/ (Continue(r, "useOtp") /\ otp[frame[r].usr] # null)
    BY DEF FindOtp, OtpLive
  <1> QED BY <1>1, <1>2, <1>3, <1>4, EarlyCalls DEF TypeOK

LEMMA UseOtpStep == ASSUME Shape, NEW r \in Request, UseOtp(r) PROVE Moves(r)
  <1> USE DEF Shape, Types
  <1> DEFINE u == frame[r].usr
  <1>1. /\ pc[r] = "useOtp" /\ u \in User /\ account[u] # null /\ otp[u] # null
        /\ otp' = [otp EXCEPT ![u].used = TRUE]
        /\ UNCHANGED <<account, attempts, audit, outside, now, hist>>
    BY DEF UseOtp, Fits, VerifyCall
  <1>2. /\ pc' \in [Request -> Call] /\ frame' \in [Request -> Frame] /\ pc'[r] = "markVerified"
        /\ OnlyMoves(r) /\ frame'[r] = frame[r]
    BY ContinueTypes DEF UseOtp, Call
  <1>3. otp[u] \in OtpCode /\ otp \in [User -> OtpCode \union {null}]
    BY <1>1 DEF TypeOK
  <1>4. /\ [otp[u] EXCEPT !.used = TRUE] \in OtpCode
        /\ [otp[u] EXCEPT !.used = TRUE] # null /\ [otp[u] EXCEPT !.used = TRUE].used
    BY <1>3, OtpFields
  <1>5. otp'[u] = [otp[u] EXCEPT !.used = TRUE] /\ \A v \in User \ {u} : otp'[v] = otp[v]
    BY <1>1, <1>3
  <1>6. otp' \in [User -> OtpCode \union {null}]
    BY <1>1, <1>3, <1>4
  <1>7. Fits(r)'
    BY <1>1, <1>2, <1>4, <1>5, ZenonT(60) DEF Fits, VerifyCall, Redeemed, Activated
  <1>8. Types'
    BY <1>1, <1>2, <1>5, <1>6 DEF TypeOK, OtpHasAccount, outside, hist
  <1>9. Kept
    BY <1>1, <1>4, <1>5 DEF Kept, outside
  <1>10. \A q \in Request \ {r} : pc[q] = "createOtp" => frame[q].usr \in User \ {u}
    BY <1>1 DEF Fits
  <1> QED BY <1>2, <1>5, <1>7, <1>8, <1>9, <1>10 DEF Moves

LEMMA MarkVerifiedStep == ASSUME Shape, NEW r \in Request, MarkVerified(r) PROVE Moves(r)
  <1> USE DEF Shape, Types
  <1> DEFINE u == frame[r].usr
  <1>1. /\ pc[r] = "markVerified" /\ u \in User /\ account[u] # null
        /\ otp[u] # null /\ otp[u].used
        /\ account' = [account EXCEPT ![u].verified = TRUE]
        /\ UNCHANGED <<otp, attempts, audit, outside, now, hist>>
    BY DEF MarkVerified, Fits, VerifyCall, Redeemed
  <1>2. /\ pc' \in [Request -> Call] /\ frame' \in [Request -> Frame] /\ pc'[r] = "delAttempts"
        /\ OnlyMoves(r) /\ frame'[r] = frame[r]
    BY ContinueTypes DEF MarkVerified, Call
  <1>3. account[u] \in Account /\ account \in [User -> Account \union {null}]
    BY <1>1 DEF TypeOK
  <1>4. /\ [account[u] EXCEPT !.verified = TRUE] \in Account
        /\ [account[u] EXCEPT !.verified = TRUE] # null /\ [account[u] EXCEPT !.verified = TRUE].verified
    BY <1>3, AccountFields
  <1>5. /\ account'[u] = [account[u] EXCEPT !.verified = TRUE]
        /\ \A v \in User \ {u} : account'[v] = account[v]
    BY <1>1, <1>3
  <1>6. account' \in [User -> Account \union {null}]
    BY <1>1, <1>3, <1>4
  <1>7. Fits(r)'
    <2>1. account'[u] # null /\ account'[u].verified /\ otp'[u] # null /\ otp'[u].used
      BY <1>1, <1>4, <1>5
    <2>2. frame'[r].usr = u /\ u \in User /\ pc'[r] = "delAttempts"
      BY <1>1, <1>2
    <2> HIDE DEF u
    <2> QED BY <2>1, <2>2 DEF Fits, VerifyCall, Redeemed, Activated
  <1>8. Types'
    BY <1>1, <1>2, <1>4, <1>5, <1>6 DEF TypeOK, OtpHasAccount, outside, hist
  <1>9. Kept
    BY <1>1, <1>4, <1>5 DEF Kept, outside
  <1> QED BY <1>1, <1>2, <1>7, <1>8, <1>9 DEF Moves

(* The calls after the verified flag: each adds to one table. *)
LEMMA LateCalls ==
  ASSUME Shape, NEW r \in Request, pc[r] \in Activated,
         UNCHANGED <<account, otp, now, hist>>,
         attempts' \in [User -> Counter \union {null}], audit' \subseteq User \X Event,
         published' \subseteq User, token' \in [Request -> User \union {null}], session' \subseteq User,
         audit \subseteq audit', published \subseteq published',
         \/ Continue(r, "publish")
         \/ Continue(r, "verifyAudit") /\ frame[r].usr \in published'
         \/ Continue(r, "insert") /\ frame[r].usr \in published' /\ <<frame[r].usr, "EMAIL_VERIFIED">> \in audit'
         \/ Continue(r, "session") /\ frame[r].usr \in published' /\ <<frame[r].usr, "EMAIL_VERIFIED">> \in audit'
         \/ End(r, "done") \/ End(r, "failed")
  PROVE  Moves(r)
  <1> USE DEF Shape, Types
  <1>1. /\ frame[r].usr \in User /\ account[frame[r].usr] # null /\ otp[frame[r].usr] # null
        /\ otp[frame[r].usr].used /\ account[frame[r].usr].verified
    BY DEF Fits, VerifyCall, Redeemed, Activated
  <1>2. ASSUME NEW n \in {"done", "failed"}, End(r, n) PROVE Moves(r)
    <2>1. pc' \in [Request -> Call] /\ frame' \in [Request -> Frame] /\ pc'[r] = n /\ OnlyMoves(r)
      BY <1>2, EndTypes DEF Over
    <2>2. Fits(r)'
      BY <2>1 DEF Fits, VerifyCall, Redeemed, Activated
    <2>3. TypeOK'
      BY <2>1 DEF TypeOK, hist
    <2> QED BY <1>2, <2>1, <2>2, <2>3, Untouched
  <1>3. ASSUME NEW n \in {"publish", "verifyAudit", "insert", "session"}, Continue(r, n),
               n \in {"verifyAudit", "insert", "session"} => frame[r].usr \in published',
               n \in {"insert", "session"} => <<frame[r].usr, "EMAIL_VERIFIED">> \in audit'
        PROVE  Moves(r)
    <2>1. /\ pc' \in [Request -> Call] /\ frame' \in [Request -> Frame] /\ pc'[r] = n
          /\ OnlyMoves(r) /\ frame'[r] = frame[r]
      BY <1>3, ContinueTypes DEF Call
    <2>2. Fits(r)'
      BY <1>1, <1>3, <2>1 DEF Fits, VerifyCall, Redeemed, Activated
    <2>3. TypeOK'
      BY <2>1 DEF TypeOK, hist
    <2> QED BY <1>3, <2>1, <2>2, <2>3, Untouched
  <1> QED BY <1>2, <1>3

LEMMA LateSteps ==
  ASSUME Shape, NEW r \in Request,
         ClearAttempts(r) \/ PublishRegistered(r) \/ VerifyAudit(r) \/ InsertToken(r) \/ SetSession(r)
  PROVE  Moves(r)
  <1> USE DEF Shape, Types
  <1>1. CASE ClearAttempts(r)
    <2>1. attempts' \in [User -> Counter \union {null}]
      BY <1>1 DEF ClearAttempts, TypeOK
    <2> QED BY <1>1, <2>1, LateCalls DEF ClearAttempts, Redeemed, Activated, VerifyCall, TypeOK, outside
  <1>2. CASE PublishRegistered(r)
    <2>1. frame[r].usr \in User
      BY <1>2 DEF PublishRegistered, Fits, VerifyCall
    <2>2. /\ published \subseteq published' /\ published' \subseteq User
          /\ End(r, "failed") \/ (Continue(r, "verifyAudit") /\ frame[r].usr \in published')
      BY <1>2, <2>1 DEF PublishRegistered, TypeOK
    <2> QED BY <1>2, <2>2, LateCalls
            DEF PublishRegistered, Redeemed, Activated, VerifyCall, TypeOK, store
  <1>3. CASE VerifyAudit(r)
    <2>1. frame[r].usr \in User /\ frame[r].usr \in published
      BY <1>3 DEF VerifyAudit, Fits, VerifyCall
    <2>2. /\ audit \subseteq audit' /\ audit' \subseteq User \X Event
          /\ <<frame[r].usr, "EMAIL_VERIFIED">> \in audit'
      BY <1>3, <2>1 DEF VerifyAudit, Log, TypeOK, Event
    <2> QED BY <1>3, <2>1, <2>2, LateCalls
            DEF VerifyAudit, Redeemed, Activated, VerifyCall, TypeOK, outside
  <1>4. CASE InsertToken(r)
    <2>1. /\ frame[r].usr \in User /\ frame[r].usr \in published
          /\ <<frame[r].usr, "EMAIL_VERIFIED">> \in audit
      BY <1>4 DEF InsertToken, Fits, VerifyCall
    <2>2. token' \in [Request -> User \union {null}]
      BY <1>4, <2>1 DEF InsertToken, TypeOK
    <2> QED BY <1>4, <2>1, <2>2, LateCalls
            DEF InsertToken, Redeemed, Activated, VerifyCall, TypeOK, store
  <1>5. CASE SetSession(r)
    <2>1. frame[r].usr \in User
      BY <1>5 DEF SetSession, Fits, VerifyCall
    <2>2. session' \subseteq User
      BY <1>5, <2>1 DEF SetSession, TypeOK
    <2> QED BY <1>5, <2>2, LateCalls
            DEF SetSession, Redeemed, Activated, VerifyCall, TypeOK, store
  <1> QED BY <1>1, <1>2, <1>3, <1>4, <1>5

LEMMA AbortStep == ASSUME Shape, NEW r \in Request, Abort(r) PROVE Moves(r)
  <1> USE DEF Shape, Types
  <1>1. pc' \in [Request -> Call] /\ frame' \in [Request -> Frame] /\ pc'[r] = "failed" /\ OnlyMoves(r)
    BY EndTypes DEF Abort, Over
  <1>2. Fits(r)'
    BY <1>1 DEF Fits, VerifyCall, Redeemed, Activated
  <1>3. TypeOK'
    BY <1>1 DEF Abort, TypeOK, store, outside, hist
  <1> QED BY <1>1, <1>2, <1>3, Untouched DEF Abort, store, outside

LEMMA RequestStep ==
  ASSUME Shape, NEW r \in Request, Register(r) \/ VerifyOtp(r) \/ Abort(r)
  PROVE  Moves(r)
  BY RegisterFindStep, CreateUserStep, CreateOtpStep, RegisterAuditStep, VerifyFindStep,
     CountAttemptStep, SetCounterTtlStep, FindOtpStep, UseOtpStep, MarkVerifiedStep, LateSteps,
     AbortStep
  DEF Register, VerifyOtp

-----------------------------------------------------------------------------
(* What happens without the two handlers *)

LEMMA EnvironmentStep == ASSUME Shape, Environment PROVE Shape' /\ Kept /\ UNCHANGED <<pc, frame, otp>>
  <1> USE DEF Shape, Types
  <1>1. ASSUME TypeOK', Kept, UNCHANGED <<pc, frame, otp, published, audit>>
        PROVE  Shape' /\ Kept /\ UNCHANGED <<pc, frame, otp>>
    <2>1. OtpHasAccount' /\ OneWriter'
      BY <1>1 DEF OtpHasAccount, OneWriter, Kept
    <2>2. ASSUME NEW q \in Request PROVE Fits(q)'
      BY <1>1, <2>2 DEF Fits, Kept, VerifyCall, Redeemed, Activated
    <2> QED BY <1>1, <2>1, <2>2
  <1>2. ASSUME NEW u \in User, SoftDelete(u) PROVE Shape' /\ Kept /\ UNCHANGED <<pc, frame, otp>>
    <2>1. account[u] \in Account /\ account \in [User -> Account \union {null}]
      BY <1>2 DEF SoftDelete, TypeOK
    <2>2. /\ [account[u] EXCEPT !.deleted = TRUE] \in Account
          /\ [account[u] EXCEPT !.deleted = TRUE] # null
          /\ [account[u] EXCEPT !.deleted = TRUE].verified = account[u].verified
      BY <2>1, AccountFields
    <2>3. /\ account'[u] = [account[u] EXCEPT !.deleted = TRUE]
          /\ \A v \in User \ {u} : account'[v] = account[v]
      BY <1>2, <2>1 DEF SoftDelete
    <2>4. account' \in [User -> Account \union {null}]
      BY <1>2, <2>1, <2>2 DEF SoftDelete
    <2>5. Kept
      BY <1>2, <2>2, <2>3 DEF SoftDelete, Kept, outside
    <2>6. TypeOK'
      BY <1>2, <2>4 DEF SoftDelete, TypeOK, outside, hist
    <2> QED BY <1>1, <1>2, <2>5, <2>6 DEF SoftDelete, outside
  <1>3. CASE Tick
    <2>1. now' \in 0 .. MaxTime
      BY <1>3 DEF Tick, TypeOK
    <2>2. attempts' \in [User -> Counter \union {null}]
      BY <1>3 DEF Tick, TypeOK
    <2>3. TypeOK' /\ Kept
      BY <1>3, <2>1, <2>2 DEF Tick, TypeOK, Kept, outside, hist
    <2> QED BY <1>1, <1>3, <2>3 DEF Tick, outside
  <1>4. ASSUME NEW u \in User, Evict(u) PROVE Shape' /\ Kept /\ UNCHANGED <<pc, frame, otp>>
    <2>1. TypeOK' /\ Kept
      BY <1>4 DEF Evict, TypeOK, Kept, outside
    <2> QED BY <1>1, <1>4, <2>1 DEF Evict, outside
  <1> QED BY <1>2, <1>3, <1>4 DEF Environment

LEMMA ShapeStep == ASSUME Shape, [Next]_vars PROVE Shape' /\ Kept
  <1>1. ASSUME NEW r \in Request, Register(r) \/ VerifyOtp(r) \/ Abort(r) PROVE Shape' /\ Kept
    <2>1. Moves(r)
      BY <1>1, RequestStep
    <2> QED BY <2>1, MovesKeepShape DEF Moves
  <1>2. CASE UNCHANGED vars
    <2>1. Kept
      BY <1>2 DEF Kept, vars, store, outside
    <2>2. TypeOK' /\ OtpHasAccount' /\ OneWriter'
      BY <1>2 DEF Shape, Types, TypeOK, OtpHasAccount, OneWriter, vars, store, outside, hist
    <2>3. \A q \in Request : Fits(q)'
      BY <1>2, SMTT(30) DEF Shape, Fits, vars, store, outside, VerifyCall, Redeemed, Activated
    <2> QED BY <2>1, <2>2, <2>3 DEF Shape, Types
  <1> QED BY <1>1, <1>2, EnvironmentStep DEF Next

-----------------------------------------------------------------------------
(* Accounts *)

(* The calls that write a User row. *)
LEMMA AccountWriters ==
  ASSUME [Next]_vars
  PROVE  \/ UNCHANGED account
         \/ \E r \in Request, u \in User : CreateUser(r, u)
         \/ \E r \in Request : MarkVerified(r)
         \/ \E u \in User : SoftDelete(u)
  BY DEF Next, Register, VerifyOtp, Environment, vars, store, RegisterFind, CreateOtp, RegisterAudit,
         VerifyFind, CountAttempt, SetCounterTtl, FindOtp, UseOtp, ClearAttempts, PublishRegistered,
         VerifyAudit, InsertToken, SetSession, Tick, Evict, Abort

(* A row that is there keeps its email, and is verified only by a request  *)
(* that has used its OTP.                                                  *)
LEMMA OldRow ==
  ASSUME Shape, [Next]_vars, NEW u \in User, account[u] # null
  PROVE  /\ account'[u].email = account[u].email
         /\ account'[u].verified =>
              \/ account[u].verified
              \/ \E r \in Request : pc[r] = "markVerified" /\ frame[r].usr = u
  <1> USE DEF Shape, Types
  <1>1. account[u] \in Account /\ account \in [User -> Account \union {null}]
    BY DEF TypeOK
  <1>2. /\ [account[u] EXCEPT !.verified = TRUE].email = account[u].email
        /\ [account[u] EXCEPT !.deleted = TRUE].email = account[u].email
        /\ [account[u] EXCEPT !.deleted = TRUE].verified = account[u].verified
    BY <1>1, AccountFields
  <1>3. ASSUME NEW r \in Request, NEW v \in User, CreateUser(r, v)
        PROVE  account'[u] = account[u]
    BY <1>1, <1>3 DEF CreateUser
  <1>4. ASSUME NEW r \in Request, MarkVerified(r), frame[r].usr = u
        PROVE  account'[u] = [account[u] EXCEPT !.verified = TRUE] /\ pc[r] = "markVerified"
    BY <1>1, <1>4 DEF MarkVerified
  <1>5. ASSUME NEW r \in Request, MarkVerified(r), frame[r].usr # u PROVE account'[u] = account[u]
    BY <1>1, <1>5 DEF MarkVerified
  <1>6. ASSUME NEW v \in User, SoftDelete(v)
        PROVE  account'[u] \in {account[u], [account[u] EXCEPT !.deleted = TRUE]}
    BY <1>1, <1>6 DEF SoftDelete
  <1> QED BY <1>2, <1>3, <1>4, <1>5, <1>6, AccountWriters

(* A new row comes from createUser, unverified. *)
LEMMA NewRow ==
  ASSUME Shape, [Next]_vars, NEW u \in User, account[u] = null, account'[u] # null
  PROVE  \E r \in Request :
           /\ CreateUser(r, u)
           /\ account'[u] = [email |-> frame[r].email, verified |-> FALSE, deleted |-> FALSE]
           /\ \A v \in User : ~Registered(v, frame[r].email)
           /\ \A v \in User \ {u} : account'[v] = account[v]
  <1> USE DEF Shape, Types
  <1>1. account \in [User -> Account \union {null}]
    BY DEF TypeOK
  <1>2. ASSUME NEW r \in Request, MarkVerified(r) PROVE FALSE
    <2>1. frame[r].usr # u
      BY <1>2 DEF MarkVerified, Fits, VerifyCall
    <2> QED BY <1>1, <1>2, <2>1 DEF MarkVerified
  <1>3. ASSUME NEW v \in User, SoftDelete(v) PROVE FALSE
    BY <1>1, <1>3 DEF SoftDelete
  <1>4. PICK r \in Request, v \in User : CreateUser(r, v)
    BY <1>2, <1>3, AccountWriters
  <1>5. v = u
    BY <1>1, <1>4 DEF CreateUser
  <1> QED BY <1>1, <1>4, <1>5 DEF CreateUser

LEMMA OneAccountStep == ASSUME Shape, OneAccountPerEmail, [Next]_vars PROVE OneAccountPerEmail'
  <1> SUFFICES ASSUME NEW u \in User, NEW v \in User, u # v,
                      account'[u] # null, account'[v] # null, account'[u].email = account'[v].email
               PROVE  FALSE
    BY DEF OneAccountPerEmail, Registered
  <1>1. CASE account[u] # null /\ account[v] # null
    <2>1. account[u].email = account[v].email /\ account[u].email \in Email
      BY <1>1, OldRow DEF Shape, Types, TypeOK, Account
    <2> QED BY <1>1, <2>1 DEF OneAccountPerEmail, Registered
  <1>2. ASSUME NEW x \in User, NEW y \in User \ {x}, account[x] = null, account'[x] # null,
               account'[y] # null, account'[x].email = account'[y].email
        PROVE  FALSE
    <2>1. PICK r \in Request :
            /\ account'[x] = [email |-> frame[r].email, verified |-> FALSE, deleted |-> FALSE]
            /\ \A w \in User : ~Registered(w, frame[r].email)
            /\ \A w \in User \ {x} : account'[w] = account[w]
      BY <1>2, NewRow
    <2>2. account'[x].email = frame[r].email
      BY <2>1, SMTT(40)
    <2> QED BY <1>2, <2>1, <2>2 DEF Registered
  <1> QED BY <1>1, <1>2

-----------------------------------------------------------------------------
(* The order of verifyOtp's writes *)

Trail ==
  /\ VerificationTrail
  /\ \A u \in published : account[u] # null
  /\ \A u \in User : account[u] # null /\ account[u].verified => otp[u] # null

(* The calls that write the other tables of the trail. *)
LEMMA TrailWriters ==
  ASSUME [Next]_vars
  PROVE  /\ UNCHANGED token \/ \E r \in Request : InsertToken(r)
         /\ UNCHANGED audit \/ \E r \in Request : RegisterAudit(r) \/ VerifyAudit(r)
         /\ UNCHANGED published \/ \E r \in Request : PublishRegistered(r)
  BY DEF Next, Register, VerifyOtp, Environment, vars, store, outside, RegisterFind, CreateUser,
         CreateOtp, VerifyFind, CountAttempt, SetCounterTtl, FindOtp, UseOtp, MarkVerified,
         ClearAttempts, RegisterAudit, PublishRegistered, VerifyAudit, InsertToken, SetSession,
         SoftDelete, Tick, Evict, Abort

LEMMA TrailStep == ASSUME Shape, Trail, [Next]_vars PROVE Trail'
  <1> USE DEF Shape, Types
  <1>0. Kept
    BY ShapeStep
  <1>1. ASSUME NEW r \in Request, token'[r] # null PROVE <<token'[r], "EMAIL_VERIFIED">> \in audit'
    <2>1. CASE token'[r] = token[r]
      BY <1>0, <1>1, <2>1 DEF Trail, VerificationTrail, Kept
    <2>2. ASSUME NEW q \in Request, InsertToken(q), token'[r] # token[r]
          PROVE  <<token'[r], "EMAIL_VERIFIED">> \in audit'
      <3>1. <<frame[q].usr, "EMAIL_VERIFIED">> \in audit /\ token'[r] = frame[q].usr
        BY <2>2 DEF InsertToken, Fits, TypeOK
      <3> QED BY <1>0, <3>1 DEF Kept
    <2> QED BY <2>1, <2>2, TrailWriters
  <1>2. ASSUME NEW u \in User, <<u, "EMAIL_VERIFIED">> \in audit' PROVE u \in published'
    <2>1. CASE <<u, "EMAIL_VERIFIED">> \in audit
      BY <1>0, <2>1 DEF Trail, VerificationTrail, Kept
    <2>2. ASSUME NEW q \in Request, RegisterAudit(q) PROVE u \in published'
      BY <1>2, <2>1, <2>2 DEF RegisterAudit, Log
    <2>3. ASSUME NEW q \in Request, VerifyAudit(q), <<u, "EMAIL_VERIFIED">> \notin audit PROVE u \in published'
      <3>1. frame[q].usr \in published /\ u = frame[q].usr
        BY <1>2, <2>3 DEF VerifyAudit, Log, Fits
      <3> QED BY <1>0, <3>1 DEF Kept
    <2> QED BY <1>2, <2>1, <2>2, <2>3, TrailWriters
  <1>3. ASSUME NEW u \in User, u \in published' PROVE account'[u] # null /\ account'[u].verified
    <2>1. account[u] # null /\ account[u].verified
      <3>1. CASE u \in published
        BY <3>1 DEF Trail, VerificationTrail
      <3>2. ASSUME NEW q \in Request, PublishRegistered(q), u \notin published
            PROVE  account[u] # null /\ account[u].verified
        BY <1>3, <3>2 DEF PublishRegistered, Fits, VerifyCall, Activated, Redeemed
      <3> QED BY <1>3, <3>1, <3>2, TrailWriters
    <2> QED BY <1>0, <2>1 DEF Kept
  <1>4. ASSUME NEW u \in User, account'[u] # null, account'[u].verified
        PROVE  otp'[u] # null /\ otp'[u].used
    <2>1. account[u] # null
      <3> SUFFICES ASSUME account[u] = null PROVE FALSE
        OBVIOUS
      <3>1. PICK r \in Request :
              account'[u] = [email |-> frame[r].email, verified |-> FALSE, deleted |-> FALSE]
        BY <1>4, NewRow
      <3> QED BY <1>4, <3>1
    <2>2. otp[u] # null /\ otp[u].used
      <3>1. CASE account[u].verified
        BY <2>1, <3>1 DEF Trail, VerificationTrail
      <3>2. ASSUME NEW r \in Request, pc[r] = "markVerified", frame[r].usr = u
            PROVE  otp[u] # null /\ otp[u].used
        BY <3>2 DEF Fits, Redeemed, VerifyCall
      <3> QED BY <1>4, <2>1, <3>1, <3>2, OldRow
    <2> QED BY <1>0, <2>2 DEF Kept
  <1>5. published' \subseteq User
    BY ShapeStep DEF TypeOK
  <1> QED BY <1>1, <1>2, <1>3, <1>4, <1>5 DEF Trail, VerificationTrail

-----------------------------------------------------------------------------
(* The one door to verification *)

LEMMA OtpWriters ==
  ASSUME [Next]_vars
  PROVE  \/ UNCHANGED otp
         \/ \E r \in Request : UseOtp(r) \/ \E c \in Code : CreateOtp(r, c)
  BY DEF Next, Register, VerifyOtp, Environment, vars, store, RegisterFind, CreateUser, RegisterAudit,
         VerifyFind, CountAttempt, SetCounterTtl, FindOtp, MarkVerified, ClearAttempts,
         PublishRegistered, VerifyAudit, InsertToken, SetSession, SoftDelete, Tick, Evict, Abort

LEMMA ClockAdvances == ASSUME TypeOK, [Next]_vars PROVE now' \in Nat /\ now' >= now
  <1>1. now \in Nat
    BY DEF TypeOK
  <1>2. now' = now \/ now' = now + 1
    BY DEF Next, Register, VerifyOtp, Environment, vars, RegisterFind, CreateUser, CreateOtp,
           RegisterAudit, VerifyFind, CountAttempt, SetCounterTtl, FindOtp, UseOtp, MarkVerified,
           ClearAttempts, PublishRegistered, VerifyAudit, InsertToken, SetSession, SoftDelete, Tick,
           Evict, Abort
  <1> QED BY <1>1, <1>2

(* Nothing but the insert of u's OTP makes it live. *)
LEMMA OtpStaysDead ==
  ASSUME Shape, [Next]_vars, NEW u \in User, ~OtpLive(u),
         \A r \in Request : frame[r].usr = u => pc[r] # "createOtp"
  PROVE  ~OtpLive(u)'
  <1> USE DEF Shape, Types
  <1>1. otp \in [User -> OtpCode \union {null}]
    BY DEF TypeOK
  <1>2. \/ otp'[u] = otp[u]
        \/ otp[u] # null /\ otp'[u] = [otp[u] EXCEPT !.used = TRUE]
    <2>1. ASSUME NEW r \in Request, UseOtp(r) 
          PROVE  otp'[u] = otp[u] \/ (otp[u] # null /\ otp'[u] = [otp[u] EXCEPT !.used = TRUE])
      BY <1>1, <2>1 DEF UseOtp, Fits
    <2>2. ASSUME NEW r \in Request, NEW c \in Code, CreateOtp(r, c) PROVE otp'[u] = otp[u]
      BY <1>1, <2>2 DEF CreateOtp
    <2> QED BY <2>1, <2>2, OtpWriters
  <1>3. CASE otp'[u] = otp[u]
    <2>1. otp[u] # null => otp[u].expiresAt \in Nat
      BY <1>1 DEF OtpCode, Time
    <2>2. now \in Nat /\ now' \in Nat /\ now' >= now
      BY ClockAdvances DEF TypeOK
    <2> QED BY <1>3, <2>1, <2>2 DEF OtpLive
  <1>4. CASE otp[u] # null /\ otp'[u] = [otp[u] EXCEPT !.used = TRUE]
    BY <1>1, <1>4, OtpFields DEF OtpLive
  <1> QED BY <1>2, <1>3, <1>4

Door == {"createOtp", "useOtp", "markVerified"}

(* Who comes to one of the three calls that Stuck excludes. *)
LEMMA EntersDoor ==
  ASSUME Shape, [Next]_vars, NEW r \in Request, pc'[r] \in Door
  PROVE  \/ pc[r] = pc'[r] /\ frame[r] = frame'[r]
         \/ \E v \in User : CreateUser(r, v) /\ account[v] = null /\ frame'[r].usr = v
         \/ FindOtp(r) /\ frame'[r] = frame[r] /\ OtpLive(frame[r].usr)
         \/ UseOtp(r) /\ frame'[r] = frame[r] /\ pc[r] = "useOtp"
  <1> USE DEF Shape, Types
  <1>1. pc \in [Request -> Call] /\ frame \in [Request -> Frame]
    BY DEF TypeOK
  <1>2. CASE UNCHANGED <<pc, frame>>
    BY <1>2
  <1>3. ASSUME NEW q \in Request \ {r}, Register(q) \/ VerifyOtp(q) \/ Abort(q)
        PROVE  pc[r] = pc'[r] /\ frame[r] = frame'[r]
    BY <1>3, RequestStep DEF Moves, OnlyMoves
  <1>4. ASSUME NEW v \in User, CreateUser(r, v) PROVE account[v] = null /\ frame'[r].usr = v
    <2>1. GoTo(r, "createOtp", [frame[r] EXCEPT !.usr = v]) /\ account[v] = null
      BY <1>1, <1>4 DEF CreateUser, End, GoTo, Door
    <2>2. frame[r] \in Frame
      BY <1>1
    <2>3. frame'[r] = [frame[r] EXCEPT !.usr = v]
      BY <1>1, <2>1 DEF GoTo
    <2> QED BY <2>1, <2>2, <2>3 DEF Frame
  <1>5. CASE FindOtp(r)
    BY <1>1, <1>5 DEF FindOtp, Continue, End, GoTo, Door
  <1>6. CASE UseOtp(r)
    BY <1>1, <1>6 DEF UseOtp, Continue, GoTo
  <1>7. ASSUME Abort(r) \/ RegisterAudit(r) \/ MarkVerified(r) \/ ClearAttempts(r) \/ PublishRegistered(r)
               \/ VerifyAudit(r) \/ InsertToken(r) \/ SetSession(r) \/ CountAttempt(r) \/ SetCounterTtl(r)
        PROVE  FALSE
    BY <1>1, <1>7
       DEF Abort, RegisterAudit, MarkVerified, ClearAttempts, PublishRegistered, VerifyAudit,
           InsertToken, SetSession, CountAttempt, SetCounterTtl, Continue, End, GoTo, Door
  <1>8. ASSUME NEW e \in Email, RegisterFind(r, e) \/ \E c \in Code : VerifyFind(r, e, c)
        PROVE  FALSE
    BY <1>1, <1>8 DEF RegisterFind, VerifyFind, End, GoTo, Door
  <1>9. ASSUME NEW c \in Code, CreateOtp(r, c) PROVE FALSE
    BY <1>1, <1>9 DEF CreateOtp, Continue, GoTo, Door
  <1>10. Environment => UNCHANGED <<pc, frame>>
    BY EnvironmentStep
  <1> QED BY <1>2, <1>3, <1>4, <1>5, <1>6, <1>7, <1>8, <1>9, <1>10
          DEF Next, Register, VerifyOtp, vars

LEMMA StuckStep == ASSUME Shape, [Next]_vars, NEW u \in User, Stuck(u) PROVE Stuck(u)'
  <1>1. /\ account[u] # null /\ ~account[u].verified /\ ~OtpLive(u)
        /\ \A r \in Request : frame[r].usr = u => pc[r] \notin Door
    BY DEF Stuck, Door
  <1>2. account'[u] # null
    BY <1>1, ShapeStep DEF Kept
  <1>3. ~account'[u].verified
    BY <1>1, OldRow DEF Door
  <1>4. ~OtpLive(u)'
    BY <1>1, OtpStaysDead DEF Door
  <1>5. ASSUME NEW r \in Request, frame'[r].usr = u, pc'[r] \in Door PROVE FALSE
    <2>1. CASE pc[r] = pc'[r] /\ frame[r] = frame'[r]
      BY <1>1, <1>5, <2>1
    <2>2. ASSUME NEW v \in User, account[v] = null, frame'[r].usr = v PROVE FALSE
      BY <1>1, <1>5, <2>2
    <2>3. CASE frame'[r] = frame[r] /\ OtpLive(frame[r].usr)
      BY <1>1, <1>5, <2>3
    <2>4. CASE frame'[r] = frame[r] /\ pc[r] = "useOtp"
      BY <1>1, <1>5, <2>4 DEF Door
    <2> QED BY <1>5, <2>1, <2>2, <2>3, <2>4, EntersDoor
  <1> QED BY <1>2, <1>3, <1>4, <1>5 DEF Stuck, Door

-----------------------------------------------------------------------------
(* Guesses *)

(* The requests whose guess at u's OTP has been counted and not yet made. *)
InHand(u) ==
  {r \in Request : frame[r].usr = u /\ (pc[r] = "lookup" \/ (pc[r] = "expire" /\ MaxAttempts # 0))}

(* The guesses that the counter has let through. *)
Allowed(u) ==
  IF attempts[u] = null THEN 0
  ELSE IF attempts[u].count <= MaxAttempts THEN attempts[u].count ELSE MaxAttempts

(* While the OTP is live, guesses made and in hand are those the counter   *)
(* let through, and the counter does not run out before the OTP does.      *)
Rationed(u) ==
  /\ otp[u] = null => lookups[u] = 0 /\ attempts[u] = null /\ InHand(u) = {}
  /\ otp[u] # null /\ attempts[u] # null /\ attempts[u].expiresAt # null =>
       attempts[u].expiresAt >= otp[u].expiresAt
  /\ OtpLive(u) => IsFiniteSet(InHand(u)) /\ lookups[u] + Cardinality(InHand(u)) <= Allowed(u)
  /\ lookups[u] <= MaxAttempts

Rations == \A u \in User \ uneven : Rationed(u)

LEMMA NumberFacts ==
  ASSUME TypeOK, NEW u \in User
  PROVE  lookups[u] \in Nat /\ MaxAttempts \in Nat /\ now \in Nat /\ now + OtpTtl \in Nat
  BY DEF TypeOK

LEMMA CounterFacts ==
  ASSUME TypeOK, NEW u \in User, attempts[u] # null
  PROVE  /\ attempts[u] \in Counter /\ attempts[u].count \in Nat
         /\ attempts[u].expiresAt # null => attempts[u].expiresAt \in Nat
  BY DEF TypeOK, Counter, Time

LEMMA OtpFacts ==
  ASSUME TypeOK, NEW u \in User, otp[u] # null
  PROVE  otp[u] \in OtpCode /\ otp[u].expiresAt \in Nat
  BY DEF TypeOK, OtpCode, Time

LEMMA AllowedFacts ==
  ASSUME TypeOK, NEW u \in User
  PROVE  Allowed(u) \in Nat /\ Allowed(u) <= MaxAttempts
  <1>1. CASE attempts[u] = null
    BY <1>1 DEF Allowed
  <1>2. CASE attempts[u] # null
    <2>1. attempts[u].count \in Nat
      BY <1>2, CounterFacts
    <2> QED BY <1>2, <2>1 DEF Allowed
  <1> QED BY <1>1, <1>2

(* A step that touches none of u's tables and gives nobody a guess. *)
LEMMA Undisturbed ==
  ASSUME TypeOK, NEW u \in User, Rationed(u), InHand(u)' \subseteq InHand(u),
         otp'[u] = otp[u], attempts'[u] = attempts[u], lookups'[u] = lookups[u],
         OtpLive(u)' => OtpLive(u)
  PROVE  Rationed(u)'
  <1>1. Allowed(u)' = Allowed(u)
    BY DEF Allowed
  <1>2. ASSUME OtpLive(u)'
        PROVE  IsFiniteSet(InHand(u)') /\ lookups'[u] + Cardinality(InHand(u)') <= Allowed(u)'
    <2>1. IsFiniteSet(InHand(u)) /\ lookups[u] + Cardinality(InHand(u)) <= Allowed(u)
      BY <1>2 DEF Rationed
    <2>2. IsFiniteSet(InHand(u)') /\ Cardinality(InHand(u)') <= Cardinality(InHand(u))
      BY <2>1, FS_Subset
    <2>3. Cardinality(InHand(u)) \in Nat /\ Cardinality(InHand(u)') \in Nat
      BY <2>1, <2>2, FS_CardinalityType
    <2>4. lookups[u] \in Nat /\ Allowed(u) \in Nat
      BY NumberFacts, AllowedFacts
    <2> QED BY <1>1, <2>1, <2>2, <2>3, <2>4
  <1>3. otp[u] = null => InHand(u)' = {}
    BY DEF Rationed
  <1> QED BY <1>2, <1>3 DEF Rationed

(* The calls of a request that leave the counters, the OTPs and the clock. *)
LEMMA QuietCalls ==
  ASSUME TypeOK, NEW r \in Request,
         \/ \E e \in Email : RegisterFind(r, e) \/ \E c \in Code : VerifyFind(r, e, c)
         \/ \E u \in User : CreateUser(r, u)
         \/ RegisterAudit(r) \/ MarkVerified(r) \/ PublishRegistered(r) \/ VerifyAudit(r)
         \/ InsertToken(r) \/ SetSession(r) \/ Abort(r)
  PROVE  UNCHANGED <<otp, attempts, lookups, uneven, now>> /\ pc'[r] \notin {"expire", "lookup"}
  BY DEF TypeOK, RegisterFind, VerifyFind, CreateUser, RegisterAudit, MarkVerified, PublishRegistered,
         VerifyAudit, InsertToken, SetSession, Abort, GoTo, Continue, End, store, hist

(* A request that is not about to guess has no guess in hand. *)
LEMMA InHandShrinks ==
  ASSUME NEW r \in Request, OnlyMoves(r), NEW u \in User,
         pc'[r] \notin {"expire", "lookup"} \/ frame'[r].usr # u
  PROVE  InHand(u)' \subseteq InHand(u)
  BY DEF InHand, OnlyMoves

(* No OTP lives longer than one that is written now. *)
NotLate == \A u \in User : otp[u] # null => otp[u].expiresAt <= now + OtpTtl

LEMMA NotLateStep == ASSUME Shape, NotLate, [Next]_vars PROVE NotLate'
  <1> USE DEF Shape, Types
  <1> SUFFICES ASSUME NEW u \in User, otp'[u] # null PROVE otp'[u].expiresAt <= now' + OtpTtl
    BY DEF NotLate
  <1>1. now \in Nat /\ now' \in Nat /\ now' >= now /\ OtpTtl \in Nat
    BY ClockAdvances, NumberFacts
  <1>2. otp \in [User -> OtpCode \union {null}]
    BY DEF TypeOK
  <1>3. ASSUME otp[u] # null, otp'[u].expiresAt = otp[u].expiresAt
        PROVE  otp'[u].expiresAt <= now' + OtpTtl
    <2>1. otp[u].expiresAt \in Nat /\ otp[u].expiresAt <= now + OtpTtl
      BY <1>3, OtpFacts DEF NotLate
    <2> QED BY <1>1, <1>3, <2>1
  <1>4. CASE otp'[u] = otp[u]
    BY <1>3, <1>4
  <1>5. ASSUME NEW r \in Request, UseOtp(r) PROVE otp'[u].expiresAt <= now' + OtpTtl
    <2>1. otp[u] # null
      BY <1>2, <1>5 DEF UseOtp, Fits
    <2>2. otp'[u] = otp[u] \/ otp'[u] = [otp[u] EXCEPT !.used = TRUE]
      BY <1>2, <1>5 DEF UseOtp
    <2>3. otp'[u].expiresAt = otp[u].expiresAt
      <3>1. otp[u] \in OtpCode
        BY <2>1, OtpFacts
      <3>2. [otp[u] EXCEPT !.used = TRUE].expiresAt = otp[u].expiresAt
        BY <3>1, OtpFields
      <3> QED BY <2>2, <3>2
    <2> QED BY <1>3, <2>1, <2>3
  <1>6. ASSUME NEW r \in Request, NEW c \in Code, CreateOtp(r, c), otp'[u] # otp[u]
        PROVE  otp'[u].expiresAt <= now' + OtpTtl
    <2>1. otp'[u] = [code |-> c, used |-> FALSE, expiresAt |-> now + OtpTtl]
      BY <1>2, <1>6 DEF CreateOtp
    <2>2. otp'[u].expiresAt = now + OtpTtl
      BY <2>1
    <2>3. now' = now /\ now + OtpTtl \in Nat
      BY <1>6, NumberFacts DEF CreateOtp
    <2> QED BY <2>2, <2>3
  <1> QED BY <1>4, <1>5, <1>6, OtpWriters

LEMMA QuietRations ==
  ASSUME Shape, Rations, NEW r \in Request, Moves(r),
         UNCHANGED <<otp, attempts, lookups, uneven, now>>, pc'[r] \notin {"expire", "lookup"},
         NEW u \in User \ uneven
  PROVE  Rationed(u)'
  <1>1. InHand(u)' \subseteq InHand(u)
    BY InHandShrinks DEF Moves
  <1>2. Rationed(u) /\ (OtpLive(u)' => OtpLive(u))
    BY DEF Rations, OtpLive
  <1> QED BY <1>1, <1>2, Undisturbed DEF Shape, Types

LEMMA CreateOtpRations ==
  ASSUME Shape, Rations, NEW r \in Request, NEW c \in Code, CreateOtp(r, c), NEW u \in User \ uneven'
  PROVE  Rationed(u)'
  <1> USE DEF Shape, Types
  <1>1. Moves(r)
    BY CreateOtpStep
  <1>2. /\ UNCHANGED <<attempts, lookups, uneven, now>> /\ pc'[r] = "registerAudit"
        /\ otp' = [otp EXCEPT ![frame[r].usr] = [code |-> c, used |-> FALSE, expiresAt |-> now + OtpTtl]]
        /\ frame[r].usr \in User /\ otp[frame[r].usr] = null
    BY ContinueTypes DEF CreateOtp, Call, hist, Fits
  <1>3. InHand(u)' \subseteq InHand(u) /\ Rationed(u)
    BY <1>1, <1>2, InHandShrinks DEF Moves, Rations
  <1>4. CASE u # frame[r].usr
    <2>1. otp'[u] = otp[u]
      BY <1>2, <1>4
    <2>2. OtpLive(u)' => OtpLive(u)
      BY <1>2, <2>1 DEF OtpLive
    <2> QED BY <1>2, <1>3, <2>1, <2>2, Undisturbed
  <1>5. CASE u = frame[r].usr
    <2>1. lookups[u] = 0 /\ attempts[u] = null /\ InHand(u)' = {}
      BY <1>2, <1>3, <1>5 DEF Rationed
    <2>2. Allowed(u)' = 0
      BY <1>2, <2>1 DEF Allowed
    <2>3. [code |-> c, used |-> FALSE, expiresAt |-> now + OtpTtl] \in OtpCode
      BY TimeTypes DEF OtpCode, TypeOK
    <2>4. otp'[u] # null
      BY <1>2, <1>5, <2>3 DEF TypeOK
    <2>5. IsFiniteSet(InHand(u)') /\ Cardinality(InHand(u)') = 0
      BY <2>1, FS_EmptySet
    <2> QED BY <1>2, <2>1, <2>2, <2>4, <2>5 DEF Rationed
  <1> QED BY <1>4, <1>5

(* Adding a request to those with a guess in hand, and taking one away. *)
LEMMA OneMoreInHand ==
  ASSUME NEW S, NEW T, NEW r, IsFiniteSet(S), r \notin S, T \subseteq S \union {r}
  PROVE  /\ IsFiniteSet(T) /\ Cardinality(T) <= Cardinality(S) + 1
         /\ Cardinality(S) \in Nat /\ Cardinality(T) \in Nat
  <1>1. IsFiniteSet(S \union {r}) /\ Cardinality(S \union {r}) = Cardinality(S) + 1
    BY FS_AddElement
  <1>2. IsFiniteSet(T) /\ Cardinality(T) <= Cardinality(S \union {r})
    BY <1>1, FS_Subset
  <1> QED BY <1>1, <1>2, FS_CardinalityType

LEMMA OneLessInHand ==
  ASSUME NEW S, NEW T, NEW r \in S, IsFiniteSet(S), T \subseteq S \ {r}
  PROVE  /\ IsFiniteSet(T) /\ Cardinality(T) + 1 <= Cardinality(S)
         /\ Cardinality(S) \in Nat /\ Cardinality(T) \in Nat
  <1>1. IsFiniteSet(S \ {r}) /\ Cardinality(S \ {r}) = Cardinality(S) - 1
    BY FS_RemoveElement
  <1>2. IsFiniteSet(T) /\ Cardinality(T) <= Cardinality(S \ {r})
    BY <1>1, FS_Subset
  <1>3. Cardinality(S) \in Nat /\ Cardinality(T) \in Nat
    BY <1>2, FS_CardinalityType
  <1> QED BY <1>1, <1>2, <1>3

(* incr: one more guess in hand for one more let through, or none for none.*)
LEMMA CountRations ==
  ASSUME Shape, Rations, NEW r \in Request, CountAttempt(r), NEW u \in User \ uneven'
  PROVE  Rationed(u)'
  <1> USE DEF Shape, Types
  <1> DEFINE v == frame[r].usr
             counter == IF attempts[v] = null THEN [count |-> 1, expiresAt |-> null]
                        ELSE [attempts[v] EXCEPT !.count = @ + 1]
  <1>1. /\ pc[r] = "incr" /\ v \in User /\ attempts' = [attempts EXCEPT ![v] = counter]
        /\ UNCHANGED <<otp, lookups, now>> /\ uneven \subseteq uneven'
    BY DEF CountAttempt, Fits, VerifyCall
  <1>2. Moves(r) /\ u \in User \ uneven
    BY <1>1, CountAttemptStep
  <1>3. Rationed(u) /\ (OtpLive(u)' <=> OtpLive(u))
    BY <1>1, <1>2 DEF Rations, OtpLive
  <1>4. \/ Continue(r, "expire") /\ counter.count = 1
        \/ Continue(r, "lookup") /\ counter.count <= MaxAttempts
        \/ End(r, "failed")
    <2>1. counter.count \in Nat /\ MaxAttempts \in Nat
      <3>1. CASE attempts[v] = null
        BY <3>1
      <3>2. CASE attempts[v] # null
        <4>1. attempts[v] \in Counter /\ attempts[v].count \in Nat
          BY <1>1, <3>2, CounterFacts
        <4> QED BY <3>2, <4>1 DEF Counter
      <3> QED BY <3>1, <3>2
    <2> HIDE DEF counter
    <2>2. \/ Continue(r, "expire") /\ counter.count = 1
          \/ Continue(r, "lookup") /\ ~(counter.count > MaxAttempts)
          \/ End(r, "failed")
      BY DEF CountAttempt, counter
    <2> QED BY <2>1, <2>2
  <1>5. /\ OnlyMoves(r) /\ frame \in [Request -> Frame]
        /\ frame'[r] = frame[r] \/ frame'[r] = NoFrame
        /\ pc'[r] = "expire" => counter.count = 1
        /\ pc'[r] = "lookup" => counter.count <= MaxAttempts
    <2> HIDE DEF counter
    <2> QED BY <1>2, <1>4 DEF Moves, Continue, End, GoTo, TypeOK
  <1>6. r \notin InHand(u) /\ InHand(u)' \subseteq InHand(u) \union {r}
    BY <1>1, <1>5 DEF InHand, OnlyMoves
  <1>7. CASE u # v
    <2>1. frame'[r].usr # u
      BY <1>5, <1>7 DEF NoFrame
    <2>2. InHand(u)' \subseteq InHand(u)
      BY <1>5, <2>1, InHandShrinks
    <2>3. attempts'[u] = attempts[u]
      BY <1>1, <1>7 DEF TypeOK
    <2> QED BY <1>1, <1>2, <1>3, <2>2, <2>3, Undisturbed
  <1>8. CASE u = v
    <2>1. otp[u] # null
      BY <1>8 DEF CountAttempt
    <2>2. attempts'[u] = counter
      BY <1>1, <1>8 DEF TypeOK
    <2>3. /\ counter # null /\ counter.count \in Nat
          /\ attempts[u] = null => counter.count = 1 /\ counter.expiresAt = null
          /\ attempts[u] # null => counter.count = attempts[u].count + 1 /\ counter.expiresAt = attempts[u].expiresAt
      <3>1. CASE attempts[u] = null
        <4>1. counter = [count |-> 1, expiresAt |-> null]
          BY <1>8, <3>1
        <4>2. [count |-> 1, expiresAt |-> null] \in Counter
          BY DEF Counter
        <4> QED BY <3>1, <4>1, <4>2
      <3>2. CASE attempts[u] # null
        <4>1. attempts[u] \in Counter /\ attempts[u].count \in Nat
          BY <3>2, CounterFacts
        <4>2. counter = [attempts[u] EXCEPT !.count = attempts[u].count + 1]
          BY <1>8, <3>2
        <4>3. counter \in Counter
          BY <4>1, <4>2 DEF Counter
        <4>4. counter.count = attempts[u].count + 1 /\ counter.expiresAt = attempts[u].expiresAt
          BY <4>1, <4>2 DEF Counter
        <4> QED BY <3>2, <4>1, <4>3, <4>4
      <3> QED BY <3>1, <3>2
    <2> HIDE DEF counter
    <2>4. MaxAttempts \in Nat /\ lookups[u] \in Nat
      BY NumberFacts
    <2>5. Allowed(u)' = IF counter.count <= MaxAttempts THEN counter.count ELSE MaxAttempts
      BY <2>2, <2>3 DEF Allowed
    <2>6. Allowed(u) <= Allowed(u)' /\ Allowed(u) \in Nat /\ Allowed(u)' \in Nat
      BY <2>3, <2>4, <2>5, CounterFacts DEF Allowed
    <2>7. pc'[r] = "lookup" \/ (pc'[r] = "expire" /\ MaxAttempts # 0) => Allowed(u) + 1 <= Allowed(u)'
      BY <1>5, <2>3, <2>4, <2>5, CounterFacts DEF Allowed
    <2>8. ASSUME OtpLive(u)'
          PROVE  IsFiniteSet(InHand(u)') /\ lookups'[u] + Cardinality(InHand(u)') <= Allowed(u)'
      <3>1. IsFiniteSet(InHand(u)) /\ lookups[u] + Cardinality(InHand(u)) <= Allowed(u)
        BY <1>3, <2>8 DEF Rationed
      <3>2. /\ IsFiniteSet(InHand(u)') /\ Cardinality(InHand(u)') <= Cardinality(InHand(u)) + 1
            /\ Cardinality(InHand(u)) \in Nat /\ Cardinality(InHand(u)') \in Nat
        BY <1>6, <3>1, OneMoreInHand
      <3>3. CASE r \in InHand(u)'
        <4>1. Allowed(u) + 1 <= Allowed(u)'
          BY <2>7, <3>3 DEF InHand
        <4> QED BY <1>1, <2>4, <2>6, <3>1, <3>2, <4>1
      <3>4. CASE r \notin InHand(u)'
        <4>1. InHand(u)' \subseteq InHand(u)
          BY <1>6, <3>4
        <4>2. Cardinality(InHand(u)') <= Cardinality(InHand(u))
          BY <3>1, <4>1, FS_Subset
        <4> QED BY <1>1, <2>4, <2>6, <3>1, <3>2, <4>2
      <3> QED BY <3>3, <3>4
    <2>9. attempts'[u].expiresAt # null => attempts'[u].expiresAt >= otp'[u].expiresAt
      BY <1>1, <1>3, <2>1, <2>2, <2>3 DEF Rationed
    <2> QED BY <1>1, <1>3, <2>1, <2>8, <2>9 DEF Rationed
  <1> QED BY <1>7, <1>8

(* expire: the counter now lasts at least as long as the OTP. *)
LEMMA ExpireRations ==
  ASSUME Shape, Rations, NotLate, NEW r \in Request, SetCounterTtl(r), NEW u \in User \ uneven'
  PROVE  Rationed(u)'
  <1> USE DEF Shape, Types
  <1> DEFINE v == frame[r].usr
  <1>1. /\ pc[r] = "expire" /\ v \in User
        /\ attempts' = IF attempts[v] = null THEN attempts
                       ELSE [attempts EXCEPT ![v].expiresAt = now + OtpTtl]
        /\ UNCHANGED <<otp, lookups, now, uneven>>
    BY DEF SetCounterTtl, Fits, VerifyCall, hist
  <1>2. OnlyMoves(r)
    BY SetCounterTtlStep DEF Moves
  <1>3. Rationed(u) /\ (OtpLive(u)' <=> OtpLive(u))
    BY <1>1 DEF Rations, OtpLive
  <1>4. /\ pc'[r] \in {"lookup", "failed"} /\ (pc'[r] = "lookup" => MaxAttempts # 0)
        /\ frame'[r] = frame[r] \/ frame'[r] = NoFrame
    BY NumberFacts DEF SetCounterTtl, Continue, End, GoTo, TypeOK
  <1>5. NoFrame.usr = null /\ u # null
    BY DEF NoFrame
  <1>6. InHand(u)' \subseteq InHand(u)
    BY <1>1, <1>2, <1>4, <1>5 DEF InHand, OnlyMoves
  <1>7. CASE attempts'[u] = attempts[u]
    BY <1>1, <1>3, <1>6, <1>7, Undisturbed
  <1>8. CASE u = v /\ attempts[u] # null
    <2>1. attempts[u] \in Counter /\ attempts[u].count \in Nat
      BY <1>8, CounterFacts
    <2>2. attempts'[u] = [attempts[u] EXCEPT !.expiresAt = now + OtpTtl]
      BY <1>1, <1>8 DEF TypeOK
    <2>3. now + OtpTtl \in Time
      BY TimeTypes DEF TypeOK
    <2>4. attempts'[u] # null /\ attempts'[u].count = attempts[u].count /\ attempts'[u].expiresAt = now + OtpTtl
      <3>1. [attempts[u] EXCEPT !.expiresAt = now + OtpTtl] \in Counter
        BY <2>1, <2>3 DEF Counter
      <3>2. /\ [attempts[u] EXCEPT !.expiresAt = now + OtpTtl].count = attempts[u].count
            /\ [attempts[u] EXCEPT !.expiresAt = now + OtpTtl].expiresAt = now + OtpTtl
        BY <2>1 DEF Counter
      <3> QED BY <2>2, <3>1, <3>2
    <2>5. Allowed(u)' = Allowed(u)
      BY <1>8, <2>4 DEF Allowed
    <2>6. otp'[u] # null => attempts'[u].expiresAt >= otp'[u].expiresAt
      <3> SUFFICES ASSUME otp[u] # null PROVE now + OtpTtl >= otp[u].expiresAt
        BY <1>1, <2>4
      <3>1. otp[u].expiresAt <= now + OtpTtl /\ otp[u].expiresAt \in Nat /\ now + OtpTtl \in Nat
        BY OtpFacts, NumberFacts DEF NotLate
      <3> QED BY <3>1
    <2>7. ASSUME OtpLive(u)'
          PROVE  IsFiniteSet(InHand(u)') /\ lookups'[u] + Cardinality(InHand(u)') <= Allowed(u)'
      <3>1. IsFiniteSet(InHand(u)) /\ lookups[u] + Cardinality(InHand(u)) <= Allowed(u)
        BY <1>3, <2>7 DEF Rationed
      <3>2. IsFiniteSet(InHand(u)') /\ Cardinality(InHand(u)') <= Cardinality(InHand(u))
        BY <1>6, <3>1, FS_Subset
      <3>3. Cardinality(InHand(u)) \in Nat /\ Cardinality(InHand(u)') \in Nat
        BY <3>1, <3>2, FS_CardinalityType
      <3>4. lookups[u] \in Nat /\ Allowed(u) \in Nat
        BY NumberFacts, AllowedFacts
      <3> QED BY <1>1, <2>5, <3>1, <3>2, <3>3, <3>4
    <2>8. otp[u] # null
      BY <1>3, <1>8 DEF Rationed
    <2> QED BY <1>1, <1>3, <2>6, <2>7, <2>8 DEF Rationed
  <1>9. attempts'[u] = attempts[u] \/ (u = v /\ attempts[u] # null)
    BY <1>1 DEF TypeOK
  <1> QED BY <1>7, <1>8, <1>9

(* findValidOtp: a guess in hand becomes a guess made. *)
LEMMA LookupRations ==
  ASSUME Shape, Rations, NEW r \in Request, FindOtp(r), NEW u \in User \ uneven'
  PROVE  Rationed(u)'
  <1> USE DEF Shape, Types
  <1> DEFINE v == frame[r].usr
  <1>1. /\ pc[r] = "lookup" /\ v \in User
        /\ lookups' = IF OtpLive(v) THEN [lookups EXCEPT ![v] = @ + 1] ELSE lookups
        /\ UNCHANGED <<otp, attempts, now, uneven>>
    BY DEF FindOtp, Fits, VerifyCall, store
  <1>2. OnlyMoves(r) /\ pc'[r] \notin {"expire", "lookup"}
    <2>1. OnlyMoves(r)
      BY FindOtpStep DEF Moves
    <2>2. pc'[r] \in {"useOtp", "failed"}
      BY DEF FindOtp, Continue, End, GoTo, TypeOK
    <2> QED BY <2>1, <2>2
  <1>3. Rationed(u) /\ (OtpLive(u)' <=> OtpLive(u))
    BY <1>1 DEF Rations, OtpLive
  <1>4. InHand(u)' \subseteq InHand(u) \ {r}
    BY <1>2 DEF InHand, OnlyMoves
  <1>5. CASE lookups'[u] = lookups[u]
    BY <1>1, <1>3, <1>4, <1>5, Undisturbed
  <1>6. CASE u = v /\ OtpLive(u)
    <2>1. lookups'[u] = lookups[u] + 1 /\ r \in InHand(u) /\ otp[u] # null
      BY <1>1, <1>6 DEF TypeOK, InHand, OtpLive
    <2>2. IsFiniteSet(InHand(u)) /\ lookups[u] + Cardinality(InHand(u)) <= Allowed(u)
      BY <1>3, <1>6 DEF Rationed
    <2>3. /\ IsFiniteSet(InHand(u)') /\ Cardinality(InHand(u)') + 1 <= Cardinality(InHand(u))
          /\ Cardinality(InHand(u)) \in Nat /\ Cardinality(InHand(u)') \in Nat
      BY <1>4, <2>1, <2>2, OneLessInHand
    <2>4. lookups[u] \in Nat /\ MaxAttempts \in Nat /\ Allowed(u) \in Nat /\ Allowed(u) <= MaxAttempts
      BY NumberFacts, AllowedFacts
    <2>5. Allowed(u)' = Allowed(u)
      BY <1>1 DEF Allowed
    <2>6. lookups'[u] + Cardinality(InHand(u)') <= Allowed(u)' /\ lookups'[u] <= MaxAttempts
      BY <2>1, <2>2, <2>3, <2>4, <2>5
    <2> QED BY <1>1, <1>3, <2>1, <2>3, <2>6 DEF Rationed
  <1>7. lookups'[u] = lookups[u] \/ (u = v /\ OtpLive(u))
    BY <1>1 DEF TypeOK
  <1> QED BY <1>5, <1>6, <1>7

(* useOtp and the deletion of the counter come when the OTP is over. *)
LEMMA RedeemRations ==
  ASSUME Shape, Rations, NEW r \in Request, UseOtp(r) \/ ClearAttempts(r), NEW u \in User \ uneven'
  PROVE  Rationed(u)'
  <1> USE DEF Shape, Types
  <1> DEFINE v == frame[r].usr
  <1>1. /\ v \in User /\ otp[v] # null
        /\ UNCHANGED <<lookups, uneven, now>>
        /\ UseOtp(r) => otp' = [otp EXCEPT ![v].used = TRUE] /\ attempts' = attempts
        /\ ClearAttempts(r) => otp' = otp /\ attempts' = [attempts EXCEPT ![v] = null] /\ otp[v].used
    BY DEF UseOtp, ClearAttempts, Fits, VerifyCall, Redeemed, hist
  <1>2. OnlyMoves(r)
    BY UseOtpStep, LateSteps DEF Moves
  <1>3. pc'[r] \notin {"expire", "lookup"}
    BY DEF UseOtp, ClearAttempts, Continue, GoTo, TypeOK
  <1>4. InHand(u)' \subseteq InHand(u) /\ Rationed(u)
    BY <1>1, <1>2, <1>3, InHandShrinks DEF Rations
  <1>5. CASE u # v
    <2>1. otp'[u] = otp[u] /\ attempts'[u] = attempts[u]
      BY <1>1, <1>5 DEF TypeOK
    <2>2. OtpLive(u)' => OtpLive(u)
      BY <1>1, <2>1 DEF OtpLive
    <2> QED BY <1>1, <1>4, <2>1, <2>2, Undisturbed
  <1>6. CASE u = v
    <2>1. otp[u] \in OtpCode
      BY <1>1, <1>6, OtpFacts
    <2>2. /\ [otp[u] EXCEPT !.used = TRUE] # null /\ [otp[u] EXCEPT !.used = TRUE].used
          /\ [otp[u] EXCEPT !.used = TRUE].expiresAt = otp[u].expiresAt
      BY <2>1, OtpFields
    <2>3. CASE UseOtp(r)
      <3>1. otp'[u] = [otp[u] EXCEPT !.used = TRUE] /\ attempts' = attempts
        BY <1>1, <1>6, <2>3 DEF TypeOK
      <3>2. otp'[u] # null /\ ~OtpLive(u)' /\ otp'[u].expiresAt = otp[u].expiresAt
        BY <2>2, <3>1 DEF OtpLive
      <3> QED BY <1>1, <1>4, <1>6, <3>1, <3>2 DEF Rationed
    <2>4. CASE ClearAttempts(r)
      <3>1. otp'[u] # null /\ ~OtpLive(u)' /\ attempts'[u] = null
        BY <1>1, <1>6, <2>4 DEF OtpLive, TypeOK
      <3> QED BY <1>1, <1>4, <3>1 DEF Rationed
    <2> QED BY <2>3, <2>4
  <1> QED BY <1>5, <1>6

(* The clock takes a counter away only when the OTP is over, too. *)
LEMMA TickRations ==
  ASSUME Shape, Rations, Tick, NEW u \in User \ uneven'
  PROVE  Rationed(u)'
  <1> USE DEF Shape, Types
  <1>1. /\ UNCHANGED <<otp, lookups, uneven, pc, frame>> /\ now' = now + 1 /\ now \in Nat
        /\ attempts' = [w \in User |->
             IF attempts[w] # null /\ attempts[w].expiresAt # null /\ attempts[w].expiresAt <= now'
             THEN null ELSE attempts[w]]
    BY NumberFacts DEF Tick, hist
  <1>2. Rationed(u) /\ InHand(u)' = InHand(u)
    BY <1>1 DEF Rations, InHand
  <1>3. OtpLive(u)' => OtpLive(u)
    <2> SUFFICES ASSUME otp[u] # null, otp[u].expiresAt > now' PROVE otp[u].expiresAt > now
      BY <1>1 DEF OtpLive
    <2>1. otp[u].expiresAt \in Nat
      BY OtpFacts
    <2> QED BY <1>1, <2>1
  <1>4. CASE attempts'[u] = attempts[u]
    BY <1>1, <1>2, <1>3, <1>4, Undisturbed
  <1>5. CASE attempts[u] # null /\ attempts[u].expiresAt # null /\ attempts[u].expiresAt <= now'
    <2>1. otp[u] # null /\ attempts[u].expiresAt >= otp[u].expiresAt
      BY <1>2, <1>5 DEF Rationed
    <2>2. attempts[u].expiresAt \in Nat /\ otp[u].expiresAt \in Nat
      BY <1>5, <2>1, CounterFacts, OtpFacts
    <2>3. ~(otp[u].expiresAt > now')
      BY <1>1, <1>5, <2>1, <2>2
    <2>4. ~OtpLive(u)' /\ attempts'[u] = null
      BY <1>1, <1>5, <2>3 DEF OtpLive
    <2> QED BY <1>1, <1>2, <2>1, <2>4 DEF Rationed
  <1> QED BY <1>1, <1>4, <1>5

LEMMA RationsStep == ASSUME Shape, Rations, NotLate, [Next]_vars PROVE Rations'
  <1> USE DEF Shape, Types
  <1> SUFFICES ASSUME NEW u \in User \ uneven' PROVE Rationed(u)'
    BY DEF Rations
  <1>1. ASSUME NEW r \in Request, UNCHANGED <<otp, attempts, lookups, uneven, now>>,
               pc'[r] \notin {"expire", "lookup"}, Register(r) \/ VerifyOtp(r) \/ Abort(r)
        PROVE  Rationed(u)'
    <2>1. Moves(r)
      BY <1>1, RequestStep
    <2> QED BY <1>1, <2>1, QuietRations
  <1>2. ASSUME NEW r \in Request, Register(r) \/ VerifyOtp(r) \/ Abort(r) PROVE Rationed(u)'
    <2>1. CASE \E c \in Code : CreateOtp(r, c)
      BY <2>1, CreateOtpRations
    <2>2. CASE CountAttempt(r)
      BY <2>2, CountRations
    <2>3. CASE SetCounterTtl(r)
      BY <2>3, ExpireRations
    <2>4. CASE FindOtp(r)
      BY <2>4, LookupRations
    <2>5. CASE UseOtp(r) \/ ClearAttempts(r)
      BY <2>5, RedeemRations
    <2> QED BY <1>1, <1>2, <2>1, <2>2, <2>3, <2>4, <2>5, QuietCalls DEF Register, VerifyOtp
  <1>3. ASSUME UNCHANGED <<otp, pc, frame, lookups, now>>, attempts'[u] = attempts[u], u \notin uneven
        PROVE  Rationed(u)'
    <2>1. InHand(u)' = InHand(u) /\ Rationed(u) /\ (OtpLive(u)' => OtpLive(u))
      BY <1>3 DEF InHand, Rations, OtpLive
    <2> QED BY <1>3, <2>1, Undisturbed
  <1>4. ASSUME NEW v \in User, SoftDelete(v) PROVE Rationed(u)'
    BY <1>3, <1>4 DEF SoftDelete, hist
  <1>5. ASSUME NEW v \in User, Evict(v) PROVE Rationed(u)'
    <2>1. u # v /\ u \notin uneven
      BY <1>5 DEF Evict
    <2>2. attempts'[u] = attempts[u]
      BY <1>5, <2>1 DEF Evict, TypeOK
    <2> QED BY <1>3, <1>5, <2>1, <2>2 DEF Evict
  <1>6. CASE UNCHANGED vars
    BY <1>3, <1>6 DEF vars, store, hist
  <1> QED BY <1>2, <1>4, <1>5, <1>6, TickRations DEF Next, Environment

-----------------------------------------------------------------------------
(* Every step is a step of AccountLifecycle *)

stages == [u \in User |-> StageOf(u)]
accounts == <<stages, published, Holders>>

(* A request inserts at most one token, and then only the session is left. *)
OneToken == \A r \in Request : token[r] # null => pc[r] \in {"session"} \union Over

LEMMA OneTokenStep == ASSUME Shape, OneToken, [Next]_vars PROVE OneToken'
  <1> USE DEF Shape, Types
  <1> SUFFICES ASSUME NEW r \in Request, token'[r] # null PROVE pc'[r] \in {"session"} \union Over
    BY DEF OneToken
  <1>1. pc \in [Request -> Call] /\ token \in [Request -> User \union {null}]
    BY DEF TypeOK
  <1>2. CASE InsertToken(r)
    BY <1>1, <1>2 DEF InsertToken, Continue, GoTo
  <1>3. ASSUME NEW q \in Request \ {r}, InsertToken(q) PROVE token'[r] = token[r]
    BY <1>1, <1>3 DEF InsertToken
  <1>4. CASE token'[r] = token[r]
    <2>1. pc[r] \in {"session"} \union Over
      BY <1>4 DEF OneToken
    <2>2. ASSUME NEW q \in Request \ {r}, Register(q) \/ VerifyOtp(q) \/ Abort(q) PROVE pc'[r] = pc[r]
      BY <2>2, RequestStep DEF Moves, OnlyMoves
    <2>3. CASE SetSession(r)
      BY <1>1, <2>3 DEF SetSession, End, GoTo, Over
    <2>4. CASE Abort(r)
      BY <1>1, <2>4 DEF Abort, End, GoTo, Over
    <2>5. ASSUME Register(r) \/ VerifyOtp(r), ~SetSession(r) PROVE FALSE
      BY <2>1, <2>5 DEF Register, VerifyOtp, RegisterFind, CreateUser, CreateOtp, RegisterAudit,
         VerifyFind, CountAttempt, SetCounterTtl, FindOtp, UseOtp, MarkVerified, ClearAttempts,
         PublishRegistered, VerifyAudit, InsertToken, Over
    <2>6. Environment => pc' = pc
      BY EnvironmentStep
    <2>7. UNCHANGED vars => pc' = pc
      BY DEF vars
    <2> QED BY <2>1, <2>2, <2>3, <2>4, <2>5, <2>6, <2>7 DEF Next
  <1> QED BY <1>2, <1>3, <1>4, TrailWriters

(* The stages are told apart by the row and by Stuck. *)
LEMMA StageFacts ==
  ASSUME NEW u \in User
  PROVE  /\ stages[u] = StageOf(u) /\ stages'[u] = StageOf(u)'
         /\ StageOf(u) = "absent" <=> account[u] = null
         /\ StageOf(u) = "verified" <=> account[u] # null /\ account[u].verified
         /\ StageOf(u) = "stuck" <=> Stuck(u)
         /\ StageOf(u)' = "absent" <=> account'[u] = null
         /\ StageOf(u)' = "verified" <=> account'[u] # null /\ account'[u].verified
         /\ StageOf(u)' = "stuck" <=> Stuck(u)'
         /\ StageOf(u) \in {"absent", "verified", "stuck", "pending"}
         /\ StageOf(u)' \in {"absent", "verified", "stuck", "pending"}
  BY DEF stages, StageOf, Stuck

(* A request that is at none of the calls of Door, before and after.       *)
LEMMA OutsideDoor ==
  ASSUME NEW r \in Request, OnlyMoves(r), UNCHANGED <<otp, now>>,
         NEW u \in User, account'[u] = account[u],
         pc[r] \notin Door \/ frame[r].usr # u, pc'[r] \notin Door \/ frame'[r].usr # u
  PROVE  StageOf(u)' = StageOf(u)
  <1>1. OtpLive(u)' <=> OtpLive(u)
    BY DEF OtpLive
  <1>2. (\A q \in Request : frame'[q].usr = u => pc'[q] \notin Door)
        <=> (\A q \in Request : frame[q].usr = u => pc[q] \notin Door)
    BY DEF OnlyMoves
  <1>3. Stuck(u)' <=> Stuck(u)
    BY <1>1, <1>2 DEF Stuck, Door
  <1> QED BY <1>3 DEF StageOf

LEMMA SameStages ==
  ASSUME \A u \in User : StageOf(u)' = StageOf(u)
  PROVE  stages' = stages
  BY DEF stages

(* No row appears and none is verified: accounts may only get stuck. *)
LEMMA OnlyGivesUp ==
  ASSUME Shape, [Next]_vars, UNCHANGED <<published, Holders>>,
         \A u \in User : /\ account'[u] = null <=> account[u] = null
                         /\ account[u] # null => account'[u].verified = account[u].verified
  PROVE  Lifecycle!Next
  <1> DEFINE lost == {u \in User : StageOf(u) = "pending" /\ StageOf(u)' = "stuck"}
  <1>1. ASSUME NEW u \in User
        PROVE  StageOf(u)' = IF u \in lost THEN "stuck" ELSE StageOf(u)
    <2>1. Stuck(u) => Stuck(u)'
      BY StuckStep
    <2>2. StageOf(u) = "absent" <=> StageOf(u)' = "absent"
      BY StageFacts
    <2>3. StageOf(u) = "verified" <=> StageOf(u)' = "verified"
      BY StageFacts
    <2>4. StageOf(u) = "stuck" => StageOf(u)' = "stuck"
      BY <2>1, StageFacts
    <2> QED BY <2>2, <2>3, <2>4, StageFacts
  <1>2. \A u \in lost : stages[u] = "pending"
    BY StageFacts
  <1>3. stages' = [u \in User |-> IF u \in lost THEN "stuck" ELSE stages[u]]
    BY <1>1 DEF stages
  <1>4. lost \in SUBSET User
    OBVIOUS
  <1> HIDE DEF lost
  <1>5. Lifecycle!GiveUp(lost)
    BY <1>2, <1>3 DEF Lifecycle!GiveUp, stages
  <1> QED BY <1>4, <1>5 DEF Lifecycle!Next

(* createUser, when it is not rejected: the other rows stay as they are. *)
LEMMA CreatesAccount ==
  ASSUME Shape, [Next]_vars, NEW r \in Request, NEW u \in User, CreateUser(r, u), account' # account
  PROVE  Lifecycle!Next
  <1> USE DEF Shape, Types
  <1>1. /\ pc[r] = "createUser" /\ account[u] = null /\ UNCHANGED <<otp, now, published, token>>
        /\ account' = [account EXCEPT ![u] =
                         [email |-> frame[r].email, verified |-> FALSE, deleted |-> FALSE]]
        /\ GoTo(r, "createOtp", [frame[r] EXCEPT !.usr = u])
    BY DEF CreateUser, outside
  <1>2. OnlyMoves(r) /\ Moves(r) /\ frame[r] \in Frame /\ pc'[r] = "createOtp"
    BY <1>1, CreateUserStep DEF Moves, GoTo, TypeOK
  <1>3. frame'[r].usr = u
    <2>1. frame'[r] = [frame[r] EXCEPT !.usr = u]
      BY <1>1 DEF GoTo, TypeOK
    <2> QED BY <1>2, <2>1 DEF Frame
  <1>4. \A v \in User \ {u} : StageOf(v)' = StageOf(v)
    <2> SUFFICES ASSUME NEW v \in User \ {u} PROVE StageOf(v)' = StageOf(v)
      OBVIOUS
    <2>1. account'[v] = account[v] /\ pc[r] \notin Door /\ frame'[r].usr # v
      BY <1>1, <1>3 DEF TypeOK, Door
    <2> QED BY <1>1, <1>2, <2>1, OutsideDoor
  <1>5. StageOf(u) = "absent"
    BY <1>1 DEF StageOf
  <1>6. StageOf(u)' = "pending"
    <2>1. account'[u] # null /\ ~account'[u].verified
      <3>1. account'[u] = [email |-> frame[r].email, verified |-> FALSE, deleted |-> FALSE]
        BY <1>1 DEF TypeOK
      <3>2. frame[r].email \in Email
        BY <1>1 DEF Fits
      <3>3. account'[u] \in Account
        BY <3>1, <3>2 DEF Account
      <3>4. account'[u].verified = FALSE
        BY <3>1
      <3> QED BY <3>3, <3>4
    <2>2. ~Stuck(u)'
      BY <1>2, <1>3 DEF Stuck
    <2> QED BY <2>1, <2>2 DEF StageOf
  <1>7. stages[u] = "absent" /\ stages' = [stages EXCEPT ![u] = "pending"]
    BY <1>4, <1>5, <1>6 DEF stages
  <1>8. UNCHANGED <<published, Holders>>
    BY <1>1 DEF Holders
  <1>9. Lifecycle!Create(u)
    BY <1>7, <1>8 DEF Lifecycle!Create, stages
  <1> QED BY <1>9 DEF Lifecycle!Next

(* markVerified, also by the second of two requests that hold the OTP. *)
LEMMA VerifiesAccount ==
  ASSUME Shape, [Next]_vars, NEW r \in Request, MarkVerified(r), NEW u, u = frame[r].usr
  PROVE  [Lifecycle!Next]_accounts
  <1> USE DEF Shape, Types
  <1>1. /\ pc[r] = "markVerified" /\ u \in User /\ account[u] # null
        /\ account' = [account EXCEPT ![u].verified = TRUE]
        /\ UNCHANGED <<otp, now, published, token>>
    BY DEF MarkVerified, Fits, VerifyCall, outside
  <1>2. OnlyMoves(r) /\ pc'[r] = "delAttempts" /\ frame'[r] = frame[r]
    BY ContinueTypes DEF MarkVerified, Call
  <1>3. \A v \in User \ {u} : StageOf(v)' = StageOf(v)
    <2> SUFFICES ASSUME NEW v \in User \ {u} PROVE StageOf(v)' = StageOf(v)
      OBVIOUS
    <2>1. account'[v] = account[v]
      BY <1>1 DEF TypeOK
    <2>2. pc'[r] \notin Door /\ frame[r].usr # v
      BY <1>2 DEF Door
    <2> QED BY <1>1, <1>2, <2>1, <2>2, OutsideDoor
  <1>4. StageOf(u)' = "verified"
    <2>1. account[u] \in Account /\ account'[u] = [account[u] EXCEPT !.verified = TRUE]
      BY <1>1 DEF TypeOK
    <2>2. /\ [account[u] EXCEPT !.verified = TRUE] # null
          /\ [account[u] EXCEPT !.verified = TRUE].verified
      BY <2>1, AccountFields
    <2>3. account'[u] # null /\ account'[u].verified
      BY <2>1, <2>2
    <2> QED BY <2>3 DEF StageOf
  <1>5. StageOf(u) \in {"verified", "pending"}
    <2>1. ~Stuck(u)
      BY <1>1 DEF Stuck
    <2> QED BY <1>1, <2>1, StageFacts
  <1>6. stages' = [stages EXCEPT ![u] = "verified"]
    BY <1>3, <1>4 DEF stages
  <1>7. UNCHANGED <<published, Holders>>
    BY <1>1 DEF Holders
  <1>8. CASE StageOf(u) = "verified"
    <2>1. \A v \in User : StageOf(v)' = StageOf(v)
      BY <1>3, <1>4, <1>8
    <2>2. stages' = stages
      BY <2>1, SameStages
    <2> QED BY <1>7, <2>2 DEF accounts
  <1>9. CASE StageOf(u) = "pending"
    <2>1. stages[u] = "pending"
      BY <1>1, <1>9, StageFacts
    <2>2. Lifecycle!Verify(u)
      BY <1>6, <1>7, <2>1 DEF Lifecycle!Verify, stages
    <2> QED BY <1>1, <2>2 DEF Lifecycle!Next
  <1> QED BY <1>5, <1>8, <1>9

LEMMA AnnouncesAccount ==
  ASSUME Shape, [Next]_vars, NEW r \in Request, PublishRegistered(r)
  PROVE  [Lifecycle!Next]_accounts
  <1> USE DEF Shape, Types
  <1> DEFINE u == frame[r].usr
  <1>1. /\ pc[r] = "publish" /\ u \in User /\ account[u] # null /\ account[u].verified
        /\ UNCHANGED <<account, otp, now, token>>
        /\ published' \in {published, published \union {u}}
    BY DEF PublishRegistered, Fits, VerifyCall, Activated, Redeemed, store
  <1>2. pc'[r] \notin Door
    BY DEF PublishRegistered, Continue, End, GoTo, Door, TypeOK
  <1>3. OnlyMoves(r)
    BY LateSteps DEF Moves
  <1>4. \A v \in User : StageOf(v)' = StageOf(v)
    BY <1>1, <1>2, <1>3, OutsideDoor DEF Door
  <1>5. stages' = stages /\ Holders' = Holders
    BY <1>1, <1>4, SameStages DEF Holders
  <1>6. stages[u] = "verified"
    BY <1>1 DEF stages, StageOf
  <1> HIDE DEF u
  <1>7. CASE published' = published \union {u}
    <2>1. Lifecycle!Announce(u)
      BY <1>5, <1>6, <1>7 DEF Lifecycle!Announce, stages
    <2> QED BY <1>1, <2>1 DEF Lifecycle!Next
  <1> QED BY <1>1, <1>5, <1>7 DEF accounts

LEMMA IssuesToken ==
  ASSUME Shape, OneToken, [Next]_vars, NEW r \in Request, InsertToken(r)
  PROVE  Lifecycle!Next
  <1> USE DEF Shape, Types
  <1> DEFINE u == frame[r].usr
  <1>1. /\ pc[r] = "insert" /\ u \in User /\ u \in published
        /\ UNCHANGED <<account, otp, now, published>>
        /\ token' = [token EXCEPT ![r] = u]
    BY DEF InsertToken, Fits, VerifyCall, store
  <1>2. pc'[r] = "session"
    BY DEF InsertToken, Continue, GoTo, TypeOK
  <1>3. OnlyMoves(r)
    BY LateSteps DEF Moves
  <1>4. stages' = stages
    <2>1. \A v \in User : StageOf(v)' = StageOf(v)
      BY <1>1, <1>2, <1>3, OutsideDoor DEF Door
    <2> QED BY <2>1, SameStages
  <1>5. token[r] = null
    BY <1>1 DEF OneToken, Over
  <1>6. Holders' = Holders \union {u}
    <2>1. token'[r] = u /\ u # null /\ \A q \in Request \ {r} : token'[q] = token[q]
      BY <1>1 DEF TypeOK
    <2> HIDE DEF u
    <2> QED BY <1>5, <2>1 DEF Holders
  <1> HIDE DEF u
  <1>7. Lifecycle!Issue(u)
    BY <1>1, <1>4, <1>6 DEF Lifecycle!Issue, stages
  <1> QED BY <1>1, <1>7 DEF Lifecycle!Next

LEMMA StepLifecycle == ASSUME Shape, OneToken, [Next]_vars PROVE [Lifecycle!Next]_accounts
  <1> USE DEF Shape, Types
  <1>1. ASSUME NEW r \in Request, NEW u \in User, CreateUser(r, u), account' # account
        PROVE  [Lifecycle!Next]_accounts
    BY <1>1, CreatesAccount
  <1>2. CASE \E r \in Request : MarkVerified(r)
    BY <1>2, VerifiesAccount
  <1>3. CASE \E r \in Request : PublishRegistered(r)
    BY <1>3, AnnouncesAccount
  <1>4. CASE \E r \in Request : InsertToken(r)
    BY <1>4, IssuesToken
  <1>5. ASSUME ~\E r \in Request : PublishRegistered(r) \/ InsertToken(r)
        PROVE  UNCHANGED <<published, Holders>>
    BY <1>5, TrailWriters DEF Holders
  <1>6. ASSUME NEW v \in User, SoftDelete(v), UNCHANGED <<published, Holders>>
        PROVE  Lifecycle!Next
    <2>1. account[v] \in Account /\ account \in [User -> Account \union {null}]
      BY <1>6 DEF SoftDelete, TypeOK
    <2>2. /\ account'[v] = [account[v] EXCEPT !.deleted = TRUE]
          /\ \A u \in User \ {v} : account'[u] = account[u]
      BY <1>6, <2>1 DEF SoftDelete
    <2>3. /\ [account[v] EXCEPT !.deleted = TRUE] # null
          /\ [account[v] EXCEPT !.deleted = TRUE].verified = account[v].verified
      BY <2>1, AccountFields
    <2>4. \A u \in User : /\ account'[u] = null <=> account[u] = null
                          /\ account[u] # null => account'[u].verified = account[u].verified
      BY <2>1, <2>2, <2>3
    <2> QED BY <1>6, <2>4, OnlyGivesUp
  <1>7. ASSUME UNCHANGED <<account, published, Holders>> PROVE Lifecycle!Next
    BY <1>7, OnlyGivesUp
  <1> QED BY <1>1, <1>2, <1>3, <1>4, <1>5, <1>6, <1>7, AccountWriters

-----------------------------------------------------------------------------
(* Theorems *)

IInv == Shape /\ OneAccountPerEmail /\ Trail /\ NotLate /\ Rations

LEMMA Inductive == Spec => []IInv
  <1>1. Init => IInv
    <2>1. Init => OneAccountPerEmail /\ Trail /\ NotLate
      BY DEF Init, OneAccountPerEmail, Registered, Trail, VerificationTrail, NotLate
    <2>2. Init => Rations
      BY FS_EmptySet DEF Init, Rations, Rationed, InHand, OtpLive
    <2> QED BY <2>1, <2>2, InitShape DEF IInv
  <1>2. IInv /\ [Next]_vars => IInv'
    BY ShapeStep, OneAccountStep, TrailStep, NotLateStep, RationsStep DEF IInv
  <1> QED BY <1>1, <1>2, PTL DEF Spec

(* Tables, counters, clock and requests have their types. *)
THEOREM TypeCorrect == Spec => []TypeOK
  <1>1. IInv => TypeOK
    BY DEF IInv, Shape, Types
  <1> QED BY <1>1, Inductive, PTL

(* However many register at once: the look-up of auth.service.ts:34 may be *)
(* stale when createUser is called, the unique index is what keeps one     *)
(* account per email.                                                      *)
THEOREM OneAccount == Spec => []OneAccountPerEmail
  <1>1. IInv => OneAccountPerEmail
    BY DEF IInv
  <1> QED BY <1>1, Inductive, PTL

(* A crash or an overtaking request leaves a prefix of verifyOtp's writes: *)
(* OTP used, verified, published, audited, logged in                      *)
(* (auth.service.ts:62-74).                                                *)
THEOREM TrailHolds == Spec => []VerificationTrail
  <1>1. IInv => VerificationTrail
    BY DEF IInv, Trail
  <1> QED BY <1>1, Inductive, PTL

(* For any number of requests, attempts and ticks: the attempts counter    *)
(* (auth.service.ts:55-57) lets through at most OTP_MAX_ATTEMPTS guesses   *)
(* at a live OTP, unless Redis evicts it or it started before the OTP.     *)
THEOREM GuessesBounded == Spec => []GuessBound
  <1>1. IInv => GuessBound
    BY DEF IInv, Rations, Rationed, GuessBound
  <1> QED BY <1>1, Inductive, PTL

(* An account whose OTP can no longer be redeemed is never verified: no    *)
(* other code path writes an OTP or the flag.                              *)
THEOREM StuckForGood == Spec => UnverifiableStaysUnverified
  <1>1. IInv /\ [Next]_vars => [\A u \in User : Stuck(u) => Stuck(u)']_vars
    BY StuckStep DEF IInv
  <1> QED BY <1>1, Inductive, PTL DEF Spec, UnverifiableStaysUnverified

(* Whatever the requests, crashes and clock do: an id is taken once, a     *)
(* verified account stays verified, one whose code ran out is never        *)
(* announced (auth.service.ts:66) and never gets a token (:74).            *)
THEOREM AccountRefinement == Spec => AccountsLive
  <1>1. Init => Lifecycle!Init
    BY DEF Init, Lifecycle!Init, StageOf, Holders
  <1>2. Init => OneToken
    BY DEF Init, OneToken
  <1>3. IInv /\ OneToken /\ [Next]_vars => OneToken' /\ [Lifecycle!Next]_accounts
    BY OneTokenStep, StepLifecycle DEF IInv
  <1> QED
    BY <1>1, <1>2, <1>3, Inductive, PTL
    DEF Spec, AccountsLive, Lifecycle!Spec, Lifecycle!lifecycle, accounts, stages
=============================================================================
