---------------------------- MODULE Registration ----------------------------
(***************************************************************************)
(* Accounts coming into being: register and verifyOtp of auth.service.ts,  *)
(* over the User and OtpCode tables, the attempts counter in Redis with    *)
(* its time to live, and the user.registered event.  One step per awaited  *)
(* call, as in Sessions; a request may die between any two.                *)
(*                                                                         *)
(* An account has the one OTP that its register request creates: no other  *)
(* code calls createOtp.  Time is a clock of bounded length, because how   *)
(* long the counter outlives the OTP is what bounds the guesses.  A phone  *)
(* number in use fails createUser like any rejected call (Abort).          *)
(***************************************************************************)
EXTENDS Naturals

CONSTANTS
  Email,         \* addresses people register
  User,          \* ids uuid() can give a User row
  Code,          \* six-digit codes
  Request,       \* the HTTP requests the service receives
  OtpTtl,        \* OTP_TTL_MIN, in ticks of the clock
  MaxAttempts,   \* OTP_MAX_ATTEMPTS
  StreamExists,  \* some JetStream stream stores user.registered
  MaxTime,       \* bound: the clock stops here
  null           \* no row, no key, no argument

ASSUME TimeAssumption ==
  OtpTtl \in Nat \ {0} /\ MaxAttempts \in Nat /\ MaxTime \in Nat /\ StreamExists \in BOOLEAN

Time == 0..(MaxTime + OtpTtl)

Account == [email : Email, verified : BOOLEAN, deleted : BOOLEAN]
OtpCode == [code : Code, used : BOOLEAN, expiresAt : Time]
(* The counter in Redis; a key without a time to live has expiresAt null. *)
Counter == [count : Nat, expiresAt : Time \union {null}]

ASSUME NullAssumption ==
  null \notin Email \union User \union Code \union Account \union OtpCode \union Counter \union Time

Event == {"USER_REGISTERED", "EMAIL_VERIFIED"}

VARIABLES
  account,     \* account[u]: the User row with id u, or null
  otp,         \* otp[u]: the OtpCode row of user u, or null
  attempts,    \* attempts[u]: the Redis key otp_attempts of user u, or null
  audit,       \* <<user, event>> pairs in the AuditLog
  published,   \* users whose user.registered event is stored
  token,       \* token[r]: the user of the refresh token request r inserted, or null
  session,     \* users with a session key in Redis
  now,         \* the clock
  pc, frame,   \* next call and local variables of each request
  lookups,     \* history: lookups[u], findValidOtp calls while u's OTP was live
  uneven       \* history: users whose counter started before their OTP, or was evicted

store   == <<account, otp, attempts, audit>>
outside == <<published, token, session>>
hist    == <<lookups, uneven>>
vars    == <<store, outside, now, pc, frame, hist>>

Frame   == [usr : User \union {null}, email : Email \union {null}, code : Code \union {null}]
NoFrame == [usr |-> null, email |-> null, code |-> null]

Call == {"new", "createUser", "createOtp", "registerAudit",
         "incr", "expire", "lookup", "useOtp", "markVerified", "delAttempts",
         "publish", "verifyAudit", "insert", "session",
         "done", "conflict", "failed", "duplicate"}

(* done: 2xx, conflict: 409, duplicate: 500 for a broken unique index,     *)
(* failed: any other error.                                                *)
Over == {"done", "conflict", "failed", "duplicate"}

TypeOK ==
  /\ account \in [User -> Account \union {null}]
  /\ otp \in [User -> OtpCode \union {null}]
  /\ attempts \in [User -> Counter \union {null}]
  /\ audit \subseteq User \X Event
  /\ published \subseteq User
  /\ token \in [Request -> User \union {null}]
  /\ session \subseteq User
  /\ now \in 0..MaxTime
  /\ pc \in [Request -> Call]
  /\ frame \in [Request -> Frame]
  /\ lookups \in [User -> Nat]
  /\ uneven \subseteq User

Init ==
  /\ account = [u \in User |-> null]
  /\ otp = [u \in User |-> null]
  /\ attempts = [u \in User |-> null]
  /\ audit = {} /\ published = {} /\ session = {}
  /\ token = [r \in Request |-> null]
  /\ now = 0
  /\ pc = [r \in Request |-> "new"]
  /\ frame = [r \in Request |-> NoFrame]
  /\ lookups = [u \in User |-> 0]
  /\ uneven = {}

-----------------------------------------------------------------------------
GoTo(r, next, locals) ==
  /\ pc' = [pc EXCEPT ![r] = next]
  /\ frame' = [frame EXCEPT ![r] = locals]

Continue(r, next) == GoTo(r, next, frame[r])

End(r, outcome) == GoTo(r, outcome, NoFrame)

(* createAuditLog *)
Log(u, e) == audit' = audit \union {<<u, e>>}

Registered(u, e) == account[u] # null /\ account[u].email = e

(* findUserByEmail *)
Live(u, e) == Registered(u, e) /\ ~account[u].deleted

(* The OTP can still be redeemed: the usedAt and expiresAt clauses of      *)
(* findValidOtp.                                                           *)
OtpLive(u) == otp[u] # null /\ ~otp[u].used /\ otp[u].expiresAt > now

-----------------------------------------------------------------------------
(* register *)

RegisterFind(r, e) ==
  /\ pc[r] = "new"
  /\ IF \E u \in User : Live(u, e)
     THEN End(r, "conflict")
     ELSE GoTo(r, "createUser", [NoFrame EXCEPT !.email = e])
  /\ UNCHANGED <<store, outside, now, hist>>

(* mutant: the email index is not unique *)
CreateUserNoIndex(r, u) ==
  /\ pc[r] = "createUser"
  /\ account[u] = null
  /\ account' = [account EXCEPT ![u] =
                    [email |-> frame[r].email, verified |-> FALSE, deleted |-> FALSE]]
  /\ GoTo(r, "createOtp", [frame[r] EXCEPT !.usr = u])
  /\ UNCHANGED <<otp, attempts, audit, outside, now, hist>>

(* createUser, after the password is hashed: the unique index on the email *)
(* covers deleted rows, too; breaking it rejects the call.                 *)
CreateUser(r, u) ==
  /\ pc[r] = "createUser"
  /\ account[u] = null
  /\ LET e == frame[r].email IN
       IF \E v \in User : Registered(v, e)
       THEN End(r, "duplicate") /\ UNCHANGED account
       ELSE /\ account' = [account EXCEPT ![u] =
                             [email |-> e, verified |-> FALSE, deleted |-> FALSE]]
            /\ GoTo(r, "createOtp", [frame[r] EXCEPT !.usr = u])
  /\ UNCHANGED <<otp, attempts, audit, outside, now, hist>>

(* mutant: the time to live is taken in seconds where minutes are meant *)
CreateOtpSeconds(r, c) ==
  /\ pc[r] = "createOtp"
  /\ otp' = [otp EXCEPT ![frame[r].usr] =
               [code |-> c, used |-> FALSE, expiresAt |-> now + 60 * OtpTtl]]
  /\ Continue(r, "registerAudit")
  /\ UNCHANGED <<account, attempts, audit, outside, now, hist>>

CreateOtp(r, c) ==
  /\ pc[r] = "createOtp"
  /\ otp' = [otp EXCEPT ![frame[r].usr] =
               [code |-> c, used |-> FALSE, expiresAt |-> now + OtpTtl]]
  /\ Continue(r, "registerAudit")
  /\ UNCHANGED <<account, attempts, audit, outside, now, hist>>

RegisterAudit(r) ==
  /\ pc[r] = "registerAudit"
  /\ Log(frame[r].usr, "USER_REGISTERED")
  /\ End(r, "done")
  /\ UNCHANGED <<account, otp, attempts, outside, now, hist>>

-----------------------------------------------------------------------------
(* verifyOtp *)

VerifyFind(r, e, c) ==
  /\ pc[r] = "new"
  /\ \/ \E u \in User : /\ Live(u, e)
                        /\ GoTo(r, "incr", [usr |-> u, email |-> e, code |-> c])
     \/ /\ \A u \in User : ~Live(u, e)
        /\ End(r, "failed")
  /\ UNCHANGED <<store, outside, now, hist>>

(* incr returns the new count; a first attempt goes on to set the key's    *)
(* time to live, an attempt over the limit is refused.                     *)
CountAttempt(r) ==
  /\ pc[r] = "incr"
  /\ LET u == frame[r].usr
         counter == IF attempts[u] = null THEN [count |-> 1, expiresAt |-> null]
                    ELSE [attempts[u] EXCEPT !.count = @ + 1]
     IN  /\ attempts' = [attempts EXCEPT ![u] = counter]
         /\ IF counter.count = 1 THEN Continue(r, "expire")
            ELSE IF counter.count > MaxAttempts THEN End(r, "failed")
            ELSE Continue(r, "lookup")
         /\ uneven' = IF otp[u] = null THEN uneven \union {u} ELSE uneven
  /\ UNCHANGED <<account, otp, audit, outside, now, lookups>>

(* expire on a key that is gone does nothing. *)
SetCounterTtl(r) ==
  /\ pc[r] = "expire"
  /\ LET u == frame[r].usr IN
       attempts' = IF attempts[u] = null THEN attempts
                   ELSE [attempts EXCEPT ![u].expiresAt = now + OtpTtl]
  /\ IF 1 > MaxAttempts THEN End(r, "failed") ELSE Continue(r, "lookup")
  /\ UNCHANGED <<account, otp, audit, outside, now, hist>>

(* mutant: the counter is cleared as soon as the code matches *)
FindOtpClears(r) ==
  /\ pc[r] = "lookup"
  /\ LET u == frame[r].usr
         match == OtpLive(u) /\ otp[u].code = frame[r].code
     IN  /\ IF match THEN Continue(r, "useOtp") ELSE End(r, "failed")
         /\ attempts' = IF match THEN [attempts EXCEPT ![u] = null] ELSE attempts
         /\ lookups' = IF OtpLive(u) THEN [lookups EXCEPT ![u] = @ + 1] ELSE lookups
  /\ UNCHANGED <<account, otp, audit, outside, now, uneven>>

(* mutant: the expiresAt clause is forgotten *)
FindOtpAnyAge(r) ==
  /\ pc[r] = "lookup"
  /\ LET u == frame[r].usr IN
       IF otp[u] # null /\ ~otp[u].used /\ otp[u].code = frame[r].code
       THEN Continue(r, "useOtp") ELSE End(r, "failed")
  /\ UNCHANGED <<store, outside, now, hist>>

(* findValidOtp *)
FindOtp(r) ==
  /\ pc[r] = "lookup"
  /\ LET u == frame[r].usr IN
       /\ IF OtpLive(u) /\ otp[u].code = frame[r].code
          THEN Continue(r, "useOtp")
          ELSE End(r, "failed")
       /\ lookups' = IF OtpLive(u) THEN [lookups EXCEPT ![u] = @ + 1] ELSE lookups
  /\ UNCHANGED <<store, outside, now, uneven>>

(* useOtp: an update by id, which does not look at usedAt again. *)
UseOtp(r) ==
  /\ pc[r] = "useOtp"
  /\ otp' = [otp EXCEPT ![frame[r].usr].used = TRUE]
  /\ Continue(r, "markVerified")
  /\ UNCHANGED <<account, attempts, audit, outside, now, hist>>

MarkVerified(r) ==
  /\ pc[r] = "markVerified"
  /\ account' = [account EXCEPT ![frame[r].usr].verified = TRUE]
  /\ Continue(r, "delAttempts")
  /\ UNCHANGED <<otp, attempts, audit, outside, now, hist>>

ClearAttempts(r) ==
  /\ pc[r] = "delAttempts"
  /\ attempts' = [attempts EXCEPT ![frame[r].usr] = null]
  /\ Continue(r, "publish")
  /\ UNCHANGED <<account, otp, audit, outside, now, hist>>

(* mutant: the publish is not awaited *)
PublishRegisteredUnawaited(r) ==
  /\ pc[r] = "publish"
  /\ published' \in {published, published \union {frame[r].usr}}
  /\ Continue(r, "verifyAudit")
  /\ UNCHANGED <<store, token, session, now, hist>>

(* js.publish waits for a stream to acknowledge; without one it rejects. *)
PublishRegistered(r) ==
  /\ pc[r] = "publish"
  /\ IF StreamExists
     THEN published' = published \union {frame[r].usr} /\ Continue(r, "verifyAudit")
     ELSE End(r, "failed") /\ UNCHANGED published
  /\ UNCHANGED <<store, token, session, now, hist>>

VerifyAudit(r) ==
  /\ pc[r] = "verifyAudit"
  /\ Log(frame[r].usr, "EMAIL_VERIFIED")
  /\ Continue(r, "insert")
  /\ UNCHANGED <<account, otp, attempts, outside, now, hist>>

(* issueTokenPair, whose rows Sessions models: a fresh token in a fresh    *)
(* family, then the session key.                                           *)
InsertToken(r) ==
  /\ pc[r] = "insert"
  /\ token' = [token EXCEPT ![r] = frame[r].usr]
  /\ Continue(r, "session")
  /\ UNCHANGED <<store, published, session, now, hist>>

SetSession(r) ==
  /\ pc[r] = "session"
  /\ session' = session \union {frame[r].usr}
  /\ End(r, "done")
  /\ UNCHANGED <<store, published, token, now, hist>>

-----------------------------------------------------------------------------
(* What happens without the two handlers *)

(* The update by which deleteAccount marks a row (Sessions has the rest). *)
SoftDelete(u) ==
  /\ account[u] # null /\ ~account[u].deleted
  /\ account' = [account EXCEPT ![u].deleted = TRUE]
  /\ UNCHANGED <<otp, attempts, audit, outside, now, pc, frame, hist>>

(* Redis drops the keys whose time to live is over. *)
Tick ==
  /\ now < MaxTime
  /\ now' = now + 1
  /\ attempts' = [u \in User |->
       IF attempts[u] # null /\ attempts[u].expiresAt # null /\ attempts[u].expiresAt <= now'
       THEN null ELSE attempts[u]]
  /\ UNCHANGED <<account, otp, audit, outside, pc, frame, hist>>

(* Redis runs with allkeys-lru: under memory pressure any key may go. *)
Evict(u) ==
  /\ attempts[u] # null
  /\ attempts' = [attempts EXCEPT ![u] = null]
  /\ uneven' = uneven \union {u}
  /\ UNCHANGED <<account, otp, audit, outside, now, pc, frame, lookups>>

(* A crash, or a call that rejects, ends an unfinished request. *)
Abort(r) ==
  /\ pc[r] \notin Over \union {"new"}
  /\ End(r, "failed")
  /\ UNCHANGED <<store, outside, now, hist>>

Register(r) ==
  \/ \E e \in Email : RegisterFind(r, e)
  \/ \E u \in User : CreateUser(r, u)
  \/ \E c \in Code : CreateOtp(r, c)
  \/ RegisterAudit(r)

VerifyOtp(r) ==
  \/ \E e \in Email, c \in Code : VerifyFind(r, e, c)
  \/ CountAttempt(r) \/ SetCounterTtl(r) \/ FindOtp(r) \/ UseOtp(r)
  \/ MarkVerified(r) \/ ClearAttempts(r) \/ PublishRegistered(r) \/ VerifyAudit(r)
  \/ InsertToken(r) \/ SetSession(r)

Environment == Tick \/ \E u \in User : SoftDelete(u) \/ Evict(u)

Next ==
  \/ \E r \in Request : Register(r) \/ VerifyOtp(r) \/ Abort(r)
  \/ Environment

Spec == Init /\ [][Next]_vars

(* No call fails of itself and every request that has begun is served.     *)
CalmNext == (\E r \in Request : Register(r) \/ VerifyOtp(r)) \/ Environment

CalmSpec ==
  /\ Init /\ [][CalmNext]_vars
  /\ \A r \in Request : WF_vars(pc[r] # "new" /\ (Register(r) \/ VerifyOtp(r)))

-----------------------------------------------------------------------------
(* Properties *)

(* Between the look-up and the insert of register others may register: the *)
(* database's unique index, deleted rows included, keeps one row per email.*)
OneAccountPerEmail ==
  \A u, v \in User, e \in Email : Registered(u, e) /\ Registered(v, e) => u = v

(* While an OTP is live, at most MaxAttempts requests get to compare a code*)
(* with it, however they interleave with each other, with the clock and    *)
(* with a request that redeems it: the counter outlives the OTP and is     *)
(* deleted only once the OTP is used.  The exceptions are a counter that   *)
(* Redis evicts, and one that an attempt on the account started before its *)
(* OTP was written: it can run out while the OTP is live.                  *)
GuessBound ==
  \A u \in User : u \notin uneven => lookups[u] <= MaxAttempts

(* u's OTP can no longer be redeemed and no request has it in hand. *)
Stuck(u) ==
  /\ account[u] # null /\ ~account[u].verified
  /\ ~OtpLive(u)
  /\ \A r \in Request : frame[r].usr = u => pc[r] \notin {"createOtp", "useOtp", "markVerified"}

(* Verification has no other door than a live OTP: an account whose OTP    *)
(* expired, or was never written because register died, stays unverified.  *)
UnverifiableStaysUnverified ==
  [][\A u \in User : Stuck(u) => Stuck(u)']_vars

StageOf(u) ==
  IF account[u] = null THEN "absent"
  ELSE IF account[u].verified THEN "verified"
  ELSE IF Stuck(u) THEN "stuck"
  ELSE "pending"

Holders == {token[r] : r \in {q \in Request : token[q] # null}}

Lifecycle == INSTANCE AccountLifecycle
  WITH stage <- [u \in User |-> StageOf(u)], announced <- published, holders <- Holders

(* Every request, crash and tick moves the accounts as AccountLifecycle    *)
(* allows: an id is taken once, soft deletion gives it back to nobody, a   *)
(* verified account stays so, a stuck one is never announced and never     *)
(* gets a token.                                                           *)
AccountsLive == Lifecycle!Spec

(* verifyOtp's writes come in an order a crash can cut but not permute: a  *)
(* token implies the audit row, the audit row the event, the event the     *)
(* verified flag, the verified flag the used OTP.                          *)
VerificationTrail ==
  /\ \A r \in Request : token[r] # null => <<token[r], "EMAIL_VERIFIED">> \in audit
  /\ \A u \in User :
       /\ <<u, "EMAIL_VERIFIED">> \in audit => u \in published
       /\ u \in published => account[u].verified
       /\ account[u] # null /\ account[u].verified => otp[u].used

(* auth.controller.ts:72, "E-mail already registered" answers 409: an      *)
(* email that is taken is never answered with an internal error.           *)
TakenEmailIsConflict == \A r \in Request : pc[r] # "duplicate"

(* auth.controller.ts:81-82, "On success marks the user as verified and    *)
(* immediately issues an access + refresh token pair": a verification that *)
(* redeemed the OTP ends with a token pair.                                *)
VerifiedIsLoggedIn ==
  \A r \in Request : pc[r] = "markVerified" ~> pc[r] = "done"
=============================================================================
