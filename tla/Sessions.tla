------------------------------ MODULE Sessions ------------------------------
(***************************************************************************)
(* Refresh-token sessions of the auth service: login, verifyOtp, refresh,  *)
(* logout and deleteAccount of auth.service.ts, with the rows and keys they*)
(* share.  Every request is a process; it takes one step per awaited call  *)
(* of the repository, of Redis or of NATS, so that requests interleave     *)
(* exactly where the handlers suspend.  A request may die between any two  *)
(* of its steps (the process crashes, a call rejects): what it has written *)
(* stays, nothing is rolled back, because no handler opens a transaction.  *)
(*                                                                         *)
(* A handler's kind and arguments are chosen at its first step.  A token   *)
(* is its row's key (the table is looked up by the token's hash).  The     *)
(* accounts are registered and have an OTP each; how they come to be, and  *)
(* what an OTP's lifetime and its counter do, is in Registration.          *)
(***************************************************************************)
EXTENDS Naturals, FiniteSets

CONSTANTS
  User,       \* accounts with a row in the User table
  Request,    \* the HTTP requests the service receives
  Token,      \* refresh tokens uuidv4() can return
  Family,     \* token families uuidv4() can return
  null        \* no row, no argument

(* A row of the RefreshToken table; usedAt and expiresAt as two flags. *)
RefreshToken ==
  [user : User, family : Family, used : BOOLEAN, expired : BOOLEAN]

ASSUME NullAssumption == null \notin User \union Token \union Family \union RefreshToken

Event == {"LOGIN", "EMAIL_VERIFIED", "LOGOUT", "ACCOUNT_DELETED"}

VARIABLES
  row,        \* row[t]: the RefreshToken row of token t, or null
  minted,     \* tokens drawn so far
  held,       \* tokens some client received in a response
  redeemed,   \* users whose registration OTP is used
  verified,   \* users whose isVerified is set
  deleted,    \* users whose deletedAt is set
  session,    \* users with a session key in Redis
  audit,      \* audit[u][e]: AuditLog rows of user u with event e
  published,  \* users whose user.deleted event is on the bus
  pc,         \* pc[r]: the call request r will make next
  frame,      \* frame[r]: the handler's local variables
  owner,      \* history: owner[f], the user family f was opened for, or null
  forked,     \* history: families in which one token was marked used twice
  revoked     \* history: families on which invalidateFamily has run

db     == <<row, minted, redeemed, verified, deleted, audit>>
client == <<held, session, published>>
hist   == <<owner, forked, revoked>>
vars   == <<db, client, pc, frame, hist>>

Frame == [usr : User \union {null}, tok : Token \union {null},
          fam : Family \union {null}]

NoFrame == [usr |-> null, tok |-> null, fam |-> null]

Call == {"new", "loginAudit", "useOtp", "markVerified", "verifyAudit",
         "reuse", "mark", "user",
         "insert", "session",
         "revoke", "logoutSession", "logoutAudit",
         "softDelete", "deleteSession", "publish", "deleteAudit",
         "done", "failed"}

Over == {"done", "failed"}

TypeOK ==
  /\ row \in [Token -> RefreshToken \union {null}]
  /\ minted \subseteq Token /\ held \subseteq minted
  /\ redeemed \subseteq User /\ verified \subseteq User /\ deleted \subseteq User
  /\ session \subseteq User
  /\ audit \in [User -> [Event -> Nat]]
  /\ published \subseteq User
  /\ pc \in [Request -> Call]
  /\ frame \in [Request -> Frame]
  /\ owner \in [Family -> User \union {null}]
  /\ forked \subseteq Family /\ revoked \subseteq Family

Init ==
  /\ row = [t \in Token |-> null]
  /\ minted = {} /\ held = {}
  /\ redeemed = {} /\ verified = {} /\ deleted = {}
  /\ session = {}
  /\ audit = [u \in User |-> [e \in Event |-> 0]]
  /\ published = {}
  /\ pc = [r \in Request |-> "new"]
  /\ frame = [r \in Request |-> NoFrame]
  /\ owner = [f \in Family |-> null]
  /\ forked = {} /\ revoked = {}

-----------------------------------------------------------------------------
(* Control: a step of r goes on to the next call, or ends the request. *)

GoTo(r, next, locals) ==
  /\ pc' = [pc EXCEPT ![r] = next]
  /\ frame' = [frame EXCEPT ![r] = locals]

Continue(r, next) == GoTo(r, next, frame[r])

End(r, outcome) == GoTo(r, outcome, NoFrame)

(* The repository's operations. *)

Present(t)  == row[t] # null
RowsOf(f)   == {t \in Token : Present(t) /\ row[t].family = f}
(* createAuditLog *)
Log(u, e)   == audit' = [audit EXCEPT ![u][e] = @ + 1]

(* invalidateFamily: deleteMany where family = f *)
DeleteFamily(f) ==
  /\ row' = [t \in Token |-> IF t \in RowsOf(f) THEN null ELSE row[t]]
  /\ revoked' = revoked \union {f}

(* Tokens a request can carry: those handed to a client, and strings the   *)
(* service never issued.  A token drawn but not yet (or never) sent back   *)
(* is known to nobody.                                                     *)
Presentable == held \union (Token \ minted)

(* mutant: the deletedAt clause is forgotten *)
FindableEvenDeleted(u) == TRUE

(* findUserByEmail: the where clause asks for deletedAt: null *)
FindableByEmail(u) == u \notin deleted

-----------------------------------------------------------------------------
(* login *)

(* mutant: the audit call is dropped *)
LoginFindUnaudited(r, u) ==
  /\ pc[r] = "new"
  /\ FindableByEmail(u) /\ u \in verified
  /\ GoTo(r, "insert", [NoFrame EXCEPT !.usr = u])
  /\ UNCHANGED <<db, client, hist>>

(* findUserByEmail, verifyPassword and the isVerified test on the row just *)
(* read.  Whatever the account, the password may be wrong.                 *)
LoginFind(r, u) ==
  /\ pc[r] = "new"
  /\ \/ /\ FindableByEmail(u) /\ u \in verified
        /\ GoTo(r, "loginAudit", [NoFrame EXCEPT !.usr = u])
     \/ End(r, "failed")
  /\ UNCHANGED <<db, client, hist>>

LoginAudit(r) ==
  /\ pc[r] = "loginAudit"
  /\ Log(frame[r].usr, "LOGIN")
  /\ Continue(r, "insert")
  /\ UNCHANGED <<row, minted, redeemed, verified, deleted, client, hist>>

-----------------------------------------------------------------------------
(* verifyOtp, as far as the session is concerned *)

(* findUserByEmail and findValidOtp.  The counter, the code and the OTP's  *)
(* age may refuse any request.                                             *)
VerifyFind(r, u) ==
  /\ pc[r] = "new"
  /\ \/ /\ FindableByEmail(u) /\ u \notin redeemed
        /\ GoTo(r, "useOtp", [NoFrame EXCEPT !.usr = u])
     \/ End(r, "failed")
  /\ UNCHANGED <<db, client, hist>>

(* useOtp, an update by id: another request may have used it meanwhile.    *)
VerifyUse(r) ==
  /\ pc[r] = "useOtp"
  /\ redeemed' = redeemed \union {frame[r].usr}
  /\ Continue(r, "markVerified")
  /\ UNCHANGED <<row, minted, verified, deleted, audit, client, hist>>

(* markUserVerified, by id.  Clearing the counter and publishing come next:*)
(* a publish that rejects is Abort at "verifyAudit".                       *)
VerifyMark(r) ==
  /\ pc[r] = "markVerified"
  /\ verified' = verified \union {frame[r].usr}
  /\ Continue(r, "verifyAudit")
  /\ UNCHANGED <<row, minted, redeemed, deleted, audit, client, hist>>

VerifyAudit(r) ==
  /\ pc[r] = "verifyAudit"
  /\ Log(frame[r].usr, "EMAIL_VERIFIED")
  /\ Continue(r, "insert")
  /\ UNCHANGED <<row, minted, redeemed, verified, deleted, client, hist>>

-----------------------------------------------------------------------------
(* refresh *)

RefreshFind(r, t) ==
  /\ pc[r] = "new"
  /\ t \in Presentable
  /\ IF ~Present(t) THEN End(r, "failed")
     ELSE LET locals == [usr |-> row[t].user, tok |-> t, fam |-> row[t].family]
          IN  IF row[t].used THEN GoTo(r, "reuse", locals)
              ELSE IF row[t].expired THEN End(r, "failed")
              ELSE GoTo(r, "mark", locals)
  /\ UNCHANGED <<db, client, hist>>

(* Reuse detected: the family read a step ago is deleted, the request 401s. *)
RefreshReuse(r) ==
  /\ pc[r] = "reuse"
  /\ DeleteFamily(frame[r].fam)
  /\ End(r, "failed")
  /\ UNCHANGED <<minted, redeemed, verified, deleted, audit, client, owner, forked>>

(* mutant: updateMany in place of update: a missing row is no error *)
RefreshMarkMany(r) ==
  /\ pc[r] = "mark"
  /\ LET t == frame[r].tok IN
       row' = IF Present(t) THEN [row EXCEPT ![t].used = TRUE] ELSE row
  /\ Continue(r, "user")
  /\ UNCHANGED <<minted, redeemed, verified, deleted, audit, client, hist>>

(* mutant: the token is not marked *)
RefreshMarkNothing(r) ==
  /\ pc[r] = "mark"
  /\ Present(frame[r].tok)
  /\ Continue(r, "user")
  /\ UNCHANGED <<db, client, hist>>

(* markRefreshTokenUsed: an update by id.  It rejects when the row is gone, *)
(* and succeeds when another request has already marked it.                *)
RefreshMark(r) ==
  /\ pc[r] = "mark"
  /\ LET t == frame[r].tok IN
       IF Present(t)
       THEN /\ row' = [row EXCEPT ![t].used = TRUE]
            /\ forked' = IF row[t].used THEN forked \union {frame[r].fam} ELSE forked
            /\ Continue(r, "user")
       ELSE /\ End(r, "failed")
            /\ UNCHANGED <<row, forked>>
  /\ UNCHANGED <<minted, redeemed, verified, deleted, audit, client, owner, revoked>>

(* findUserById has no deletedAt clause and no user row is ever removed: it *)
(* finds the row.                                                          *)
RefreshUser(r) ==
  /\ pc[r] = "user"
  /\ Continue(r, "insert")
  /\ UNCHANGED <<db, client, hist>>

-----------------------------------------------------------------------------
(* issueTokenPair, the tail of login, verifyOtp and refresh *)

(* mutant: every login reuses a family already in use *)
InsertTokenAnyFamily(r, t, f) ==
  /\ pc[r] = "insert"
  /\ t \notin minted
  /\ row' = [row EXCEPT ![t] = [user |-> frame[r].usr, family |-> f,
                                used |-> FALSE, expired |-> FALSE]]
  /\ minted' = minted \union {t}
  /\ owner' = [owner EXCEPT ![f] = IF @ = null THEN frame[r].usr ELSE @]
  /\ GoTo(r, "session", [frame[r] EXCEPT !.tok = t, !.fam = f])
  /\ UNCHANGED <<redeemed, verified, deleted, audit, client, forked, revoked>>

(* mutant: no family is drawn when none is passed *)
InsertTokenNoFamily(r, t, f) ==
  /\ pc[r] = "insert"
  /\ t \notin minted
  /\ row' = [row EXCEPT ![t] = [user |-> frame[r].usr, family |-> frame[r].fam,
                                used |-> FALSE, expired |-> FALSE]]
  /\ minted' = minted \union {t}
  /\ GoTo(r, "session", [frame[r] EXCEPT !.tok = t])
  /\ UNCHANGED <<redeemed, verified, deleted, audit, client, hist>>

(* createRefreshToken: a fresh token, in the family being rotated or in a  *)
(* fresh one.                                                              *)
InsertToken(r, t, f) ==
  /\ pc[r] = "insert"
  /\ t \notin minted
  /\ IF frame[r].fam = null THEN owner[f] = null ELSE f = frame[r].fam
  /\ row' = [row EXCEPT ![t] = [user |-> frame[r].usr, family |-> f,
                                used |-> FALSE, expired |-> FALSE]]
  /\ minted' = minted \union {t}
  /\ owner' = IF frame[r].fam = null THEN [owner EXCEPT ![f] = frame[r].usr] ELSE owner
  /\ GoTo(r, "session", [frame[r] EXCEPT !.tok = t, !.fam = f])
  /\ UNCHANGED <<redeemed, verified, deleted, audit, client, forked, revoked>>

(* setex of the session key, then the response, which may get lost. *)
SetSession(r) ==
  /\ pc[r] = "session"
  /\ session' = session \union {frame[r].usr}
  /\ held' \in {held, held \union {frame[r].tok}}
  /\ End(r, "done")
  /\ UNCHANGED <<db, published, hist>>

-----------------------------------------------------------------------------
(* logout: user and token are two independent fields of the body *)

LogoutWithoutToken(r, u) ==
  /\ pc[r] = "new"
  /\ GoTo(r, "logoutSession", [NoFrame EXCEPT !.usr = u])
  /\ UNCHANGED <<db, client, hist>>

LogoutFind(r, u, t) ==
  /\ pc[r] = "new"
  /\ t \in Presentable
  /\ IF Present(t)
     THEN GoTo(r, "revoke", [usr |-> u, tok |-> t, fam |-> row[t].family])
     ELSE GoTo(r, "logoutSession", [NoFrame EXCEPT !.usr = u])
  /\ UNCHANGED <<db, client, hist>>

LogoutRevoke(r) ==
  /\ pc[r] = "revoke"
  /\ DeleteFamily(frame[r].fam)
  /\ Continue(r, "logoutSession")
  /\ UNCHANGED <<minted, redeemed, verified, deleted, audit, client, owner, forked>>

DropSession(r) == session' = session \ {frame[r].usr}

LogoutSession(r) ==
  /\ pc[r] = "logoutSession"
  /\ DropSession(r)
  /\ Continue(r, "logoutAudit")
  /\ UNCHANGED <<db, held, published, hist>>

LogoutAudit(r) ==
  /\ pc[r] = "logoutAudit"
  /\ Log(frame[r].usr, "LOGOUT")
  /\ End(r, "done")
  /\ UNCHANGED <<row, minted, redeemed, verified, deleted, client, hist>>

-----------------------------------------------------------------------------
(* deleteAccount *)

(* findUserById finds a user that was deleted before, too. *)
DeleteFind(r, u) ==
  /\ pc[r] = "new"
  /\ GoTo(r, "softDelete", [NoFrame EXCEPT !.usr = u])
  /\ UNCHANGED <<db, client, hist>>

DeleteMark(r) ==
  /\ pc[r] = "softDelete"
  /\ deleted' = deleted \union {frame[r].usr}
  /\ Continue(r, "deleteSession")
  /\ UNCHANGED <<row, minted, redeemed, verified, audit, client, hist>>

DeleteSession(r) ==
  /\ pc[r] = "deleteSession"
  /\ DropSession(r)
  /\ Continue(r, "publish")
  /\ UNCHANGED <<db, held, published, hist>>

(* mutant: a rejected publish is caught and the handler goes on *)
DeletePublishBestEffort(r) ==
  /\ pc[r] = "publish"
  /\ published' \in {published, published \union {frame[r].usr}}
  /\ Continue(r, "deleteAudit")
  /\ UNCHANGED <<db, held, session, hist>>

(* A publish that rejects is Abort at "publish"; an acknowledgement that   *)
(* times out is DeletePublish followed by Abort.                           *)
DeletePublish(r) ==
  /\ pc[r] = "publish"
  /\ published' = published \union {frame[r].usr}
  /\ Continue(r, "deleteAudit")
  /\ UNCHANGED <<db, held, session, hist>>

DeleteAudit(r) ==
  /\ pc[r] = "deleteAudit"
  /\ Log(frame[r].usr, "ACCOUNT_DELETED")
  /\ End(r, "done")
  /\ UNCHANGED <<row, minted, redeemed, verified, deleted, client, hist>>

-----------------------------------------------------------------------------
(* What happens without the handlers *)

(* A crash, or a call that rejects, ends an unfinished request. *)
Abort(r) ==
  /\ pc[r] \notin Over \union {"new"}
  /\ End(r, "failed")
  /\ UNCHANGED <<db, client, hist>>

(* Thirty days pass: the row's expiresAt is in the past. *)
ExpireToken(t) ==
  /\ Present(t) /\ ~row[t].expired
  /\ row' = [row EXCEPT ![t].expired = TRUE]
  /\ UNCHANGED <<minted, redeemed, verified, deleted, audit, client, pc, frame, hist>>

(* The session key's 15 minutes pass, or Redis evicts it. *)
ExpireSession(u) ==
  /\ u \in session
  /\ session' = session \ {u}
  /\ UNCHANGED <<db, held, published, pc, frame, hist>>

Login(r)   == (\E u \in User : LoginFind(r, u)) \/ LoginAudit(r)
VerifyOtp(r) == (\E u \in User : VerifyFind(r, u))
                \/ VerifyUse(r) \/ VerifyMark(r) \/ VerifyAudit(r)
Refresh(r) == (\E t \in Token : RefreshFind(r, t))
              \/ RefreshReuse(r) \/ RefreshMark(r) \/ RefreshUser(r)
IssueTokenPair(r) ==
  (\E t \in Token, f \in Family : InsertToken(r, t, f)) \/ SetSession(r)
Logout(r)  == (\E u \in User : LogoutWithoutToken(r, u) \/ \E t \in Token : LogoutFind(r, u, t))
              \/ LogoutRevoke(r) \/ LogoutSession(r) \/ LogoutAudit(r)
DeleteAccount(r) == (\E u \in User : DeleteFind(r, u))
              \/ DeleteMark(r) \/ DeleteSession(r) \/ DeletePublish(r) \/ DeleteAudit(r)

Next ==
  \/ \E r \in Request : Login(r) \/ VerifyOtp(r) \/ Refresh(r) \/ IssueTokenPair(r)
                        \/ Logout(r) \/ DeleteAccount(r) \/ Abort(r)
  \/ \E t \in Token : ExpireToken(t)
  \/ \E u \in User : ExpireSession(u)

Spec == Init /\ [][Next]_vars

-----------------------------------------------------------------------------
(* Vocabulary of the properties *)

(* r has passed the mark step of a rotation of f and will store a token. *)
Rotating(r, f) == pc[r] \in {"user", "insert"} /\ frame[r].fam = f

Stored(t, f) == Present(t) /\ row[t].family = f

(* t can still be exchanged (its age aside). *)
Unused(t, f) == Stored(t, f) /\ ~row[t].used

Alive(f) == (\E t \in Token : Stored(t, f)) \/ (\E r \in Request : Rotating(r, f))

(* r will store a token or the session key for u. *)
Issuing(r, u) ==
  /\ pc[r] \in {"loginAudit", "useOtp", "markVerified", "verifyAudit", "user", "insert", "session"}
  /\ frame[r].usr = u

(* Rows of u that stand for a session of its own: logins, verifications.   *)
Entered(u) == audit[u]["LOGIN"] + audit[u]["EMAIL_VERIFIED"]

Phase(f) ==
  IF owner[f] = null THEN "unopened"
  ELSE IF Alive(f) THEN "open" ELSE "closed"

Lifecycle == INSTANCE FamilyLifecycle WITH phase <- [f \in Family |-> Phase(f)]

-----------------------------------------------------------------------------
(* Properties *)

(* A family is opened once, and once neither a row nor a rotation past its *)
(* mark step is left of it, no request, however delayed, brings it back:   *)
(* revocation by refresh or logout is final up to rotations in flight.     *)
RevocationIsFinal == Lifecycle!Spec

(* Unless two rotations marked the same token (the code's read of usedAt   *)
(* and its update are two calls), a family has one head: at most one       *)
(* unused row or rotation in flight, whatever crashes and is revoked.      *)
OneHeadUnlessForked ==
  \A f \in Family \ forked :
    /\ \A t1, t2 \in Token : Unused(t1, f) /\ Unused(t2, f) => t1 = t2
    /\ \A r1, r2 \in Request : Rotating(r1, f) /\ Rotating(r2, f) => r1 = r2
    /\ \A t \in Token, r \in Request : ~(Unused(t, f) /\ Rotating(r, f))

(* All the rows of a family, and the rotations and revocations under way   *)
(* on it, are of the user who opened it: deleting a family by its uuid     *)
(* never touches another user's tokens.                                    *)
FamilyHasOneOwner ==
  /\ \A t \in Token : Present(t) => row[t].user = owner[row[t].family]
  /\ \A r \in Request : pc[r] \in {"mark", "user", "reuse"} =>
       frame[r].usr = owner[frame[r].fam]

(* Every family is covered by a LOGIN or EMAIL_VERIFIED row of its own in  *)
(* the audit log, written before the family's first token, whatever dies   *)
(* in between.                                                             *)
EveryFamilyAudited ==
  \A u \in User : Cardinality({f \in Family : owner[f] = u}) <= Entered(u)

(* The ACCOUNT_DELETED row is the last thing deleteAccount writes: where   *)
(* it stands, deletedAt is set and the user.deleted event was published.   *)
DeletionTrail ==
  \A u \in User : audit[u]["ACCOUNT_DELETED"] > 0 => u \in deleted \intersect published

(* u is deleted, has neither row nor session key, and no request under way *)
(* will store one for u.                                                   *)
Out(u) ==
  /\ u \in deleted /\ u \notin session
  /\ \A t \in Token : Present(t) => row[t].user # u
  /\ \A r \in Request : ~Issuing(r, u)

(* An account that is deleted and logged out of all its families gets no   *)
(* token and no session key again: login and verifyOtp filter on deletedAt,*)
(* and refresh, which does not, has no row left to start from.             *)
DeletedAndLoggedOutStaysOut == [][\A u \in User : Out(u) => Out(u)']_vars

(* auth.controller.ts:113, "The old token is immediately invalidated":     *)
(* exchanging a token leaves one token of the family to exchange.          *)
OneTokenPerFamily ==
  \A f \in Family, t1, t2 \in Token : Unused(t1, f) /\ Unused(t2, f) => t1 = t2

(* auth.controller.ts:114, "the entire token family is revoked", and 128,  *)
(* "Invalidates the refresh-token family": no token of a revoked family is *)
(* stored.                                                                 *)
RevokedFamilyHasNoTokens == \A f \in revoked : RowsOf(f) = {}
=============================================================================
