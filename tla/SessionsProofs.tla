--------------------------- MODULE SessionsProofs ---------------------------
(***************************************************************************)
(* Proofs about Sessions, for every set of users, requests, tokens and     *)
(* families.  Shape is the inductive invariant: the types, what a          *)
(* handler's local variables hold at each of its calls, and which rows     *)
(* exist.  The other theorems are proved over a step that starts in Shape. *)
(***************************************************************************)
EXTENDS Sessions, FiniteSetTheorems, TLAPS

InFlight == Call \ (Over \union {"new"})

(* What the locals l of a request hold when c is the call it makes next.   *)
Fits(c, l) ==
  /\ c \in InFlight => l.usr \in User
  /\ c \in {"reuse", "mark", "user", "revoke"} => l.fam \in Family /\ owner[l.fam] # null
  /\ c \in {"reuse", "mark", "user"} => l.usr = owner[l.fam]
  /\ c = "insert" /\ l.fam # null => l.usr = owner[l.fam]
  /\ c \in {"loginAudit", "useOtp", "markVerified", "verifyAudit"} => l.fam = null
  /\ c \in {"mark", "session"} => l.tok \in minted
  /\ c = "mark" /\ Present(l.tok) => row[l.tok].family = l.fam

FrameShape == \A r \in Request : Fits(pc[r], frame[r])

(* Rows are of tokens that were drawn, in families that were opened. *)
RowShape ==
  \A t \in Token : Present(t) =>
    t \in minted /\ row[t].user = owner[row[t].family]

Shape == TypeOK /\ FrameShape /\ RowShape

(* A stored row is a record of the table. *)
LEMMA RowType ==
  ASSUME TypeOK, NEW t \in Token, Present(t)
  PROVE  /\ row[t] \in RefreshToken
         /\ row[t].user \in User /\ row[t].family \in Family
         /\ row[t].used \in BOOLEAN /\ row[t].expired \in BOOLEAN
  BY DEF TypeOK, Present, RefreshToken

LEMMA InitShape == Init => Shape
  BY DEF Init, Shape, TypeOK, FrameShape, Fits, RowShape, Present, NoFrame, Frame, Call, InFlight, Over, Event

(* A step that only moves one request on, to a call its new locals fit. *)
LEMMA ReadOnlyStep ==
  ASSUME Shape, NEW r \in Request, NEW next \in Call, NEW locals \in Frame,
         GoTo(r, next, locals), Fits(next, locals), UNCHANGED <<db, client, hist>>
  PROVE  Shape'
  <1> USE DEF Shape, db, client, hist
  <1>1. TypeOK'
    BY DEF TypeOK, GoTo
  <1>2. FrameShape'
    <2> SUFFICES ASSUME NEW s \in Request PROVE Fits(pc[s], frame[s])'
      BY DEF FrameShape
    <2>1. CASE s = r
      BY <2>1 DEF GoTo, TypeOK, Fits, Present
    <2>2. CASE s # r
      BY <2>2 DEF GoTo, TypeOK, FrameShape, Fits, Present
    <2> QED
      BY <2>1, <2>2
  <1>3. RowShape'
    BY DEF RowShape, Present
  <1> QED
    BY <1>1, <1>2, <1>3

(* No locals are needed to end a request. *)
LEMMA EndFits ==
  ASSUME NEW outcome \in Over
  PROVE  outcome \in Call /\ NoFrame \in Frame /\ Fits(outcome, NoFrame)
  BY DEF Over, Call, NoFrame, Frame, Fits, InFlight

(* Locals that name a user only fit the calls that read no token. *)
LEMMA UserFrame ==
  ASSUME NEW u \in User, NEW c \in {"loginAudit", "useOtp", "logoutSession", "softDelete"}
  PROVE  c \in Call /\ [NoFrame EXCEPT !.usr = u] \in Frame /\ Fits(c, [NoFrame EXCEPT !.usr = u])
  BY DEF Call, NoFrame, Frame, Fits, InFlight

LEMMA StepShape == Shape /\ [Next]_vars => Shape'
  <1> SUFFICES ASSUME Shape, [Next]_vars PROVE Shape'
    OBVIOUS
  <1> USE NullAssumption
  <1>1. ASSUME NEW r \in Request, NEW u \in User, LoginFind(r, u) PROVE Shape'
    <2>1. CASE GoTo(r, "loginAudit", [NoFrame EXCEPT !.usr = u])
      BY <1>1, <2>1, UserFrame, ReadOnlyStep DEF LoginFind
    <2>2. CASE End(r, "failed")
      BY <1>1, <2>2, EndFits, ReadOnlyStep DEF LoginFind, End, Over
    <2> QED
      BY <1>1, <2>1, <2>2 DEF LoginFind
  <1>2. ASSUME NEW r \in Request, LoginAudit(r) PROVE Shape'
    BY <1>2 DEF LoginAudit, Log, Event,
      Shape, TypeOK, FrameShape, Fits, RowShape, GoTo, Continue, End, Present, Frame, NoFrame, Call, InFlight, Over, db, client, hist
  <1>3. ASSUME NEW r \in Request, NEW t \in Token, RefreshFind(r, t) PROVE Shape'
    <2> DEFINE locals == [usr |-> row[t].user, tok |-> t, fam |-> row[t].family]
    <2>1. CASE End(r, "failed")
      BY <1>3, <2>1, EndFits, ReadOnlyStep DEF RefreshFind, End, Over
    <2>2. ASSUME NEW next \in {"reuse", "mark"}, Present(t), GoTo(r, next, locals)
          PROVE  Shape'
      <3>1. locals \in Frame /\ next \in Call
        BY <2>2, RowType DEF Shape, Frame, Call
      <3>2. Fits(next, locals)
        BY <2>2, RowType DEF Shape, RowShape, Fits, InFlight, Call, Over
      <3> QED
        BY <1>3, <2>2, <3>1, <3>2, ReadOnlyStep DEF RefreshFind
    <2> QED
      BY <1>3, <2>1, <2>2 DEF RefreshFind
  <1>4. ASSUME NEW r \in Request, RefreshReuse(r) PROVE Shape'
    BY <1>4 DEF RefreshReuse, DeleteFamily, RowsOf, RefreshToken,
      Shape, TypeOK, FrameShape, Fits, RowShape, GoTo, Continue, End, Present, Frame, NoFrame, Call, InFlight, Over, db, client, hist
  <1>5. ASSUME NEW r \in Request, RefreshMark(r) PROVE Shape'
    <2> DEFINE t == frame[r].tok
    <2>1. CASE ~Present(t)
      BY <1>5, <2>1, EndFits, ReadOnlyStep DEF RefreshMark, End, Over, db, client, hist
    <2>2. CASE Present(t)
      <3>1. t \in Token /\ frame[r] \in Frame /\ Fits("mark", frame[r])
        BY <1>5 DEF RefreshMark, Shape, TypeOK, FrameShape, Fits
      <3>2. row' = [row EXCEPT ![t].used = TRUE] /\ [row[t] EXCEPT !.used = TRUE] \in RefreshToken
        BY <1>5, <2>2, <3>1, RowType DEF RefreshMark, Shape, RefreshToken
      <3>3. TypeOK'
        BY <1>5, <2>2, <3>1, <3>2 DEF RefreshMark, Continue, GoTo, Shape, TypeOK, Fits, Call, db, client, hist
      <3>4. FrameShape'
        BY <1>5, <2>2, <3>1, <3>2, RowType DEF RefreshMark, Continue, GoTo, Shape, TypeOK, FrameShape, Fits, Present, Call, InFlight, Over, RefreshToken
      <3>5. RowShape'
        BY <1>5, <2>2, <3>1, <3>2, RowType DEF RefreshMark, Shape, TypeOK, RowShape, Present, RefreshToken
      <3> QED
        BY <3>3, <3>4, <3>5 DEF Shape
    <2> QED
      BY <2>1, <2>2
  <1>6. ASSUME NEW r \in Request, RefreshUser(r) PROVE Shape'
    BY <1>6 DEF RefreshUser,
      Shape, TypeOK, FrameShape, Fits, RowShape, GoTo, Continue, End, Present, Frame, NoFrame, Call, InFlight, Over, db, client, hist
  <1>7. ASSUME NEW r \in Request, NEW t \in Token, NEW f \in Family, InsertToken(r, t, f) PROVE Shape'
    <2> DEFINE new == [user |-> frame[r].usr, family |-> f, used |-> FALSE, expired |-> FALSE]
    <2>1. frame[r] \in Frame /\ Fits("insert", frame[r]) /\ new \in RefreshToken
      BY <1>7 DEF InsertToken, Shape, TypeOK, FrameShape, Fits, InFlight, Call, Over, RefreshToken
    <2>2. row' = [row EXCEPT ![t] = new] /\ ~Present(t)
      BY <1>7 DEF InsertToken, Shape, RowShape
    <2>3. TypeOK'
      <3>1. row' \in [Token -> RefreshToken \union {null}]
        BY <2>1, <2>2 DEF Shape, TypeOK
      <3>2. minted' \subseteq Token /\ held' \subseteq minted'
        BY <1>7 DEF InsertToken, Shape, TypeOK, client
      <3>3. owner' \in [Family -> User \union {null}]
        BY <1>7, <2>1 DEF InsertToken, Shape, TypeOK, Frame
      <3>4. pc' \in [Request -> Call] /\ frame' \in [Request -> Frame]
        BY <1>7, <2>1 DEF InsertToken, GoTo, Shape, TypeOK, Frame, Call
      <3> QED
        BY <1>7, <3>1, <3>2, <3>3, <3>4 DEF InsertToken, Shape, TypeOK, client
    <2>4. FrameShape'
      BY <1>7, <2>1, <2>2 DEF InsertToken, GoTo, Shape, TypeOK, FrameShape, Fits, Present, Frame, Call, InFlight, Over, RefreshToken
    <2>5. RowShape'
      BY <1>7, <2>1, <2>2, RowType DEF InsertToken, Shape, TypeOK, RowShape, Fits, Present, InFlight, Call, Over
    <2> QED
      BY <2>3, <2>4, <2>5 DEF Shape
  <1>8. ASSUME NEW r \in Request, SetSession(r) PROVE Shape'
    BY <1>8 DEF SetSession,
      Shape, TypeOK, FrameShape, Fits, RowShape, GoTo, Continue, End, Present, Frame, NoFrame, Call, InFlight, Over, db, client, hist
  <1>9. ASSUME NEW r \in Request, NEW u \in User, LogoutWithoutToken(r, u) PROVE Shape'
    BY <1>9 DEF LogoutWithoutToken,
      Shape, TypeOK, FrameShape, Fits, RowShape, GoTo, Continue, End, Present, Frame, NoFrame, Call, InFlight, Over, db, client, hist
  <1>10. ASSUME NEW r \in Request, NEW u \in User, NEW t \in Token, LogoutFind(r, u, t) PROVE Shape'
    <2>1. CASE ~Present(t)
      BY <1>10, <2>1, UserFrame, ReadOnlyStep DEF LogoutFind
    <2>2. CASE Present(t)
      <3> DEFINE locals == [usr |-> u, tok |-> t, fam |-> row[t].family]
      <3>1. locals \in Frame /\ "revoke" \in Call
        BY <2>2, RowType DEF Shape, Frame, Call
      <3>2. Fits("revoke", locals)
        BY <2>2, RowType DEF Shape, RowShape, Fits, InFlight, Call, Over
      <3> QED
        BY <1>10, <2>2, <3>1, <3>2, ReadOnlyStep DEF LogoutFind
    <2> QED
      BY <2>1, <2>2
  <1>11. ASSUME NEW r \in Request, LogoutRevoke(r) PROVE Shape'
    BY <1>11 DEF LogoutRevoke, DeleteFamily, RowsOf, RefreshToken,
      Shape, TypeOK, FrameShape, Fits, RowShape, GoTo, Continue, End, Present, Frame, NoFrame, Call, InFlight, Over, db, client, hist
  <1>12. ASSUME NEW r \in Request, LogoutSession(r) PROVE Shape'
    BY <1>12 DEF LogoutSession, DropSession,
      Shape, TypeOK, FrameShape, Fits, RowShape, GoTo, Continue, End, Present, Frame, NoFrame, Call, InFlight, Over, db, client, hist
  <1>13. ASSUME NEW r \in Request, LogoutAudit(r) PROVE Shape'
    BY <1>13 DEF LogoutAudit, Log, Event,
      Shape, TypeOK, FrameShape, Fits, RowShape, GoTo, Continue, End, Present, Frame, NoFrame, Call, InFlight, Over, db, client, hist
  <1>14. ASSUME NEW r \in Request, NEW u \in User, DeleteFind(r, u) PROVE Shape'
    BY <1>14 DEF DeleteFind,
      Shape, TypeOK, FrameShape, Fits, RowShape, GoTo, Continue, End, Present, Frame, NoFrame, Call, InFlight, Over, db, client, hist
  <1>15. ASSUME NEW r \in Request, DeleteMark(r) PROVE Shape'
    BY <1>15 DEF DeleteMark,
      Shape, TypeOK, FrameShape, Fits, RowShape, GoTo, Continue, End, Present, Frame, NoFrame, Call, InFlight, Over, db, client, hist
  <1>16. ASSUME NEW r \in Request, DeleteSession(r) PROVE Shape'
    BY <1>16 DEF DeleteSession, DropSession,
      Shape, TypeOK, FrameShape, Fits, RowShape, GoTo, Continue, End, Present, Frame, NoFrame, Call, InFlight, Over, db, client, hist
  <1>17. ASSUME NEW r \in Request, DeletePublish(r) PROVE Shape'
    BY <1>17 DEF DeletePublish,
      Shape, TypeOK, FrameShape, Fits, RowShape, GoTo, Continue, End, Present, Frame, NoFrame, Call, InFlight, Over, db, client, hist
  <1>18. ASSUME NEW r \in Request, DeleteAudit(r) PROVE Shape'
    BY <1>18 DEF DeleteAudit, Log, Event,
      Shape, TypeOK, FrameShape, Fits, RowShape, GoTo, Continue, End, Present, Frame, NoFrame, Call, InFlight, Over, db, client, hist
  <1>19. ASSUME NEW r \in Request, Abort(r) PROVE Shape'
    BY <1>19 DEF Abort,
      Shape, TypeOK, FrameShape, Fits, RowShape, GoTo, Continue, End, Present, Frame, NoFrame, Call, InFlight, Over, db, client, hist
  <1>20. ASSUME NEW t \in Token, ExpireToken(t) PROVE Shape'
    <2>1. row' = [row EXCEPT ![t].expired = TRUE] /\ [row[t] EXCEPT !.expired = TRUE] \in RefreshToken
      BY <1>20, RowType DEF ExpireToken, Shape, RefreshToken
    <2>2. TypeOK'
      BY <1>20, <2>1 DEF ExpireToken, Shape, TypeOK, client, hist
    <2>3. FrameShape'
      BY <1>20, <2>1, RowType DEF ExpireToken, Shape, TypeOK, FrameShape, Fits, Present, RefreshToken, hist
    <2>4. RowShape'
      BY <1>20, <2>1, RowType DEF ExpireToken, Shape, TypeOK, RowShape, Present, RefreshToken, hist
    <2> QED
      BY <2>2, <2>3, <2>4 DEF Shape
  <1>21. ASSUME NEW u \in User, ExpireSession(u) PROVE Shape'
    BY <1>21 DEF ExpireSession,
      Shape, TypeOK, FrameShape, Fits, RowShape, GoTo, Continue, End, Present, Frame, NoFrame, Call, InFlight, Over, db, client, hist
  <1>23. ASSUME NEW r \in Request, NEW u \in User, VerifyFind(r, u) PROVE Shape'
    <2>1. CASE GoTo(r, "useOtp", [NoFrame EXCEPT !.usr = u])
      BY <1>23, <2>1, UserFrame, ReadOnlyStep DEF VerifyFind
    <2>2. CASE End(r, "failed")
      BY <1>23, <2>2, EndFits, ReadOnlyStep DEF VerifyFind, End, Over
    <2> QED
      BY <1>23, <2>1, <2>2 DEF VerifyFind
  <1>24. ASSUME NEW r \in Request, VerifyUse(r) PROVE Shape'
    BY <1>24 DEF VerifyUse,
      Shape, TypeOK, FrameShape, Fits, RowShape, GoTo, Continue, End, Present, Frame, NoFrame, Call, InFlight, Over, db, client, hist
  <1>25. ASSUME NEW r \in Request, VerifyMark(r) PROVE Shape'
    BY <1>25 DEF VerifyMark,
      Shape, TypeOK, FrameShape, Fits, RowShape, GoTo, Continue, End, Present, Frame, NoFrame, Call, InFlight, Over, db, client, hist
  <1>26. ASSUME NEW r \in Request, VerifyAudit(r) PROVE Shape'
    BY <1>26 DEF VerifyAudit, Log, Event,
      Shape, TypeOK, FrameShape, Fits, RowShape, GoTo, Continue, End, Present, Frame, NoFrame, Call, InFlight, Over, db, client, hist
  <1>22. CASE UNCHANGED vars
    BY <1>22 DEF vars,
      Shape, TypeOK, FrameShape, Fits, RowShape, GoTo, Continue, End, Present, Frame, NoFrame, Call, InFlight, Over, db, client, hist
  <1> QED
    BY <1>1, <1>2, <1>3, <1>4, <1>5, <1>6, <1>7, <1>8, <1>9, <1>10, <1>11, <1>12, <1>13, <1>14, <1>15, <1>16, <1>17, <1>18, <1>19, <1>20, <1>21, <1>22, <1>23, <1>24, <1>25, <1>26
       DEF Next, Login, VerifyOtp, Refresh, IssueTokenPair, Logout, DeleteAccount

(* Shape holds throughout, and with it the types. *)
THEOREM ShapeInvariant == Spec => []Shape
  <1>1. Init => Shape
    BY InitShape
  <1>2. Shape /\ [Next]_vars => Shape'
    BY StepShape
  <1> QED
    BY <1>1, <1>2, PTL DEF Spec

(* The state of the auth service keeps its types: every handler's locals   *)
(* name a user, and every row it writes is complete.                       *)
THEOREM TypeCorrect == Spec => []TypeOK
  <1>1. Shape => TypeOK
    BY DEF Shape
  <1> QED
    BY <1>1, ShapeInvariant, PTL

(* Deleting a family touches one user's tokens only: rows, rotations and   *)
(* revocations of a family all belong to the user it was opened for.       *)
THEOREM OwnerCorrect == Spec => []FamilyHasOneOwner
  <1>1. Shape => FamilyHasOneOwner
    BY DEF Shape, RowShape, FrameShape, Fits, FamilyHasOneOwner
  <1> QED
    BY <1>1, ShapeInvariant, PTL

-----------------------------------------------------------------------------
(* One head per family *)

(* A step that adds neither an unused row nor a rotation. *)
AddsNoHead ==
  /\ \A t \in Token, f \in Family : Unused(t, f)' => Unused(t, f)
  /\ \A r \in Request, f \in Family : Rotating(r, f)' => Rotating(r, f)

LEMMA AddsNoHeadKeepsOneHead ==
  ASSUME OneHeadUnlessForked, AddsNoHead, forked' = forked
  PROVE  OneHeadUnlessForked'
  BY DEF OneHeadUnlessForked, AddsNoHead

(* Marking an unused row of f turns the family's head into a rotation. *)
LEMMA MarkKeepsOneHead ==
  ASSUME Shape, OneHeadUnlessForked, NEW r \in Request, RefreshMark(r), Present(frame[r].tok)
  PROVE  OneHeadUnlessForked'
  <1> DEFINE t == frame[r].tok
             g == frame[r].fam
  <1>1. t \in Token /\ g \in Family /\ row[t].family = g /\ row[t] \in RefreshToken
    BY RowType DEF RefreshMark, Shape, TypeOK, FrameShape, Fits
  <1>2. /\ row' = [row EXCEPT ![t].used = TRUE]
        /\ pc' = [pc EXCEPT ![r] = "user"] /\ frame' = [frame EXCEPT ![r] = frame[r]]
    BY DEF RefreshMark, Continue, GoTo
  <1>3. \A t1 \in Token, f \in Family : Unused(t1, f)' => Unused(t1, f) /\ t1 # t
    BY <1>1, <1>2 DEF Shape, TypeOK, Unused, Stored, Present, RefreshToken
  <1>4. \A s \in Request, f \in Family : Rotating(s, f)' => Rotating(s, f) \/ (s = r /\ f = g)
    BY <1>2 DEF Shape, TypeOK, Rotating
  <1>5. CASE row[t].used
    <2>1. forked' = forked \union {g}
      BY <1>5 DEF RefreshMark
    <2> QED
      BY <2>1, <1>3, <1>4 DEF OneHeadUnlessForked
  <1>6. CASE ~row[t].used
    <2>1. forked' = forked
      BY <1>6 DEF RefreshMark
    <2>2. Unused(t, g)
      BY <1>1, <1>6 DEF Unused, Stored
    <2> QED
      BY <1>1, <2>1, <2>2, <1>3, <1>4 DEF OneHeadUnlessForked
  <1> QED
    BY <1>5, <1>6

(* Inserting a token ends the rotation that was its family's head, or      *)
(* gives a fresh family its first head.                                    *)
LEMMA InsertKeepsOneHead ==
  ASSUME Shape, OneHeadUnlessForked,
         NEW r \in Request, NEW t \in Token, NEW g \in Family, InsertToken(r, t, g)
  PROVE  OneHeadUnlessForked'
  <1> DEFINE new == [user |-> frame[r].usr, family |-> g, used |-> FALSE, expired |-> FALSE]
  <1>1. row' = [row EXCEPT ![t] = new] /\ new # null
    <2>1. new \in RefreshToken
      BY DEF InsertToken, Shape, TypeOK, FrameShape, Fits, InFlight, Call, Over, RefreshToken
    <2> QED
      BY <2>1, NullAssumption DEF InsertToken
  <1>2. \A t1 \in Token, f \in Family : Unused(t1, f)' => Unused(t1, f) \/ (t1 = t /\ f = g)
    BY <1>1 DEF Shape, TypeOK, Unused, Stored, Present
  <1>3. \A s \in Request, f \in Family : Rotating(s, f)' => Rotating(s, f) /\ s # r
    BY DEF InsertToken, GoTo, Shape, TypeOK, Rotating
  <1>4. forked' = forked
    BY DEF InsertToken
  <1>5. \/ Rotating(r, g)
        \/ \A t1 \in Token, s \in Request : ~Unused(t1, g) /\ ~Rotating(s, g)
    <2>1. CASE frame[r].fam = null
      <3>1. owner[g] = null
        BY <2>1 DEF InsertToken
      <3>2. ASSUME NEW t1 \in Token, Unused(t1, g) PROVE FALSE
        BY <3>1, <3>2, RowType, NullAssumption DEF Unused, Stored, Shape, RowShape
      <3>3. ASSUME NEW s \in Request, Rotating(s, g) PROVE FALSE
        BY <3>1, <3>3, NullAssumption DEF Rotating, Shape, FrameShape, Fits, InFlight, Call, Over
      <3> QED
        BY <3>2, <3>3
    <2>2. CASE frame[r].fam # null
      BY <2>2 DEF InsertToken, Rotating
    <2> QED
      BY <2>1, <2>2
  <1> QED
    BY <1>2, <1>3, <1>4, <1>5 DEF OneHeadUnlessForked

LEMMA StepOneHead ==
  ASSUME Shape, OneHeadUnlessForked, [Next]_vars
  PROVE  OneHeadUnlessForked'
  <1>1. ASSUME NEW r \in Request, NEW u \in User, LoginFind(r, u) PROVE OneHeadUnlessForked'
    BY <1>1, AddsNoHeadKeepsOneHead
       DEF LoginFind, AddsNoHead, Unused, Stored, Rotating, Present, Shape, TypeOK, FrameShape, Fits,
           GoTo, End, Continue, db, client, hist
  <1>2. ASSUME NEW r \in Request, LoginAudit(r) PROVE OneHeadUnlessForked'
    BY <1>2, AddsNoHeadKeepsOneHead, NullAssumption
       DEF LoginAudit, AddsNoHead, Unused, Stored, Rotating, Present, Shape, TypeOK, FrameShape, Fits,
           GoTo, End, Continue, db, client, hist, Log
  <1>3. ASSUME NEW r \in Request, NEW t \in Token, RefreshFind(r, t) PROVE OneHeadUnlessForked'
    BY <1>3, AddsNoHeadKeepsOneHead
       DEF RefreshFind, AddsNoHead, Unused, Stored, Rotating, Present, Shape, TypeOK, FrameShape, Fits,
           GoTo, End, Continue, db, client, hist
  <1>4. ASSUME NEW r \in Request, RefreshReuse(r) PROVE OneHeadUnlessForked'
    BY <1>4, AddsNoHeadKeepsOneHead
       DEF RefreshReuse, AddsNoHead, Unused, Stored, Rotating, Present, Shape, TypeOK, FrameShape, Fits,
           GoTo, End, Continue, db, client, hist, DeleteFamily, RowsOf
  <1>5. ASSUME NEW r \in Request, RefreshUser(r) PROVE OneHeadUnlessForked'
    BY <1>5, AddsNoHeadKeepsOneHead
       DEF RefreshUser, AddsNoHead, Unused, Stored, Rotating, Present, Shape, TypeOK, FrameShape, Fits,
           GoTo, End, Continue, db, client, hist
  <1>6. ASSUME NEW r \in Request, SetSession(r) PROVE OneHeadUnlessForked'
    BY <1>6, AddsNoHeadKeepsOneHead
       DEF SetSession, AddsNoHead, Unused, Stored, Rotating, Present, Shape, TypeOK, FrameShape, Fits,
           GoTo, End, Continue, db, client, hist
  <1>7. ASSUME NEW r \in Request, NEW u \in User, LogoutWithoutToken(r, u) PROVE OneHeadUnlessForked'
    BY <1>7, AddsNoHeadKeepsOneHead
       DEF LogoutWithoutToken, AddsNoHead, Unused, Stored, Rotating, Present, Shape, TypeOK, FrameShape, Fits,
           GoTo, End, Continue, db, client, hist
  <1>8. ASSUME NEW r \in Request, NEW u \in User, NEW t \in Token, LogoutFind(r, u, t) PROVE OneHeadUnlessForked'
    BY <1>8, AddsNoHeadKeepsOneHead
       DEF LogoutFind, AddsNoHead, Unused, Stored, Rotating, Present, Shape, TypeOK, FrameShape, Fits,
           GoTo, End, Continue, db, client, hist
  <1>9. ASSUME NEW r \in Request, LogoutRevoke(r) PROVE OneHeadUnlessForked'
    BY <1>9, AddsNoHeadKeepsOneHead
       DEF LogoutRevoke, AddsNoHead, Unused, Stored, Rotating, Present, Shape, TypeOK, FrameShape, Fits,
           GoTo, End, Continue, db, client, hist, DeleteFamily, RowsOf
  <1>10. ASSUME NEW r \in Request, LogoutSession(r) PROVE OneHeadUnlessForked'
    BY <1>10, AddsNoHeadKeepsOneHead
       DEF LogoutSession, AddsNoHead, Unused, Stored, Rotating, Present, Shape, TypeOK, FrameShape, Fits,
           GoTo, End, Continue, db, client, hist, DropSession
  <1>11. ASSUME NEW r \in Request, LogoutAudit(r) PROVE OneHeadUnlessForked'
    BY <1>11, AddsNoHeadKeepsOneHead
       DEF LogoutAudit, AddsNoHead, Unused, Stored, Rotating, Present, Shape, TypeOK, FrameShape, Fits,
           GoTo, End, Continue, db, client, hist, Log
  <1>12. ASSUME NEW r \in Request, NEW u \in User, DeleteFind(r, u) PROVE OneHeadUnlessForked'
    BY <1>12, AddsNoHeadKeepsOneHead
       DEF DeleteFind, AddsNoHead, Unused, Stored, Rotating, Present, Shape, TypeOK, FrameShape, Fits,
           GoTo, End, Continue, db, client, hist
  <1>13. ASSUME NEW r \in Request, DeleteMark(r) PROVE OneHeadUnlessForked'
    BY <1>13, AddsNoHeadKeepsOneHead
       DEF DeleteMark, AddsNoHead, Unused, Stored, Rotating, Present, Shape, TypeOK, FrameShape, Fits,
           GoTo, End, Continue, db, client, hist
  <1>14. ASSUME NEW r \in Request, DeleteSession(r) PROVE OneHeadUnlessForked'
    BY <1>14, AddsNoHeadKeepsOneHead
       DEF DeleteSession, AddsNoHead, Unused, Stored, Rotating, Present, Shape, TypeOK, FrameShape, Fits,
           GoTo, End, Continue, db, client, hist, DropSession
  <1>15. ASSUME NEW r \in Request, DeletePublish(r) PROVE OneHeadUnlessForked'
    BY <1>15, AddsNoHeadKeepsOneHead
       DEF DeletePublish, AddsNoHead, Unused, Stored, Rotating, Present, Shape, TypeOK, FrameShape, Fits,
           GoTo, End, Continue, db, client, hist
  <1>16. ASSUME NEW r \in Request, DeleteAudit(r) PROVE OneHeadUnlessForked'
    BY <1>16, AddsNoHeadKeepsOneHead
       DEF DeleteAudit, AddsNoHead, Unused, Stored, Rotating, Present, Shape, TypeOK, FrameShape, Fits,
           GoTo, End, Continue, db, client, hist, Log
  <1>17. ASSUME NEW r \in Request, Abort(r) PROVE OneHeadUnlessForked'
    BY <1>17, AddsNoHeadKeepsOneHead
       DEF Abort, AddsNoHead, Unused, Stored, Rotating, Present, Shape, TypeOK, FrameShape, Fits,
           GoTo, End, Continue, db, client, hist
  <1>18. ASSUME NEW t \in Token, ExpireToken(t) PROVE OneHeadUnlessForked'
    BY <1>18, AddsNoHeadKeepsOneHead
       DEF ExpireToken, AddsNoHead, Unused, Stored, Rotating, Present, Shape, TypeOK, FrameShape, Fits,
           GoTo, End, Continue, db, client, hist, RefreshToken
  <1>19. ASSUME NEW u \in User, ExpireSession(u) PROVE OneHeadUnlessForked'
    BY <1>19, AddsNoHeadKeepsOneHead
       DEF ExpireSession, AddsNoHead, Unused, Stored, Rotating, Present, Shape, TypeOK, FrameShape, Fits,
           GoTo, End, Continue, db, client, hist
  <1>20. ASSUME NEW r \in Request, RefreshMark(r) PROVE OneHeadUnlessForked'
    <2>1. CASE Present(frame[r].tok)
      BY <1>20, <2>1, MarkKeepsOneHead
    <2>2. CASE ~Present(frame[r].tok)
      BY <1>20, <2>2, AddsNoHeadKeepsOneHead
         DEF RefreshMark, AddsNoHead, Unused, Stored, Rotating, Present, Shape, TypeOK, GoTo, End
    <2> QED
      BY <2>1, <2>2
  <1>21. ASSUME NEW r \in Request, NEW t \in Token, NEW f \in Family, InsertToken(r, t, f) PROVE OneHeadUnlessForked'
    BY <1>21, InsertKeepsOneHead
  <1>23. ASSUME NEW r \in Request, NEW u \in User, VerifyFind(r, u) PROVE OneHeadUnlessForked'
    BY <1>23, AddsNoHeadKeepsOneHead
       DEF VerifyFind, AddsNoHead, Unused, Stored, Rotating, Present, Shape, TypeOK, FrameShape, Fits,
           GoTo, End, Continue, db, client, hist
  <1>24. ASSUME NEW r \in Request, VerifyUse(r) PROVE OneHeadUnlessForked'
    BY <1>24, AddsNoHeadKeepsOneHead, NullAssumption
       DEF VerifyUse, AddsNoHead, Unused, Stored, Rotating, Present, Shape, TypeOK, FrameShape, Fits,
           GoTo, End, Continue, db, client, hist
  <1>25. ASSUME NEW r \in Request, VerifyMark(r) PROVE OneHeadUnlessForked'
    BY <1>25, AddsNoHeadKeepsOneHead, NullAssumption
       DEF VerifyMark, AddsNoHead, Unused, Stored, Rotating, Present, Shape, TypeOK, FrameShape, Fits,
           GoTo, End, Continue, db, client, hist
  <1>26. ASSUME NEW r \in Request, VerifyAudit(r) PROVE OneHeadUnlessForked'
    BY <1>26, AddsNoHeadKeepsOneHead, NullAssumption
       DEF VerifyAudit, AddsNoHead, Unused, Stored, Rotating, Present, Shape, TypeOK, FrameShape, Fits,
           GoTo, End, Continue, db, client, hist, Log
  <1>22. CASE UNCHANGED vars
    BY <1>22 DEF vars, db, client, hist, OneHeadUnlessForked, Unused, Stored, Rotating, Present
  <1> QED
    BY <1>1, <1>2, <1>3, <1>4, <1>5, <1>6, <1>7, <1>8, <1>9, <1>10, <1>11, <1>12, <1>13, <1>14, <1>15, <1>16, <1>17, <1>18, <1>19, <1>20, <1>21, <1>22, <1>23, <1>24, <1>25, <1>26
       DEF Next, Login, VerifyOtp, Refresh, IssueTokenPair, Logout, DeleteAccount

(* Unless one token was marked twice, a family never has two tokens to     *)
(* exchange, nor a token and a rotation that will store another.           *)
THEOREM OneHead == Spec => []OneHeadUnlessForked
  <1>1. Init => OneHeadUnlessForked
    BY DEF Init, OneHeadUnlessForked, Unused, Stored, Rotating, Present
  <1>2. Shape /\ OneHeadUnlessForked /\ [Next]_vars => OneHeadUnlessForked'
    BY StepOneHead
  <1> QED
    BY <1>1, <1>2, ShapeInvariant, PTL DEF Spec

-----------------------------------------------------------------------------
(* The life of a family *)

phases == [f \in Family |-> Phase(f)]

(* A step that opens no family and gives life to none, and takes it from   *)
(* none but g, is a step of the life cycle: g closes, or nothing happens.  *)
LEMMA LosingLife ==
  ASSUME owner' = owner, NEW g,
         \A f \in Family : Alive(f)' => Alive(f),
         \A f \in Family : f # g /\ Alive(f) => Alive(f)'
  PROVE  [Lifecycle!Next]_phases
  <1>1. \A f \in Family : f # g => Phase(f)' = Phase(f)
    BY DEF Phase
  <1>2. CASE g \in Family /\ Phase(g)' # Phase(g)
    <2>1. Phase(g) = "open" /\ Phase(g)' = "closed"
      BY <1>2 DEF Phase
    <2>2. phases' = [phases EXCEPT ![g] = "closed"]
      BY <1>1, <1>2, <2>1 DEF phases
    <2>3. Lifecycle!Close(g)
      BY <1>2, <2>1, <2>2 DEF Lifecycle!Close, phases
    <2> QED
      BY <1>2, <2>3 DEF Lifecycle!Next
  <1>3. CASE ~(g \in Family /\ Phase(g)' # Phase(g))
    BY <1>1, <1>3 DEF phases
  <1> QED
    BY <1>2, <1>3

(* The usual way to meet LosingLife's hypotheses: rows and rotations of    *)
(* families other than g stay, and none appears.                           *)
LosesOnly(g) ==
  /\ owner' = owner
  /\ \A t \in Token, f \in Family : Stored(t, f)' => Stored(t, f)
  /\ \A r \in Request, f \in Family : Rotating(r, f)' => Rotating(r, f)
  /\ \A t \in Token, f \in Family : f # g /\ Stored(t, f) => Stored(t, f)'
  /\ \A r \in Request, f \in Family : f # g /\ Rotating(r, f) => Rotating(r, f)'

LEMMA LosesOnlyStep ==
  ASSUME NEW g, LosesOnly(g)
  PROVE  [Lifecycle!Next]_phases
  <1>1. \A f \in Family : Alive(f)' => Alive(f)
    BY DEF LosesOnly, Alive
  <1>2. \A f \in Family : f # g /\ Alive(f) => Alive(f)'
    BY DEF LosesOnly, Alive
  <1> QED
    BY <1>1, <1>2, LosingLife DEF LosesOnly

(* Marking a token starts a rotation in a family that has a row. *)
LEMMA MarkLifecycle ==
  ASSUME Shape, NEW r \in Request, RefreshMark(r), Present(frame[r].tok)
  PROVE  [Lifecycle!Next]_phases
  <1>1. PICK t \in Token, g \in Family :
          t = frame[r].tok /\ g = frame[r].fam /\ row[t] \in RefreshToken /\ Stored(t, g)
    BY RowType DEF RefreshMark, Shape, TypeOK, FrameShape, Fits, Stored
  <1>2. /\ row' = [row EXCEPT ![t].used = TRUE]
        /\ pc' = [pc EXCEPT ![r] = "user"] /\ frame' = [frame EXCEPT ![r] = frame[r]]
    BY <1>1 DEF RefreshMark, Continue, GoTo
  <1>3. [row[t] EXCEPT !.used = TRUE] # null
    BY <1>1, NullAssumption DEF RefreshToken
  <1>4. \A t1 \in Token, f \in Family : Stored(t1, f)' <=> Stored(t1, f)
    BY <1>1, <1>2, <1>3 DEF Shape, TypeOK, Stored, Present, RefreshToken
  <1>5. \A s \in Request, f \in Family : f # g => (Rotating(s, f)' <=> Rotating(s, f))
    BY <1>1, <1>2 DEF Shape, TypeOK, Rotating
  <1>6. Alive(g) /\ Alive(g)'
    BY <1>1, <1>4 DEF Alive
  <1>7. \A f \in Family : f # g => (Alive(f)' <=> Alive(f))
    BY <1>4, <1>5 DEF Alive
  <1> QED
    BY <1>6, <1>7, LosingLife DEF RefreshMark

(* Inserting a token opens a fresh family or keeps its own alive. *)
LEMMA InsertLifecycle ==
  ASSUME Shape, NEW r \in Request, NEW t \in Token, NEW g \in Family, InsertToken(r, t, g)
  PROVE  [Lifecycle!Next]_phases
  <1> DEFINE new == [user |-> frame[r].usr, family |-> g, used |-> FALSE, expired |-> FALSE]
  <1>1. row' = [row EXCEPT ![t] = new] /\ new # null /\ frame[r].usr \in User /\ row[t] = null
    <2>1. new \in RefreshToken /\ frame[r].usr \in User
      BY DEF InsertToken, Shape, TypeOK, FrameShape, Fits, InFlight, Call, Over, RefreshToken
    <2> QED
      BY <2>1, NullAssumption DEF InsertToken, Shape, RowShape, Present
  <1>2. \A t1 \in Token, f \in Family : Stored(t1, f)' <=> Stored(t1, f) \/ (t1 = t /\ f = g)
    BY <1>1 DEF Shape, TypeOK, Stored, Present
  <1>3. \A s \in Request, f \in Family : f # g => (Rotating(s, f)' <=> Rotating(s, f))
    BY NullAssumption DEF InsertToken, GoTo, Shape, TypeOK, Rotating
  <1>4. Alive(g)' /\ \A f \in Family : f # g => (Alive(f)' <=> Alive(f))
    BY <1>2, <1>3 DEF Alive
  <1>5. CASE frame[r].fam = null
    <2>1. owner[g] = null /\ owner' = [owner EXCEPT ![g] = frame[r].usr]
      BY <1>5 DEF InsertToken
    <2>2. Phase(g) = "unopened" /\ Phase(g)' = "open"
      BY <1>1, <1>4, <2>1, NullAssumption DEF Phase, Shape, TypeOK
    <2>3. \A f \in Family : f # g => Phase(f)' = Phase(f)
      BY <1>4, <2>1 DEF Phase, Shape, TypeOK
    <2>4. Lifecycle!Open(g)
      BY <2>2, <2>3 DEF Lifecycle!Open, phases
    <2> QED
      BY <2>4 DEF Lifecycle!Next
  <1>6. CASE frame[r].fam # null
    <2>1. Alive(g)
      BY <1>6 DEF InsertToken, Rotating, Alive
    <2> QED
      BY <1>4, <1>6, <2>1, LosingLife DEF InsertToken
  <1> QED
    BY <1>5, <1>6

LEMMA StepLifecycle ==
  ASSUME Shape, [Next]_vars
  PROVE  [Lifecycle!Next]_phases
  <1>1. ASSUME NEW r \in Request, NEW u \in User, LoginFind(r, u) PROVE [Lifecycle!Next]_phases
    <2>1. LosesOnly(frame[r].fam)
      BY <1>1, NullAssumption, SMTT(30)
         DEF LoginFind, LosesOnly, Stored, Rotating, Present, Shape, TypeOK, FrameShape, Fits,
             GoTo, End, Continue, db, client, hist
    <2> QED
      BY <2>1, LosesOnlyStep
  <1>2. ASSUME NEW r \in Request, LoginAudit(r) PROVE [Lifecycle!Next]_phases
    <2>1. LosesOnly(frame[r].fam)
      BY <1>2, NullAssumption
         DEF LoginAudit, LosesOnly, Stored, Rotating, Present, Shape, TypeOK, FrameShape, Fits,
             GoTo, End, Continue, db, client, hist, Log
    <2> QED
      BY <2>1, LosesOnlyStep
  <1>3. ASSUME NEW r \in Request, NEW t \in Token, RefreshFind(r, t) PROVE [Lifecycle!Next]_phases
    <2>1. LosesOnly(frame[r].fam)
      BY <1>3, NullAssumption
         DEF RefreshFind, LosesOnly, Stored, Rotating, Present, Shape, TypeOK, FrameShape, Fits,
             GoTo, End, Continue, db, client, hist
    <2> QED
      BY <2>1, LosesOnlyStep
  <1>4. ASSUME NEW r \in Request, RefreshReuse(r) PROVE [Lifecycle!Next]_phases
    <2>1. LosesOnly(frame[r].fam)
      BY <1>4, NullAssumption
         DEF RefreshReuse, LosesOnly, Stored, Rotating, Present, Shape, TypeOK, FrameShape, Fits,
             GoTo, End, Continue, db, client, hist, DeleteFamily, RowsOf
    <2> QED
      BY <2>1, LosesOnlyStep
  <1>5. ASSUME NEW r \in Request, RefreshUser(r) PROVE [Lifecycle!Next]_phases
    <2>1. LosesOnly(frame[r].fam)
      BY <1>5, NullAssumption
         DEF RefreshUser, LosesOnly, Stored, Rotating, Present, Shape, TypeOK, FrameShape, Fits,
             GoTo, End, Continue, db, client, hist
    <2> QED
      BY <2>1, LosesOnlyStep
  <1>6. ASSUME NEW r \in Request, SetSession(r) PROVE [Lifecycle!Next]_phases
    <2>1. LosesOnly(frame[r].fam)
      BY <1>6, NullAssumption
         DEF SetSession, LosesOnly, Stored, Rotating, Present, Shape, TypeOK, FrameShape, Fits,
             GoTo, End, Continue, db, client, hist
    <2> QED
      BY <2>1, LosesOnlyStep
  <1>7. ASSUME NEW r \in Request, NEW u \in User, LogoutWithoutToken(r, u) PROVE [Lifecycle!Next]_phases
    <2>1. LosesOnly(frame[r].fam)
      BY <1>7, NullAssumption
         DEF LogoutWithoutToken, LosesOnly, Stored, Rotating, Present, Shape, TypeOK, FrameShape, Fits,
             GoTo, End, Continue, db, client, hist
    <2> QED
      BY <2>1, LosesOnlyStep
  <1>8. ASSUME NEW r \in Request, NEW u \in User, NEW t \in Token, LogoutFind(r, u, t) PROVE [Lifecycle!Next]_phases
    <2>1. LosesOnly(frame[r].fam)
      BY <1>8, NullAssumption
         DEF LogoutFind, LosesOnly, Stored, Rotating, Present, Shape, TypeOK, FrameShape, Fits,
             GoTo, End, Continue, db, client, hist
    <2> QED
      BY <2>1, LosesOnlyStep
  <1>9. ASSUME NEW r \in Request, LogoutRevoke(r) PROVE [Lifecycle!Next]_phases
    <2>1. LosesOnly(frame[r].fam)
      BY <1>9, NullAssumption
         DEF LogoutRevoke, LosesOnly, Stored, Rotating, Present, Shape, TypeOK, FrameShape, Fits,
             GoTo, End, Continue, db, client, hist, DeleteFamily, RowsOf
    <2> QED
      BY <2>1, LosesOnlyStep
  <1>10. ASSUME NEW r \in Request, LogoutSession(r) PROVE [Lifecycle!Next]_phases
    <2>1. LosesOnly(frame[r].fam)
      BY <1>10, NullAssumption
         DEF LogoutSession, LosesOnly, Stored, Rotating, Present, Shape, TypeOK, FrameShape, Fits,
             GoTo, End, Continue, db, client, hist, DropSession
    <2> QED
      BY <2>1, LosesOnlyStep
  <1>11. ASSUME NEW r \in Request, LogoutAudit(r) PROVE [Lifecycle!Next]_phases
    <2>1. LosesOnly(frame[r].fam)
      BY <1>11, NullAssumption
         DEF LogoutAudit, LosesOnly, Stored, Rotating, Present, Shape, TypeOK, FrameShape, Fits,
             GoTo, End, Continue, db, client, hist, Log
    <2> QED
      BY <2>1, LosesOnlyStep
  <1>12. ASSUME NEW r \in Request, NEW u \in User, DeleteFind(r, u) PROVE [Lifecycle!Next]_phases
    <2>1. LosesOnly(frame[r].fam)
      BY <1>12, NullAssumption
         DEF DeleteFind, LosesOnly, Stored, Rotating, Present, Shape, TypeOK, FrameShape, Fits,
             GoTo, End, Continue, db, client, hist
    <2> QED
      BY <2>1, LosesOnlyStep
  <1>13. ASSUME NEW r \in Request, DeleteMark(r) PROVE [Lifecycle!Next]_phases
    <2>1. LosesOnly(frame[r].fam)
      BY <1>13, NullAssumption
         DEF DeleteMark, LosesOnly, Stored, Rotating, Present, Shape, TypeOK, FrameShape, Fits,
             GoTo, End, Continue, db, client, hist
    <2> QED
      BY <2>1, LosesOnlyStep
  <1>14. ASSUME NEW r \in Request, DeleteSession(r) PROVE [Lifecycle!Next]_phases
    <2>1. LosesOnly(frame[r].fam)
      BY <1>14, NullAssumption
         DEF DeleteSession, LosesOnly, Stored, Rotating, Present, Shape, TypeOK, FrameShape, Fits,
             GoTo, End, Continue, db, client, hist, DropSession
    <2> QED
      BY <2>1, LosesOnlyStep
  <1>15. ASSUME NEW r \in Request, DeletePublish(r) PROVE [Lifecycle!Next]_phases
    <2>1. LosesOnly(frame[r].fam)
      BY <1>15, NullAssumption
         DEF DeletePublish, LosesOnly, Stored, Rotating, Present, Shape, TypeOK, FrameShape, Fits,
             GoTo, End, Continue, db, client, hist
    <2> QED
      BY <2>1, LosesOnlyStep
  <1>16. ASSUME NEW r \in Request, DeleteAudit(r) PROVE [Lifecycle!Next]_phases
    <2>1. LosesOnly(frame[r].fam)
      BY <1>16, NullAssumption
         DEF DeleteAudit, LosesOnly, Stored, Rotating, Present, Shape, TypeOK, FrameShape, Fits,
             GoTo, End, Continue, db, client, hist, Log
    <2> QED
      BY <2>1, LosesOnlyStep
  <1>17. ASSUME NEW r \in Request, Abort(r) PROVE [Lifecycle!Next]_phases
    <2>1. LosesOnly(frame[r].fam)
      BY <1>17, NullAssumption
         DEF Abort, LosesOnly, Stored, Rotating, Present, Shape, TypeOK, FrameShape, Fits,
             GoTo, End, Continue, db, client, hist
    <2> QED
      BY <2>1, LosesOnlyStep
  <1>18. ASSUME NEW t \in Token, ExpireToken(t) PROVE [Lifecycle!Next]_phases
    <2>1. row' = [row EXCEPT ![t].expired = TRUE] /\ [row[t] EXCEPT !.expired = TRUE] \in RefreshToken
      BY <1>18, RowType DEF ExpireToken, Shape, RefreshToken
    <2>2. [row[t] EXCEPT !.expired = TRUE] # null /\ row[t] \in RefreshToken
      BY <1>18, <2>1, RowType, NullAssumption DEF ExpireToken, Shape
    <2>3. \A t1 \in Token, f \in Family : Stored(t1, f)' <=> Stored(t1, f)
      BY <1>18, <2>1, <2>2 DEF ExpireToken, Shape, TypeOK, Stored, Present, RefreshToken
    <2>4. LosesOnly(null)
      BY <1>18, <2>3 DEF ExpireToken, LosesOnly, Rotating, hist
    <2> QED
      BY <2>4, LosesOnlyStep
  <1>19. ASSUME NEW u \in User, ExpireSession(u) PROVE [Lifecycle!Next]_phases
    <2>1. LosesOnly(null)
      BY <1>19, NullAssumption
         DEF ExpireSession, LosesOnly, Stored, Rotating, Present, Shape, TypeOK, FrameShape, Fits,
             GoTo, End, Continue, db, client, hist
    <2> QED
      BY <2>1, LosesOnlyStep
  <1>20. ASSUME NEW r \in Request, RefreshMark(r) PROVE [Lifecycle!Next]_phases
    <2>1. CASE Present(frame[r].tok)
      BY <1>20, <2>1, MarkLifecycle
    <2>2. CASE ~Present(frame[r].tok)
      <3>1. LosesOnly(frame[r].fam)
        BY <1>20, <2>2, NullAssumption
           DEF RefreshMark, LosesOnly, Stored, Rotating, Present, Shape, TypeOK, GoTo, End
      <3> QED
        BY <3>1, LosesOnlyStep
    <2> QED
      BY <2>1, <2>2
  <1>21. ASSUME NEW r \in Request, NEW t \in Token, NEW f \in Family, InsertToken(r, t, f) PROVE [Lifecycle!Next]_phases
    BY <1>21, InsertLifecycle
  <1>23. ASSUME NEW r \in Request, NEW u \in User, VerifyFind(r, u) PROVE [Lifecycle!Next]_phases
    <2>1. LosesOnly(frame[r].fam)
      BY <1>23, NullAssumption, SMTT(30)
         DEF VerifyFind, LosesOnly, Stored, Rotating, Present, Shape, TypeOK, FrameShape, Fits,
             GoTo, End, Continue, db, client, hist
    <2> QED
      BY <2>1, LosesOnlyStep
  <1>24. ASSUME NEW r \in Request, VerifyUse(r) PROVE [Lifecycle!Next]_phases
    <2>1. LosesOnly(frame[r].fam)
      BY <1>24, NullAssumption
         DEF VerifyUse, LosesOnly, Stored, Rotating, Present, Shape, TypeOK, FrameShape, Fits,
             GoTo, End, Continue, db, client, hist
    <2> QED
      BY <2>1, LosesOnlyStep
  <1>25. ASSUME NEW r \in Request, VerifyMark(r) PROVE [Lifecycle!Next]_phases
    <2>1. LosesOnly(frame[r].fam)
      BY <1>25, NullAssumption
         DEF VerifyMark, LosesOnly, Stored, Rotating, Present, Shape, TypeOK, FrameShape, Fits,
             GoTo, End, Continue, db, client, hist
    <2> QED
      BY <2>1, LosesOnlyStep
  <1>26. ASSUME NEW r \in Request, VerifyAudit(r) PROVE [Lifecycle!Next]_phases
    <2>1. LosesOnly(frame[r].fam)
      BY <1>26, NullAssumption
         DEF VerifyAudit, LosesOnly, Stored, Rotating, Present, Shape, TypeOK, FrameShape, Fits,
             GoTo, End, Continue, db, client, hist, Log
    <2> QED
      BY <2>1, LosesOnlyStep
  <1>22. CASE UNCHANGED vars
    <2>1. LosesOnly(null)
      BY <1>22 DEF vars, db, client, hist, LosesOnly, Stored, Rotating, Present
    <2> QED
      BY <2>1, LosesOnlyStep
  <1> QED
    BY <1>1, <1>2, <1>3, <1>4, <1>5, <1>6, <1>7, <1>8, <1>9, <1>10, <1>11, <1>12, <1>13, <1>14, <1>15, <1>16, <1>17, <1>18, <1>19, <1>20, <1>21, <1>22, <1>23, <1>24, <1>25, <1>26
       DEF Next, Login, VerifyOtp, Refresh, IssueTokenPair, Logout, DeleteAccount

(* The auth service implements the life cycle of families: no interleaving *)
(* of logins, rotations, revocations and crashes brings a closed family    *)
(* back or opens one twice.                                                *)
THEOREM RevocationFinal == Spec => RevocationIsFinal
  <1>1. Init => Lifecycle!Init
    BY DEF Init, Lifecycle!Init, Phase
  <1>2. Shape /\ [Next]_vars => [Lifecycle!Next]_phases
    BY StepLifecycle
  <1> QED
    BY <1>1, <1>2, ShapeInvariant, PTL DEF Spec, RevocationIsFinal, Lifecycle!Spec, phases

-----------------------------------------------------------------------------
(* A deleted account that is logged out *)

LEMMA StepOut ==
  ASSUME Shape, NEW v \in User, Out(v), [Next]_vars
  PROVE  Out(v)'
  <1>1. ASSUME NEW r \in Request, NEW u \in User, LoginFind(r, u) PROVE Out(v)'
    <2>1. \A s \in Request : Issuing(s, v)' => Issuing(s, v)
      <3>1. CASE u # v /\ GoTo(r, "loginAudit", [NoFrame EXCEPT !.usr = u])
        BY <3>1 DEF GoTo, NoFrame, Issuing, Shape, TypeOK
      <3>2. CASE End(r, "failed")
        BY <3>2 DEF End, GoTo, Issuing, Shape, TypeOK
      <3> QED
        BY <1>1, <3>1, <3>2 DEF LoginFind, FindableByEmail, Out
    <2> QED
      BY <1>1, <2>1 DEF LoginFind, Out, Present, db, client
  <1>2. ASSUME NEW r \in Request, LoginAudit(r) PROVE Out(v)'
    BY <1>2
       DEF LoginAudit, Out, Issuing, Present, Shape, TypeOK, GoTo, End, Continue, db, client, hist, Log
  <1>3. ASSUME NEW r \in Request, NEW t \in Token, RefreshFind(r, t) PROVE Out(v)'
    BY <1>3
       DEF RefreshFind, Out, Issuing, Present, Shape, TypeOK, GoTo, End, Continue, db, client, hist, RefreshToken, RowShape
  <1>4. ASSUME NEW r \in Request, RefreshReuse(r) PROVE Out(v)'
    BY <1>4
       DEF RefreshReuse, Out, Issuing, Present, Shape, TypeOK, GoTo, End, Continue, db, client, hist, DeleteFamily, RowsOf
  <1>5. ASSUME NEW r \in Request, RefreshMark(r) PROVE Out(v)'
    <2>1. CASE Present(frame[r].tok)
      <3>1. PICK t \in Token : t = frame[r].tok /\ row[t] \in RefreshToken /\ Present(t)
        BY <1>5, <2>1, RowType DEF RefreshMark, Shape, TypeOK, FrameShape, Fits
      <3>2. row[t].user = frame[r].usr
        BY <1>5, <3>1 DEF RefreshMark, Shape, RowShape, FrameShape, Fits
      <3>3. frame[r].usr # v
        BY <3>1, <3>2 DEF Out
      <3>4. row' = [row EXCEPT ![t].used = TRUE]
        BY <1>5, <3>1 DEF RefreshMark
      <3>5. \A t1 \in Token : Present(t1)' => row'[t1].user # v
        BY <3>1, <3>2, <3>3, <3>4 DEF Out, Present, Shape, TypeOK, RefreshToken
      <3>6. \A s \in Request : Issuing(s, v)' => Issuing(s, v)
        BY <1>5, <3>1, <3>3 DEF RefreshMark, GoTo, Continue, Issuing, Shape, TypeOK
      <3> QED
        BY <1>5, <3>5, <3>6 DEF RefreshMark, Out, client
    <2>2. CASE ~Present(frame[r].tok)
      BY <1>5, <2>2
         DEF RefreshMark, Out, Issuing, Present, Shape, TypeOK, GoTo, End, client
    <2> QED
      BY <2>1, <2>2
  <1>6. ASSUME NEW r \in Request, RefreshUser(r) PROVE Out(v)'
    BY <1>6
       DEF RefreshUser, Out, Issuing, Present, Shape, TypeOK, GoTo, End, Continue, db, client, hist
  <1>7. ASSUME NEW r \in Request, NEW t \in Token, NEW f \in Family, InsertToken(r, t, f) PROVE Out(v)'
    BY <1>7
       DEF InsertToken, Out, Issuing, Present, Shape, TypeOK, GoTo, End, Continue, db, client, hist, RefreshToken
  <1>8. ASSUME NEW r \in Request, SetSession(r) PROVE Out(v)'
    BY <1>8
       DEF SetSession, Out, Issuing, Present, Shape, TypeOK, GoTo, End, Continue, db, client, hist
  <1>9. ASSUME NEW r \in Request, NEW u \in User, LogoutWithoutToken(r, u) PROVE Out(v)'
    BY <1>9
       DEF LogoutWithoutToken, Out, Issuing, Present, Shape, TypeOK, GoTo, End, Continue, db, client, hist
  <1>10. ASSUME NEW r \in Request, NEW u \in User, NEW t \in Token, LogoutFind(r, u, t) PROVE Out(v)'
    BY <1>10
       DEF LogoutFind, Out, Issuing, Present, Shape, TypeOK, GoTo, End, Continue, db, client, hist
  <1>11. ASSUME NEW r \in Request, LogoutRevoke(r) PROVE Out(v)'
    BY <1>11
       DEF LogoutRevoke, Out, Issuing, Present, Shape, TypeOK, GoTo, End, Continue, db, client, hist, DeleteFamily, RowsOf
  <1>12. ASSUME NEW r \in Request, LogoutSession(r) PROVE Out(v)'
    BY <1>12
       DEF LogoutSession, Out, Issuing, Present, Shape, TypeOK, GoTo, End, Continue, db, client, hist, DropSession
  <1>13. ASSUME NEW r \in Request, LogoutAudit(r) PROVE Out(v)'
    BY <1>13
       DEF LogoutAudit, Out, Issuing, Present, Shape, TypeOK, GoTo, End, Continue, db, client, hist, Log
  <1>14. ASSUME NEW r \in Request, NEW u \in User, DeleteFind(r, u) PROVE Out(v)'
    BY <1>14
       DEF DeleteFind, Out, Issuing, Present, Shape, TypeOK, GoTo, End, Continue, db, client, hist
  <1>15. ASSUME NEW r \in Request, DeleteMark(r) PROVE Out(v)'
    BY <1>15
       DEF DeleteMark, Out, Issuing, Present, Shape, TypeOK, GoTo, End, Continue, db, client, hist
  <1>16. ASSUME NEW r \in Request, DeleteSession(r) PROVE Out(v)'
    BY <1>16
       DEF DeleteSession, Out, Issuing, Present, Shape, TypeOK, GoTo, End, Continue, db, client, hist, DropSession
  <1>17. ASSUME NEW r \in Request, DeletePublish(r) PROVE Out(v)'
    BY <1>17
       DEF DeletePublish, Out, Issuing, Present, Shape, TypeOK, GoTo, End, Continue, db, client, hist
  <1>18. ASSUME NEW r \in Request, DeleteAudit(r) PROVE Out(v)'
    BY <1>18
       DEF DeleteAudit, Out, Issuing, Present, Shape, TypeOK, GoTo, End, Continue, db, client, hist, Log
  <1>19. ASSUME NEW r \in Request, Abort(r) PROVE Out(v)'
    BY <1>19
       DEF Abort, Out, Issuing, Present, Shape, TypeOK, GoTo, End, Continue, db, client, hist
  <1>20. ASSUME NEW t \in Token, ExpireToken(t) PROVE Out(v)'
    BY <1>20
       DEF ExpireToken, Out, Issuing, Present, Shape, TypeOK, GoTo, End, Continue, db, client, hist, RefreshToken
  <1>21. ASSUME NEW u \in User, ExpireSession(u) PROVE Out(v)'
    BY <1>21
       DEF ExpireSession, Out, Issuing, Present, Shape, TypeOK, GoTo, End, Continue, db, client, hist
  <1>23. ASSUME NEW r \in Request, NEW u \in User, VerifyFind(r, u) PROVE Out(v)'
    <2>1. \A s \in Request : Issuing(s, v)' => Issuing(s, v)
      <3>1. CASE u # v /\ GoTo(r, "useOtp", [NoFrame EXCEPT !.usr = u])
        BY <3>1 DEF GoTo, NoFrame, Issuing, Shape, TypeOK
      <3>2. CASE End(r, "failed")
        BY <3>2 DEF End, GoTo, Issuing, Shape, TypeOK
      <3> QED
        BY <1>23, <3>1, <3>2 DEF VerifyFind, FindableByEmail, Out
    <2> QED
      BY <1>23, <2>1 DEF VerifyFind, Out, Present, db, client
  <1>24. ASSUME NEW r \in Request, VerifyUse(r) PROVE Out(v)'
    BY <1>24
       DEF VerifyUse, Out, Issuing, Present, Shape, TypeOK, GoTo, End, Continue, db, client, hist
  <1>25. ASSUME NEW r \in Request, VerifyMark(r) PROVE Out(v)'
    BY <1>25
       DEF VerifyMark, Out, Issuing, Present, Shape, TypeOK, GoTo, End, Continue, db, client, hist
  <1>26. ASSUME NEW r \in Request, VerifyAudit(r) PROVE Out(v)'
    BY <1>26
       DEF VerifyAudit, Out, Issuing, Present, Shape, TypeOK, GoTo, End, Continue, db, client, hist, Log
  <1>22. CASE UNCHANGED vars
    BY <1>22 DEF vars, db, client, hist, Out, Issuing, Present
  <1> QED
    BY <1>1, <1>2, <1>3, <1>4, <1>5, <1>6, <1>7, <1>8, <1>9, <1>10, <1>11, <1>12, <1>13, <1>14, <1>15, <1>16, <1>17, <1>18, <1>19, <1>20, <1>21, <1>22, <1>23, <1>24, <1>25, <1>26
       DEF Next, Login, VerifyOtp, Refresh, IssueTokenPair, Logout, DeleteAccount

(* Whatever is in flight for other users, an account that is deleted and   *)
(* has no token left is never issued a token or a session key again.       *)
THEOREM DeletedStaysOut == Spec => DeletedAndLoggedOutStaysOut
  <1>1. Shape /\ [Next]_vars => [\A u \in User : Out(u) => Out(u)']_vars
    BY StepOut
  <1> QED
    BY <1>1, ShapeInvariant, PTL DEF Spec, DeletedAndLoggedOutStaysOut

-----------------------------------------------------------------------------
(* What a deletion leaves behind *)

(* What deleteAccount has written when it is at a call, and what stands    *)
(* where its audit row stands.                                             *)
DeletionSteps ==
  \A r \in Request :
    /\ pc[r] \in {"deleteSession", "publish", "deleteAudit"} => frame[r].usr \in deleted
    /\ pc[r] = "deleteAudit" => frame[r].usr \in published

Deletions == DeletionSteps /\ DeletionTrail

(* A step that writes no ACCOUNT_DELETED row and takes neither the mark    *)
(* nor the event back.                                                     *)
Keeps ==
  /\ \A u \in User : audit'[u]["ACCOUNT_DELETED"] = audit[u]["ACCOUNT_DELETED"]
  /\ deleted \subseteq deleted' /\ published \subseteq published'

LEMMA KeepsTrail ==
  ASSUME Keeps, DeletionTrail
  PROVE  DeletionTrail'
  BY DEF Keeps, DeletionTrail

(* A request that goes to a call outside the tail of deleteAccount.        *)
LEMMA GoingElsewhere ==
  ASSUME Shape, DeletionSteps, deleted \subseteq deleted', published \subseteq published',
         NEW r \in Request, NEW next, NEW locals, GoTo(r, next, locals),
         next \notin {"deleteSession", "publish", "deleteAudit"}
  PROVE  DeletionSteps'
  BY DEF DeletionSteps, GoTo, Shape, TypeOK

LEMMA OtherLog ==
  ASSUME Shape, NEW u \in User, NEW e \in Event \ {"ACCOUNT_DELETED"}, Log(u, e)
  PROVE  \A v \in User : audit'[v]["ACCOUNT_DELETED"] = audit[v]["ACCOUNT_DELETED"]
  BY DEF Log, Event, Shape, TypeOK

LEMMA StepDeletions ==
  ASSUME Shape, Deletions, [Next]_vars
  PROVE  Deletions'
  <1> USE DEF Deletions
  <1>1. ASSUME NEW r \in Request, NEW u \in User, LoginFind(r, u) PROVE Deletions'
    BY <1>1, KeepsTrail, GoingElsewhere DEF LoginFind, End, Keeps, db, client
  <1>2. ASSUME NEW r \in Request, LoginAudit(r) PROVE Deletions'
    <2>1. frame[r].usr \in User
      BY <1>2 DEF LoginAudit, Shape, FrameShape, Fits, InFlight, Call, Over
    <2>2. Keeps
      BY <1>2, <2>1, OtherLog DEF LoginAudit, Keeps, Event, client
    <2> QED BY <1>2, <2>2, KeepsTrail, GoingElsewhere DEF LoginAudit, Continue, Keeps
  <1>3. ASSUME NEW r \in Request, NEW t \in Token, RefreshFind(r, t) PROVE Deletions'
    BY <1>3, KeepsTrail, GoingElsewhere DEF RefreshFind, End, Keeps, db, client
  <1>4. ASSUME NEW r \in Request, RefreshReuse(r) PROVE Deletions'
    BY <1>4, KeepsTrail, GoingElsewhere DEF RefreshReuse, End, Keeps, client
  <1>5. ASSUME NEW r \in Request, RefreshMark(r) PROVE Deletions'
    BY <1>5, KeepsTrail, GoingElsewhere DEF RefreshMark, End, Continue, Keeps, client
  <1>6. ASSUME NEW r \in Request, RefreshUser(r) PROVE Deletions'
    BY <1>6, KeepsTrail, GoingElsewhere DEF RefreshUser, Continue, Keeps, db, client
  <1>7. ASSUME NEW r \in Request, NEW t \in Token, NEW f \in Family, InsertToken(r, t, f) PROVE Deletions'
    BY <1>7, KeepsTrail, GoingElsewhere DEF InsertToken, Keeps, client
  <1>8. ASSUME NEW r \in Request, SetSession(r) PROVE Deletions'
    BY <1>8, KeepsTrail, GoingElsewhere DEF SetSession, End, Keeps, db
  <1>9. ASSUME NEW r \in Request, NEW u \in User, LogoutWithoutToken(r, u) PROVE Deletions'
    BY <1>9, KeepsTrail, GoingElsewhere DEF LogoutWithoutToken, Keeps, db, client
  <1>10. ASSUME NEW r \in Request, NEW u \in User, NEW t \in Token, LogoutFind(r, u, t) PROVE Deletions'
    BY <1>10, KeepsTrail, GoingElsewhere DEF LogoutFind, Keeps, db, client
  <1>11. ASSUME NEW r \in Request, LogoutRevoke(r) PROVE Deletions'
    BY <1>11, KeepsTrail, GoingElsewhere DEF LogoutRevoke, Continue, Keeps, client
  <1>12. ASSUME NEW r \in Request, LogoutSession(r) PROVE Deletions'
    BY <1>12, KeepsTrail, GoingElsewhere DEF LogoutSession, Continue, Keeps, db
  <1>13. ASSUME NEW r \in Request, LogoutAudit(r) PROVE Deletions'
    <2>1. frame[r].usr \in User
      BY <1>13 DEF LogoutAudit, Shape, FrameShape, Fits, InFlight, Call, Over
    <2>2. Keeps
      BY <1>13, <2>1, OtherLog DEF LogoutAudit, Keeps, Event, client
    <2> QED BY <1>13, <2>2, KeepsTrail, GoingElsewhere DEF LogoutAudit, End, Keeps
  <1>14. ASSUME NEW r \in Request, NEW u \in User, DeleteFind(r, u) PROVE Deletions'
    BY <1>14, KeepsTrail, GoingElsewhere DEF DeleteFind, Keeps, db, client
  <1>15. ASSUME NEW r \in Request, DeleteMark(r) PROVE Deletions'
    <2>1. DeletionSteps'
      BY <1>15 DEF DeleteMark, Continue, GoTo, DeletionSteps, client, Shape, TypeOK
    <2> QED BY <1>15, <2>1, KeepsTrail DEF DeleteMark, Keeps, client
  <1>16. ASSUME NEW r \in Request, DeleteSession(r) PROVE Deletions'
    <2>1. DeletionSteps'
      BY <1>16 DEF DeleteSession, Continue, GoTo, DeletionSteps, db, Shape, TypeOK
    <2> QED BY <1>16, <2>1, KeepsTrail DEF DeleteSession, Keeps, db
  <1>17. ASSUME NEW r \in Request, DeletePublish(r) PROVE Deletions'
    <2>1. DeletionSteps'
      BY <1>17 DEF DeletePublish, Continue, GoTo, DeletionSteps, db, Shape, TypeOK
    <2> QED BY <1>17, <2>1, KeepsTrail DEF DeletePublish, Keeps, db
  <1>18. ASSUME NEW r \in Request, DeleteAudit(r) PROVE Deletions'
    <2>1. frame[r].usr \in deleted \intersect published
      BY <1>18 DEF DeleteAudit, DeletionSteps
    <2>2. \A v \in User \ {frame[r].usr} : audit'[v] = audit[v]
      BY <1>18 DEF DeleteAudit, Log, Shape, TypeOK
    <2>3. DeletionTrail'
      BY <1>18, <2>1, <2>2 DEF DeleteAudit, DeletionTrail, client
    <2> QED BY <1>18, <2>3, GoingElsewhere DEF DeleteAudit, End, client
  <1>19. ASSUME NEW r \in Request, Abort(r) PROVE Deletions'
    BY <1>19, KeepsTrail, GoingElsewhere DEF Abort, End, Keeps, db, client
  <1>20. ASSUME NEW t \in Token, ExpireToken(t) PROVE Deletions'
    BY <1>20 DEF ExpireToken, client, DeletionSteps, DeletionTrail
  <1>21. ASSUME NEW u \in User, ExpireSession(u) PROVE Deletions'
    BY <1>21 DEF ExpireSession, db, DeletionSteps, DeletionTrail
  <1>23. ASSUME NEW r \in Request, NEW u \in User, VerifyFind(r, u) PROVE Deletions'
    BY <1>23, KeepsTrail, GoingElsewhere DEF VerifyFind, End, Keeps, db, client
  <1>24. ASSUME NEW r \in Request, VerifyUse(r) PROVE Deletions'
    BY <1>24, KeepsTrail, GoingElsewhere DEF VerifyUse, Continue, Keeps, client
  <1>25. ASSUME NEW r \in Request, VerifyMark(r) PROVE Deletions'
    BY <1>25, KeepsTrail, GoingElsewhere DEF VerifyMark, Continue, Keeps, client
  <1>26. ASSUME NEW r \in Request, VerifyAudit(r) PROVE Deletions'
    <2>1. frame[r].usr \in User
      BY <1>26 DEF VerifyAudit, Shape, FrameShape, Fits, InFlight, Call, Over
    <2>2. Keeps
      BY <1>26, <2>1, OtherLog DEF VerifyAudit, Keeps, Event, client
    <2> QED BY <1>26, <2>2, KeepsTrail, GoingElsewhere DEF VerifyAudit, Continue, Keeps
  <1>22. CASE UNCHANGED vars
    BY <1>22 DEF vars, db, client, DeletionSteps, DeletionTrail
  <1> QED
    BY <1>1, <1>2, <1>3, <1>4, <1>5, <1>6, <1>7, <1>8, <1>9, <1>10, <1>11, <1>12, <1>13, <1>14, <1>15, <1>16, <1>17, <1>18, <1>19, <1>20, <1>21, <1>22, <1>23, <1>24, <1>25, <1>26
       DEF Next, Login, VerifyOtp, Refresh, IssueTokenPair, Logout, DeleteAccount

(* However many deletions of an account overlap and crash                  *)
(* (auth.service.ts:124-132), the ACCOUNT_DELETED row stands only where the*)
(* account is marked and its user.deleted event was published.             *)
THEOREM DeletionLeavesTrail == Spec => []DeletionTrail
  <1>1. Init => Deletions
    BY DEF Init, Deletions, DeletionSteps, DeletionTrail, Event
  <1>2. Shape /\ Deletions /\ [Next]_vars => Deletions'
    BY StepDeletions
  <1>3. Deletions => DeletionTrail
    BY DEF Deletions
  <1> QED
    BY <1>1, <1>2, <1>3, ShapeInvariant, PTL DEF Spec

-----------------------------------------------------------------------------
(* Families and the rows of the logins and verifications that open them *)

Opened(u)  == {f \in Family : owner[f] = u}

(* Logins and verifications that are audited and have still to open their *)
(* family.                                                                 *)
Opening(u) == {r \in Request : pc[r] = "insert" /\ frame[r].fam = null /\ frame[r].usr = u}

(* There is a row for each family of u and each one about to be opened.    *)
Covered(u) ==
  /\ IsFiniteSet(Opened(u)) /\ IsFiniteSet(Opening(u))
  /\ Cardinality(Opened(u)) + Cardinality(Opening(u)) <= Entered(u)

LEMMA EnteredNat ==
  ASSUME Shape, NEW u \in User
  PROVE  Entered(u) \in Nat /\ audit[u]["LOGIN"] \in Nat /\ audit[u]["EMAIL_VERIFIED"] \in Nat
  <1>1. audit[u]["LOGIN"] \in Nat /\ audit[u]["EMAIL_VERIFIED"] \in Nat
    BY DEF Shape, TypeOK, Event
  <1> QED BY <1>1 DEF Entered

(* A step after which u has the same families and rows and no more about   *)
(* to be opened.                                                           *)
LEMMA StillCovered ==
  ASSUME Shape, NEW u \in User, Covered(u), owner' = owner,
         Entered(u)' = Entered(u), Opening(u)' \subseteq Opening(u)
  PROVE  Covered(u)'
  <1>1. Opened(u)' = Opened(u)
    BY DEF Opened
  <1>2. IsFiniteSet(Opening(u)') /\ Cardinality(Opening(u)') <= Cardinality(Opening(u))
    BY FS_Subset DEF Covered
  <1>3. Cardinality(Opening(u)') \in Nat /\ Cardinality(Opening(u)) \in Nat /\ Cardinality(Opened(u)) \in Nat
    BY <1>2, FS_CardinalityType DEF Covered
  <1>4. Entered(u) \in Nat
    BY EnteredNat
  <1> QED BY <1>1, <1>2, <1>3, <1>4 DEF Covered

(* A request that goes on, but not from its row to the insert. *)
LEMMA NotOpening ==
  ASSUME Shape, NEW u \in User, NEW r \in Request, NEW next, NEW locals, GoTo(r, next, locals),
         next # "insert" \/ locals.fam # null
  PROVE  Opening(u)' \subseteq Opening(u)
  BY DEF Opening, GoTo, Shape, TypeOK

LEMMA AnotherLog ==
  ASSUME Shape, NEW u \in User, NEW e \in Event \ {"LOGIN", "EMAIL_VERIFIED"}, Log(u, e)
  PROVE  \A v \in User : Entered(v)' = Entered(v)
  BY DEF Log, Event, Shape, TypeOK, Entered

(* An audit row that is written before the insert: one more row, one more  *)
(* family about to be opened.                                              *)
LEMMA AuditCovers ==
  ASSUME Shape, NEW u \in User, Covered(u), NEW r \in Request, NEW e \in {"LOGIN", "EMAIL_VERIFIED"},
         pc[r] \in {"loginAudit", "verifyAudit"}, Log(frame[r].usr, e), Continue(r, "insert"),
         owner' = owner
  PROVE  Covered(u)'
  <1>1. frame[r].usr \in User /\ frame[r].fam = null
    BY DEF Shape, FrameShape, Fits, InFlight, Call, Over
  <1>2. Opened(u)' = Opened(u)
    BY DEF Opened
  <1>3. Entered(u) \in Nat /\ Cardinality(Opened(u)) \in Nat /\ Cardinality(Opening(u)) \in Nat
    BY FS_CardinalityType, EnteredNat DEF Covered
  <1>4. CASE frame[r].usr = u
    <2>1. Opening(u)' = Opening(u) \union {r} /\ r \notin Opening(u)
      BY <1>1, <1>4 DEF Continue, GoTo, Opening, Shape, TypeOK
    <2>2. IsFiniteSet(Opening(u)') /\ Cardinality(Opening(u)') = Cardinality(Opening(u)) + 1
      BY <2>1, FS_AddElement DEF Covered
    <2>3. \A x \in Event : audit'[u][x] = IF x = e THEN audit[u][x] + 1 ELSE audit[u][x]
      BY <1>4 DEF Log, Shape, TypeOK, Event
    <2>4. Entered(u)' = Entered(u) + 1
      BY <2>3, EnteredNat DEF Entered, Event
    <2> QED BY <1>2, <1>3, <2>2, <2>4 DEF Covered
  <1>5. CASE frame[r].usr # u
    <2>1. Opening(u)' = Opening(u)
      BY <1>1, <1>5 DEF Continue, GoTo, Opening, Shape, TypeOK
    <2>2. Entered(u)' = Entered(u)
      BY <1>1, <1>5 DEF Log, Shape, TypeOK, Entered
    <2> QED BY <1>2, <2>1, <2>2 DEF Covered
  <1> QED BY <1>4, <1>5

(* InsertToken: a request that opens its family is no longer about to. *)
LEMMA InsertCovers ==
  ASSUME Shape, NEW u \in User, Covered(u),
         NEW r \in Request, NEW t \in Token, NEW f \in Family, InsertToken(r, t, f)
  PROVE  Covered(u)'
  <1>1. Opening(u)' = Opening(u) \ {r}
    BY DEF InsertToken, GoTo, Opening, Shape, TypeOK
  <1>2. audit' = audit
    BY DEF InsertToken
  <1>3. CASE frame[r].fam = null /\ frame[r].usr = u
    <2>1. owner[f] = null /\ owner' = [owner EXCEPT ![f] = u]
      BY <1>3 DEF InsertToken
    <2>2. r \in Opening(u)
      BY <1>3 DEF InsertToken, Opening
    <2>3. Opened(u)' = Opened(u) \union {f} /\ f \notin Opened(u)
      BY <2>1, NullAssumption DEF Opened, Shape, TypeOK
    <2>4. IsFiniteSet(Opened(u)') /\ Cardinality(Opened(u)') = Cardinality(Opened(u)) + 1
      BY <2>3, FS_AddElement DEF Covered
    <2>5. IsFiniteSet(Opening(u)') /\ Cardinality(Opening(u)') = Cardinality(Opening(u)) - 1
      BY <1>1, <2>2, FS_RemoveElement DEF Covered
    <2>6. Entered(u) \in Nat /\ Entered(u)' = Entered(u)
          /\ Cardinality(Opened(u)) \in Nat /\ Cardinality(Opening(u)) \in Nat
      BY <1>2, FS_CardinalityType, EnteredNat DEF Covered, Entered
    <2> QED BY <1>2, <2>4, <2>5, <2>6 DEF Covered
  <1>4. CASE ~(frame[r].fam = null /\ frame[r].usr = u)
    <2>1. Opened(u)' = Opened(u)
      BY <1>4, NullAssumption DEF InsertToken, Opened, Shape, TypeOK
    <2>2. Opening(u)' = Opening(u)
      BY <1>1, <1>4 DEF Opening
    <2> QED BY <1>2, <2>1, <2>2 DEF Covered, Entered
  <1> QED BY <1>3, <1>4

LEMMA StepCovered ==
  ASSUME Shape, NEW v \in User, Covered(v), [Next]_vars
  PROVE  Covered(v)'
  <1>1. ASSUME NEW r \in Request, NEW u \in User, LoginFind(r, u) PROVE Covered(v)'
    BY <1>1, NotOpening, StillCovered DEF LoginFind, End, db, hist, Entered
  <1>2. ASSUME NEW r \in Request, LoginAudit(r) PROVE Covered(v)'
    BY <1>2, AuditCovers DEF LoginAudit, hist
  <1>3. ASSUME NEW r \in Request, NEW t \in Token, RefreshFind(r, t) PROVE Covered(v)'
    BY <1>3, NotOpening, StillCovered DEF RefreshFind, End, db, hist, Entered
  <1>4. ASSUME NEW r \in Request, RefreshReuse(r) PROVE Covered(v)'
    BY <1>4, NotOpening, StillCovered DEF RefreshReuse, End, Entered
  <1>5. ASSUME NEW r \in Request, RefreshMark(r) PROVE Covered(v)'
    BY <1>5, NotOpening, StillCovered DEF RefreshMark, End, Continue, Entered
  <1>6. ASSUME NEW r \in Request, RefreshUser(r) PROVE Covered(v)'
    <2>1. frame[r].fam # null
      BY <1>6, NullAssumption DEF RefreshUser, Shape, FrameShape, Fits
    <2> QED BY <1>6, <2>1, NotOpening, StillCovered DEF RefreshUser, Continue, db, hist, Entered
  <1>7. ASSUME NEW r \in Request, NEW t \in Token, NEW f \in Family, InsertToken(r, t, f) PROVE Covered(v)'
    BY <1>7, InsertCovers
  <1>8. ASSUME NEW r \in Request, SetSession(r) PROVE Covered(v)'
    BY <1>8, NotOpening, StillCovered DEF SetSession, End, db, hist, Entered
  <1>9. ASSUME NEW r \in Request, NEW u \in User, LogoutWithoutToken(r, u) PROVE Covered(v)'
    BY <1>9, NotOpening, StillCovered DEF LogoutWithoutToken, db, hist, Entered
  <1>10. ASSUME NEW r \in Request, NEW u \in User, NEW t \in Token, LogoutFind(r, u, t) PROVE Covered(v)'
    BY <1>10, NotOpening, StillCovered DEF LogoutFind, db, hist, Entered
  <1>11. ASSUME NEW r \in Request, LogoutRevoke(r) PROVE Covered(v)'
    BY <1>11, NotOpening, StillCovered DEF LogoutRevoke, Continue, DeleteFamily, Entered
  <1>12. ASSUME NEW r \in Request, LogoutSession(r) PROVE Covered(v)'
    BY <1>12, NotOpening, StillCovered DEF LogoutSession, Continue, db, hist, Entered
  <1>13. ASSUME NEW r \in Request, LogoutAudit(r) PROVE Covered(v)'
    <2>1. frame[r].usr \in User
      BY <1>13 DEF LogoutAudit, Shape, FrameShape, Fits, InFlight, Call, Over
    <2>2. Entered(v)' = Entered(v)
      BY <1>13, <2>1, AnotherLog DEF LogoutAudit, Event
    <2> QED BY <1>13, <2>2, NotOpening, StillCovered DEF LogoutAudit, End, hist, Entered
  <1>14. ASSUME NEW r \in Request, NEW u \in User, DeleteFind(r, u) PROVE Covered(v)'
    BY <1>14, NotOpening, StillCovered DEF DeleteFind, db, hist, Entered
  <1>15. ASSUME NEW r \in Request, DeleteMark(r) PROVE Covered(v)'
    BY <1>15, NotOpening, StillCovered DEF DeleteMark, Continue, hist, Entered
  <1>16. ASSUME NEW r \in Request, DeleteSession(r) PROVE Covered(v)'
    BY <1>16, NotOpening, StillCovered DEF DeleteSession, Continue, db, hist, Entered
  <1>17. ASSUME NEW r \in Request, DeletePublish(r) PROVE Covered(v)'
    BY <1>17, NotOpening, StillCovered DEF DeletePublish, Continue, db, hist, Entered
  <1>18. ASSUME NEW r \in Request, DeleteAudit(r) PROVE Covered(v)'
    <2>1. frame[r].usr \in User
      BY <1>18 DEF DeleteAudit, Shape, FrameShape, Fits, InFlight, Call, Over
    <2>2. Entered(v)' = Entered(v)
      BY <1>18, <2>1, AnotherLog DEF DeleteAudit, Event
    <2> QED BY <1>18, <2>2, NotOpening, StillCovered DEF DeleteAudit, End, hist, Entered
  <1>19. ASSUME NEW r \in Request, Abort(r) PROVE Covered(v)'
    BY <1>19, NotOpening, StillCovered DEF Abort, End, db, hist, Entered
  <1>20. ASSUME NEW t \in Token, ExpireToken(t) PROVE Covered(v)'
    BY <1>20, StillCovered DEF ExpireToken, hist, Opening, Entered
  <1>21. ASSUME NEW u \in User, ExpireSession(u) PROVE Covered(v)'
    BY <1>21, StillCovered DEF ExpireSession, db, hist, Opening, Entered
  <1>23. ASSUME NEW r \in Request, NEW u \in User, VerifyFind(r, u) PROVE Covered(v)'
    BY <1>23, NotOpening, StillCovered DEF VerifyFind, End, db, hist, Entered
  <1>24. ASSUME NEW r \in Request, VerifyUse(r) PROVE Covered(v)'
    BY <1>24, NotOpening, StillCovered DEF VerifyUse, Continue, hist, Entered
  <1>25. ASSUME NEW r \in Request, VerifyMark(r) PROVE Covered(v)'
    BY <1>25, NotOpening, StillCovered DEF VerifyMark, Continue, hist, Entered
  <1>26. ASSUME NEW r \in Request, VerifyAudit(r) PROVE Covered(v)'
    BY <1>26, AuditCovers DEF VerifyAudit, hist
  <1>22. CASE UNCHANGED vars
    BY <1>22, StillCovered DEF vars, db, hist, Opening, Entered
  <1> QED
    BY <1>1, <1>2, <1>3, <1>4, <1>5, <1>6, <1>7, <1>8, <1>9, <1>10, <1>11, <1>12, <1>13, <1>14, <1>15, <1>16, <1>17, <1>18, <1>19, <1>20, <1>21, <1>22, <1>23, <1>24, <1>25, <1>26
       DEF Next, Login, VerifyOtp, Refresh, IssueTokenPair, Logout, DeleteAccount

(* For any number of logins, verifications, crashes and rotations: each    *)
(* family a user has opened is matched by a LOGIN or an EMAIL_VERIFIED row *)
(* (auth.service.ts:72, 86) of its own.                                    *)
THEOREM FamiliesAudited == Spec => []EveryFamilyAudited
  <1> DEFINE AllCovered == \A u \in User : Covered(u)
  <1>1. Init => AllCovered
    <2> SUFFICES ASSUME Init, NEW u \in User PROVE Covered(u)
      OBVIOUS
    <2>1. Opened(u) = {} /\ Opening(u) = {}
      BY NullAssumption DEF Init, Opened, Opening
    <2>2. Entered(u) = 0
      BY DEF Init, Event, Entered
    <2> QED BY <2>1, <2>2, FS_EmptySet DEF Covered
  <1>2. Shape /\ AllCovered /\ [Next]_vars => AllCovered'
    BY StepCovered
  <1>3. Shape /\ AllCovered => EveryFamilyAudited
    <2> SUFFICES ASSUME Shape, NEW u \in User, Covered(u)
                 PROVE  Cardinality({f \in Family : owner[f] = u}) <= Entered(u)
      BY DEF EveryFamilyAudited
    <2>1. Entered(u) \in Nat /\ Cardinality(Opened(u)) \in Nat /\ Cardinality(Opening(u)) \in Nat
      BY FS_CardinalityType, EnteredNat DEF Covered
    <2> QED BY <2>1 DEF Covered, Opened
  <1> QED
    <2> HIDE DEF AllCovered
    <2> QED BY <1>1, <1>2, <1>3, ShapeInvariant, PTL DEF Spec
=============================================================================
