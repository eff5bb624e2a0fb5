------------------------- MODULE AuthSessionsProofs -------------------------
(***************************************************************************)
(* Proofs about the session store, for any sets of users, sessions and     *)
(* requests and any bounds.  To the table of sessions a step does one of   *)
(* three things (EveryStep): it ends some of them, stores one for a login, *)
(* or rotates one; the invariant, the properties and the refinement follow *)
(* from these.                                                             *)
(***************************************************************************)
EXTENDS AuthSessions, TLAPS

USE NoneAssumption, BoundAssumption

(* What the tables and the requests hold, with what a request relies on    *)
(* from one statement to the next.                                         *)
RequestOK(r) ==
  /\ ~At(r, "free") => req[r].for \in Users
  /\ req[r].pc \in {"refresh.rotate", "session.check", "logout", "revoke", "change.write",
                   "change.sweep"} => req[r].as \in Sessions
  /\ At(r, "login.record") => req[r].as \in Sessions /\ ~Unused(req[r].as)

Requested == \A r \in Requests : RequestOK(r)

Blank == \A s \in Sessions : Unused(s) => session[s] = Absent(s)

Stored == \A s \in held : ~Unused(s)

Linked ==
  \A s \in Sessions :
    /\ ~Unused(s) => ~Unused(session[s].root)
    /\ session[s].next # None => ~Unused(session[s].next)

(* The sessions of a login other than its live one have all been rotated.  *)
LiveIsLast ==
  \A s, t \in Sessions : Live(t) /\ Kin(s, t) /\ s # t => Rotated(s)

Base == TypeOK /\ Requested /\ Blank /\ Stored

IInv ==
  /\ Base /\ Linked /\ LiveIsLast
  /\ OneLivePerLogin /\ SweepsReachSuccessors /\ RotationsAreRecorded

-----------------------------------------------------------------------------
(* The three things a step does to the sessions *)

Ended(a, b) ==
  /\ b.owner = a.owner /\ b.next = a.next /\ b.root = a.root
  /\ b.state = a.state \/ (a.state = "live" /\ b.state = "revoked")
  /\ b.state = "live" => b.swept = a.swept
  /\ a.state = "none" => b = a

Ends ==
  /\ session' \in [Sessions -> Session]
  /\ \A s \in Sessions : Ended(session[s], session'[s])

SignedIn(s, u) ==
  /\ Unused(s)
  /\ \E p \in Nat : session' = [session EXCEPT ![s] = NewSession(s, u, p)]

Rotates(old, new) ==
  /\ Live(old) /\ Unused(new)
  /\ session' = Rotation(old, new)

SessionStep ==
  \/ Ends
  \/ \E s \in Sessions, u \in Users : SignedIn(s, u)
  \/ \E old, new \in Sessions : Rotates(old, new)

(* Statements that do not concern the sessions.                            *)
LEMMA UnchangedEnds ==
  ASSUME TypeOK, session' = session
  PROVE  Ends
BY DEF TypeOK, Ends, Ended

(* UPDATE ... SET revoked_at, of any set of sessions.                      *)
LEMMA RevokeEnds ==
  ASSUME TypeOK, NEW S, Revoke(S)
  PROVE  Ends
<1>1. ASSUME NEW s \in Sessions
      PROVE  session'[s] \in Session /\ Ended(session[s], session'[s])
  <2>1. session[s] \in Session BY DEF TypeOK
  <2>2. CASE s \in S /\ Live(s)
    <3>1. session'[s] = [session[s] EXCEPT !.state = "revoked"] BY <2>2 DEF Revoke
    <3> QED BY <2>1, <2>2, <3>1 DEF Session, Ended, Live
  <2>3. CASE ~(s \in S /\ Live(s))
    <3>1. session'[s] = session[s] BY <2>3 DEF Revoke
    <3> QED BY <2>1, <3>1 DEF Ended
  <2> QED BY <2>2, <2>3
<1>2. session' = [s \in Sessions |-> session'[s]] BY DEF Revoke
<1> QED BY <1>1, <1>2 DEF Ends

(* RevokeAllUserSessions.                                                  *)
LEMMA RevokeAllEnds ==
  ASSUME TypeOK, NEW u, RevokeAll(Of(u))
  PROVE  Ends
<1>1. ASSUME NEW s \in Sessions
      PROVE  session'[s] \in Session /\ Ended(session[s], session'[s])
  <2>1. session[s] \in Session BY DEF TypeOK
  <2>2. CASE s \in Of(u)
    <3>1. session'[s] = [session[s] EXCEPT !.state = "revoked", !.swept = TRUE]
      BY <2>2 DEF RevokeAll
    <3>2. session[s].state # "none" BY <2>2 DEF Of, Unused
    <3> QED BY <2>1, <3>1, <3>2 DEF Session, Ended
  <2>3. CASE s \notin Of(u)
    <3>1. session'[s] = session[s] BY <2>3 DEF RevokeAll
    <3> QED BY <2>1, <3>1 DEF Ended
  <2> QED BY <2>2, <2>3
<1>2. session' = [s \in Sessions |-> session'[s]] BY DEF RevokeAll
<1> QED BY <1>1, <1>2 DEF Ends

(* Time passes.                                                            *)
LEMMA ExpireEnds ==
  ASSUME TypeOK, NEW s \in Sessions, Expire(s)
  PROVE  Ends
BY DEF TypeOK, Expire, Valid, Live, Ends, Ended, Session

(* Every step of the server does one of the three.                         *)
LEMMA EveryStep ==
  ASSUME Base, [Next]_vars
  PROVE  SessionStep
<1> USE DEF Base
<1>1. CASE session' = session BY <1>1, UnchangedEnds DEF SessionStep
<1>2. ASSUME NEW r \in Requests, LoginCreate(r) PROVE SessionStep
  <2>1. req[r].for \in Users /\ req[r].pw \in Nat
    BY <1>2 DEF LoginCreate, At, Requested, RequestOK, TypeOK, Request
  <2> QED BY <1>2, <2>1 DEF LoginCreate, SessionStep, SignedIn
<1>3. ASSUME NEW r \in Requests, RefreshRotate(r) PROVE SessionStep
  <2>1. req[r].as \in Sessions BY <1>3 DEF RefreshRotate, Requested, RequestOK, At
  <2>2. CASE Live(req[r].as)
    BY <1>3, <2>1, <2>2 DEF RefreshRotate, SessionStep, Rotates
  <2> QED BY <1>1, <1>3, <2>2 DEF RefreshRotate
<1>4. ASSUME NEW r \in Requests,
             LoginUndo(r) \/ Logout(r) \/ RevokeOwn(r) \/ ChangeSweep(r)
      PROVE  SessionStep
  BY <1>4, RevokeEnds DEF LoginUndo, Logout, RevokeOwn, ChangeSweep, SessionStep
<1>5. ASSUME NEW r \in Requests, RefreshPurge(r) \/ ResetSweep(r) \/ DisableSweep(r)
      PROVE  SessionStep
  BY <1>5, RevokeAllEnds DEF RefreshPurge, ResetSweep, DisableSweep, SessionStep
<1>6. ASSUME NEW s \in Sessions, RevokeAny(s) \/ Expire(s) PROVE SessionStep
  BY <1>6, RevokeEnds, ExpireEnds DEF RevokeAny, SessionStep
<1>7. ASSUME NEW r \in Requests,
             LoginRecord(r) \/ SessionCheck(r) \/ ChangeWrite(r) \/ Abort(r)
      PROVE  SessionStep
  BY <1>1, <1>7 DEF LoginRecord, SessionCheck, ChangeWrite, Abort
<1>8. ASSUME NEW r \in Requests, NEW u \in Users,
             LoginCheck(r, u) \/ ResetWrite(r, u) \/ Disable(r, u)
      PROVE  SessionStep
  BY <1>1, <1>8 DEF LoginCheck, ResetWrite, Disable
<1>9. ASSUME NEW r \in Requests, NEW s \in Sessions, RefreshRead(r, s) \/ Authenticate(r, s)
      PROVE  SessionStep
  BY <1>1, <1>9 DEF RefreshRead, Authenticate
<1>10. ASSUME NEW u \in Users, Enable(u) PROVE SessionStep BY <1>1, <1>10 DEF Enable
<1>11. CASE UNCHANGED vars BY <1>1, <1>11 DEF vars
<1> QED BY <1>2, <1>3, <1>4, <1>5, <1>6, <1>7, <1>8, <1>9, <1>10, <1>11 DEF Next, Serve

-----------------------------------------------------------------------------
(* The invariant, part by part.  What a step leaves of each session: *)

LEMMA EndsShape ==
  ASSUME TypeOK, Blank, Ends
  PROVE  /\ session' \in [Sessions -> Session]
         /\ \A s \in Sessions :
              /\ Unused(s)' <=> Unused(s)
              /\ Live(s)' => Live(s) /\ session'[s].swept = session[s].swept
              /\ session[s].state = "revoked" => session'[s].state = "revoked"
              /\ session'[s].owner = session[s].owner
              /\ session'[s].next = session[s].next
              /\ session'[s].root = session[s].root
              /\ Unused(s)' => session'[s] = session[s]
BY DEF Ends, Ended, Unused, Live, TypeOK, Session

LEMMA SignedInShape ==
  ASSUME TypeOK, Blank, NEW s \in Sessions, NEW u \in Users, SignedIn(s, u)
  PROVE  /\ session' \in [Sessions -> Session]
         /\ \A t \in Sessions \ {s} : session'[t] = session[t]
         /\ Unused(s)
         /\ session'[s].state = "live" /\ session'[s].owner = u
         /\ session'[s].root = s /\ session'[s].next = None /\ session'[s].swept = FALSE
<1>0. PICK p \in Nat : session' = [session EXCEPT ![s] = NewSession(s, u, p)] BY DEF SignedIn
<1>1. NewSession(s, u, p) \in Session BY DEF NewSession, Session
<1>2. session' = [session EXCEPT ![s] = NewSession(s, u, p)] BY <1>0
<1>3. session' \in [Sessions -> Session] BY <1>1, <1>2 DEF TypeOK
<1>4. /\ \A t \in Sessions \ {s} : session'[t] = session[t]
      /\ session'[s] = NewSession(s, u, p)
  BY <1>2 DEF TypeOK
<1> QED BY <1>3, <1>4 DEF NewSession, SignedIn

LEMMA RotatesShape ==
  ASSUME TypeOK, Blank, NEW old \in Sessions, NEW new \in Sessions, Rotates(old, new)
  PROVE  /\ old # new /\ Live(old) /\ Unused(new)
         /\ session' \in [Sessions -> Session]
         /\ \A t \in Sessions \ {old, new} : session'[t] = session[t]
         /\ session'[old].state = "revoked" /\ session'[old].next = new
         /\ session'[new].state = "live" /\ session'[new].next = None
         /\ session'[new].swept = session[old].swept
         /\ \A s \in {old, new} : /\ session'[s].owner = session[old].owner
                                 /\ session'[s].root = session[old].root
<1> DEFINE a == [session[old] EXCEPT !.state = "live", !.expired = FALSE, !.next = None]
           b == [session[old] EXCEPT !.state = "revoked", !.next = new]
<1>1. old # new /\ Live(old) /\ Unused(new) BY DEF Rotates, Live, Unused
<1>2. session[old] \in Session BY DEF TypeOK
<1>3. /\ a \in Session
      /\ a.state = "live" /\ a.next = None /\ a.swept = session[old].swept
      /\ a.owner = session[old].owner /\ a.root = session[old].root
  BY <1>2 DEF Session
<1>4. /\ b \in Session
      /\ b.state = "revoked" /\ b.next = new
      /\ b.owner = session[old].owner /\ b.root = session[old].root
  BY <1>2 DEF Session
<1> HIDE DEF a, b
<1>5. session' = [session EXCEPT ![new] = a, ![old] = b] BY DEF Rotates, Rotation, a, b
<1>6. /\ session' \in [Sessions -> Session]
      /\ \A t \in Sessions \ {old, new} : session'[t] = session[t]
      /\ session'[new] = a /\ session'[old] = b
  BY <1>1, <1>3, <1>4, <1>5 DEF TypeOK
<1> QED BY <1>1, <1>3, <1>4, <1>6

LEMMA SessionsTyped ==
  ASSUME TypeOK, Blank, SessionStep
  PROVE  /\ session' \in [Sessions -> Session]
         /\ \A s \in Sessions : Unused(s)' <=> session'[s].owner = None
         /\ Blank'
         /\ \A s \in Sessions : ~Unused(s) => ~Unused(s)'
<1>1. CASE Ends BY <1>1, EndsShape DEF TypeOK, Blank, Unused, Absent
<1>2. ASSUME NEW s \in Sessions, NEW u \in Users, SignedIn(s, u)
      PROVE  /\ session' \in [Sessions -> Session]
             /\ \A t \in Sessions : Unused(t)' <=> session'[t].owner = None
             /\ Blank'
             /\ \A t \in Sessions : ~Unused(t) => ~Unused(t)'
  <2>0. /\ session'[s].state = "live" /\ session'[s].owner = u
        /\ session'[s].root = s /\ session'[s].next = None
    BY <1>2, SignedInShape
  <2>1. u # None OBVIOUS
  <2>2. ASSUME NEW t \in Sessions
        PROVE  /\ Unused(t)' <=> session'[t].owner = None
               /\ Unused(t)' => session'[t] = Absent(t)
               /\ ~Unused(t) => ~Unused(t)'
    <3>1. CASE t = s BY <2>0, <2>1, <3>1 DEF Unused
    <3>2. CASE t # s
      <4>1. session'[t] = session[t] BY <1>2, <3>2, SignedInShape
      <4> QED BY <4>1 DEF TypeOK, Blank, Unused
    <3> QED BY <3>1, <3>2
  <2> QED BY <1>2, <2>2, SignedInShape DEF Blank, Absent, NewSession
<1>3. ASSUME NEW old \in Sessions, NEW new \in Sessions, Rotates(old, new)
      PROVE  /\ session' \in [Sessions -> Session]
             /\ \A t \in Sessions : Unused(t)' <=> session'[t].owner = None
             /\ Blank'
             /\ \A t \in Sessions : ~Unused(t) => ~Unused(t)'
  <2>1. session[old].owner # None BY <1>3, RotatesShape DEF TypeOK, Unused, Live
  <2>2. ASSUME NEW t \in Sessions
        PROVE  /\ Unused(t)' <=> session'[t].owner = None
               /\ Unused(t)' => session'[t] = Absent(t)
               /\ ~Unused(t) => ~Unused(t)'
    <3>1. CASE t \in {old, new} BY <1>3, <2>1, <3>1, RotatesShape DEF Unused
    <3>2. CASE t \notin {old, new}
      <4>1. session'[t] = session[t] BY <1>3, <3>2, RotatesShape
      <4> QED BY <4>1 DEF TypeOK, Blank, Unused
    <3> QED BY <3>1, <3>2
  <2> QED BY <1>3, <2>2, RotatesShape DEF Blank, Absent, NewSession
<1> QED BY <1>1, <1>2, <1>3 DEF SessionStep

LEMMA LinkedKept ==
  ASSUME TypeOK, Blank, Linked, SessionStep
  PROVE  Linked'
<1>1. CASE Ends
  <2> USE EndsShape, <1>1
  <2>1. \A s \in Sessions : session[s].root \in Sessions BY DEF TypeOK, Session
  <2>2. \A s \in Sessions : session[s].next # None => session[s].next \in Sessions
    BY DEF TypeOK, Session
  <2> QED BY <2>1, <2>2 DEF Linked, Unused
<1> DEFINE R(s) == session[s].root
<1>2. \A s \in Sessions : R(s) \in Sessions BY DEF TypeOK, Session
<1>3. \A s \in Sessions : session[s].next # None => session[s].next \in Sessions
  BY DEF TypeOK, Session
<1>4. ASSUME NEW s \in Sessions, NEW u \in Users, SignedIn(s, u)
      PROVE  Linked'
  <2>0. /\ session'[s].state = "live" /\ session'[s].root = s /\ session'[s].next = None
        /\ \A t \in Sessions \ {s} : session'[t] = session[t]
    BY <1>4, SignedInShape
  <2>1. \A t \in Sessions : ~Unused(t) => ~Unused(t)' BY <2>0 DEF Unused
  <2>2. ASSUME NEW t \in Sessions
        PROVE  /\ ~Unused(t)' => session'[session'[t].root].state # "none"
               /\ session'[t].next # None => session'[session'[t].next].state # "none"
    <3>1. CASE t = s BY <2>0, <3>1 DEF Unused
    <3>2. CASE t # s
      <4>1. session'[t] = session[t] BY <2>0, <3>2
      <4>2. /\ ~Unused(t) => ~Unused(session[t].root)
            /\ session[t].next # None => ~Unused(session[t].next)
        BY DEF Linked
      <4>3. ~Unused(t)' => ~Unused(t) BY <4>1 DEF Unused
      <4> QED BY <1>2, <1>3, <2>0, <4>1, <4>2, <4>3 DEF Unused
    <3> QED BY <3>1, <3>2
  <2> QED BY <2>2 DEF Linked, Unused
<1>5. ASSUME NEW old \in Sessions, NEW new \in Sessions, Rotates(old, new)
      PROVE  Linked'
  BY <1>2, <1>3, <1>5, RotatesShape DEF Linked, Unused, Live
<1> QED BY <1>1, <1>4, <1>5 DEF SessionStep

LEMMA OneLiveKept ==
  ASSUME TypeOK, Blank, Linked, OneLivePerLogin, SessionStep
  PROVE  OneLivePerLogin'
<1> USE DEF OneLivePerLogin, Kin
<1>0. \A s \in Sessions : session[s].root \in Sessions BY DEF TypeOK, Session
<1>1. CASE Ends BY <1>1, EndsShape
<1>2. ASSUME NEW s \in Sessions, NEW u \in Users, SignedIn(s, u)
      PROVE  OneLivePerLogin'
  <2>1. \A t \in Sessions : ~Unused(t) => session[t].root # s
    <3>1. Unused(s) BY <1>2, SignedInShape
    <3> QED BY <3>1 DEF Linked
  <2>2. /\ session'[s].root = s
        /\ \A t \in Sessions \ {s} : session'[t] = session[t]
    BY <1>2, SignedInShape
  <2> QED BY <2>1, <2>2 DEF Unused, Live
<1>3. ASSUME NEW old \in Sessions, NEW new \in Sessions, Rotates(old, new)
      PROVE  OneLivePerLogin'
  BY <1>3, RotatesShape DEF Unused, Live
<1> QED BY <1>1, <1>2, <1>3 DEF SessionStep

LEMMA LiveIsLastKept ==
  ASSUME TypeOK, Blank, Linked, OneLivePerLogin, LiveIsLast, SessionStep
  PROVE  LiveIsLast'
<1> USE DEF LiveIsLast, Kin, Rotated
<1>0. \A s \in Sessions : session[s].root \in Sessions BY DEF TypeOK, Session
<1>1. CASE Ends BY <1>1, EndsShape
<1>2. ASSUME NEW s \in Sessions, NEW u \in Users, SignedIn(s, u)
      PROVE  LiveIsLast'
  <2>1. \A t \in Sessions : ~Unused(t) => session[t].root # s
    <3>1. Unused(s) BY <1>2, SignedInShape
    <3> QED BY <3>1 DEF Linked
  <2>2. /\ session'[s].root = s
        /\ \A t \in Sessions \ {s} : session'[t] = session[t]
    BY <1>2, SignedInShape
  <2> QED BY <2>1, <2>2 DEF Unused, Live
<1>3. ASSUME NEW old \in Sessions, NEW new \in Sessions, Rotates(old, new)
      PROVE  LiveIsLast'
  <2>0. /\ old # new
        /\ \A t \in Sessions \ {old, new} : session'[t] = session[t]
        /\ session'[old].state = "revoked" /\ session'[old].next = new
        /\ session'[new].state = "live"
        /\ \A s \in {old, new} : session'[s].root = session[old].root
    BY <1>3, RotatesShape
  <2>1. Live(old) /\ Unused(new) BY <1>3, RotatesShape
  <2>2. ASSUME NEW s \in Sessions, NEW t \in Sessions, Live(t)', Kin(s, t)', s # t
        PROVE  Rotated(s)'
    <3>1. t # old BY <2>0, <2>2 DEF Live
    <3>2. CASE s = old BY <2>0, <3>2
    <3>3. CASE s = new
      <4>1. session'[t] = session[t] /\ Live(t) /\ Kin(old, t)
        BY <2>0, <2>1, <2>2, <3>1, <3>3 DEF Unused, Live
      <4> QED BY <2>1, <3>1, <4>1 DEF OneLivePerLogin
    <3>4. CASE s \notin {old, new}
      <4>1. session'[s] = session[s] /\ ~Unused(s) BY <2>0, <2>2, <3>4 DEF Unused
      <4>2. PICK o \in Sessions : Live(o) /\ Kin(s, o) /\ s # o
        BY <2>0, <2>1, <2>2, <3>1, <3>4, <4>1 DEF Unused, Live
      <4> QED BY <4>1, <4>2
    <3> QED BY <3>2, <3>3, <3>4
  <2> QED BY <2>2
<1> QED BY <1>1, <1>2, <1>3 DEF SessionStep

LEMMA SweepsKept ==
  ASSUME TypeOK, Blank, SweepsReachSuccessors, SessionStep
  PROVE  SweepsReachSuccessors'
<1> USE DEF SweepsReachSuccessors
<1>1. CASE Ends BY <1>1, EndsShape
<1>2. ASSUME NEW s \in Sessions, NEW u \in Users, SignedIn(s, u)
      PROVE  SweepsReachSuccessors'
  BY <1>2, SignedInShape DEF Live
<1>3. ASSUME NEW old \in Sessions, NEW new \in Sessions, Rotates(old, new)
      PROVE  SweepsReachSuccessors'
  BY <1>3, RotatesShape DEF Live
<1> QED BY <1>1, <1>2, <1>3 DEF SessionStep

LEMMA RotationsKept ==
  ASSUME TypeOK, Blank, Linked, RotationsAreRecorded, SessionStep
  PROVE  RotationsAreRecorded'
<1> DEFINE Source(s, t) ==
      /\ session[s].next = t /\ session[s].state = "revoked"
      /\ Kin(s, t) /\ session[s].owner = session[t].owner
      /\ \A p \in Sessions : session[p].next = t => p = s
<1>0. \A t \in Sessions : ~Unused(t) /\ session[t].root # t => \E s \in Sessions : Source(s, t)
  BY DEF RotationsAreRecorded
<1>1. CASE Ends
  <2>1. ASSUME NEW s \in Sessions, NEW t \in Sessions, Source(s, t) PROVE Source(s, t)'
    BY <1>1, <2>1, EndsShape DEF Kin
  <2>2. \A t \in Sessions : ~Unused(t)' /\ session'[t].root # t =>
          ~Unused(t) /\ session[t].root # t
    BY <1>1, EndsShape
  <2> QED BY <1>0, <2>1, <2>2 DEF RotationsAreRecorded
<1>2. ASSUME NEW n \in Sessions, NEW u \in Users, SignedIn(n, u)
      PROVE  RotationsAreRecorded'
  <2>0. /\ session'[n].state = "live" /\ session'[n].root = n /\ session'[n].next = None
        /\ \A t \in Sessions \ {n} : session'[t] = session[t]
    BY <1>2, SignedInShape
  <2>1. Unused(n) BY <1>2, SignedInShape
  <2>2. ASSUME NEW t \in Sessions, ~Unused(t)', session'[t].root # t
        PROVE  \E s \in Sessions : Source(s, t)'
    <3>1. t # n /\ session'[t] = session[t] BY <2>0, <2>2
    <3>2. ~Unused(t) /\ session[t].root # t BY <2>2, <3>1 DEF Unused
    <3>3. PICK s \in Sessions : Source(s, t) BY <1>0, <3>2
    <3>4. s # n BY <2>1, <3>3 DEF Unused
    <3>5. session'[s] = session[s] BY <2>0, <3>4
    <3>6. \A p \in Sessions : session'[p].next = t => p = s
      BY <2>0, <3>3
    <3> QED BY <3>1, <3>3, <3>5, <3>6 DEF Kin, Unused
  <2> QED BY <2>2 DEF RotationsAreRecorded
<1>3. ASSUME NEW old \in Sessions, NEW new \in Sessions, Rotates(old, new)
      PROVE  RotationsAreRecorded'
  <2>0. /\ old # new
        /\ \A t \in Sessions \ {old, new} : session'[t] = session[t]
        /\ session'[old].state = "revoked" /\ session'[old].next = new
        /\ session'[new].state = "live" /\ session'[new].next = None
        /\ \A s \in {old, new} : /\ session'[s].owner = session[old].owner
                                /\ session'[s].root = session[old].root
    BY <1>3, RotatesShape
  <2>1. Live(old) /\ Unused(new) BY <1>3, RotatesShape
  <2>2. \A p \in Sessions : session[p].next # new
    BY <2>1 DEF Linked, Unused
  <2>3. ASSUME NEW t \in Sessions, ~Unused(t)', session'[t].root # t
        PROVE  \E s \in Sessions : Source(s, t)'
    <3>1. CASE t = new
      <4>1. \A p \in Sessions : session'[p].next = new => p = old
        BY <2>0, <2>2
      <4> QED BY <2>0, <3>1, <4>1 DEF Kin, Unused
    <3>2. CASE t # new
      <4>1. ~Unused(t) /\ session[t].root # t
        BY <2>0, <2>1, <2>3, <3>2 DEF Unused, Live
      <4>2. PICK s \in Sessions : Source(s, t) BY <1>0, <4>1
      <4>3. s # old /\ s # new /\ session'[s] = session[s]
        BY <2>0, <2>1, <4>2 DEF Unused, Live
      <4>4. \A p \in Sessions : session'[p].next = t => p = s
        BY <2>0, <3>2, <4>2
      <4>5. /\ session'[t].owner = session[t].owner
            /\ session'[t].root = session[t].root
        BY <2>0, <3>2
      <4> QED BY <2>3, <4>2, <4>3, <4>4, <4>5 DEF Kin, Unused
    <3> QED BY <3>1, <3>2
  <2> QED BY <2>3 DEF RotationsAreRecorded
<1> QED BY <1>1, <1>2, <1>3 DEF SessionStep

-----------------------------------------------------------------------------
(* The requests: a step changes at most one, and leaves it what its next   *)
(* statement relies on.                                                    *)

Serving(r) ==
  /\ req' \in [Requests -> Request]
  /\ \A q \in Requests \ {r} : req'[q] = req[q]
  /\ RequestOK(r)'

RequestStep == req' = req \/ \E r \in Requests : Serving(r)

LEMMA DoneServes ==
  ASSUME TypeOK, NEW r \in Requests, Done(r)
  PROVE  Serving(r)
<1>1. Idle \in Request BY DEF Idle, Request
<1>2. Idle.pc = "free" BY DEF Idle
<1>3. req' = [req EXCEPT ![r] = Idle] BY DEF Done
<1>4. req'[r] = Idle BY <1>3 DEF TypeOK
<1> QED BY <1>1, <1>2, <1>3, <1>4 DEF TypeOK, Serving, RequestOK, At

LEMMA StartsServes ==
  ASSUME TypeOK, NEW r \in Requests, NEW s \in Sessions \cup {None}, NEW u \in Users,
         NEW p \in Nat,
         NEW pc \in {"login.create", "refresh.rotate", "refresh.purge", "session.check",
                     "reset.sweep", "disable.sweep"},
         pc \in {"refresh.rotate", "session.check"} => s \in Sessions,
         Starts(r, pc, s, u, p)
  PROVE  Serving(r)
<1> DEFINE new == [pc |-> pc, as |-> s, for |-> u, pw |-> p]
<1>1. new \in Request BY DEF Request
<1>2. new.pc = pc /\ new.for = u /\ new.as = s OBVIOUS
<1> HIDE DEF new
<1>3. req' = [req EXCEPT ![r] = new] BY DEF Starts, new
<1>4. req'[r] = new BY <1>3 DEF TypeOK
<1> QED BY <1>1, <1>2, <1>3, <1>4 DEF TypeOK, Serving, RequestOK, At

LEMMA ThenServes ==
  ASSUME TypeOK, Requested, NEW r \in Requests, ~At(r, "free"),
         req[r].pc \in {"session.check", "change.write"},
         NEW pc \in {"logout", "revoke", "change.write", "change.sweep"},
         Then(r, pc)
  PROVE  Serving(r)
<1> DEFINE new == [req[r] EXCEPT !.pc = pc]
<1>1. req[r] \in Request BY DEF TypeOK
<1>2. new \in Request /\ new.pc = pc /\ new.for = req[r].for /\ new.as = req[r].as
  BY <1>1 DEF Request
<1>3. req' = [req EXCEPT ![r] = new] BY DEF Then
<1>4. req'[r] = new BY <1>3 DEF TypeOK
<1>5. req[r].for \in Users /\ req[r].as \in Sessions BY DEF Requested, RequestOK
<1> QED BY <1>2, <1>3, <1>4, <1>5 DEF TypeOK, Serving, RequestOK, At

(* The session a login has stored is the one its request goes on with.     *)
LEMMA CreateServes ==
  ASSUME Base, NEW r \in Requests, LoginCreate(r)
  PROVE  Serving(r)
<1>1. PICK s \in Sessions :
        /\ session' = [session EXCEPT ![s] = NewSession(s, req[r].for, req[r].pw)]
        /\ req' = [req EXCEPT ![r].pc = "login.record", ![r].as = s]
  BY DEF LoginCreate
<1> DEFINE a == [req[r] EXCEPT !.pc = "login.record"]
           b == [a EXCEPT !.as = s]
<1>2. req[r] \in Request BY DEF Base, TypeOK
<1>3. a \in Request /\ a.pc = "login.record" /\ a.for = req[r].for BY <1>2 DEF Request
<1> HIDE DEF a
<1>4. b \in Request /\ b.pc = "login.record" /\ b.for = req[r].for /\ b.as = s
  BY <1>3 DEF Request
<1> HIDE DEF b
<1>5. req' = [req EXCEPT ![r] = b] BY <1>1 DEF a, b, Base, TypeOK
<1>6. req'[r] = b BY <1>5 DEF Base, TypeOK
<1>7. req[r].for \in Users BY DEF LoginCreate, At, Base, Requested, RequestOK
<1>8. session'[s].state = "live" BY <1>1 DEF NewSession, Base, TypeOK
<1> QED BY <1>4, <1>5, <1>6, <1>7, <1>8 DEF Base, TypeOK, Serving, RequestOK, At, Unused

LEMMA HeldOwned ==
  ASSUME Base, NEW s \in held
  PROVE  s \in Sessions /\ session[s].owner \in Users
BY DEF Base, TypeOK, Stored, Session

LEMMA EveryRequest ==
  ASSUME Base, [Next]_vars
  PROVE  RequestStep
<1> USE DEF Base
<1>1. ASSUME NEW r \in Requests, LoginCreate(r) PROVE RequestStep
  BY <1>1, CreateServes DEF RequestStep
<1>2. ASSUME NEW r \in Requests,
             \/ LoginRecord(r) \/ LoginUndo(r) \/ RefreshPurge(r) \/ RefreshRotate(r)
             \/ Logout(r) \/ RevokeOwn(r) \/ ChangeSweep(r) \/ ResetSweep(r)
             \/ DisableSweep(r) \/ Abort(r)
      PROVE  RequestStep
  <2>1. Done(r)
    BY <1>2 DEF LoginRecord, LoginUndo, RefreshPurge, RefreshRotate, Logout, RevokeOwn,
                ChangeSweep, ResetSweep, DisableSweep, Abort
  <2> QED BY <2>1, DoneServes DEF RequestStep
<1>3. ASSUME NEW r \in Requests, SessionCheck(r) PROVE RequestStep
  <2>1. ~At(r, "free") /\ req[r].pc = "session.check" BY <1>3 DEF SessionCheck, At
  <2> QED BY <1>3, <2>1, DoneServes, ThenServes DEF SessionCheck, RequestStep
<1>4. ASSUME NEW r \in Requests, ChangeWrite(r) PROVE RequestStep
  <2>1. ~At(r, "free") /\ req[r].pc = "change.write" BY <1>4 DEF ChangeWrite, At
  <2> QED BY <1>4, <2>1, ThenServes DEF ChangeWrite, RequestStep
<1>5. ASSUME NEW r \in Requests, NEW u \in Users,
             LoginCheck(r, u) \/ ResetWrite(r, u) \/ Disable(r, u)
      PROVE  RequestStep
  <2>1. user[u].pw \in Nat /\ user[u].pw + 1 \in Nat BY DEF TypeOK, User
  <2>2. CASE LoginCheck(r, u)
    BY <2>1, <2>2, StartsServes DEF LoginCheck, RequestStep
  <2>3. CASE ResetWrite(r, u)
    BY <2>1, <2>3, StartsServes DEF ResetWrite, RequestStep
  <2>4. CASE Disable(r, u)
    BY <2>1, <2>4, StartsServes DEF Disable, RequestStep
  <2> QED BY <1>5, <2>2, <2>3, <2>4
<1>6. ASSUME NEW r \in Requests, NEW s \in Sessions, RefreshRead(r, s) \/ Authenticate(r, s)
      PROVE  RequestStep
  <2>1. session[s].owner \in Users
    BY <1>6, HeldOwned DEF RefreshRead, Authenticate
  <2> QED BY <1>6, <2>1, StartsServes DEF RefreshRead, Authenticate, RequestStep
<1>7. CASE req' = req BY <1>7 DEF RequestStep
<1> QED BY <1>1, <1>2, <1>3, <1>4, <1>5, <1>6, <1>7
        DEF Next, Serve, RevokeAny, Enable, Expire, vars

(* Nobody else's request can break it, since a stored session stays stored. *)
LEMMA RequestedKept ==
  ASSUME Base, RequestStep, \A s \in Sessions : ~Unused(s) => ~Unused(s)'
  PROVE  req' \in [Requests -> Request] /\ Requested'
<1>1. ASSUME NEW q \in Requests, req'[q] = req[q] PROVE RequestOK(q)'
  BY <1>1 DEF Base, Requested, RequestOK, At, Unused
<1>2. CASE req' = req BY <1>1, <1>2 DEF Requested, Base, TypeOK
<1>3. ASSUME NEW r \in Requests, Serving(r)
      PROVE  req' \in [Requests -> Request] /\ Requested'
  BY <1>1, <1>3 DEF Serving, Requested
<1> QED BY <1>2, <1>3 DEF RequestStep

LEMMA UpdateTyped ==
  ASSUME TypeOK, NEW u \in Users, NEW row \in User, row.updates = user[u].updates,
         Update(u, row)
  PROVE  user' \in [Users -> User]
<1> DEFINE new == [row EXCEPT !.updates = row.updates + 1]
<1>1. row.updates + 1 \in 0..MaxUpdates BY DEF Update, User
<1>2. new \in User BY <1>1 DEF User
<1>3. user' = [user EXCEPT ![u] = new] BY DEF Update
<1> QED BY <1>2, <1>3 DEF TypeOK

LEMMA UsersTyped ==
  ASSUME Base, [Next]_vars
  PROVE  user' \in [Users -> User] /\ aborts' \in Nat
<1> USE DEF Base
<1>1. \A u \in Users : user[u] \in User BY DEF TypeOK
<1>2. \A r \in Requests : req[r].pw \in Nat BY DEF TypeOK, Request
<1>3. \A r \in Requests : ~At(r, "free") => req[r].for \in Users BY DEF Requested, RequestOK
<1>4. ASSUME NEW u \in Users
      PROVE  /\ [user[u] EXCEPT !.active = FALSE] \in User
             /\ [user[u] EXCEPT !.active = FALSE].updates = user[u].updates
             /\ [user[u] EXCEPT !.pw = user[u].pw + 1] \in User
             /\ [user[u] EXCEPT !.pw = user[u].pw + 1].updates = user[u].updates
  <2>1. user[u] \in User /\ user[u].pw + 1 \in Nat BY <1>1 DEF User
  <2>2. [user[u] EXCEPT !.active = FALSE] \in User BY <2>1 DEF User
  <2>3. [user[u] EXCEPT !.pw = user[u].pw + 1] \in User BY <2>1 DEF User
  <2> QED BY <2>1, <2>2, <2>3 DEF User
<1>5. ASSUME NEW r \in Requests, ChangeWrite(r) PROVE user' \in [Users -> User]
  BY <1>3, <1>4, <1>5, UpdateTyped DEF ChangeWrite, At
<1>6. ASSUME NEW r \in Requests, NEW u \in Users, ResetWrite(r, u) \/ Disable(r, u)
      PROVE  user' \in [Users -> User]
  BY <1>4, <1>6, UpdateTyped DEF ResetWrite, Disable
<1>7. ASSUME NEW u \in Users, Enable(u) PROVE user' \in [Users -> User]
  <2> DEFINE a == [user[u] EXCEPT !.active = TRUE]
  <2>1. a \in User /\ a.updates = user[u].updates BY <1>1 DEF User
  <2>2. Update(u, a) BY <1>7 DEF Enable
  <2> QED BY <2>1, <2>2, UpdateTyped
<1>8. ASSUME NEW r \in Requests, ResetSweep(r) PROVE user' \in [Users -> User]
  <2> DEFINE u == req[r].for
             new == [user[u] EXCEPT !.reset = req[r].pw]
  <2>1. u \in Users BY <1>3, <1>8 DEF ResetSweep, At
  <2>2. new \in User BY <1>1, <1>2, <2>1 DEF User
  <2> HIDE DEF new
  <2>3. user' = [user EXCEPT ![u] = new] BY <1>8 DEF ResetSweep, new
  <2> QED BY <2>2, <2>3 DEF TypeOK
<1>0. user \in [Users -> User] BY DEF TypeOK
<1>9. ASSUME user' = user PROVE user' \in [Users -> User] BY <1>0, <1>9
<1>11. user' \in [Users -> User]
  BY <1>5, <1>6, <1>7, <1>8, <1>9
     DEF Next, Serve, vars, LoginCheck, LoginCreate, LoginRecord, LoginUndo, RefreshRead,
         RefreshPurge, RefreshRotate, Authenticate, SessionCheck, Logout, RevokeOwn,
         ChangeSweep, RevokeAny, DisableSweep, Abort, Expire
<1>12. aborts' = aborts \/ (aborts > 0 /\ aborts' = aborts - 1)
  BY DEF Next, Serve, vars, LoginCheck, LoginCreate, LoginRecord, LoginUndo, RefreshRead,
         RefreshPurge, RefreshRotate, Authenticate, SessionCheck, Logout, RevokeOwn,
         ChangeWrite, ChangeSweep, RevokeAny, ResetWrite, ResetSweep, Enable, Disable,
         DisableSweep, Abort, Expire
<1> QED BY <1>11, <1>12 DEF TypeOK

LEMMA HeldKept ==
  ASSUME Base, [Next]_vars, \A s \in Sessions : ~Unused(s) => ~Unused(s)'
  PROVE  held' \subseteq Sessions /\ Stored'
<1>1. CASE held' = held BY <1>1 DEF Base, TypeOK, Stored, Unused
<1>2. ASSUME NEW r \in Requests, LoginRecord(r) PROVE held' \subseteq Sessions /\ Stored'
  BY <1>2 DEF LoginRecord, Base, TypeOK, Requested, RequestOK, Stored, Unused
<1>3. ASSUME NEW r \in Requests, RefreshRotate(r), Live(req[r].as)
      PROVE  held' \subseteq Sessions /\ Stored'
  <2>1. PICK s \in Sessions :
          Unused(s) /\ session' = Rotation(req[r].as, s) /\ held' = held \cup {s}
    BY <1>3 DEF RefreshRotate
  <2>2. req[r].as \in Sessions BY <1>3 DEF RefreshRotate, Base, Requested, RequestOK, At
  <2>3. Rotates(req[r].as, s) BY <1>3, <2>1 DEF Rotates
  <2>4. session'[s].state = "live" BY <2>2, <2>3, RotatesShape DEF Base
  <2> QED BY <2>1, <2>4 DEF Base, TypeOK, Stored, Unused
<1>4. ASSUME NEW r \in Requests, RefreshRotate(r), ~Live(req[r].as)
      PROVE  held' = held
  BY <1>4 DEF RefreshRotate
<1> QED BY <1>1, <1>2, <1>3, <1>4
        DEF Next, Serve, vars, LoginCheck, LoginCreate, LoginUndo, RefreshRead,
            RefreshPurge, Authenticate, SessionCheck, Logout, RevokeOwn, ChangeWrite,
            ChangeSweep, RevokeAny, ResetWrite, ResetSweep, Enable, Disable, DisableSweep,
            Abort, Expire

-----------------------------------------------------------------------------
LEMMA InitIInv == Init => IInv
<1> SUFFICES ASSUME Init PROVE IInv OBVIOUS
<1> USE DEF Init
<1>1. user \in [Users -> User] BY DEF User
<1>2. \A s \in Sessions : /\ Absent(s) \in Session
                          /\ Absent(s).state = "none" /\ Absent(s).owner = None
                          /\ Absent(s).next = None
  BY DEF Absent, NewSession, Session
<1>3. session \in [Sessions -> Session] /\ \A s \in Sessions : session[s] = Absent(s)
  BY <1>2
<1>4. Idle \in Request /\ Idle.pc = "free" BY DEF Idle, Request
<1>5. req \in [Requests -> Request] /\ \A r \in Requests : req[r] = Idle BY <1>4
<1> HIDE DEF Init
<1>6. held = {} /\ aborts \in Nat BY DEF Init
<1>7. \A s \in Sessions : Unused(s) /\ ~Live(s) BY <1>2, <1>3 DEF Unused, Live
<1>8. Base
  BY <1>1, <1>2, <1>3, <1>4, <1>5, <1>6, <1>7
     DEF Base, TypeOK, Requested, RequestOK, At, Blank, Stored
<1>9. Linked BY <1>2, <1>3, <1>7 DEF Linked
<1> QED BY <1>7, <1>8, <1>9
        DEF IInv, LiveIsLast, OneLivePerLogin, SweepsReachSuccessors, RotationsAreRecorded

LEMMA NextIInv == IInv /\ [Next]_vars => IInv'
<1> SUFFICES ASSUME IInv, [Next]_vars PROVE IInv' OBVIOUS
<1> USE DEF IInv
<1>1. SessionStep BY EveryStep
<1>2. /\ session' \in [Sessions -> Session]
      /\ \A s \in Sessions : Unused(s)' <=> session'[s].owner = None
      /\ Blank'
      /\ \A s \in Sessions : ~Unused(s) => ~Unused(s)'
  BY <1>1, SessionsTyped DEF Base
<1>3. req' \in [Requests -> Request] /\ Requested'
  BY <1>2, EveryRequest, RequestedKept
<1>4. held' \subseteq Sessions /\ Stored' BY <1>2, HeldKept
<1>5. Base' BY <1>2, <1>3, <1>4, UsersTyped DEF Base, TypeOK
<1> QED BY <1>1, <1>5, LinkedKept, LiveIsLastKept, OneLiveKept, SweepsKept, RotationsKept DEF Base

LEMMA Invariance == Spec => []IInv
BY InitIInv, NextIInv, PTL DEF Spec

(* Every column and every request holds a value the program can store.     *)
THEOREM TypeCorrect == Spec => []TypeOK
BY Invariance, PTL DEF IInv, Base

(* A login has at most one live session, however many requests exchange    *)
(* its tokens.                                                             *)
THEOREM OneLive == Spec => []OneLivePerLogin
BY Invariance, PTL DEF IInv

(* A revocation of all sessions is not outrun by a refresh.                *)
THEOREM SweepsReach == Spec => []SweepsReachSuccessors
BY Invariance, PTL DEF IInv

(* Every session that no login stored has exactly one predecessor.         *)
THEOREM RotationsRecorded == Spec => []RotationsAreRecorded
BY Invariance, PTL DEF IInv

-----------------------------------------------------------------------------
(* A request that is answered has executed its own last statement.         *)
LEMMA AnsweredIs ==
  ASSUME Base, [Next]_vars, NEW r \in Requests
  PROVE  /\ Answered(r, "logout") => Logout(r)
         /\ Answered(r, "change.sweep") => ChangeSweep(r)
<1> SUFFICES ASSUME Answered(r, "logout") \/ Answered(r, "change.sweep")
             PROVE  Logout(r) \/ ChangeSweep(r)
  BY DEF Answered, Logout, ChangeSweep, At
<1>0. /\ req[r].pc \in {"logout", "change.sweep"}
      /\ req'[r] # req[r] /\ aborts' = aborts
  BY DEF Answered, At
<1>1. \A q \in Requests \ {r} : Done(q) => req'[r] = req[r]
  BY DEF Done, Base, TypeOK
<1>2. \A q \in Requests \ {r} : \A pc : Then(q, pc) => req'[r] = req[r]
  BY DEF Then, Base, TypeOK
<1>3. \A q \in Requests : \A pc, s, u, p : Starts(q, pc, s, u, p) => req'[r] = req[r]
  BY <1>0 DEF Starts, At, Base, TypeOK
<1>4. \A q \in Requests : LoginCreate(q) => req'[r] = req[r]
  BY <1>0 DEF LoginCreate, At, Base, TypeOK
<1>5. ASSUME NEW q \in Requests, Serve(q) PROVE Logout(r) \/ ChangeSweep(r)
  <2>1. CASE q = r
    BY <1>0, <1>5, <2>1
       DEF Serve, At, LoginCreate, LoginRecord, LoginUndo, RefreshPurge, RefreshRotate,
           SessionCheck, RevokeOwn, ChangeWrite, ResetSweep, DisableSweep, Abort, Base, TypeOK
  <2>2. CASE q # r
    BY <1>0, <1>1, <1>2, <1>4, <1>5, <2>2
       DEF Serve, LoginRecord, LoginUndo, RefreshPurge, RefreshRotate, SessionCheck,
           Logout, RevokeOwn, ChangeWrite, ChangeSweep, ResetSweep, DisableSweep, Abort
  <2> QED BY <2>1, <2>2
<1> QED BY <1>0, <1>3, <1>5
        DEF Next, vars, LoginCheck, ResetWrite, Disable, RefreshRead, Authenticate, Enable,
            RevokeAny, Expire

(* A logout ends the login of its session, unless the session was rotated  *)
(* while the request was under way.                                        *)
THEOREM LogoutsEnd == Spec => LogoutEndsTheLogin
<1>1. ASSUME IInv, [Next]_vars, NEW r \in Requests, Answered(r, "logout"), ~Rotated(req[r].as),
             NEW s \in Sessions, Kin(s, req[r].as), session'[s].state = "live"
      PROVE  FALSE
  <2> DEFINE as == req[r].as
  <2>1. Logout(r) BY <1>1, AnsweredIs DEF IInv
  <2>2. as \in Sessions BY <1>1, <2>1 DEF IInv, Base, Requested, RequestOK, Logout, At
  <2>3. /\ session'[s] = IF s = as /\ Live(s) THEN [session[s] EXCEPT !.state = "revoked"]
                                             ELSE session[s]
    BY <2>1 DEF Logout, Revoke
  <2>4. session[s] \in Session BY <1>1 DEF IInv, Base, TypeOK
  <2>5. s # as /\ Live(s) BY <1>1, <2>3, <2>4 DEF Session, Live
  <2>6. Rotated(as) BY <1>1, <2>2, <2>5 DEF IInv, LiveIsLast, Kin
  <2> QED BY <1>1, <2>6
<1>2. IInv /\ [Next]_vars =>
        [\A r \in Requests : Answered(r, "logout") /\ ~Rotated(req[r].as) =>
           ~\E s \in Sessions : Kin(s, req[r].as) /\ session'[s].state = "live"]_vars
  BY <1>1
<1> QED BY <1>2, Invariance, PTL DEF Spec, LogoutEndsTheLogin

(* A password change leaves its own device signed in and signs the others  *)
(* of the user out, under the same proviso.                                *)
THEOREM ChangesKeepTheDevice == Spec => ChangeKeepsTheDevice
<1>1. ASSUME IInv, [Next]_vars, NEW r \in Requests, Answered(r, "change.sweep"),
             ~Rotated(req[r].as), NEW s \in Of(req[r].for)
      PROVE  IF Kin(s, req[r].as) THEN session'[s].state = session[s].state
                                  ELSE session'[s].state # "live"
  <2> DEFINE as == req[r].as
  <2>1. ChangeSweep(r) BY <1>1, AnsweredIs DEF IInv
  <2>2. as \in Sessions BY <1>1, <2>1 DEF IInv, Base, Requested, RequestOK, ChangeSweep, At
  <2>3. s \in Sessions /\ ~Unused(s) BY DEF Of
  <2>4. session'[s] = IF s # as /\ Live(s) THEN [session[s] EXCEPT !.state = "revoked"]
                                          ELSE session[s]
    BY <2>1, <2>3 DEF ChangeSweep, Revoke
  <2>5. session[s] \in Session BY <1>1, <2>3 DEF IInv, Base, TypeOK
  <2>6. CASE Kin(s, as)
    <3>1. s = as \/ ~Live(s) BY <1>1, <2>2, <2>3, <2>6 DEF IInv, LiveIsLast, Kin
    <3> QED BY <2>4, <2>6, <3>1
  <2>7. CASE ~Kin(s, as)
    <3>1. s # as BY <2>3, <2>7 DEF Kin
    <3>2. session'[s].state # "live" BY <2>4, <2>5, <3>1 DEF Session, Live
    <3> QED BY <2>7, <3>2
  <2> QED BY <2>6, <2>7
<1>2. IInv /\ [Next]_vars =>
        [\A r \in Requests : Answered(r, "change.sweep") /\ ~Rotated(req[r].as) =>
           \A s \in Of(req[r].for) :
             IF Kin(s, req[r].as) THEN session'[s].state = session[s].state
                                  ELSE session'[s].state # "live"]_vars
  BY <1>1
<1> QED BY <1>2, Invariance, PTL DEF Spec, ChangeKeepsTheDevice

-----------------------------------------------------------------------------
(* The refinement.  To a login, a step is a sign-in of a login that never  *)
(* was, or may sign it out.                                                *)

InUse(l) == \E s \in Sessions : ~Unused(s) /\ session[s].root = l
SignedOn(l) == \E s \in Sessions : Live(s) /\ session[s].root = l

LEMMA LoginStateIs ==
  ASSUME NEW l \in Sessions
  PROVE  /\ LoginState(l) \in {"never", "in", "out"}
         /\ LoginState(l) = "never" <=> ~InUse(l)
         /\ LoginState(l) = "in" <=> SignedOn(l)
         /\ LoginState(l) = "out" <=> InUse(l) /\ ~SignedOn(l)
BY DEF LoginState, InUse, SignedOn, Live, Unused

(* A revocation may turn "in" to "out" and does nothing else; a rotation   *)
(* does not show.                                                          *)
LEMMA SignOutOnly ==
  ASSUME TypeOK, Blank, Ends \/ \E old, new \in Sessions : Rotates(old, new),
         NEW l \in Sessions
  PROVE  (InUse(l)' <=> InUse(l)) /\ (SignedOn(l)' => SignedOn(l))
<1>1. CASE Ends BY <1>1, EndsShape DEF InUse, SignedOn
<1>2. ASSUME NEW old \in Sessions, NEW new \in Sessions, Rotates(old, new)
      PROVE  (InUse(l)' <=> InUse(l)) /\ (SignedOn(l)' => SignedOn(l))
  BY <1>2, RotatesShape DEF InUse, SignedOn, Live, Unused
<1> QED BY <1>1, <1>2

(* A sign-in begins a login that never was and leaves the others alone.    *)
LEMMA SignInOnly ==
  ASSUME TypeOK, Blank, Linked, NEW n \in Sessions, NEW u \in Users, SignedIn(n, u)
  PROVE  /\ ~InUse(n) /\ SignedOn(n)'
         /\ \A l \in Sessions \ {n} :
              (InUse(l)' <=> InUse(l)) /\ (SignedOn(l)' <=> SignedOn(l))
<1>1. /\ session'[n].state = "live" /\ session'[n].root = n
      /\ \A t \in Sessions \ {n} : session'[t] = session[t]
  BY SignedInShape
<1>2. Unused(n) BY SignedInShape
<1>3. \A s \in Sessions : session[s].root \in Sessions BY DEF TypeOK, Session
<1>4. ~InUse(n) BY <1>2 DEF Linked, InUse
<1>5. SignedOn(n)' BY <1>1 DEF SignedOn, Live
<1>6. ASSUME NEW l \in Sessions \ {n}
      PROVE  (InUse(l)' <=> InUse(l)) /\ (SignedOn(l)' <=> SignedOn(l))
  BY <1>1, <1>2 DEF InUse, SignedOn, Live, Unused
<1> QED BY <1>4, <1>5, <1>6

(* The store, with its rotations, stale requests, failures and aborts,     *)
(* keeps the promise of DeviceLogins.                                      *)
THEOREM StoreImplementsLogins == Spec => LoginsSpec
<1> DEFINE login == [l \in Sessions |-> LoginState(l)]
<1>1. Init => Logins!Init
  <2> SUFFICES ASSUME Init PROVE \A l \in Sessions : LoginState(l) = "never"
    BY DEF Logins!Init
  <2>1. \A s \in Sessions : Unused(s)
    BY DEF Init, Absent, NewSession, Unused
  <2> QED BY <2>1, LoginStateIs DEF InUse
<1>2. ASSUME IInv, SessionStep PROVE Logins!Next
  <2> USE <1>2 DEF IInv, Base
  <2>0. ASSUME NEW l \in Sessions
        PROVE  /\ LoginState(l)' \in {"never", "in", "out"}
               /\ LoginState(l)' = "never" <=> ~InUse(l)'
               /\ LoginState(l)' = "in" <=> SignedOn(l)'
               /\ LoginState(l)' = "out" <=> InUse(l)' /\ ~SignedOn(l)'
    BY DEF LoginState, InUse, SignedOn, Live, Unused
  <2>1. CASE Ends \/ \E old, new \in Sessions : Rotates(old, new)
    <3>1. ASSUME NEW l \in Sessions, LoginState(l) # LoginState(l)'
          PROVE  LoginState(l) = "in" /\ LoginState(l)' = "out"
      BY <2>0, <2>1, <3>1, SignOutOnly, LoginStateIs
    <3>2. login' \in [Sessions -> Logins!States] BY <2>0 DEF Logins!States
    <3>3. Logins!SignOut BY <3>1, <3>2 DEF Logins!SignOut
    <3> QED BY <3>3 DEF Logins!Next
  <2>2. ASSUME NEW n \in Sessions, NEW u \in Users, SignedIn(n, u)
        PROVE  Logins!Next
    <3>1. LoginState(n) = "never" /\ LoginState(n)' = "in"
      BY <2>0, <2>2, SignInOnly, LoginStateIs
    <3>2. ASSUME NEW l \in Sessions \ {n} PROVE LoginState(l)' = LoginState(l)
      <4>1. (InUse(l)' <=> InUse(l)) /\ (SignedOn(l)' <=> SignedOn(l))
        BY <2>2, SignInOnly
      <4> QED BY <2>0, <4>1, LoginStateIs
    <3>3. Logins!SignIn(n) BY <3>1, <3>2 DEF Logins!SignIn
    <3> QED BY <3>3 DEF Logins!Next
  <2> QED BY <1>2, <2>1, <2>2 DEF SessionStep
<1>3. IInv /\ [Next]_vars => [Logins!Next]_login
  BY <1>2, EveryStep DEF IInv
<1> QED BY <1>1, <1>3, Invariance, PTL DEF Spec, LoginsSpec, Logins!Spec
=============================================================================
