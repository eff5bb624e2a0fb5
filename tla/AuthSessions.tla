---------------------------- MODULE AuthSessions ----------------------------
(***************************************************************************)
(* The device sessions of the API server: the tables users and             *)
(* refresh_tokens, and the requests that sign in, refresh, sign out,       *)
(* revoke, change and reset passwords and (de)activate accounts.           *)
(*                                                                         *)
(* Each request is a goroutine that runs a few statements; a statement is  *)
(* an action (one database connection), and what a request has read may be *)
(* stale at its next one.  Administrators act through the same service,    *)
(* from the API or from the admin command.                                 *)
(*                                                                         *)
(* Abstractions.  A password is the number of the update that set it, and  *)
(* a request that verifies a password remembers which one it verified; one *)
(* that fails to verify changes nothing and is left out.  Tokens are the   *)
(* sessions they name: a client holds the tokens of the sessions whose     *)
(* response it received.  Time only expires sessions.                      *)
(***************************************************************************)
EXTENDS Naturals, FiniteSets

CONSTANTS
  Users, Sessions, Requests,
  None,           \* NULL in replaced_by; no session, no user
  MaxUpdates,     \* bound: password updates and (de)activations of one user
  MaxAborts       \* bound: requests that end between two statements

ASSUME NoneAssumption  == None \notin Users \cup Sessions
ASSUME BoundAssumption == MaxUpdates \in Nat /\ MaxAborts \in Nat

VARIABLES
  user,      \* the users table
  session,   \* the refresh_tokens table
  held,      \* the sessions whose tokens a client has received
  req,       \* the requests being served
  aborts     \* what is left of MaxAborts

vars == <<user, session, held, req, aborts>>

-----------------------------------------------------------------------------
(* The tables.  The last fields of each are histories, which no guard reads *)

User == [active  : BOOLEAN,
         updates : 0..MaxUpdates,   \* bound only
         pw      : Nat,             \* password_hash
         reset   : Nat]             \* the password of the last reset that has finished

(* root: the session its login stored, from which it descends by rotations *)
(* pw: the password verified by that login                                 *)
(* swept: all sessions of the user have been revoked since that login      *)
Session == [state   : {"none", "live", "revoked"},   \* revoked_at
            expired : BOOLEAN,                       \* expires_at
            owner   : Users \cup {None},             \* user_id
            next    : Sessions \cup {None},          \* replaced_by
            root    : Sessions,
            pw      : Nat,
            swept   : BOOLEAN]

(* newSession, as a login of u that verified pw stores it *)
NewSession(s, u, pw) == [state |-> "live", expired |-> FALSE, owner |-> u, next |-> None,
                         root |-> s, pw |-> pw, swept |-> FALSE]

Absent(s) == [NewSession(s, None, 0) EXCEPT !.state = "none"]

(* pc: the next statement of the request *)
Request == [pc  : {"free", "login.create", "login.record", "refresh.rotate",
                   "refresh.purge", "session.check", "logout", "revoke",
                   "change.write", "change.sweep", "reset.sweep", "disable.sweep"},
            as  : Sessions \cup {None},   \* the session whose token the request carries
            for : Users \cup {None},
            pw  : Nat]                    \* the password verified or set

Idle == [pc |-> "free", as |-> None, for |-> None, pw |-> 0]

At(r, pc) == req[r].pc = pc

Live(s)  == session[s].state = "live"
Valid(s) == Live(s) /\ ~session[s].expired
Unused(s) == session[s].state = "none"
Of(u) == {s \in Sessions : ~Unused(s) /\ session[s].owner = u}

(* UPDATE refresh_tokens SET revoked_at ... WHERE ... AND revoked_at IS NULL *)
Revoke(S) ==
  session' = [s \in Sessions |->
    IF s \in S /\ Live(s) THEN [session[s] EXCEPT !.state = "revoked"] ELSE session[s]]

Starts(r, pc, s, u, pw) ==
  /\ At(r, "free")
  /\ req' = [req EXCEPT ![r] = [pc |-> pc, as |-> s, for |-> u, pw |-> pw]]
Then(r, pc) == req' = [req EXCEPT ![r].pc = pc]
Done(r) == req' = [req EXCEPT ![r] = Idle]

(* UPDATE users SET ..., within the bound *)
Update(u, row) ==
  /\ user[u].updates < MaxUpdates
  /\ user' = [user EXCEPT ![u] = [row EXCEPT !.updates = @ + 1]]

(* RevokeAllUserSessions; RevokeOtherUserSessions and the rest use Revoke  *)
RevokeAll(S) ==
  session' = [s \in Sessions |->
    IF s \in S THEN [session[s] EXCEPT !.state = "revoked", !.swept = TRUE] ELSE session[s]]

-----------------------------------------------------------------------------
(* Service.Login *)

LoginCheck(r, u) ==
  /\ user[u].active
  /\ Starts(r, "login.create", None, u, user[u].pw)
  /\ UNCHANGED <<user, session, held, aborts>>

(* CreateSession: the INSERT *)
LoginCreate(r) ==
  /\ At(r, "login.create")
  /\ \E s \in Sessions :
       /\ Unused(s)
       /\ session' = [session EXCEPT ![s] = NewSession(s, req[r].for, req[r].pw)]
       /\ req' = [req EXCEPT ![r].pc = "login.record", ![r].as = s]
  /\ UNCHANGED <<user, held, aborts>>

LoginRecord(r) ==
  /\ At(r, "login.record")
  /\ held' = held \cup {req[r].as}
  /\ Done(r)
  /\ UNCHANGED <<user, session, aborts>>

(* RecordLogin fails and the session it was for is revoked *)
LoginUndo(r) ==
  /\ At(r, "login.record")
  /\ aborts > 0 /\ aborts' = aborts - 1
  /\ Revoke({req[r].as})
  /\ Done(r)
  /\ UNCHANGED <<user, held>>

-----------------------------------------------------------------------------
(* Service.Refresh.  A token that is expired, or whose user is inactive,   *)
(* is refused and nothing changes.                                         *)

RefreshRead(r, s) ==
  /\ s \in held
  /\ \/ ~Live(s) /\ Starts(r, "refresh.purge", s, session[s].owner, 0)
     \/ /\ Valid(s) /\ user[session[s].owner].active
        /\ Starts(r, "refresh.rotate", s, session[s].owner, 0)
  /\ UNCHANGED <<user, session, held, aborts>>

(* A revoked token was presented: every session of its user is revoked *)
RefreshPurge(r) ==
  /\ At(r, "refresh.purge")
  /\ RevokeAll(Of(req[r].for))
  /\ Done(r)
  /\ UNCHANGED <<user, held, aborts>>

(* Mutants: the old session stays live; the new one belongs to no user     *)
RotationKeepingOld(old, new) ==
  [session EXCEPT ![new] = [session[old] EXCEPT !.expired = FALSE, !.next = None],
                  ![old] = [session[old] EXCEPT !.next = new]]

RotationOfNobody(old, new) ==
  [session EXCEPT ![new] = [Absent(new) EXCEPT !.state = "live", !.root = session[old].root],
                  ![old] = [session[old] EXCEPT !.state = "revoked", !.next = new]]

(* The old session is revoked and names the new one, which inherits the    *)
(* device and the user                                                     *)
Rotation(old, new) ==
  [session EXCEPT ![new] = [session[old] EXCEPT !.state = "live", !.expired = FALSE, !.next = None],
                  ![old] = [session[old] EXCEPT !.state = "revoked", !.next = new]]

(* Mutant: the transaction does not check that the old session is live *)
RotateRevoked(r) ==
  /\ At(r, "refresh.rotate")
  /\ \E s \in Sessions :
       Unused(s) /\ session' = Rotation(req[r].as, s) /\ held' = held \cup {s}
  /\ Done(r)
  /\ UNCHANGED <<user, aborts>>

(* RotateSession: one transaction, rolled back when the old session is     *)
(* revoked by now.  Its expiry is compared with the time of the read.  A   *)
(* response that is lost is one whose token the client never presents.     *)
RefreshRotate(r) ==
  /\ At(r, "refresh.rotate")
  /\ IF Live(req[r].as)
       THEN \E s \in Sessions :
              Unused(s) /\ session' = Rotation(req[r].as, s) /\ held' = held \cup {s}
       ELSE UNCHANGED <<session, held>>
  /\ Done(r)
  /\ UNCHANGED <<user, aborts>>

-----------------------------------------------------------------------------
(* Requests behind an access token.  ValidateAccess reads the user, then   *)
(* the session; the handler runs its own statements after that.            *)

Authenticate(r, s) ==
  /\ s \in held
  /\ user[session[s].owner].active
  /\ Starts(r, "session.check", s, session[s].owner, 0)
  /\ UNCHANGED <<user, session, held, aborts>>

SessionCheck(r) ==
  /\ At(r, "session.check")
  /\ IF Valid(req[r].as)
       THEN \E handler \in {"logout", "revoke", "change.write"} : Then(r, handler)
       ELSE Done(r)
  /\ UNCHANGED <<user, session, held, aborts>>

Logout(r) ==
  /\ At(r, "logout")
  /\ Revoke({req[r].as})
  /\ Done(r)
  /\ UNCHANGED <<user, held, aborts>>

(* DELETE /auth/sessions/{id}: any identifier, but only the user's own     *)
RevokeOwn(r) ==
  /\ At(r, "revoke")
  /\ \E s \in Sessions : Revoke({s} \cap Of(req[r].for))
  /\ Done(r)
  /\ UNCHANGED <<user, held, aborts>>

(* Service.ChangePassword: a request whose current password was right when *)
(* it was read updates it, whatever it is by now, then revokes the         *)
(* sessions other than the request's own                                   *)
ChangeWrite(r) ==
  /\ At(r, "change.write")
  /\ Update(req[r].for, [user[req[r].for] EXCEPT !.pw = @ + 1])
  /\ Then(r, "change.sweep")
  /\ UNCHANGED <<session, held, aborts>>

ChangeSweep(r) ==
  /\ At(r, "change.sweep")
  /\ Revoke(Of(req[r].for) \ {req[r].as})
  /\ Done(r)
  /\ UNCHANGED <<user, held, aborts>>

-----------------------------------------------------------------------------
(* Administration *)

RevokeAny(s) ==
  /\ Revoke({s})
  /\ UNCHANGED <<user, held, req, aborts>>

(* Service.ResetPassword: update, revoke all *)
ResetWrite(r, u) ==
  /\ Update(u, [user[u] EXCEPT !.pw = @ + 1])
  /\ Starts(r, "reset.sweep", None, u, user[u].pw + 1)
  /\ UNCHANGED <<session, held, aborts>>

ResetSweep(r) ==
  /\ At(r, "reset.sweep")
  /\ RevokeAll(Of(req[r].for))
  /\ user' = [user EXCEPT ![req[r].for].reset = req[r].pw]
  /\ Done(r)
  /\ UNCHANGED <<held, aborts>>

(* Service.SetUserActive *)
Enable(u) ==
  /\ Update(u, [user[u] EXCEPT !.active = TRUE])
  /\ UNCHANGED <<session, held, req, aborts>>

Disable(r, u) ==
  /\ Update(u, [user[u] EXCEPT !.active = FALSE])
  /\ Starts(r, "disable.sweep", None, u, 0)
  /\ UNCHANGED <<session, held, aborts>>

DisableSweep(r) ==
  /\ At(r, "disable.sweep")
  /\ RevokeAll(Of(req[r].for))
  /\ Done(r)
  /\ UNCHANGED <<user, held, aborts>>

-----------------------------------------------------------------------------
(* A statement fails, the client goes away (the statements run under the   *)
(* request's context) or the process stops: the rest is not done.          *)
Abort(r) ==
  /\ ~At(r, "free")
  /\ aborts > 0 /\ aborts' = aborts - 1
  /\ Done(r)
  /\ UNCHANGED <<user, session, held>>

Expire(s) ==
  /\ Valid(s)
  /\ session' = [session EXCEPT ![s].expired = TRUE]
  /\ UNCHANGED <<user, held, req, aborts>>

-----------------------------------------------------------------------------
Init ==
  /\ user = [u \in Users |-> [active |-> TRUE, updates |-> 0, pw |-> 0, reset |-> 0]]
  /\ session = [s \in Sessions |-> Absent(s)]
  /\ held = {}
  /\ req = [r \in Requests |-> Idle]
  /\ aborts = MaxAborts

Serve(r) ==
  \/ LoginCreate(r) \/ LoginRecord(r) \/ LoginUndo(r)
  \/ RefreshPurge(r) \/ RefreshRotate(r)
  \/ SessionCheck(r) \/ Logout(r) \/ RevokeOwn(r) \/ ChangeWrite(r) \/ ChangeSweep(r)
  \/ ResetSweep(r) \/ DisableSweep(r) \/ Abort(r)

Next ==
  \/ \E r \in Requests : Serve(r)
  \/ \E r \in Requests, u \in Users : LoginCheck(r, u) \/ ResetWrite(r, u) \/ Disable(r, u)
  \/ \E r \in Requests, s \in Sessions : RefreshRead(r, s) \/ Authenticate(r, s)
  \/ \E u \in Users : Enable(u)
  \/ \E s \in Sessions : RevokeAny(s) \/ Expire(s)

Spec == Init /\ [][Next]_vars

-----------------------------------------------------------------------------
(* Properties *)

(* Every column and request holds a value the program can store in it, and *)
(* a stored session has a user (user_id is NOT NULL).                      *)
TypeOK ==
  /\ user \in [Users -> User]
  /\ session \in [Sessions -> Session]
  /\ \A s \in Sessions : Unused(s) <=> session[s].owner = None
  /\ held \subseteq Sessions
  /\ req \in [Requests -> Request]
  /\ aborts \in Nat

Kin(s, t) == ~Unused(s) /\ ~Unused(t) /\ session[s].root = session[t].root

(* However often and by however many requests its tokens are refreshed, a  *)
(* login has at most one live session: a refresh token buys one successor. *)
OneLivePerLogin ==
  \A s, t \in Sessions : Live(s) /\ Live(t) /\ Kin(s, t) => s = t

(* A revocation of all sessions reaches those that a refresh under way     *)
(* creates: a live session goes back to a login stored after the last one. *)
SweepsReachSuccessors == \A s \in Sessions : Live(s) => ~session[s].swept

(* replaced_by is a record of every rotation: a session that no login      *)
(* stored is the successor of exactly one other, of the same user.         *)
RotationsAreRecorded ==
  \A t \in Sessions : ~Unused(t) /\ session[t].root # t =>
    \E s \in Sessions :
      /\ session[s].next = t /\ session[s].state = "revoked"
      /\ Kin(s, t) /\ session[s].owner = session[t].owner
      /\ \A p \in Sessions : session[p].next = t => p = s

(* A later statement of a request has been executed, and was its last *)
Answered(r, pc) == At(r, pc) /\ req'[r].pc = "free" /\ aborts' = aborts

Rotated(s) == session[s].next # None

(* A logout that is answered ends its login, whichever of its tokens were  *)
(* refreshed before, unless a refresh has overtaken the logout itself.     *)
LogoutEndsTheLogin ==
  [][\A r \in Requests : Answered(r, "logout") /\ ~Rotated(req[r].as) =>
       ~\E s \in Sessions : Kin(s, req[r].as) /\ session'[s].state = "live"]_vars

(* The device that changes the password stays signed in, and no other one  *)
(* does, unless a refresh of that device has overtaken the change.         *)
ChangeKeepsTheDevice ==
  [][\A r \in Requests : Answered(r, "change.sweep") /\ ~Rotated(req[r].as) =>
       \A s \in Of(req[r].for) :
         IF Kin(s, req[r].as) THEN session'[s].state = session[s].state
                              ELSE session'[s].state # "live"]_vars

(* Refreshing is invisible: with the sessions of a login taken together,   *)
(* the store keeps the promise of DeviceLogins.                            *)
LoginState(l) ==
  IF \A s \in Sessions : ~(~Unused(s) /\ session[s].root = l) THEN "never"
  ELSE IF \E s \in Sessions : Live(s) /\ session[s].root = l THEN "in"
  ELSE "out"

Logins == INSTANCE DeviceLogins WITH
  Logins <- Sessions, login <- [l \in Sessions |-> LoginState(l)]

LoginsSpec == Logins!Spec

-----------------------------------------------------------------------------
(* What the documents say and the code does not do *)

(* A reset of the password signs out every session of the user: none is    *)
(* left that goes back to an older password.                               *)
ResetSignsEverybodyOut ==
  \A s \in Sessions : Live(s) => session[s].pw >= user[session[s].owner].reset
=============================================================================
