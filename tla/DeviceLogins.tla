---------------------------- MODULE DeviceLogins ----------------------------
(***************************************************************************)
(* What the session store promises about each login on a device: it is     *)
(* signed in once and, when it has been signed out, it stays so.  It knows *)
(* nothing of refresh tokens: exchanging one is invisible here.            *)
(***************************************************************************)
CONSTANTS Logins

VARIABLES login

States == {"never", "in", "out"}

Init == login = [l \in Logins |-> "never"]

SignIn(l) == login[l] = "never" /\ login' = [login EXCEPT ![l] = "in"]

(* One revocation may end several logins *)
SignOut ==
  /\ login' \in [Logins -> States]
  /\ \A l \in Logins :
       login[l] # login'[l] => login[l] = "in" /\ login'[l] = "out"

Next == SignOut \/ \E l \in Logins : SignIn(l)

Spec == Init /\ [][Next]_login
=============================================================================
