------------------------------- MODULE Ttwid --------------------------------
(***************************************************************************)
(* TtwidManager: the cookie that the detail API wants.  It is kept in      *)
(* memory and in a file; when no more than 300 days of it are left Get     *)
(* changes it for a new one, by a request or, if that fails, by a browser  *)
(* that is started for the purpose.  Get holds the mutex from its first    *)
(* line to its last, so every caller waits for the one that is inside,     *)
(* browser and all; the wait does not look at the context.                 *)
(*                                                                         *)
(* Abstractions.  A cookie is a name; one that nothing holds may be issued *)
(* again.  Deadlines are choices: a poll finds something or gives up.  A   *)
(* request or a call of the browser may fail at any time, which also       *)
(* stands for a cancelled context.  Cookies expire nowhere: the code reads *)
(* the expiry only to see whether more than 300 days are left.             *)
(***************************************************************************)
EXTENDS Naturals, FiniteSets

CONSTANTS
  Callers,   \* the goroutines that resolve: requests and workers
  Cookies,   \* names of cookies
  NoCookie

ASSUME CookieAssumption == NoCookie \notin Cookies /\ Cookies # {}

VARIABLES
  memory,   \* TtwidManager.current
  stored,   \* the file; behind: a history, the last save failed
  fresh,    \* the cookies with more than 300 days left
  getter,   \* the calls of Get
  browser   \* the callers whose headless browser runs

ttwidVars == <<memory, stored, fresh, getter, browser>>

-----------------------------------------------------------------------------
(* State *)

InGet == {"check", "refresh", "launch", "devtools", "page", "poll", "store", "open", "write"}

Getter == [pc : {"out", "lock", "got", "failed"} \cup InGet, cookie : Cookies \cup {NoCookie}]

Outside == [pc |-> "out", cookie |-> NoCookie]

Stored == [cookie : Cookies \cup {NoCookie}, behind : BOOLEAN]

TtwidTypeOK ==
  /\ memory \in Cookies \cup {NoCookie}
  /\ stored \in Stored
  /\ fresh \subseteq Cookies
  /\ getter \in [Callers -> Getter]
  /\ browser \subseteq Callers

AnyCookie == CHOOSE cookie \in Cookies : TRUE

(* The process starts: nothing in memory; there may be a file *)
TtwidInit ==
  /\ memory = NoCookie
  /\ stored \in [cookie : {NoCookie, AnyCookie}, behind : {FALSE}]
  /\ fresh \in (SUBSET {stored.cookie}) \ {{NoCookie}}
  /\ getter = [c \in Callers |-> Outside]
  /\ browser = {}

GetsTo(c, pc) == getter' = [getter EXCEPT ![c].pc = pc]
(* The cookie goes into a header of the caller, where nobody looks at it again *)
Return(c) == getter' = [getter EXCEPT ![c] = [pc |-> "got", cookie |-> NoCookie]]

(* Mutants: no mutex; one that is given back before the file is written *)
NeverLocked == Callers = Callers
LockedUntilStored == \A c \in Callers : getter[c].pc \notin InGet \ {"open", "write"}

(* sync.Mutex *)
Unlocked == \A c \in Callers : getter[c].pc \notin InGet

(* The website issues a cookie that nobody has *)
Held == {memory, stored.cookie} \cup {getter[c].cookie : c \in Callers}
Unissued == CHOOSE new \in Cookies : new \notin Held

Issue(c) ==
  /\ Cookies \ Held # {}
  /\ getter' = [getter EXCEPT ![c] = [pc |-> "store", cookie |-> Unissued]]
  /\ fresh' = fresh \cup {Unissued}

-----------------------------------------------------------------------------
(* Get *)

CallGet(c) ==
  /\ getter[c].pc = "out"
  /\ GetsTo(c, "lock")
  /\ UNCHANGED <<memory, stored, fresh, browser>>

Lock(c) ==
  /\ getter[c].pc = "lock" /\ Unlocked
  /\ GetsTo(c, "check")
  /\ UNCHANGED <<memory, stored, fresh, browser>>

(* load: a file that cannot be read or parsed counts as none *)
Loaded == {stored.cookie, NoCookie}

Check(c) ==
  /\ getter[c].pc = "check"
  /\ \E cur \in IF memory = NoCookie THEN Loaded ELSE {memory} :
       /\ memory' = cur
       /\ getter' = [getter EXCEPT ![c] = CASE cur \in fresh -> [pc |-> "got", cookie |-> NoCookie]
                                            [] cur = NoCookie -> [pc |-> "launch", cookie |-> NoCookie]
                                            [] OTHER -> [pc |-> "refresh", cookie |-> NoCookie]]
  /\ UNCHANGED <<stored, fresh, browser>>

(* ttwid/check answers with a new cookie, or not *)
Refresh(c) ==
  /\ getter[c].pc = "refresh"
  /\ \/ Issue(c)
     \/ GetsTo(c, "launch") /\ UNCHANGED fresh
  /\ UNCHANGED <<memory, stored, browser>>

(* Mutant: the cookies are polled without a deadline *)
GiveUpEarly(c) ==
  /\ getter[c].pc \in {"launch", "devtools", "page"}
  /\ GetsTo(c, "failed")
  /\ browser' = browser \ {c}
  /\ UNCHANGED <<memory, stored, fresh>>

(* bootstrap fails; its deferred calls stop the browser *)
GiveUp(c) ==
  /\ getter[c].pc \in {"launch", "devtools", "page", "poll"}
  /\ GetsTo(c, "failed")
  /\ browser' = browser \ {c}
  /\ UNCHANGED <<memory, stored, fresh>>

Launch(c) ==
  /\ getter[c].pc = "launch"
  /\ GetsTo(c, "devtools")
  /\ browser' = browser \cup {c}
  /\ UNCHANGED <<memory, stored, fresh>>

WaitForDevtoolsPage(c) ==
  /\ getter[c].pc = "devtools"
  /\ GetsTo(c, "page")
  /\ UNCHANGED <<memory, stored, fresh, browser>>

(* dialCDP and the calls up to Page.navigate *)
Navigate(c) ==
  /\ getter[c].pc = "page"
  /\ GetsTo(c, "poll")
  /\ UNCHANGED <<memory, stored, fresh, browser>>

(* Network.getCookies lists a cookie *)
Poll(c) ==
  /\ getter[c].pc = "poll"
  /\ Issue(c)
  /\ browser' = browser \ {c}
  /\ UNCHANGED <<memory, stored>>

Store(c) ==
  /\ getter[c].pc = "store"
  /\ memory' = getter[c].cookie
  /\ GetsTo(c, "open")
  /\ UNCHANGED <<stored, fresh, browser>>

(* save ignores its errors: opening the file truncates it, or fails *)
OpenFile(c) ==
  /\ getter[c].pc = "open"
  /\ \/ stored' = [stored EXCEPT !.cookie = NoCookie] /\ GetsTo(c, "write")
     \/ stored' = [stored EXCEPT !.behind = TRUE] /\ Return(c)
  /\ UNCHANGED <<memory, fresh, browser>>

WriteFile(c) ==
  /\ getter[c].pc = "write"
  /\ stored' \in {[cookie |-> getter[c].cookie, behind |-> FALSE], [stored EXCEPT !.behind = TRUE]}
  /\ Return(c)
  /\ UNCHANGED <<memory, fresh, browser>>

(* The caller goes on with what it got *)
TakeCookie(c, result) ==
  /\ getter[c].pc = result
  /\ getter' = [getter EXCEPT ![c] = Outside]
  /\ UNCHANGED <<memory, stored, fresh, browser>>

(* What Get does by itself; whether a cookie ever shows up is not up to it *)
InsideGet(c) ==
  \/ Check(c) \/ Refresh(c) \/ GiveUp(c) \/ Launch(c)
  \/ WaitForDevtoolsPage(c) \/ Navigate(c) \/ Store(c) \/ OpenFile(c) \/ WriteFile(c)

-----------------------------------------------------------------------------
(* The environment *)

(* The 65 days since a cookie was issued have passed *)
CookieAges ==
  /\ \E cookie \in fresh : fresh' = fresh \ {cookie}
  /\ UNCHANGED <<memory, stored, getter, browser>>

(* The process dies with its memory and its browser; the file stays *)
TtwidCrash ==
  /\ memory' = NoCookie
  /\ stored' = [stored EXCEPT !.behind = FALSE]
  /\ getter' = [c \in Callers |-> Outside]
  /\ browser' = {}
  /\ UNCHANGED fresh

-----------------------------------------------------------------------------
(* Properties *)

(* However many calls of Get there are, at most one browser runs, and only *)
(* while the call that started it is inside: the deferred kill of          *)
(* bootstrap and the mutex of Get.                                         *)
OneBrowser ==
  /\ \A c \in browser : getter[c].pc \in {"devtools", "page", "poll"}
  /\ \A c, d \in Callers : getter[c].pc \in InGet /\ getter[d].pc \in InGet => c = d

(* When nobody is inside Get, the file holds the very cookie that is in    *)
(* memory, unless it could not be written: no older cookie overwrites a    *)
(* newer one, so that a restart goes on with the last.                     *)
FileFollowsMemory ==
  (\A c \in Callers : getter[c].pc \notin InGet) /\ memory # NoCookie /\ ~stored.behind
    => stored.cookie = memory

=============================================================================
