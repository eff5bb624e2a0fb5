---------------------------- MODULE LoginLimiter ----------------------------
(***************************************************************************)
(* POST /auth/login: the attempts that an address and an account are       *)
(* allowed in a minute.  loginLimiter keeps a window for each of them in a *)
(* map of bounded size, which is cleaned up once a minute, by an attempt.  *)
(*                                                                         *)
(* A handler takes the time once and asks for the address and then for the *)
(* account; it waits for the mutex in between, so that an attempt may find *)
(* windows that are younger than itself.                                   *)
(*                                                                         *)
(* Abstractions.  Time is seen from now: of each time.Time there is the    *)
(* age, up to where it makes no difference.  A window that is not in the   *)
(* map has count 0.  What an attempt that is let through does is the       *)
(* subject of AuthSessions.                                                *)
(***************************************************************************)
EXTENDS Integers, FiniteSets, Functions

CONSTANTS
  Clients,    \* the attempts that are under way at a time
  Addresses,  \* "ip|..."
  Accounts,   \* "account|..."
  Limit,      \* LOGIN_RATE_LIMIT_PER_MINUTE, which is positive
  Capacity,   \* 10_000
  Minute,     \* time.Minute, in ticks
  Delay       \* bound: ticks that an attempt may wait for the mutex

ASSUME LimitAssumption == Limit \in Nat \ {0} /\ Capacity \in Nat
ASSUME TimeAssumption == Minute \in Nat \ {0} /\ Delay \in 0..Minute

VARIABLES
  windows,    \* windows, and the counts in them
  cleanup,    \* lastCleanup
  attempt,    \* the handlers
  allowed     \* a history: for each key and age, the attempts of that age that were allowed

vars == <<windows, cleanup, attempt, allowed>>

-----------------------------------------------------------------------------
(* State *)

Keys == Addresses \cup Accounts

Old == 2 * Minute + Delay      \* the ages of a window are told apart up to it
Horizon == Minute + 2 * Delay  \* and those of allowed attempts

Window == [age : 0..Old, count : 0..Limit]

Attempt == [pc : {"idle", "address", "account"}, address : Addresses, account : Accounts, age : 0..Delay]

TypeOK ==
  /\ windows \in [Keys -> Window]
  /\ cleanup \in 0..Old
  /\ attempt \in [Clients -> Attempt]
  /\ allowed \in [Keys -> [0..Horizon -> Nat]]
  /\ Cardinality({k \in Keys : windows[k].count > 0}) <= Capacity

(* newLoginLimiter: nothing has been cleaned up yet *)
Init ==
  /\ windows = [k \in Keys |-> [age |-> Old, count |-> 0]]
  /\ cleanup = Old
  /\ attempt \in [Clients -> {a \in Attempt : a.pc = "idle" /\ a.age = 0}]
  /\ allowed = [k \in Keys |-> [a \in 0..Horizon |-> 0]]

-----------------------------------------------------------------------------
(* loginLimiter.Allow, by an attempt of the given age *)

(* now.Sub(t) >= time.Minute *)
AMinuteBefore(t, age) == t >= age + Minute

Kept(ws) == {k \in Keys : ws[k].count > 0}

(* Mutant: when they are all full nothing is cleaned up *)
CleanedUpWhileFew(age) ==
  [k \in Keys |->
     IF AMinuteBefore(cleanup, age) /\ AMinuteBefore(windows[k].age, age) /\ Cardinality(Kept(windows)) < Capacity
     THEN [age |-> Old, count |-> 0] ELSE windows[k]]

(* The windows that are over are dropped, if it is time for it *)
CleanedUp(age) ==
  [k \in Keys |->
     IF AMinuteBefore(cleanup, age) /\ AMinuteBefore(windows[k].age, age)
     THEN [age |-> Old, count |-> 0] ELSE windows[k]]

(* There is no window, or it is over *)
IsOver(window, age) == window.count = 0 \/ AMinuteBefore(window.age, age)

Full(ws) == Cardinality(Kept(ws)) >= Capacity

(* Mutant: one more than the limit *)
MayEnterOnceMore(window, age) == IsOver(window, age) \/ window.count <= Limit

MayEnter(window, age) == IsOver(window, age) \/ window.count < Limit

(* Mutant: the count of the window that is over goes on *)
EnteredOnTop(window, age) ==
  [age |-> IF IsOver(window, age) THEN age ELSE window.age, count |-> window.count + 1]

Entered(window, age) ==
  IF IsOver(window, age) THEN [age |-> age, count |-> 1] ELSE [window EXCEPT !.count = @ + 1]

IsAllowed(key, age) == ~Full(CleanedUp(age)) /\ MayEnter(CleanedUp(age)[key], age)

Allow(key, age) ==
  /\ cleanup' = IF AMinuteBefore(cleanup, age) THEN age ELSE cleanup
  /\ IF IsAllowed(key, age)
     THEN /\ windows' = [CleanedUp(age) EXCEPT ![key] = Entered(@, age)]
          /\ allowed' = [allowed EXCEPT ![key][age] = @ + 1]
     ELSE /\ windows' = CleanedUp(age)
          /\ UNCHANGED allowed

-----------------------------------------------------------------------------
(* handleLogin *)

Goto(c, pc) == attempt' = [attempt EXCEPT ![c].pc = pc, ![c].age = IF pc = "idle" THEN 0 ELSE @]

(* The body has been read: now, username := time.Now(), ... *)
Arrive(c) ==
  /\ attempt[c].pc = "idle"
  /\ \E address \in Addresses, account \in Accounts :
       attempt' = [attempt EXCEPT ![c] = [pc |-> "address", address |-> address, account |-> account, age |-> 0]]
  /\ UNCHANGED <<windows, cleanup, allowed>>

(* An address that is not allowed is refused without a look at the account *)
AllowAddress(c) ==
  /\ attempt[c].pc = "address"
  /\ Allow(attempt[c].address, attempt[c].age)
  /\ Goto(c, IF IsAllowed(attempt[c].address, attempt[c].age) THEN "account" ELSE "idle")

AllowAccount(c) ==
  /\ attempt[c].pc = "account"
  /\ Allow(attempt[c].account, attempt[c].age)
  /\ Goto(c, "idle")

-----------------------------------------------------------------------------
(* Time *)

Older(age, oldest) == IF age < oldest THEN age + 1 ELSE oldest

Tick ==
  /\ \A c \in Clients : attempt[c].pc = "idle" \/ attempt[c].age < Delay
  /\ attempt' = [c \in Clients |->
       IF attempt[c].pc = "idle" THEN attempt[c] ELSE [attempt[c] EXCEPT !.age = @ + 1]]
  /\ windows' = [k \in Keys |-> [windows[k] EXCEPT !.age = Older(@, Old)]]
  /\ cleanup' = Older(cleanup, Old)
  /\ allowed' = [k \in Keys |-> [a \in 0..Horizon |-> IF a = 0 THEN 0 ELSE allowed[k][a - 1]]]

-----------------------------------------------------------------------------
(* The specification *)

Next ==
  \/ \E c \in Clients : Arrive(c) \/ AllowAddress(c) \/ AllowAccount(c)
  \/ Tick

Spec == Init /\ [][Next]_vars

-----------------------------------------------------------------------------
(* Properties *)

AllowedAt(k, ages) == SumFunctionOnSet(allowed[k], ages)

(* An attempt is counted when it was made, which may be Delay before it    *)
(* was let through: a window may begin that much early, and end as late    *)
Stretch == Minute - 2 * Delay

(* In no minute but for that, wherever it begins, are more attempts of an  *)
(* address or an account allowed than twice the limit, whichever of them   *)
(* were late and whatever was cleaned up: no three windows reach into it.  *)
AtMostTwiceTheLimit == \A k \in Keys, a \in 0..Horizon :
  a + Stretch <= Horizon => AllowedAt(k, a .. a + Stretch) <= 2 * Limit

(* Who is refused has had all that the limit grants within the last        *)
(* minute, or the map is full of windows none of which is older than two:  *)
(* nobody stays locked out by what was long ago.                           *)
Refused(c, key) ==
  attempt[c].pc # "idle" /\ attempt'[c].pc = "idle" /\ allowed'[key] = allowed[key]

HasAReason(c, key) ==
  \/ AllowedAt(key, 0..Horizon) >= Limit
  \/ Full(windows') /\ \A k \in Kept(windows') : ~AMinuteBefore(windows'[k].age, Minute + Delay)

RefusedForAReason == [][\A c \in Clients :
  LET key == IF attempt[c].pc = "address" THEN attempt[c].address ELSE attempt[c].account
  IN  Refused(c, key) => HasAReason(c, key)]_vars

=============================================================================
