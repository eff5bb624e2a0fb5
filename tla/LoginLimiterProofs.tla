------------------------- MODULE LoginLimiterProofs -------------------------
(***************************************************************************)
(* Proofs about the limits of logins, for any sets of attempts, addresses  *)
(* and accounts, any limit, capacity, length of the minute, and any delay  *)
(* of up to a minute.  What is true of one key (Good) relates its window   *)
(* to the history of what was allowed: the window counts what it let       *)
(* through, neither more nor less but for the attempts that were late.     *)
(* A key is affected by a cleanup, by an attempt that enters and by the    *)
(* passing of time; there is one lemma for each.                           *)
(***************************************************************************)
EXTENDS LoginLimiter, Sums, TLAPS

USE LimitAssumption, TimeAssumption

Ages == 0..Horizon
UpTo(t) == {a \in Ages : a <= t}
Total(f, S) == SumFunctionOnSet(f, S)

(* What came before the window is not in it, but for what was late         *)
CountsNoLess(win, f) == win.count > 0 => Total(f, UpTo(win.age - Delay)) <= win.count

CountsNoMore(win, f) ==
  win.count > 0 /\ win.age + Delay <= Horizon => Total(f, UpTo(win.age + Delay)) >= win.count

(* A stretch that reaches among the latest has room for one more window    *)
RoomForOne(win, f) == \A e \in 0..Delay :
  e + Stretch <= Horizon => Total(f, e .. e + Stretch) <= Limit + win.count

AtMostTwo(f) == \A a \in Ages : a + Stretch <= Horizon => Total(f, a .. a + Stretch) <= 2 * Limit

(* What is allowed now is in a window that is not over                     *)
InAWindow(win, f) ==
  /\ win.count > 0 => \A b \in Ages : b + Minute <= win.age => f[b] = 0
  /\ win.count = 0 => f[0] = 0

CleanedInTime(win, last) == win.count > 0 => win.age <= last + Minute

Good(win, f, last) ==
  /\ win \in Window /\ f \in [Ages -> Nat] /\ last \in 0..Old
  /\ CountsNoLess(win, f) /\ CountsNoMore(win, f)
  /\ RoomForOne(win, f) /\ AtMostTwo(f)
  /\ InAWindow(win, f) /\ CleanedInTime(win, last)

-----------------------------------------------------------------------------
(* Sums over ages *)

LEMMA AgesAreFew ==
  /\ Horizon \in Nat /\ Old \in Nat /\ Stretch \in Int
  /\ IsFiniteSet(Ages)
  /\ \A t : UpTo(t) \subseteq Ages
  /\ \A a \in Ages : a + Stretch <= Horizon => (a .. a + Stretch) \subseteq Ages
<1>1. Horizon \in Nat /\ Old \in Nat /\ Stretch \in Int  BY DEF Horizon, Old, Stretch
<1>2. IsFiniteSet(Ages)  BY <1>1, FS_Interval DEF Ages
<1> QED  BY <1>1, <1>2 DEF UpTo, Ages

LEMMA AgesCount ==
  ASSUME NEW f \in [Ages -> Nat], NEW S \in SUBSET Ages
  PROVE  Counts(f, S) /\ Total(f, S) \in Nat
<1>1. Counts(f, S)  BY AgesAreFew, FS_Subset DEF Counts
<1> QED  BY <1>1, SumIsNat DEF Total

LEMMA TotalOfMore ==
  ASSUME NEW f \in [Ages -> Nat], NEW T \in SUBSET Ages, NEW S \in SUBSET T
  PROVE  Total(f, S) <= Total(f, T)
<1>1. Counts(f, T) /\ \A x \in S : f[x] \in Nat /\ f[x] <= f[x]  BY AgesCount
<1>2. SumFunctionOnSet(f, S) <= SumFunctionOnSet(f, T)  BY ONLY <1>1, S \in SUBSET T, SumOfMore
<1> QED  BY <1>2 DEF Total

LEMMA TotalOfNothing ==
  ASSUME NEW f \in [Ages -> Nat], NEW S \in SUBSET Ages, \A a \in S : f[a] = 0
  PROVE  Total(f, S) = 0
<1>1. IsFiniteSet(S)  BY AgesAreFew, FS_Subset
<1> QED  BY <1>1, SumOfZeros DEF Total

(* One more of the age g is allowed *)
OneMore(f, g, h, S) ==
  /\ Total(h, S) \in Nat /\ Total(f, S) \in Nat
  /\ Total(f, S) <= Total(h, S) /\ Total(h, S) <= Total(f, S) + 1
  /\ g \in S => Total(h, S) = Total(f, S) + 1
  /\ g \notin S => Total(h, S) = Total(f, S)

LEMMA TotalWithOneMore ==
  ASSUME NEW f \in [Ages -> Nat], NEW g \in Ages, NEW h, h = [f EXCEPT ![g] = @ + 1]
  PROVE  h \in [Ages -> Nat] /\ \A S \in SUBSET Ages : OneMore(f, g, h, S)
<1>1. h \in [Ages -> Nat] /\ h[g] = f[g] + 1 /\ \A x \in Ages \ {g} : h[x] = f[x]  OBVIOUS
<1> SUFFICES ASSUME NEW S \in SUBSET Ages PROVE OneMore(f, g, h, S)
  BY <1>1
<1>2. Counts(f, S) /\ Total(f, S) \in Nat /\ Total(h, S) \in Nat  BY <1>1, AgesCount
<1>3. ASSUME g \in S PROVE Total(h, S) = Total(f, S) + 1
  <2>1. h[g] \in Nat /\ \A y \in S \ {g} : h[y] = f[y]  BY <1>1
  <2>2. SumFunctionOnSet(h, S) + f[g] = SumFunctionOnSet(f, S) + h[g]
    BY ONLY <1>2, <1>3, <2>1, SumOfOneChanged
  <2> QED  BY <1>1, <1>2, <2>2 DEF Total
<1>4. ASSUME g \notin S PROVE Total(h, S) = Total(f, S)
  <2>1. \A y \in S : h[y] = f[y]  BY <1>1, <1>4
  <2>2. SumFunctionOnSet(h, S) = SumFunctionOnSet(f, S)  BY ONLY <1>2, <2>1, SumOfTheSame
  <2> QED  BY <2>2 DEF Total
<1> QED  BY <1>2, <1>3, <1>4 DEF OneMore

(* The history after a tick *)
Aged(f) == [a \in Ages |-> IF a = 0 THEN 0 ELSE f[a - 1]]

LEMMA AgedIsCounted ==
  ASSUME NEW f \in [Ages -> Nat]
  PROVE  /\ Aged(f) \in [Ages -> Nat] /\ Aged(f)[0] = 0
         /\ \A a \in Ages : a # 0 => a - 1 \in Ages /\ Aged(f)[a] = f[a - 1]
BY AgesAreFew DEF Aged, Ages

LEMMA TotalOfAged ==
  ASSUME NEW f \in [Ages -> Nat], NEW S \in SUBSET Ages, NEW T \in SUBSET Ages,
         \A a \in T : a = 0 \/ a - 1 \in S
  PROVE  Total(Aged(f), T) <= Total(f, S)
<1> DEFINE g == Aged(f)
           U == T \ {0}
           h == [a \in U |-> a - 1]
<1>1. g \in [Ages -> Nat] /\ g[0] = 0 /\ \A a \in U : g[a] = f[a - 1]  BY AgedIsCounted
<1>2. h \in [U -> S] /\ \A x, y \in U : h[x] = h[y] => x = y
  BY DEF Ages
<1>3. \A x \in U : g[x] \in Nat /\ g[x] <= f[h[x]]  BY <1>1
<1>4. Counts(f, S) /\ Counts(g, T) /\ Total(g, T) \in Nat /\ Total(f, S) \in Nat /\ Total(g, U) \in Nat
  BY <1>1, AgesCount
<1> HIDE DEF g, h, U
<1>5. SumFunctionOnSet(g, U) <= SumFunctionOnSet(f, S)  BY ONLY <1>2, <1>3, <1>4, SumOfMoved
<1>6. Total(g, T) = Total(g, U)
  <2>1. CASE 0 \in T
    <3>1. SumFunctionOnSet(g, T) = g[0] + SumFunctionOnSet(g, T \ {0})  BY <1>4, <2>1, SumOfOneMore
    <3> QED  BY <1>1, <1>4, <3>1 DEF Total, U
  <2>2. CASE 0 \notin T
    <3>1. U = T  BY <2>2 DEF U
    <3> QED  BY <3>1
  <2> QED  BY <2>1, <2>2
<1> QED  BY <1>5, <1>6 DEF Total, g

LEMMA TotalOfAgedIsNoLess ==
  ASSUME NEW f \in [Ages -> Nat], NEW S \in SUBSET Ages, NEW T \in SUBSET Ages,
         \A a \in S : a + 1 \in T
  PROVE  Total(f, S) <= Total(Aged(f), T)
<1> DEFINE g == Aged(f)
           h == [a \in S |-> a + 1]
<1>1. g \in [Ages -> Nat] /\ \A a \in S : g[a + 1] = f[a]
  <2>1. \A a \in S : a + 1 \in Ages /\ a + 1 # 0 /\ (a + 1) - 1 = a  BY DEF Ages
  <2> QED  BY <2>1, AgedIsCounted
<1>2. h \in [S -> T] /\ \A x, y \in S : h[x] = h[y] => x = y  BY DEF Ages
<1>3. \A x \in S : f[x] \in Nat /\ f[x] <= g[h[x]]  BY <1>1
<1>4. Counts(g, T)  BY <1>1, AgesCount
<1> HIDE DEF g, h
<1>5. SumFunctionOnSet(f, S) <= SumFunctionOnSet(g, T)  BY ONLY <1>2, <1>3, <1>4, SumOfMoved
<1> QED  BY <1>5 DEF Total, g

-----------------------------------------------------------------------------
(* One key *)

Gone == [age |-> Old, count |-> 0]

(* Nothing has been allowed yet *)
LEMMA GoodAtFirst == Good(Gone, [a \in Ages |-> 0], Old)
<1> DEFINE f == [a \in Ages |-> 0]
<1>1. Gone \in Window /\ Gone.count = 0 /\ f \in [Ages -> Nat] /\ \A a \in Ages : f[a] = 0
  BY AgesAreFew DEF Gone, Window
<1> HIDE DEF f
<1>2. 0 \in Ages /\ (0..Delay) \subseteq Ages /\ Old \in 0..Old  BY AgesAreFew DEF Ages, Horizon
<1>3. \A S \in SUBSET Ages : Total(f, S) = 0  BY <1>1, TotalOfNothing
<1>4. \A a \in Ages : a + Stretch <= Horizon => Total(f, a .. a + Stretch) = 0
  BY <1>3, AgesAreFew
<1>6. RoomForOne(Gone, f) /\ AtMostTwo(f)
  BY <1>1, <1>2, <1>4 DEF RoomForOne, AtMostTwo
<1>5. CountsNoLess(Gone, f) /\ CountsNoMore(Gone, f) /\ InAWindow(Gone, f) /\ CleanedInTime(Gone, Old)
  BY <1>1, <1>2 DEF CountsNoLess, CountsNoMore, InAWindow, CleanedInTime
<1> QED  BY <1>1, <1>2, <1>5, <1>6 DEF Good, f

(* When the window is over for an attempt, no more than the limit is       *)
(* allowed in a stretch that reaches among the latest, and nothing now     *)
LEMMA WhenItIsOver ==
  ASSUME NEW win, NEW f, NEW last, Good(win, f, last), NEW g \in 0..Delay,
         win.count = 0 \/ AMinuteBefore(win.age, g)
  PROVE  /\ \A e \in 0..Delay : e + Stretch <= Horizon => Total(f, e .. e + Stretch) <= Limit
         /\ f[0] = 0
<1>1. win \in Window /\ f \in [Ages -> Nat]  BY DEF Good
<1>2. win.count \in 0..Limit /\ win.age \in 0..Old /\ 0 \in Ages
  BY <1>1, AgesAreFew DEF Window, Ages
<1>3. f[0] = 0
  BY <1>2 DEF Good, InAWindow, AMinuteBefore
<1>4. ASSUME NEW e \in 0..Delay, e + Stretch <= Horizon
      PROVE  Total(f, e .. e + Stretch) <= Limit
  <2>1. CASE win.count = 0
    BY <1>1, <1>2, <1>4, <2>1 DEF Good, RoomForOne
  <2>2. CASE win.count > 0
    <3>1. win.age >= Minute  BY <1>2, <2>2 DEF AMinuteBefore
    <3>2. e \in Ages /\ (e .. e + Stretch) \subseteq UpTo(win.age - Delay)
      BY <1>2, <1>4, <3>1, AgesAreFew DEF UpTo, Ages, Horizon, Stretch
    <3>3. Total(f, e .. e + Stretch) <= Total(f, UpTo(win.age - Delay))
      BY <1>1, <3>2, AgesAreFew, TotalOfMore
    <3>4. Total(f, UpTo(win.age - Delay)) <= win.count  BY <2>2 DEF Good, CountsNoLess
    <3>5. Total(f, e .. e + Stretch) \in Nat /\ Total(f, UpTo(win.age - Delay)) \in Nat
      BY <1>1, <3>2, AgesAreFew, AgesCount
    <3> QED  BY <1>2, <3>3, <3>4, <3>5
  <2> QED  BY <1>2, <2>1, <2>2
<1> QED  BY <1>3, <1>4

(* A cleanup by an attempt of age g *)
LEMMA GoodWhenCleanedUp ==
  ASSUME NEW win, NEW f, NEW last, Good(win, f, last), NEW g \in 0..Delay
  PROVE  Good(IF AMinuteBefore(last, g) /\ AMinuteBefore(win.age, g) THEN Gone ELSE win, f,
              IF AMinuteBefore(last, g) THEN g ELSE last)
<1>1. win \in Window /\ f \in [Ages -> Nat] /\ last \in 0..Old  BY DEF Good
<1>2. win.count \in 0..Limit /\ win.age \in 0..Old /\ g \in 0..Old
  BY <1>1 DEF Window, Old
<1>3. CASE ~AMinuteBefore(last, g)  BY <1>3
<1>4. CASE AMinuteBefore(last, g) /\ ~AMinuteBefore(win.age, g)
  <2>1. CleanedInTime(win, g)  BY <1>2, <1>4 DEF CleanedInTime, AMinuteBefore
  <2> QED  BY <1>2, <1>4, <2>1 DEF Good
<1>5. CASE AMinuteBefore(last, g) /\ AMinuteBefore(win.age, g)
  <2>1. Gone \in Window /\ Gone.count = 0  BY AgesAreFew DEF Gone, Window
  <2>2. /\ \A e \in 0..Delay : e + Stretch <= Horizon => Total(f, e .. e + Stretch) <= Limit
        /\ f[0] = 0
    BY <1>5, WhenItIsOver
  <2>3. RoomForOne(Gone, f)  BY <2>1, <2>2 DEF RoomForOne
  <2>4. CountsNoLess(Gone, f) /\ CountsNoMore(Gone, f) /\ InAWindow(Gone, f) /\ CleanedInTime(Gone, g)
    BY <2>1, <2>2 DEF CountsNoLess, CountsNoMore, InAWindow, CleanedInTime
  <2> QED  BY <1>1, <1>2, <1>5, <2>1, <2>3, <2>4 DEF Good
<1> QED  BY <1>3, <1>4, <1>5

(* Of two stretches' worth, one is left for what enters now *)
LEMMA AtMostTwoWithOneMore ==
  ASSUME NEW f \in [Ages -> Nat], AtMostTwo(f), NEW g \in 0..Delay, NEW win \in Window,
         NEW h, h = [f EXCEPT ![g] = @ + 1], RoomForOne(win, h)
  PROVE  AtMostTwo(h)
<1> SUFFICES ASSUME NEW a \in Ages, a + Stretch <= Horizon
             PROVE  Total(h, a .. a + Stretch) <= 2 * Limit
  BY DEF AtMostTwo
<1>1. (a .. a + Stretch) \in SUBSET Ages /\ g \in Ages /\ win.count \in 0..Limit
  BY AgesAreFew DEF Ages, Horizon, Window
<1>2. \A S \in SUBSET Ages : OneMore(f, g, h, S)  BY <1>1, TotalWithOneMore
<1>3. OneMore(f, g, h, a .. a + Stretch)  BY <1>1, <1>2
<1>4. CASE g \in a .. a + Stretch
  <2>1. a \in 0..Delay  BY <1>4, AgesAreFew DEF Ages
  <2>2. Total(h, a .. a + Stretch) <= Limit + win.count  BY <2>1 DEF RoomForOne
  <2> QED  BY <1>1, <1>3, <2>2 DEF OneMore
<1>5. CASE g \notin a .. a + Stretch
  BY <1>3, <1>5 DEF AtMostTwo, OneMore
<1> QED  BY <1>4, <1>5

(* An attempt of age g is the first of a window *)
LEMMA GoodWhenBegun ==
  ASSUME NEW win, NEW f, NEW last, Good(win, f, last), NEW g \in 0..Delay, IsOver(win, g)
  PROVE  Good([age |-> g, count |-> 1], [f EXCEPT ![g] = @ + 1], last)
<1> DEFINE new == [age |-> g, count |-> 1]
           h == [f EXCEPT ![g] = @ + 1]
<1>0. h = [f EXCEPT ![g] = @ + 1]  OBVIOUS
<1>1. f \in [Ages -> Nat] /\ last \in 0..Old /\ AtMostTwo(f)  BY DEF Good
<1>2. new \in Window /\ new.count = 1 /\ new.age = g /\ g \in Ages /\ g \in 0..Old /\ 0 \in Ages
  BY AgesAreFew DEF Window, Old, Ages, Horizon
<1>3. h \in [Ages -> Nat] /\ h[g] = f[g] + 1 /\ \A a \in Ages \ {g} : h[a] = f[a]
  BY <1>1, <1>2
<1>4. /\ \A e \in 0..Delay : e + Stretch <= Horizon => Total(f, e .. e + Stretch) <= Limit
      /\ f[0] = 0
  BY WhenItIsOver DEF IsOver
<1> HIDE DEF h, new
<1>5. \A S \in SUBSET Ages : OneMore(f, g, h, S)
  BY <1>0, <1>1, <1>2, TotalWithOneMore
<1>6. CountsNoLess(new, h)
  <2>1. UpTo(g - Delay) \subseteq {0}  BY DEF UpTo, Ages
  <2>2. Total(f, UpTo(g - Delay)) = 0
    BY <1>1, <1>4, <2>1, AgesAreFew, TotalOfNothing
  <2>3. Total(h, UpTo(g - Delay)) <= 1
    <3>1. UpTo(g - Delay) \in SUBSET Ages  BY AgesAreFew
    <3> QED  BY <1>5, <2>2, <3>1 DEF OneMore
  <2> QED  BY <1>2, <2>3 DEF CountsNoLess
<1>7. CountsNoMore(new, h)
  <2>1. g \in UpTo(g + Delay) /\ UpTo(g + Delay) \in SUBSET Ages  BY <1>2, AgesAreFew DEF UpTo, Ages
  <2>2. Total(h, UpTo(g + Delay)) >= 1  BY <1>5, <2>1 DEF OneMore
  <2> QED  BY <1>2, <2>2 DEF CountsNoMore
<1>8. RoomForOne(new, h)
  <2> SUFFICES ASSUME NEW e \in 0..Delay, e + Stretch <= Horizon
               PROVE  Total(h, e .. e + Stretch) <= Limit + 1
    BY <1>2 DEF RoomForOne
  <2>1. (e .. e + Stretch) \in SUBSET Ages  BY AgesAreFew DEF Ages, Horizon
  <2>2. Total(f, e .. e + Stretch) <= Limit  BY <1>4
  <2>3. OneMore(f, g, h, e .. e + Stretch)  BY <1>5, <2>1
  <2> QED  BY <2>2, <2>3 DEF OneMore
<1>9. AtMostTwo(h)  BY <1>1, <1>2, <1>8, <1>0, AtMostTwoWithOneMore
<1>10. InAWindow(new, h)
  <2> SUFFICES ASSUME NEW b \in Ages, b + Minute <= g PROVE h[b] = 0
    BY <1>2 DEF InAWindow
  <2>1. b = 0 /\ g # 0  BY DEF Ages
  <2> QED  BY <1>2, <1>3, <1>4, <2>1
<1>11. CleanedInTime(new, last)  BY <1>1, <1>2 DEF CleanedInTime
<1> QED  BY <1>1, <1>2, <1>3, <1>6, <1>7, <1>8, <1>9, <1>10, <1>11 DEF Good, h, new

(* ... or another of it *)
LEMMA GoodWhenContinued ==
  ASSUME NEW win, NEW f, NEW last, Good(win, f, last), NEW g \in 0..Delay,
         ~IsOver(win, g), win.count < Limit
  PROVE  Good([win EXCEPT !.count = @ + 1], [f EXCEPT ![g] = @ + 1], last)
<1> DEFINE new == [win EXCEPT !.count = @ + 1]
           h == [f EXCEPT ![g] = @ + 1]
<1>0. h = [f EXCEPT ![g] = @ + 1]  OBVIOUS
<1>1. f \in [Ages -> Nat] /\ last \in 0..Old /\ AtMostTwo(f) /\ win \in Window  BY DEF Good
<1>2. /\ win.count \in 1..(Limit - 1) /\ win.age \in 0..Old
      /\ win.age < g + Minute /\ g \in Ages /\ g \in 0..Old /\ 0 \in Ages
  BY <1>1, AgesAreFew DEF Window, Old, Ages, Horizon, IsOver, AMinuteBefore
<1>3. new \in Window /\ new.count = win.count + 1 /\ new.age = win.age
  BY <1>1, <1>2 DEF Window
<1>4. h \in [Ages -> Nat] /\ h[g] = f[g] + 1 /\ \A a \in Ages \ {g} : h[a] = f[a]
  BY <1>1, <1>2
<1> HIDE DEF h, new
<1>5. \A S \in SUBSET Ages : OneMore(f, g, h, S)
  BY <1>0, <1>1, <1>2, TotalWithOneMore
<1>6. CountsNoLess(new, h)
  <2>1. UpTo(win.age - Delay) \in SUBSET Ages  BY AgesAreFew
  <2>2. Total(f, UpTo(win.age - Delay)) <= win.count  BY <1>2 DEF Good, CountsNoLess
  <2>3. Total(h, UpTo(win.age - Delay)) <= win.count + 1  BY <1>2, <1>5, <2>1, <2>2 DEF OneMore
  <2> QED  BY <1>3, <2>3 DEF CountsNoLess
<1>7. CountsNoMore(new, h)
  <2> SUFFICES ASSUME win.age + Delay <= Horizon
               PROVE  Total(h, UpTo(win.age + Delay)) >= win.count + 1
    BY <1>3 DEF CountsNoMore
  <2>1. g \in UpTo(win.age + Delay) /\ UpTo(win.age + Delay) \in SUBSET Ages
    BY <1>2, AgesAreFew DEF UpTo, Ages
  <2>2. Total(f, UpTo(win.age + Delay)) >= win.count  BY <1>2 DEF Good, CountsNoMore
  <2> QED  BY <1>2, <1>5, <2>1, <2>2 DEF OneMore
<1>8. RoomForOne(new, h)
  <2> SUFFICES ASSUME NEW e \in 0..Delay, e + Stretch <= Horizon
               PROVE  Total(h, e .. e + Stretch) <= Limit + (win.count + 1)
    BY <1>3 DEF RoomForOne
  <2>1. (e .. e + Stretch) \in SUBSET Ages  BY AgesAreFew DEF Ages, Horizon
  <2>2. Total(f, e .. e + Stretch) <= Limit + win.count  BY DEF Good, RoomForOne
  <2>3. OneMore(f, g, h, e .. e + Stretch)  BY <1>5, <2>1
  <2> QED  BY <1>2, <2>2, <2>3 DEF OneMore
<1>9. AtMostTwo(h)  BY <1>1, <1>3, <1>8, <1>0, AtMostTwoWithOneMore
<1>10. InAWindow(new, h)
  <2> SUFFICES ASSUME NEW b \in Ages, b + Minute <= win.age PROVE h[b] = 0
    BY <1>2, <1>3 DEF InAWindow
  <2>1. b # g  BY <1>2 DEF Ages
  <2>2. f[b] = 0  BY <1>2 DEF Good, InAWindow
  <2> QED  BY <1>4, <2>1, <2>2
<1>11. CleanedInTime(new, last)  BY <1>2, <1>3 DEF Good, CleanedInTime
<1> QED  BY <1>1, <1>3, <1>4, <1>6, <1>7, <1>8, <1>9, <1>10, <1>11 DEF Good, h, new

(* Time passes *)
LEMMA GoodWhenOlder ==
  ASSUME NEW win, NEW f, NEW last, Good(win, f, last)
  PROVE  Good([win EXCEPT !.age = Older(@, Old)], Aged(f), Older(last, Old))
<1> DEFINE new == [win EXCEPT !.age = Older(@, Old)]
           h == Aged(f)
<1>1. f \in [Ages -> Nat] /\ last \in 0..Old /\ win \in Window  BY DEF Good
<1>2. /\ win.count \in 0..Limit /\ win.age \in 0..Old /\ 0 \in Ages
      /\ Old = 2 * Minute + Delay /\ Horizon = Minute + 2 * Delay
  BY <1>1, AgesAreFew DEF Window, Ages, Old, Horizon
<1>3. /\ new \in Window /\ new.count = win.count
      /\ new.age = IF win.age < Old THEN win.age + 1 ELSE Old
  BY <1>1, <1>2 DEF Window, Older
<1>4. /\ h \in [Ages -> Nat] /\ h[0] = 0
      /\ \A a \in Ages : a # 0 => a - 1 \in Ages /\ h[a] = f[a - 1]
  BY <1>1, AgedIsCounted
<1>5. \A S, T \in SUBSET Ages : (\A a \in T : a = 0 \/ a - 1 \in S) => Total(h, T) <= Total(f, S)
  BY <1>1, TotalOfAged
<1>6. \A S \in SUBSET Ages : Total(h, S) \in Nat /\ Total(f, S) \in Nat
  BY <1>1, <1>4, AgesCount
<1> HIDE DEF h, new
<1>7. CountsNoLess(new, h)
  <2> SUFFICES ASSUME win.count > 0 PROVE Total(h, UpTo(new.age - Delay)) <= win.count
    BY <1>3 DEF CountsNoLess
  <2>1. \A a \in UpTo(new.age - Delay) : a = 0 \/ a - 1 \in UpTo(win.age - Delay)
    BY <1>2, <1>3 DEF UpTo, Ages
  <2>2. UpTo(new.age - Delay) \in SUBSET Ages /\ UpTo(win.age - Delay) \in SUBSET Ages  BY AgesAreFew
  <2>3. Total(f, UpTo(win.age - Delay)) <= win.count  BY DEF Good, CountsNoLess
  <2>4. Total(h, UpTo(new.age - Delay)) <= Total(f, UpTo(win.age - Delay))  BY <1>5, <2>1, <2>2
  <2> QED  BY <1>2, <1>6, <2>2, <2>3, <2>4
<1>8. CountsNoMore(new, h)
  <2> SUFFICES ASSUME win.count > 0, new.age + Delay <= Horizon
               PROVE  Total(h, UpTo(new.age + Delay)) >= win.count
    BY <1>3 DEF CountsNoMore
  <2>1. new.age = win.age + 1 /\ win.age + Delay <= Horizon  BY <1>2, <1>3
  <2>2. \A a \in UpTo(win.age + Delay) : a + 1 \in UpTo(new.age + Delay)
    BY <1>2, <2>1, AgesAreFew DEF UpTo, Ages
  <2>3. UpTo(new.age + Delay) \in SUBSET Ages /\ UpTo(win.age + Delay) \in SUBSET Ages  BY AgesAreFew
  <2>4. Total(f, UpTo(win.age + Delay)) >= win.count  BY <2>1 DEF Good, CountsNoMore
  <2>5. Total(f, UpTo(win.age + Delay)) <= Total(h, UpTo(new.age + Delay))
    BY <1>1, <2>2, <2>3, TotalOfAgedIsNoLess DEF h
  <2> QED  BY <1>2, <1>6, <2>3, <2>4, <2>5
<1>9. ASSUME NEW a \in Ages, a + Stretch <= Horizon
      PROVE  LET b == IF a = 0 THEN 0 ELSE a - 1
             IN  /\ b \in Ages /\ b + Stretch <= Horizon /\ b <= a
                 /\ Total(h, a .. a + Stretch) <= Total(f, b .. b + Stretch)
                 /\ Total(h, a .. a + Stretch) \in Nat /\ Total(f, b .. b + Stretch) \in Nat
  <2> DEFINE b == IF a = 0 THEN 0 ELSE a - 1
  <2>1. b \in Ages /\ b + Stretch <= Horizon /\ b <= a  BY <1>9, AgesAreFew DEF Ages
  <2>2. \A x \in a .. a + Stretch : x = 0 \/ x - 1 \in b .. b + Stretch
    BY AgesAreFew DEF Ages
  <2>3. (a .. a + Stretch) \in SUBSET Ages /\ (b .. b + Stretch) \in SUBSET Ages
    BY <1>9, <2>1, AgesAreFew
  <2> QED  BY <1>5, <1>6, <2>1, <2>2, <2>3
<1>10. RoomForOne(new, h)
  <2> SUFFICES ASSUME NEW e \in 0..Delay, e + Stretch <= Horizon
               PROVE  Total(h, e .. e + Stretch) <= Limit + win.count
    BY <1>3 DEF RoomForOne
  <2> DEFINE b == IF e = 0 THEN 0 ELSE e - 1
  <2>1. e \in Ages  BY <1>2 DEF Ages
  <2>2. b \in 0..Delay  OBVIOUS
  <2>3. /\ b + Stretch <= Horizon /\ Total(h, e .. e + Stretch) <= Total(f, b .. b + Stretch)
        /\ Total(h, e .. e + Stretch) \in Nat /\ Total(f, b .. b + Stretch) \in Nat
    BY <1>9, <2>1
  <2> HIDE DEF b
  <2>4. Total(f, b .. b + Stretch) <= Limit + win.count  BY <2>2, <2>3 DEF Good, RoomForOne
  <2> QED  BY <1>2, <2>3, <2>4
<1>11. AtMostTwo(h)
  <2> SUFFICES ASSUME NEW a \in Ages, a + Stretch <= Horizon
               PROVE  Total(h, a .. a + Stretch) <= 2 * Limit
    BY DEF AtMostTwo
  <2> DEFINE b == IF a = 0 THEN 0 ELSE a - 1
  <2>1. /\ b \in Ages /\ b + Stretch <= Horizon
        /\ Total(h, a .. a + Stretch) <= Total(f, b .. b + Stretch)
        /\ Total(h, a .. a + Stretch) \in Nat /\ Total(f, b .. b + Stretch) \in Nat
    BY <1>9
  <2> HIDE DEF b
  <2>2. Total(f, b .. b + Stretch) <= 2 * Limit  BY <2>1 DEF Good, AtMostTwo
  <2> QED  BY <2>1, <2>2
<1>12. InAWindow(new, h)
  <2>1. ASSUME win.count > 0, NEW b \in Ages, b + Minute <= new.age PROVE h[b] = 0
    <3>1. CASE b = 0  BY <1>4, <3>1
    <3>2. CASE b # 0
      <4>1. b - 1 \in Ages /\ h[b] = f[b - 1]  BY <1>4, <3>2
      <4>2. (b - 1) + Minute <= win.age  BY <1>2, <1>3, <2>1 DEF Ages
      <4> QED  BY <2>1, <4>1, <4>2 DEF Good, InAWindow
    <3> QED  BY <3>1, <3>2
  <2> QED  BY <1>3, <1>4, <2>1 DEF InAWindow
<1>13. CleanedInTime(new, Older(last, Old)) /\ Older(last, Old) \in 0..Old
  BY <1>1, <1>2, <1>3 DEF Good, CleanedInTime, Older
<1> QED  BY <1>3, <1>4, <1>7, <1>8, <1>10, <1>11, <1>12, <1>13 DEF Good, h, new

-----------------------------------------------------------------------------
(* The invariant *)

Inv ==
  /\ TypeOK
  /\ IsFiniteSet(Kept(windows))
  /\ \A k \in Keys : Good(windows[k], allowed[k], cleanup)

LEMMA InitInv == Init => Inv
<1> SUFFICES ASSUME Init PROVE Inv  OBVIOUS
<1>1. \A k \in Keys : windows[k] = Gone /\ allowed[k] = [a \in Ages |-> 0]
  BY DEF Init, Gone, Ages
<1>2. \A k \in Keys : Good(windows[k], allowed[k], cleanup)
  BY <1>1, GoodAtFirst DEF Init
<1>3. Kept(windows) = {} /\ Gone.count = 0  BY <1>1 DEF Kept, Gone
<1>4. IsFiniteSet(Kept(windows)) /\ Cardinality(Kept(windows)) = 0
  BY <1>3, FS_EmptySet
<1>5. windows \in [Keys -> Window] /\ allowed \in [Keys -> [0..Horizon -> Nat]] /\ cleanup \in 0..Old
  BY AgesAreFew DEF Init, Window
<1>6. attempt \in [Clients -> Attempt]  BY DEF Init
<1> QED  BY <1>2, <1>4, <1>5, <1>6 DEF Inv, TypeOK, Kept

(* What an attempt makes of the windows that it does not enter *)
LEMMA CleanedUpIsGood ==
  ASSUME Inv, NEW g \in 0..Delay,
         NEW last, last = IF AMinuteBefore(cleanup, g) THEN g ELSE cleanup
  PROVE  /\ CleanedUp(g) \in [Keys -> Window] /\ last \in 0..Old
         /\ \A k \in Keys : Good(CleanedUp(g)[k], allowed[k], last)
         /\ Kept(CleanedUp(g)) \subseteq Kept(windows)
         /\ IsFiniteSet(Kept(CleanedUp(g)))
         /\ Cardinality(Kept(CleanedUp(g))) \in Nat
         /\ Cardinality(Kept(CleanedUp(g))) <= Capacity
<1>1. \A k \in Keys : CleanedUp(g)[k] =
        IF AMinuteBefore(cleanup, g) /\ AMinuteBefore(windows[k].age, g) THEN Gone ELSE windows[k]
  BY DEF CleanedUp, Gone
<1>2. \A k \in Keys : Good(CleanedUp(g)[k], allowed[k], last)
  <2> SUFFICES ASSUME NEW k \in Keys PROVE Good(CleanedUp(g)[k], allowed[k], last)
    OBVIOUS
  <2>1. Good(windows[k], allowed[k], cleanup)  BY DEF Inv
  <2>2. Good(IF AMinuteBefore(cleanup, g) /\ AMinuteBefore(windows[k].age, g) THEN Gone ELSE windows[k],
             allowed[k], last)
    BY <2>1, GoodWhenCleanedUp
  <2> QED  BY <1>1, <2>2
<1>3. CleanedUp(g) \in [Keys -> Window]
  <2>1. \A k \in Keys : CleanedUp(g)[k] \in Window  BY <1>2 DEF Good
  <2> QED  BY <2>1 DEF CleanedUp
<1>4. last \in 0..Old
  <2>1. cleanup \in 0..Old /\ g \in 0..Old  BY DEF Inv, TypeOK, Old
  <2> QED  BY <2>1
<1>5. Kept(CleanedUp(g)) \subseteq Kept(windows)
  <2>1. Gone.count = 0  BY DEF Gone
  <2> QED  BY <1>1, <2>1 DEF Kept
<1>6. /\ IsFiniteSet(Kept(CleanedUp(g))) /\ Cardinality(Kept(CleanedUp(g))) \in Nat
      /\ Cardinality(Kept(CleanedUp(g))) <= Cardinality(Kept(windows)) /\ Cardinality(Kept(windows)) \in Nat
  BY <1>5, FS_Subset, FS_CardinalityType DEF Inv
<1>7. Cardinality(Kept(windows)) <= Capacity  BY DEF Inv, TypeOK, Kept
<1> QED  BY <1>2, <1>3, <1>4, <1>5, <1>6, <1>7

(* loginLimiter.Allow *)
LEMMA AllowInv ==
  ASSUME Inv, NEW key \in Keys, NEW g \in 0..Delay, Allow(key, g)
  PROVE  /\ windows' \in [Keys -> Window] /\ cleanup' \in 0..Old
         /\ allowed' \in [Keys -> [0..Horizon -> Nat]]
         /\ \A k \in Keys : Good(windows'[k], allowed'[k], cleanup')
         /\ IsFiniteSet(Kept(windows')) /\ Cardinality(Kept(windows')) <= Capacity
<1> DEFINE W == CleanedUp(g)
<1>1. cleanup' = IF AMinuteBefore(cleanup, g) THEN g ELSE cleanup  BY DEF Allow
<1>2. /\ W \in [Keys -> Window] /\ cleanup' \in 0..Old
      /\ \A k \in Keys : Good(W[k], allowed[k], cleanup')
      /\ IsFiniteSet(Kept(W)) /\ Cardinality(Kept(W)) \in Nat /\ Cardinality(Kept(W)) <= Capacity
  BY <1>1, CleanedUpIsGood
<1>3. allowed \in [Keys -> [Ages -> Nat]] /\ Ages = 0..Horizon  BY DEF Inv, TypeOK, Ages
<1>4. CASE ~IsAllowed(key, g)
  <2>1. windows' = W /\ allowed' = allowed  BY <1>4 DEF Allow
  <2> QED  BY <1>2, <1>3, <2>1
<1>5. CASE IsAllowed(key, g)
  <2> DEFINE f == [allowed[key] EXCEPT ![g] = @ + 1]
             win == Entered(W[key], g)
  <2>1. windows' = [W EXCEPT ![key] = win] /\ allowed' = [allowed EXCEPT ![key] = f]
    BY <1>5 DEF Allow
  <2>2. MayEnter(W[key], g) /\ ~Full(W)  BY <1>5 DEF IsAllowed
  <2>3. Good(win, f, cleanup')
    <3>0. Good(W[key], allowed[key], cleanup')  BY <1>2
    <3>1. CASE IsOver(W[key], g)
      <4>1. Good([age |-> g, count |-> 1], f, cleanup')  BY <3>0, <3>1, GoodWhenBegun
      <4> QED  BY <3>1, <4>1 DEF Entered
    <3>2. CASE ~IsOver(W[key], g)
      <4>1. W[key].count < Limit  BY <2>2, <3>2 DEF MayEnter
      <4>2. Good([W[key] EXCEPT !.count = @ + 1], f, cleanup')
        BY <3>0, <3>2, <4>1, GoodWhenContinued
      <4> QED  BY <3>2, <4>2 DEF Entered
    <3> QED  BY <3>1, <3>2
  <2>4. win \in Window /\ f \in [Ages -> Nat]  BY <2>3 DEF Good
  <2> HIDE DEF win, f, W
  <2>5. windows' \in [Keys -> Window] /\ allowed' \in [Keys -> [0..Horizon -> Nat]]
    BY <1>2, <1>3, <2>1, <2>4
  <2>6. \A k \in Keys : Good(windows'[k], allowed'[k], cleanup')
    <3> SUFFICES ASSUME NEW k \in Keys PROVE Good(windows'[k], allowed'[k], cleanup')
      OBVIOUS
    <3>1. CASE k = key
      <4>1. windows'[k] = win /\ allowed'[k] = f  BY <1>2, <1>3, <2>1, <3>1
      <4> QED  BY <2>3, <4>1
    <3>2. CASE k # key
      <4>1. windows'[k] = W[k] /\ allowed'[k] = allowed[k]  BY <1>2, <1>3, <2>1, <3>2
      <4> QED  BY <1>2, <4>1
    <3> QED  BY <3>1, <3>2
  <2>7. IsFiniteSet(Kept(windows')) /\ Cardinality(Kept(windows')) <= Capacity
    <3>1. Kept(windows') \subseteq Kept(W) \cup {key}  BY <1>2, <2>1 DEF Kept
    <3>2. /\ IsFiniteSet(Kept(W) \cup {key})
          /\ Cardinality(Kept(W) \cup {key}) = IF key \in Kept(W) THEN Cardinality(Kept(W)) ELSE Cardinality(Kept(W)) + 1
      BY <1>2, FS_AddElement
    <3>3. Cardinality(Kept(W)) < Capacity  BY <1>2, <2>2 DEF Full
    <3>4. /\ IsFiniteSet(Kept(windows')) /\ Cardinality(Kept(windows')) \in Nat
          /\ Cardinality(Kept(windows')) <= Cardinality(Kept(W) \cup {key})
      BY <3>1, <3>2, FS_Subset, FS_CardinalityType
    <3> QED  BY <1>2, <3>2, <3>3, <3>4
  <2> QED  BY <1>2, <2>5, <2>6, <2>7 DEF W
<1> QED  BY <1>4, <1>5

LEMMA NextInv == Inv /\ [Next]_vars => Inv'
<1> SUFFICES ASSUME Inv, [Next]_vars PROVE Inv'  OBVIOUS
<1>1. /\ windows \in [Keys -> Window] /\ cleanup \in 0..Old /\ attempt \in [Clients -> Attempt]
      /\ allowed \in [Keys -> [0..Horizon -> Nat]] /\ Cardinality(Kept(windows)) <= Capacity
  BY DEF Inv, TypeOK, Kept
<1>2. ASSUME NEW c \in Clients, NEW key \in Keys, Allow(key, attempt[c].age),
             attempt' \in [Clients -> Attempt]
      PROVE  Inv'
  <2>1. attempt[c].age \in 0..Delay  BY <1>1 DEF Attempt
  <2>2. /\ windows' \in [Keys -> Window] /\ cleanup' \in 0..Old
        /\ allowed' \in [Keys -> [0..Horizon -> Nat]]
        /\ \A k \in Keys : Good(windows'[k], allowed'[k], cleanup')
        /\ IsFiniteSet(Kept(windows')) /\ Cardinality(Kept(windows')) <= Capacity
    BY <1>2, <2>1, AllowInv
  <2> QED  BY <1>2, <2>2 DEF Inv, TypeOK, Kept
<1>3. ASSUME NEW c \in Clients, NEW pc \in {"idle", "address", "account"}, Goto(c, pc)
      PROVE  attempt' \in [Clients -> Attempt]
  <2>1. attempt[c] \in Attempt /\ 0 \in 0..Delay  BY <1>1
  <2> DEFINE age == IF pc = "idle" THEN 0 ELSE attempt[c].age
             new == [attempt[c] EXCEPT !.pc = pc, !.age = age]
  <2>2. age \in 0..Delay  BY <2>1 DEF Attempt
  <2> HIDE DEF age
  <2>3. new \in Attempt  BY <2>1, <2>2 DEF Attempt
  <2>4. attempt' = [attempt EXCEPT ![c] = new]  BY <1>3, <2>1 DEF Goto, age
  <2> HIDE DEF new
  <2> QED  BY <1>1, <2>3, <2>4
<1>4. ASSUME NEW c \in Clients, Arrive(c) PROVE Inv'
  <2>1. PICK address \in Addresses, account \in Accounts :
          attempt' = [attempt EXCEPT ![c] = [pc |-> "address", address |-> address, account |-> account, age |-> 0]]
    BY <1>4 DEF Arrive
  <2>2. [pc |-> "address", address |-> address, account |-> account, age |-> 0] \in Attempt
    BY DEF Attempt
  <2>3. attempt' \in [Clients -> Attempt]  BY <1>1, <2>1, <2>2
  <2>4. UNCHANGED <<windows, cleanup, allowed>>  BY <1>4 DEF Arrive
  <2> QED  BY <2>3, <2>4 DEF Inv, TypeOK, Kept
<1>5. ASSUME NEW c \in Clients, AllowAddress(c) PROVE Inv'
  <2>1. attempt[c].address \in Keys  BY <1>1 DEF Attempt, Keys
  <2>2. attempt' \in [Clients -> Attempt]  BY <1>3, <1>5 DEF AllowAddress
  <2> QED  BY <1>2, <1>5, <2>1, <2>2 DEF AllowAddress
<1>6. ASSUME NEW c \in Clients, AllowAccount(c) PROVE Inv'
  <2>1. attempt[c].account \in Keys  BY <1>1 DEF Attempt, Keys
  <2>2. attempt' \in [Clients -> Attempt]  BY <1>3, <1>6 DEF AllowAccount
  <2> QED  BY <1>2, <1>6, <2>1, <2>2 DEF AllowAccount
<1>7. CASE Tick
  <2>1. attempt' \in [Clients -> Attempt]
    <3> SUFFICES ASSUME NEW c \in Clients
                 PROVE  (IF attempt[c].pc = "idle" THEN attempt[c] ELSE [attempt[c] EXCEPT !.age = @ + 1]) \in Attempt
      BY <1>7 DEF Tick
    <3>1. attempt[c] \in Attempt /\ (attempt[c].pc = "idle" \/ attempt[c].age < Delay)
      BY <1>1, <1>7 DEF Tick
    <3>2. CASE attempt[c].pc # "idle"
      <4>1. attempt[c].age + 1 \in 0..Delay  BY <3>1, <3>2 DEF Attempt
      <4>2. [attempt[c] EXCEPT !.age = @ + 1] \in Attempt  BY <3>1, <4>1 DEF Attempt
      <4> QED  BY <3>2, <4>2
    <3> QED  BY <3>1, <3>2
  <2>2. \A k \in Keys : /\ windows'[k] = [windows[k] EXCEPT !.age = Older(@, Old)]
                        /\ allowed'[k] = Aged(allowed[k])
    BY <1>7 DEF Tick, Aged, Ages
  <2>3. \A k \in Keys : Good(windows'[k], allowed'[k], cleanup')
    <3> SUFFICES ASSUME NEW k \in Keys PROVE Good(windows'[k], allowed'[k], cleanup')
      OBVIOUS
    <3>1. Good(windows[k], allowed[k], cleanup)  BY DEF Inv
    <3>2. Good([windows[k] EXCEPT !.age = Older(@, Old)], Aged(allowed[k]), Older(cleanup, Old))
      BY <3>1, GoodWhenOlder
    <3>3. cleanup' = Older(cleanup, Old)  BY <1>7 DEF Tick
    <3> QED  BY <2>2, <3>2, <3>3
  <2>4. \A k \in Keys : windows'[k] \in Window /\ allowed'[k] \in [Ages -> Nat]  BY <2>3 DEF Good
  <2>5. windows' \in [Keys -> Window] /\ allowed' \in [Keys -> [0..Horizon -> Nat]]
    BY <1>7, <2>4 DEF Tick, Ages
  <2>6. cleanup' \in 0..Old  BY <1>1, <1>7, AgesAreFew DEF Tick, Older
  <2>7. Kept(windows') = Kept(windows)
    <3>1. \A k \in Keys : windows'[k].count = windows[k].count  BY <1>1, <2>2 DEF Window
    <3> QED  BY <3>1 DEF Kept
  <2> QED  BY <1>1, <2>1, <2>3, <2>5, <2>6, <2>7 DEF Inv, TypeOK, Kept
<1>8. CASE UNCHANGED vars
  BY <1>8 DEF vars, Inv, TypeOK, Kept
<1> QED  BY <1>4, <1>5, <1>6, <1>7, <1>8 DEF Next

THEOREM Invariance == Spec => []Inv
BY InitInv, NextInv, PTL DEF Spec

-----------------------------------------------------------------------------
(* The theorems *)

(* Windows, attempts and the history have their types, and no more keys    *)
(* than the capacity have windows (loginLimiter).                          *)
THEOREM TypeCorrect == Spec => []TypeOK
<1>1. Inv => TypeOK  BY DEF Inv
<1> QED  BY <1>1, Invariance, PTL

(* However late attempts are and whatever is cleaned up, no address and no *)
(* account is allowed more than twice the limit in a minute but for what   *)
(* may be late at its two ends (loginLimiter.Allow).                       *)
THEOREM TheLimitIsKept == Spec => []AtMostTwiceTheLimit
<1>1. Inv => AtMostTwiceTheLimit
  BY DEF Inv, Good, AtMostTwo, AtMostTwiceTheLimit, AllowedAt, Total, Ages
<1> QED  BY <1>1, Invariance, PTL

(* An attempt that Allow refuses has had its share, or the map is full of  *)
(* windows of the last two minutes.                                        *)
LEMMA NotAllowedForAReason ==
  ASSUME Inv, NEW key \in Keys, NEW g \in 0..Delay, Allow(key, g), ~IsAllowed(key, g)
  PROVE  \/ AllowedAt(key, 0..Horizon) >= Limit
         \/ Full(windows') /\ \A k \in Kept(windows') : ~AMinuteBefore(windows'[k].age, Minute + Delay)
<1>1. windows' = CleanedUp(g)  BY DEF Allow
<1>2. /\ windows \in [Keys -> Window] /\ cleanup \in 0..Old
      /\ \A k \in Keys : windows[k].count \in 0..Limit /\ windows[k].age \in 0..Old
  BY DEF Inv, TypeOK, Window
<1>3. \A k \in Keys : Good(windows[k], allowed[k], cleanup)  BY DEF Inv
<1>4. \A k \in Keys : CleanedUp(g)[k] =
        IF AMinuteBefore(cleanup, g) /\ AMinuteBefore(windows[k].age, g) THEN Gone ELSE windows[k]
  BY DEF CleanedUp, Gone
<1>5. Gone.count = 0  BY DEF Gone
<1>6. CASE Full(CleanedUp(g))
  <2> SUFFICES ASSUME NEW k \in Kept(CleanedUp(g))
               PROVE  ~AMinuteBefore(CleanedUp(g)[k].age, Minute + Delay)
    BY <1>1, <1>6
  <2>1. /\ k \in Keys /\ CleanedUp(g)[k] = windows[k] /\ windows[k].count > 0
        /\ ~(AMinuteBefore(cleanup, g) /\ AMinuteBefore(windows[k].age, g))
    BY <1>4, <1>5 DEF Kept
  <2>2. windows[k].age <= cleanup + Minute  BY <1>3, <2>1 DEF Good, CleanedInTime
  <2>3. windows[k].age < g + 2 * Minute
    BY <1>2, <2>1, <2>2 DEF AMinuteBefore
  <2> QED  BY <1>2, <2>1, <2>3 DEF AMinuteBefore
<1>7. CASE ~MayEnter(CleanedUp(g)[key], g)
  <2> DEFINE win == windows[key]
             f == allowed[key]
  <2>1. ~IsOver(CleanedUp(g)[key], g) /\ ~(CleanedUp(g)[key].count < Limit)  BY <1>7 DEF MayEnter
  <2>2. CleanedUp(g)[key] = win  BY <1>4, <1>5, <2>1 DEF IsOver
  <2>3. win.count = Limit /\ win.age < g + Minute
    BY <1>2, <2>1, <2>2 DEF IsOver, AMinuteBefore
  <2>4. win.age + Delay <= Horizon  BY <1>2, <2>3 DEF Horizon
  <2>5. Total(f, UpTo(win.age + Delay)) >= Limit
    BY <1>3, <2>3, <2>4 DEF Good, CountsNoMore
  <2>6. f \in [Ages -> Nat]  BY <1>3 DEF Good
  <2>7. /\ Total(f, UpTo(win.age + Delay)) <= Total(f, Ages)
        /\ Total(f, UpTo(win.age + Delay)) \in Nat /\ Total(f, Ages) \in Nat
    BY <2>6, AgesAreFew, TotalOfMore, AgesCount
  <2>8. Total(f, Ages) >= Limit  BY <2>5, <2>7
  <2> QED  BY <2>8 DEF AllowedAt, Total, Ages
<1> QED  BY <1>6, <1>7 DEF IsAllowed

(* Nobody stays locked out by what was long ago: who is refused has had    *)
(* all of the limit, or the map is full, and not with what should long be  *)
(* cleaned up (loginLimiter.Allow, handleLogin).                           *)
THEOREM NobodyIsRefusedForNothing == Spec => RefusedForAReason
<1> DEFINE KeyOf(c) == IF attempt[c].pc = "address" THEN attempt[c].address ELSE attempt[c].account
<1>1. ASSUME Inv, [Next]_vars, NEW c \in Clients, Refused(c, KeyOf(c)) PROVE HasAReason(c, KeyOf(c))
  <2>1. /\ attempt \in [Clients -> Attempt] /\ attempt[c] \in Attempt
        /\ allowed \in [Keys -> [0..Horizon -> Nat]]
    BY <1>1 DEF Inv, TypeOK
  <2>2. attempt[c].pc # "idle" /\ attempt'[c].pc = "idle"  BY <1>1 DEF Refused
  <2>3. attempt[c].age \in 0..Delay /\ KeyOf(c) \in Keys  BY <2>1 DEF Attempt, Keys
  <2>4. AllowAddress(c) \/ AllowAccount(c)
    <3>1. ~UNCHANGED vars  BY <2>2 DEF vars
    <3>2. ASSUME Tick PROVE FALSE
      <4>1. attempt'[c] = [attempt[c] EXCEPT !.age = @ + 1]  BY <2>2, <3>2 DEF Tick
      <4>2. attempt'[c].pc = attempt[c].pc  BY <2>1, <4>1 DEF Attempt
      <4> QED  BY <2>2, <4>2
    <3>3. ASSUME NEW d \in Clients, Arrive(d) PROVE FALSE
      <4>1. attempt[d].pc = "idle" /\ (d # c => attempt'[c] = attempt[c])
        BY <2>1, <3>3 DEF Arrive
      <4> QED  BY <2>2, <4>1, <3>3
    <3>4. ASSUME NEW d \in Clients, AllowAddress(d) \/ AllowAccount(d), d # c PROVE FALSE
      <4>1. attempt'[c] = attempt[c]  BY <2>1, <3>4 DEF AllowAddress, AllowAccount, Goto
      <4> QED  BY <2>2, <4>1
    <3> QED  BY <1>1, <3>1, <3>2, <3>3, <3>4 DEF Next
  <2>5. Allow(KeyOf(c), attempt[c].age)
    BY <2>4 DEF AllowAddress, AllowAccount
  <2>6. ~IsAllowed(KeyOf(c), attempt[c].age)
    <3> SUFFICES ASSUME IsAllowed(KeyOf(c), attempt[c].age) PROVE FALSE
      OBVIOUS
    <3> DEFINE key == KeyOf(c)
               g == attempt[c].age
    <3>1. allowed' = [allowed EXCEPT ![key][g] = @ + 1]  BY <2>5 DEF Allow
    <3>2. allowed[key] \in [0..Horizon -> Nat] /\ g \in 0..Horizon
      BY <2>1, <2>3 DEF Horizon
    <3> HIDE DEF key, g
    <3>3. key \in Keys  BY <2>3 DEF key
    <3>4. allowed'[key] = [allowed[key] EXCEPT ![g] = @ + 1]  BY <2>1, <3>1, <3>3
    <3>5. allowed'[key][g] = allowed[key][g] + 1 /\ allowed[key][g] \in Nat  BY <3>2, <3>4
    <3>6. allowed'[key] = allowed[key]  BY <1>1 DEF Refused, key
    <3> QED  BY <3>5, <3>6
  <2> QED  BY <1>1, <2>3, <2>5, <2>6, NotAllowedForAReason DEF HasAReason
<1>2. Inv /\ [Next]_vars => [\A c \in Clients :
        LET key == IF attempt[c].pc = "address" THEN attempt[c].address ELSE attempt[c].account
        IN  Refused(c, key) => HasAReason(c, key)]_vars
  BY <1>1
<1> QED  BY <1>2, Invariance, PTL DEF Spec, RefusedForAReason

=============================================================================
