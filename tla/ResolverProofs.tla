--------------------------- MODULE ResolverProofs ---------------------------
(***************************************************************************)
(* Proofs about the resolver, for any sets of callers, cookies, works and  *)
(* rows, and whatever the website may say: the cookie first, which does    *)
(* not depend on the rest, then the answers and the table of works, and    *)
(* how far each call is from its end.                                      *)
(***************************************************************************)
EXTENDS Resolver, TLAPS

USE CookieAssumption, WorkAssumption, AnswerAssumption, AttemptAssumption

-----------------------------------------------------------------------------
(* The cookie *)

Serial == \A c, d \in Callers : getter[c].pc \in InGet /\ getter[d].pc \in InGet => c = d

Browsing == \A c \in browser : getter[c].pc \in {"devtools", "page", "poll"}

(* Between Store and the end of save the file may be behind; the caller    *)
(* that writes it has the cookie that is in memory                         *)
Writing(c) == getter[c].pc \in {"open", "write"}
FileKeepsUp ==
  /\ (\A c \in Callers : ~Writing(c)) /\ memory # NoCookie /\ ~stored.behind => stored.cookie = memory
  /\ \A c \in Callers : Writing(c) => memory = getter[c].cookie

CookieInv == TtwidTypeOK /\ Serial /\ Browsing /\ FileKeepsUp

(* What a step of the resolver does to the cookie *)
TtwidStep ==
  \/ \E c \in Callers : \/ CallGet(c) \/ Lock(c) \/ InsideGet(c) \/ Poll(c)
                        \/ TakeCookie(c, "got") \/ TakeCookie(c, "failed")
  \/ CookieAges \/ TtwidCrash \/ UNCHANGED ttwidVars

LEMMA TtwidSteps == [Next]_vars => TtwidStep
BY DEF Next, vars, ttwidVars, TtwidStep, Ask, Resolving, Locking, GettingCookie, FindingCookie, RowAges, Ages, Crash,
       FindFresh, Expand, GetCookie, CookieReady, CookieFailed, DetailFails, DetailAnswers, ReadPage,
       ReadSharePage, AnswerShell, Save, ReadBack, PageFails, CacheFails, Leave

LEMMA UnissuedTypes ==
  ASSUME Cookies \ Held # {}
  PROVE  Unissued \in Cookies
BY DEF Unissued

(* The call of c moves from one point of Get to another *)
LEMMA GetterMoves ==
  ASSUME TtwidTypeOK, NEW c \in Callers, NEW pc, GetsTo(c, pc)
  PROVE  /\ getter'[c].pc = pc /\ getter'[c].cookie = getter[c].cookie
         /\ \A d \in Callers \ {c} : getter'[d] = getter[d]
         /\ pc \in {"out", "lock", "got", "failed"} \cup InGet => getter' \in [Callers -> Getter]
<1>1. getter[c] \in Getter  BY DEF TtwidTypeOK
<1>2. /\ getter'[c] = [getter[c] EXCEPT !.pc = pc]
      /\ \A d \in Callers \ {c} : getter'[d] = getter[d]
      /\ getter' = [getter EXCEPT ![c] = [getter[c] EXCEPT !.pc = pc]]
  BY DEF GetsTo, TtwidTypeOK
<1>3. getter'[c].pc = pc /\ getter'[c].cookie = getter[c].cookie
  BY <1>1, <1>2 DEF Getter
<1>4. pc \in {"out", "lock", "got", "failed"} \cup InGet => getter'[c] \in Getter
  BY <1>1, <1>2 DEF Getter
<1> QED  BY <1>2, <1>3, <1>4 DEF TtwidTypeOK

(* ... or has its cookie replaced *)
LEMMA GetterSet ==
  ASSUME TtwidTypeOK, NEW c \in Callers, NEW pc \in {"out", "lock", "got", "failed"} \cup InGet,
         NEW cookie \in Cookies \cup {NoCookie}, getter' = [getter EXCEPT ![c] = [pc |-> pc, cookie |-> cookie]]
  PROVE  /\ getter'[c].pc = pc /\ getter'[c].cookie = cookie
         /\ \A d \in Callers \ {c} : getter'[d] = getter[d]
         /\ getter' \in [Callers -> Getter]
BY DEF TtwidTypeOK, Getter

LEMMA CookieIsKept == CookieInv /\ TtwidStep => CookieInv'
<1> SUFFICES ASSUME CookieInv, TtwidStep PROVE CookieInv'
  OBVIOUS
<1>0. TtwidTypeOK /\ (\A c \in Callers : getter[c] \in Getter) /\ browser \subseteq Callers
  BY DEF CookieInv, TtwidTypeOK
<1> USE DEF InGet
<1>1. ASSUME NEW c \in Callers, CallGet(c) PROVE CookieInv'
  <2>1. GetsTo(c, "lock") /\ getter[c].pc = "out" /\ UNCHANGED <<memory, stored, fresh, browser>>  BY <1>1 DEF CallGet
  <2> QED  BY <1>0, <2>1, GetterMoves DEF CookieInv, TtwidTypeOK, Serial, Browsing, FileKeepsUp, Writing
<1>2. ASSUME NEW c \in Callers, Lock(c) PROVE CookieInv'
  <2>1. GetsTo(c, "check") /\ getter[c].pc = "lock" /\ Unlocked /\ UNCHANGED <<memory, stored, fresh, browser>>
    BY <1>2 DEF Lock
  <2> QED  BY <1>0, <2>1, GetterMoves DEF CookieInv, TtwidTypeOK, Serial, Browsing, FileKeepsUp, Writing, Unlocked
<1>3. ASSUME NEW c \in Callers, Check(c) PROVE CookieInv'
  <2>1. PICK cur \in IF memory = NoCookie THEN Loaded ELSE {memory} :
          /\ memory' = cur
          /\ getter' = [getter EXCEPT ![c] = CASE cur \in fresh -> [pc |-> "got", cookie |-> NoCookie]
                                               [] cur = NoCookie -> [pc |-> "launch", cookie |-> NoCookie]
                                               [] OTHER -> [pc |-> "refresh", cookie |-> NoCookie]]
    BY <1>3 DEF Check
  <2>2. cur \in Cookies \cup {NoCookie}  BY <1>0, <2>1 DEF TtwidTypeOK, Loaded, Stored
  <2>3. NoCookie \notin fresh  BY <1>0 DEF TtwidTypeOK
  <2>4. PICK pc \in {"got", "launch", "refresh"} : getter' = [getter EXCEPT ![c] = [pc |-> pc, cookie |-> NoCookie]]
    <3>1. CASE cur \in fresh  BY <2>1, <2>3, <3>1
    <3>2. CASE cur \notin fresh /\ cur = NoCookie  BY <2>1, <3>2
    <3>3. CASE cur \notin fresh /\ cur # NoCookie  BY <2>1, <3>3
    <3> QED  BY <3>1, <3>2, <3>3
  <2>5. /\ getter'[c].pc \in {"got", "launch", "refresh"} /\ \A d \in Callers \ {c} : getter'[d] = getter[d]
        /\ getter' \in [Callers -> Getter]
    BY <1>0, <2>4, GetterSet
  <2>6. memory' = memory \/ memory' = stored.cookie \/ memory' = NoCookie  BY <2>1 DEF Loaded
  <2>7. getter[c].pc = "check" /\ UNCHANGED <<stored, fresh, browser>>  BY <1>3 DEF Check
  <2>8. \A d \in Callers \ {c} : ~Writing(d)  BY <2>7 DEF CookieInv, Serial, Writing
  <2> QED  BY <1>0, <2>1, <2>2, <2>5, <2>6, <2>7, <2>8 DEF CookieInv, TtwidTypeOK, Serial, Browsing, FileKeepsUp, Writing
<1>4. ASSUME NEW c \in Callers, Issue(c), getter[c].pc \in {"refresh", "poll"}, UNCHANGED <<memory, stored>>,
             browser' = browser \/ browser' = browser \ {c}, getter[c].pc = "poll" => browser' = browser \ {c}
      PROVE  CookieInv'
  <2>1. Unissued \in Cookies /\ getter' = [getter EXCEPT ![c] = [pc |-> "store", cookie |-> Unissued]]
        /\ fresh' = fresh \cup {Unissued}
    BY <1>4, UnissuedTypes DEF Issue
  <2>2. /\ getter'[c].pc = "store" /\ \A d \in Callers \ {c} : getter'[d] = getter[d]
        /\ getter' \in [Callers -> Getter]
    BY <1>0, <2>1, GetterSet
  <2> QED  BY <1>0, <1>4, <2>1, <2>2 DEF CookieInv, TtwidTypeOK, Serial, Browsing, FileKeepsUp, Writing
<1>5. ASSUME NEW c \in Callers, Refresh(c) PROVE CookieInv'
  <2>1. CASE Issue(c)  BY <1>4, <1>5, <2>1 DEF Refresh
  <2>2. CASE GetsTo(c, "launch") /\ UNCHANGED fresh
    <3>1. getter[c].pc = "refresh" /\ UNCHANGED <<memory, stored, fresh, browser>>  BY <1>5, <2>2 DEF Refresh
    <3> QED  BY <1>0, <2>2, <3>1, GetterMoves DEF CookieInv, TtwidTypeOK, Serial, Browsing, FileKeepsUp, Writing
  <2> QED  BY <1>5, <2>1, <2>2 DEF Refresh
<1>6. ASSUME NEW c \in Callers, GiveUp(c) PROVE CookieInv'
  <2>1. /\ getter[c].pc \in {"launch", "devtools", "page", "poll"} /\ GetsTo(c, "failed") /\ browser' = browser \ {c}
        /\ UNCHANGED <<memory, stored, fresh>>
    BY <1>6 DEF GiveUp
  <2> QED  BY <1>0, <2>1, GetterMoves DEF CookieInv, TtwidTypeOK, Serial, Browsing, FileKeepsUp, Writing
<1>7. ASSUME NEW c \in Callers, Launch(c) PROVE CookieInv'
  <2>1. /\ getter[c].pc = "launch" /\ GetsTo(c, "devtools") /\ browser' = browser \cup {c}
        /\ UNCHANGED <<memory, stored, fresh>>
    BY <1>7 DEF Launch
  <2> QED  BY <1>0, <2>1, GetterMoves DEF CookieInv, TtwidTypeOK, Serial, Browsing, FileKeepsUp, Writing
<1>8. ASSUME NEW c \in Callers, WaitForDevtoolsPage(c) \/ Navigate(c) PROVE CookieInv'
  <2>1. PICK pc \in {"page", "poll"} :
          /\ getter[c].pc \in {"devtools", "page"} /\ GetsTo(c, pc) /\ UNCHANGED <<memory, stored, fresh, browser>>
    BY <1>8 DEF WaitForDevtoolsPage, Navigate
  <2> QED  BY <1>0, <2>1, GetterMoves DEF CookieInv, TtwidTypeOK, Serial, Browsing, FileKeepsUp, Writing
<1>9. ASSUME NEW c \in Callers, Poll(c) PROVE CookieInv'
  BY <1>4, <1>9 DEF Poll
<1>10. ASSUME NEW c \in Callers, Store(c) PROVE CookieInv'
  <2>1. /\ getter[c].pc = "store" /\ GetsTo(c, "open") /\ memory' = getter[c].cookie
        /\ UNCHANGED <<stored, fresh, browser>>
    BY <1>10 DEF Store
  <2>2. getter[c].cookie \in Cookies \cup {NoCookie}  BY <1>0 DEF Getter
  <2> QED  BY <1>0, <2>1, <2>2, GetterMoves DEF CookieInv, TtwidTypeOK, Serial, Browsing, FileKeepsUp, Writing
<1>11. ASSUME NEW c \in Callers, Return(c), getter[c].pc \in {"open", "write"}, UNCHANGED <<memory, fresh, browser>>,
              stored' \in Stored, stored'.behind \/ stored'.cookie = memory
       PROVE  CookieInv'
  <2>1. /\ getter'[c].pc = "got" /\ \A d \in Callers \ {c} : getter'[d] = getter[d]
        /\ getter' \in [Callers -> Getter]
    BY <1>0, <1>11, GetterSet DEF Return
  <2>2. \A d \in Callers : ~Writing(d)'  BY <1>11, <2>1 DEF CookieInv, Serial, Writing
  <2> QED  BY <1>0, <1>11, <2>1, <2>2 DEF CookieInv, TtwidTypeOK, Serial, Browsing, FileKeepsUp
<1>12. ASSUME NEW c \in Callers, OpenFile(c) PROVE CookieInv'
  <2>1. getter[c].pc = "open" /\ UNCHANGED <<memory, fresh, browser>>  BY <1>12 DEF OpenFile
  <2>2. CASE stored' = [stored EXCEPT !.cookie = NoCookie] /\ GetsTo(c, "write")
    <3>1. stored' \in Stored  BY <1>0, <2>2 DEF TtwidTypeOK, Stored
    <3> QED  BY <1>0, <2>1, <2>2, <3>1, GetterMoves DEF CookieInv, TtwidTypeOK, Serial, Browsing, FileKeepsUp, Writing
  <2>3. CASE stored' = [stored EXCEPT !.behind = TRUE] /\ Return(c)
    <3>1. stored' \in Stored /\ stored'.behind  BY <1>0, <2>3 DEF TtwidTypeOK, Stored
    <3> QED  BY <1>11, <2>1, <2>3, <3>1
  <2> QED  BY <1>12, <2>2, <2>3 DEF OpenFile
<1>13. ASSUME NEW c \in Callers, WriteFile(c) PROVE CookieInv'
  <2>1. getter[c].pc = "write" /\ UNCHANGED <<memory, fresh, browser>> /\ Return(c)  BY <1>13 DEF WriteFile
  <2>2. memory = getter[c].cookie /\ getter[c].cookie \in Cookies \cup {NoCookie}
    BY <1>0, <2>1 DEF CookieInv, FileKeepsUp, Writing, Getter
  <2>3. stored' = [cookie |-> getter[c].cookie, behind |-> FALSE] \/ stored' = [stored EXCEPT !.behind = TRUE]
    BY <1>13 DEF WriteFile
  <2>4. stored' \in Stored /\ (stored'.behind \/ stored'.cookie = memory)
    <3>1. CASE stored' = [cookie |-> getter[c].cookie, behind |-> FALSE]
      BY <2>2, <3>1 DEF Stored
    <3>2. CASE stored' = [stored EXCEPT !.behind = TRUE]
      BY <1>0, <3>2 DEF TtwidTypeOK, Stored
    <3> QED  BY <2>3, <3>1, <3>2
  <2> QED  BY <1>11, <2>1, <2>4
<1>14. ASSUME NEW c \in Callers, NEW result \in {"got", "failed"}, TakeCookie(c, result) PROVE CookieInv'
  <2>1. /\ getter'[c].pc = "out" /\ \A d \in Callers \ {c} : getter'[d] = getter[d]
        /\ getter' \in [Callers -> Getter]
    BY <1>0, <1>14, GetterSet DEF TakeCookie, Outside
  <2>2. getter[c].pc = result /\ UNCHANGED <<memory, stored, fresh, browser>>  BY <1>14 DEF TakeCookie
  <2> QED  BY <1>0, <2>1, <2>2 DEF CookieInv, TtwidTypeOK, Serial, Browsing, FileKeepsUp, Writing
<1>15. CASE CookieAges
  BY <1>0, <1>15 DEF CookieAges, CookieInv, TtwidTypeOK, Serial, Browsing, FileKeepsUp, Writing
<1>16. CASE TtwidCrash
  <2>1. stored' \in Stored  BY <1>0, <1>16 DEF TtwidCrash, TtwidTypeOK, Stored
  <2>2. \A c \in Callers : getter'[c].pc = "out"  BY <1>16 DEF TtwidCrash, Outside
  <2>3. getter' \in [Callers -> Getter]  BY <1>16 DEF TtwidCrash, Outside, Getter
  <2> QED  BY <1>0, <1>16, <2>1, <2>2, <2>3 DEF TtwidCrash, CookieInv, TtwidTypeOK, Serial, Browsing, FileKeepsUp, Writing
<1>17. CASE UNCHANGED ttwidVars
  BY <1>17 DEF ttwidVars, CookieInv, TtwidTypeOK, Serial, Browsing, FileKeepsUp, Writing
<1> QED
  BY <1>1, <1>2, <1>3, <1>5, <1>6, <1>7, <1>8, <1>9, <1>10, <1>12, <1>13, <1>14, <1>15, <1>16, <1>17
  DEF TtwidStep, InsideGet

LEMMA CookieAtFirst == Init => CookieInv
<1> SUFFICES ASSUME Init PROVE CookieInv
  OBVIOUS
<1>1. AnyCookie \in Cookies  BY DEF AnyCookie
<1>2. stored \in Stored /\ fresh \subseteq Cookies
  <2>1. stored.cookie \in {NoCookie, AnyCookie} /\ stored \in Stored
    BY <1>1 DEF Init, TtwidInit, Stored
  <2>2. fresh \in (SUBSET {stored.cookie}) \ {{NoCookie}}  BY DEF Init, TtwidInit
  <2>3. \A cookie \in fresh : cookie = stored.cookie /\ cookie # NoCookie
    <3>1. ASSUME NoCookie \in fresh PROVE FALSE
      <4>1. fresh \in SUBSET {stored.cookie} /\ fresh # {NoCookie}  BY <2>2
      <4>2. stored.cookie = NoCookie  BY <3>1, <4>1
      <4>3. fresh = {NoCookie}  BY <3>1, <4>1, <4>2
      <4> QED  BY <4>1, <4>3
    <3> QED  BY <2>2, <3>1
  <2> QED  BY <1>1, <2>1, <2>3
<1>3. \A c \in Callers : getter[c].pc = "out"  BY DEF Init, TtwidInit, Outside
<1>4. getter \in [Callers -> Getter]  BY DEF Init, TtwidInit, Outside, Getter
<1> QED
  BY <1>2, <1>3, <1>4 DEF Init, TtwidInit, CookieInv, TtwidTypeOK, Serial, Browsing, FileKeepsUp, Writing, InGet

LEMMA CookieInvariance == Spec => []CookieInv
<1>1. CookieInv /\ [Next]_vars => CookieInv'  BY CookieIsKept, TtwidSteps
<1> QED  BY <1>1, CookieAtFirst, PTL DEF Spec

(* However many callers want a cookie, a browser runs only while the call  *)
(* that started it is inside Get, and no other is.                         *)
THEOREM OneBrowserAtATime == Spec => []OneBrowser
<1>1. CookieInv => OneBrowser  BY DEF CookieInv, Browsing, Serial, OneBrowser
<1> QED  BY <1>1, CookieInvariance, PTL

(* Whatever fails and whenever the process dies, an older cookie is never  *)
(* written over a newer one.                                               *)
THEOREM TheFileFollows == Spec => []FileFollowsMemory
<1>1. CookieInv => FileFollowsMemory
  BY DEF CookieInv, FileKeepsUp, FileFollowsMemory, Writing, InGet
<1> QED  BY <1>1, CookieInvariance, PTL

-----------------------------------------------------------------------------
(* The calls and the rows *)

LEMMA ContentTypes ==
  ASSUME NEW o \in Object
  PROVE  Parsed(o) \in Content
BY DEF Object, Parsed, Content

LEMMA NoObjectTypes == NoObject \in Object
BY DEF NoObject, Object

LEMMA FullTypes ==
  ASSUME NEW script \in Script
  PROVE  Full(script) \subseteq Object
BY DEF Script, Full, FoundIn

LEMMA PageTypes ==
  ASSUME NEW page \in Pages
  PROVE  WorksOn(page) \subseteq Object /\ page.leads \in Works \cup {NoWork}
<1>1. page.router \in Script /\ page.render \in Script /\ page.leads \in Works \cup {NoWork}
  BY DEF Page
<1> QED  BY <1>1, FullTypes, NoObjectTypes DEF WorksOn

(* What is known of a call: the work that it looks up, the object that it  *)
(* saves and reads back, and the row that it answers                       *)
Good(r) ==
  /\ r \in Call
  /\ r.pc = "find" => r.work \in Works
  /\ r.pc \in {"save", "read"} => r.object.id \in Works
  /\ r.answer = "row" => r.pc = "done" /\ r.work \in Works /\ Has(r.work) /\ r.row = works[r.work].id

GoodCalls == call \in [Callers -> Call] /\ \A c \in Callers : Good(call[c])

GoodRows == works \in [Works -> Row \cup {NoRow}]

Inv == CookieInv /\ GoodRows /\ GoodCalls

LEMMA IdleTypes == Idle \in Call
BY NoObjectTypes DEF Idle, Call

LEMMA IdleIsGood == Good(Idle)
BY IdleTypes DEF Idle, Good

(* One call changes and no row does *)
LEMMA OneCallChanges ==
  ASSUME GoodCalls, UNCHANGED works, NEW c \in Callers, NEW r, Good(r), call' = [call EXCEPT ![c] = r]
  PROVE  GoodCalls'
<1>1. call' \in [Callers -> Call]  BY DEF GoodCalls, Good
<1>2. \A d \in Callers : Good(call'[d])  BY DEF GoodCalls
<1>3. \A d \in Callers : Good(call[d])'  BY <1>2 DEF Good, Has
<1> QED  BY <1>1, <1>3 DEF GoodCalls

LEMMA FinishIsGood ==
  ASSUME GoodCalls, UNCHANGED works, NEW c \in Callers, NEW work \in Works \cup {NoWork},
         NEW answer \in {"error", "shell"}, Finish(c, work, answer)
  PROVE  GoodCalls'
<1> DEFINE r == [Idle EXCEPT !.pc = "done", !.work = work, !.answer = answer]
<1>1. r \in Call  BY IdleTypes DEF Call
<1>2. r.pc = "done" /\ r.answer # "row"  BY DEF Idle
<1>3. Good(r)  BY <1>1, <1>2 DEF Good
<1> QED  BY <1>3, OneCallChanges DEF Finish

LEMMA AnswerIsGood ==
  ASSUME GoodRows, GoodCalls, UNCHANGED works, NEW c \in Callers, NEW work \in Works, Has(work), AnswerRow(c, work)
  PROVE  GoodCalls'
<1> DEFINE r == [Idle EXCEPT !.pc = "done", !.work = work, !.answer = "row", !.row = works[work].id]
<1>1. works[work].id \in RowIds  BY DEF GoodRows, Has, Row
<1>2. r \in Call  BY <1>1, IdleTypes DEF Call
<1>3. r.pc = "done" /\ r.work = work /\ r.row = works[work].id  BY DEF Idle
<1>4. Good(r)  BY <1>2, <1>3 DEF Good
<1> QED  BY <1>4, OneCallChanges DEF AnswerRow

LEMMA FindsIsGood ==
  ASSUME GoodCalls, UNCHANGED works, NEW c \in Callers, NEW o \in Object, Valid(o), Finds(c, o)
  PROVE  GoodCalls'
<1> DEFINE r == [Idle EXCEPT !.pc = "save", !.object = o]
<1>1. r \in Call  BY IdleTypes DEF Call
<1>2. r.pc = "save" /\ r.object = o /\ r.answer # "row"  BY DEF Idle
<1>3. o.id \in Works  BY DEF Valid, Object
<1>4. Good(r)  BY <1>1, <1>2, <1>3 DEF Good
<1> QED  BY <1>4, OneCallChanges DEF Finds

LEMMA TurnsIsGood ==
  ASSUME GoodCalls, UNCHANGED works, NEW c \in Callers, TurnsToPage(c)
  PROVE  GoodCalls'
<1> DEFINE r == [Idle EXCEPT !.pc = "page"]
<1>1. r \in Call  BY IdleTypes DEF Call
<1>2. r.pc = "page" /\ r.answer # "row"  BY DEF Idle
<1>3. Good(r)  BY <1>1, <1>2 DEF Good
<1> QED  BY <1>3, OneCallChanges DEF TurnsToPage

LEMMA MakesIsGood ==
  ASSUME GoodCalls, UNCHANGED works, NEW c \in Callers, NEW o \in Object, MakesOf(c, o)
  PROVE  GoodCalls'
BY FindsIsGood, FinishIsGood DEF MakesOf

(* The row of a work is written: whoever has been given its id keeps it *)
LEMMA UpsertTypes ==
  ASSUME GoodRows, NEW w \in Works, NEW id \in RowIds, NEW content \in Content, works' = Upserted(w, id, content)
  PROVE  /\ GoodRows'
         /\ works'[w] = [id |-> IF Has(w) THEN works[w].id ELSE id, content |-> content, old |-> FALSE, fresh |-> TRUE]
         /\ \A v \in Works \ {w} : works'[v] = works[v]
         /\ \A v \in Works : Has(v) => Has(v)' /\ works'[v].id = works[v].id
<1> DEFINE row == [id |-> IF Has(w) THEN works[w].id ELSE id, content |-> content, old |-> FALSE, fresh |-> TRUE]
<1>1. works' = [works EXCEPT ![w] = row]  BY DEF Upserted
<1>2. (IF Has(w) THEN works[w].id ELSE id) \in RowIds  BY DEF GoodRows, Has, Row
<1>3. row \in Row  BY <1>2 DEF Row
<1>4. works'[w] = row /\ \A v \in Works \ {w} : works'[v] = works[v]  BY <1>1 DEF GoodRows
<1>5. works' \in [Works -> Row \cup {NoRow}]  BY <1>1, <1>3 DEF GoodRows
<1>6. row # NoRow  BY <1>3, RowAssumption
<1>7. \A v \in Works : Has(v) => Has(v)' /\ works'[v].id = works[v].id  BY <1>4, <1>6 DEF Has
<1> QED  BY <1>4, <1>5, <1>7 DEF GoodRows

LEMMA NewIdTypes ==
  ASSUME RowIds \ Ids # {}
  PROVE  NewId \in RowIds \ Ids
BY DEF NewId

LEMMA GotoIsGood ==
  ASSUME GoodCalls, UNCHANGED works, NEW c \in Callers, call[c].pc # "done", NEW r \in Call,
         r.pc \notin {"find", "save", "read"}, r.answer = call[c].answer, call' = [call EXCEPT ![c] = r]
  PROVE  GoodCalls'
<1>1. Good(r)  BY DEF GoodCalls, Good
<1> QED  BY <1>1, OneCallChanges

LEMMA SaveTypes ==
  ASSUME GoodRows, GoodCalls, NEW c \in Callers, Save(c)
  PROVE  /\ call[c].object \in Object /\ call[c].object.id \in Works
         /\ NewId \in RowIds \ Ids
         /\ works' = Upserted(call[c].object.id, NewId, Parsed(call[c].object))
         /\ Parsed(call[c].object) \in Content /\ ~IsEmptyShell(Parsed(call[c].object))
<1>1. Good(call[c]) /\ call[c].pc = "save"  BY DEF GoodCalls, Save, At
<1>2. call[c].object \in Object /\ call[c].object.id \in Works  BY <1>1 DEF Good, Call
<1> QED  BY <1>2, NewIdTypes, ContentTypes DEF Save

LEMMA CallsAreKept == GoodRows /\ GoodCalls /\ [Next]_vars => GoodRows' /\ GoodCalls'
<1> SUFFICES ASSUME GoodRows, GoodCalls, [Next]_vars PROVE GoodRows' /\ GoodCalls'
  OBVIOUS
<1> USE DEF At
<1>0. /\ \A c \in Callers : call[c] \in Call /\ Good(call[c])
      /\ UNCHANGED works => GoodRows'
      /\ UNCHANGED <<works, call>> => GoodRows' /\ GoodCalls'
  BY DEF GoodCalls, GoodRows, Good, Has
<1>1. ASSUME UNCHANGED works, GoodCalls' PROVE GoodRows' /\ GoodCalls'
  BY <1>0, <1>1
<1>2. ASSUME NEW c \in Callers, Ask(c) PROVE GoodRows' /\ GoodCalls'
  <2>1. PICK work \in Links, force \in BOOLEAN :
          call' = [call EXCEPT ![c].work = work, ![c].pc = IF work = NoWork THEN "expand"
                                                           ELSE IF force THEN "cookie" ELSE "find"]
    BY <1>2 DEF Ask
  <2> DEFINE pc == IF work = NoWork THEN "expand" ELSE IF force THEN "cookie" ELSE "find"
             r == [call[c] EXCEPT !.work = work, !.pc = pc]
  <2>2. call' = [call EXCEPT ![c] = r]  BY <2>1 DEF GoodCalls
  <2>3. r \in Call /\ r.work = work /\ r.pc = pc /\ r.answer = call[c].answer
    BY <1>0 DEF Call, Links
  <2>4. call[c].answer # "row"  BY <1>0, <1>2 DEF Ask, Good
  <2>5. Good(r)  BY <2>3, <2>4 DEF Good, Links
  <2> QED  BY <1>1, <1>2, <2>2, <2>5, OneCallChanges DEF Ask
<1>3. ASSUME NEW c \in Callers, FindFresh(c) PROVE GoodRows' /\ GoodCalls'
  <2>1. call[c].pc = "find" /\ call[c].work \in Works /\ UNCHANGED works
    BY <1>0, <1>3 DEF FindFresh, Good
  <2>2. CASE FreshRow(call[c].work)
    <3>1. Has(call[c].work)  BY <2>2 DEF FreshRow
    <3>2. AnswerRow(c, call[c].work)  BY <1>3, <2>2 DEF FindFresh
    <3> QED  BY <1>1, <2>1, <3>1, <3>2, AnswerIsGood
  <2>3. CASE ~FreshRow(call[c].work)
    <3> DEFINE r == [call[c] EXCEPT !.pc = "cookie"]
    <3>1. call' = [call EXCEPT ![c] = r]  BY <1>3, <2>3 DEF FindFresh, Goto, GoodCalls
    <3>2. r \in Call /\ r.pc = "cookie" /\ r.answer = call[c].answer  BY <1>0 DEF Call
    <3> QED  BY <1>1, <2>1, <3>1, <3>2, GotoIsGood
  <2> QED  BY <2>2, <2>3
<1>4. ASSUME NEW c \in Callers, Expand(c) PROVE GoodRows' /\ GoodCalls'
  <2>1. ASSUME NEW work \in Works, call' = [call EXCEPT ![c].pc = "cookie", ![c].work = work]
        PROVE  GoodCalls'
    <3> DEFINE r == [call[c] EXCEPT !.pc = "cookie", !.work = work]
    <3>1. call' = [call EXCEPT ![c] = r]  BY <2>1 DEF GoodCalls
    <3>2. r \in Call /\ r.pc = "cookie" /\ r.answer = call[c].answer  BY <1>0 DEF Call
    <3>3. call[c].pc # "done" /\ UNCHANGED works  BY <1>4 DEF Expand
    <3> QED  BY <3>1, <3>2, <3>3, GotoIsGood
  <2> QED  BY <1>1, <1>4, <2>1, TurnsIsGood DEF Expand
<1>5. ASSUME NEW c \in Callers, GetCookie(c) PROVE GoodRows' /\ GoodCalls'
  BY <1>0, <1>5 DEF GetCookie
<1>6. ASSUME NEW c \in Callers, CookieReady(c) PROVE GoodRows' /\ GoodCalls'
  <2> DEFINE r == [call[c] EXCEPT !.pc = "detail", !.tries = 1]
  <2>1. call' = [call EXCEPT ![c] = r]  BY <1>6 DEF CookieReady, GoodCalls
  <2>0. 1 \in 0..Attempts  OBVIOUS
  <2>2. r \in Call /\ r.pc = "detail" /\ r.answer = call[c].answer  BY <1>0, <2>0 DEF Call
  <2>3. call[c].pc # "done" /\ UNCHANGED works  BY <1>6 DEF CookieReady
  <2> QED  BY <1>1, <2>1, <2>2, <2>3, GotoIsGood
<1>7. ASSUME NEW c \in Callers, CookieFailed(c) PROVE GoodRows' /\ GoodCalls'
  BY <1>1, <1>7, TurnsIsGood DEF CookieFailed
<1>8. ASSUME NEW c \in Callers, DetailFails(c) PROVE GoodRows' /\ GoodCalls'
  <2>1. ASSUME call[c].tries < Attempts, call' = [call EXCEPT ![c].tries = @ + 1]
        PROVE  GoodCalls'
    <3> DEFINE r == [call[c] EXCEPT !.tries = call[c].tries + 1]
    <3>1. call[c].tries + 1 \in 0..Attempts  BY <1>0, <2>1 DEF Call
    <3>2. call' = [call EXCEPT ![c] = r]  BY <2>1 DEF GoodCalls
    <3>3. r \in Call /\ r.pc = call[c].pc /\ r.answer = call[c].answer  BY <1>0, <3>1 DEF Call
    <3>4. call[c].pc = "detail" /\ UNCHANGED works  BY <1>8 DEF DetailFails
    <3> QED  BY <3>2, <3>3, <3>4, GotoIsGood
  <2> QED  BY <1>1, <1>8, <2>1, TurnsIsGood DEF DetailFails
<1>9. ASSUME NEW c \in Callers, DetailAnswers(c) PROVE GoodRows' /\ GoodCalls'
  <2>1. PICK o \in Objects : IF Valid(o) THEN Finds(c, o) ELSE TurnsToPage(c)
    BY <1>9 DEF DetailAnswers
  <2> QED  BY <1>1, <1>9, <2>1, TurnsIsGood, FindsIsGood DEF DetailAnswers
<1>10. ASSUME NEW c \in Callers, ReadPage(c) PROVE GoodRows' /\ GoodCalls'
  <2>1. PICK page \in Pages : \E o \in WorksOn(page) :
          IF page.leads = NoWork THEN MakesOf(c, o) ELSE call' = [call EXCEPT ![c].pc = "share", ![c].object = o]
    BY <1>10 DEF ReadPage
  <2>2. PICK o \in WorksOn(page) :
          IF page.leads = NoWork THEN MakesOf(c, o) ELSE call' = [call EXCEPT ![c].pc = "share", ![c].object = o]
    BY <2>1
  <2>3. o \in Object /\ call[c].pc # "done" /\ UNCHANGED works  BY <1>10, <2>2, PageTypes DEF ReadPage
  <2>4. CASE page.leads = NoWork  BY <1>1, <2>2, <2>3, <2>4, MakesIsGood
  <2>5. CASE page.leads # NoWork
    <3> DEFINE r == [call[c] EXCEPT !.pc = "share", !.object = o]
    <3>1. call' = [call EXCEPT ![c] = r]  BY <2>2, <2>5 DEF GoodCalls
    <3>2. r \in Call /\ r.pc = "share" /\ r.answer = call[c].answer  BY <1>0, <2>3 DEF Call
    <3> QED  BY <1>1, <2>3, <3>1, <3>2, GotoIsGood
  <2> QED  BY <2>4, <2>5
<1>11. ASSUME NEW c \in Callers, ReadSharePage(c) PROVE GoodRows' /\ GoodCalls'
  <2>1. PICK o \in (UNION {WorksOn(page) : page \in Pages}) \cup {call[c].object} : MakesOf(c, o)
    BY <1>11 DEF ReadSharePage
  <2>2. o \in Object
    <3>1. CASE o = call[c].object  BY <1>0, <3>1 DEF Call
    <3>2. CASE o # call[c].object
      <4>1. o \in UNION {WorksOn(page) : page \in Pages}  BY <2>1, <3>2
      <4>2. PICK S \in {WorksOn(page) : page \in Pages} : o \in S  BY <4>1
      <4>3. PICK page \in Pages : S = WorksOn(page)  BY <4>2
      <4> QED  BY <4>2, <4>3, PageTypes
    <3> QED  BY <3>1, <3>2
  <2> QED  BY <1>1, <1>11, <2>1, <2>2, MakesIsGood DEF ReadSharePage
<1>12. ASSUME NEW c \in Callers, AnswerShell(c) PROVE GoodRows' /\ GoodCalls'
  <2>1. call[c].object.id \in Works \cup {NoWork}  BY <1>0 DEF Call, Object
  <2> QED  BY <1>1, <1>12, <2>1, FinishIsGood DEF AnswerShell
<1>13. ASSUME NEW c \in Callers, Save(c) PROVE GoodRows' /\ GoodCalls'
  <2>1. GoodRows' /\ \A v \in Works : Has(v) => Has(v)' /\ works'[v].id = works[v].id
    BY <1>13, SaveTypes, UpsertTypes
  <2> DEFINE r == [call[c] EXCEPT !.pc = "read"]
  <2>2. call' = [call EXCEPT ![c] = r]  BY <1>13 DEF Save, Goto, GoodCalls
  <2>3. r \in Call /\ r.pc = "read" /\ r.answer = call[c].answer /\ r.object = call[c].object
    BY <1>0 DEF Call
  <2>4. call[c].pc = "save"  BY <1>13 DEF Save
  <2>5. Good(r)  BY <1>0, <2>3, <2>4 DEF Good
  <2>6. \A d \in Callers : Good(call'[d])  BY <1>0, <2>2, <2>5 DEF GoodCalls
  <2>7. \A d \in Callers : Good(call[d])'
    <3> SUFFICES ASSUME NEW d \in Callers PROVE Good(call[d])'
      OBVIOUS
    <3>1. Good(call'[d])  BY <2>6
    <3> QED  BY <2>1, <3>1 DEF Good
  <2>8. call' \in [Callers -> Call]  BY <2>2, <2>3 DEF GoodCalls
  <2> QED  BY <2>1, <2>7, <2>8 DEF GoodCalls
<1>14. ASSUME NEW c \in Callers, ReadBack(c) PROVE GoodRows' /\ GoodCalls'
  <2>1. call[c].object.id \in Works /\ UNCHANGED works  BY <1>0, <1>14 DEF ReadBack, Good
  <2> QED  BY <1>1, <1>14, <2>1, AnswerIsGood, FinishIsGood DEF ReadBack
<1>15. ASSUME NEW c \in Callers, PageFails(c) \/ CacheFails(c) PROVE GoodRows' /\ GoodCalls'
  BY <1>1, <1>15, FinishIsGood DEF PageFails, CacheFails
<1>16. ASSUME NEW c \in Callers, Leave(c) PROVE GoodRows' /\ GoodCalls'
  BY <1>1, <1>16, IdleIsGood, OneCallChanges DEF Leave
<1>17. CASE RowAges
  <2>1. PICK w \in Works : Has(w) /\ works' = [works EXCEPT ![w].fresh = FALSE]
    BY <1>17 DEF RowAges
  <2>2. works[w] \in Row  BY <2>1 DEF GoodRows, Has
  <2>3. [works[w] EXCEPT !.fresh = FALSE] \in Row  BY <2>2 DEF Row
  <2>4. works'[w] = [works[w] EXCEPT !.fresh = FALSE] /\ \A v \in Works \ {w} : works'[v] = works[v]
    BY <2>1 DEF GoodRows
  <2>5. works'[w].id = works[w].id /\ works'[w] # NoRow  BY <2>2, <2>3, <2>4, RowAssumption DEF Row
  <2>6. \A v \in Works : Has(v) => Has(v)' /\ works'[v].id = works[v].id  BY <2>4, <2>5 DEF Has
  <2>7. GoodRows'  BY <2>1, <2>3 DEF GoodRows
  <2>8. UNCHANGED call  BY <1>17 DEF RowAges
  <2> QED  BY <1>0, <2>6, <2>7, <2>8 DEF GoodCalls, Good
<1>18. CASE Ages
  BY <1>0, <1>18 DEF Ages
<1>19. CASE Crash
  <2>1. GoodRows'
    <3>1. CASE UNCHANGED works  BY <1>0, <3>1
    <3>2. CASE works' = [w \in Works |-> IF Has(w) THEN [works[w] EXCEPT !.old = TRUE, !.fresh = FALSE] ELSE NoRow]
      <4>1. \A w \in Works : Has(w) => [works[w] EXCEPT !.old = TRUE, !.fresh = FALSE] \in Row
        BY DEF GoodRows, Has, Row
      <4> QED  BY <3>2, <4>1 DEF GoodRows
    <3> QED  BY <1>19, <3>1, <3>2 DEF Crash
  <2>2. call' = [c \in Callers |-> Idle]  BY <1>19 DEF Crash
  <2>3. \A c \in Callers : call'[c] = Idle  BY <2>2
  <2>4. call' \in [Callers -> Call]  BY <2>2, IdleTypes
  <2>5. \A c \in Callers : Good(call[c])'
    BY <2>3, IdleTypes DEF Good, Idle
  <2> QED  BY <2>1, <2>4, <2>5 DEF GoodCalls
<1>20. ASSUME NEW c \in Callers, Locking(c) \/ GettingCookie(c) \/ FindingCookie(c) PROVE GoodRows' /\ GoodCalls'
  BY <1>0, <1>20 DEF Locking, GettingCookie, FindingCookie
<1>21. CASE UNCHANGED vars
  BY <1>0, <1>21 DEF vars
<1> QED
  BY <1>2, <1>3, <1>4, <1>5, <1>6, <1>7, <1>8, <1>9, <1>10, <1>11, <1>12, <1>13, <1>14, <1>15, <1>16, <1>17,
     <1>18, <1>19, <1>20, <1>21 DEF Next, Resolving

LEMMA Invariance == Spec => []Inv
<1>1. Init => Inv
  <2> SUFFICES ASSUME Init PROVE Inv
    OBVIOUS
  <2>1. GoodRows  BY DEF Init, GoodRows
  <2>2. \A c \in Callers : call[c] = Idle  BY DEF Init
  <2>3. GoodCalls  BY <2>2, IdleIsGood, IdleTypes DEF Init, GoodCalls
  <2> QED  BY <2>1, <2>3, CookieAtFirst DEF Inv
<1>2. Inv /\ [Next]_vars => Inv'
  BY CookieIsKept, TtwidSteps, CallsAreKept DEF Inv
<1> QED  BY <1>1, <1>2, PTL DEF Spec

(* The variables keep their types: a call never leaves the points that the *)
(* code has, and asks the detail API no more often than maxDetailAttempts. *)
THEOREM TypeCorrect == Spec => []TypeOK
<1>1. Inv => TypeOK  BY DEF Inv, CookieInv, GoodRows, GoodCalls, TypeOK
<1> QED  BY <1>1, Invariance, PTL

(* The row that a call is given is the row of its work, and stays so until *)
(* the caller has used it, whoever saves the work meanwhile.               *)
THEOREM AnswersAreRowsOfTheWork == Spec => []AnswersAreRows
<1>1. Inv => AnswersAreRows  BY DEF Inv, GoodCalls, Good, AnswersAreRows
<1> QED  BY <1>1, Invariance, PTL

-----------------------------------------------------------------------------
(* The refinement *)

LEMMA HasARow ==
  ASSUME GoodRows, NEW w \in Works
  PROVE  /\ Table[w] # NoRow <=> Has(w)
         /\ Has(w) => Table[w].id = works[w].id
<1>1. CASE Has(w)
  <2>1. works[w] \in Row  BY <1>1 DEF GoodRows, Has
  <2>2. [id |-> works[w].id, content |-> works[w].content] \in [id : RowIds, content : Content]  BY <2>1 DEF Row
  <2> QED  BY <1>1, <2>2, RowAssumption DEF Table
<1>2. CASE ~Has(w)  BY <1>2 DEF Table
<1> QED  BY <1>1, <1>2

LEMMA TakenIds == GoodRows => Rows!Taken = Ids
BY HasARow DEF Rows!Taken, Ids

(* A step that touches no row but for its age leaves the table as it was *)
LEMMA TableStays ==
  ASSUME GoodRows, \A w \in Works : Has(w)' = Has(w),
         \A w \in Works : Has(w) => works'[w].id = works[w].id /\ works'[w].content = works[w].content
  PROVE  Table' = Table
BY DEF Table, Has

LEMMA UpsertInsertsOrRenews ==
  ASSUME GoodRows, NEW w \in Works, NEW id \in RowIds \ Ids, NEW content \in Content, ~IsEmptyShell(content),
         works' = Upserted(w, id, content)
  PROVE  Rows!Next
<1>2. /\ GoodRows'
      /\ works'[w] = [id |-> IF Has(w) THEN works[w].id ELSE id, content |-> content, old |-> FALSE, fresh |-> TRUE]
      /\ \A v \in Works \ {w} : works'[v] = works[v]
      /\ \A v \in Works : Has(v) => Has(v)'
  BY UpsertTypes
<1>3. Has(w)'
  <2>1. works'[w] \in Row
    <3>1. (IF Has(w) THEN works[w].id ELSE id) \in RowIds  BY DEF GoodRows, Has, Row
    <3> QED  BY <1>2, <3>1 DEF Row
  <2> QED  BY <2>1, RowAssumption DEF Has
<1>4. Table'[w] = [id |-> IF Has(w) THEN works[w].id ELSE id, content |-> content]
  BY <1>2, <1>3 DEF Table
<1>5. \A v \in Works \ {w} : Table'[v] = Table[v]
  BY <1>2 DEF Table, Has
<1>6. Table = [v \in Works |-> Table[v]] /\ Table' = [v \in Works |-> Table'[v]]
  BY DEF Table
<1>7. CASE Has(w)
  <2>1. Table[w] = [id |-> works[w].id, content |-> works[w].content]  BY <1>7 DEF Table
  <2>2. Table'[w] = [Table[w] EXCEPT !.content = content]  BY <1>4, <1>7, <2>1
  <2>3. Table' = [Table EXCEPT ![w].content = content]  BY <1>5, <1>6, <2>2
  <2>4. Table[w] # NoRow  BY <1>7, HasARow
  <2>5. Rows!Renew(w)  BY <2>3, <2>4 DEF Rows!Renew
  <2> QED  BY <2>5 DEF Rows!Next
<1>8. CASE ~Has(w)
  <2>1. Table'[w] = [id |-> id, content |-> content]  BY <1>4, <1>8
  <2>2. Table' = [Table EXCEPT ![w] = [id |-> id, content |-> content]]  BY <1>5, <1>6, <2>1
  <2>3. Table[w] = NoRow  BY <1>8, HasARow
  <2>4. id \in RowIds \ Rows!Taken  BY TakenIds
  <2>5. Rows!Insert(w)  BY <2>2, <2>3, <2>4 DEF Rows!Insert
  <2> QED  BY <2>5 DEF Rows!Next
<1> QED  BY <1>7, <1>8

LEMMA SaveInsertsOrRenews ==
  ASSUME GoodRows, GoodCalls, NEW c \in Callers, Save(c)
  PROVE  Rows!Next
<1>1. PICK w \in Works : w = call[c].object.id  BY SaveTypes
<1>2. PICK id \in RowIds \ Ids : id = NewId  BY SaveTypes
<1>3. PICK content \in Content : content = Parsed(call[c].object)  BY SaveTypes
<1>4. ~IsEmptyShell(content) /\ works' = Upserted(w, id, content)
  BY <1>1, <1>2, <1>3, SaveTypes
<1> QED  BY <1>4, UpsertInsertsOrRenews

LEMMA StepsOfTheTable == GoodRows /\ GoodCalls /\ [Next]_vars => [Rows!Next]_Table
<1> SUFFICES ASSUME GoodRows, GoodCalls, [Next]_vars PROVE Rows!Next \/ Table' = Table
  OBVIOUS
<1>1. CASE \E c \in Callers : Save(c)
  BY <1>1, SaveInsertsOrRenews
<1>2. CASE RowAges
  <2>1. PICK w \in Works : Has(w) /\ works' = [works EXCEPT ![w].fresh = FALSE]
    BY <1>2 DEF RowAges
  <2>2. works[w] \in Row  BY <2>1 DEF GoodRows, Has
  <2>3. [works[w] EXCEPT !.fresh = FALSE] \in Row  BY <2>2 DEF Row
  <2>4. works'[w] = [works[w] EXCEPT !.fresh = FALSE] /\ \A v \in Works \ {w} : works'[v] = works[v]
    BY <2>1 DEF GoodRows
  <2>5. works'[w].id = works[w].id /\ works'[w].content = works[w].content /\ works'[w] # NoRow
    BY <2>2, <2>3, <2>4, RowAssumption DEF Row
  <2>6. \A v \in Works : /\ Has(v)' = Has(v)
                         /\ works'[v].id = works[v].id /\ works'[v].content = works[v].content
    BY <2>1, <2>4, <2>5 DEF Has
  <2> QED  BY <2>6, TableStays
<1>3. CASE Crash /\ works' # works
  <2>1. works' = [w \in Works |-> IF Has(w) THEN [works[w] EXCEPT !.old = TRUE, !.fresh = FALSE] ELSE NoRow]
    BY <1>3 DEF Crash
  <2>2. ASSUME NEW w \in Works
        PROVE  /\ Has(w)' = Has(w)
               /\ Has(w) => works'[w].id = works[w].id /\ works'[w].content = works[w].content
    <3>1. CASE Has(w)
      <4>1. works[w] \in Row  BY <3>1 DEF GoodRows, Has
      <4>2. works'[w] = [works[w] EXCEPT !.old = TRUE, !.fresh = FALSE]  BY <2>1, <3>1
      <4>3. works'[w] \in Row /\ works'[w].id = works[w].id /\ works'[w].content = works[w].content
        BY <4>1, <4>2 DEF Row
      <4> QED  BY <3>1, <4>3, RowAssumption DEF Has
    <3>2. CASE ~Has(w)  BY <2>1, <3>2 DEF Has
    <3> QED  BY <3>1, <3>2
  <2> QED  BY <2>2, TableStays
<1>4. CASE works' = works
  BY <1>4 DEF Table, Has
<1>5. (\E c \in Callers : Save(c)) \/ RowAges \/ (Crash /\ works' # works) \/ works' = works
  BY DEF Next, vars, Ask, Resolving, Locking, GettingCookie, FindingCookie, Ages,
         FindFresh, Expand, GetCookie, CookieReady, CookieFailed, DetailFails, DetailAnswers, ReadPage,
         ReadSharePage, AnswerShell, ReadBack, PageFails, CacheFails, Leave
<1> QED  BY <1>1, <1>2, <1>3, <1>4, <1>5

(* Whatever the website says and whoever resolves at the same time, a work *)
(* has one row, whose id is its own for good, and a shell never takes the  *)
(* place of what is known.                                                 *)
THEOREM TheTableIsPermanent == Spec => RowsArePermanent
<1>1. Init => Rows!Init
  BY DEF Init, Rows!Init, Table, Has
<1>2. Inv /\ [Next]_vars => [Rows!Next]_Table
  BY StepsOfTheTable DEF Inv
<1> QED  BY <1>1, <1>2, Invariance, PTL DEF Spec, RowsArePermanent, Rows!Spec

-----------------------------------------------------------------------------
(* The end of a call *)

(* The steps, at most, to the end of Get *)
Getting(g) ==
  CASE g.pc = "out"      -> 11
    [] g.pc = "lock"     -> 10
    [] g.pc = "check"    -> 9
    [] g.pc = "refresh"  -> 8
    [] g.pc = "launch"   -> 7
    [] g.pc = "devtools" -> 6
    [] g.pc = "page"     -> 5
    [] g.pc = "poll"     -> 4
    [] g.pc = "store"    -> 3
    [] g.pc = "open"     -> 2
    [] g.pc = "write"    -> 1
    [] OTHER             -> 0

(* The steps, at most, until the call has left *)
Ahead(r, g) ==
  CASE r.pc \in {"find", "expand"} -> Attempts + 18
    [] r.pc = "cookie"             -> Attempts + 6 + Getting(g)
    [] r.pc = "detail"             -> 6 + (Attempts - r.tries)
    [] r.pc = "page"               -> 5
    [] r.pc = "share"              -> 4
    [] r.pc = "save"               -> 3
    [] r.pc = "read"               -> 2
    [] r.pc = "done"               -> 1
    [] OTHER                       -> 0

(* Get is called for the cookie only, and the attempts are counted *)
Orderly(r, g) ==
  /\ r.pc # "cookie" => g = Outside
  /\ r.pc = "detail" => r.tries \in 1..Attempts

OrderlyCalls == \A c \in Callers : Orderly(call[c], getter[c])

MovesOn(c) ==
  call[c].pc # "idle" /\ ~(call'[c] = call[c] /\ getter'[c] = getter[c]) =>
    Ahead(call'[c], getter'[c]) < Ahead(call[c], getter[c])

LEMMA GettingTypes ==
  ASSUME NEW g \in Getter
  PROVE  Getting(g) \in 0..11
BY DEF Getting, Getter, InGet

LEMMA AheadTypes ==
  ASSUME NEW r \in Call, NEW g \in Getter, Orderly(r, g)
  PROVE  Ahead(r, g) \in 0..(Attempts + 18)
<1>1. Getting(g) \in 0..11  BY GettingTypes
<1>2. CASE r.pc = "detail"  BY <1>2 DEF Ahead, Orderly
<1>3. CASE r.pc # "detail"  BY <1>1, <1>3 DEF Ahead
<1> QED  BY <1>2, <1>3

(* Where the call of c goes on *)
LEMMA CallGoes ==
  ASSUME GoodCalls, NEW c \in Callers
  PROVE  /\ \A work, answer : Finish(c, work, answer) => call'[c].pc = "done"
         /\ \A work : AnswerRow(c, work) => call'[c].pc = "done"
         /\ TurnsToPage(c) => call'[c].pc = "page"
         /\ \A o : Finds(c, o) => call'[c].pc = "save"
         /\ \A o : MakesOf(c, o) => call'[c].pc \in {"save", "done"}
         /\ \A pc : Goto(c, pc) => call'[c].pc = pc
<1>1. call[c] \in Call /\ Idle \in Call  BY IdleTypes DEF GoodCalls
<1>2. \A r : call' = [call EXCEPT ![c] = r] => call'[c] = r  BY DEF GoodCalls
<1>3. \A work, answer : Finish(c, work, answer) => call'[c].pc = "done"
  BY <1>2 DEF Finish, Idle
<1>4. \A work : AnswerRow(c, work) => call'[c].pc = "done"
  BY <1>2 DEF AnswerRow, Idle
<1>5. TurnsToPage(c) => call'[c].pc = "page"
  BY <1>2 DEF TurnsToPage, Idle
<1>6. \A o : Finds(c, o) => call'[c].pc = "save"
  BY <1>2 DEF Finds, Idle
<1>7. \A o : MakesOf(c, o) => call'[c].pc \in {"save", "done"}
  BY <1>3, <1>6 DEF MakesOf
<1>8. \A pc : Goto(c, pc) => call'[c].pc = pc
  BY <1>1 DEF Goto, GoodCalls, Call
<1> QED  BY <1>3, <1>4, <1>5, <1>6, <1>7, <1>8

LEMMA OutsideGet ==
  ASSUME GoodCalls, NEW c \in Callers, Orderly(call[c], getter[c]), UNCHANGED ttwidVars,
         \/ Ask(c) \/ FindFresh(c) \/ Expand(c) \/ DetailFails(c) \/ DetailAnswers(c) \/ ReadPage(c)
         \/ ReadSharePage(c) \/ AnswerShell(c) \/ Save(c) \/ ReadBack(c) \/ PageFails(c) \/ CacheFails(c) \/ Leave(c)
  PROVE  Orderly(call'[c], getter'[c]) /\ MovesOn(c)
<1> DEFINE r == call[c]
           q == call'[c]
<1> USE DEF At
<1>0. r \in Call /\ getter' = getter  BY DEF GoodCalls, ttwidVars
<1>1. ASSUME r.pc \notin {"idle", "cookie"}, q.pc \notin {"cookie", "detail"},
             \/ r.pc \in {"find", "expand", "detail"} /\ q.pc \in {"page", "save", "done"}
             \/ r.pc = "page" /\ q.pc \in {"share", "save", "done"}
             \/ r.pc = "share" /\ q.pc \in {"save", "done"}
             \/ r.pc = "save" /\ q.pc \in {"read", "done"}
             \/ r.pc = "read" /\ q.pc = "done"
             \/ r.pc = "done" /\ q.pc = "idle"
      PROVE  Orderly(q, getter'[c]) /\ MovesOn(c)
  <2>1. Orderly(q, getter'[c])  BY <1>0, <1>1 DEF Orderly
  <2>2. CASE r.pc = "detail"
    <3>1. Attempts - r.tries \in Nat  BY <2>2 DEF Orderly
    <3> QED  BY <1>1, <2>1, <2>2, <3>1 DEF MovesOn, Ahead
  <2>3. CASE r.pc # "detail"  BY <1>1, <2>1, <2>3 DEF MovesOn, Ahead
  <2> QED  BY <2>2, <2>3
<1>2. ASSUME r.pc \in {"find", "expand"}, q.pc = "cookie"
      PROVE  Orderly(q, getter'[c]) /\ MovesOn(c)
  <2>1. getter'[c] = Outside  BY <1>0, <1>2 DEF Orderly
  <2>2. Getting(getter'[c]) = 11  BY <2>1 DEF Getting, Outside
  <2>3. Ahead(q, getter'[c]) = Attempts + 17 /\ Ahead(r, getter[c]) = Attempts + 18
    BY <1>2, <2>2 DEF Ahead
  <2> QED  BY <1>2, <2>3 DEF Orderly, MovesOn
<1>3. CASE Ask(c)
  <2>1. r.pc = "idle"  BY <1>3 DEF Ask
  <2>2. PICK work \in Links, pc \in {"find", "expand", "cookie"} : call' = [call EXCEPT ![c].work = work, ![c].pc = pc]
    BY <1>3 DEF Ask
  <2>3. call' = [call EXCEPT ![c] = [r EXCEPT !.work = work, !.pc = pc]]  BY <2>2
  <2>4. q.pc \in {"find", "expand", "cookie"}  BY <1>0, <2>3 DEF GoodCalls, Call
  <2>5. getter'[c] = Outside  BY <1>0, <2>1 DEF Orderly
  <2> QED  BY <2>1, <2>4, <2>5 DEF Orderly, MovesOn
<1>4. CASE FindFresh(c)
  <2>1. r.pc = "find" /\ q.pc \in {"done", "cookie"}  BY <1>4, CallGoes DEF FindFresh
  <2> QED  BY <1>1, <1>2, <2>1
<1>5. CASE Expand(c)
  <2>1. r.pc = "expand"  BY <1>5 DEF Expand
  <2>2. ASSUME NEW work \in Works, call' = [call EXCEPT ![c].pc = "cookie", ![c].work = work] PROVE q.pc = "cookie"
    BY <1>0, <2>2 DEF GoodCalls, Call
  <2>3. q.pc \in {"cookie", "page"}  BY <1>5, <2>2, CallGoes DEF Expand
  <2> QED  BY <1>1, <1>2, <2>1, <2>3
<1>6. CASE DetailFails(c)
  <2>1. r.pc = "detail"  BY <1>6 DEF DetailFails
  <2>2. r.tries \in 1..Attempts  BY <2>1 DEF Orderly
  <2>3. CASE r.tries < Attempts /\ call' = [call EXCEPT ![c].tries = @ + 1]
    <3>1. q.pc = "detail" /\ q.tries = r.tries + 1  BY <1>0, <2>1, <2>3 DEF GoodCalls, Call
    <3>2. Orderly(q, getter'[c])  BY <1>0, <2>1, <2>2, <2>3, <3>1 DEF Orderly
    <3>3. Ahead(q, getter'[c]) < Ahead(r, getter[c])  BY <2>1, <2>2, <3>1 DEF Ahead
    <3> QED  BY <3>2, <3>3 DEF MovesOn
  <2>4. CASE TurnsToPage(c)  BY <1>1, <2>1, <2>4, CallGoes
  <2> QED  BY <1>6, <2>3, <2>4 DEF DetailFails
<1>7. CASE DetailAnswers(c)
  <2>1. r.pc = "detail" /\ q.pc \in {"save", "page"}  BY <1>7, CallGoes DEF DetailAnswers
  <2> QED  BY <1>1, <2>1
<1>8. CASE ReadPage(c)
  <2>1. r.pc = "page"  BY <1>8 DEF ReadPage
  <2>2. ASSUME NEW o, call' = [call EXCEPT ![c].pc = "share", ![c].object = o] PROVE q.pc = "share"
    BY <1>0, <2>2 DEF GoodCalls, Call
  <2>3. q.pc \in {"share", "save", "done"}  BY <1>8, <2>2, CallGoes DEF ReadPage
  <2> QED  BY <1>1, <2>1, <2>3
<1>9. CASE ReadSharePage(c)
  <2>1. r.pc = "share" /\ q.pc \in {"save", "done"}  BY <1>9, CallGoes DEF ReadSharePage
  <2> QED  BY <1>1, <2>1
<1>10. CASE AnswerShell(c) \/ Save(c)
  <2>1. r.pc = "save" /\ q.pc \in {"read", "done"}  BY <1>10, CallGoes DEF AnswerShell, Save
  <2> QED  BY <1>1, <2>1
<1>11. CASE ReadBack(c) \/ PageFails(c) \/ CacheFails(c)
  <2>1. r.pc \in {"find", "page", "save", "read"} /\ q.pc = "done"
    BY <1>11, CallGoes DEF ReadBack, PageFails, CacheFails
  <2> QED  BY <1>1, <2>1
<1>12. CASE Leave(c)
  <2>1. r.pc = "done" /\ q.pc = "idle"  BY <1>12 DEF Leave, GoodCalls, Idle
  <2> QED  BY <1>1, <2>1
<1> QED  BY <1>3, <1>4, <1>5, <1>6, <1>7, <1>8, <1>9, <1>10, <1>11, <1>12

LEMMA GetMovesOn ==
  ASSUME CookieInv, NEW c \in Callers, CallGet(c) \/ Lock(c) \/ InsideGet(c) \/ Poll(c)
  PROVE  /\ Getting(getter'[c]) < Getting(getter[c])
         /\ getter[c].pc \in {"out", "lock"} \cup InGet
         /\ \A d \in Callers \ {c} : getter'[d] = getter[d]
<1>0. TtwidTypeOK /\ getter[c] \in Getter  BY DEF CookieInv, TtwidTypeOK
<1>1. ASSUME NEW pc, GetsTo(c, pc) PROVE getter'[c].pc = pc /\ \A d \in Callers \ {c} : getter'[d] = getter[d]
  BY <1>0, <1>1, GetterMoves
<1>2. ASSUME NEW g, getter' = [getter EXCEPT ![c] = g] PROVE getter'[c] = g /\ \A d \in Callers \ {c} : getter'[d] = getter[d]
  BY <1>0, <1>2 DEF TtwidTypeOK
<1>3. ASSUME Issue(c) PROVE getter'[c].pc = "store" /\ \A d \in Callers \ {c} : getter'[d] = getter[d]
  <2>1. getter' = [getter EXCEPT ![c] = [pc |-> "store", cookie |-> Unissued]]  BY <1>3 DEF Issue
  <2> QED  BY <1>2, <2>1
<1>4. ASSUME Return(c) PROVE getter'[c].pc = "got" /\ \A d \in Callers \ {c} : getter'[d] = getter[d]
  <2>1. getter' = [getter EXCEPT ![c] = [pc |-> "got", cookie |-> NoCookie]]  BY <1>4 DEF Return
  <2> QED  BY <1>2, <2>1
<1>5. CASE Check(c)
  <2>1. PICK pc \in {"got", "launch", "refresh"} : getter' = [getter EXCEPT ![c] = [pc |-> pc, cookie |-> NoCookie]]
    BY <1>5 DEF Check
  <2>2. getter'[c].pc = pc /\ \A d \in Callers \ {c} : getter'[d] = getter[d]  BY <1>2, <2>1
  <2>3. getter[c].pc = "check"  BY <1>5 DEF Check
  <2> QED  BY <2>2, <2>3 DEF Getting, InGet
<1>6. CASE CallGet(c) \/ Lock(c)
  BY <1>1, <1>6 DEF CallGet, Lock, Getting
<1>7. CASE Refresh(c) \/ GiveUp(c) \/ Launch(c)
  BY <1>1, <1>3, <1>7 DEF Refresh, GiveUp, Launch, Getting, InGet
<1>8. CASE WaitForDevtoolsPage(c) \/ Navigate(c) \/ Poll(c)
  BY <1>1, <1>3, <1>8 DEF WaitForDevtoolsPage, Navigate, Poll, Getting, InGet
<1>9. CASE Store(c) \/ OpenFile(c) \/ WriteFile(c)
  BY <1>1, <1>4, <1>9 DEF Store, OpenFile, WriteFile, Getting, InGet
<1> QED  BY <1>5, <1>6, <1>7, <1>8, <1>9 DEF InsideGet

LEMMA CallersMoveOn ==
  ASSUME Inv, OrderlyCalls, NEW c \in Callers,
         Ask(c) \/ Resolving(c) \/ Locking(c) \/ GettingCookie(c) \/ FindingCookie(c)
  PROVE  /\ Orderly(call'[c], getter'[c]) /\ MovesOn(c)
         /\ \A d \in Callers \ {c} : call'[d] = call[d] /\ getter'[d] = getter[d]
<1> USE DEF At
<1>0. GoodCalls /\ CookieInv /\ call[c] \in Call /\ getter[c] \in Getter /\ Orderly(call[c], getter[c])
  BY DEF Inv, GoodCalls, CookieInv, TtwidTypeOK, OrderlyCalls
<1>1. CASE GetCookie(c) \/ Locking(c) \/ GettingCookie(c) \/ FindingCookie(c)
  <2>1. (CallGet(c) \/ Lock(c) \/ InsideGet(c) \/ Poll(c)) /\ call' = call
    BY <1>1 DEF GetCookie, Locking, GettingCookie, FindingCookie
  <2>2. /\ Getting(getter'[c]) < Getting(getter[c])
        /\ getter[c].pc \in {"out", "lock"} \cup InGet
        /\ \A d \in Callers \ {c} : getter'[d] = getter[d]
    BY <1>0, <2>1, GetMovesOn
  <2>3. call[c].pc = "cookie"
    <3>1. CASE GetCookie(c)  BY <3>1 DEF GetCookie
    <3>2. CASE Locking(c) \/ GettingCookie(c) \/ FindingCookie(c)
      <4>1. getter[c].pc # "out"
        BY <3>2 DEF Locking, GettingCookie, FindingCookie, Lock, InsideGet, Poll, Check, Refresh, GiveUp, Launch,
                    WaitForDevtoolsPage, Navigate, Store, OpenFile, WriteFile
      <4> QED  BY <1>0, <4>1 DEF Orderly, Outside
    <3> QED  BY <1>1, <3>1, <3>2
  <2>4. getter'[c] \in Getter  BY CookieIsKept, <1>0, <2>1 DEF TtwidStep, CookieInv, TtwidTypeOK
  <2>5. Getting(getter'[c]) \in 0..11 /\ Getting(getter[c]) \in 0..11  BY <1>0, <2>4, GettingTypes
  <2>6. Ahead(call'[c], getter'[c]) < Ahead(call[c], getter[c])
    BY <2>1, <2>2, <2>3, <2>5 DEF Ahead
  <2> QED  BY <2>1, <2>2, <2>3, <2>6 DEF Orderly, MovesOn
<1>2. CASE CookieReady(c) \/ CookieFailed(c)
  <2>1. /\ getter' = [getter EXCEPT ![c] = Outside]
        /\ getter[c].pc \in {"got", "failed"} /\ call[c].pc = "cookie"
    BY <1>2 DEF CookieReady, CookieFailed, TakeCookie
  <2>2. getter'[c] = Outside /\ \A d \in Callers \ {c} : getter'[d] = getter[d]
    BY <2>1 DEF Inv, CookieInv, TtwidTypeOK
  <2>3. /\ \/ call'[c].pc = "detail" /\ call'[c].tries = 1
           \/ call'[c].pc = "page"
        /\ \A d \in Callers \ {c} : call'[d] = call[d]
    <3>1. CASE CookieReady(c)
      BY <1>0, <3>1 DEF CookieReady, GoodCalls, Call
    <3>2. CASE CookieFailed(c)
      BY <1>0, <3>2, CallGoes DEF CookieFailed, TurnsToPage, GoodCalls
    <3> QED  BY <1>2, <3>1, <3>2
  <2>4. Getting(getter[c]) = 0  BY <2>1 DEF Getting
  <2>5. Ahead(call'[c], getter'[c]) < Ahead(call[c], getter[c])
    BY <2>1, <2>3, <2>4 DEF Ahead
  <2> QED  BY <2>2, <2>3, <2>5 DEF Orderly, MovesOn
<1>3. CASE \/ Ask(c) \/ FindFresh(c) \/ Expand(c) \/ DetailFails(c) \/ DetailAnswers(c) \/ ReadPage(c)
           \/ ReadSharePage(c) \/ AnswerShell(c) \/ Save(c) \/ ReadBack(c) \/ PageFails(c) \/ CacheFails(c) \/ Leave(c)
  <2>1. UNCHANGED ttwidVars
    BY <1>3 DEF Ask, FindFresh, Expand, DetailFails, DetailAnswers, ReadPage, ReadSharePage, AnswerShell, Save,
                ReadBack, PageFails, CacheFails, Leave
  <2>2. PICK r : call' = [call EXCEPT ![c] = r]
    BY <1>3 DEF Ask, FindFresh, Expand, DetailFails, DetailAnswers, ReadPage, ReadSharePage, AnswerShell, Save,
                ReadBack, PageFails, CacheFails, Leave, Finish, AnswerRow, TurnsToPage, Finds, MakesOf, Goto
  <2>3. \A d \in Callers \ {c} : call'[d] = call[d] /\ getter'[d] = getter[d]
    BY <2>1, <2>2 DEF ttwidVars, Inv, GoodCalls
  <2> QED  BY <1>0, <1>3, <2>1, <2>3, OutsideGet
<1> QED  BY <1>1, <1>2, <1>3 DEF Resolving

LEMMA CallsMoveOn ==
  ASSUME Inv, OrderlyCalls, [Next]_vars
  PROVE  OrderlyCalls' /\ \A c \in Callers : MovesOn(c)
<1>1. ASSUME NEW c \in Callers, Ask(c) \/ Resolving(c) \/ Locking(c) \/ GettingCookie(c) \/ FindingCookie(c)
      PROVE  OrderlyCalls' /\ \A d \in Callers : MovesOn(d)
  <2>1. /\ Orderly(call'[c], getter'[c]) /\ MovesOn(c)
        /\ \A d \in Callers \ {c} : call'[d] = call[d] /\ getter'[d] = getter[d]
    BY <1>1, CallersMoveOn
  <2> QED  BY <2>1 DEF OrderlyCalls, MovesOn
<1>2. CASE Crash
  <2>1. \A c \in Callers : call'[c] = Idle /\ getter'[c] = Outside  BY <1>2 DEF Crash, TtwidCrash
  <2>2. \A c \in Callers : Ahead(call'[c], getter'[c]) = 0 /\ Orderly(call'[c], getter'[c])
    BY <2>1 DEF Ahead, Orderly, Idle
  <2>3. ASSUME NEW c \in Callers, call[c].pc # "idle" PROVE 0 < Ahead(call[c], getter[c])
    <3>1. call[c] \in Call /\ Getting(getter[c]) \in 0..11 /\ Orderly(call[c], getter[c])
      BY GettingTypes DEF Inv, GoodCalls, CookieInv, TtwidTypeOK, OrderlyCalls
    <3>2. CASE call[c].pc = "detail"  BY <3>1, <3>2 DEF Ahead, Orderly
    <3>3. CASE call[c].pc # "detail"  BY <2>3, <3>1, <3>3 DEF Ahead, Call
    <3> QED  BY <3>2, <3>3
  <2> QED  BY <2>2, <2>3 DEF OrderlyCalls, MovesOn
<1>3. CASE call' = call /\ getter' = getter
  BY <1>3 DEF OrderlyCalls, MovesOn
<1>4. RowAges \/ Ages \/ UNCHANGED vars => call' = call /\ getter' = getter
  BY DEF RowAges, Ages, CookieAges, vars, ttwidVars
<1> QED  BY <1>1, <1>2, <1>3, <1>4 DEF Next

(* A call of the resolver, forced or not, takes at most 18 steps more than *)
(* the detail API may be asked times, whatever the website, the browser    *)
(* and the other calls do, and never goes back: it makes a bounded number  *)
(* of requests, starts at most one browser, and ends if it does not stand  *)
(* still.                                                                  *)
THEOREM CallsAreFinite ==
  Spec => /\ [](\A c \in Callers : Ahead(call[c], getter[c]) \in 0..(Attempts + 18))
          /\ [][\A c \in Callers : MovesOn(c)]_vars
<1> DEFINE Within == \A c \in Callers : Ahead(call[c], getter[c]) \in 0..(Attempts + 18)
<1>1. Init => OrderlyCalls
  BY DEF Init, TtwidInit, OrderlyCalls, Orderly, Idle
<1>2. Inv /\ OrderlyCalls /\ [Next]_vars => OrderlyCalls' /\ \A c \in Callers : MovesOn(c)
  BY CallsMoveOn
<1>3. Inv /\ OrderlyCalls => Within
  BY AheadTypes DEF Inv, GoodCalls, CookieInv, TtwidTypeOK, OrderlyCalls
<1> QED  BY <1>1, <1>2, <1>3, Invariance, PTL DEF Spec

=============================================================================
