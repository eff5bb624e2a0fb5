------------------------------ MODULE Resolver ------------------------------
(***************************************************************************)
(* How a share link becomes a row of the table works: resolver.Service     *)
(* with its cache, the adapter Douyin, and the cookie of Ttwid.  Requests  *)
(* and workers resolve at the same time, the same work too.                *)
(*                                                                         *)
(* Each action is one statement, or one request with what is made of its   *)
(* answer.                                                                 *)
(*                                                                         *)
(* Abstractions.  What the website answers is a choice among Objects and   *)
(* Pages; of an object only what decides between the paths is kept.  Any   *)
(* request or statement may fail; a cancelled context is one more failure. *)
(* A link without work is a short link.  A link that ExtractInput refuses  *)
(* touches nothing and is left out.  Time is a choice: a row may pass the  *)
(* retention of the cache at any moment.                                   *)
(***************************************************************************)
EXTENDS Ttwid

CONSTANTS
  Works,        \* the identifiers that the website gives to works
  NoWork,
  RowIds,       \* the identifiers of rows
  NoRow,
  Objects,      \* what the detail API or a page may say of a work
  Pages,        \* share pages
  Attempts      \* maxDetailAttempts

ASSUME WorkAssumption == NoWork \notin Works

(* id: aweme_id; text: a title, an author or a cover; list: a list of      *)
(* images, usable if one of them has a URL                                 *)
Object == [id : Works \cup {NoWork}, text : BOOLEAN, video : BOOLEAN, list : BOOLEAN, usable : BOOLEAN]
NoObject == [id |-> NoWork, text |-> FALSE, video |-> FALSE, list |-> FALSE, usable |-> FALSE]

(* direct: the object that workFromRouterData finds; tree: those that      *)
(* workFromTree, which walks a map in no order, may find                   *)
Script == [direct : Object, tree : SUBSET Object]
Page == [leads : Works \cup {NoWork}, router : Script, render : Script]

ASSUME AnswerAssumption == Objects \subseteq Object /\ Pages \subseteq Page
ASSUME AttemptAssumption == Attempts \in Nat \ {0}

VARIABLES
  works,    \* the table works, by douyin_work_id
  call      \* the calls of Service.Resolve

vars == <<ttwidVars, works, call>>

-----------------------------------------------------------------------------
(* What is made of the answers *)

Content == [type : {"video", "note"}, text : BOOLEAN, video : BOOLEAN, images : BOOLEAN]
NoContent == [type |-> "video", text |-> FALSE, video |-> FALSE, images |-> FALSE]

(* parseWorkObject: a list of images makes a note of it and takes its video *)
Parsed(o) == [type   |-> IF o.list THEN "note" ELSE "video",
              text   |-> o.text,
              video  |-> o.video /\ ~o.list,
              images |-> o.list /\ o.usable]

IsEmptyShell(content) == ~content.text /\ ~content.video /\ ~content.images

Valid(o) == o.id # NoWork

FoundIn(script) == IF Valid(script.direct) THEN {script.direct} ELSE {o \in script.tree : Valid(o)}

(* A script that gives a shell, or nothing, is passed over *)
Full(script) == {o \in FoundIn(script) : ~IsEmptyShell(Parsed(o))}
PassedOver(script) == FoundIn(script) = {} \/ Full(script) # FoundIn(script)

(* scriptPatterns, in their order *)
WorksOn(page) ==
  Full(page.router)
    \cup (IF PassedOver(page.router)
          THEN Full(page.render) \cup (IF PassedOver(page.render) THEN {NoObject} ELSE {})
          ELSE {})

-----------------------------------------------------------------------------
(* State *)

(* old: written by an earlier resolver_version; fresh: within the ttl      *)
Row == [id : RowIds, content : Content, old : BOOLEAN, fresh : BOOLEAN]

ASSUME RowAssumption == NoRow \notin Row /\ NoRow \notin [id : RowIds, content : Content]

(* work: the work whose row is wanted, if known; tries: attempts of the    *)
(* detail API; object: what was found; row: the row that is answered       *)
Call == [pc     : {"idle", "find", "expand", "cookie", "detail", "page", "share", "save", "read", "done"},
         work   : Works \cup {NoWork},
         tries  : 0..Attempts,
         object : Object,
         answer : {"none", "error", "shell", "row"},
         row    : RowIds \cup {NoRow}]

Idle == [pc |-> "idle", work |-> NoWork, tries |-> 0, object |-> NoObject,
         answer |-> "none", row |-> NoRow]

TypeOK ==
  /\ TtwidTypeOK
  /\ works \in [Works -> Row \cup {NoRow}]
  /\ call \in [Callers -> Call]

Init ==
  /\ TtwidInit
  /\ works = [w \in Works |-> NoRow]
  /\ call = [c \in Callers |-> Idle]

At(c, pc) == call[c].pc = pc
Goto(c, pc) == call' = [call EXCEPT ![c].pc = pc]
Has(w) == works[w] # NoRow
Ids == {works[w].id : w \in {v \in Works : Has(v)}}

(* The call goes on with another page, or with the object that was found *)
TurnsToPage(c) == call' = [call EXCEPT ![c] = [Idle EXCEPT !.pc = "page"]]
Finds(c, o) == call' = [call EXCEPT ![c] = [Idle EXCEPT !.pc = "save", !.object = o]]

Finish(c, work, answer) == call' = [call EXCEPT ![c] = [Idle EXCEPT !.pc = "done", !.work = work, !.answer = answer]]

AnswerRow(c, work) ==
  call' = [call EXCEPT ![c] = [Idle EXCEPT !.pc = "done", !.work = work, !.answer = "row", !.row = works[work].id]]

-----------------------------------------------------------------------------
(* Service.Resolve and Douyin.Resolve *)

(* ExtractInput: the path of a link names its work, or it is a short link *)
Links == Works \cup {NoWork}

(* A link with the work in it is looked up, unless the caller forces *)
Ask(c) ==
  /\ At(c, "idle")
  /\ \E work \in Links, force \in BOOLEAN :
       call' = [call EXCEPT ![c].work = work,
                            ![c].pc = IF work = NoWork THEN "expand"
                                      ELSE IF force THEN "cookie" ELSE "find"]
  /\ UNCHANGED <<ttwidVars, works>>

FreshRow(w) == Has(w) /\ ~works[w].old /\ works[w].fresh

FindFresh(c) ==
  /\ At(c, "find")
  /\ LET work == call[c].work
     IN  IF FreshRow(work)
         THEN AnswerRow(c, work)
         ELSE Goto(c, "cookie")
  /\ UNCHANGED <<ttwidVars, works>>

(* The redirections of a short link lead to a work, or not *)
Expand(c) ==
  /\ At(c, "expand")
  /\ \/ \E work \in Works : call' = [call EXCEPT ![c].pc = "cookie", ![c].work = work]
     \/ TurnsToPage(c)
  /\ UNCHANGED <<ttwidVars, works>>

GetCookie(c) ==
  /\ At(c, "cookie")
  /\ CallGet(c)
  /\ UNCHANGED <<works, call>>

CookieReady(c) ==
  /\ At(c, "cookie")
  /\ TakeCookie(c, "got")
  /\ call' = [call EXCEPT ![c].pc = "detail", ![c].tries = 1]
  /\ UNCHANGED works

CookieFailed(c) ==
  /\ At(c, "cookie")
  /\ TakeCookie(c, "failed")
  /\ TurnsToPage(c)
  /\ UNCHANGED works

(* Mutant: the attempts are not counted right *)
DetailFailsMore(c) ==
  /\ At(c, "detail")
  /\ \/ call[c].tries <= Attempts /\ call' = [call EXCEPT ![c].tries = @ + 1]
     \/ TurnsToPage(c)
  /\ UNCHANGED <<ttwidVars, works>>

(* A detail API that does not answer, or has nothing, is asked again *)
DetailFails(c) ==
  /\ At(c, "detail")
  /\ \/ call[c].tries < Attempts /\ call' = [call EXCEPT ![c].tries = @ + 1]
     \/ TurnsToPage(c)
  /\ UNCHANGED <<ttwidVars, works>>

(* An object without an identifier is final; a shell is good enough *)
DetailAnswers(c) ==
  /\ At(c, "detail")
  /\ \E o \in Objects :
       IF Valid(o) THEN Finds(c, o) ELSE TurnsToPage(c)
  /\ UNCHANGED <<ttwidVars, works>>

(* What a page gave, or the error of not finding anything *)
MakesOf(c, o) ==
  IF Valid(o) THEN Finds(c, o) ELSE Finish(c, NoWork, "error")

(* A page that leads to a work is read only if its share page cannot be *)
ReadPage(c) ==
  /\ At(c, "page")
  /\ \E page \in Pages : \E o \in WorksOn(page) :
       IF page.leads = NoWork
       THEN MakesOf(c, o)
       ELSE call' = [call EXCEPT ![c].pc = "share", ![c].object = o]
  /\ UNCHANGED <<ttwidVars, works>>

ReadSharePage(c) ==
  /\ At(c, "share")
  /\ \E o \in (UNION {WorksOn(page) : page \in Pages}) \cup {call[c].object} : MakesOf(c, o)
  /\ UNCHANGED <<ttwidVars, works>>

(* A shell is answered as it is, without a row *)
AnswerShell(c) ==
  /\ At(c, "save")
  /\ IsEmptyShell(Parsed(call[c].object))
  /\ Finish(c, call[c].object.id, "shell")
  /\ UNCHANGED <<ttwidVars, works>>

(* auth.NewID *)
NewId == CHOOSE id \in RowIds : id \notin Ids

(* Mutant: INSERT OR REPLACE *)
Replaced(w, id, content) ==
  [works EXCEPT ![w] = [id |-> id, content |-> content, old |-> FALSE, fresh |-> TRUE]]

(* INSERT INTO works ... ON CONFLICT(douyin_work_id) DO UPDATE: the new id *)
(* is for a work that has no row                                           *)
Upserted(w, id, content) ==
  [works EXCEPT ![w] = [id |-> IF Has(w) THEN works[w].id ELSE id, content |-> content, old |-> FALSE, fresh |-> TRUE]]

(* Mutant: shells are saved too *)
SaveAnything(c) ==
  /\ At(c, "save")
  /\ RowIds \ Ids # {}
  /\ works' = Upserted(call[c].object.id, NewId, Parsed(call[c].object))
  /\ Goto(c, "read")
  /\ UNCHANGED ttwidVars

Save(c) ==
  /\ At(c, "save")
  /\ ~IsEmptyShell(Parsed(call[c].object))
  /\ RowIds \ Ids # {}
  /\ works' = Upserted(call[c].object.id, NewId, Parsed(call[c].object))
  /\ Goto(c, "read")
  /\ UNCHANGED ttwidVars

ReadBack(c) ==
  /\ At(c, "read")
  /\ LET work == call[c].object.id
     IN  IF Has(work) /\ ~works[work].old
         THEN AnswerRow(c, work)
         ELSE Finish(c, NoWork, "error")
  /\ UNCHANGED <<ttwidVars, works>>

(* SafeClient does not get the page *)
PageFails(c) ==
  /\ At(c, "page")
  /\ Finish(c, NoWork, "error")
  /\ UNCHANGED <<ttwidVars, works>>

(* A statement of the cache fails *)
CacheFails(c) ==
  /\ call[c].pc \in {"find", "save", "read"}
  /\ Finish(c, NoWork, "error")
  /\ UNCHANGED <<ttwidVars, works>>

(* The caller goes its way *)
Leave(c) ==
  /\ At(c, "done")
  /\ call' = [call EXCEPT ![c] = Idle]
  /\ UNCHANGED <<ttwidVars, works>>

-----------------------------------------------------------------------------
(* The environment *)

(* The ttl of the cache passes *)
RowAges ==
  /\ \E w \in Works : Has(w) /\ works[w].fresh /\ works' = [works EXCEPT ![w].fresh = FALSE]
  /\ UNCHANGED <<ttwidVars, call>>

Ages == CookieAges /\ UNCHANGED <<works, call>>

(* The process dies and is started again, in the same version or a later *)
(* one, which does not look at the rows of the former                    *)
Crash ==
  /\ TtwidCrash
  /\ call' = [c \in Callers |-> Idle]
  /\ \/ UNCHANGED works
     \/ works' = [w \in Works |-> IF Has(w) THEN [works[w] EXCEPT !.old = TRUE, !.fresh = FALSE] ELSE NoRow]

-----------------------------------------------------------------------------
(* The specification *)

Resolving(c) ==
  \/ FindFresh(c) \/ Expand(c) \/ GetCookie(c) \/ CookieReady(c) \/ CookieFailed(c)
  \/ DetailFails(c) \/ DetailAnswers(c) \/ ReadPage(c) \/ ReadSharePage(c)
  \/ AnswerShell(c) \/ Save(c) \/ ReadBack(c) \/ PageFails(c) \/ CacheFails(c) \/ Leave(c)

GettingCookie(c) == InsideGet(c) /\ UNCHANGED <<works, call>>

FindingCookie(c) == Poll(c) /\ UNCHANGED <<works, call>>

Locking(c) == Lock(c) /\ UNCHANGED <<works, call>>

Next ==
  \/ \E c \in Callers : Ask(c) \/ Resolving(c) \/ Locking(c) \/ GettingCookie(c) \/ FindingCookie(c)
  \/ RowAges \/ Ages \/ Crash

(* A goroutine that can go on does; sync.Mutex goes over to its waiters in *)
(* their order when one has waited for a millisecond                       *)
Fairness == \A c \in Callers : WF_vars(Resolving(c) \/ GettingCookie(c)) /\ SF_vars(Locking(c))

Spec == Init /\ [][Next]_vars

FairSpec == Spec /\ Fairness

-----------------------------------------------------------------------------
(* Properties *)

(* The row that is answered is the row of the work, whoever saved it first *)
(* and whatever happens to it until the caller has used the answer: the id *)
(* that Save draws is not the id of the row when the work had one.         *)
AnswersAreRows == \A c \in Callers :
  call[c].answer = "row" =>
    /\ Has(call[c].work)
    /\ call[c].row = works[call[c].work].id

(* Rows keep their ids and their contents: the table is what WorksTable    *)
(* promises to the jobs, with only shells kept out of it.                  *)
Table == [w \in Works |-> IF Has(w) THEN [id |-> works[w].id, content |-> works[w].content] ELSE NoRow]

Rows == INSTANCE WorksTable WITH
          Contents <- {content \in Content : ~IsEmptyShell(content)}, table <- Table

RowsArePermanent == Rows!Spec

(* Every call ends, although each waits for the calls before it: for their *)
(* browser, their requests and their statements, all of which give up.     *)
EveryCallEnds == \A c \in Callers : ~At(c, "idle") ~> At(c, "done") \/ At(c, "idle")

=============================================================================
