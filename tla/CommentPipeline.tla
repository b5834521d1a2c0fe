---------------------------- MODULE CommentPipeline ----------------------------
(***************************************************************************)
(* The life of the comments of one post in comment-service: submission and *)
(* moderation as Kafka events, the consumer that applies them to MySQL, and *)
(* the Redis caches (first page, total, detail, hot list) between MySQL    *)
(* and the readers.                                                        *)
(*                                                                         *)
(* Every call to Kafka, MySQL or Redis is a step of its own.  A comment is *)
(* reduced to its status; like counts are the subject of LikeSync, but the *)
(* like handlers are here too, because they write the detail cache and the *)
(* hot list.  The cached pages of the post are one entry: they are written *)
(* and deleted alike.  A cache whose read fails is asked in vain, a query  *)
(* that fails ends the request.                                            *)
(***************************************************************************)
EXTENDS Integers, Sequences, FiniteSets

CONSTANTS
    Comments,    \* comment ids
    Requests,    \* slots for concurrent HTTP requests
    MaxRetry,    \* maxConsumeRetry (3)
    Faults,      \* the calls that may fail
    MaxFaults,   \* bound: how many calls fail
    MaxEvents,   \* bound: length of the Kafka log
    None         \* no row, no cache entry

FaultNames == {"publish", "duplicate", "ghost", "insert", "update", "written", "incr", "query",
               "cache", "crash", "shutdown"}

ASSUME PipelineAssumption ==
    /\ IsFiniteSet(Comments)
    /\ MaxRetry \in Nat \ {0}
    /\ MaxFaults \in Nat /\ MaxEvents \in Nat
    /\ Faults \subseteq FaultNames
    /\ None \notin {"pending", "approved", "rejected"} /\ None \notin Nat

VARIABLES
    row,        \* MySQL: the status of each comment, or None
    detail,     \* Redis detail cache: a status, or None
    hot,        \* Redis hot list: its members
    page,       \* Redis page cache: what a page shows and its total, or NoPage
    count,      \* Redis count cache: the post's total, or None
    log,        \* Kafka partition of the post
    committed,  \* consumer group offset the running consumer began at
    fetched,    \* events the running consumer is done with
    con,        \* what the consumer is doing with event fetched + 1
    req,        \* what each request is doing
    faults,     \* calls that failed so far
    missed      \* history: the events given up before they reached MySQL

caches == <<detail, hot, page, count>>
kafka  == <<log, committed>>
vars   == <<row, caches, kafka, fetched, con, req, faults, missed>>

Status == {"pending", "approved", "rejected"}
NoPage == [cached |-> FALSE]
Page   == {NoPage} \cup [cached : {TRUE}, shown : SUBSET Comments, total : Nat]
Event  == [type : {"create", "like"}, c : Comments]
          \cup [type : {"update_status"}, c : Comments, status : {"approved", "rejected"}]
Idle   == [pc |-> "idle"]

ReqState ==
    {Idle}
    \cup [pc : {"setpending", "hotread", "hotwrite"}, c : Comments]
    \cup [pc : {"listquery"}]
    \cup [pc : {"getcount", "countquery"}, shown : SUBSET Comments]
    \cup [pc : {"setcount", "setpage"}, shown : SUBSET Comments, total : Nat]
    \cup [pc : {"hot"}, todo : SUBSET Comments]
    \cup [pc : {"find"}, todo : SUBSET Comments, c : Comments]
    \cup [pc : {"fill"}, todo : SUBSET Comments, c : Comments, status : Status]

ConState ==
    {Idle}
    \cup [pc : {"insert", "update", "incr", "invpage", "invcount", "invdetail", "zrem", "find"},
          attempt : 1..MaxRetry]
    \cup [pc : {"setdetail", "zadd"}, attempt : 1..MaxRetry, status : Status]

TypeOK ==
    /\ row \in [Comments -> Status \cup {None}]
    /\ detail \in [Comments -> Status \cup {None}]
    /\ hot \subseteq Comments
    /\ page \in Page
    /\ count \in Nat \cup {None}
    /\ log \in Seq(Event)
    /\ fetched \in 0..Len(log)
    /\ committed \in 0..fetched
    /\ con \in ConState
    /\ con # Idle => fetched < Len(log)
    /\ req \in [Requests -> ReqState]
    /\ faults \in 0..MaxFaults
    /\ missed \subseteq 1..Len(log)

Init ==
    /\ row = [c \in Comments |-> None]
    /\ detail = [c \in Comments |-> None]
    /\ hot = {} /\ page = NoPage /\ count = None
    /\ log = <<>> /\ committed = 0 /\ fetched = 0
    /\ con = Idle
    /\ req = [r \in Requests |-> Idle]
    /\ faults = 0
    /\ missed = {}

Fail(call) == call \in Faults /\ faults < MaxFaults /\ faults' = faults + 1
Ok         == UNCHANGED faults

(* Redis accepts a cache write or deletion, or the failure is only logged. *)
Write(cache, new, old) ==
    \/ Ok /\ cache = new
    \/ Fail("cache") /\ cache = old

(* The cache has no entry, or reading the one it has fails. *)
Misses(empty) == IF empty THEN Ok ELSE Fail("cache")

-------------------------------------------------------------------------------
(* Requests *)

Published(c) == \E i \in DOMAIN log : log[i] = [type |-> "create", c |-> c]

(* Publish writes the event, or twice when the writer retries. *)
Publish(e) ==
    /\ Len(log) < MaxEvents
    /\ \/ Ok /\ log' = Append(log, e)
       \/ Fail("duplicate") /\ log' = log \o <<e, e>>

(* SubmitComment under a fresh id.  Publish may fail with the event lost, or *)
(* with the event written although the client is told otherwise.             *)
Submit(r) ==
    /\ req[r] = Idle
    /\ \E c \in Comments :
          LET e == [type |-> "create", c |-> c]
          IN /\ ~Published(c)
             /\ \/ Publish(e) /\ req' = [req EXCEPT ![r] = [pc |-> "setpending", c |-> c]]
                \/ /\ Len(log) < MaxEvents
                   /\ Fail("ghost") /\ log' = Append(log, e) /\ UNCHANGED req
    /\ UNCHANGED <<row, caches, committed, fetched, con, missed>>

(* The pending comment is cached after it was published. *)
SetPending(r) ==
    /\ req[r].pc = "setpending"
    /\ Write(detail', [detail EXCEPT ![req[r].c] = "pending"], detail)
    /\ req' = [req EXCEPT ![r] = Idle]
    /\ UNCHANGED <<row, hot, page, count, kafka, fetched, con, missed>>

(* Approve and Reject: the admin handler only publishes.  That is one step    *)
(* and takes no slot: admins decide whatever the other requests are doing.    *)
UpdateStatus ==
    /\ \E c \in Comments, status \in {"approved", "rejected"} :
          /\ Published(c)
          /\ Publish([type |-> "update_status", c |-> c, status |-> status])
    /\ UNCHANGED <<row, caches, committed, fetched, con, req, missed>>

(* Like and Unlike: an event that failed to be published is no obstacle to   *)
(* updateHotScore.                                                           *)
Like(r) ==
    /\ req[r] = Idle
    /\ \E c \in Comments :
          /\ Published(c)
          /\ Publish([type |-> "like", c |-> c]) \/ (Fail("publish") /\ UNCHANGED log)
          /\ req' = [req EXCEPT ![r] = [pc |-> "hotread", c |-> c]]
    /\ UNCHANGED <<row, caches, committed, fetched, con, missed>>

HotRead(r) ==
    /\ req[r].pc = "hotread"
    /\ \/ Ok /\ row[req[r].c] # None /\ req' = [req EXCEPT ![r] = [pc |-> "hotwrite", c |-> @.c]]
       \/ Ok /\ row[req[r].c] = None /\ req' = [req EXCEPT ![r] = Idle]
       \/ Fail("query") /\ req' = [req EXCEPT ![r] = Idle]
    /\ UNCHANGED <<row, caches, kafka, fetched, con, missed>>

HotWrite(r) ==
    /\ req[r].pc = "hotwrite"
    /\ Write(hot', hot \cup {req[r].c}, hot)
    /\ req' = [req EXCEPT ![r] = Idle]
    /\ UNCHANGED <<row, detail, page, count, kafka, fetched, con, missed>>

(* Mutant: the query forgets "status = 1". *)
ApprovedUnfiltered == {c \in Comments : row[c] # None}

Approved == {c \in Comments : row[c] = "approved"}

(* ListComments after a miss in the page cache: the page is read from MySQL,  *)
(* the total from the count cache or from MySQL, and both are cached.         *)
ListComments(r) ==
    /\ req[r] = Idle
    /\ Misses(page = NoPage)
    /\ req' = [req EXCEPT ![r] = [pc |-> "listquery"]]
    /\ UNCHANGED <<row, caches, kafka, fetched, con, missed>>

FindByPostID(r) ==
    /\ req[r].pc = "listquery"
    /\ \/ Ok /\ req' = [req EXCEPT ![r] = [pc |-> "getcount", shown |-> Approved]]
       \/ Fail("query") /\ req' = [req EXCEPT ![r] = Idle]
    /\ UNCHANGED <<row, caches, kafka, fetched, con, missed>>

GetCount(r) ==
    /\ req[r].pc = "getcount"
    /\ \/ /\ Ok /\ count # None
          /\ req' = [req EXCEPT ![r] = [pc |-> "setpage", shown |-> @.shown, total |-> count]]
       \/ /\ Misses(count = None)
          /\ req' = [req EXCEPT ![r] = [pc |-> "countquery", shown |-> @.shown]]
    /\ UNCHANGED <<row, caches, kafka, fetched, con, missed>>

CountByPostID(r) ==
    /\ req[r].pc = "countquery"
    /\ \/ /\ Ok
          /\ req' = [req EXCEPT ![r] = [pc |-> "setcount", shown |-> @.shown,
                                        total |-> Cardinality(Approved)]]
       \/ Fail("query") /\ req' = [req EXCEPT ![r] = Idle]
    /\ UNCHANGED <<row, caches, kafka, fetched, con, missed>>

SetCount(r) ==
    /\ req[r].pc = "setcount"
    /\ Write(count', req[r].total, count)
    /\ req' = [req EXCEPT ![r] = [pc |-> "setpage", shown |-> @.shown, total |-> @.total]]
    /\ UNCHANGED <<row, detail, hot, page, kafka, fetched, con, missed>>

SetPage(r) ==
    /\ req[r].pc = "setpage"
    /\ Write(page', [cached |-> TRUE, shown |-> req[r].shown, total |-> req[r].total], page)
    /\ req' = [req EXCEPT ![r] = Idle]
    /\ UNCHANGED <<row, detail, hot, count, kafka, fetched, con, missed>>

(* GetHotComments: the members of the hot list, then getCommentDetail of each *)
(* in turn.  Only approved ones are returned.                                 *)
NextHot(todo) == IF todo = {} THEN Idle ELSE [pc |-> "hot", todo |-> todo]

GetHotComments(r) ==
    /\ req[r] = Idle
    /\ hot # {}
    /\ req' = [req EXCEPT ![r] = NextHot(hot)]
    /\ UNCHANGED <<row, caches, kafka, fetched, con, faults, missed>>

GetDetail(r) ==
    /\ req[r].pc = "hot"
    /\ \E c \in req[r].todo :
          LET rest == req[r].todo \ {c}
          IN \/ Ok /\ detail[c] # None /\ req' = [req EXCEPT ![r] = NextHot(rest)]
             \/ /\ Misses(detail[c] = None)
                /\ req' = [req EXCEPT ![r] = [pc |-> "find", todo |-> rest, c |-> c]]
    /\ UNCHANGED <<row, caches, kafka, fetched, con, missed>>

FindDetail(r) ==
    /\ req[r].pc = "find"
    /\ \/ /\ Ok /\ row[req[r].c] # None
          /\ req' = [req EXCEPT ![r] = [pc |-> "fill", todo |-> @.todo, c |-> @.c,
                                        status |-> row[@.c]]]
       \/ Ok /\ row[req[r].c] = None /\ req' = [req EXCEPT ![r] = NextHot(@.todo)]
       \/ Fail("query") /\ req' = [req EXCEPT ![r] = NextHot(@.todo)]
    /\ UNCHANGED <<row, caches, kafka, fetched, con, missed>>

FillDetail(r) ==
    /\ req[r].pc = "fill"
    /\ Write(detail', [detail EXCEPT ![req[r].c] = req[r].status], detail)
    /\ req' = [req EXCEPT ![r] = NextHot(@.todo)]
    /\ UNCHANGED <<row, hot, page, count, kafka, fetched, con, missed>>

Start(r) == Submit(r) \/ UpdateStatus \/ Like(r) \/ ListComments(r) \/ GetHotComments(r)

Continue(r) ==
    \/ SetPending(r) \/ HotRead(r) \/ HotWrite(r)
    \/ FindByPostID(r) \/ GetCount(r) \/ CountByPostID(r) \/ SetCount(r) \/ SetPage(r)
    \/ GetDetail(r) \/ FindDetail(r) \/ FillDetail(r)

-------------------------------------------------------------------------------
(* The Kafka consumer *)

Current == log[fetched + 1]

Entry == CASE Current.type = "create"        -> "insert"
           [] Current.type = "update_status" -> "update"
           [] Current.type = "like"          -> "incr"

At(pc, attempt) == [pc |-> pc, attempt |-> attempt]

Fetch ==
    /\ con = Idle /\ fetched < Len(log)
    /\ con' = At(Entry, 1)
    /\ UNCHANGED <<row, caches, kafka, fetched, req, faults, missed>>

Goto(pc) == con' = At(pc, con.attempt) /\ UNCHANGED fetched
Done     == con' = Idle /\ fetched' = fetched + 1

(* Event fetched + 1 has not reached MySQL, in this delivery or an earlier one. *)
Unapplied ==
    \/ con.pc = "update" /\ row[Current.c] # Current.status
    \/ con.pc = "insert" /\ row[Current.c] = None

GiveUp  == missed' = IF Unapplied THEN missed \cup {fetched + 1} ELSE missed
Applied == missed' = missed \ {fetched + 1}

(* Mutant: one attempt more than MaxRetry. *)
RetryOnceMore ==
    \/ /\ con.attempt <= MaxRetry
       /\ con' = At(Entry, con.attempt + 1)
       /\ UNCHANGED <<fetched, missed>>
    \/ con.attempt > MaxRetry /\ Done /\ GiveUp

(* Mutant: the first failure drops the event. *)
RetryNever == Done /\ UNCHANGED missed

(* Mutant: a failing event is tried again for ever. *)
RetryForever == con' = At(Entry, 1) /\ UNCHANGED <<fetched, missed>>

(* handleWithRetry: the handler again, and after MaxRetry attempts the event  *)
(* is dropped.                                                                *)
Retry ==
    \/ /\ con.attempt < MaxRetry
       /\ con' = At(Entry, con.attempt + 1)
       /\ UNCHANGED <<fetched, missed>>
    \/ con.attempt = MaxRetry /\ Done /\ GiveUp

(* The same after a statement that took effect although its answer was lost. *)
RetryWritten ==
    /\ Applied
    /\ \/ con.attempt < MaxRetry /\ con' = At(Entry, con.attempt + 1) /\ UNCHANGED fetched
       \/ con.attempt = MaxRetry /\ Done

(* onCreate.  comment_id is unique: a row that exists is an error. *)
Insert ==
    /\ con.pc = "insert"
    /\ \/ /\ row[Current.c] = None
          /\ row' = [row EXCEPT ![Current.c] = "pending"]
          /\ (Ok /\ Goto("invpage") /\ Applied) \/ (Fail("written") /\ RetryWritten)
       \/ Ok /\ row[Current.c] # None /\ Retry /\ UNCHANGED row
       \/ Fail("insert") /\ Retry /\ UNCHANGED row
    /\ UNCHANGED <<caches, kafka, req>>

(* onStatusUpdate.  The UPDATE of a missing row is no error. *)
ApplyStatus ==
    /\ con.pc = "update"
    /\ \/ /\ row' = [row EXCEPT ![Current.c] = IF @ = None THEN None ELSE Current.status]
          /\ (Ok /\ Goto("invpage") /\ Applied) \/ (Fail("written") /\ RetryWritten)
       \/ Fail("update") /\ Retry /\ UNCHANGED row
    /\ UNCHANGED <<caches, kafka, req>>

(* InvalidatePost and InvalidateDetail *)
InvalidatePages ==
    /\ con.pc = "invpage"
    /\ Write(page', NoPage, page)
    /\ Goto("invcount")
    /\ UNCHANGED <<row, detail, hot, count, kafka, req, missed>>

InvalidateCount ==
    /\ con.pc = "invcount"
    /\ Write(count', None, count)
    /\ Goto("invdetail")
    /\ UNCHANGED <<row, detail, hot, page, kafka, req, missed>>

InvalidateDetail ==
    /\ con.pc = "invdetail"
    /\ Write(detail', [detail EXCEPT ![Current.c] = None], detail)
    /\ IF Current.type = "update_status" /\ Current.status # "approved"
       THEN Goto("zrem")
       ELSE Done
    /\ UNCHANGED <<row, hot, page, count, kafka, req, missed>>

RemoveMember ==
    /\ con.pc = "zrem"
    /\ Write(hot', hot \ {Current.c}, hot)
    /\ Done
    /\ UNCHANGED <<row, detail, page, count, kafka, req, missed>>

(* onLikeDelta: the count itself is in LikeSync. *)
IncrLikeCount ==
    /\ con.pc = "incr"
    /\ \/ Ok /\ Goto("find") /\ UNCHANGED missed
       \/ Fail("incr") /\ Retry
    /\ UNCHANGED <<row, caches, kafka, req>>

FindLiked ==
    /\ con.pc = "find"
    /\ \/ /\ Ok /\ row[Current.c] # None
          /\ con' = [pc |-> "setdetail", attempt |-> con.attempt, status |-> row[Current.c]]
          /\ UNCHANGED <<fetched, missed>>
       \/ Ok /\ row[Current.c] = None /\ Done /\ UNCHANGED missed
       \/ Fail("query") /\ Retry
    /\ UNCHANGED <<row, caches, kafka, req>>

SetLikedDetail ==
    /\ con.pc = "setdetail"
    /\ Write(detail', [detail EXCEPT ![Current.c] = con.status], detail)
    /\ con' = [con EXCEPT !.pc = "zadd"]
    /\ UNCHANGED <<row, hot, page, count, kafka, fetched, req, missed>>

UpdateScore ==
    /\ con.pc = "zadd"
    /\ Write(hot', hot \cup {Current.c}, hot)
    /\ Done
    /\ UNCHANGED <<row, detail, page, count, kafka, req, missed>>

Consume ==
    \/ Fetch
    \/ Insert \/ ApplyStatus \/ InvalidatePages \/ InvalidateCount \/ InvalidateDetail
    \/ RemoveMember
    \/ IncrLikeCount \/ FindLiked \/ SetLikedDetail \/ UpdateScore

-------------------------------------------------------------------------------
(* Restarts and expiry *)

Restart ==
    /\ req' = [r \in Requests |-> Idle]
    /\ con' = Idle
    /\ fetched' = committed'
    /\ UNCHANGED <<row, caches, log>>

(* The offsets the background commit may have stored. *)
Flushed == committed..fetched

Crash == Fail("crash") /\ committed' \in Flushed /\ UNCHANGED missed /\ Restart

(* SIGTERM lets the requests finish, then cancels the consumer: the event in  *)
(* hand fails its attempts and may be committed all the same.                 *)
Shutdown ==
    /\ \A r \in Requests : req[r] = Idle
    /\ Fail("shutdown")
    /\ \/ committed' \in Flushed /\ UNCHANGED missed
       \/ con # Idle /\ committed' = fetched + 1 /\ GiveUp
    /\ Restart

(* Mutants: keys set without a TTL. *)
ExpireDetailNever(c) == FALSE
ExpirePageNever == FALSE

ExpireDetail(c) ==
    /\ detail[c] # None
    /\ detail' = [detail EXCEPT ![c] = None]
    /\ UNCHANGED <<row, hot, page, count, kafka, fetched, con, req, faults, missed>>

ExpirePage ==
    /\ page # NoPage
    /\ page' = NoPage
    /\ UNCHANGED <<row, detail, hot, count, kafka, fetched, con, req, faults, missed>>

ExpireCount ==
    /\ count # None
    /\ count' = None
    /\ UNCHANGED <<row, detail, hot, page, kafka, fetched, con, req, faults, missed>>

Next ==
    \/ \E r \in Requests : Start(r) \/ Continue(r)
    \/ Consume
    \/ Crash \/ Shutdown
    \/ \E c \in Comments : ExpireDetail(c)
    \/ ExpirePage \/ ExpireCount

Spec == Init /\ [][Next]_vars

(* A handler that started runs to its end, the consumer's loop never stops,   *)
(* and Redis expires its keys (30s for a page, 5m for a detail).              *)
Fairness ==
    /\ \A r \in Requests : WF_vars(Continue(r))
    /\ WF_vars(Consume)
    /\ \A c \in Comments : WF_vars(ExpireDetail(c))
    /\ WF_vars(ExpirePage)

FairSpec == Spec /\ Fairness

-------------------------------------------------------------------------------
(* Properties *)

ApprovedOnce(c) ==
    \E i \in DOMAIN log : log[i] = [type |-> "update_status", c |-> c, status |-> "approved"]

(* No reader sees a comment that no admin ever approved: not in a page, in    *)
(* the detail behind the hot list, or in what a request is about to cache or  *)
(* return, and no total counts it.  It relates every store and every reader   *)
(* to the log.                                                                *)
NothingUnapproved ==
    LET approved == {c \in Comments : ApprovedOnce(c)}
    IN /\ \A c \in Comments \ approved : row[c] # "approved" /\ detail[c] # "approved"
       /\ count # None => count <= Cardinality(approved)
       /\ page # NoPage => page.shown \subseteq approved /\ page.total <= Cardinality(approved)
       /\ \A r \in Requests :
             /\ req[r].pc \in {"getcount", "countquery", "setcount", "setpage"} =>
                   req[r].shown \subseteq approved
             /\ req[r].pc \in {"setcount", "setpage"} => req[r].total <= Cardinality(approved)
             /\ req[r].pc = "fill" /\ req[r].status = "approved" => req[r].c \in approved

(* The status the log gives to c, but for the events given up. *)
LogStatus(c) ==
    LET kept    == DOMAIN log \ missed
        updates == {i \in kept : log[i].type = "update_status" /\ log[i].c = c}
    IN IF ~ \E i \in kept : log[i] = [type |-> "create", c |-> c] THEN None
       ELSE IF updates = {} THEN "pending"
       ELSE log[CHOOSE i \in updates : \A j \in updates : j <= i].status

CaughtUp == con = Idle /\ fetched = Len(log)

(* Once the consumer has caught up, MySQL holds for every comment the status  *)
(* its last event gave it, except that an event is missing whose attempts all *)
(* failed or that was in hand at a SIGTERM.  Duplicated events, redelivery     *)
(* after a crash and failures that the retries outlast do not show.           *)
RowFollowsLog == CaughtUp => \A c \in Comments : row[c] = LogStatus(c)

Shown(c) == (page # NoPage /\ c \in page.shown) \/ (c \in hot /\ detail[c] = "approved")

(* A rejected comment does not stay visible: whatever stale fill put it back   *)
(* into a cache, it is gone from the pages and the hot list in the end.        *)
RejectHides == \A c \in Comments : (row[c] = "rejected") ~> (row[c] # "rejected" \/ ~Shown(c))

(* A comment that stays approved is shown in the end and stays shown: no page *)
(* without it and no detail that calls it pending or rejected survives, even  *)
(* when a fill that read MySQL before the approval, or SubmitComment's late   *)
(* SetDetail, wrote after the consumer's invalidation.                        *)
ApproveShows ==
    \A c \in Comments :
        <>[](row[c] = "approved") =>
            <>[]((page # NoPage => c \in page.shown) /\ detail[c] \in {None, "approved"})

(* The consumer catches up with the log: an event that keeps failing is        *)
(* dropped, never a block for the events behind it.                            *)
CatchesUp == []<>CaughtUp
===============================================================================
