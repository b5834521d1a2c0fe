------------------------------- MODULE LikeSync -------------------------------
(***************************************************************************)
(* The like pipeline of comment-service for the comments of one post.      *)
(*                                                                         *)
(* A like is written three times: into Redis by a Lua script (the users    *)
(* who like a comment and their number), into Kafka as a +1/-1 event that  *)
(* the consumer adds to MySQL's like_count, and into the Redis set of      *)
(* dirty markers, from which a sync worker (the 30s ticker, or an admin    *)
(* calling sync-likes) copies the absolute Redis count over like_count.    *)
(* Every call to Redis, Kafka or MySQL is a step of its own, so requests,  *)
(* consumer and sync workers interleave between any two of them.           *)
(*                                                                         *)
(* The constant Faults names the calls that may fail in an instance; at    *)
(* most MaxFaults of them do.  MaxEvents bounds the Kafka log.             *)
(***************************************************************************)
EXTENDS Integers, Sequences, FiniteSets

CONSTANTS
    Comments,    \* comment ids of the post
    Submitted,   \* sequence of the comments whose create event is not consumed yet
    Users,       \* user identifiers (X-User-Id header or client IP)
    Requests,    \* slots for concurrent HTTP requests
    Readers,     \* those of them that may also read the hot list
    Workers,     \* concurrent runs of SyncDirtyLikes
    Batch,       \* likeSyncBatch (100)
    MaxRetry,    \* maxConsumeRetry (3)
    Faults,      \* the calls that may fail
    MaxFaults,   \* bound: how many calls fail
    MaxEvents,   \* bound: length of the Kafka log
    None         \* no row, no cache entry

FaultNames == {"lua", "abort", "publish", "duplicate", "mark", "hot", "pop", "read", "sync",
               "written", "requeue", "insert", "incr", "ack", "find", "cache", "crash", "shutdown"}

ASSUME LikeSyncAssumption ==
    /\ IsFiniteSet(Users) /\ IsFiniteSet(Requests)
    /\ Submitted \in Seq(Comments)
    /\ Batch \in Nat \ {0} /\ MaxRetry \in Nat \ {0}
    /\ MaxFaults \in Nat /\ MaxEvents \in Nat
    /\ Faults \subseteq FaultNames
    /\ None \notin Nat

VARIABLES
    users,      \* Redis like:users:<comment>, the users who like it
    cnt,        \* Redis like:count:<comment>
    dirty,      \* Redis like:sync:pending
    hot,        \* Redis hot:<post>: its members (their scores are left out)
    detail,     \* Redis detail cache: the cached like_count, or None
    row,        \* MySQL like_count, None while the comment has no row
    log,        \* Kafka partition of the post
    committed,  \* consumer group offset the running consumer began at
    fetched,    \* events the running consumer is done with
    con,        \* what the consumer is doing with event fetched + 1
    req,        \* what each request is doing
    uncached,   \* submitted comments whose SubmitComment has not reached its SetDetail
    wrk,        \* what each sync worker is doing
    faults,     \* calls that failed so far
    synced,     \* history: the last absolute count a sync wrote, or None
    lost,       \* history: comments whose marker is gone, and not marked again since
    skewed,     \* history: comments with an event lost, applied twice or ahead of its like
    stale       \* history: comments whose cached count may be old, and not cached again since

redis   == <<users, cnt, dirty>>
caches  == <<hot, detail>>
kafka   == <<log, committed>>
history == <<synced, lost, skewed, stale>>
vars    == <<redis, caches, row, kafka, fetched, con, req, uncached, wrk, faults, history>>

Unstored == {Submitted[i] : i \in DOMAIN Submitted}

Event     == [type : {"create", "like", "unlike"}, c : Comments]
ReqIdle   == [pc |-> "idle"]
WrkIdle   == [pc |-> "idle", todo |-> {}]
ConIdle   == [pc |-> "idle"]
Count     == Nat \cup {None}

ReqState == {ReqIdle}
            \cup [pc : {"publish"}, c : Comments, type : {"like", "unlike"}, u : Users]
            \cup [pc : {"mark", "find"}, c : Comments]
            \cup [pc : {"fill"}, c : Comments, val : Nat]
WrkState == [pc : {"idle", "read"}, todo : SUBSET Comments]
            \cup [pc : {"write"}, todo : SUBSET Comments, c : Comments, val : Nat]
            \cup [pc : {"invalidate"}, todo : SUBSET Comments, c : Comments]
ConState == {ConIdle}
            \cup [pc : {"insert", "invalidate", "incr", "find", "zadd"}, attempt : 1..MaxRetry]
            \cup [pc : {"setdetail"}, attempt : 1..MaxRetry, val : Nat]

TypeOK ==
    /\ users \in [Comments -> SUBSET Users]
    /\ cnt \in [Comments -> Nat]
    /\ dirty \subseteq Comments
    /\ hot \subseteq Comments
    /\ detail \in [Comments -> Count]
    /\ row \in [Comments -> Count]
    /\ log \in Seq(Event)
    /\ fetched \in 0..Len(log)
    /\ committed \in 0..fetched
    /\ con \in ConState
    /\ con.pc # "idle" => fetched < Len(log)
    /\ req \in [Requests -> ReqState]
    /\ wrk \in [Workers -> WrkState]
    /\ faults \in 0..MaxFaults
    /\ synced \in [Comments -> Count]
    /\ uncached \subseteq Unstored
    /\ lost \subseteq Comments /\ skewed \subseteq Comments /\ stale \subseteq Comments

Init ==
    /\ users = [c \in Comments |-> {}]
    /\ cnt = [c \in Comments |-> 0]
    /\ dirty = {}
    /\ hot = {}
    /\ detail = [c \in Comments |-> None]
    /\ row = [c \in Comments |-> IF c \in Unstored THEN None ELSE 0]
    /\ log = [i \in DOMAIN Submitted |-> [type |-> "create", c |-> Submitted[i]]]
    /\ fetched = 0 /\ committed = 0
    /\ con = ConIdle
    /\ req = [r \in Requests |-> ReqIdle]
    /\ wrk = [w \in Workers |-> WrkIdle]
    /\ faults = 0
    /\ synced = [c \in Comments |-> None]
    /\ uncached = Unstored
    /\ lost = {} /\ skewed = {} /\ stale = {}

(* The named call fails; Ok is the other outcome of every call. *)
Fail(call) == call \in Faults /\ faults < MaxFaults /\ faults' = faults + 1
Ok         == UNCHANGED faults

-------------------------------------------------------------------------------
(* Like and unlike requests *)

(* Requests that have changed Redis and not published yet: they may still   *)
(* append to the log, and count against its bound.                          *)
Publishing == {r \in Requests : req[r].pc = "publish"}

(* Mutant: counts every call, whether or not SADD added the user. *)
IncrLikeUnchecked(c, u) ==
    /\ users' = [users EXCEPT ![c] = @ \cup {u}]
    /\ cnt' = [cnt EXCEPT ![c] = @ + 1]

IncrLike(c, u) ==
    /\ u \notin users[c]
    /\ users' = [users EXCEPT ![c] = @ \cup {u}]
    /\ cnt' = [cnt EXCEPT ![c] = @ + 1]

(* Mutant: counts down whether or not SREM removed the user, and below zero. *)
DecrLikeUnchecked(c, u) ==
    /\ users' = [users EXCEPT ![c] = @ \ {u}]
    /\ cnt' = [cnt EXCEPT ![c] = @ - 1]

DecrLike(c, u) ==
    /\ u \in users[c]
    /\ users' = [users EXCEPT ![c] = @ \ {u}]
    /\ cnt' = [cnt EXCEPT ![c] = IF @ - 1 < 0 THEN 0 ELSE @ - 1]

(* SADD of the dirty marker; and a marker that will not be set, or is gone. *)
Mark(c) == dirty' = dirty \cup {c} /\ lost' = lost \ {c}
Lose(S) == lost' = lost \cup S

(* An event of these comments will not be applied as often as it should. *)
Skew(S) == skewed' = skewed \cup S

(* The comment whose count request r changed and which it has yet to mark.  *)
Unmarked(r) == IF req[r].pc \in {"publish", "mark"} THEN {req[r].c} ELSE {}

(* And the one whose event it has yet to publish. *)
Unpublished(r) == IF req[r].pc = "publish" THEN {req[r].c} ELSE {}

(* Like and Unlike up to the Lua script.  A script that changes nothing, or *)
(* never ran, ends the request with an error and leaves no trace; a script  *)
(* whose reply is lost ends it too, but the change stays.                   *)
React(r, c, type, u) ==
    /\ req[r] = ReqIdle
    /\ Len(log) + Cardinality(Publishing) < MaxEvents
    /\ \/ /\ Ok
          /\ req' = [req EXCEPT ![r] = [pc |-> "publish", c |-> c, type |-> type, u |-> u]]
          /\ UNCHANGED <<lost, skewed>>
       \/ /\ Fail("lua")
          /\ Lose({c}) /\ Skew({c})
          /\ UNCHANGED req
    /\ UNCHANGED <<dirty, caches, row, kafka, fetched, con, uncached, wrk, synced, stale>>

Like(r)   == \E c \in Comments, u \in Users : IncrLike(c, u) /\ React(r, c, "like", u)
Unlike(r) == \E c \in Comments, u \in Users : DecrLike(c, u) /\ React(r, c, "unlike", u)

(* The user's like of the same comment is not published yet.  Two requests  *)
(* publish in any order, so this may be the like that the unlike takes back. *)
Overtaking(r) ==
    req[r].type = "unlike" /\ \E q \in Publishing : req[q] = [req[r] EXCEPT !.type = "like"]

(* publishLikeEvent: an error is logged and the request goes on.  The       *)
(* writer's retries may append the event twice.                             *)
PublishLikeEvent(r) ==
    /\ req[r].pc = "publish"
    /\ LET e == [type |-> req[r].type, c |-> req[r].c]
       IN \/ Ok /\ log' = Append(log, e) /\ Skew(IF Overtaking(r) THEN {e.c} ELSE {})
          \/ Fail("publish") /\ UNCHANGED log /\ Skew({e.c})
          \/ Fail("duplicate") /\ log' = log \o <<e, e>> /\ Skew({e.c})
    /\ req' = [req EXCEPT ![r] = [pc |-> "mark", c |-> @.c]]
    /\ UNCHANGED <<redis, caches, row, committed, fetched, con, uncached, wrk, synced, lost, stale>>

(* updateHotScore: a comment that has a row goes into the hot list.         *)
UpdateHotScore(c) == hot' = hot \cup {d \in {c} : row[d] # None}

(* MarkDirty, and updateHotScore after it: rows are never deleted, and no    *)
(* like reads the hot list, so that its update is no step of its own.        *)
MarkDirty(r) ==
    /\ req[r].pc = "mark"
    /\ \/ Ok /\ Mark(req[r].c) /\ UpdateHotScore(req[r].c)
       \/ Fail("mark") /\ Lose({req[r].c}) /\ UNCHANGED dirty /\ UpdateHotScore(req[r].c)
       \/ Fail("hot") /\ Mark(req[r].c) /\ UNCHANGED hot
    /\ req' = [req EXCEPT ![r] = ReqIdle]
    /\ UNCHANGED <<users, cnt, detail, row, kafka, fetched, con, uncached, wrk, synced, skewed, stale>>

(* The client disconnects: the request's context is cancelled and every     *)
(* call it has left fails.                                                  *)
Disconnect(r) ==
    /\ req[r] # ReqIdle
    /\ Fail("abort")
    /\ req' = [req EXCEPT ![r] = ReqIdle]
    /\ Lose(Unmarked(r)) /\ Skew(Unpublished(r))
    /\ UNCHANGED <<redis, caches, row, kafka, fetched, con, uncached, wrk, synced, stale>>

-------------------------------------------------------------------------------
(* The detail cache *)

(* The event the consumer is busy with. *)
Current == log[fetched + 1]

(* The count MySQL has of a comment; a submitted one is cached with 0. *)
Stored(c) == IF row[c] = None THEN 0 ELSE row[c]

(* A call has read the count of c and has yet to cache it. *)
Held(c) ==
    \/ \E r \in Requests : req[r].pc = "fill" /\ req[r].c = c
    \/ con.pc = "setdetail" /\ Current.c = c
    \/ c \in uncached

(* The UPDATE of c was done by a handler that has yet to refresh the cache. *)
Refreshing(c) ==
    \/ con.pc \in {"find", "setdetail"} /\ Current.c = c
    \/ con.pc = "incr" /\ con.attempt > 1 /\ Current.c = c
    \/ \E w \in Workers : wrk[w].pc = "invalidate" /\ wrk[w].c = c

(* The cached counts of these comments are not refreshed as they should be; *)
(* an UPDATE of c overtakes the calls that hold its old count.              *)
Outdate(S)   == stale' = stale \cup S
Overtaken(c) == IF Held(c) THEN {c} ELSE {}

(* The entry of c becomes n.  That ends what made it old, unless n is itself *)
(* an old count or another call may still cache one.                         *)
CacheDetail(c, n) ==
    /\ detail' = [detail EXCEPT ![c] = n]
    /\ stale' = {d \in stale : d # c \/ n \notin {None, Stored(c)} \/ Held(d)'}

(* GetHotComments, for one member of the list: getCommentDetail finds no     *)
(* entry, or fails to look; reads the row; and caches what it read.          *)
GetDetail(r) ==
    /\ r \in Readers
    /\ req[r] = ReqIdle
    /\ \E c \in hot :
          /\ \/ Ok /\ detail[c] = None
             \/ Fail("cache")
          /\ req' = [req EXCEPT ![r] = [pc |-> "find", c |-> c]]
    /\ UNCHANGED <<redis, caches, row, kafka, fetched, con, uncached, wrk, history>>

FindDetail(r) ==
    /\ req[r].pc = "find"
    /\ \/ Ok /\ req' = [req EXCEPT ![r] = IF row[@.c] = None THEN ReqIdle
                                         ELSE [pc |-> "fill", c |-> @.c, val |-> row[@.c]]]
       \/ Fail("find") /\ req' = [req EXCEPT ![r] = ReqIdle]
    /\ UNCHANGED <<redis, caches, row, kafka, fetched, con, uncached, wrk, history>>

FillDetail(r) ==
    /\ req[r].pc = "fill"
    /\ req' = [req EXCEPT ![r] = ReqIdle]
    /\ UNCHANGED <<redis, hot, row, kafka, fetched, con, uncached, wrk, synced, lost, skewed>>
    /\ \/ Ok /\ CacheDetail(req[r].c, req[r].val)
       \/ Fail("cache") /\ UNCHANGED <<detail, stale>>

(* SubmitComment after it published: the new comment is cached as it was     *)
(* submitted, whatever its readers and its likes have done meanwhile.        *)
SetPending(c) ==
    /\ c \in uncached
    /\ uncached' = uncached \ {c}
    /\ UNCHANGED <<redis, hot, row, kafka, fetched, con, req, wrk, synced, lost, skewed>>
    /\ \/ Ok /\ CacheDetail(c, 0)
       \/ Fail("cache") /\ UNCHANGED <<detail, stale>>

ExpireDetail(c) ==
    /\ detail[c] # None
    /\ UNCHANGED <<redis, hot, row, kafka, fetched, con, req, uncached, wrk, faults, synced, lost, skewed>>
    /\ CacheDetail(c, None)

Request(r) ==
    \/ Like(r) \/ Unlike(r)
    \/ PublishLikeEvent(r) \/ MarkDirty(r)
    \/ GetDetail(r) \/ FindDetail(r) \/ FillDetail(r)
    \/ Disconnect(r)

-------------------------------------------------------------------------------
(* SyncDirtyLikes *)

(* The worker goes on with the rest of its batch. *)
Resume(todo) == IF todo = {} THEN WrkIdle ELSE [pc |-> "read", todo |-> todo]

(* Mutant: the failure is logged and the marker is not put back. *)
RequeueForgotten(c, call) == Fail(call) /\ UNCHANGED <<dirty, lost>>

(* requeueDirty: put the marker back; when that fails too it is gone.  The  *)
(* two failures have one cause and count as one.                            *)
Requeue(c, call) ==
    /\ Fail(call)
    /\ \/ Mark(c)
       \/ "requeue" \in Faults /\ Lose({c}) /\ UNCHANGED dirty

PopDirtyBatch(w) ==
    /\ wrk[w].pc = "idle"
    /\ \E S \in SUBSET dirty :
          /\ S # {}
          /\ S = dirty \/ Cardinality(S) = Batch
          /\ dirty' = dirty \ S
          /\ \/ Ok /\ wrk' = [wrk EXCEPT ![w] = Resume(S)] /\ UNCHANGED lost
             \/ Fail("pop") /\ Lose(S) /\ UNCHANGED wrk
    /\ UNCHANGED <<users, cnt, caches, row, kafka, fetched, con, req, uncached, synced, skewed, stale>>

GetLikeCount(w) ==
    /\ wrk[w].pc = "read"
    /\ \E c \in wrk[w].todo :
          LET rest == wrk[w].todo \ {c}
          IN \/ /\ Ok
                /\ wrk' = [wrk EXCEPT ![w] =
                              [pc |-> "write", todo |-> rest, c |-> c, val |-> cnt[c]]]
                /\ UNCHANGED <<dirty, lost>>
             \/ Requeue(c, "read") /\ wrk' = [wrk EXCEPT ![w] = Resume(rest)]
    /\ UNCHANGED <<users, cnt, caches, row, kafka, fetched, con, req, uncached, synced, skewed, stale>>

(* Another worker is about to write a different count of the comment in     *)
(* w's hand: whichever writes last decides, and it may hold the older count. *)
Overlapped(w) ==
    \E v \in Workers \ {w} :
        wrk[v].pc = "write" /\ wrk[v].c = wrk[w].c /\ wrk[v].val # wrk[w].val

(* An UPDATE of a comment without a row changes nothing and is no error.    *)
(* "written" is the UPDATE that took effect but reported an error.           *)
SyncLikeCount(w) ==
    /\ wrk[w].pc = "write"
    /\ LET c == wrk[w].c
           Write == /\ row' = [row EXCEPT ![c] = IF @ = None THEN None ELSE wrk[w].val]
                    /\ synced' = [synced EXCEPT ![c] = wrk[w].val]
       IN \/ /\ Ok /\ Write
             /\ wrk' = [wrk EXCEPT ![w] =
                           [pc |-> "invalidate", todo |-> @.todo, c |-> c]]
             /\ Lose(IF Overlapped(w) THEN {c} ELSE {})
             /\ Outdate(Overtaken(c))
             /\ UNCHANGED dirty
          \/ /\ Requeue(c, "sync")
             /\ wrk' = [wrk EXCEPT ![w] = Resume(@.todo)]
             /\ UNCHANGED <<row, synced, stale>>
          \/ /\ Requeue(c, "written") /\ Write
             /\ wrk' = [wrk EXCEPT ![w] = Resume(@.todo)]
             /\ Outdate({c})
    /\ UNCHANGED <<users, cnt, caches, kafka, fetched, con, req, uncached, skewed>>

InvalidateDetail(w) ==
    /\ wrk[w].pc = "invalidate"
    /\ wrk' = [wrk EXCEPT ![w] = Resume(@.todo)]
    /\ UNCHANGED <<redis, hot, row, kafka, fetched, con, req, uncached, synced, lost, skewed>>
    /\ \/ Ok /\ CacheDetail(wrk[w].c, None)
       \/ Fail("cache") /\ UNCHANGED detail /\ Outdate({wrk[w].c})

(* The comments whose marker worker w has popped and not worked off.        *)
InHand(w) == wrk[w].todo \cup (IF wrk[w].pc = "write" THEN {wrk[w].c} ELSE {})

(* An admin who called sync-likes disconnects: the context of the reads and *)
(* of the requeues that answer them is cancelled, and the batch is gone.    *)
AbortSync(w) ==
    /\ wrk[w].pc # "idle"
    /\ Fail("abort")
    /\ wrk' = [wrk EXCEPT ![w] = WrkIdle]
    /\ Lose(InHand(w))
    /\ Outdate(IF wrk[w].pc = "invalidate" THEN {wrk[w].c} ELSE {})
    /\ UNCHANGED <<redis, caches, row, kafka, fetched, con, req, uncached, synced, skewed>>

SyncDirtyLikes(w) ==
    PopDirtyBatch(w) \/ GetLikeCount(w) \/ SyncLikeCount(w) \/ InvalidateDetail(w)

-------------------------------------------------------------------------------
(* The Kafka consumer *)

Entry   == IF Current.type = "create" THEN "insert" ELSE "incr"

Fetch ==
    /\ con = ConIdle /\ fetched < Len(log)
    /\ con' = [pc |-> Entry, attempt |-> 1]
    /\ UNCHANGED <<redis, caches, row, kafka, fetched, req, uncached, wrk, faults, history>>

(* CommitMessages hands the offset to a background commit.  Only a restart  *)
(* sees how far that has come, and chooses it.                              *)
Done == con' = ConIdle /\ fetched' = fetched + 1

(* Mutant: a failing event is tried again for ever. *)
RetryForever == con' = [pc |-> Entry, attempt |-> 1] /\ UNCHANGED fetched

(* handleWithRetry: the whole handler again, and after MaxRetry attempts    *)
(* the event is dropped.                                                    *)
Retry ==
    \/ /\ con.attempt < MaxRetry
       /\ con' = [pc |-> Entry, attempt |-> con.attempt + 1]
       /\ UNCHANGED fetched
    \/ con.attempt = MaxRetry /\ Done

(* The named call of a handler fails.  An outage that outlasts an attempt is   *)
(* one failure.                                                               *)
FailAttempt(call) ==
    Fail(call) \/ (call \in Faults /\ faults > 0 /\ con.attempt > 1 /\ Ok)

(* The event's comment, if this attempt was the last; or if another follows. *)
IfDropped  == IF con.attempt = MaxRetry THEN {Current.c} ELSE {}
IfRepeated == {Current.c} \ IfDropped

(* onCreate: a row that exists already is a duplicate key error. *)
OnCreateInsert ==
    /\ con.pc = "insert"
    /\ \/ /\ Ok /\ row[Current.c] = None
          /\ row' = [row EXCEPT ![Current.c] = 0]
          /\ con' = [con EXCEPT !.pc = "invalidate"]
          /\ UNCHANGED <<fetched, skewed>>
       \/ row[Current.c] # None /\ Ok /\ Retry /\ UNCHANGED <<row, skewed>>
       \/ FailAttempt("insert") /\ Retry /\ UNCHANGED row
          /\ Skew(IfDropped \ {c \in Comments : row[c] # None})
    /\ UNCHANGED <<redis, caches, kafka, req, uncached, wrk, synced, lost, stale>>

OnCreateInvalidate ==
    /\ con.pc = "invalidate"
    /\ Done
    /\ UNCHANGED <<redis, hot, row, kafka, req, uncached, wrk, synced, lost, skewed>>
    /\ \/ Ok /\ CacheDetail(Current.c, None)
       \/ Fail("cache") /\ UNCHANGED <<detail, stale>>

(* like_count = GREATEST(0, like_count + delta) *)
IncrLikeCount(n, delta) ==
    IF n = None THEN None ELSE IF n + delta < 0 THEN 0 ELSE n + delta

(* Mutant: an unlike is handled as a like. *)
DeltaAlwaysUp(e) == 1

Delta(e) == IF e.type = "like" THEN 1 ELSE -1

(* onLikeDelta, first statement.  "ack" is the UPDATE that took effect but  *)
(* reported an error: the retry applies it again.                           *)
OnLikeIncr ==
    /\ con.pc = "incr"
    /\ LET updated == [row EXCEPT ![Current.c] = IncrLikeCount(@, Delta(Current))]
       IN \/ /\ Ok /\ row' = updated /\ Outdate(Overtaken(Current.c))
             /\ con' = [con EXCEPT !.pc = "find"] /\ UNCHANGED <<fetched, skewed>>
          \/ /\ FailAttempt("incr") /\ Retry
             /\ UNCHANGED row /\ Outdate(IfDropped) /\ Skew(IfDropped)
          \/ /\ FailAttempt("ack") /\ Retry
             /\ row' = updated /\ Outdate(IfDropped \cup Overtaken(Current.c)) /\ Skew(IfRepeated)
    /\ UNCHANGED <<redis, caches, kafka, req, uncached, wrk, synced, lost>>

(* onLikeDelta, FindByCommentID: its error retries the increment as well.   *)
OnLikeFind ==
    /\ con.pc = "find"
    /\ \/ /\ Ok /\ row[Current.c] # None
          /\ con' = [pc |-> "setdetail", attempt |-> con.attempt, val |-> row[Current.c]]
          /\ UNCHANGED <<fetched, skewed, stale>>
       \/ Ok /\ row[Current.c] = None /\ Done /\ UNCHANGED <<skewed, stale>>
       \/ FailAttempt("find") /\ Retry /\ Outdate(IfDropped) /\ Skew(IfRepeated)
    /\ UNCHANGED <<redis, caches, row, kafka, req, uncached, wrk, synced, lost>>

(* Mutant: SETNX, which keeps an entry that is there. *)
OnLikeSetDetailIfAbsent ==
    /\ con.pc = "setdetail"
    /\ con' = [pc |-> "zadd", attempt |-> con.attempt]
    /\ UNCHANGED <<redis, hot, row, kafka, fetched, req, uncached, wrk, synced, lost, skewed>>
    /\ Ok
    /\ IF detail[Current.c] = None THEN CacheDetail(Current.c, con.val) ELSE UNCHANGED <<detail, stale>>

OnLikeSetDetail ==
    /\ con.pc = "setdetail"
    /\ con' = [pc |-> "zadd", attempt |-> con.attempt]
    /\ UNCHANGED <<redis, hot, row, kafka, fetched, req, uncached, wrk, synced, lost, skewed>>
    /\ \/ Ok /\ CacheDetail(Current.c, con.val)
       \/ Fail("cache") /\ UNCHANGED detail /\ Outdate({Current.c})

OnLikeUpdateScore ==
    /\ con.pc = "zadd"
    /\ \/ Ok /\ hot' = hot \cup {Current.c}
       \/ Fail("cache") /\ UNCHANGED hot
    /\ Done
    /\ UNCHANGED <<redis, detail, row, kafka, req, uncached, wrk, history>>

Consume ==
    \/ Fetch
    \/ OnCreateInsert \/ OnCreateInvalidate
    \/ OnLikeIncr \/ OnLikeFind \/ OnLikeSetDetail \/ OnLikeUpdateScore

-------------------------------------------------------------------------------
(* The process stops and starts again *)

(* The log up to fetched is applied, and event fetched + 1 once its UPDATE   *)
(* is done.  What the new process gets again, or does not get at all.        *)
Redone(offset) ==
    {log[i].c : i \in {j \in offset + 1 .. fetched : log[j].type # "create"}}
Cut(offset) ==
    IF con = ConIdle THEN {}
    ELSE IF con.pc \in {"find", "setdetail", "zadd"} THEN IF offset <= fetched THEN {Current.c} ELSE {}
    ELSE IF offset > fetched THEN {Current.c} \ (IF con.pc = "incr" THEN {} ELSE {c \in Comments : row[c] # None})
    ELSE {}

Restart ==
    /\ req' = [r \in Requests |-> ReqIdle]
    /\ uncached' = {}
    /\ wrk' = [w \in Workers |-> WrkIdle]
    /\ con' = ConIdle
    /\ fetched' = committed'
    /\ Lose((UNION {Unmarked(r) : r \in Requests}) \cup (UNION {InHand(w) : w \in Workers}))
    /\ Skew((UNION {Unpublished(r) : r \in Requests}) \cup Redone(committed') \cup Cut(committed'))
    /\ Outdate({c \in Comments : Refreshing(c)})
    /\ UNCHANGED <<redis, caches, row, log, synced>>

(* The offsets the background commit may have stored. *)
Flushed == committed..fetched

Crash == Fail("crash") /\ committed' \in Flushed /\ Restart

(* SIGTERM: the HTTP server finishes its requests, then the consumer's and  *)
(* the worker's contexts are cancelled.  The event in hand fails its        *)
(* attempts and may still be committed; the worker's remaining reads and    *)
(* the requeues that answer them fail, so its markers are gone.             *)
Shutdown ==
    /\ (\A r \in Requests : req[r] = ReqIdle) /\ uncached = {}
    /\ Fail("shutdown")
    /\ committed' \in Flushed \cup (IF con = ConIdle THEN {} ELSE {fetched + 1})
    /\ Restart

-------------------------------------------------------------------------------
(* No like is under way and nothing is waiting; readers may come and go. *)
Quiet ==
    /\ \A r \in Requests : req[r].pc \notin {"publish", "mark"}
    /\ \A w \in Workers : wrk[w].pc = "idle"
    /\ dirty = {} \/ Workers = {}
    /\ con = ConIdle /\ fetched = Len(log)

Next ==
    \/ \E r \in Requests : Request(r)
    \/ \E w \in Workers : SyncDirtyLikes(w) \/ AbortSync(w)
    \/ Consume
    \/ Crash \/ Shutdown
    \/ \E c \in Comments : SetPending(c) \/ ExpireDetail(c)

Spec == Init /\ [][Next]_vars

(* A handler that started runs to its end, the ticker starts a sync every   *)
(* 30s, and the consumer's loop never stops fetching: as long as one of them *)
(* has something to do, one of them does it.                                 *)
Work ==
    \/ Consume
    \/ \E w \in Workers : SyncDirtyLikes(w)
    \/ \E r \in Requests : PublishLikeEvent(r) \/ MarkDirty(r)

Fairness == WF_vars(Work)

FairSpec == Spec /\ Fairness

-------------------------------------------------------------------------------
(* Properties *)

(* The Lua scripts keep like:count equal to the size of like:users, under   *)
(* any interleaving and any failure outside the script; so DecrLike's clamp *)
(* at zero never hides a count that went wrong.                             *)
CountMatchesUsers == \A c \in Comments : cnt[c] = Cardinality(users[c])

(* The count a sync has seen to: that of a new comment is 0. *)
Seen(c) == IF synced[c] = None THEN 0 ELSE synced[c]

(* A request has changed the count of c and has yet to mark c dirty. *)
Marking(c) == \E r \in Requests : req[r].pc \in {"publish", "mark"} /\ req[r].c = c

(* A sync will read the count of c again. *)
Marked(c) ==
    \/ c \in dirty
    \/ Marking(c)
    \/ \E w \in Workers : wrk[w].pc # "idle" /\ c \in wrk[w].todo

(* No like is forgotten by the sync: Like marks the comment after it changed *)
(* the count, SyncDirtyLikes pops the marker before it reads the count, and  *)
(* requeueDirty puts it back on an error.  So a count that differs from the  *)
(* last one a sync wrote is marked, or is the one being written.  The        *)
(* exceptions are the calls that lose a marker (a failed Lua reply, SADD,    *)
(* SPOP or requeue, a cancelled caller, a stop of the process) and two       *)
(* workers writing different counts of one comment; they last until its next *)
(* like.                                                                     *)
NoLostMarker ==
    \A c \in Comments \ lost :
        \/ Seen(c) = cnt[c]
        \/ Marked(c)
        \/ \E w \in Workers : wrk[w].pc = "write" /\ wrk[w].c = c /\ wrk[w].val = cnt[c]

(* Likes minus unlikes of c whose event MySQL has not applied. *)
Unapplied(c) ==
    LET In(type) ==
          Cardinality({i \in fetched + 1 .. Len(log) :
                          /\ log[i] = [type |-> type, c |-> c]
                          /\ i = fetched + 1 => con.pc \in {"idle", "incr"}})
          + Cardinality({r \in Publishing : req[r].type = type /\ req[r].c = c})
    IN In("like") - In("unlike")

(* Until a sync writes, the events alone keep MySQL right: a count is the    *)
(* row plus what is under way, and GREATEST(0, ...) never cuts.  The          *)
(* exceptions are the failures of which the handler makes an event too few    *)
(* or too many: a lost or doubled publication, an event given up before its   *)
(* UPDATE, an attempt repeated after it, a restart between the UPDATE and the *)
(* commit; and, with no failure, an unlike published while a like of the same *)
(* user waits in another request: GREATEST may swallow it.  A comment inserted *)
(* twice, an event given up after its UPDATE, every failing cache and requests *)
(* of different users in any order are none.                                   *)
DeltaExact ==
    \A c \in Comments \ skewed :
        synced[c] = None => cnt[c] = Stored(c) + Unapplied(c)

(* Every UPDATE of a count is followed to the detail cache: the cached count *)
(* is MySQL's, except while a handler is between its UPDATE and the call that *)
(* refreshes the entry.  The exceptions are recorded by their cause, and last *)
(* until the entry is written, deleted or expires with nobody left to write   *)
(* an older count: an UPDATE while getCommentDetail, SubmitComment or the      *)
(* consumer holds the count it is about to cache, and a refresh that a failure, *)
(* the last retry or a restart left out.                                        *)
DetailFresh ==
    \A c \in Comments \ stale : detail[c] \in {None, Stored(c)} \/ Refreshing(c)

(* Every request, event and marker is eventually worked off, whatever fails:  *)
(* bounded retries keep a bad event from blocking the partition, and a        *)
(* requeued marker is picked up again.                                        *)
Drains == []<>Quiet

(* What the troubleshooting guide promises of a sync: when it has run and     *)
(* nothing is left to do, MySQL shows the Redis count.  The code does not     *)
(* keep it: the absolute count already includes a like whose event the        *)
(* consumer still adds.                                                       *)
SyncRepairsCount == Quiet => \A c \in Comments : row[c] \in {None, cnt[c]}
===============================================================================
