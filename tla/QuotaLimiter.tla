----------------------------- MODULE QuotaLimiter -----------------------------
(***************************************************************************)
(* auto-reply's POST /reply around its QuotaLimiter: the limits on calls   *)
(* to the AI per day, per author and day, and per author's cooldown.       *)
(*                                                                         *)
(* A request reads the clock before it takes the limiter's lock, calls the *)
(* AI after it released it, and takes it once more when the AI says its    *)
(* quota is used up; so requests overtake one another, also at midnight,   *)
(* where the first request of a new day clears every counter.  All of it   *)
(* lives in memory and a restart of the service forgets it.                *)
(*                                                                         *)
(* Time is in ticks, DayLength of them to a day.  Authors are the          *)
(* limiter's normalized author keys.                                       *)
(***************************************************************************)
EXTENDS Integers, FiniteSets

CONSTANTS
    Requests,     \* bound: the requests of an instance, each sent once
    Authors,
    Settings,     \* what the environment may say of the three limits
    DayLength,
    MaxTime,      \* bound: the last tick
    MaxRestarts,  \* bound: how often the service restarts
    None          \* no day yet, no call of the author yet

LimiterConstants ==
    /\ IsFiniteSet(Requests)
    /\ Settings \subseteq [global : Nat, author : Nat, cooldown : Nat]
    /\ DayLength \in Nat \ {0}
    /\ MaxTime \in Nat /\ MaxRestarts \in Nat
    /\ None \notin Nat

VARIABLES
    settings,       \* the limits the service runs with
    clock,
    dayKey,         \* the day the counters are for
    globalCount,
    authorCount,
    authorLastReq,
    quotaLocked,
    req,            \* what each request is doing
    restarts,       \* restarts so far
    opening,        \* history: how often the counters were cleared
    stale,          \* history: requests that set the counters back to an earlier day
    calls           \* history: the calls the limiter allowed

limiter == <<dayKey, globalCount, authorCount, authorLastReq, quotaLocked>>
history == <<opening, stale, calls>>
vars    == <<settings, clock, limiter, req, restarts, history>>

DailyGlobalLimit == settings.global    \* AUTO_REPLY_DAILY_CALL_LIMIT (300), 0 for none
DailyPerAuthor   == settings.author    \* AUTO_REPLY_DAILY_AUTHOR_LIMIT (20), 0 for none
AuthorCooldown   == settings.cooldown  \* AUTO_REPLY_AUTHOR_COOLDOWN_SECONDS (60), in ticks

Ticks    == 0..MaxTime
DayOf(t)   == t \div DayLength
Upto(n)  == IF n > 0 THEN 0..n ELSE Nat
Call     == [r : Requests, author : Authors, stamp : Ticks, opening : Nat]
ReqState == [pc : {"new", "done"}]
            \cup [pc : {"lock"}, author : Authors, stamp : Ticks]
            \cup [pc : {"ai", "mark"}]

Idle == [pc |-> "new"]
Done == [pc |-> "done"]

\* A limit of 0 is no limit, a cooldown of 0 no cooldown.
\* Mutant: one call more than the limit.
HasGlobalRoomForOneMore(g) == DailyGlobalLimit > 0 => g <= DailyGlobalLimit

HasGlobalRoom(g) == DailyGlobalLimit > 0 => g < DailyGlobalLimit
HasAuthorRoom(n) == DailyPerAuthor > 0 => n < DailyPerAuthor

\* Mutant: a request whose stamp is before the author's last call has cooled down.
CooledOffBeforeToo(last, stamp) ==
    AuthorCooldown > 0 /\ last # None => (stamp - last >= AuthorCooldown \/ stamp < last)

CooledOff(last, stamp) ==
    AuthorCooldown > 0 /\ last # None => stamp - last >= AuthorCooldown
-----------------------------------------------------------------------------
\* Reply: no rule wants an answer, the comment is too long, or the request
\* reads the clock and waits for the lock.
Arrive(r) ==
    /\ req[r] = Idle
    /\ \/ req' = [req EXCEPT ![r] = Done]
       \/ \E a \in Authors :
             req' = [req EXCEPT ![r] = [pc |-> "lock", author |-> a, stamp |-> clock]]
    /\ UNCHANGED <<settings, clock, limiter, restarts, history>>

\* The counters once resetIfNeeded has seen the request's day.
Reset(day)  == dayKey # day
Global(day) == IF Reset(day) THEN 0 ELSE globalCount
Author(day) == IF Reset(day) THEN [a \in Authors |-> 0] ELSE authorCount
LastReq(day) == IF Reset(day) THEN [a \in Authors |-> None] ELSE authorLastReq
Locked(day) == ~Reset(day) /\ quotaLocked

Allows(author, stamp) ==
    LET day == DayOf(stamp)
    IN /\ ~Locked(day)
       /\ CooledOff(LastReq(day)[author], stamp)
       /\ HasGlobalRoom(Global(day))
       /\ HasAuthorRoom(Author(day)[author])

\* Allow, from the lock on.
Allow(r) ==
    /\ req[r].pc = "lock"
    /\ LET author == req[r].author
           stamp  == req[r].stamp
           day    == DayOf(stamp)
           yes    == Allows(author, stamp)
           one    == IF yes THEN 1 ELSE 0
       IN /\ dayKey' = day
          /\ quotaLocked' = Locked(day)
          /\ globalCount' = Global(day) + one
          /\ authorCount' = [Author(day) EXCEPT ![author] = @ + one]
          /\ authorLastReq' = [LastReq(day) EXCEPT ![author] = IF yes THEN stamp ELSE @]
          /\ req' = [req EXCEPT ![r] = [pc |-> IF yes THEN "ai" ELSE "done"]]
          /\ opening' = opening + IF Reset(day) THEN 1 ELSE 0
          /\ stale' = stale + IF dayKey # None /\ day < dayKey THEN 1 ELSE 0
          /\ calls' = IF yes THEN calls \cup {[r |-> r, author |-> author, stamp |-> stamp,
                                               opening |-> opening']}
                      ELSE calls
    /\ UNCHANGED <<settings, clock, restarts>>

\* GenerateReply: a text, an error, or an answer taken for "quota exceeded".
GenerateReply(r) ==
    /\ req[r].pc = "ai"
    /\ \E pc \in {"done", "mark"} : req' = [req EXCEPT ![r] = [pc |-> pc]]
    /\ UNCHANGED <<settings, clock, limiter, restarts, history>>

\* The lock is set for whatever day the counters are for by now.
MarkQuotaExhausted(r) ==
    /\ req[r].pc = "mark"
    /\ quotaLocked' = TRUE
    /\ req' = [req EXCEPT ![r] = Done]
    /\ UNCHANGED <<settings, clock, dayKey, globalCount, authorCount, authorLastReq, restarts, history>>

Tick ==
    /\ clock < MaxTime
    /\ clock' = clock + 1
    /\ UNCHANGED <<settings, limiter, req, restarts, history>>

\* The container is restarted: requests in flight are gone, so is the memory.
Restart ==
    /\ restarts < MaxRestarts
    /\ restarts' = restarts + 1
    /\ dayKey' = None
    /\ globalCount' = 0
    /\ authorCount' = [a \in Authors |-> 0]
    /\ authorLastReq' = [a \in Authors |-> None]
    /\ quotaLocked' = FALSE
    /\ req' = [r \in Requests |-> IF req[r] = Idle THEN Idle ELSE Done]
    /\ UNCHANGED <<settings, clock, history>>

Init ==
    /\ settings \in Settings
    /\ clock = 0
    /\ dayKey = None
    /\ globalCount = 0
    /\ authorCount = [a \in Authors |-> 0]
    /\ authorLastReq = [a \in Authors |-> None]
    /\ quotaLocked = FALSE
    /\ req = [r \in Requests |-> Idle]
    /\ restarts = 0
    /\ opening = 0 /\ stale = 0 /\ calls = {}

Next ==
    \/ \E r \in Requests : Arrive(r) \/ Allow(r) \/ GenerateReply(r) \/ MarkQuotaExhausted(r)
    \/ Tick
    \/ Restart

Spec == Init /\ [][Next]_vars
-----------------------------------------------------------------------------
\* Every variable has its type, and the counters stay within their limits.
TypeOK ==
    /\ settings \in Settings
    /\ clock \in Ticks
    /\ dayKey \in Nat \cup {None}
    /\ globalCount \in Upto(DailyGlobalLimit)
    /\ authorCount \in [Authors -> Upto(DailyPerAuthor)]
    /\ authorLastReq \in [Authors -> Ticks \cup {None}]
    /\ quotaLocked \in BOOLEAN
    /\ req \in [Requests -> ReqState]
    /\ restarts \in 0..MaxRestarts
    /\ opening \in Nat /\ stale \in Nat
    /\ calls \subseteq Call

CallsOn(day)          == {x \in calls : DayOf(x.stamp) = day}
CallsBy(author, day)  == {x \in CallsOn(day) : x.author = author}
Days                  == {DayOf(t) : t \in Ticks}

\* What the limiter really promises of a day: its limit once, and once more
\* for each restart and each request that came to the lock after a request of
\* a later day, because these are what clears the day's counters again.
DailyLimit ==
    DailyGlobalLimit > 0 =>
        \A day \in Days : Cardinality(CallsOn(day)) <= DailyGlobalLimit * (1 + restarts + stale)

\* The same of one author.
AuthorLimit ==
    DailyPerAuthor > 0 =>
        \A day \in Days, author \in Authors :
            Cardinality(CallsBy(author, day)) <= DailyPerAuthor * (1 + restarts + stale)

\* Between two clearings, any two calls of an author are a cooldown apart,
\* in whatever order their requests came to the lock.
CooldownKept ==
    \A x, y \in calls :
        x.r # y.r /\ x.author = y.author /\ x.opening = y.opening =>
            x.stamp - y.stamp >= AuthorCooldown \/ y.stamp - x.stamp >= AuthorCooldown
===============================================================================
