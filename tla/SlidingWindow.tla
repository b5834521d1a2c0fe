----------------------------- MODULE SlidingWindow -----------------------------
(***************************************************************************)
(* The rate limit of comment-service's comment routes: the sliding window  *)
(* Redis keeps per client IP and, for a submitted comment, per author, and *)
(* the middleware that asks for both.                                      *)
(*                                                                         *)
(* A request reads its own clock and then has Redis run the Lua script     *)
(* with that stamp, so the scripts of concurrent requests may run out of   *)
(* the order of their stamps.  An entry of the sorted set is named by its  *)
(* stamp and a random number; two entries with the same name are one.      *)
(***************************************************************************)
EXTENDS Integers, FiniteSets

CONSTANTS
    Requests,     \* bound: the requests of an instance, each sent once
    IPs,          \* keys rate:ip:<ip>
    Authors,      \* keys rate:user:<author>
    Limit,        \* requests per window, by key
    Window,       \* window in ticks, by key
    RandomValues, \* what math.random returns
    MaxTime,      \* bound: the last tick
    MaxFaults,    \* bound: how many calls of Redis fail
    None          \* no author: the request submits no comment

Keys  == IPs \cup Authors
Ticks == 0..MaxTime

ASSUME SlidingWindowAssumption ==
    /\ IPs \cap Authors = {}
    /\ Limit \in [Keys -> Nat \ {0}] /\ Window \in [Keys -> Nat \ {0}]
    /\ RandomValues # {}
    /\ MaxTime \in Nat /\ MaxFaults \in Nat
    /\ None \notin Authors

VARIABLES
    clock,
    zset,      \* entries of each key
    expires,   \* when Redis drops each key
    req,       \* what each request is doing
    faults,    \* calls of Redis that failed so far
    admitted,  \* history: the calls each key allowed, whether the answer came or not
    collided   \* history: how many of them took the name of another entry

redis   == <<zset, expires>>
history == <<admitted, collided>>
vars    == <<clock, redis, req, faults, history>>

Entry    == [score : Ticks, rnd : RandomValues]
Grant    == [r : Requests, stamp : Ticks, prompt : BOOLEAN, lost : 0..MaxFaults]
ReqState == [pc : {"new", "passed", "rejected"}]
            \cup [pc : {"ip"}, key : IPs, author : Authors \cup {None}, stamp : Ticks]
            \cup [pc : {"author"}, author : Authors]
            \cup [pc : {"user"}, key : Authors, author : Authors, stamp : Ticks]

Idle      == [pc |-> "new"]
Passed    == [pc |-> "passed"]
Rejected  == [pc |-> "rejected"]
Go(r, s)  == req' = [req EXCEPT ![r] = s]
-----------------------------------------------------------------------------
(* The Lua script *)

Live(key) == IF clock >= expires[key] THEN {} ELSE zset[key]

\* ZREMRANGEBYSCORE, up to and including the start of the window.
Kept(key, stamp) == {e \in Live(key) : e.score > stamp - Window[key]}

(* Mutant: the limit itself is let through. *)
RoomForOneMore(key, kept) == Cardinality(kept) <= Limit[key]

Room(key, kept) == Cardinality(kept) < Limit[key]

(* Mutant: a refused call is entered too and counts against the next. *)
EnterAll(key, kept, entry, granted) == kept \cup {entry}

Enter(key, kept, entry, granted) == IF granted THEN kept \cup {entry} ELSE kept

\* One run of the script for request r, which goes on to next or to refusal;
\* lost is the number of the failure that loses the answer, 0 if it comes.
Script(r, next, refusal, lost) ==
    LET key     == req[r].key
        stamp   == req[r].stamp
        kept    == Kept(key, stamp)
        granted == Room(key, kept)
    IN /\ \E rnd \in RandomValues :
             LET entry == [score |-> stamp, rnd |-> rnd]
             IN /\ zset' = [zset EXCEPT ![key] = Enter(key, kept, entry, granted)]
                /\ collided' = [collided EXCEPT
                                   ![key] = @ + IF granted /\ entry \in kept THEN 1 ELSE 0]
       /\ expires' = [expires EXCEPT ![key] = clock + Window[key]]
       /\ IF granted
          THEN /\ admitted' = [admitted EXCEPT ![key] =
                     @ \cup {[r |-> r, stamp |-> stamp, prompt |-> stamp = clock,
                             lost |-> lost]}]
               /\ Go(r, next)
          ELSE /\ UNCHANGED admitted
               /\ Go(r, refusal)
       /\ UNCHANGED clock
-----------------------------------------------------------------------------
(* The middleware *)

\* SlidingWindowLimiter.Allow reads the clock before it calls Redis.
Arrive(r) ==
    /\ req[r] = Idle
    /\ \E ip \in IPs, a \in Authors \cup {None} :
          Go(r, [pc |-> "ip", key |-> ip, author |-> a, stamp |-> clock])
    /\ UNCHANGED <<clock, redis, faults, history>>

CheckIP(r) ==
    /\ req[r].pc = "ip"
    /\ Script(r, IF req[r].author = None THEN Passed
                 ELSE [pc |-> "author", author |-> req[r].author], Rejected, 0)
    /\ UNCHANGED faults

StampAuthor(r) ==
    /\ req[r].pc = "author"
    /\ Go(r, [pc |-> "user", key |-> req[r].author, author |-> req[r].author, stamp |-> clock])
    /\ UNCHANGED <<clock, redis, faults, history>>

CheckAuthor(r) ==
    /\ req[r].pc = "user"
    /\ Script(r, Passed, Rejected, 0)
    /\ UNCHANGED faults

\* Either check fails: the request passes, the other key is not asked.
FailOpen(r) ==
    /\ req[r].pc \in {"ip", "user"}
    /\ faults < MaxFaults
    /\ faults' = faults + 1
    /\ Go(r, Passed)
    /\ UNCHANGED <<clock, redis, history>>

\* The script runs and its answer is lost: go-redis sends the call again, with
\* the stamp it has, or gives up, and the request passes.
LoseAnswer(r) ==
    /\ req[r].pc \in {"ip", "user"}
    /\ faults < MaxFaults
    /\ faults' = faults + 1
    /\ \E state \in {req[r], Passed} : Script(r, state, state, faults + 1)

Tick ==
    /\ clock < MaxTime
    /\ clock' = clock + 1
    /\ UNCHANGED <<redis, req, faults, history>>

Init ==
    /\ clock = 0
    /\ zset = [k \in Keys |-> {}]
    /\ expires = [k \in Keys |-> 0]
    /\ req = [r \in Requests |-> Idle]
    /\ faults = 0
    /\ admitted = [k \in Keys |-> {}]
    /\ collided = [k \in Keys |-> 0]

Next ==
    \/ \E r \in Requests :
          Arrive(r) \/ CheckIP(r) \/ StampAuthor(r) \/ CheckAuthor(r)
          \/ FailOpen(r) \/ LoseAnswer(r)
    \/ Tick

Spec == Init /\ [][Next]_vars
-----------------------------------------------------------------------------
\* Every variable has its type, and no key holds more entries than its limit.
TypeOK ==
    /\ clock \in Ticks
    /\ zset \in [Keys -> SUBSET Entry]
    /\ \A k \in Keys : Cardinality(zset[k]) <= Limit[k]
    /\ expires \in [Keys -> Nat]
    /\ req \in [Requests -> ReqState]
    /\ faults \in 0..MaxFaults
    /\ admitted \in [Keys -> SUBSET Grant]
    /\ collided \in [Keys -> Nat]

InWindow(calls, key, t) == {x \in calls : t - Window[key] < x.stamp /\ x.stamp <= t}
Prompt(key)             == {x \in admitted[key] : x.prompt}

\* In every window, not only those that end at a call, a key admits its limit
\* and one more for each call that took the name of another entry.  Calls whose
\* script ran a tick or more after their stamp are not counted: one that comes
\* after a later call's pruning, or after the key expired, may be one too many.
WindowLimit ==
    \A k \in Keys, t \in Ticks :
        Cardinality(InWindow(Prompt(k), k, t)) <= Limit[k] + collided[k]

\* A call is refused only against calls the script admitted: those that were
\* refused do not prolong the wait.  (One of them may be the call's own earlier
\* try, whose answer was lost.)
DeniedOnlyWhenFull ==
    [][\A r \in Requests :
          req'[r].pc = "rejected" /\ req[r].pc # "rejected" =>
              LET key == req[r].key
              IN Cardinality({x \in admitted[key] : x.stamp > req[r].stamp - Window[key]})
                    >= Limit[key]]_vars
===============================================================================
