------------------------------ MODULE AutoReply ------------------------------
(***************************************************************************)
(* The auto-reply service: the rule store and rule engine of RuleStore and *)
(* the limiter of QuotaLimiter, joined by the handler of POST /reply.      *)
(*                                                                         *)
(* A reply request copies the rules, decides on the copy, and only when a  *)
(* rule wants an answer goes to the limiter and from there to the AI.      *)
(* Meanwhile the rules change, the clock ticks and other requests run;     *)
(* both parts read the same clock, and a restart of the service resets     *)
(* both: rules come back from the file, counters are gone.                 *)
(*                                                                         *)
(* An instance trades changes of the rules against reply requests: each    *)
(* scope says how many of either it has, and with which limits.            *)
(***************************************************************************)
EXTENDS RuleStore

CONSTANTS
    Authors,      \* see QuotaLimiter
    Settings,
    MaxTime,
    MaxRestarts,
    Scopes        \* bound: the changes, the reply requests and the limits of an instance

ASSUME AutoReplyAssumption ==
    Scopes \subseteq [changes : 0..MaxChanges, replies : SUBSET Replies, settings : SUBSET Settings]

VARIABLES
    settings, clock, dayKey, globalCount, authorCount, authorLastReq, quotaLocked,
    req, restarts, opening, stale, calls,
    scope         \* the scope of this run

Quota == INSTANCE QuotaLimiter WITH Requests <- Replies, DayLength <- Day

ASSUME LimiterAssumption == Quota!LimiterConstants

quotaVars == <<settings, clock, dayKey, globalCount, authorCount, authorLastReq, quotaLocked,
               req, restarts, opening, stale, calls>>
allVars   == <<vars, quotaVars, scope>>

(* The rule handlers: POST, DELETE and PUT. *)
ChangeRules ==
    /\ \/ \E i \in Ids, body \in Bodies : Create(i, body)
       \/ \E i \in Ids : Delete(i)
       \/ \E r \in Requests, i \in Ids, patch \in Patches : Get(r, i, patch)
       \/ \E r \in Requests : Update(r)
    /\ changes' <= scope.changes
    /\ UNCHANGED <<quotaVars, scope>>

ListRules(q) ==
    /\ q \in scope.replies
    /\ req[q] = Quota!Idle
    /\ List(q)
    /\ UNCHANGED <<quotaVars, scope>>

EvaluateRules(q) ==
    /\ \E words \in SUBSET Keywords : Evaluate(q, clock % Day, words)
    /\ UNCHANGED <<quotaVars, scope>>

(* No rule, or a template that fails, ends the request before the limiter. *)
Decide(q) ==
    /\ Leave(q)
    /\ Quota!Arrive(q)
    /\ req'[q] # Quota!Done => reply[q].rendered
    /\ UNCHANGED scope

AskAI(q) ==
    /\ Quota!Allow(q) \/ Quota!GenerateReply(q) \/ Quota!MarkQuotaExhausted(q)
    /\ UNCHANGED <<vars, scope>>

Tick == Quota!Tick /\ UNCHANGED <<vars, scope>>

RestartService == Restart /\ Quota!Restart /\ UNCHANGED scope

AutoReplyInit ==
    /\ Init
    /\ Quota!Init
    /\ scope \in Scopes
    /\ settings \in scope.settings

AutoReplyNext ==
    \/ ChangeRules
    \/ \E q \in Replies : ListRules(q) \/ EvaluateRules(q) \/ Decide(q) \/ AskAI(q)
    \/ Tick
    \/ RestartService

AutoReplySpec == AutoReplyInit /\ [][AutoReplyNext]_allVars
-------------------------------------------------------------------------------
(* A day's calls of the AI and an author's share of them, as QuotaLimiter      *)
(* states them, for the requests that the rules let through: the limits once,  *)
(* and once more for each restart and each request that set the day back.      *)
DailyLimits == Quota!DailyLimit /\ Quota!AuthorLimit

(* The same of an author's cooldown. *)
CooldownKept == Quota!CooldownKept
===============================================================================
