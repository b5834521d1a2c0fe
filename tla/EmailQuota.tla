------------------------------ MODULE EmailQuota ------------------------------
(***************************************************************************)
(* plugin-auto-reply's EmailVerificationDailyLimitFilter: a limit on the   *)
(* verification mails of a day, for all users together.                    *)
(*                                                                         *)
(* The day and the counter are two atomics without a lock around them.  A  *)
(* request reads the date, compares it with the counter's day, swaps the   *)
(* day, clears the counter, counts itself, and gives its count back when   *)
(* it is refused or no mail was sent; between any two of these other       *)
(* requests run, and midnight may pass.                                    *)
(*                                                                         *)
(* compareAndSet compares references, and every request brings a LocalDate *)
(* of its own: an object is known here by the number of the swap that      *)
(* stored it, so a day that was replaced and came back is another object.  *)
(*                                                                         *)
(* Names that another module has too begin with Mail here, so that one     *)
(* module can extend both.                                                 *)
(***************************************************************************)
EXTENDS Integers, FiniteSets

CONSTANTS
    Mails,        \* bound: the POSTs to the two mail paths, each sent once
    DailyLimit,   \* DAILY_LIMIT (200)
    MaxDay,       \* bound: the last day
    MaxRestarts   \* bound: how often Halo restarts

ASSUME EmailQuotaAssumption ==
    /\ IsFiniteSet(Mails)
    /\ DailyLimit \in Nat
    /\ MaxDay \in Nat /\ MaxRestarts \in Nat

VARIABLES
    today,         \* LocalDate.now(COUNTER_ZONE)
    currentDay,
    swap,          \* which object currentDay is: the number of swaps before it
    successCount,
    mail,          \* what each request is doing
    restarts,      \* restarts so far
    clearing,      \* history: how often the counter was cleared
    late,          \* history: counts given back to a counter cleared since
    opened,        \* history: the day of each object currentDay was
    back           \* history: swaps to a day before the counter's

mailHistory == <<clearing, late, opened, back>>
mailVars    == <<today, currentDay, swap, successCount, mail, restarts, mailHistory>>

Days   == 0..MaxDay
New    == [pc |-> "new"]
Gone   == [pc |-> "gone"]      \* refused, failed, or lost in a restart

MailState == {New, Gone}
            \cup [pc : {"observe"}, today : Days]
            \cup [pc : {"swap"}, today : Days, observed : Nat]
            \cup [pc : {"clear", "count"}]
            \cup [pc : {"refuse", "chain", "sent"}, clearing : Nat]

MailInit ==
    /\ today = 0 /\ currentDay = 0
    /\ swap = 0
    /\ successCount = 0
    /\ mail = [r \in Mails |-> New]
    /\ restarts = 0
    /\ clearing = 0 /\ late = 0
    /\ opened = [d \in Days |-> IF d = 0 THEN 1 ELSE 0] /\ back = 0
-------------------------------------------------------------------------------
(* rotateIfNeeded *)

Goto(r, state) == mail' = [mail EXCEPT ![r] = state]

Today(r) ==
    /\ mail[r] = New
    /\ Goto(r, [pc |-> "observe", today |-> today])
    /\ UNCHANGED <<today, currentDay, swap, successCount, restarts, mailHistory>>

Observe(r) ==
    /\ mail[r].pc = "observe"
    /\ Goto(r, IF mail[r].today = currentDay THEN [pc |-> "count"]
               ELSE [pc |-> "swap", today |-> mail[r].today, observed |-> swap])
    /\ UNCHANGED <<today, currentDay, swap, successCount, restarts, mailHistory>>

(* The swap is done, and this request will clear the counter. *)
Rotate(r) ==
    /\ currentDay' = mail[r].today
    /\ swap' = swap + 1
    /\ opened' = [opened EXCEPT ![mail[r].today] = @ + 1]
    /\ back' = back + IF mail[r].today < currentDay THEN 1 ELSE 0
    /\ Goto(r, [pc |-> "clear"])

(* Mutant: set() where the code has compareAndSet(). *)
SetDay(r) ==
    /\ mail[r].pc = "swap"
    /\ Rotate(r)
    /\ UNCHANGED <<today, successCount, restarts, clearing, late>>

CompareAndSet(r) ==
    /\ mail[r].pc = "swap"
    /\ \/ mail[r].observed = swap /\ Rotate(r)
       \/ /\ mail[r].observed # swap
          /\ Goto(r, [pc |-> "count"])
          /\ UNCHANGED <<currentDay, swap, opened, back>>
    /\ UNCHANGED <<today, successCount, restarts, clearing, late>>

Clear(r) ==
    /\ mail[r].pc = "clear"
    /\ successCount' = 0
    /\ clearing' = clearing + 1
    /\ late' = 0
    /\ Goto(r, [pc |-> "count"])
    /\ UNCHANGED <<today, currentDay, swap, restarts, opened, back>>
-------------------------------------------------------------------------------
(* filter *)

(* Mutant: the limit is compared with the count before this request. *)
OverByOne(count) == count > DailyLimit + 1

Over(count) == count > DailyLimit

(* incrementAndGet; the result decides. *)
Count(r) ==
    /\ mail[r].pc = "count"
    /\ successCount' = successCount + 1
    /\ Goto(r, [pc |-> IF Over(successCount + 1) THEN "refuse" ELSE "chain",
                clearing |-> clearing])
    /\ UNCHANGED <<today, currentDay, swap, restarts, mailHistory>>

(* Mutant: doOnSuccess and doOnError both give the count back. *)
GiveBackTwice(r) ==
    /\ successCount' = successCount - 2
    /\ late' = late + IF mail[r].clearing = clearing THEN 0 ELSE 1
    /\ Goto(r, Gone)
    /\ UNCHANGED <<today, currentDay, swap, restarts, clearing, opened, back>>

(* decrementAndGet, whatever day the counter is for by now. *)
GiveBack(r) ==
    /\ successCount' = successCount - 1
    /\ late' = late + IF mail[r].clearing = clearing THEN 0 ELSE 1
    /\ Goto(r, Gone)
    /\ UNCHANGED <<today, currentDay, swap, restarts, clearing, opened, back>>

(* The answer is 429. *)
Refuse(r) == mail[r].pc = "refuse" /\ GiveBack(r)

(* Halo's handler answers with another status than 2xx, or fails. *)
Failed(r) == mail[r].pc = "chain" /\ GiveBack(r)

(* A 2xx answer, or none, keeps the count.  So does a client that          *)
(* disconnects: neither doOnSuccess nor doOnError sees a cancelled chain.    *)
Sent(r) ==
    /\ mail[r].pc = "chain"
    /\ Goto(r, [mail[r] EXCEPT !.pc = "sent"])
    /\ UNCHANGED <<today, currentDay, swap, successCount, restarts, mailHistory>>
-------------------------------------------------------------------------------
Midnight ==
    /\ today < MaxDay
    /\ today' = today + 1
    /\ UNCHANGED <<currentDay, swap, successCount, mail, restarts, mailHistory>>

(* A new filter object; what was under way is lost. *)
Restart ==
    /\ restarts < MaxRestarts
    /\ restarts' = restarts + 1
    /\ currentDay' = today
    /\ swap' = swap + 1
    /\ successCount' = 0
    /\ clearing' = clearing + 1 /\ late' = 0
    /\ opened' = [opened EXCEPT ![today] = @ + 1]
    /\ mail' = [r \in Mails |-> IF mail[r].pc \in {"new", "sent"} THEN mail[r] ELSE Gone]
    /\ UNCHANGED <<today, back>>

MailNext ==
    \/ \E r \in Mails :
          \/ Today(r) \/ Observe(r) \/ CompareAndSet(r) \/ Clear(r)
          \/ Count(r) \/ Refuse(r) \/ Failed(r) \/ Sent(r)
    \/ Midnight
    \/ Restart

MailSpec == MailInit /\ [][MailNext]_mailVars
-------------------------------------------------------------------------------
(* Requests whose count is in the counter, and those of them let through. *)
Holding  == {r \in Mails : mail[r].pc \in {"refuse", "chain", "sent"} /\ mail[r].clearing = clearing}
Admitted == {r \in Holding : mail[r].pc # "refuse"}

MailTypeOK ==
    /\ today \in Days /\ currentDay \in Days
    /\ swap \in Nat /\ clearing \in Nat /\ late \in Nat /\ back \in Nat
    /\ successCount \in Int
    /\ mail \in [Mails -> MailState]
    /\ \A r \in Mails : mail[r].pc \in {"refuse", "chain", "sent"} => mail[r].clearing <= clearing
    /\ restarts \in 0..MaxRestarts
    /\ opened \in [Days -> Nat]

(* No increment is lost and none is given back twice: the counter is the     *)
(* requests that count since it was cleared, minus those of before that gave *)
(* their count back since, which may leave it below zero.                    *)
CountExact == successCount = Cardinality(Holding) - late

(* From one clearing to the next at most DailyLimit requests are let through  *)
(* and keep their count, and one more for each count given back late.        *)
SendLimit == Cardinality(Admitted) <= DailyLimit + late

(* A day is begun once, and once more for each request that read the date    *)
(* before midnight and came to the swap after it, and for each restart: of   *)
(* the requests that see a new day at once, one clears the counter.          *)
BegunOnce == \A d \in Days : opened[d] <= 1 + back + restarts
===============================================================================
