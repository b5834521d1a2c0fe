---------------------------- MODULE ServerMonitor ----------------------------
(***************************************************************************)
(* server-monitor: a collector that samples the machine, a worker that     *)
(* evaluates the alert rules on each sample and reports to a webhook, and  *)
(* the HTTP API that changes the rules, in memory and in a file.           *)
(*                                                                         *)
(* Collector and worker share a channel of one slot, in which a newer      *)
(* sample replaces an older one; so while the worker waits for a slow      *)
(* webhook samples get lost.                                               *)
(*                                                                         *)
(* The code only ever looks at differences of sample times.  So time is    *)
(* relative here, in units of the collection interval: a sample carries    *)
(* its distance from the last one the worker took, and every age stops     *)
(* growing where no comparison tells it from a greater one.  Metric,       *)
(* operator and threshold of a rule are one condition, and a sample is the *)
(* set of conditions it meets.                                             *)
(***************************************************************************)
EXTENDS Integers, FiniteSets

CONSTANTS
    Names,         \* rule names
    Conditions,    \* conditions on metrics the monitor has
    NoMetric,      \* a condition on a metric it has not: validateRule accepts it
    Durations,     \* of duration_minutes
    Cooldown,      \* ALERT_COOLDOWN_MINUTES
    DefaultRules,  \* the rules at first
    MaxChanges,    \* bound: how often the API changes the rules
    Faults,        \* what may fail
    MaxFaults,     \* bound: how many times
    None           \* no rule of that name, nothing in the slot, no age

FaultNames == {"webhook", "save", "restart"}

Rule    == [cond : Conditions \cup {NoMetric}, duration : Durations]
RuleSet == {rs \in [Names -> Rule \cup {None}] : \E n \in Names : rs[n] # None}

ASSUME ServerMonitorAssumption ==
    /\ Durations \subseteq Nat /\ \E d \in Durations : \A e \in Durations : e <= d
    /\ Cooldown \in Nat \ {0}
    /\ NoMetric \notin Conditions
    /\ DefaultRules \in RuleSet
    /\ MaxChanges \in Nat /\ MaxFaults \in Nat
    /\ Faults \subseteq FaultNames
    /\ None \notin Rule /\ None \notin Nat

VARIABLES
    rules,    \* Engine.rules by name
    state,    \* Engine.states by name
    file,     \* the rules in the file
    slot,     \* SystemCollector.updates
    hand,     \* the sample the worker took and has not evaluated yet
    outbox,   \* events of the last evaluation the worker has still to send
    changes,  \* changes of the rules so far
    faults,   \* failures so far
    met,      \* history: the conditions the newest sample meets
    told,     \* history: the last event of a rule the webhook received
    quiet,    \* history: time since a rule was last announced
    lost      \* history: rules of which a message or the state was lost

engine  == <<rules, state>>
worker  == <<hand, outbox>>
history == <<met, told, quiet, lost>>
vars    == <<engine, file, slot, worker, changes, faults, history>>

Longest    == CHOOSE d \in Durations : \A e \in Durations : e <= d
Least(a, b) == IF a <= b THEN a ELSE b

\* A longer gap ends every duration and the cooldown as well.
MaxGap    == IF Longest > Cooldown THEN Longest ELSE Cooldown
Sample    == [gap : 1..MaxGap, met : SUBSET Conditions]
Event     == [name : Names, type : {"firing", "resolved"}]
\* age: time since conditionStart, None without hasCondition.
\* cool: time since lastFiredAt, Cooldown when it is zero.
RuleState == [age : 0..Longest \cup {None}, firing : BOOLEAN, notified : BOOLEAN,
              cool : 0..Cooldown]
Fresh     == [age |-> None, firing |-> FALSE, notified |-> FALSE, cool |-> Cooldown]

Fail(what) == what \in Faults /\ faults < MaxFaults /\ faults' = faults + 1
-----------------------------------------------------------------------------
(* Collector *)

\* publish drops the sample that is in the way.
Collect ==
    /\ \E m \in SUBSET Conditions :
          /\ met' = m
          /\ slot' = [gap |-> IF slot = None THEN 1 ELSE Least(slot.gap + 1, MaxGap), met |-> m]
    /\ UNCHANGED <<engine, file, worker, changes, faults, told, quiet, lost>>
-----------------------------------------------------------------------------
(* Worker *)

Take ==
    /\ hand = None /\ outbox = {} /\ slot # None
    /\ hand' = slot
    /\ slot' = None
    /\ UNCHANGED <<engine, file, outbox, changes, faults, history>>

Later(age)  == IF age = None THEN None ELSE Least(age + hand.gap, Longest)
Cooler(n)   == Least(state[n].cool + hand.gap, Cooldown)
Known(n)    == rules[n] # None /\ rules[n].cond # NoMetric
Meets(n)    == Known(n) /\ rules[n].cond \in hand.met

\* The age of n's condition when it is met.
Age(n)      == IF state[n].age = None THEN 0 ELSE Later(state[n].age)
Fires(n)    == Meets(n) /\ (state[n].firing \/ Age(n) >= rules[n].duration)

\* Mutant: the cooldown is not looked at.
AnnouncesHot(n) == Fires(n) /\ ~state[n].notified

\* Mutant: an alert is announced when it starts to fire or not at all.
AnnouncesAtStart(n) == Fires(n) /\ ~state[n].firing /\ Cooler(n) = Cooldown

\* A firing alert that the cooldown holds back is announced when it is over.
Announces(n) == Fires(n) /\ ~state[n].notified /\ Cooler(n) = Cooldown

\* Mutant: the flag outlives the alert.
NotifiedKept(n) == state[n].notified \/ Announces(n)

Notified(n) == Fires(n) /\ (state[n].notified \/ Announces(n))

\* Mutant: the cooldown holds back the end of an alert, too.
ResolvesCool(n) == Known(n) /\ ~Meets(n) /\ state[n].firing /\ Cooler(n) = Cooldown

\* The end is told whether or not the alert was announced.
Resolves(n) == Known(n) /\ ~Meets(n) /\ state[n].firing

\* What Evaluate makes of n's state; a rule on an unknown metric is skipped.
Evaluated(n) ==
    IF Known(n)
    THEN [age |-> IF Meets(n) THEN Age(n) ELSE None,
          firing |-> Fires(n),
          notified |-> Notified(n),
          cool |-> IF Announces(n) THEN 0 ELSE Cooler(n)]
    ELSE [state[n] EXCEPT !.age = Later(@), !.cool = Cooler(n)]

Evaluate ==
    /\ hand # None
    /\ state' = [n \in Names |-> IF rules[n] = None THEN state[n] ELSE Evaluated(n)]
    /\ outbox' = {[name |-> n, type |-> "firing"] : n \in {m \in Names : Announces(m)}}
                 \cup {[name |-> n, type |-> "resolved"] : n \in {m \in Names : Resolves(m)}}
    /\ hand' = None
    /\ quiet' = [n \in Names |-> IF Announces(n) THEN 0 ELSE Least(quiet[n] + hand.gap, Cooldown)]
    /\ UNCHANGED <<rules, file, slot, changes, faults, met, told, lost>>

\* Notify: three attempts or 15s, and a failure is only logged.  What a failed
\* call sent may have arrived.  The attempts are one outcome: the worker sends
\* one event after the other, so an attempt whose answer was lost is followed by
\* the same words once more, and told is what it was.
Notify(e) ==
    /\ e \in outbox
    /\ outbox' = outbox \ {e}
    /\ \/ told' = [told EXCEPT ![e.name] = e.type] /\ UNCHANGED <<faults, lost>>
       \/ Fail("webhook") /\ lost' = lost \cup {e.name} /\ told' \in {told, [told EXCEPT ![e.name] = e.type]}
    /\ UNCHANGED <<engine, file, slot, hand, changes, met, quiet>>
-----------------------------------------------------------------------------
(* API *)

\* Mutant: a change of the rules starts every rule anew.
RebuiltAnew(new) == [n \in Names |-> Fresh]

\* rebuildStateLocked: a rule that keeps its name keeps its state.
Rebuilt(new) == [n \in Names |-> IF rules[n] # None /\ new[n] # None THEN state[n] ELSE Fresh]

\* Memory changes first and stays changed when the file cannot be saved.
Change(new) ==
    /\ changes < MaxChanges
    /\ changes' = changes + 1
    /\ rules' = new
    /\ state' = Rebuilt(new)
    /\ lost' = lost \cup {n \in Names : rules[n] # None /\ new[n] = None}
    /\ \/ file' = new /\ UNCHANGED faults
       \/ Fail("save") /\ UNCHANGED file
    /\ UNCHANGED <<slot, worker, met, told, quiet>>

UpsertRule(n, rule) == Change([rules EXCEPT ![n] = rule])
ReplaceRules(new)   == Change(new)

\* The container restarts with the rules of the file.
Restart ==
    /\ Fail("restart")
    /\ rules' = file
    /\ state' = [n \in Names |-> Fresh]
    /\ slot' = None /\ hand' = None /\ outbox' = {}
    /\ lost' = Names
    /\ UNCHANGED <<file, changes, met, told, quiet>>

Init ==
    /\ rules = DefaultRules /\ file = DefaultRules
    /\ state = [n \in Names |-> Fresh]
    /\ slot = None /\ hand = None /\ outbox = {}
    /\ changes = 0 /\ faults = 0
    /\ met = {}
    /\ told = [n \in Names |-> "resolved"]
    /\ quiet = [n \in Names |-> Cooldown]
    /\ lost = {}

Next ==
    \/ Collect
    \/ Take \/ Evaluate
    \/ \E e \in outbox : Notify(e)
    \/ \E n \in Names, rule \in Rule : UpsertRule(n, rule)
    \/ \E new \in RuleSet : ReplaceRules(new)
    \/ Restart

Spec == Init /\ [][Next]_vars

\* The collector's ticker and the worker's loop run on.
Fairness ==
    /\ WF_vars(Collect)
    /\ WF_vars(Take) /\ WF_vars(Evaluate)
    /\ WF_vars(\E e \in outbox : Notify(e))

FairSpec == Spec /\ Fairness
-----------------------------------------------------------------------------
\* Every variable has its type, and a state is announced only while firing.
TypeOK ==
    /\ rules \in RuleSet /\ file \in RuleSet
    /\ state \in [Names -> RuleState]
    /\ \A n \in Names : state[n].notified => state[n].firing
    /\ slot \in Sample \cup {None} /\ hand \in Sample \cup {None}
    /\ outbox \subseteq Event
    /\ changes \in 0..MaxChanges /\ faults \in 0..MaxFaults
    /\ met \subseteq Conditions
    /\ told \in [Names -> {"firing", "resolved"}]
    /\ quiet \in [Names -> 0..Cooldown]
    /\ lost \subseteq Names

\* The webhook's last word on a rule is right, or its correction is on the
\* way: announced alerts are told, and an alert that was told and is over is
\* resolved.  Changes of the rules do not disturb this, for the rules that keep
\* their name; a failed call, a removed rule and a restart do, for good.
ToldRight ==
    \A n \in Names \ lost :
        \/ told[n] = IF state[n].notified THEN "firing" ELSE "resolved"
        \/ \E e \in outbox : e.name = n

\* Flapping conditions, lost samples and changed rules do not make the monitor
\* announce a rule twice within the cooldown.
AnnouncedOncePerCooldown ==
    [][\A n \in Names \ lost :
          [name |-> n, type |-> "firing"] \in outbox' \ outbox =>
              Least(quiet[n] + hand.gap, Cooldown) = Cooldown]_vars

Stays(n, rule) == <>[](rules[n] = rule)

\* A condition that stays is announced in the end, also when the alert first
\* came within the cooldown, and although samples are lost and rules changed.
StayingAlertIsAnnounced ==
    \A n \in Names, rule \in [cond : Conditions, duration : Durations] :
        Stays(n, rule) /\ <>[](rule.cond \in met) => <>[](state[n].firing /\ state[n].notified)

\* A condition that is gone for good is resolved in the end.
GoneAlertIsResolved ==
    \A n \in Names, rule \in [cond : Conditions, duration : Durations] :
        Stays(n, rule) /\ <>[](rule.cond \notin met) =>
            <>[](~state[n].firing /\ (told[n] = "resolved" \/ n \in lost))
===============================================================================
