-------------------------- MODULE ServerMonitor_proofs --------------------------
(* Theorems about the alert engine, its worker and the rules API, for any     *)
(* rules, conditions, durations and cooldown, any samples, and failures of    *)
(* the webhook, of the file and of the service.                               *)
EXTENDS ServerMonitor, TLAPS

-------------------------------------------------------------------------------
(* Ages that stop growing. *)

LEMMA Bounds ==
    /\ Longest \in Nat /\ \A d \in Durations : d <= Longest
    /\ MaxGap \in Nat \ {0}
<1>1. Longest \in Durations /\ \A d \in Durations : d <= Longest
  BY ServerMonitorAssumption DEF Longest
<1> QED BY <1>1, ServerMonitorAssumption DEF MaxGap

LEMMA LeastIn ==
    ASSUME NEW a \in Nat, NEW b \in Nat
    PROVE  Least(a, b) \in 0..b
  BY DEF Least

LEMMA FreshState == Fresh \in RuleState
  BY Bounds, ServerMonitorAssumption DEF Fresh, RuleState

(* What the worker has in hand during an evaluation. *)
LEMMA InHand == TypeOK /\ hand # None => hand \in Sample /\ hand.gap \in Nat \ {0}
  BY DEF TypeOK, Sample, MaxGap

LEMMA StateFields ==
    ASSUME TypeOK, NEW n \in Names
    PROVE  /\ state[n] \in RuleState
           /\ state[n].age \in Nat \cup {None} /\ state[n].firing \in BOOLEAN
           /\ state[n].notified \in BOOLEAN /\ state[n].cool \in Nat
           /\ state[n].notified => state[n].firing
  BY Bounds, ServerMonitorAssumption DEF TypeOK, RuleState

LEMMA StateRecord ==
    ASSUME TypeOK, NEW n \in Names
    PROVE  state[n] = [age |-> state[n].age, firing |-> state[n].firing,
                       notified |-> state[n].notified, cool |-> state[n].cool]
  BY DEF TypeOK, RuleState

(* An evaluation leaves a rule's state of its type, and announced only while  *)
(* it fires.                                                                  *)
LEMMA EvaluatedType ==
    ASSUME TypeOK, hand # None, NEW n \in Names
    PROVE  /\ Evaluated(n) \in RuleState
           /\ Evaluated(n).notified => Evaluated(n).firing
           /\ Evaluated(n).cool = IF Announces(n) THEN 0 ELSE Cooler(n)
           /\ Evaluated(n).notified = IF Known(n) THEN Notified(n) ELSE state[n].notified
<1> USE ServerMonitorAssumption, Bounds
<1>1. hand.gap \in Nat
  BY InHand
<1>2. Cooler(n) \in 0..Cooldown
  <2>1. state[n].cool + hand.gap \in Nat
    BY <1>1, StateFields
  <2> QED BY <2>1, LeastIn DEF Cooler
<1>3. Later(state[n].age) \in 0..Longest \cup {None}
  <2>1. state[n].age # None => state[n].age + hand.gap \in Nat
    BY <1>1, StateFields
  <2> QED BY <2>1, LeastIn DEF Later
<1>4. Age(n) \in 0..Longest \cup {None}
  BY <1>3 DEF Age
<1>5. /\ Fires(n) \in BOOLEAN /\ Notified(n) \in BOOLEAN /\ Announces(n) \in BOOLEAN
      /\ Notified(n) => Fires(n)
      /\ Announces(n) => Known(n)
  BY DEF Fires, Notified, Announces, Meets, Known
<1>6. CASE Known(n)
  BY <1>2, <1>4, <1>5, <1>6 DEF Evaluated, RuleState
<1>7. CASE ~Known(n)
  <2>1. Evaluated(n) = [age |-> Later(state[n].age), firing |-> state[n].firing,
                        notified |-> state[n].notified, cool |-> Cooler(n)]
    <3>1. Evaluated(n) = [state[n] EXCEPT !.age = Later(state[n].age), !.cool = Cooler(n)]
      BY <1>7 DEF Evaluated
    <3> QED BY <3>1, StateRecord
  <2>2. Evaluated(n) \in RuleState
    BY <1>2, <1>3, <2>1, StateFields DEF RuleState
  <2> QED BY <1>5, <1>7, <2>1, <2>2, StateFields
<1> QED BY <1>6, <1>7

-------------------------------------------------------------------------------
(* TypeOK *)

LEMMA TypeInit == Init => TypeOK
<1> SUFFICES ASSUME Init PROVE TypeOK
  OBVIOUS
<1>1. state \in [Names -> RuleState] /\ \A n \in Names : state[n].notified => state[n].firing
  BY FreshState DEF Init, Fresh
<1>2. quiet \in [Names -> 0..Cooldown] /\ rules \in RuleSet
  BY ServerMonitorAssumption DEF Init
<1> QED BY <1>1, <1>2, ServerMonitorAssumption DEF Init, TypeOK

LEMMA FailCounts == ASSUME TypeOK, NEW what, Fail(what) PROVE faults' \in 0..MaxFaults
  BY ServerMonitorAssumption DEF TypeOK, Fail

LEMMA ChangeType == ASSUME TypeOK, NEW new \in RuleSet, Change(new) PROVE TypeOK'
<1>1. state' \in [Names -> RuleState] /\ \A n \in Names : state'[n].notified => state'[n].firing
  <2>1. \A n \in Names : state'[n] = state[n] \/ state'[n] = Fresh
    BY DEF Change, Rebuilt
  <2>2. DOMAIN state' = Names /\ state' = [n \in Names |-> state'[n]]
    BY DEF Change, Rebuilt
  <2>3. \A n \in Names : state'[n] \in RuleState
    BY <2>1, FreshState DEF TypeOK
  <2>4. \A n \in Names : state'[n].notified => state'[n].firing
    BY <2>1 DEF TypeOK, Fresh
  <2> QED BY <2>2, <2>3, <2>4
<1>2. file' \in RuleSet /\ faults' \in 0..MaxFaults
  BY FailCounts DEF TypeOK, Change
<1> QED BY <1>1, <1>2, ServerMonitorAssumption DEF TypeOK, Change, worker

LEMMA TypeStep == TypeOK /\ [Next]_vars => TypeOK'
<1> SUFFICES ASSUME TypeOK, [Next]_vars PROVE TypeOK'
  OBVIOUS
<1> USE ServerMonitorAssumption
<1>1. CASE Collect
  <2>1. slot' \in Sample /\ met' \subseteq Conditions
    BY <1>1, Bounds DEF Collect, TypeOK, Sample, Least
  <2> QED BY <1>1, <2>1 DEF TypeOK, Collect, engine, worker
<1>2. CASE Take
  BY <1>2 DEF TypeOK, Take, engine, history
<1>3. CASE Evaluate
  <2>1. state' \in [Names -> RuleState] /\ \A n \in Names : state'[n].notified => state'[n].firing
    <3>1. \A n \in Names : state'[n] = state[n] \/ state'[n] = Evaluated(n)
      BY <1>3 DEF Evaluate
    <3>2. DOMAIN state' = Names /\ state' = [n \in Names |-> state'[n]]
      BY <1>3 DEF Evaluate
    <3>3. hand # None
      BY <1>3 DEF Evaluate
    <3> QED BY <3>1, <3>2, <3>3, EvaluatedType DEF TypeOK
  <2>2. outbox' \subseteq Event
    BY <1>3 DEF Evaluate, Event
  <2>3. quiet' \in [Names -> 0..Cooldown]
    <3>1. hand.gap \in Nat
      BY <1>3, InHand DEF Evaluate
    <3>2. \A n \in Names : Least(quiet[n] + hand.gap, Cooldown) \in 0..Cooldown
      <4> SUFFICES ASSUME NEW n \in Names PROVE Least(quiet[n] + hand.gap, Cooldown) \in 0..Cooldown
        OBVIOUS
      <4>1. quiet[n] + hand.gap \in Nat
        BY <3>1 DEF TypeOK
      <4> QED BY <4>1, LeastIn
    <3> QED BY <1>3, <3>2 DEF Evaluate
  <2> QED BY <1>3, <2>1, <2>2, <2>3 DEF TypeOK, Evaluate
<1>4. ASSUME NEW e \in outbox, Notify(e) PROVE TypeOK'
  <2>1. e.name \in Names /\ e.type \in {"firing", "resolved"}
    BY DEF TypeOK, Event
  <2>2. told' \in [Names -> {"firing", "resolved"}] /\ lost' \subseteq Names
    BY <1>4, <2>1 DEF Notify, TypeOK
  <2>3. faults' \in 0..MaxFaults
    BY <1>4, FailCounts DEF Notify, TypeOK
  <2> QED BY <1>4, <2>2, <2>3 DEF TypeOK, Notify, engine
<1>5. ASSUME NEW n \in Names, NEW rule \in Rule, UpsertRule(n, rule) PROVE TypeOK'
  <2>1. [rules EXCEPT ![n] = rule] \in RuleSet
    BY DEF TypeOK, RuleSet
  <2> QED BY <1>5, <2>1, ChangeType DEF UpsertRule
<1>6. ASSUME NEW new \in RuleSet, ReplaceRules(new) PROVE TypeOK'
  BY <1>6, ChangeType DEF ReplaceRules
<1>7. CASE Restart
  BY <1>7, FailCounts, FreshState DEF TypeOK, Restart, Fresh
<1>8. CASE UNCHANGED vars
  BY <1>8 DEF TypeOK, vars, engine, worker, history
<1> QED BY <1>1, <1>2, <1>3, <1>4, <1>5, <1>6, <1>7, <1>8 DEF Next

(* Every variable keeps its type, and no alert is announced that does not fire. *)
THEOREM TypeCorrect == Spec => []TypeOK
  BY TypeInit, TypeStep, PTL DEF Spec
-------------------------------------------------------------------------------
(* ToldRight and AnnouncedOncePerCooldown.                                    *)
(*                                                                            *)
(* An event that waits says what its rule's state says, and a rule without    *)
(* one was told right.  The worker evaluates only with an empty outbox, so no *)
(* event is overwritten; a name without a rule has no state that a later rule *)
(* of that name could inherit; and the engine's cooldown is the time since    *)
(* the announcement.                                                          *)

EventsRight ==
    \A e \in outbox : e.name \notin lost => (e.type = "firing" <=> state[e.name].notified)

CooldownRight == \A n \in Names \ lost : state[n].cool = quiet[n]

MonitorInv ==
    /\ TypeOK
    /\ hand # None => outbox = {}
    /\ \A n \in Names : rules[n] = None => state[n] = Fresh
    /\ EventsRight
    /\ ToldRight
    /\ CooldownRight

LEMMA MonitorInit == Init => MonitorInv
<1> SUFFICES ASSUME Init PROVE MonitorInv
  OBVIOUS
<1>1. \A n \in Names : ~state[n].notified /\ state[n] = Fresh /\ state[n].cool = quiet[n]
  BY DEF Init, Fresh
<1>2. EventsRight /\ ToldRight /\ CooldownRight
  BY <1>1 DEF Init, EventsRight, ToldRight, CooldownRight
<1> QED BY <1>1, <1>2, TypeInit DEF MonitorInv, Init

(* After an evaluation whoever's word must change has an event.               *)
LEMMA EvaluateRight == ASSUME MonitorInv, TypeOK', Evaluate PROVE MonitorInv'
<1> USE ServerMonitorAssumption
<1>1. TypeOK /\ hand # None /\ outbox = {}
  BY DEF MonitorInv, Evaluate
<1>2. \A n \in Names : state'[n] = IF rules[n] = None THEN state[n] ELSE Evaluated(n)
  BY DEF Evaluate
<1>3. \A n \in Names : rules[n] = None => ~Known(n) /\ ~Announces(n) /\ ~Resolves(n)
  BY DEF Known, Announces, Resolves, Fires, Meets
<1>4. ASSUME NEW n \in Names
      PROVE  /\ Announces(n) => state'[n].notified
             /\ Resolves(n) => ~state'[n].notified
             /\ ~Announces(n) /\ ~Resolves(n) => state'[n].notified = state[n].notified
  <2>1. CASE ~Known(n)
    BY <1>1, <1>2, <1>3, <2>1, EvaluatedType DEF Announces, Resolves, Fires, Meets
  <2>2. CASE Known(n)
    <3>1. state'[n].notified = Notified(n)
      BY <1>1, <1>2, <1>3, <2>2, EvaluatedType
    <3>2. /\ Announces(n) => Notified(n)
          /\ Resolves(n) => ~Notified(n)
      BY DEF Announces, Notified, Resolves, Fires
    <3>3. CASE ~Announces(n) /\ ~Resolves(n)
      <4>1. state[n].notified \in BOOLEAN /\ (state[n].notified => state[n].firing)
        BY <1>1, StateFields
      <4>2. state[n].notified => Fires(n)
        BY <2>2, <3>3, <4>1 DEF Resolves, Fires
      <4>3. Notified(n) <=> state[n].notified
        BY <3>3, <4>2 DEF Notified
      <4>4. Notified(n) \in BOOLEAN
        BY DEF Notified
      <4> QED BY <3>1, <3>3, <4>1, <4>3, <4>4
    <3> QED BY <3>1, <3>2, <3>3
  <2> QED BY <2>1, <2>2
<1>5. \A e \in outbox' : \/ e.type = "firing" /\ Announces(e.name) /\ e.name \in Names
                         \/ e.type = "resolved" /\ Resolves(e.name) /\ e.name \in Names
  BY DEF Evaluate
<1>6. \A n \in Names : Announces(n) \/ Resolves(n) => \E e \in outbox' : e.name = n
  <2>1. ASSUME NEW n \in Names, Announces(n) PROVE \E e \in outbox' : e.name = n
    <3>1. [name |-> n, type |-> "firing"] \in outbox'
      BY <2>1 DEF Evaluate
    <3> QED BY <3>1
  <2>2. ASSUME NEW n \in Names, Resolves(n) PROVE \E e \in outbox' : e.name = n
    <3>1. [name |-> n, type |-> "resolved"] \in outbox'
      BY <2>2 DEF Evaluate
    <3> QED BY <3>1
  <2> QED BY <2>1, <2>2
<1>7. told' = told /\ lost' = lost /\ rules' = rules /\ hand' = None
  BY DEF Evaluate
<1>8. EventsRight'
  BY <1>4, <1>5, <1>7 DEF EventsRight
<1>9. ToldRight'
  <2>1. ToldRight
    BY DEF MonitorInv
  <2>2. \A n \in Names \ lost : told[n] = IF state[n].notified THEN "firing" ELSE "resolved"
    BY <1>1, <2>1 DEF ToldRight
  <2> QED BY <1>4, <1>6, <1>7, <2>2 DEF ToldRight
<1>10. CooldownRight'
  <2> SUFFICES ASSUME NEW n \in Names \ lost PROVE state'[n].cool = quiet'[n]
    BY <1>7 DEF CooldownRight
  <2>1. state[n].cool = quiet[n] /\ quiet[n] \in 0..Cooldown /\ hand.gap \in Nat
    BY <1>1, InHand DEF MonitorInv, CooldownRight, TypeOK
  <2>2. quiet'[n] = IF Announces(n) THEN 0 ELSE Cooler(n)
    BY <2>1 DEF Evaluate, Cooler
  <2>3. CASE rules[n] = None
    <3>1. state[n] = Fresh
      BY <2>3 DEF MonitorInv
    <3>2. state[n].cool = Cooldown /\ Cooler(n) = Cooldown
      BY <2>1, <3>1 DEF Fresh, Cooler, Least
    <3> QED BY <1>2, <1>3, <2>2, <2>3, <3>2
  <2>4. CASE rules[n] # None
    BY <1>1, <1>2, <2>2, <2>4, EvaluatedType
  <2> QED BY <2>3, <2>4
<1>11. \A n \in Names : rules'[n] = None => state'[n] = Fresh
  BY <1>2, <1>7 DEF MonitorInv
<1> QED BY <1>7, <1>8, <1>9, <1>10, <1>11 DEF MonitorInv

LEMMA NotifyRight == ASSUME MonitorInv, TypeOK', NEW e \in outbox, Notify(e) PROVE MonitorInv'
<1>1. UNCHANGED <<rules, state, hand, quiet>> /\ outbox' = outbox \ {e}
  BY DEF Notify, engine
<1>2. e.name \in Names /\ e.type \in {"firing", "resolved"} /\ told \in [Names -> {"firing", "resolved"}]
  BY DEF MonitorInv, TypeOK, Event
<1>3. /\ lost \subseteq lost'
      /\ e.name \notin lost' => told' = [told EXCEPT ![e.name] = e.type]
      /\ \A n \in Names \ {e.name} : told'[n] = told[n]
  BY <1>2 DEF Notify
<1>4. EventsRight' /\ CooldownRight'
  BY <1>1, <1>3 DEF MonitorInv, EventsRight, CooldownRight
<1>5. ToldRight'
  <2> SUFFICES ASSUME NEW n \in Names \ lost',
                      ~ \E f \in outbox' : f.name = n
               PROVE  told'[n] = IF state[n].notified THEN "firing" ELSE "resolved"
    BY <1>1 DEF ToldRight
  <2>1. CASE n = e.name
    <3>1. told'[n] = e.type
      BY <1>2, <1>3, <2>1
    <3>2. e.type = "firing" <=> state[n].notified
      BY <1>3, <2>1 DEF MonitorInv, EventsRight
    <3> QED BY <1>2, <3>1, <3>2
  <2>2. CASE n # e.name
    <3>1. ~ \E f \in outbox : f.name = n
      BY <1>1, <2>2
    <3> QED BY <1>3, <2>2, <3>1 DEF MonitorInv, ToldRight
  <2> QED BY <2>1, <2>2
<1> QED BY <1>1, <1>4, <1>5 DEF MonitorInv

LEMMA ChangeRight == ASSUME MonitorInv, TypeOK', NEW new \in RuleSet, Change(new) PROVE MonitorInv'
<1>1. UNCHANGED <<hand, outbox, told, quiet>> /\ rules' = new
  BY DEF Change, worker
<1>2. \A n \in Names : rules[n] # None /\ new[n] = None => n \in lost'
  BY DEF Change
<1>3. lost \subseteq lost'
  BY DEF Change
<1>4. \A n \in Names \ lost' : state'[n] = state[n]
  <2> SUFFICES ASSUME NEW n \in Names \ lost' PROVE state'[n] = state[n]
    OBVIOUS
  <2>1. CASE rules[n] = None
    BY <2>1 DEF MonitorInv, Change, Rebuilt
  <2>2. CASE rules[n] # None
    BY <1>2, <2>2 DEF Change, Rebuilt
  <2> QED BY <2>1, <2>2
<1>5. \A n \in Names : rules'[n] = None => state'[n] = Fresh
  BY <1>1 DEF Change, Rebuilt
<1>6. EventsRight'
  BY <1>1, <1>3, <1>4 DEF MonitorInv, EventsRight, TypeOK, Event
<1>7. ToldRight' /\ CooldownRight'
  BY <1>1, <1>3, <1>4 DEF MonitorInv, ToldRight, CooldownRight
<1> QED BY <1>1, <1>5, <1>6, <1>7 DEF MonitorInv

LEMMA MonitorStep == MonitorInv /\ [Next]_vars => MonitorInv'
<1> SUFFICES ASSUME MonitorInv, [Next]_vars PROVE MonitorInv'
  OBVIOUS
<1>0. TypeOK'
  BY TypeStep DEF MonitorInv
<1>1. CASE Collect \/ Take \/ UNCHANGED vars
  <2>1. UNCHANGED <<rules, state, outbox, told, quiet, lost>>
    BY <1>1 DEF Collect, Take, vars, engine, worker, history
  <2>2. hand' # None => outbox' = {}
    BY <1>1 DEF MonitorInv, Collect, Take, vars, worker
  <2> QED BY <1>0, <2>1, <2>2 DEF MonitorInv, EventsRight, ToldRight, CooldownRight
<1>2. CASE Evaluate
  BY <1>0, <1>2, EvaluateRight
<1>3. ASSUME NEW e \in outbox, Notify(e) PROVE MonitorInv'
  BY <1>0, <1>3, NotifyRight
<1>4. ASSUME NEW n \in Names, NEW rule \in Rule, UpsertRule(n, rule) PROVE MonitorInv'
  <2>1. [rules EXCEPT ![n] = rule] \in RuleSet
    BY ServerMonitorAssumption DEF MonitorInv, TypeOK, RuleSet
  <2> QED BY <1>0, <1>4, <2>1, ChangeRight DEF UpsertRule
<1>5. ASSUME NEW new \in RuleSet, ReplaceRules(new) PROVE MonitorInv'
  BY <1>0, <1>5, ChangeRight DEF ReplaceRules
<1>6. CASE Restart
  BY <1>0, <1>6 DEF MonitorInv, Restart, EventsRight, ToldRight, CooldownRight
<1> QED BY <1>1, <1>2, <1>3, <1>4, <1>5, <1>6 DEF Next

LEMMA MonitorAlways == Spec => []MonitorInv
  BY MonitorInit, MonitorStep, PTL DEF Spec

(* The webhook's last word on a rule is right, or its correction is waiting,  *)
(* unless a call failed, the rule was removed or the service restarted.       *)
THEOREM ToldRightHolds == Spec => []ToldRight
<1>1. MonitorInv => ToldRight
  BY DEF MonitorInv
<1> QED BY <1>1, MonitorAlways, PTL

(* No rule is announced again before its cooldown is over, whatever samples   *)
(* are lost, conditions flap and rules change.                                *)
THEOREM AnnouncedOnce == Spec => AnnouncedOncePerCooldown
<1> DEFINE A == \A n \in Names \ lost :
                   [name |-> n, type |-> "firing"] \in outbox' \ outbox =>
                       Least(quiet[n] + hand.gap, Cooldown) = Cooldown
<1>1. MonitorInv /\ [Next]_vars => A \/ UNCHANGED vars
  <2> SUFFICES ASSUME MonitorInv, Next, NEW n \in Names \ lost,
                      [name |-> n, type |-> "firing"] \in outbox',
                      [name |-> n, type |-> "firing"] \notin outbox
               PROVE  Least(quiet[n] + hand.gap, Cooldown) = Cooldown
    OBVIOUS
  <2>1. Evaluate
    BY DEF Next, Collect, Take, Notify, UpsertRule, ReplaceRules, Change, Restart, worker
  <2>2. Announces(n)
    BY <2>1 DEF Evaluate
  <2> QED BY <2>2 DEF Announces, Cooler, MonitorInv, CooldownRight
<1>2. MonitorInv /\ [Next]_vars => [A]_vars
  BY <1>1
<1> QED BY <1>2, MonitorAlways, PTL DEF Spec, AnnouncedOncePerCooldown
===============================================================================
