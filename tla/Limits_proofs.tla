----------------------------- MODULE Limits_proofs -----------------------------
(* Theorems about the two limits that count requests: comment-service's       *)
(* sliding window, for any requests, keys, limits and windows, any delay      *)
(* between a stamp and its script, and failing scripts; and                   *)
(* plugin-auto-reply's mail quota, for any limit, requests and restarts.  The *)
(* two have nothing in common but the arguments.                              *)
EXTENDS SlidingWindow, EmailQuota, FiniteSetTheorems, TLAPS

-------------------------------------------------------------------------------
(* The script *)

Finite == \A k \in Keys : IsFiniteSet(zset[k]) /\ IsFiniteSet(admitted[k])

LEMMA Constants ==
    ASSUME NEW k \in Keys
    PROVE  Limit[k] \in Nat \ {0} /\ Window[k] \in Nat \ {0}
  BY SlidingWindowAssumption

(* What a request between its stamp and its script has at hand. *)
LEMMA Stamped ==
    ASSUME TypeOK, NEW r \in Requests, req[r].pc \in {"ip", "user"}
    PROVE  /\ req[r].key \in Keys /\ req[r].stamp \in Ticks
           /\ req[r].pc = "user" => req[r].key \in Authors
           /\ req[r].pc = "ip" => req[r].key \in IPs /\ req[r].author \in Authors \cup {None}
  BY DEF TypeOK, ReqState, Keys

LEMMA KeptFinite ==
    ASSUME TypeOK, Finite, NEW k \in Keys, NEW s \in Ticks
    PROVE  /\ Kept(k, s) \subseteq zset[k] /\ Kept(k, s) \subseteq Entry
           /\ IsFiniteSet(Kept(k, s)) /\ Cardinality(Kept(k, s)) \in Nat
           /\ Cardinality(Kept(k, s)) <= Cardinality(zset[k])
           /\ Cardinality(zset[k]) \in Nat
<1>1. Kept(k, s) \subseteq zset[k]
  BY DEF Kept, Live
<1>2. zset[k] \subseteq Entry /\ IsFiniteSet(zset[k])
  BY DEF TypeOK, Finite
<1> QED BY <1>1, <1>2, FS_Subset, FS_CardinalityType

LEMMA ScriptRefuses ==
    ASSUME TypeOK, NEW r \in Requests, req[r].pc \in {"ip", "user"}, NEW next, NEW refusal, NEW lost,
           Script(r, next, refusal, lost),
           ~Room(req[r].key, Kept(req[r].key, req[r].stamp))
    PROVE  /\ zset' = [zset EXCEPT ![req[r].key] = Kept(req[r].key, req[r].stamp)]
           /\ UNCHANGED <<admitted, collided>>
           /\ req' = [req EXCEPT ![r] = refusal]
<1> DEFINE key == req[r].key
           stamp == req[r].stamp
<1>1. key \in Keys /\ collided \in [Keys -> Nat]
  BY Stamped DEF TypeOK
<1>2. PICK rnd \in RandomValues :
         /\ zset' = [zset EXCEPT ![key] = Kept(key, stamp)]
         /\ collided' = [collided EXCEPT ![key] = @ + 0]
  BY DEF Script, Enter
<1>3. collided' = collided
  BY <1>1, <1>2
<1> QED BY <1>2, <1>3 DEF Script, Go

LEMMA ScriptGrants ==
    ASSUME TypeOK, NEW r \in Requests, req[r].pc \in {"ip", "user"}, NEW next, NEW refusal, NEW lost,
           Script(r, next, refusal, lost),
           Room(req[r].key, Kept(req[r].key, req[r].stamp))
    PROVE  /\ \E entry \in Entry :
                 /\ entry.score = req[r].stamp
                 /\ zset' = [zset EXCEPT
                       ![req[r].key] = Kept(req[r].key, req[r].stamp) \cup {entry}]
                 /\ collided' = [collided EXCEPT ![req[r].key] =
                       IF entry \in Kept(req[r].key, req[r].stamp)
                       THEN collided[req[r].key] + 1 ELSE collided[req[r].key]]
           /\ admitted' = [admitted EXCEPT ![req[r].key] = admitted[req[r].key] \cup
                 {[r |-> r, stamp |-> req[r].stamp, prompt |-> req[r].stamp = clock,
                   lost |-> lost]}]
           /\ req' = [req EXCEPT ![r] = next]
<1> PICK key : key = req[r].key
  OBVIOUS
<1> PICK stamp : stamp = req[r].stamp
  OBVIOUS
<1> PICK kept : kept = Kept(key, stamp)
  OBVIOUS
<1>1. key \in Keys /\ stamp \in Ticks /\ collided \in [Keys -> Nat]
  BY Stamped DEF TypeOK
<1>2. PICK rnd \in RandomValues :
         LET entry == [score |-> stamp, rnd |-> rnd]
         IN  /\ zset' = [zset EXCEPT ![key] = kept \cup {entry}]
             /\ collided' = [collided EXCEPT ![key] = @ + IF entry \in kept THEN 1 ELSE 0]
  BY DEF Script, Enter
<1> DEFINE entry == [score |-> stamp, rnd |-> rnd]
<1>3. entry \in Entry /\ entry.score = stamp
  BY <1>1 DEF Entry
<1>4. /\ zset' = [zset EXCEPT ![key] = kept \cup {entry}]
      /\ collided' = [collided EXCEPT ![key] = collided[key] + (IF entry \in kept THEN 1 ELSE 0)]
  BY <1>2
<1>5. /\ admitted' = [admitted EXCEPT ![key] =
            admitted[key] \cup {[r |-> r, stamp |-> stamp, prompt |-> stamp = clock,
                              lost |-> lost]}]
      /\ req' = [req EXCEPT ![r] = next]
  BY DEF Script, Go
<1> HIDE DEF entry
<1>6. collided' = [collided EXCEPT ![key] =
                      IF entry \in kept THEN collided[key] + 1 ELSE collided[key]]
  <2>1. collided[key] + 0 = collided[key]
    BY <1>1
  <2>2. CASE entry \in kept
    BY <1>4, <2>2
  <2>3. CASE entry \notin kept
    BY <1>4, <2>1, <2>3
  <2> QED BY <2>2, <2>3
<1> QED BY <1>3, <1>4, <1>5, <1>6

(* Either way the key lives on for a window. *)
LEMMA ScriptExpires ==
    ASSUME NEW r, NEW next, NEW refusal, NEW lost, Script(r, next, refusal, lost)
    PROVE  /\ expires' = [expires EXCEPT ![req[r].key] = clock + Window[req[r].key]]
           /\ UNCHANGED clock
  BY DEF Script

-------------------------------------------------------------------------------
(* TypeOK *)

LEMMA ScriptTypes ==
    ASSUME TypeOK, Finite, NEW r \in Requests, req[r].pc \in {"ip", "user"},
           NEW next \in ReqState, NEW refusal \in ReqState, NEW lost \in 0..MaxFaults,
           faults' \in 0..MaxFaults, Script(r, next, refusal, lost)
    PROVE  TypeOK' /\ Finite'
<1> PICK key : key = req[r].key
  OBVIOUS
<1> PICK stamp : stamp = req[r].stamp
  OBVIOUS
<1> PICK kept : kept = Kept(key, stamp)
  OBVIOUS
<1>1. key \in Keys /\ stamp \in Ticks
  BY Stamped
<1>2. /\ kept \subseteq zset[key] /\ kept \subseteq Entry /\ IsFiniteSet(kept)
      /\ Cardinality(kept) \in Nat /\ Cardinality(kept) <= Limit[key]
  BY <1>1, KeptFinite, Constants DEF TypeOK
<1>3. expires' \in [Keys -> Nat] /\ UNCHANGED clock
  BY <1>1, ScriptExpires, Constants DEF TypeOK, Ticks
<1>4. CASE ~Room(key, kept)
  <2>1. /\ zset' = [zset EXCEPT ![key] = kept] /\ UNCHANGED <<admitted, collided>>
        /\ req' = [req EXCEPT ![r] = refusal]
    BY <1>4, ScriptRefuses
  <2>3. /\ zset' \in [Keys -> SUBSET Entry] /\ req' \in [Requests -> ReqState]
        /\ \A k \in Keys : Cardinality(zset'[k]) <= Limit[k]
    BY <1>1, <1>2, <2>1 DEF TypeOK
  <2>4. Finite'
    BY <1>1, <1>2, <2>1 DEF TypeOK, Finite
  <2> QED BY <1>3, <2>1, <2>3, <2>4 DEF TypeOK
<1>5. CASE Room(key, kept)
  <2> PICK grant : grant = [r |-> r, stamp |-> stamp, prompt |-> stamp = clock, lost |-> lost]
    OBVIOUS
  <2>1. PICK entry \in Entry :
           /\ zset' = [zset EXCEPT ![key] = kept \cup {entry}]
           /\ collided' = [collided EXCEPT ![key] =
                 IF entry \in kept THEN collided[key] + 1 ELSE collided[key]]
    BY <1>5, ScriptGrants
  <2>2. /\ admitted' = [admitted EXCEPT ![key] = admitted[key] \cup {grant}]
        /\ req' = [req EXCEPT ![r] = next]
    BY <1>5, ScriptGrants
  <2>3. grant \in Grant
    BY <1>1 DEF Grant
  <2>4. Cardinality(kept) < Limit[key]
    BY <1>5 DEF Room
  <2>5. IsFiniteSet(kept \cup {entry}) /\ Cardinality(kept \cup {entry}) <= Cardinality(kept) + 1
    <3>1. Cardinality(kept \cup {entry}) \in {Cardinality(kept), Cardinality(kept) + 1}
      BY <1>2, FS_AddElement, Zenon
    <3>2. IsFiniteSet(kept \cup {entry})
      BY <1>2, FS_AddElement
    <3> QED BY <1>2, <3>1, <3>2
  <2>6. IsFiniteSet(admitted[key] \cup {grant})
    BY <1>1, FS_AddElement DEF Finite
  <2>7. Cardinality(kept \cup {entry}) \in Nat /\ Limit[key] \in Nat
    BY <1>1, <2>5, FS_CardinalityType, Constants
  <2>8. /\ zset' \in [Keys -> SUBSET Entry] /\ req' \in [Requests -> ReqState]
        /\ admitted' \in [Keys -> SUBSET Grant] /\ collided' \in [Keys -> Nat]
    BY <1>1, <1>2, <2>1, <2>2, <2>3 DEF TypeOK
  <2>9. \A k \in Keys : Cardinality(zset'[k]) <= Limit[k]
    BY <1>1, <1>2, <2>1, <2>4, <2>5, <2>7 DEF TypeOK
  <2>10. Finite'
    BY <1>1, <2>1, <2>2, <2>5, <2>6 DEF TypeOK, Finite
  <2> QED BY <1>3, <2>8, <2>9, <2>10 DEF TypeOK
<1> QED BY <1>4, <1>5

LEMMA TypeInit == Init => TypeOK /\ Finite
<1> SUFFICES ASSUME Init PROVE TypeOK /\ Finite
  OBVIOUS
<1>1. \A k \in Keys : zset[k] = {} /\ admitted[k] = {} /\ Limit[k] \in Nat
  BY Constants DEF Init
<1> QED BY <1>1, SlidingWindowAssumption, FS_EmptySet DEF Init, TypeOK, Finite, Ticks, ReqState,
                                                          Idle

(* What the middleware hands the script as the state that follows a grant. *)
LEMMA NextTypes ==
    ASSUME TypeOK, NEW r \in Requests
    PROVE  /\ Passed \in ReqState /\ Rejected \in ReqState
           /\ Passed.pc = "passed" /\ Rejected.pc = "rejected"
           /\ faults \in 0..MaxFaults /\ 0 \in 0..MaxFaults
           /\ req[r].pc = "ip" /\ req[r].author # None =>
                 [pc |-> "author", author |-> req[r].author] \in ReqState
<1>1. /\ Passed \in ReqState /\ Rejected \in ReqState
      /\ Passed.pc = "passed" /\ Rejected.pc = "rejected"
  BY DEF ReqState, Passed, Rejected
<1>3. faults \in 0..MaxFaults /\ 0 \in 0..MaxFaults
  BY SlidingWindowAssumption DEF TypeOK
<1>2. ASSUME req[r].pc = "ip", req[r].author # None
      PROVE  [pc |-> "author", author |-> req[r].author] \in ReqState
  <2>1. req[r].author \in Authors
    BY <1>2, Stamped
  <2> QED BY <2>1 DEF ReqState
<1> QED BY <1>1, <1>2, <1>3

(* What a call whose answer is lost does. *)
LEMMA LostAnswer ==
    ASSUME TypeOK, NEW r \in Requests, LoseAnswer(r)
    PROVE  \E state \in ReqState :
              /\ req[r].pc \in {"ip", "user"} /\ faults < MaxFaults
              /\ faults' = faults + 1 /\ faults' \in 0..MaxFaults /\ faults + 1 \in 0..MaxFaults
              /\ state = req[r] \/ state = Passed
              /\ Script(r, state, state, faults + 1)
<1>1. req[r] \in ReqState /\ Passed \in ReqState
  BY NextTypes DEF TypeOK
<1>2. faults \in Nat /\ MaxFaults \in Nat
  BY SlidingWindowAssumption DEF TypeOK
<1> QED BY <1>1, <1>2 DEF LoseAnswer

LEMMA TypeStep == TypeOK /\ Finite /\ [Next]_vars => TypeOK' /\ Finite'
<1> SUFFICES ASSUME TypeOK, Finite, [Next]_vars PROVE TypeOK' /\ Finite'
  OBVIOUS
<1>1. ASSUME NEW r \in Requests, Arrive(r) PROVE TypeOK' /\ Finite'
  <2>1. PICK ip \in IPs, a \in Authors \cup {None} :
           req' = [req EXCEPT ![r] = [pc |-> "ip", key |-> ip, author |-> a, stamp |-> clock]]
    BY <1>1 DEF Arrive, Go
  <2>2. [pc |-> "ip", key |-> ip, author |-> a, stamp |-> clock] \in ReqState
    BY DEF TypeOK, ReqState
  <2> QED BY <1>1, <2>1, <2>2 DEF TypeOK, Finite, Arrive, redis, history
<1>2. ASSUME NEW r \in Requests, CheckIP(r) PROVE TypeOK' /\ Finite'
  <2>1. PICK next \in ReqState : /\ Script(r, next, Rejected, 0)
                                 /\ req[r].pc = "ip" /\ faults' = faults
    BY <1>2, NextTypes DEF CheckIP
  <2>2. Rejected \in ReqState /\ 0 \in 0..MaxFaults /\ faults' \in 0..MaxFaults
    BY <2>1, NextTypes
  <2> QED BY <2>1, <2>2, ScriptTypes
<1>3. ASSUME NEW r \in Requests, StampAuthor(r) PROVE TypeOK' /\ Finite'
  <2>1. req[r].author \in Authors
    BY <1>3 DEF StampAuthor, TypeOK, ReqState
  <2>2. [pc |-> "user", key |-> req[r].author, author |-> req[r].author, stamp |-> clock] \in ReqState
    BY <2>1 DEF TypeOK, ReqState
  <2> QED BY <1>3, <2>2 DEF TypeOK, Finite, StampAuthor, Go, redis, history
<1>4. ASSUME NEW r \in Requests, CheckAuthor(r) PROVE TypeOK' /\ Finite'
  <2>1. Script(r, Passed, Rejected, 0) /\ req[r].pc = "user" /\ faults' = faults
    BY <1>4 DEF CheckAuthor
  <2>2. /\ Passed \in ReqState /\ Rejected \in ReqState
        /\ 0 \in 0..MaxFaults /\ faults' \in 0..MaxFaults
    BY <2>1, NextTypes
  <2> QED BY <2>1, <2>2, ScriptTypes
<1>5. ASSUME NEW r \in Requests, FailOpen(r) PROVE TypeOK' /\ Finite'
  <2>1. req' = [req EXCEPT ![r] = Passed] /\ faults' \in 0..MaxFaults
    BY <1>5, SlidingWindowAssumption DEF TypeOK, FailOpen, Go
  <2>2. Passed \in ReqState
    BY NextTypes
  <2> QED BY <1>5, <2>1, <2>2 DEF TypeOK, Finite, FailOpen, redis, history
<1>6. CASE Tick
  BY <1>6, SlidingWindowAssumption DEF TypeOK, Finite, Tick, Ticks, redis, history
<1>7. CASE UNCHANGED vars
  BY <1>7 DEF TypeOK, Finite, vars, redis, history
<1>8. ASSUME NEW r \in Requests, LoseAnswer(r) PROVE TypeOK' /\ Finite'
  BY <1>8, LostAnswer, ScriptTypes
<1> QED BY <1>1, <1>2, <1>3, <1>4, <1>5, <1>6, <1>7, <1>8 DEF Next

(* Every variable keeps its type, and no key ever holds more entries than its *)
(* limit.                                                                     *)
THEOREM TypeCorrect == Spec => []TypeOK
  BY TypeInit, TypeStep, PTL DEF Spec
-------------------------------------------------------------------------------
(* WindowLimit.                                                               *)
(*                                                                            *)
(* The prompt calls that any window from now on can see have an entry each    *)
(* that is still there, but for the entries that took another's name.  For    *)
(* every start t of such a window the entries younger than t are therefore as *)
(* many as the calls younger than t; the Lua script prunes nothing younger,   *)
(* because no stamp is ahead of the clock, and a key expires only when its    *)
(* youngest prompt call has left the window.                                  *)

Entries(k, t) == {e \in zset[k] : e.score > t}
Calls(k, t)   == {x \in Prompt(k) : x.stamp > t}

StampsPast == \A r \in Requests : req[r].pc \in {"ip", "user"} => req[r].stamp <= clock

ExpiresSoon == \A k \in Keys : expires[k] <= clock + Window[k]

CallsLive == \A k \in Keys : \A x \in Prompt(k) : x.stamp + Window[k] <= expires[k]

CallsEntered ==
    \A k \in Keys, t \in Int :
        t >= clock - Window[k] => Cardinality(Calls(k, t)) <= Cardinality(Entries(k, t)) + collided[k]

WindowInv == /\ TypeOK /\ Finite
             /\ StampsPast /\ ExpiresSoon /\ CallsLive /\ CallsEntered /\ WindowLimit

LEMMA CountsFinite ==
    ASSUME TypeOK, Finite, NEW k \in Keys, NEW t
    PROVE  /\ IsFiniteSet(Entries(k, t)) /\ Cardinality(Entries(k, t)) \in Nat
           /\ IsFiniteSet(Calls(k, t)) /\ Cardinality(Calls(k, t)) \in Nat
           /\ Cardinality(Entries(k, t)) <= Cardinality(zset[k])
           /\ Cardinality(zset[k]) \in Nat /\ collided[k] \in Nat
<1>1. Entries(k, t) \subseteq zset[k] /\ Calls(k, t) \subseteq admitted[k]
  BY DEF Entries, Calls, Prompt
<1>2. IsFiniteSet(zset[k]) /\ IsFiniteSet(admitted[k]) /\ collided[k] \in Nat
  BY DEF Finite, TypeOK
<1> QED BY <1>1, <1>2, FS_Subset, FS_CardinalityType

(* The windows that have not ended yet. *)
NowInLimit ==
    \A k \in Keys, t \in Int :
        t >= clock => Cardinality(InWindow(Prompt(k), k, t)) <= Limit[k] + collided[k]

LEMMA CurrentWindow == TypeOK /\ Finite /\ CallsEntered => NowInLimit
<1> SUFFICES ASSUME TypeOK, Finite, CallsEntered, NEW k \in Keys, NEW t \in Int, t >= clock
             PROVE  Cardinality(InWindow(Prompt(k), k, t)) <= Limit[k] + collided[k]
  BY DEF NowInLimit
<1> DEFINE u == t - Window[k]
<1>1. Window[k] \in Nat /\ Limit[k] \in Nat /\ clock \in Nat
  BY Constants DEF TypeOK, Ticks
<1>2. u \in Int /\ u >= clock - Window[k]
  BY <1>1
<1>3. InWindow(Prompt(k), k, t) \subseteq Calls(k, u)
  BY <1>1 DEF InWindow, Calls, Prompt, TypeOK, Grant, Ticks
<1> HIDE DEF u
<1>4. Cardinality(InWindow(Prompt(k), k, t)) \in Nat
      /\ Cardinality(InWindow(Prompt(k), k, t)) <= Cardinality(Calls(k, u))
  BY <1>3, CountsFinite, FS_Subset, FS_CardinalityType
<1>5. Cardinality(Calls(k, u)) <= Cardinality(Entries(k, u)) + collided[k]
  BY <1>2 DEF CallsEntered
<1>6. Cardinality(zset[k]) <= Limit[k]
  BY DEF TypeOK
<1> QED BY <1>1, <1>4, <1>5, <1>6, CountsFinite

(* Pruning leaves an entry for every prompt call in the window. *)
LEMMA KeptEnough ==
    ASSUME WindowInv, NEW k \in Keys, NEW s \in Ticks, s <= clock,
           NEW t \in Int, t >= clock - Window[k],
           NEW young, young = {e \in Kept(k, s) : e.score > t}
    PROVE  /\ IsFiniteSet(young) /\ Cardinality(young) \in Nat
           /\ Cardinality(Calls(k, t)) <= Cardinality(young) + collided[k]
<1>1. TypeOK /\ Finite /\ Window[k] \in Nat /\ clock \in Nat /\ s \in Nat /\ expires[k] \in Nat
  BY Constants DEF WindowInv, TypeOK, Ticks
<1>2. IsFiniteSet(young) /\ Cardinality(young) \in Nat
  <2>1. young \subseteq Kept(k, s)
    OBVIOUS
  <2> QED BY <1>1, <2>1, KeptFinite, FS_Subset, FS_CardinalityType
<1>3. CASE clock >= expires[k]
  <2>1. Calls(k, t) = {}
    BY <1>1, <1>3 DEF WindowInv, CallsLive, Calls, Prompt, TypeOK, Grant, Ticks
  <2>2. collided[k] \in Nat
    BY <1>1, CountsFinite
  <2> QED BY <1>2, <2>1, <2>2, FS_EmptySet
<1>4. CASE ~(clock >= expires[k])
  <2>1. Kept(k, s) = {e \in zset[k] : e.score > s - Window[k]}
    BY <1>4 DEF Kept, Live
  <2>2. zset[k] \subseteq Entry
    BY <1>1 DEF TypeOK
  <2>3. young = Entries(k, t)
    BY <1>1, <2>1, <2>2 DEF Entries, Entry, Ticks
  <2> QED BY <1>2, <2>3 DEF WindowInv, CallsEntered
<1> QED BY <1>2, <1>3, <1>4
(* What a run of the script leaves of the windows from now on. *)
LEMMA ScriptEnters ==
    ASSUME WindowInv, TypeOK', Finite', NEW r \in Requests, req[r].pc \in {"ip", "user"},
           NEW next, NEW refusal, NEW lost, Script(r, next, refusal, lost)
    PROVE  CallsEntered'
<1> PICK key : key = req[r].key
  OBVIOUS
<1> PICK stamp : stamp = req[r].stamp
  OBVIOUS
<1> PICK kept : kept = Kept(key, stamp)
  OBVIOUS
<1>1. /\ TypeOK /\ Finite /\ key \in Keys /\ stamp \in Ticks /\ stamp <= clock
      /\ clock \in Nat /\ stamp \in Nat /\ clock' = clock
  BY Stamped, ScriptExpires DEF WindowInv, StampsPast, TypeOK, Ticks
<1> SUFFICES ASSUME NEW k \in Keys, NEW t \in Int, t >= clock - Window[k]
             PROVE  Cardinality(Calls(k, t)') <= Cardinality(Entries(k, t)') + collided'[k]
  BY <1>1 DEF CallsEntered
<1>2. /\ zset \in [Keys -> SUBSET Entry] /\ admitted \in [Keys -> SUBSET Grant]
      /\ collided \in [Keys -> Nat]
  BY <1>1 DEF TypeOK
<1>3. CASE k # key
  <2>1. zset'[k] = zset[k] /\ admitted'[k] = admitted[k] /\ collided'[k] = collided[k]
    <3>1. CASE Room(key, kept)
      BY <1>1, <1>2, <1>3, <3>1, ScriptGrants
    <3>2. CASE ~Room(key, kept)
      BY <1>1, <1>2, <1>3, <3>2, ScriptRefuses
    <3> QED BY <3>1, <3>2
  <2>2. Calls(k, t)' = Calls(k, t) /\ Entries(k, t)' = Entries(k, t)
    BY <2>1 DEF Calls, Prompt, Entries
  <2> QED BY <2>1, <2>2 DEF WindowInv, CallsEntered
<1>4. CASE k = key
  <2> PICK young : young = {e \in kept : e.score > t}
    OBVIOUS
  <2>1. /\ IsFiniteSet(young) /\ Cardinality(young) \in Nat
        /\ Cardinality(Calls(k, t)) <= Cardinality(young) + collided[k]
    BY <1>1, <1>4, KeptEnough
  <2>2. IsFiniteSet(Calls(k, t)) /\ Cardinality(Calls(k, t)) \in Nat /\ collided[k] \in Nat
    BY <1>1, CountsFinite
  <2>3. CASE ~Room(key, kept)
    <3>1. zset'[k] = kept /\ admitted'[k] = admitted[k] /\ collided'[k] = collided[k]
      BY <1>1, <1>2, <1>4, <2>3, ScriptRefuses
    <3>2. Calls(k, t)' = Calls(k, t) /\ Entries(k, t)' = young
      BY <3>1 DEF Calls, Prompt, Entries
    <3> QED BY <2>1, <3>1, <3>2
  <2>4. CASE Room(key, kept)
    <3> PICK grant : grant = [r |-> r, stamp |-> stamp, prompt |-> stamp = clock, lost |-> lost]
      OBVIOUS
    <3>1. PICK entry \in Entry :
             /\ entry.score = stamp
             /\ zset'[k] = kept \cup {entry}
             /\ collided'[k] = IF entry \in kept THEN collided[k] + 1 ELSE collided[k]
      BY <1>1, <1>2, <1>4, <2>4, ScriptGrants
    <3>2. admitted'[k] = admitted[k] \cup {grant}
      BY <1>1, <1>2, <1>4, <2>4, ScriptGrants
    <3>3. Entries(k, t)' = IF stamp > t THEN young \cup {entry} ELSE young
      BY <3>1 DEF Entries
    <3>4. Calls(k, t)' \subseteq Calls(k, t) \cup {grant}
      BY <3>2 DEF Calls, Prompt
    <3>5. stamp > t \/ Calls(k, t)' = Calls(k, t)
      BY <3>2 DEF Calls, Prompt
    <3>6. IsFiniteSet(Calls(k, t) \cup {grant})
          /\ Cardinality(Calls(k, t) \cup {grant}) \in {Cardinality(Calls(k, t)), Cardinality(Calls(k, t)) + 1}
      BY <2>2, FS_AddElement, Zenon
    <3>7. /\ Cardinality(Calls(k, t)') \in Nat
          /\ Cardinality(Calls(k, t)') <= Cardinality(Calls(k, t) \cup {grant})
      BY <3>4, <3>6, FS_Subset, FS_CardinalityType
    <3>8. CASE stamp > t
      <4>1. Entries(k, t)' = young \cup {entry}
        BY <3>3, <3>8
      <4>2. CASE entry \in kept
        <5>1. young \cup {entry} = young
          BY <3>1, <3>8, <4>2
        <5>2. Cardinality(Entries(k, t)') = Cardinality(young) /\ collided'[k] = collided[k] + 1
          BY <3>1, <4>1, <4>2, <5>1
        <5> QED BY <2>1, <2>2, <3>6, <3>7, <5>2
      <4>3. CASE entry \notin kept
        <5>1. entry \notin young
          BY <4>3
        <5>2. Cardinality(young \cup {entry}) = Cardinality(young) + 1
          BY <2>1, <5>1, FS_AddElement
        <5>3. Cardinality(Entries(k, t)') = Cardinality(young) + 1 /\ collided'[k] = collided[k]
          BY <3>1, <4>1, <4>3, <5>2
        <5> QED BY <2>1, <2>2, <3>6, <3>7, <5>3
      <4> QED BY <4>2, <4>3
    <3>9. CASE ~(stamp > t)
      <4>1. Entries(k, t)' = young /\ Calls(k, t)' = Calls(k, t)
        BY <3>3, <3>5, <3>9
      <4> QED BY <2>1, <2>2, <3>1, <4>1
    <3> QED BY <3>8, <3>9
  <2> QED BY <2>3, <2>4
<1> QED BY <1>3, <1>4

(* A prompt call admitted now is in no window that has ended before. *)
LEMMA PastWindows ==
    ASSUME WindowInv, NEW r \in Requests, req[r].pc \in {"ip", "user"}, NEW next, NEW refusal, NEW lost,
           Script(r, next, refusal, lost), NEW k \in Keys
    PROVE  /\ collided'[k] \in Nat /\ collided'[k] >= collided[k]
           /\ \A x \in Prompt(k)' : x \in Prompt(k) \/ (x.stamp = clock /\ k = req[r].key)
           /\ Prompt(k) \subseteq Prompt(k)'
<1> PICK key : key = req[r].key
  OBVIOUS
<1> PICK stamp : stamp = req[r].stamp
  OBVIOUS
<1>1. TypeOK /\ key \in Keys /\ collided \in [Keys -> Nat] /\ admitted \in [Keys -> SUBSET Grant]
  BY Stamped DEF WindowInv, TypeOK
<1>2. CASE Room(key, Kept(key, stamp))
  <2> PICK grant : grant = [r |-> r, stamp |-> stamp, prompt |-> stamp = clock, lost |-> lost]
    OBVIOUS
  <2>1. admitted' = [admitted EXCEPT ![key] = admitted[key] \cup {grant}]
    BY <1>1, <1>2, ScriptGrants
  <2>2. PICK entry \in Entry : collided' = [collided EXCEPT ![key] =
           IF entry \in Kept(key, stamp) THEN collided[key] + 1 ELSE collided[key]]
    BY <1>1, <1>2, ScriptGrants
  <2>3. collided'[k] \in Nat /\ collided'[k] >= collided[k]
    BY <1>1, <2>2
  <2>4. CASE k = key
    <3>1. admitted'[k] = admitted[k] \cup {grant}
      BY <1>1, <2>1, <2>4
    <3>2. grant.prompt => grant.stamp = clock
      OBVIOUS
    <3>3. Prompt(k)' \subseteq Prompt(k) \cup {x \in {grant} : x.prompt} /\ Prompt(k) \subseteq Prompt(k)'
      BY <3>1 DEF Prompt
    <3> QED BY <2>3, <2>4, <3>2, <3>3
  <2>5. CASE k # key
    BY <1>1, <2>1, <2>3, <2>5 DEF Prompt
  <2> QED BY <2>4, <2>5
<1>3. CASE ~Room(key, Kept(key, stamp))
  <2>1. UNCHANGED <<admitted, collided>>
    BY <1>1, <1>3, ScriptRefuses
  <2> QED BY <1>1, <2>1 DEF Prompt
<1> QED BY <1>2, <1>3

LEMMA ScriptKeepsLimit ==
    ASSUME WindowInv, TypeOK', Finite', NEW r \in Requests, req[r].pc \in {"ip", "user"},
           NEW next, NEW refusal, NEW lost, Script(r, next, refusal, lost), CallsEntered'
    PROVE  CallsLive' /\ ExpiresSoon' /\ WindowLimit'
<1>1. TypeOK /\ req[r].key \in Keys /\ clock \in Nat /\ clock' = clock
      /\ expires' = [expires EXCEPT ![req[r].key] = clock + Window[req[r].key]]
  BY Stamped, ScriptExpires DEF WindowInv, TypeOK, Ticks
<1>2. \A k \in Keys : /\ expires[k] <= expires'[k] /\ expires'[k] <= clock + Window[k]
                      /\ expires[k] \in Nat /\ expires'[k] \in Nat /\ Window[k] \in Nat
  BY <1>1, Constants DEF WindowInv, ExpiresSoon, TypeOK
<1>3. CallsLive'
  <2> SUFFICES ASSUME NEW k \in Keys, NEW x \in Prompt(k)' PROVE x.stamp + Window[k] <= expires'[k]
    BY DEF CallsLive
  <2>1. CASE x \in Prompt(k)
    <3>1. x.stamp + Window[k] <= expires[k] /\ x.stamp \in Nat
      BY <1>1, <2>1 DEF WindowInv, CallsLive, Prompt, TypeOK, Grant, Ticks
    <3> QED BY <1>2, <3>1
  <2>2. CASE x.stamp = clock /\ k = req[r].key
    BY <1>1, <1>2, <2>2 DEF TypeOK
  <2> QED BY <2>1, <2>2, PastWindows
<1>4. NowInLimit'
  BY CurrentWindow, PTL
<1>5. WindowLimit'
  <2> SUFFICES ASSUME NEW k \in Keys, NEW t \in Ticks
               PROVE  Cardinality(InWindow(Prompt(k), k, t)') <= Limit[k] + collided'[k]
    BY DEF WindowLimit
  <2>1. t \in Int /\ Limit[k] \in Nat
    BY Constants DEF Ticks
  <2>2. CASE t >= clock
    BY <1>1, <1>4, <2>1, <2>2 DEF NowInLimit
  <2>3. CASE ~(t >= clock)
    <3>1. InWindow(Prompt(k), k, t)' = InWindow(Prompt(k), k, t)
      BY <1>1, <2>1, <2>3, PastWindows DEF InWindow, TypeOK, Grant, Ticks
    <3>2. collided'[k] \in Nat /\ collided[k] \in Nat /\ collided'[k] >= collided[k]
      BY <1>1, PastWindows DEF TypeOK
    <3>3. Cardinality(InWindow(Prompt(k), k, t)) <= Limit[k] + collided[k]
      BY DEF WindowInv, WindowLimit
    <3>4. Cardinality(InWindow(Prompt(k), k, t)) \in Nat
      <4>1. InWindow(Prompt(k), k, t) \subseteq admitted[k] /\ IsFiniteSet(admitted[k])
        BY DEF InWindow, Prompt, WindowInv, Finite
      <4> QED BY <4>1, FS_Subset, FS_CardinalityType
    <3> QED BY <2>1, <3>1, <3>2, <3>3, <3>4
  <2> QED BY <2>2, <2>3
<1> QED BY <1>1, <1>2, <1>3, <1>5 DEF ExpiresSoon

LEMMA ScriptKeepsInv ==
    ASSUME WindowInv, NEW r \in Requests, req[r].pc \in {"ip", "user"},
           NEW next \in ReqState, next.pc \notin {"ip", "user"} \/ next = req[r],
           NEW refusal \in ReqState, refusal.pc \notin {"ip", "user"} \/ refusal = req[r],
           NEW lost \in 0..MaxFaults, faults' \in 0..MaxFaults, Script(r, next, refusal, lost)
    PROVE  WindowInv'
<1>1. TypeOK /\ Finite /\ req \in [Requests -> ReqState] /\ StampsPast
  BY DEF WindowInv, TypeOK
<1>2. TypeOK' /\ Finite'
  BY <1>1, ScriptTypes
<1>3. CallsEntered'
  BY <1>2, ScriptEnters
<1>4. CallsLive' /\ ExpiresSoon' /\ WindowLimit'
  BY <1>2, <1>3, ScriptKeepsLimit
<1>5. clock' = clock /\ (req' = [req EXCEPT ![r] = next] \/ req' = [req EXCEPT ![r] = refusal])
  BY <1>1, ScriptExpires, ScriptGrants, ScriptRefuses
<1>6. StampsPast'
  BY <1>1, <1>5 DEF StampsPast
<1> QED BY <1>2, <1>3, <1>4, <1>6 DEF WindowInv

LEMMA WindowInit == Init => WindowInv
<1> SUFFICES ASSUME Init PROVE WindowInv
  OBVIOUS
<1>1. TypeOK /\ Finite
  BY TypeInit
<1>2. \A k \in Keys : /\ Limit[k] \in Nat /\ Window[k] \in Nat
                      /\ zset[k] = {} /\ admitted[k] = {} /\ expires[k] = 0 /\ collided[k] = 0
  BY Constants DEF Init
<1>3. clock = 0 /\ \A r \in Requests : req[r].pc = "new"
  BY DEF Init, Idle
<1>4. \A k \in Keys, t \in Int : /\ Calls(k, t) = {} /\ Entries(k, t) = {}
                                 /\ InWindow(Prompt(k), k, t) = {}
  BY <1>2 DEF Calls, Entries, InWindow, Prompt
<1>5. CallsEntered /\ WindowLimit
  <2>1. Cardinality({}) = 0 /\ \A t \in Ticks : t \in Int
    BY FS_EmptySet DEF Ticks
  <2>2. ASSUME NEW k \in Keys, NEW t \in Int
        PROVE  /\ Cardinality(Calls(k, t)) = 0 /\ Cardinality(Entries(k, t)) = 0
               /\ Cardinality(InWindow(Prompt(k), k, t)) = 0
    BY <1>4, <2>1
  <2>3. CallsEntered
    BY <1>2, <2>2 DEF CallsEntered
  <2>4. ASSUME NEW k \in Keys, NEW t \in Ticks
        PROVE  Cardinality(InWindow(Prompt(k), k, t)) <= Limit[k] + collided[k]
    BY <1>2, <2>1, <2>2
  <2> QED BY <2>3, <2>4 DEF WindowLimit
<1>6. StampsPast /\ ExpiresSoon /\ CallsLive
  BY <1>2, <1>3 DEF StampsPast, ExpiresSoon, CallsLive, Prompt
<1> QED BY <1>1, <1>5, <1>6 DEF WindowInv

(* What leaves Redis and the history alone keeps all but the stamps. *)
LEMMA ElsewhereKeepsInv ==
    ASSUME WindowInv, TypeOK', Finite', UNCHANGED <<redis, history>>,
           clock' >= clock, StampsPast'
    PROVE  WindowInv'
<1>1. /\ TypeOK /\ clock \in Nat /\ clock' \in Nat
      /\ UNCHANGED zset /\ UNCHANGED expires /\ UNCHANGED admitted /\ UNCHANGED collided
  BY DEF WindowInv, TypeOK, Ticks, redis, history
<1>2. \A k \in Keys : Window[k] \in Nat /\ expires[k] \in Nat
  BY <1>1, Constants DEF TypeOK
<1>3. CallsEntered'
  <2> SUFFICES ASSUME NEW k \in Keys, NEW t \in Int, t >= clock' - Window[k]
               PROVE  Cardinality(Calls(k, t)') <= Cardinality(Entries(k, t)') + collided'[k]
    BY DEF CallsEntered
  <2>1. t >= clock - Window[k]
    BY <1>1, <1>2
  <2>2. Calls(k, t)' = Calls(k, t) /\ Entries(k, t)' = Entries(k, t) /\ collided'[k] = collided[k]
    BY <1>1 DEF Calls, Entries, Prompt
  <2> QED BY <2>1, <2>2 DEF WindowInv, CallsEntered
<1>4. WindowLimit'
  BY <1>1 DEF WindowInv, WindowLimit, InWindow, Prompt
<1>5. ExpiresSoon' /\ CallsLive'
  BY <1>1, <1>2 DEF WindowInv, ExpiresSoon, CallsLive, Prompt
<1> QED BY <1>3, <1>4, <1>5 DEF WindowInv

LEMMA WindowStep == WindowInv /\ [Next]_vars => WindowInv'
<1> SUFFICES ASSUME WindowInv, [Next]_vars PROVE WindowInv'
  OBVIOUS
<1>1. TypeOK /\ Finite /\ StampsPast /\ clock \in Nat /\ req \in [Requests -> ReqState]
  BY DEF WindowInv, TypeOK, Ticks
<1>2. TypeOK' /\ Finite'
  BY <1>1, TypeStep
<1>3. ASSUME NEW r \in Requests, Arrive(r) PROVE WindowInv'
  <2>1. PICK ip \in IPs, a \in Authors \cup {None} :
           req' = [req EXCEPT ![r] = [pc |-> "ip", key |-> ip, author |-> a, stamp |-> clock]]
    BY <1>3 DEF Arrive, Go
  <2>2. clock' = clock /\ UNCHANGED <<redis, history>>
    BY <1>3 DEF Arrive
  <2>3. StampsPast'
    BY <1>1, <2>1, <2>2 DEF StampsPast
  <2> QED BY <1>1, <1>2, <2>2, <2>3, ElsewhereKeepsInv
<1>4. ASSUME NEW r \in Requests, CheckIP(r) PROVE WindowInv'
  <2>1. PICK next \in ReqState : /\ Script(r, next, Rejected, 0) /\ next.pc \in {"passed", "author"}
                                 /\ req[r].pc = "ip" /\ faults' = faults
    BY <1>1, <1>4, NextTypes DEF CheckIP, Passed
  <2>2. /\ Rejected \in ReqState /\ Rejected.pc = "rejected"
        /\ 0 \in 0..MaxFaults /\ faults' \in 0..MaxFaults
    BY <1>1, <2>1, NextTypes
  <2> QED BY <1>1, <2>1, <2>2, ScriptKeepsInv
<1>5. ASSUME NEW r \in Requests, StampAuthor(r) PROVE WindowInv'
  <2>1. clock' = clock /\ UNCHANGED <<redis, history>>
    BY <1>5 DEF StampAuthor
  <2>2. StampsPast'
    BY <1>1, <1>5, <2>1 DEF StampsPast, StampAuthor, Go
  <2> QED BY <1>1, <1>2, <2>1, <2>2, ElsewhereKeepsInv
<1>6. ASSUME NEW r \in Requests, CheckAuthor(r) PROVE WindowInv'
  <2>1. Script(r, Passed, Rejected, 0) /\ req[r].pc = "user" /\ faults' = faults
    BY <1>6 DEF CheckAuthor
  <2>2. /\ Passed \in ReqState /\ Passed.pc = "passed"
        /\ Rejected \in ReqState /\ Rejected.pc = "rejected"
        /\ 0 \in 0..MaxFaults /\ faults' \in 0..MaxFaults
    BY <1>1, <2>1, NextTypes
  <2> QED BY <1>1, <2>1, <2>2, ScriptKeepsInv
<1>7. ASSUME NEW r \in Requests, FailOpen(r) PROVE WindowInv'
  <2>1. clock' = clock /\ UNCHANGED <<redis, history>>
    BY <1>7 DEF FailOpen
  <2>2. StampsPast'
    BY <1>1, <1>7, <2>1 DEF StampsPast, FailOpen, Go, Passed
  <2> QED BY <1>1, <1>2, <2>1, <2>2, ElsewhereKeepsInv
<1>8. CASE Tick
  <2>1. clock' = clock + 1 /\ UNCHANGED <<redis, history, req>>
    BY <1>8 DEF Tick
  <2>2. StampsPast'
    BY <1>1, <2>1, Stamped DEF StampsPast, Ticks
  <2> QED BY <1>1, <1>2, <2>1, <2>2, ElsewhereKeepsInv
<1>9. CASE UNCHANGED vars
  <2>1. clock' = clock /\ UNCHANGED <<redis, history, req>>
    BY <1>9 DEF vars
  <2>2. StampsPast'
    BY <1>1, <2>1 DEF StampsPast
  <2> QED BY <1>1, <1>2, <2>1, <2>2, ElsewhereKeepsInv
<1>10. ASSUME NEW r \in Requests, LoseAnswer(r) PROVE WindowInv'
  BY <1>1, <1>10, LostAnswer, ScriptKeepsInv DEF Passed
<1> QED BY <1>3, <1>4, <1>5, <1>6, <1>7, <1>8, <1>9, <1>10 DEF Next

(* In every window, whenever it ends, the prompt calls a key admits are its   *)
(* limit at most, and one more for each entry that took another's name.       *)
THEOREM WindowLimitHolds == Spec => []WindowLimit
<1>1. WindowInv => WindowLimit
  BY DEF WindowInv
<1> QED BY <1>1, WindowInit, WindowStep, PTL DEF Spec

-------------------------------------------------------------------------------
(* DeniedOnlyWhenFull.                                                         *)
(*                                                                             *)
(* Every entry of a key stands for an admitted call of the same age: a request *)
(* asks a key again only when an answer was lost, and the history tells such   *)
(* a try by its failure, so each entry that is added comes with a call not     *)
(* yet in the history.                                                         *)

CallsAfter(k, t) == {x \in admitted[k] : x.stamp > t}

NotYet ==
    \A k \in Keys : \A x \in admitted[k] :
        /\ x.lost <= faults
        /\ \/ x.lost > 0
           \/ req[x.r].pc \in {"passed", "rejected"}
           \/ k \in IPs /\ req[x.r].pc \in {"author", "user"}

EntriesCalled ==
    \A k \in Keys, t \in Int : Cardinality(Entries(k, t)) <= Cardinality(CallsAfter(k, t))

DeniedInv == TypeOK /\ Finite /\ NotYet /\ EntriesCalled

LEMMA CallsAfterFinite ==
    ASSUME Finite, NEW k \in Keys, NEW t
    PROVE  IsFiniteSet(CallsAfter(k, t)) /\ Cardinality(CallsAfter(k, t)) \in Nat
<1>1. CallsAfter(k, t) \subseteq admitted[k] /\ IsFiniteSet(admitted[k])
  BY DEF CallsAfter, Finite
<1> QED BY <1>1, FS_Subset, FS_CardinalityType

LEMMA GrantIsNew ==
    ASSUME DeniedInv, NEW r \in Requests, req[r].pc \in {"ip", "user"},
           NEW lost \in 0..MaxFaults, lost = 0 \/ lost = faults + 1
    PROVE  \A x \in admitted[req[r].key] : x.r # r \/ x.lost # lost
<1>1. req[r].key \in Keys /\ (req[r].pc = "user" => req[r].key \in Authors)
  BY Stamped DEF DeniedInv
<1>2. faults \in Nat /\ \A x \in admitted[req[r].key] : x.lost \in Nat
  BY <1>1 DEF DeniedInv, TypeOK, Grant
<1> QED BY <1>1, <1>2, SlidingWindowAssumption DEF DeniedInv, NotYet

LEMMA ScriptKeepsCalled ==
    ASSUME DeniedInv, Finite', NEW r \in Requests, req[r].pc \in {"ip", "user"},
           NEW next, NEW refusal, NEW lost \in 0..MaxFaults, lost = 0 \/ lost = faults + 1,
           Script(r, next, refusal, lost)
    PROVE  EntriesCalled'
<1> PICK key : key = req[r].key
  OBVIOUS
<1> PICK stamp : stamp = req[r].stamp
  OBVIOUS
<1> PICK kept : kept = Kept(key, stamp)
  OBVIOUS
<1>1. /\ TypeOK /\ Finite /\ key \in Keys /\ stamp \in Ticks /\ stamp \in Nat
      /\ zset \in [Keys -> SUBSET Entry] /\ admitted \in [Keys -> SUBSET Grant]
  BY Stamped DEF DeniedInv, TypeOK, Ticks
<1> SUFFICES ASSUME NEW k \in Keys, NEW t \in Int
             PROVE  Cardinality(Entries(k, t)') <= Cardinality(CallsAfter(k, t)')
  BY DEF EntriesCalled
<1>2. /\ Cardinality(Entries(k, t)) <= Cardinality(CallsAfter(k, t))
      /\ IsFiniteSet(Entries(k, t)) /\ Cardinality(Entries(k, t)) \in Nat
      /\ IsFiniteSet(CallsAfter(k, t)) /\ Cardinality(CallsAfter(k, t)) \in Nat
  BY <1>1, CountsFinite, CallsAfterFinite DEF DeniedInv, EntriesCalled
<1>3. CASE k # key
  <2>1. zset'[k] = zset[k] /\ admitted'[k] = admitted[k]
    <3>1. CASE Room(key, kept)
      BY <1>1, <1>3, <3>1, ScriptGrants
    <3>2. CASE ~Room(key, kept)
      BY <1>1, <1>3, <3>2, ScriptRefuses
    <3> QED BY <3>1, <3>2
  <2>2. Entries(k, t)' = Entries(k, t) /\ CallsAfter(k, t)' = CallsAfter(k, t)
    BY <2>1 DEF Entries, CallsAfter
  <2> QED BY <1>2, <2>2
<1>4. CASE k = key
  <2>1. kept \subseteq zset[k]
    BY <1>1, <1>4, KeptFinite
  <2> PICK young : young = {e \in kept : e.score > t}
    OBVIOUS
  <2>2. young \subseteq Entries(k, t)
    BY <2>1 DEF Entries
  <2>3. /\ IsFiniteSet(young) /\ Cardinality(young) \in Nat
        /\ Cardinality(young) <= Cardinality(CallsAfter(k, t))
    BY <1>2, <2>2, FS_Subset, FS_CardinalityType
  <2>4. CASE ~Room(key, kept)
    <3>1. zset'[k] = kept /\ admitted'[k] = admitted[k]
      BY <1>1, <1>4, <2>4, ScriptRefuses
    <3>2. CallsAfter(k, t)' = CallsAfter(k, t) /\ Entries(k, t)' = young
      BY <3>1 DEF CallsAfter, Entries
    <3> QED BY <2>3, <3>2
  <2>5. CASE Room(key, kept)
    <3> PICK grant : grant = [r |-> r, stamp |-> stamp, prompt |-> stamp = clock, lost |-> lost]
      OBVIOUS
    <3>1. PICK entry \in Entry : entry.score = stamp /\ zset'[k] = kept \cup {entry}
      BY <1>1, <1>4, <2>5, ScriptGrants
    <3>2. admitted'[k] = admitted[k] \cup {grant}
      BY <1>1, <1>4, <2>5, ScriptGrants
    <3>3. grant \notin admitted[k]
      BY <1>4, GrantIsNew
    <3>4. CASE stamp > t
      <4>1. Entries(k, t)' = young \cup {entry} /\ CallsAfter(k, t)' = CallsAfter(k, t) \cup {grant}
        BY <3>1, <3>2, <3>4 DEF Entries, CallsAfter
      <4>2. grant \notin CallsAfter(k, t)
        BY <3>3 DEF CallsAfter
      <4>3. Cardinality(CallsAfter(k, t)') = Cardinality(CallsAfter(k, t)) + 1
        <5>1. Cardinality(CallsAfter(k, t) \cup {grant}) = Cardinality(CallsAfter(k, t)) + 1
          BY <1>2, <4>2, FS_AddElement
        <5> QED BY <4>1, <5>1
      <4>4. Cardinality(young \cup {entry}) \in {Cardinality(young), Cardinality(young) + 1}
        BY <2>3, FS_AddElement, Zenon
      <4> QED BY <1>2, <2>3, <4>1, <4>3, <4>4
    <3>5. CASE ~(stamp > t)
      <4>1. Entries(k, t)' = young /\ CallsAfter(k, t)' = CallsAfter(k, t)
        BY <3>1, <3>2, <3>5 DEF Entries, CallsAfter
      <4> QED BY <2>3, <4>1
    <3> QED BY <3>4, <3>5
  <2> QED BY <2>4, <2>5
<1> QED BY <1>3, <1>4

LEMMA ScriptKeepsDenied ==
    ASSUME DeniedInv, NEW r \in Requests, req[r].pc \in {"ip", "user"},
           NEW next \in ReqState, NEW refusal \in ReqState, NEW lost \in 0..MaxFaults,
           Script(r, next, refusal, lost), faults' \in 0..MaxFaults,
           \/ /\ lost = 0 /\ faults' = faults /\ refusal.pc = "rejected"
              /\ next.pc = "passed" \/ (next.pc = "author" /\ req[r].pc = "ip")
           \/ /\ lost = faults + 1 /\ faults' = lost
              /\ next = refusal /\ (next.pc = "passed" \/ next = req[r])
    PROVE  DeniedInv'
<1> PICK key : key = req[r].key
  OBVIOUS
<1>1. /\ TypeOK /\ Finite /\ NotYet /\ req \in [Requests -> ReqState] /\ key \in Keys
      /\ admitted \in [Keys -> SUBSET Grant] /\ (req[r].pc = "ip" => key \in IPs)
  BY Stamped DEF DeniedInv, TypeOK
<1>2. TypeOK' /\ Finite'
  BY <1>1, ScriptTypes
<1>3. EntriesCalled'
  BY <1>2, ScriptKeepsCalled
<1>4. /\ req' = [req EXCEPT ![r] = next] \/ req' = [req EXCEPT ![r] = refusal]
      /\ faults \in Nat /\ faults' \in Nat /\ faults <= faults' /\ lost <= faults' /\ lost \in Nat
  BY <1>1, ScriptGrants, ScriptRefuses DEF DeniedInv, TypeOK
<1>5. ASSUME NEW k \in Keys, NEW x \in admitted[k]
      PROVE  /\ x.lost <= faults'
             /\ \/ x.lost > 0
                \/ req'[x.r].pc \in {"passed", "rejected"}
                \/ k \in IPs /\ req'[x.r].pc \in {"author", "user"}
  <2>1. x \in Grant /\ x.lost \in Nat /\ x.r \in Requests
    BY <1>1 DEF Grant
  <2>2. /\ x.lost <= faults
        /\ \/ x.lost > 0
           \/ req[x.r].pc \in {"passed", "rejected"}
           \/ k \in IPs /\ req[x.r].pc \in {"author", "user"}
    BY <1>1 DEF NotYet
  <2>3. CASE x.r # r
    BY <1>1, <1>4, <2>1, <2>2, <2>3
  <2>4. CASE x.r = r /\ x.lost = 0
    <3>1. req[r].pc = "user" /\ k \in IPs
      BY <2>2, <2>4
    <3>2. req'[r].pc \in {"passed", "rejected", "user"}
      BY <1>1, <1>4, <3>1
    <3> QED BY <1>4, <2>1, <2>2, <2>4, <3>1, <3>2
  <2>5. CASE x.lost > 0
    BY <1>4, <2>1, <2>2, <2>5
  <2> QED BY <2>1, <2>3, <2>4, <2>5
<1>6. NotYet'
  <2> SUFFICES ASSUME NEW k \in Keys, NEW x \in admitted'[k]
               PROVE  /\ x.lost <= faults'
                      /\ \/ x.lost > 0
                         \/ req'[x.r].pc \in {"passed", "rejected"}
                         \/ k \in IPs /\ req'[x.r].pc \in {"author", "user"}
    BY DEF NotYet
  <2>1. CASE ~Room(key, Kept(key, req[r].stamp))
    <3>1. admitted' = admitted
      BY <2>1, ScriptRefuses, <1>1
    <3> QED BY <1>5, <3>1
  <2>2. CASE Room(key, Kept(key, req[r].stamp))
    <3> PICK grant : grant = [r |-> r, stamp |-> req[r].stamp, prompt |-> req[r].stamp = clock,
                              lost |-> lost]
      OBVIOUS
    <3>1. /\ grant.r = r /\ grant.lost = lost
          /\ admitted' = [admitted EXCEPT ![key] = admitted[key] \cup {grant}]
      BY <1>1, <2>2, ScriptGrants
    <3>2. req' = [req EXCEPT ![r] = next]
      BY <1>1, <2>2, ScriptGrants
    <3>3. CASE x \in admitted[k]
      BY <1>5, <3>3
    <3>4. CASE x \notin admitted[k]
      <4>1. k = key /\ x.r = r /\ x.lost = lost
        BY <1>1, <3>1, <3>4
      <4>2. req'[x.r].pc = next.pc
        BY <1>1, <3>2, <4>1
      <4> QED BY <1>1, <1>4, <4>1, <4>2
    <3> QED BY <3>3, <3>4
  <2> QED BY <2>1, <2>2
<1> QED BY <1>2, <1>3, <1>6 DEF DeniedInv

(* A step that runs no script, and takes no request back to an earlier state. *)
LEMMA ElsewhereKeepsDenied ==
    ASSUME DeniedInv, TypeOK', Finite', UNCHANGED <<redis, history>>, NotYet'
    PROVE  DeniedInv'
<1>1. UNCHANGED zset /\ UNCHANGED admitted
  BY DEF redis, history
<1>2. EntriesCalled'
  BY <1>1 DEF DeniedInv, EntriesCalled, Entries, CallsAfter
<1> QED BY <1>2 DEF DeniedInv

LEMMA DeniedInit == Init => DeniedInv
<1> SUFFICES ASSUME Init PROVE DeniedInv
  OBVIOUS
<1>1. TypeOK /\ Finite
  BY TypeInit
<1>2. \A k \in Keys : zset[k] = {} /\ admitted[k] = {}
  BY DEF Init
<1>3. NotYet
  BY <1>2 DEF NotYet
<1>4. Cardinality({}) = 0
  BY FS_EmptySet
<1>5. EntriesCalled
  <2>1. ASSUME NEW k \in Keys, NEW t \in Int
        PROVE  Entries(k, t) = {} /\ CallsAfter(k, t) = {}
    BY <1>2 DEF Entries, CallsAfter
  <2>2. ASSUME NEW k \in Keys, NEW t \in Int
        PROVE  Cardinality(Entries(k, t)) <= Cardinality(CallsAfter(k, t))
    BY <1>4, <2>1
  <2> QED BY <2>2 DEF EntriesCalled
<1> QED BY <1>1, <1>3, <1>5 DEF DeniedInv

LEMMA DeniedStep == DeniedInv /\ [Next]_vars => DeniedInv'
<1> SUFFICES ASSUME DeniedInv, [Next]_vars PROVE DeniedInv'
  OBVIOUS
<1>1. TypeOK /\ Finite /\ NotYet /\ req \in [Requests -> ReqState] /\ admitted \in [Keys -> SUBSET Grant]
  BY DEF DeniedInv, TypeOK
<1>2. TypeOK' /\ Finite'
  BY <1>1, TypeStep
<1>3. ASSUME NEW r \in Requests, Arrive(r) PROVE DeniedInv'
  <2>1. PICK state : req' = [req EXCEPT ![r] = state]
    BY <1>3 DEF Arrive, Go
  <2>2. req[r].pc = "new" /\ UNCHANGED <<redis, history>> /\ admitted' = admitted /\ faults' = faults
    BY <1>3 DEF Arrive, Idle, history
  <2>3. NotYet'
    BY <1>1, <2>1, <2>2 DEF NotYet, Grant
  <2> QED BY <1>2, <2>2, <2>3, ElsewhereKeepsDenied
<1>4. ASSUME NEW r \in Requests, CheckIP(r) PROVE DeniedInv'
  <2>1. PICK next \in ReqState : /\ Script(r, next, Rejected, 0) /\ next.pc \in {"passed", "author"}
                                 /\ req[r].pc = "ip" /\ faults' = faults
    BY <1>1, <1>4, NextTypes DEF CheckIP, Passed
  <2>2. /\ Rejected \in ReqState /\ Rejected.pc = "rejected"
        /\ 0 \in 0..MaxFaults /\ faults' \in 0..MaxFaults
    BY <1>1, <2>1, NextTypes
  <2> QED BY <1>1, <2>1, <2>2, ScriptKeepsDenied
<1>5. ASSUME NEW r \in Requests, StampAuthor(r) PROVE DeniedInv'
  <2>1. req[r].pc = "author" /\ req' = [req EXCEPT ![r] = [pc |-> "user", key |-> req[r].author,
                                            author |-> req[r].author, stamp |-> clock]]
    BY <1>5 DEF StampAuthor, Go
  <2>2. UNCHANGED <<redis, history>> /\ admitted' = admitted /\ faults' = faults
    BY <1>5 DEF StampAuthor, history
  <2>3. NotYet'
    BY <1>1, <2>1, <2>2 DEF NotYet, Grant
  <2> QED BY <1>2, <2>2, <2>3, ElsewhereKeepsDenied
<1>6. ASSUME NEW r \in Requests, CheckAuthor(r) PROVE DeniedInv'
  <2>1. Script(r, Passed, Rejected, 0) /\ req[r].pc = "user" /\ faults' = faults
    BY <1>6 DEF CheckAuthor
  <2>2. /\ Passed \in ReqState /\ Passed.pc = "passed"
        /\ Rejected \in ReqState /\ Rejected.pc = "rejected"
        /\ 0 \in 0..MaxFaults /\ faults' \in 0..MaxFaults
    BY <1>1, <2>1, NextTypes
  <2> QED BY <1>1, <2>1, <2>2, ScriptKeepsDenied
<1>7. ASSUME NEW r \in Requests, FailOpen(r) PROVE DeniedInv'
  <2>1. req' = [req EXCEPT ![r] = [pc |-> "passed"]] /\ faults' = faults + 1
    BY <1>7 DEF FailOpen, Go, Passed
  <2>2. UNCHANGED <<redis, history>> /\ admitted' = admitted
    BY <1>7 DEF FailOpen, history
  <2>3. faults \in Nat /\ \A k \in Keys : \A x \in admitted[k] : x.lost \in Nat /\ x.r \in Requests
    BY <1>1 DEF TypeOK, Grant
  <2>4. NotYet'
    BY <1>1, <2>1, <2>2, <2>3 DEF NotYet
  <2> QED BY <1>2, <2>2, <2>4, ElsewhereKeepsDenied
<1>8. CASE Tick
  <2>1. UNCHANGED <<redis, history>> /\ admitted' = admitted /\ req' = req /\ faults' = faults
    BY <1>8 DEF Tick, history
  <2>2. NotYet'
    BY <1>1, <2>1 DEF NotYet
  <2> QED BY <1>2, <2>1, <2>2, ElsewhereKeepsDenied
<1>9. CASE UNCHANGED vars
  <2>1. UNCHANGED <<redis, history>> /\ admitted' = admitted /\ req' = req /\ faults' = faults
    BY <1>9 DEF vars, history
  <2>2. NotYet'
    BY <1>1, <2>1 DEF NotYet
  <2> QED BY <1>2, <2>1, <2>2, ElsewhereKeepsDenied
<1>10. ASSUME NEW r \in Requests, LoseAnswer(r) PROVE DeniedInv'
  <2>1. PICK state \in ReqState :
           /\ req[r].pc \in {"ip", "user"} /\ faults' = faults + 1 /\ faults' \in 0..MaxFaults
           /\ faults + 1 \in 0..MaxFaults
           /\ state = req[r] \/ state = Passed
           /\ Script(r, state, state, faults + 1)
    BY <1>1, <1>10, LostAnswer
  <2>2. state.pc = "passed" \/ state = req[r]
    BY <2>1 DEF Passed
  <2> QED BY <2>1, <2>2, ScriptKeepsDenied
<1> QED BY <1>3, <1>4, <1>5, <1>6, <1>7, <1>8, <1>9, <1>10 DEF Next

(* Only a script that finds no room refuses. *)
LEMMA RefusedFull ==
    ASSUME DeniedInv, [Next]_vars, NEW r \in Requests,
           req'[r].pc = "rejected", req[r].pc # "rejected"
    PROVE  req[r].pc \in {"ip", "user"} /\ ~Room(req[r].key, Kept(req[r].key, req[r].stamp))
<1>1. TypeOK /\ req \in [Requests -> ReqState]
  BY DEF DeniedInv, TypeOK
<1>2. ASSUME NEW q \in Requests, NEW next, NEW refusal, NEW lost, Script(q, next, refusal, lost),
             req[q].pc \in {"ip", "user"}, next.pc # "rejected"
      PROVE  q = r /\ ~Room(req[q].key, Kept(req[q].key, req[q].stamp))
  <2>1. CASE Room(req[q].key, Kept(req[q].key, req[q].stamp))
    <3>1. req' = [req EXCEPT ![q] = next]
      BY <1>1, <1>2, <2>1, ScriptGrants
    <3> QED BY <1>1, <1>2, <3>1
  <2>2. CASE ~Room(req[q].key, Kept(req[q].key, req[q].stamp))
    <3>1. req' = [req EXCEPT ![q] = refusal]
      BY <1>1, <1>2, <2>2, ScriptRefuses
    <3> QED BY <1>1, <2>2, <3>1
  <2> QED BY <2>1, <2>2
<1>3. ASSUME NEW q \in Requests, Arrive(q) \/ StampAuthor(q) \/ FailOpen(q) PROVE FALSE
  BY <1>1, <1>3 DEF Arrive, StampAuthor, FailOpen, Go, Passed
<1>4. ASSUME NEW q \in Requests, CheckIP(q) \/ CheckAuthor(q) PROVE q = r /\ req[q].pc \in {"ip", "user"}
                                                /\ ~Room(req[q].key, Kept(req[q].key, req[q].stamp))
  BY <1>2, <1>4 DEF CheckIP, CheckAuthor, Passed
<1>5. ~Tick /\ ~UNCHANGED vars
  BY DEF Tick, vars
<1>6. ASSUME NEW q \in Requests, LoseAnswer(q) PROVE q = r /\ req[q].pc \in {"ip", "user"}
                                                /\ ~Room(req[q].key, Kept(req[q].key, req[q].stamp))
  <2>1. PICK state \in ReqState : /\ req[q].pc \in {"ip", "user"} /\ state.pc # "rejected"
                                  /\ Script(q, state, state, faults + 1)
    BY <1>1, <1>6, LostAnswer DEF Passed
  <2> QED BY <1>2, <2>1
<1> QED BY <1>3, <1>4, <1>5, <1>6 DEF Next

LEMMA DeniedAction ==
    ASSUME DeniedInv, [Next]_vars, NEW r \in Requests,
           req'[r].pc = "rejected", req[r].pc # "rejected"
    PROVE  Cardinality({x \in admitted[req[r].key] : x.stamp > req[r].stamp - Window[req[r].key]})
              >= Limit[req[r].key]
<1> PICK key : key = req[r].key
  OBVIOUS
<1> PICK t : t = req[r].stamp - Window[key]
  OBVIOUS
<1>1. req[r].pc \in {"ip", "user"} /\ ~Room(key, Kept(key, req[r].stamp))
  BY RefusedFull
<1>2. TypeOK /\ Finite /\ key \in Keys /\ req[r].stamp \in Ticks /\ zset[key] \subseteq Entry
  BY <1>1, Stamped DEF DeniedInv, TypeOK
<1>3. t \in Int /\ Limit[key] \in Nat
  BY <1>2, Constants DEF Ticks
<1>4. Kept(key, req[r].stamp) \subseteq Entries(key, t)
  BY <1>2 DEF Kept, Live, Entries
<1>5. Cardinality(Kept(key, req[r].stamp)) \in Nat
      /\ Cardinality(Kept(key, req[r].stamp)) <= Cardinality(Entries(key, t))
  BY <1>2, <1>4, KeptFinite, CountsFinite, FS_Subset
<1>6. Cardinality(Entries(key, t)) <= Cardinality(CallsAfter(key, t))
  BY <1>2, <1>3 DEF DeniedInv, EntriesCalled
<1>7. Cardinality(CallsAfter(key, t)) >= Limit[key]
  BY <1>1, <1>2, <1>3, <1>5, <1>6, CountsFinite, CallsAfterFinite DEF Room
<1> QED BY <1>7 DEF CallsAfter

(* A request is refused only when calls that were admitted fill its window:   *)
(* however requests interleave, expire and fail, a refused call never counts  *)
(* against a later one.                                                       *)
THEOREM DeniedRight == Spec => DeniedOnlyWhenFull
<1> DEFINE Refusals ==
      \A r \in Requests : req'[r].pc = "rejected" /\ req[r].pc # "rejected" =>
          LET key == req[r].key
          IN Cardinality({x \in admitted[key] : x.stamp > req[r].stamp - Window[key]}) >= Limit[key]
<1>1. DeniedInv /\ [Next]_vars => [Refusals]_vars
  BY DeniedAction
<1> QED BY <1>1, DeniedInit, DeniedStep, PTL DEF Spec, DeniedOnlyWhenFull

-------------------------------------------------------------------------------
(* The mail quota: the records of its requests. *)

LEMMA MailRecords ==
    /\ New \in MailState /\ Gone \in MailState
    /\ \A d \in Days : [pc |-> "observe", today |-> d] \in MailState
    /\ \A d \in Days, o \in Nat : [pc |-> "swap", today |-> d, observed |-> o] \in MailState
    /\ [pc |-> "clear"] \in MailState /\ [pc |-> "count"] \in MailState
    /\ \A pc \in {"refuse", "chain", "sent"}, c \in Nat :
          [pc |-> pc, clearing |-> c] \in MailState
  BY DEF MailState, New, Gone

LEMMA MailFields ==
    ASSUME NEW q \in MailState
    PROVE  /\ q.pc \in {"new", "gone", "observe", "swap", "clear", "count", "refuse", "chain", "sent"}
           /\ q.pc = "new" => q = New
           /\ q.pc \in {"observe", "swap"} => q.today \in Days
           /\ q.pc = "swap" => q.observed \in Nat
           /\ q.pc \in {"refuse", "chain", "sent"} =>
                 q.clearing \in Nat /\ q = [pc |-> q.pc, clearing |-> q.clearing]
  BY DEF MailState, New, Gone

(* What a step of request r makes of the requests. *)
LEMMA GotoMail ==
    ASSUME MailTypeOK, NEW r \in Mails, NEW state \in MailState, Goto(r, state)
    PROVE  /\ mail' \in [Mails -> MailState]
           /\ mail'[r] = state
           /\ \A q \in Mails \ {r} : mail'[q] = mail[q]
  BY DEF Goto, MailTypeOK

-------------------------------------------------------------------------------
LEMMA MailTypeInit == MailInit => MailTypeOK
  BY EmailQuotaAssumption, MailRecords DEF MailInit, MailTypeOK, Days, New

LEMMA MailTypeStep == MailTypeOK /\ [MailNext]_mailVars => MailTypeOK'
<1> SUFFICES ASSUME MailTypeOK, [MailNext]_mailVars PROVE MailTypeOK'
  OBVIOUS
<1> USE EmailQuotaAssumption
<1> DEFINE Recorded == \A r \in Mails :
                         mail[r].pc \in {"refuse", "chain", "sent"} => mail[r].clearing <= clearing
<1>1. ASSUME NEW r \in Mails, NEW state \in MailState, Goto(r, state),
             clearing' \in Nat, clearing <= clearing',
             state.pc \in {"refuse", "chain", "sent"} => state.clearing <= clearing'
      PROVE  mail' \in [Mails -> MailState] /\ Recorded'
  <2>1. /\ mail' \in [Mails -> MailState]
        /\ mail'[r] = state
        /\ \A q \in Mails \ {r} : mail'[q] = mail[q]
    BY <1>1, GotoMail
  <2>2. ASSUME NEW q \in Mails, mail'[q].pc \in {"refuse", "chain", "sent"}
        PROVE  mail'[q].clearing <= clearing'
    <3>1. CASE q = r
      BY <1>1, <2>1, <2>2, <3>1
    <3>2. CASE q # r
      <4>1. mail[q].clearing \in Nat /\ mail[q].clearing <= clearing /\ mail'[q] = mail[q]
        BY <2>1, <2>2, <3>2, MailFields DEF MailTypeOK
      <4> QED BY <1>1, <4>1 DEF MailTypeOK
    <3> QED BY <3>1, <3>2
  <2> QED BY <2>1, <2>2
<1>2. ASSUME NEW r \in Mails, Today(r) PROVE MailTypeOK'
  <2> DEFINE k == [pc |-> "observe", today |-> today]
  <2>1. k \in MailState /\ k.pc = "observe"
    BY MailRecords DEF MailTypeOK
  <2>2. mail' \in [Mails -> MailState] /\ Recorded'
    BY <1>1, <1>2, <2>1 DEF Today, mailHistory, MailTypeOK
  <2> QED BY <1>2, <2>2 DEF Today, mailHistory, MailTypeOK
<1>3. ASSUME NEW r \in Mails, Observe(r) PROVE MailTypeOK'
  <2> DEFINE k == IF mail[r].today = currentDay THEN [pc |-> "count"]
                  ELSE [pc |-> "swap", today |-> mail[r].today, observed |-> swap]
  <2>1. mail[r].today \in Days
    BY <1>3, MailFields DEF Observe, MailTypeOK
  <2>2. k \in MailState /\ k.pc \in {"count", "swap"}
    BY <2>1, MailRecords DEF MailTypeOK
  <2>3. mail' \in [Mails -> MailState] /\ Recorded'
    BY <1>1, <1>3, <2>2 DEF Observe, mailHistory, MailTypeOK
  <2> QED BY <1>3, <2>3 DEF Observe, mailHistory, MailTypeOK
<1>4. ASSUME NEW r \in Mails, CompareAndSet(r) PROVE MailTypeOK'
  <2>1. mail[r].today \in Days
    BY <1>4, MailFields DEF CompareAndSet, MailTypeOK
  <2>2. \E pc \in {"clear", "count"} : Goto(r, [pc |-> pc])
    BY <1>4 DEF CompareAndSet, Rotate
  <2>3. mail' \in [Mails -> MailState] /\ Recorded'
    BY <1>1, <1>4, <2>2, MailRecords DEF CompareAndSet, MailTypeOK
  <2>4. currentDay' \in Days /\ swap' \in Nat /\ back' \in Nat /\ opened' \in [Days -> Nat]
    <3>1. CASE Rotate(r)
      <4>1. back' \in Nat
        <5>1. CASE mail[r].today < currentDay
          BY <3>1, <5>1 DEF Rotate, MailTypeOK
        <5>2. CASE ~(mail[r].today < currentDay)
          BY <3>1, <5>2 DEF Rotate, MailTypeOK
        <5> QED BY <5>1, <5>2
      <4>2. opened[mail[r].today] + 1 \in Nat
        BY <2>1 DEF MailTypeOK
      <4> QED BY <2>1, <3>1, <4>1, <4>2 DEF Rotate, MailTypeOK
    <3>2. CASE UNCHANGED <<currentDay, swap, opened, back>>
      BY <3>2 DEF MailTypeOK
    <3> QED BY <1>4, <3>1, <3>2 DEF CompareAndSet
  <2> QED BY <1>4, <2>3, <2>4 DEF CompareAndSet, MailTypeOK
<1>5. ASSUME NEW r \in Mails, Clear(r) PROVE MailTypeOK'
  <2>1. mail' \in [Mails -> MailState] /\ Recorded'
    BY <1>1, <1>5, MailRecords DEF Clear, MailTypeOK
  <2> QED BY <1>5, <2>1 DEF Clear, MailTypeOK
<1>6. ASSUME NEW r \in Mails, Count(r) PROVE MailTypeOK'
  <2> DEFINE k == [pc |-> IF Over(successCount + 1) THEN "refuse" ELSE "chain",
                   clearing |-> clearing]
  <2>1. k \in MailState /\ k.clearing = clearing
    BY MailRecords DEF MailTypeOK
  <2>2. mail' \in [Mails -> MailState] /\ Recorded'
    BY <1>1, <1>6, <2>1 DEF Count, mailHistory, MailTypeOK
  <2> QED BY <1>6, <2>2 DEF Count, mailHistory, MailTypeOK
<1>7. ASSUME NEW r \in Mails, Refuse(r) \/ Failed(r) PROVE MailTypeOK'
  <2>1. GiveBack(r)
    BY <1>7 DEF Refuse, Failed
  <2>2. Gone \in MailState /\ Gone.pc = "gone"
    BY MailRecords DEF Gone
  <2>3. mail' \in [Mails -> MailState] /\ Recorded'
    BY <1>1, <2>1, <2>2 DEF GiveBack, MailTypeOK
  <2> QED BY <2>1, <2>3 DEF GiveBack, MailTypeOK
<1>8. ASSUME NEW r \in Mails, Sent(r) PROVE MailTypeOK'
  <2> DEFINE k == [mail[r] EXCEPT !.pc = "sent"]
  <2>1. mail[r].clearing \in Nat /\ mail[r].clearing <= clearing
    BY <1>8, MailFields DEF Sent, MailTypeOK
  <2>2. k = [pc |-> "sent", clearing |-> mail[r].clearing]
    BY <1>8, MailFields DEF Sent, MailTypeOK
  <2>3. k \in MailState /\ k.clearing <= clearing
    BY <2>1, <2>2, MailRecords
  <2>4. Goto(r, k) /\ clearing' = clearing
    BY <1>8 DEF Sent, mailHistory
  <2> HIDE DEF k
  <2>5. clearing' \in Nat /\ clearing <= clearing' /\ k.clearing <= clearing'
    BY <2>3, <2>4 DEF MailTypeOK
  <2>6. mail' \in [Mails -> MailState] /\ Recorded'
    BY <1>1, <2>3, <2>4, <2>5
  <2> QED BY <1>8, <2>6 DEF Sent, mailHistory, MailTypeOK
<1>9. CASE Midnight
  BY <1>9 DEF Midnight, mailHistory, MailTypeOK, Days
<1>10. CASE Restart
  <2>1. /\ mail' \in [Mails -> MailState]
        /\ \A r \in Mails : mail'[r] \in {mail[r], Gone}
    BY <1>10, MailRecords DEF Restart, MailTypeOK
  <2>2. ASSUME NEW r \in Mails, mail'[r].pc \in {"refuse", "chain", "sent"}
        PROVE  mail'[r].clearing <= clearing'
    <3>1. mail'[r] = mail[r]
      BY <2>1, <2>2 DEF Gone
    <3>2. mail[r].clearing \in Nat /\ mail[r].clearing <= clearing
      BY <2>2, <3>1, MailFields DEF MailTypeOK
    <3> QED BY <1>10, <3>1, <3>2 DEF Restart, MailTypeOK
  <2> QED BY <1>10, <2>1, <2>2 DEF Restart, MailTypeOK, Days
<1>11. CASE UNCHANGED mailVars
  BY <1>11 DEF mailVars, mailHistory, MailTypeOK
<1> QED
  BY <1>2, <1>3, <1>4, <1>5, <1>6, <1>7, <1>8, <1>9, <1>10, <1>11 DEF MailNext

(* Every variable keeps its type. *)
THEOREM MailTypeCorrect == MailSpec => []MailTypeOK
  BY MailTypeInit, MailTypeStep, PTL DEF MailSpec

-------------------------------------------------------------------------------
(* The counter and the limit.  SendLimit needs the exact account of the        *)
(* counter: what a request sees when it counts itself bounds those let through *)
(* only because the counter holds every one of them.                           *)

CountInv == MailTypeOK /\ CountExact /\ SendLimit

Holds(q) == q.pc \in {"refuse", "chain", "sent"} /\ q.clearing = clearing

LEMMA HoldingFinite ==
    /\ IsFiniteSet(Holding) /\ Cardinality(Holding) \in Nat
    /\ IsFiniteSet(Admitted) /\ Cardinality(Admitted) \in Nat
    /\ Cardinality(Admitted) <= Cardinality(Holding)
<1>1. Holding \subseteq Mails /\ Admitted \subseteq Holding
  BY DEF Holding, Admitted
<1> QED BY <1>1, EmailQuotaAssumption, FS_Subset, FS_CardinalityType

(* A step of a request that neither counts itself nor gives anything back. *)
LEMMA NoCount ==
    ASSUME MailTypeOK, CountExact, SendLimit, NEW r \in Mails, NEW state \in MailState,
           Goto(r, state), UNCHANGED <<successCount, clearing, late>>,
           Holds(mail[r]) <=> Holds(state), mail[r].pc # "refuse", state.pc # "refuse"
    PROVE  CountExact' /\ SendLimit'
<1>1. /\ mail'[r] = state
      /\ \A q \in Mails \ {r} : mail'[q] = mail[q]
  BY GotoMail
<1>2. Holding' = Holding /\ Admitted' = Admitted
  BY <1>1 DEF Holding, Admitted, Holds
<1> QED BY <1>2 DEF CountExact, SendLimit

(* A cleared counter holds nobody. *)
LEMMA Cleared ==
    ASSUME MailTypeOK,
           successCount' = 0, late' = 0, clearing' = clearing + 1,
           \A q \in Mails : mail'[q] = mail[q] \/ mail'[q].pc \in {"count", "gone"}
    PROVE  CountExact' /\ SendLimit'
<1>1. \A q \in Mails : mail[q].pc \in {"refuse", "chain", "sent"} => mail[q].clearing # clearing + 1
  BY MailFields DEF MailTypeOK
<1>2. Holding' = {} /\ Admitted' = {}
  BY <1>1 DEF Holding, Admitted
<1>3. Cardinality(Holding') = 0 /\ Cardinality(Admitted') = 0
  BY <1>2, FS_EmptySet
<1> QED BY <1>3, EmailQuotaAssumption DEF CountExact, SendLimit

LEMMA CountStep == CountInv /\ [MailNext]_mailVars => CountInv'
<1> SUFFICES ASSUME MailTypeOK, CountExact, SendLimit, [MailNext]_mailVars
             PROVE  CountExact' /\ SendLimit'
  BY MailTypeStep DEF CountInv
<1>1. ASSUME NEW r \in Mails, Today(r) \/ Observe(r) PROVE CountExact' /\ SendLimit'
  <2>1. PICK state : /\ Goto(r, state)
                     /\ state.pc \in {"observe", "count", "swap"}
                     /\ mail[r].pc \in {"new", "observe"}
    BY <1>1 DEF Today, Observe, New
  <2>2. state \in MailState
    <3>1. mail' \in [Mails -> MailState] /\ mail'[r] = state
      BY <2>1, MailTypeStep DEF MailTypeOK, Goto
    <3> QED BY <3>1
  <2>3. UNCHANGED <<successCount, clearing, late>>
    BY <1>1 DEF Today, Observe, mailHistory
  <2> QED BY <2>1, <2>2, <2>3, NoCount DEF Holds
<1>2. ASSUME NEW r \in Mails, CompareAndSet(r) PROVE CountExact' /\ SendLimit'
  <2>1. PICK pc \in {"clear", "count"} : Goto(r, [pc |-> pc])
    BY <1>2 DEF CompareAndSet, Rotate
  <2>2. UNCHANGED <<successCount, clearing, late>> /\ mail[r].pc = "swap"
    BY <1>2 DEF CompareAndSet
  <2> QED BY <2>1, <2>2, MailRecords, NoCount DEF Holds
<1>3. ASSUME NEW r \in Mails, Clear(r) PROVE CountExact' /\ SendLimit'
  BY <1>3, Cleared DEF Clear, Goto, MailTypeOK
<1>4. ASSUME NEW r \in Mails, Count(r) PROVE CountExact' /\ SendLimit'
  <2> DEFINE k == [pc |-> IF Over(successCount + 1) THEN "refuse" ELSE "chain",
                   clearing |-> clearing]
  <2>1. /\ mail[r].pc = "count" /\ mail'[r] = k
        /\ \A q \in Mails \ {r} : mail'[q] = mail[q]
        /\ successCount' = successCount + 1
        /\ UNCHANGED <<clearing, late>>
    BY <1>4 DEF Count, Goto, MailTypeOK, mailHistory
  <2>2. Holding' = Holding \cup {r} /\ r \notin Holding
    BY <2>1 DEF Holding
  <2>3. Cardinality(Holding') = Cardinality(Holding) + 1
    BY <2>2, HoldingFinite, FS_AddElement
  <2>4. CountExact'
    BY <2>1, <2>3, HoldingFinite DEF CountExact, MailTypeOK
  <2>5. CASE Over(successCount + 1)
    <3>1. Admitted' = Admitted
      BY <2>1, <2>2, <2>5 DEF Admitted, Holding
    <3> QED BY <2>1, <2>4, <3>1 DEF SendLimit
  <2>6. CASE ~Over(successCount + 1)
    <3>1. successCount' <= DailyLimit
      BY <2>1, <2>6, EmailQuotaAssumption DEF Over, MailTypeOK
    <3>2. /\ Cardinality(Holding') \in Nat /\ Cardinality(Admitted') \in Nat
          /\ Cardinality(Admitted') <= Cardinality(Holding')
      <4>1. Admitted' \subseteq Holding' /\ IsFiniteSet(Holding')
        BY <2>2, HoldingFinite, FS_AddElement DEF Admitted
      <4> QED BY <4>1, FS_Subset, FS_CardinalityType
    <3>3. Cardinality(Holding') = successCount' + late'
      BY <2>1, <2>4, <3>2 DEF CountExact, MailTypeOK
    <3>4. SendLimit'
      BY <2>1, <3>1, <3>2, <3>3, EmailQuotaAssumption DEF SendLimit, MailTypeOK
    <3> QED BY <2>4, <3>4
  <2> QED BY <2>5, <2>6
<1>5. ASSUME NEW r \in Mails, Refuse(r) \/ Failed(r) PROVE CountExact' /\ SendLimit'
  <2>1. /\ mail[r].pc \in {"refuse", "chain"} /\ mail'[r] = Gone
        /\ \A q \in Mails \ {r} : mail'[q] = mail[q]
        /\ successCount' = successCount - 1
        /\ late' = late + IF mail[r].clearing = clearing THEN 0 ELSE 1
        /\ UNCHANGED clearing
    BY <1>5 DEF Refuse, Failed, GiveBack, Goto, MailTypeOK
  <2>2. CASE mail[r].clearing = clearing
    <3>1. r \in Holding /\ Holding' = Holding \ {r}
      BY <2>1, <2>2 DEF Holding, Gone
    <3>2. Cardinality(Holding') = Cardinality(Holding) - 1
      BY <3>1, HoldingFinite, FS_RemoveElement
    <3>3. Admitted' \subseteq Admitted
      <4>1. \A q \in Holding' : q \in Holding /\ mail'[q] = mail[q]
        BY <2>1, <3>1 DEF Holding
      <4> QED BY <4>1 DEF Admitted
    <3>4. Cardinality(Admitted') \in Nat /\ Cardinality(Admitted') <= Cardinality(Admitted)
      BY <3>3, HoldingFinite, FS_Subset, FS_CardinalityType
    <3>5. late' = late
      BY <2>1, <2>2 DEF MailTypeOK
    <3>6. CountExact'
      BY <2>1, <3>2, <3>5, HoldingFinite DEF CountExact, MailTypeOK
    <3>7. SendLimit'
      BY <3>4, <3>5, HoldingFinite, EmailQuotaAssumption DEF SendLimit, MailTypeOK
    <3> QED BY <3>6, <3>7
  <2>3. CASE mail[r].clearing # clearing
    <3>1. Holding' = Holding /\ Admitted' = Admitted
      BY <2>1, <2>3 DEF Holding, Admitted, Gone
    <3>2. late' = late + 1
      BY <2>1, <2>3
    <3> QED BY <2>1, <3>1, <3>2, HoldingFinite, EmailQuotaAssumption
            DEF CountExact, SendLimit, MailTypeOK
  <2> QED BY <2>2, <2>3
<1>6. ASSUME NEW r \in Mails, Sent(r) PROVE CountExact' /\ SendLimit'
  <2> DEFINE k == [mail[r] EXCEPT !.pc = "sent"]
  <2>1. mail[r].pc = "chain" /\ mail[r].clearing \in Nat
    BY <1>6, MailFields DEF Sent, MailTypeOK
  <2>2. k = [pc |-> "sent", clearing |-> mail[r].clearing]
    BY <2>1, MailFields DEF MailTypeOK
  <2>3. k \in MailState /\ k.pc = "sent" /\ k.clearing = mail[r].clearing
    BY <2>1, <2>2, MailRecords
  <2>4. Goto(r, k) /\ UNCHANGED <<successCount, clearing, late>>
    BY <1>6 DEF Sent, mailHistory
  <2>5. (Holds(mail[r]) <=> Holds(k)) /\ k.pc # "refuse" /\ mail[r].pc # "refuse"
    BY <2>1, <2>3 DEF Holds
  <2> HIDE DEF k
  <2> QED BY <2>3, <2>4, <2>5, NoCount
<1>7. CASE Midnight \/ UNCHANGED mailVars
  <2>1. UNCHANGED <<successCount, mail, clearing, late>>
    BY <1>7 DEF Midnight, mailVars, mailHistory
  <2> QED BY <2>1 DEF CountExact, SendLimit, Holding, Admitted
<1>8. CASE Restart
  BY <1>8, Cleared DEF Restart, MailTypeOK, Gone
<1> QED BY <1>1, <1>2, <1>3, <1>4, <1>5, <1>6, <1>7, <1>8 DEF MailNext

LEMMA CountHolds == MailSpec => []CountInv
<1>1. MailInit => CountInv
  <2> SUFFICES ASSUME MailInit PROVE CountInv
    OBVIOUS
  <2>1. Holding = {} /\ Admitted = {}
    BY DEF MailInit, Holding, Admitted, New
  <2>2. Cardinality(Holding) = 0 /\ Cardinality(Admitted) = 0
    BY <2>1, FS_EmptySet
  <2> QED BY <2>2, MailTypeInit, EmailQuotaAssumption DEF MailInit, CountInv, CountExact, SendLimit
<1> QED BY <1>1, CountStep, PTL DEF MailSpec

(* No count is lost or given back twice, whatever the requests, midnights and *)
(* restarts between a count and its return.                                   *)
THEOREM CountIsExact == MailSpec => []CountExact
<1>1. CountInv => CountExact
  BY DEF CountInv
<1> QED BY <1>1, CountHolds, PTL

(* So between two clearings the limit holds, but for counts of earlier        *)
(* requests that come back late.                                              *)
THEOREM LimitKept == MailSpec => []SendLimit
<1>1. CountInv => SendLimit
  BY DEF CountInv
<1> QED BY <1>1, CountHolds, PTL

-------------------------------------------------------------------------------
(* A day is begun once.  A day after the counter's has not been begun unless   *)
(* the counter was set back, and a request that may still swap does so to a    *)
(* day other than the counter's.                                               *)

BegunInv ==
    /\ MailTypeOK
    /\ \A d \in Days : opened[d] <= back + restarts + IF d <= currentDay THEN 1 ELSE 0
    /\ \A r \in Mails : mail[r].pc = "swap" =>
          /\ mail[r].observed <= swap
          /\ mail[r].observed = swap => mail[r].today # currentDay

LEMMA Numbers ==
    ASSUME MailTypeOK
    PROVE  /\ Days \subseteq Int /\ currentDay \in Int /\ today \in Int
           /\ back \in Nat /\ restarts \in Nat /\ swap \in Nat
           /\ \A e \in Days : opened[e] \in Nat
<1>1. Days \subseteq Int
  BY DEF Days
<1>2. restarts \in Nat
  BY EmailQuotaAssumption DEF MailTypeOK
<1>3. \A e \in Days : opened[e] \in Nat
  BY DEF MailTypeOK
<1> QED BY <1>1, <1>2, <1>3 DEF MailTypeOK

LEMMA BegunStep == BegunInv /\ [MailNext]_mailVars => BegunInv'
<1> SUFFICES ASSUME BegunInv, [MailNext]_mailVars PROVE BegunInv'
  OBVIOUS
<1> DEFINE Begun    == \A d \in Days :
                          opened[d] <= back + restarts + IF d <= currentDay THEN 1 ELSE 0
           Swaps(r) == mail[r].pc = "swap" => /\ mail[r].observed <= swap
                                              /\ mail[r].observed = swap => mail[r].today # currentDay
<1>1. MailTypeOK /\ MailTypeOK' /\ Begun /\ \A r \in Mails : Swaps(r)
  BY MailTypeStep DEF BegunInv
<1>2. SUFFICES Begun' /\ \A r \in Mails : Swaps(r)'
  BY <1>1 DEF BegunInv
<1>3. CASE UNCHANGED <<currentDay, swap, opened, back, restarts>>
           /\ \E r \in Mails : \E state : Goto(r, state) /\ state.pc # "swap"
  <2>1. Begun'
    BY <1>1, <1>3
  <2>0. PICK r \in Mails : \E state : Goto(r, state) /\ state.pc # "swap"
    BY <1>3
  <2>2. PICK state : Goto(r, state) /\ state.pc # "swap"
    BY <2>0
  <2>3. \A q \in Mails : mail'[q] = IF q = r THEN state ELSE mail[q]
    BY <1>1, <2>2 DEF Goto, MailTypeOK
  <2>4. \A q \in Mails : Swaps(q)'
    BY <1>1, <1>3, <2>2, <2>3
  <2> QED BY <2>1, <2>4
<1>4. ASSUME NEW r \in Mails,
             Today(r) \/ Clear(r) \/ Count(r) \/ Refuse(r) \/ Failed(r) \/ Sent(r)
      PROVE  Begun' /\ \A q \in Mails : Swaps(q)'
  <2>1. UNCHANGED <<currentDay, swap, opened, back, restarts>>
    BY <1>4 DEF Today, Clear, Count, Refuse, Failed, Sent, GiveBack, mailHistory
  <2>2. \E state : Goto(r, state) /\ state.pc # "swap"
    <3>1. CASE Today(r)
      BY <3>1 DEF Today
    <3>2. CASE Clear(r)
      BY <3>2 DEF Clear
    <3>3. CASE Count(r)
      BY <3>3 DEF Count
    <3>4. CASE Refuse(r) \/ Failed(r)
      BY <3>4 DEF Refuse, Failed, GiveBack, Gone
    <3>5. CASE Sent(r)
      <4>1. mail[r].pc = "chain" /\ Goto(r, [mail[r] EXCEPT !.pc = "sent"])
        BY <3>5 DEF Sent
      <4>2. [mail[r] EXCEPT !.pc = "sent"].pc = "sent"
        BY <4>1, MailFields DEF MailTypeOK
      <4> QED BY <4>1, <4>2
    <3> QED BY <1>4, <3>1, <3>2, <3>3, <3>4, <3>5
  <2> QED BY <1>3, <2>1, <2>2
<1>5. ASSUME NEW r \in Mails, Observe(r) PROVE Begun' /\ \A q \in Mails : Swaps(q)'
  <2>1. UNCHANGED <<currentDay, swap, opened, back, restarts>>
    BY <1>5 DEF Observe, mailHistory
  <2>2. \A q \in Mails : mail'[q] = IF q = r THEN
                                         IF mail[r].today = currentDay THEN [pc |-> "count"]
                                         ELSE [pc |-> "swap", today |-> mail[r].today, observed |-> swap]
                                      ELSE mail[q]
    BY <1>1, <1>5 DEF Observe, Goto, MailTypeOK
  <2>3. swap \in Nat
    BY <1>1 DEF MailTypeOK
  <2> QED BY <1>1, <2>1, <2>2, <2>3
<1>6. ASSUME NEW r \in Mails, CompareAndSet(r) PROVE Begun' /\ \A q \in Mails : Swaps(q)'
  <2>1. CASE mail[r].observed # swap
    BY <1>3, <1>6, <2>1 DEF CompareAndSet
  <2>2. CASE mail[r].observed = swap /\ Rotate(r)
    <3> DEFINE d == mail[r].today
    <3>1. d \in Days /\ d # currentDay
      BY <1>1, <1>6, <2>2, MailFields DEF CompareAndSet, MailTypeOK
    <3>2. /\ currentDay' = d /\ swap' = swap + 1 /\ UNCHANGED restarts
          /\ opened' = [opened EXCEPT ![d] = @ + 1]
          /\ back' = back + IF d < currentDay THEN 1 ELSE 0
          /\ \A q \in Mails : mail'[q] = IF q = r THEN [pc |-> "clear"] ELSE mail[q]
      BY <1>1, <1>6, <2>2 DEF CompareAndSet, Rotate, Goto, MailTypeOK
    <3>3. /\ currentDay \in Int /\ d \in Int /\ back \in Nat /\ restarts \in Nat /\ swap \in Nat
          /\ \A e \in Days : e \in Int /\ opened[e] \in Nat
      BY <1>1, <3>1, Numbers
    <3>4. Begun'
      <4> SUFFICES ASSUME NEW e \in Days
                   PROVE  opened'[e] <= back' + restarts' + IF e <= currentDay' THEN 1 ELSE 0
        OBVIOUS
      <4>1. opened[e] <= back + restarts + IF e <= currentDay THEN 1 ELSE 0
        BY <1>1
      <4>2. opened'[e] = IF e = d THEN opened[e] + 1 ELSE opened[e]
        BY <1>1, <3>1, <3>2 DEF MailTypeOK
      <4> QED BY <3>1, <3>2, <3>3, <4>1, <4>2
    <3>5. ASSUME NEW q \in Mails PROVE Swaps(q)'
      <4>1. CASE q = r
        BY <3>2, <4>1
      <4>2. CASE q # r
        <5>1. mail'[q] = mail[q] /\ (mail[q].pc = "swap" => mail[q].observed \in Nat)
          BY <1>1, <3>2, <4>2, MailFields DEF MailTypeOK
        <5> QED BY <1>1, <3>2, <3>3, <5>1
      <4> QED BY <4>1, <4>2
    <3> QED BY <3>4, <3>5
  <2> QED BY <1>6, <2>1, <2>2 DEF CompareAndSet
<1>7. CASE Midnight \/ UNCHANGED mailVars
  BY <1>1, <1>7 DEF Midnight, mailVars, mailHistory
<1>8. CASE Restart
  <2>1. /\ currentDay' = today /\ swap' = swap + 1
        /\ opened' = [opened EXCEPT ![today] = @ + 1]
        /\ restarts' = restarts + 1 /\ UNCHANGED back
    BY <1>8 DEF Restart
  <2>2. /\ currentDay \in Int /\ today \in Int /\ back \in Nat /\ restarts \in Nat
        /\ \A e \in Days : e \in Int /\ opened[e] \in Nat
    BY <1>1, Numbers
  <2>3. Begun'
    <3> SUFFICES ASSUME NEW e \in Days
                 PROVE  opened'[e] <= back' + restarts' + IF e <= currentDay' THEN 1 ELSE 0
      OBVIOUS
    <3>1. opened[e] <= back + restarts + IF e <= currentDay THEN 1 ELSE 0
      BY <1>1
    <3>2. opened'[e] = IF e = today THEN opened[e] + 1 ELSE opened[e]
      BY <1>1, <2>1 DEF MailTypeOK
    <3> QED BY <2>1, <2>2, <3>1, <3>2
  <2>4. \A q \in Mails : Swaps(q)'
    BY <1>8 DEF Restart, Gone, New, MailTypeOK
  <2> QED BY <2>3, <2>4
<1> QED BY <1>4, <1>5, <1>6, <1>7, <1>8 DEF MailNext, BegunInv

(* However many requests see a new day at once, it is begun once for them.    *)
THEOREM DayBegunOnce == MailSpec => []BegunOnce
<1>1. MailInit => BegunInv
  BY MailTypeInit DEF MailInit, BegunInv, New, Days
<1>2. BegunInv => BegunOnce
  BY DEF BegunInv, BegunOnce, MailTypeOK
<1> QED BY <1>1, <1>2, BegunStep, PTL DEF MailSpec
===============================================================================
