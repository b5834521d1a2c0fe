---------------------------- MODULE LikeSync_proofs ----------------------------
(* Theorems about the like pipeline, for every value of the constants. *)
EXTENDS LikeSync, FiniteSetTheorems, TLAPS

-------------------------------------------------------------------------------
(* The records the three kinds of process keep. *)

LEMMA ReqRecords ==
    /\ ReqIdle \in ReqState
    /\ \A c \in Comments, type \in {"like", "unlike"}, u \in Users :
          [pc |-> "publish", c |-> c, type |-> type, u |-> u] \in ReqState
    /\ \A pc \in {"mark", "find"}, c \in Comments : [pc |-> pc, c |-> c] \in ReqState
    /\ \A c \in Comments, val \in Nat : [pc |-> "fill", c |-> c, val |-> val] \in ReqState
  BY DEF ReqState, ReqIdle

(* What the control state of a request says about its other fields. *)
LEMMA ReqFields ==
    ASSUME NEW q \in ReqState
    PROVE  /\ q.pc \in {"idle", "publish", "mark", "find", "fill"}
           /\ q.pc = "idle" => q = ReqIdle
           /\ q.pc = "publish" =>
                 /\ q.c \in Comments
                 /\ q.type \in {"like", "unlike"}
                 /\ q.u \in Users
                 /\ q = [pc |-> "publish", c |-> q.c, type |-> q.type, u |-> q.u]
           /\ q.pc \in {"mark", "find"} => q.c \in Comments /\ q = [pc |-> q.pc, c |-> q.c]
           /\ q.pc = "fill" => q.c \in Comments /\ q.val \in Nat
  BY DEF ReqState, ReqIdle

LEMMA WrkRecords ==
    /\ WrkIdle \in WrkState
    /\ \A todo \in SUBSET Comments : Resume(todo) \in WrkState
    /\ \A todo \in SUBSET Comments, c \in Comments, val \in Nat :
          [pc |-> "write", todo |-> todo, c |-> c, val |-> val] \in WrkState
    /\ \A todo \in SUBSET Comments, c \in Comments :
          [pc |-> "invalidate", todo |-> todo, c |-> c] \in WrkState
  BY DEF WrkState, WrkIdle, Resume

LEMMA WrkFields ==
    ASSUME NEW k \in WrkState
    PROVE  /\ k.pc \in {"idle", "read", "write", "invalidate"}
           /\ k.todo \subseteq Comments
           /\ k.pc = "write" => k.c \in Comments /\ k.val \in Nat
           /\ k.pc = "invalidate" => k.c \in Comments
  BY DEF WrkState

LEMMA ConRecords ==
    /\ ConIdle \in ConState
    /\ \A pc \in {"insert", "invalidate", "incr", "find", "zadd"}, attempt \in 1..MaxRetry :
          [pc |-> pc, attempt |-> attempt] \in ConState
    /\ \A attempt \in 1..MaxRetry, val \in Nat :
          [pc |-> "setdetail", attempt |-> attempt, val |-> val] \in ConState
  BY DEF ConState, ConIdle

LEMMA ConFields ==
    ASSUME NEW k \in ConState
    PROVE  /\ k.pc \in {"idle", "insert", "invalidate", "incr", "find", "setdetail", "zadd"}
           /\ k.pc = "idle" <=> k = ConIdle
           /\ k.pc # "idle" => k.attempt \in 1..MaxRetry
           /\ k.pc \in {"insert", "invalidate", "incr", "find", "zadd"} =>
                 k = [pc |-> k.pc, attempt |-> k.attempt]
           /\ k.pc = "setdetail" =>
                 k.val \in Nat /\ k = [pc |-> "setdetail", attempt |-> k.attempt, val |-> k.val]
  BY DEF ConState, ConIdle

-------------------------------------------------------------------------------
(* A call's outcome leaves the failure count within its bound. *)
LEMMA FaultsType ==
    ASSUME faults \in 0..MaxFaults, NEW call, Ok \/ Fail(call)
    PROVE  faults' \in 0..MaxFaults
  BY LikeSyncAssumption DEF Ok, Fail

LEMMA AttemptType ==
    ASSUME faults \in 0..MaxFaults, NEW call, Ok \/ FailAttempt(call)
    PROVE  faults' \in 0..MaxFaults
  BY FaultsType DEF FailAttempt

LEMMA RequeueType ==
    ASSUME faults \in 0..MaxFaults, NEW call, NEW c \in Comments, dirty \subseteq Comments,
           Requeue(c, call)
    PROVE  faults' \in 0..MaxFaults /\ dirty' \subseteq Comments
  BY LikeSyncAssumption DEF Requeue, Fail, Mark

LEMMA InHandType ==
    ASSUME TypeOK
    PROVE  /\ \A r \in Requests : Unmarked(r) \subseteq Comments
           /\ \A w \in Workers : InHand(w) \subseteq Comments
<1>1. \A r \in Requests : Unmarked(r) \subseteq Comments
  BY ReqFields DEF TypeOK, Unmarked
<1>2. \A w \in Workers : InHand(w) \subseteq Comments
  BY WrkFields DEF TypeOK, InHand
<1> QED BY <1>1, <1>2

(* Only comments lose a marker. *)
LEMMA LostStep == TypeOK /\ [Next]_vars => lost' \subseteq Comments
<1> SUFFICES ASSUME TypeOK, [Next]_vars PROVE lost' \subseteq Comments
  OBVIOUS
<1>1. ASSUME NEW S \in SUBSET Comments, Lose(S) PROVE lost' \subseteq Comments
  BY <1>1 DEF Lose, TypeOK
<1>2. ASSUME NEW c, Mark(c) PROVE lost' \subseteq Comments
  BY <1>2 DEF Mark, TypeOK
<1>3. CASE UNCHANGED lost
  BY <1>3 DEF TypeOK
<1>4. ASSUME NEW r \in Requests, NEW c \in Comments, NEW type, NEW u, React(r, c, type, u)
      PROVE  lost' \subseteq Comments
  BY <1>1, <1>3, <1>4 DEF React
<1>5. ASSUME NEW r \in Requests, Request(r) PROVE lost' \subseteq Comments
  <2>1. CASE Like(r) \/ Unlike(r)
    BY <1>4, <2>1 DEF Like, Unlike
  <2>2. CASE PublishLikeEvent(r) \/ GetDetail(r) \/ FindDetail(r) \/ FillDetail(r)
    BY <1>3, <2>2 DEF PublishLikeEvent, GetDetail, FindDetail, FillDetail, history
  <2>3. CASE MarkDirty(r)
    <3>1. req[r].c \in Comments
      BY <2>3, ReqFields DEF MarkDirty, TypeOK
    <3> QED BY <1>1, <1>2, <2>3, <3>1 DEF MarkDirty
  <2>4. CASE Disconnect(r)
    BY <1>1, <2>4, InHandType DEF Disconnect
  <2> QED BY <1>5, <2>1, <2>2, <2>3, <2>4 DEF Request
<1>6. ASSUME NEW c \in Comments, NEW call, Requeue(c, call) PROVE lost' \subseteq Comments
  BY <1>1, <1>2, <1>6 DEF Requeue
<1>7. ASSUME NEW w \in Workers, SyncDirtyLikes(w) \/ AbortSync(w) PROVE lost' \subseteq Comments
  <2>1. CASE PopDirtyBatch(w)
    BY <1>1, <1>3, <2>1 DEF PopDirtyBatch, TypeOK
  <2>2. CASE GetLikeCount(w)
    <3>1. wrk[w].todo \subseteq Comments
      BY WrkFields DEF TypeOK
    <3>2. PICK c \in wrk[w].todo : UNCHANGED lost \/ Requeue(c, "read")
      BY <2>2 DEF GetLikeCount
    <3> QED BY <1>3, <1>6, <3>1, <3>2
  <2>3. CASE SyncLikeCount(w)
    <3>1. wrk[w].c \in Comments
      BY <2>3, WrkFields DEF SyncLikeCount, TypeOK
    <3>2. \/ Lose({wrk[w].c}) \/ Lose({})
          \/ Requeue(wrk[w].c, "sync") \/ Requeue(wrk[w].c, "written")
      BY <2>3 DEF SyncLikeCount
    <3> QED BY <1>1, <1>6, <3>1, <3>2
  <2>4. CASE InvalidateDetail(w)
    BY <1>3, <2>4 DEF InvalidateDetail, history
  <2>5. CASE AbortSync(w)
    BY <1>1, <2>5, InHandType DEF AbortSync
  <2> QED BY <1>7, <2>1, <2>2, <2>3, <2>4, <2>5 DEF SyncDirtyLikes
<1>8. CASE Consume
  BY <1>3, <1>8
  DEF Consume, Fetch, OnCreateInsert, OnCreateInvalidate, OnLikeIncr, OnLikeFind,
      OnLikeSetDetail, OnLikeUpdateScore, history
<1>9. CASE Crash \/ Shutdown
  BY <1>1, <1>9, InHandType DEF Crash, Shutdown, Restart
<1>10. ASSUME NEW c \in Comments, SetPending(c) \/ ExpireDetail(c) PROVE lost' \subseteq Comments
  BY <1>3, <1>10 DEF SetPending, ExpireDetail, history
<1>11. CASE UNCHANGED vars
  BY <1>3, <1>11 DEF vars, history
<1> QED BY <1>5, <1>7, <1>8, <1>9, <1>10, <1>11 DEF Next

(* An event in hand, and the comments a restart cuts off from their events. *)
LEMMA CurrentType ==
    ASSUME TypeOK, con.pc # "idle"
    PROVE  /\ Current.c \in Comments /\ IfDropped \subseteq Comments
           /\ IfRepeated \subseteq Comments
<1>1. Current \in Event
  BY DEF TypeOK, Current
<1> QED BY <1>1 DEF Event, IfDropped, IfRepeated

LEMMA CutType ==
    ASSUME TypeOK, NEW offset \in Nat
    PROVE  /\ \A r \in Requests : Unpublished(r) \subseteq Comments
           /\ Redone(offset) \subseteq Comments
           /\ Cut(offset) \subseteq Comments
<1>1. \A r \in Requests : Unpublished(r) \subseteq Comments
  BY ReqFields DEF TypeOK, Unpublished
<1>2. \A i \in offset + 1 .. fetched : log[i] \in Event
  BY DEF TypeOK
<1>3. Redone(offset) \subseteq Comments
  BY <1>2 DEF Redone, Event
<1>4. Cut(offset) \subseteq Comments
  <2>1. con # ConIdle => con.pc # "idle"
    BY ConFields DEF TypeOK
  <2> QED BY <2>1, CurrentType DEF Cut
<1> QED BY <1>1, <1>3, <1>4

(* Only comments are skewed. *)
LEMMA SkewStep == TypeOK /\ [Next]_vars => skewed' \subseteq Comments
<1> SUFFICES ASSUME TypeOK, [Next]_vars PROVE skewed' \subseteq Comments
  OBVIOUS
<1>1. ASSUME NEW S \in SUBSET Comments, Skew(S) PROVE skewed' \subseteq Comments
  BY <1>1 DEF Skew, TypeOK
<1>2. CASE UNCHANGED skewed
  BY <1>2 DEF TypeOK
<1>3. ASSUME NEW r \in Requests, Request(r) PROVE skewed' \subseteq Comments
  <2>1. CASE Like(r) \/ Unlike(r)
    BY <1>1, <1>2, <2>1 DEF Like, Unlike, React
  <2>2. CASE PublishLikeEvent(r)
    <3>1. req[r].c \in Comments
      BY <2>2, ReqFields DEF PublishLikeEvent, TypeOK
    <3>2. Skew({req[r].c}) \/ Skew({})
      BY <2>2 DEF PublishLikeEvent
    <3> QED BY <1>1, <3>1, <3>2
  <2>3. CASE MarkDirty(r) \/ GetDetail(r) \/ FindDetail(r) \/ FillDetail(r)
    BY <1>2, <2>3 DEF MarkDirty, GetDetail, FindDetail, FillDetail, history
  <2>4. CASE Disconnect(r)
    BY <1>1, <2>4, CutType DEF Disconnect
  <2> QED BY <1>3, <2>1, <2>2, <2>3, <2>4 DEF Request
<1>4. ASSUME NEW w \in Workers, SyncDirtyLikes(w) \/ AbortSync(w) PROVE skewed' \subseteq Comments
  BY <1>2, <1>4 DEF SyncDirtyLikes, PopDirtyBatch, GetLikeCount, SyncLikeCount, InvalidateDetail,
                    AbortSync, history
<1>5. CASE Consume
  <2>1. CASE OnCreateInsert \/ OnLikeIncr \/ OnLikeFind
    <3>1. con.pc # "idle"
      BY <2>1 DEF OnCreateInsert, OnLikeIncr, OnLikeFind
    <3>2. IfDropped \ {c \in Comments : row[c] # None} \subseteq Comments
      BY <3>1, CurrentType
    <3> QED BY <1>1, <1>2, <2>1, <3>1, <3>2, CurrentType DEF OnCreateInsert, OnLikeIncr, OnLikeFind
  <2>2. CASE Fetch \/ OnCreateInvalidate \/ OnLikeSetDetail \/ OnLikeUpdateScore
    BY <1>2, <2>2 DEF Fetch, OnCreateInvalidate, OnLikeSetDetail, OnLikeUpdateScore, history
  <2> QED BY <1>5, <2>1, <2>2 DEF Consume
<1>6. CASE Crash \/ Shutdown
  <2>1. Restart /\ committed' \in Nat
    BY <1>6 DEF Crash, Shutdown, Flushed, TypeOK
  <2>2. PICK S : Skew(S) /\ S = (UNION {Unpublished(r) : r \in Requests}) \cup Redone(committed')
                                  \cup Cut(committed')
    BY <2>1 DEF Restart
  <2>3. S \subseteq Comments
    BY <2>1, <2>2, CutType
  <2> QED BY <1>1, <2>2, <2>3
<1>7. CASE UNCHANGED vars \/ (\E c \in Comments : SetPending(c) \/ ExpireDetail(c))
  BY <1>2, <1>7 DEF SetPending, ExpireDetail, vars, history
<1> QED BY <1>3, <1>4, <1>5, <1>6, <1>7 DEF Next

(* Only comments are cached, and only comments go stale. *)
LEMMA CacheType ==
    ASSUME TypeOK, NEW c \in Comments, NEW n \in Count, CacheDetail(c, n)
    PROVE  detail' \in [Comments -> Count] /\ stale' \subseteq Comments
  BY DEF TypeOK, CacheDetail

LEMMA OutdateType ==
    ASSUME TypeOK, NEW S \in SUBSET Comments, Outdate(S)
    PROVE  stale' \subseteq Comments
  BY DEF TypeOK, Outdate

LEMMA OvertakenType == \A c \in Comments : Overtaken(c) \subseteq Comments
  BY DEF Overtaken

(* Every step keeps the types. *)
LEMMA TypeStep == TypeOK /\ [Next]_vars => TypeOK'
<1> SUFFICES ASSUME TypeOK, [Next]_vars PROVE TypeOK'
  OBVIOUS
<1>0. lost' \subseteq Comments /\ skewed' \subseteq Comments
  BY LostStep, SkewStep
<1> USE LikeSyncAssumption, <1>0 DEF history
<1>1. ASSUME NEW r \in Requests, Like(r) PROVE TypeOK'
  <2>1. PICK c \in Comments, u \in Users : React(r, c, "like", u) /\ IncrLike(c, u)
    BY <1>1 DEF Like
  <2>2. /\ users' \in [Comments -> SUBSET Users]
        /\ cnt' \in [Comments -> Nat]
    BY <2>1 DEF IncrLike, TypeOK
  <2>3. req' \in [Requests -> ReqState]
    <3>1. [pc |-> "publish", c |-> c, type |-> "like", u |-> u] \in ReqState
      BY ReqRecords
    <3> QED BY <2>1, <3>1 DEF React, TypeOK
  <2>4. faults' \in 0..MaxFaults
    BY <2>1, FaultsType DEF React, TypeOK
  <2> QED BY <2>1, <2>2, <2>3, <2>4 DEF React, TypeOK, caches, kafka
<1>2. ASSUME NEW r \in Requests, Unlike(r) PROVE TypeOK'
  <2>1. PICK c \in Comments, u \in Users : React(r, c, "unlike", u) /\ DecrLike(c, u)
    BY <1>2 DEF Unlike
  <2>2. /\ users' \in [Comments -> SUBSET Users]
        /\ cnt' \in [Comments -> Nat]
    BY <2>1 DEF DecrLike, TypeOK
  <2>3. req' \in [Requests -> ReqState]
    <3>1. [pc |-> "publish", c |-> c, type |-> "unlike", u |-> u] \in ReqState
      BY ReqRecords
    <3> QED BY <2>1, <3>1 DEF React, TypeOK
  <2>4. faults' \in 0..MaxFaults
    BY <2>1, FaultsType DEF React, TypeOK
  <2> QED BY <2>1, <2>2, <2>3, <2>4 DEF React, TypeOK, caches, kafka
<1>3. ASSUME NEW r \in Requests, PublishLikeEvent(r) PROVE TypeOK'
  <2> DEFINE e == [type |-> req[r].type, c |-> req[r].c]
  <2>1. req[r] \in ReqState /\ req[r].pc = "publish"
    BY <1>3 DEF PublishLikeEvent, TypeOK
  <2>2. e \in Event
    BY <2>1, ReqFields DEF Event
  <2>3. log' \in Seq(Event) /\ Len(log) <= Len(log')
    <3>1. log \in Seq(Event)
      BY DEF TypeOK
    <3>2. /\ Append(log, e) \in Seq(Event) /\ Len(Append(log, e)) = Len(log) + 1
          /\ log \o <<e, e>> \in Seq(Event) /\ Len(log \o <<e, e>>) = Len(log) + 2
      BY <3>1, <2>2
    <3>3. log' \in {log, Append(log, e), log \o <<e, e>>}
      BY <1>3 DEF PublishLikeEvent
    <3>4. Len(log) \in Nat
      BY <3>1
    <3>5. CASE log' = log
      BY <3>1, <3>4, <3>5
    <3>6. CASE log' = Append(log, e)
      BY <3>2, <3>4, <3>6
    <3>7. CASE log' = log \o <<e, e>>
      BY <3>2, <3>4, <3>7
    <3> QED BY <3>3, <3>5, <3>6, <3>7
  <2>4. req' \in [Requests -> ReqState]
    <3>1. [pc |-> "mark", c |-> req[r].c] \in ReqState
      BY <2>1, ReqFields, ReqRecords
    <3> QED BY <1>3, <3>1 DEF PublishLikeEvent, TypeOK
  <2>5. faults' \in 0..MaxFaults
    BY <1>3, FaultsType DEF PublishLikeEvent, TypeOK
  <2> QED BY <1>3, <2>3, <2>4, <2>5 DEF PublishLikeEvent, TypeOK, redis, caches
<1>4. ASSUME NEW r \in Requests, MarkDirty(r) PROVE TypeOK'
  <2>1. req[r].c \in Comments
    BY <1>4, ReqFields DEF MarkDirty, TypeOK
  <2>2. dirty' \subseteq Comments /\ hot' \subseteq Comments
    BY <1>4, <2>1 DEF MarkDirty, Mark, UpdateHotScore, TypeOK
  <2>3. req' \in [Requests -> ReqState]
    BY <1>4, ReqRecords DEF MarkDirty, TypeOK
  <2>4. faults' \in 0..MaxFaults
    BY <1>4, FaultsType DEF MarkDirty, TypeOK
  <2> QED BY <1>4, <2>2, <2>3, <2>4 DEF MarkDirty, TypeOK, kafka
<1>5. ASSUME NEW r \in Requests, GetDetail(r) \/ FindDetail(r) PROVE TypeOK'
  <2>1. req' \in [Requests -> ReqState]
    <3>1. CASE GetDetail(r)
      <4>1. PICK c \in hot : req' = [req EXCEPT ![r] = [pc |-> "find", c |-> c]]
        BY <3>1 DEF GetDetail
      <4>2. [pc |-> "find", c |-> c] \in ReqState
        BY ReqRecords DEF TypeOK
      <4> QED BY <4>1, <4>2 DEF TypeOK
    <3>2. CASE FindDetail(r)
      <4>1. req[r].c \in Comments
        BY <3>2, ReqFields DEF FindDetail, TypeOK
      <4>2. row[req[r].c] # None =>
               [pc |-> "fill", c |-> req[r].c, val |-> row[req[r].c]] \in ReqState
        BY <4>1, ReqRecords DEF TypeOK, Count
      <4> QED BY <3>2, <4>2, ReqRecords DEF FindDetail, TypeOK
    <3> QED BY <1>5, <3>1, <3>2
  <2>2. faults' \in 0..MaxFaults
    BY <1>5, FaultsType DEF GetDetail, FindDetail, TypeOK
  <2> QED BY <1>5, <2>1, <2>2 DEF GetDetail, FindDetail, TypeOK, redis, caches, kafka
<1>6. ASSUME NEW r \in Requests, FillDetail(r) PROVE TypeOK'
  <2>1. req[r].c \in Comments /\ req[r].val \in Count
    BY <1>6, ReqFields DEF FillDetail, TypeOK, Count
  <2>2. detail' \in [Comments -> Count] /\ stale' \subseteq Comments
    BY <1>6, <2>1, CacheType DEF FillDetail, TypeOK
  <2>3. req' \in [Requests -> ReqState]
    BY <1>6, ReqRecords DEF FillDetail, TypeOK
  <2>4. faults' \in 0..MaxFaults
    BY <1>6, FaultsType DEF FillDetail, TypeOK
  <2> QED BY <1>6, <2>2, <2>3, <2>4 DEF FillDetail, TypeOK, redis, kafka
<1>7. ASSUME NEW r \in Requests, Disconnect(r) PROVE TypeOK'
  <2>1. req' \in [Requests -> ReqState]
    BY <1>7, ReqRecords DEF Disconnect, TypeOK
  <2>2. faults' \in 0..MaxFaults
    BY <1>7, FaultsType DEF Disconnect, TypeOK
  <2> QED BY <1>7, <2>1, <2>2 DEF Disconnect, TypeOK, redis, caches, kafka
<1>8. ASSUME NEW w \in Workers, PopDirtyBatch(w) PROVE TypeOK'
  <2>1. PICK S \in SUBSET dirty :
           /\ dirty' = dirty \ S
           /\ \/ Ok /\ wrk' = [wrk EXCEPT ![w] = Resume(S)]
              \/ Fail("pop") /\ UNCHANGED wrk
    BY <1>8 DEF PopDirtyBatch
  <2>2. wrk' \in [Workers -> WrkState]
    <3>1. Resume(S) \in WrkState
      BY WrkRecords DEF TypeOK
    <3> QED BY <2>1, <3>1 DEF TypeOK
  <2>3. faults' \in 0..MaxFaults
    BY <2>1, FaultsType DEF TypeOK
  <2> QED BY <1>8, <2>1, <2>2, <2>3 DEF PopDirtyBatch, TypeOK, caches, kafka
<1>9. ASSUME NEW w \in Workers, GetLikeCount(w) PROVE TypeOK'
  <2>1. PICK c \in wrk[w].todo :
          LET rest == wrk[w].todo \ {c}
          IN \/ /\ Ok
                /\ wrk' = [wrk EXCEPT ![w] =
                              [pc |-> "write", todo |-> rest, c |-> c, val |-> cnt[c]]]
                /\ UNCHANGED dirty
             \/ Requeue(c, "read") /\ wrk' = [wrk EXCEPT ![w] = Resume(rest)]
    BY <1>9 DEF GetLikeCount
  <2>2. wrk[w] \in WrkState /\ wrk[w].todo \subseteq Comments /\ c \in Comments
    BY WrkFields DEF TypeOK
  <2>3. wrk' \in [Workers -> WrkState]
    <3>1. /\ Resume(wrk[w].todo \ {c}) \in WrkState
          /\ [pc |-> "write", todo |-> wrk[w].todo \ {c}, c |-> c, val |-> cnt[c]] \in WrkState
      BY <2>2, WrkRecords DEF TypeOK
    <3> QED BY <2>1, <3>1 DEF TypeOK
  <2>4. dirty' \subseteq Comments /\ faults' \in 0..MaxFaults
    BY <2>1, <2>2, FaultsType, RequeueType DEF TypeOK
  <2> QED BY <1>9, <2>3, <2>4 DEF GetLikeCount, TypeOK, caches, kafka
<1>10. ASSUME NEW w \in Workers, SyncLikeCount(w) PROVE TypeOK'
  <2>1. wrk[w] \in WrkState /\ wrk[w].pc = "write"
    BY <1>10 DEF SyncLikeCount, TypeOK
  <2>2. wrk[w].todo \subseteq Comments /\ wrk[w].c \in Comments /\ wrk[w].val \in Nat
    BY <2>1, WrkFields
  <2>3. row' \in [Comments -> Count] /\ synced' \in [Comments -> Count]
    BY <1>10, <2>2 DEF SyncLikeCount, TypeOK, Count
  <2>4. wrk' \in [Workers -> WrkState]
    <3>1. /\ Resume(wrk[w].todo) \in WrkState
          /\ [pc |-> "invalidate", todo |-> wrk[w].todo, c |-> wrk[w].c] \in WrkState
      BY <2>2, WrkRecords
    <3> QED BY <1>10, <3>1 DEF SyncLikeCount, TypeOK
  <2>5. dirty' \subseteq Comments /\ faults' \in 0..MaxFaults
    BY <1>10, <2>2, FaultsType, RequeueType DEF SyncLikeCount, TypeOK
  <2>6. stale' \subseteq Comments
    <3>1. Outdate(Overtaken(wrk[w].c)) \/ Outdate({wrk[w].c}) \/ UNCHANGED stale
      BY <1>10 DEF SyncLikeCount
    <3>2. CASE UNCHANGED stale
      BY <3>2 DEF TypeOK
    <3> QED BY <2>2, <3>1, <3>2, OutdateType, OvertakenType
  <2> QED BY <1>10, <2>3, <2>4, <2>5, <2>6 DEF SyncLikeCount, TypeOK, caches, kafka
<1>11. ASSUME NEW w \in Workers, InvalidateDetail(w) PROVE TypeOK'
  <2>1. wrk[w] \in WrkState /\ wrk[w].pc = "invalidate"
    BY <1>11 DEF InvalidateDetail, TypeOK
  <2>2. wrk[w].todo \subseteq Comments /\ wrk[w].c \in Comments
    BY <2>1, WrkFields
  <2>3. detail' \in [Comments -> Count] /\ stale' \subseteq Comments
    BY <1>11, <2>2, CacheType, OutdateType DEF InvalidateDetail, TypeOK, Count
  <2>4. wrk' \in [Workers -> WrkState]
    <3>1. Resume(wrk[w].todo) \in WrkState
      BY <2>2, WrkRecords
    <3> QED BY <1>11, <3>1 DEF InvalidateDetail, TypeOK
  <2>5. faults' \in 0..MaxFaults
    BY <1>11, FaultsType DEF InvalidateDetail, TypeOK
  <2> QED BY <1>11, <2>3, <2>4, <2>5 DEF InvalidateDetail, TypeOK, redis, kafka
<1>12. ASSUME NEW w \in Workers, AbortSync(w) PROVE TypeOK'
  <2>1. wrk' \in [Workers -> WrkState]
    BY <1>12, WrkRecords DEF AbortSync, TypeOK
  <2>2. faults' \in 0..MaxFaults
    BY <1>12, FaultsType DEF AbortSync, TypeOK
  <2>3. stale' \subseteq Comments
    <3>1. wrk[w].pc = "invalidate" => wrk[w].c \in Comments
      BY WrkFields DEF TypeOK
    <3> QED BY <1>12, <3>1, OutdateType DEF AbortSync
  <2> QED BY <1>12, <2>1, <2>2, <2>3 DEF AbortSync, TypeOK, redis, caches, kafka
<1>13. ASSUME Fetch PROVE TypeOK'
  <2>1. con' \in ConState /\ con'.pc # "idle"
    BY <1>13, ConRecords DEF Fetch, Entry
  <2> QED BY <1>13, <2>1 DEF Fetch, TypeOK, redis, caches, kafka
<1>14. ASSUME con.pc # "idle", Done, UNCHANGED log, UNCHANGED committed
       PROVE  /\ con' \in ConState
              /\ fetched' \in 0..Len(log')
              /\ committed' \in 0..fetched'
              /\ con'.pc # "idle" => fetched' < Len(log')
  BY <1>14, ConRecords DEF Done, TypeOK, ConIdle
<1>15. ASSUME con.pc # "idle", Retry, UNCHANGED log, UNCHANGED committed
       PROVE  /\ con' \in ConState
              /\ fetched' \in 0..Len(log')
              /\ committed' \in 0..fetched'
              /\ con'.pc # "idle" => fetched' < Len(log')
  <2>1. CASE Done
    BY <1>14, <1>15, <2>1
  <2>2. CASE /\ con.attempt < MaxRetry
             /\ con' = [pc |-> Entry, attempt |-> con.attempt + 1]
             /\ UNCHANGED fetched
    <3>1. con.attempt + 1 \in 1..MaxRetry
      BY <1>15, <2>2, ConFields DEF TypeOK
    <3>2. con' \in ConState
      BY <2>2, <3>1, ConRecords DEF Entry
    <3> QED BY <1>15, <2>2, <3>2 DEF TypeOK
  <2> QED BY <1>15, <2>1, <2>2 DEF Retry
<1>16. con.pc # "idle" => con \in ConState /\ con.attempt \in 1..MaxRetry /\ Current \in Event
  BY ConFields DEF TypeOK, Current
<1>17. con.pc # "idle" => Current.c \in Comments /\ Current.type \in {"create", "like", "unlike"}
  BY <1>16 DEF Event
<1>18. ASSUME con.pc # "idle", NEW pc \in {"insert", "invalidate", "incr", "find"},
              con' = [con EXCEPT !.pc = pc], UNCHANGED <<log, committed, fetched>>,
              con.pc \in {"insert", "invalidate", "incr", "find"}
       PROVE  /\ con' \in ConState
              /\ fetched' \in 0..Len(log')
              /\ committed' \in 0..fetched'
              /\ con'.pc # "idle" => fetched' < Len(log')
  <2>1. [con EXCEPT !.pc = pc] = [pc |-> pc, attempt |-> con.attempt]
    BY <1>16, <1>18, ConFields
  <2>2. con' \in ConState
    BY <1>16, <1>18, <2>1, ConRecords
  <2> QED BY <1>18, <2>2 DEF TypeOK
<1>19. ASSUME OnCreateInsert PROVE TypeOK'
  <2>1. con.pc = "insert" /\ UNCHANGED <<log, committed>>
    BY <1>19 DEF OnCreateInsert, kafka
  <2>2. /\ con' \in ConState
        /\ fetched' \in 0..Len(log')
        /\ committed' \in 0..fetched'
        /\ con'.pc # "idle" => fetched' < Len(log')
    BY <1>19, <2>1, <1>15, <1>18 DEF OnCreateInsert
  <2>3. row' \in [Comments -> Count]
    BY <1>19, <1>17, <2>1 DEF OnCreateInsert, TypeOK, Count
  <2>4. faults' \in 0..MaxFaults
    BY <1>19, FaultsType, AttemptType DEF OnCreateInsert, TypeOK
  <2> QED BY <1>19, <2>1, <2>2, <2>3, <2>4 DEF OnCreateInsert, TypeOK, redis, caches
<1>20. ASSUME OnCreateInvalidate PROVE TypeOK'
  <2>1. con.pc = "invalidate" /\ UNCHANGED <<log, committed>>
    BY <1>20 DEF OnCreateInvalidate, kafka
  <2>2. /\ con' \in ConState
        /\ fetched' \in 0..Len(log')
        /\ committed' \in 0..fetched'
        /\ con'.pc # "idle" => fetched' < Len(log')
    BY <1>20, <2>1, <1>14 DEF OnCreateInvalidate
  <2>3. detail' \in [Comments -> Count] /\ stale' \subseteq Comments
    BY <1>20, <1>17, <2>1, CacheType DEF OnCreateInvalidate, TypeOK, Count
  <2>4. faults' \in 0..MaxFaults
    BY <1>20, FaultsType DEF OnCreateInvalidate, TypeOK
  <2> QED BY <1>20, <2>1, <2>2, <2>3, <2>4 DEF OnCreateInvalidate, TypeOK, redis
<1>21. ASSUME OnLikeIncr PROVE TypeOK'
  <2>1. con.pc = "incr" /\ UNCHANGED <<log, committed>>
    BY <1>21 DEF OnLikeIncr, kafka
  <2>2. /\ con' \in ConState
        /\ fetched' \in 0..Len(log')
        /\ committed' \in 0..fetched'
        /\ con'.pc # "idle" => fetched' < Len(log')
    BY <1>21, <2>1, <1>15, <1>18 DEF OnLikeIncr
  <2>3. row' \in [Comments -> Count]
    <3>1. Current.c \in Comments /\ row[Current.c] \in Count
      BY <1>17, <2>1 DEF TypeOK
    <3>2. IncrLikeCount(row[Current.c], Delta(Current)) \in Count
      BY <3>1 DEF IncrLikeCount, Delta, Count
    <3> QED BY <1>21, <3>1, <3>2 DEF OnLikeIncr, TypeOK
  <2>4. faults' \in 0..MaxFaults
    BY <1>21, FaultsType, AttemptType DEF OnLikeIncr, TypeOK
  <2>5. stale' \subseteq Comments
    BY <1>21, <1>17, <2>1, CurrentType, OutdateType, OvertakenType DEF OnLikeIncr
  <2> QED BY <1>21, <2>1, <2>2, <2>3, <2>4, <2>5 DEF OnLikeIncr, TypeOK, redis, caches
<1>22. ASSUME OnLikeFind PROVE TypeOK'
  <2>1. con.pc = "find" /\ UNCHANGED <<log, committed>>
    BY <1>22 DEF OnLikeFind, kafka
  <2>2. /\ con' \in ConState
        /\ fetched' \in 0..Len(log')
        /\ committed' \in 0..fetched'
        /\ con'.pc # "idle" => fetched' < Len(log')
    <3>1. CASE Done
      BY <1>14, <2>1, <3>1
    <3>2. CASE Retry
      BY <1>15, <2>1, <3>2
    <3>3. CASE /\ row[Current.c] # None
               /\ con' = [pc |-> "setdetail", attempt |-> con.attempt, val |-> row[Current.c]]
               /\ UNCHANGED fetched
      <4>1. row[Current.c] \in Nat
        BY <1>17, <2>1, <3>3 DEF TypeOK, Count
      <4>2. con' \in ConState
        BY <1>16, <2>1, <3>3, <4>1, ConRecords
      <4> QED BY <2>1, <3>3, <4>2 DEF TypeOK
    <3> QED BY <1>22, <3>1, <3>2, <3>3 DEF OnLikeFind
  <2>3. faults' \in 0..MaxFaults
    BY <1>22, FaultsType, AttemptType DEF OnLikeFind, TypeOK
  <2>4. stale' \subseteq Comments
    BY <1>22, <2>1, CurrentType, OutdateType DEF OnLikeFind, TypeOK
  <2> QED BY <1>22, <2>1, <2>2, <2>3, <2>4 DEF OnLikeFind, TypeOK, redis, caches
<1>23. ASSUME OnLikeSetDetail PROVE TypeOK'
  <2>1. con.pc = "setdetail" /\ con.val \in Count
    BY <1>23, ConFields DEF OnLikeSetDetail, TypeOK, Count
  <2>2. con' \in ConState /\ con'.pc = "zadd"
    BY <1>23, <1>16, <2>1, ConRecords DEF OnLikeSetDetail
  <2>3. detail' \in [Comments -> Count] /\ stale' \subseteq Comments
    BY <1>23, <1>17, <2>1, CacheType, OutdateType DEF OnLikeSetDetail, TypeOK
  <2>4. faults' \in 0..MaxFaults
    BY <1>23, FaultsType DEF OnLikeSetDetail, TypeOK
  <2> QED BY <1>23, <2>1, <2>2, <2>3, <2>4 DEF OnLikeSetDetail, TypeOK, redis, kafka
<1>24. ASSUME OnLikeUpdateScore PROVE TypeOK'
  <2>1. con.pc = "zadd" /\ UNCHANGED <<log, committed>>
    BY <1>24 DEF OnLikeUpdateScore, kafka
  <2>2. /\ con' \in ConState
        /\ fetched' \in 0..Len(log')
        /\ committed' \in 0..fetched'
        /\ con'.pc # "idle" => fetched' < Len(log')
    BY <1>24, <2>1, <1>14 DEF OnLikeUpdateScore
  <2>3. hot' \subseteq Comments
    BY <1>24, <1>17, <2>1 DEF OnLikeUpdateScore, TypeOK
  <2>4. faults' \in 0..MaxFaults
    BY <1>24, FaultsType DEF OnLikeUpdateScore, TypeOK
  <2> QED BY <1>24, <2>1, <2>2, <2>3, <2>4 DEF OnLikeUpdateScore, TypeOK, redis
<1>25. ASSUME NEW c \in Comments, SetPending(c) PROVE TypeOK'
  <2>1. detail' \in [Comments -> Count] /\ stale' \subseteq Comments
    BY <1>25, CacheType DEF SetPending, TypeOK, Count
  <2>2. faults' \in 0..MaxFaults
    BY <1>25, FaultsType DEF SetPending, TypeOK
  <2> QED BY <1>25, <2>1, <2>2 DEF SetPending, TypeOK, redis, kafka
<1>26. ASSUME Restart, committed' \in 0..Len(log), faults' \in 0..MaxFaults PROVE TypeOK'
  <2>1. stale' \subseteq Comments
    BY <1>26, OutdateType DEF Restart
  <2> QED BY <1>26, <2>1, ReqRecords, WrkRecords, ConRecords DEF Restart, TypeOK, redis, caches, ConIdle
<1>27. CASE Crash
  BY <1>26, <1>27, FaultsType DEF Crash, Flushed, TypeOK
<1>28. CASE Shutdown
  <2>1. con # ConIdle => fetched < Len(log)
    BY ConFields DEF TypeOK
  <2>2. committed' \in 0..Len(log)
    BY <1>28, <2>1 DEF Shutdown, Flushed, TypeOK
  <2> QED BY <1>26, <1>28, <2>2, FaultsType DEF Shutdown, TypeOK
<1>29. ASSUME NEW c \in Comments, ExpireDetail(c) PROVE TypeOK'
  BY <1>29, CacheType DEF ExpireDetail, TypeOK, Count, redis, kafka
<1>30. CASE UNCHANGED vars
  BY <1>30 DEF vars, redis, caches, kafka, TypeOK
<1> QED
  BY <1>1, <1>2, <1>3, <1>4, <1>5, <1>6, <1>7, <1>8, <1>9, <1>10, <1>11, <1>12, <1>13, <1>19,
     <1>20, <1>21, <1>22, <1>23, <1>24, <1>25, <1>27, <1>28, <1>29, <1>30
  DEF Next, Request, SyncDirtyLikes, Consume

LEMMA TypeInit == Init => TypeOK
<1> SUFFICES ASSUME Init PROVE TypeOK
  OBVIOUS
<1> USE LikeSyncAssumption
<1>1. log \in Seq(Event) /\ Len(log) = Len(Submitted)
  <2>1. /\ Submitted \in Seq(Comments) /\ Len(Submitted) \in Nat
        /\ DOMAIN Submitted = 1..Len(Submitted)
    OBVIOUS
  <2>2. \A i \in 1..Len(Submitted) : Submitted[i] \in Comments
    BY <2>1
  <2>3. log \in [1..Len(Submitted) -> Event]
    BY <2>1, <2>2 DEF Init, Event
  <2> QED BY <2>1, <2>3
<1>2. con \in ConState /\ con.pc = "idle"
  BY ConRecords DEF Init, ConIdle
<1>3. req \in [Requests -> ReqState] /\ wrk \in [Workers -> WrkState]
  BY ReqRecords, WrkRecords DEF Init
<1> QED BY <1>1, <1>2, <1>3 DEF Init, TypeOK, Count

(* Every variable keeps its type in every instance of the pipeline. *)
THEOREM TypeCorrect == Spec => []TypeOK
  BY TypeInit, TypeStep, PTL DEF Spec

-------------------------------------------------------------------------------
(* The Redis count is the number of users who like the comment. *)

LEMMA CountStep == TypeOK /\ CountMatchesUsers /\ [Next]_vars => CountMatchesUsers'
<1> SUFFICES ASSUME TypeOK, CountMatchesUsers, [Next]_vars PROVE CountMatchesUsers'
  OBVIOUS
<1>1. \A c \in Comments : IsFiniteSet(users[c]) /\ cnt[c] \in Nat
  BY LikeSyncAssumption, FS_Subset DEF TypeOK
<1>2. ASSUME NEW c \in Comments, NEW u \in Users, IncrLike(c, u) PROVE CountMatchesUsers'
  <2>1. Cardinality(users[c] \cup {u}) = Cardinality(users[c]) + 1
    BY <1>1, <1>2, FS_AddElement DEF IncrLike
  <2> QED BY <1>2, <2>1 DEF IncrLike, CountMatchesUsers, TypeOK
<1>3. ASSUME NEW c \in Comments, NEW u \in Users, DecrLike(c, u) PROVE CountMatchesUsers'
  <2>1. u \in users[c]
    BY <1>3 DEF DecrLike
  <2>2. Cardinality(users[c] \ {u}) = Cardinality(users[c]) - 1
    BY <1>1, <2>1, FS_RemoveElement
  <2>3. Cardinality(users[c] \ {u}) \in Nat
    BY <1>1, FS_RemoveElement, FS_CardinalityType
  <2>4. cnt[c] = Cardinality(users[c]) /\ cnt[c] - 1 >= 0
    BY <1>1, <2>2, <2>3 DEF CountMatchesUsers
  <2>5. cnt' = [cnt EXCEPT ![c] = @ - 1]
    <3>1. ~(cnt[c] - 1 < 0)
      BY <1>1, <2>4
    <3> QED BY <1>3, <3>1 DEF DecrLike
  <2> QED BY <1>3, <2>2, <2>4, <2>5 DEF DecrLike, CountMatchesUsers, TypeOK
<1>4. CASE UNCHANGED <<users, cnt>>
  BY <1>4 DEF CountMatchesUsers
<1>5. ASSUME NEW r \in Requests, Request(r) PROVE CountMatchesUsers'
  BY <1>2, <1>3, <1>4, <1>5
  DEF Request, Like, Unlike, PublishLikeEvent, MarkDirty, GetDetail, FindDetail, FillDetail,
      Disconnect, redis
<1>6. ASSUME NEW w \in Workers, SyncDirtyLikes(w) \/ AbortSync(w) PROVE CountMatchesUsers'
  BY <1>4, <1>6
  DEF SyncDirtyLikes, PopDirtyBatch, GetLikeCount, SyncLikeCount, InvalidateDetail, AbortSync,
      redis
<1>7. CASE Consume
  BY <1>4, <1>7
  DEF Consume, Fetch, OnCreateInsert, OnCreateInvalidate, OnLikeIncr, OnLikeFind,
      OnLikeSetDetail, OnLikeUpdateScore, redis
<1>8. CASE Crash \/ Shutdown
  BY <1>4, <1>8 DEF Crash, Shutdown, Restart, redis
<1>9. ASSUME NEW c \in Comments, SetPending(c) \/ ExpireDetail(c) PROVE CountMatchesUsers'
  BY <1>4, <1>9 DEF SetPending, ExpireDetail, redis
<1>10. CASE UNCHANGED vars
  BY <1>4, <1>10 DEF vars, redis
<1> QED BY <1>5, <1>6, <1>7, <1>8, <1>9, <1>10 DEF Next

(* Whatever fails, and however requests interleave: the scripts never let    *)
(* the number of likes and the set of users drift apart.                     *)
THEOREM CountCorrect == Spec => []CountMatchesUsers
<1>1. Init => CountMatchesUsers
  BY FS_EmptySet DEF Init, CountMatchesUsers
<1> QED BY <1>1, CountStep, TypeCorrect, PTL DEF Spec

-------------------------------------------------------------------------------
(* No marker is lost.                                                         *)
(*                                                                            *)
(* NoLostMarker is not inductive: a worker may be about to write a count that *)
(* has changed since it read it, over a count that was right.  Kept says what *)
(* protects a comment then: the request that changed the count marks it, or a *)
(* second worker that holds the new count is told apart by Overlapped; and a  *)
(* count that MySQL has already is right only while nobody writes.            *)

Writing(c)     == \E w \in Workers : wrk[w].pc = "write" /\ wrk[w].c = c
WritesCount(c) == \E w \in Workers : wrk[w].pc = "write" /\ wrk[w].c = c /\ wrk[w].val = cnt[c]

Kept(c) ==
    \/ c \in lost
    \/ Marked(c)
    \/ WritesCount(c)
    \/ ~Writing(c) /\ Seen(c) = cnt[c]

MarkerInv == TypeOK /\ \A c \in Comments : Kept(c)

(* The marker of c, or the record of its loss, outlives the step. *)
MarkKept(c) == c \in lost \/ Marked(c) => c \in lost' \/ Marked(c)'

(* A request's step: the workers keep what they have in hand. *)
LEMMA RequestKeeps ==
    ASSUME TypeOK, NEW c \in Comments, Kept(c), MarkKept(c),
           cnt'[c] = cnt[c], UNCHANGED <<wrk, synced>>
    PROVE  Kept(c)'
  BY DEF Kept, MarkKept, Writing, WritesCount, Seen

(* A worker's step from and to a state in which it writes nothing. *)
LEMMA WorkerKeeps ==
    ASSUME TypeOK, NEW c \in Comments, Kept(c), MarkKept(c),
           NEW w \in Workers, NEW k, wrk' = [wrk EXCEPT ![w] = k],
           wrk[w].pc # "write", k.pc # "write", UNCHANGED <<cnt, synced>>
    PROVE  Kept(c)'
<1>1. \A v \in Workers : wrk'[v] = IF v = w THEN k ELSE wrk[v]
  BY DEF TypeOK
<1>2. WritesCount(c) => WritesCount(c)'
  BY <1>1 DEF WritesCount
<1>3. Writing(c)' => Writing(c)
  BY <1>1 DEF Writing
<1> QED BY <1>2, <1>3 DEF Kept, MarkKept, Seen

(* Resume writes nothing and keeps the rest of the batch. *)
LEMMA ResumeKeeps ==
    ASSUME NEW todo
    PROVE  /\ Resume(todo).pc # "write"
           /\ \A c \in todo : Resume(todo).pc # "idle" /\ c \in Resume(todo).todo
  BY DEF Resume, WrkIdle

LEMMA ReactKeeps ==
    ASSUME TypeOK, NEW c \in Comments, Kept(c),
           NEW r \in Requests, NEW d \in Comments, NEW type, NEW u, React(r, d, type, u),
           c # d => cnt'[c] = cnt[c]
    PROVE  Kept(c)'
<1>1. UNCHANGED <<dirty, wrk, synced>> /\ req[r] = ReqIdle
  BY DEF React
<1>2. CASE /\ req' = [req EXCEPT ![r] = [pc |-> "publish", c |-> d, type |-> type, u |-> u]]
           /\ UNCHANGED lost
  <2>1. Marking(d)'
    BY <1>2 DEF Marking, TypeOK
  <2>2. Marking(c) => Marking(c)'
    BY <1>1, <1>2 DEF Marking, TypeOK, ReqIdle
  <2>3. CASE c = d
    BY <2>1, <2>3 DEF Kept, Marked
  <2>4. CASE c # d
    <3>1. MarkKept(c)
      BY <1>1, <1>2, <2>2 DEF MarkKept, Marked
    <3> QED BY <1>1, <2>4, <3>1, RequestKeeps
  <2> QED BY <2>3, <2>4
<1>3. CASE Lose({d}) /\ UNCHANGED req
  <2>1. CASE c = d
    BY <1>3, <2>1 DEF Lose, Kept
  <2>2. CASE c # d
    <3>1. MarkKept(c)
      BY <1>1, <1>3 DEF MarkKept, Marked, Marking, Lose
    <3> QED BY <1>1, <2>2, <3>1, RequestKeeps
  <2> QED BY <2>1, <2>2
<1> QED BY <1>2, <1>3 DEF React

LEMMA RequestStep ==
    ASSUME TypeOK, NEW c \in Comments, Kept(c), NEW r \in Requests, Request(r)
    PROVE  Kept(c)'
<1>1. CASE Like(r)
  <2>1. PICK d \in Comments, u \in Users : IncrLike(d, u) /\ React(r, d, "like", u)
    BY <1>1 DEF Like
  <2>2. c # d => cnt'[c] = cnt[c]
    BY <2>1 DEF IncrLike, TypeOK
  <2> QED BY <2>1, <2>2, ReactKeeps
<1>2. CASE Unlike(r)
  <2>1. PICK d \in Comments, u \in Users : DecrLike(d, u) /\ React(r, d, "unlike", u)
    BY <1>2 DEF Unlike
  <2>2. c # d => cnt'[c] = cnt[c]
    BY <2>1 DEF DecrLike, TypeOK
  <2> QED BY <2>1, <2>2, ReactKeeps
<1>3. CASE PublishLikeEvent(r)
  <2>1. MarkKept(c)
    BY <1>3 DEF PublishLikeEvent, MarkKept, Marked, Marking, TypeOK, redis, history
  <2> QED BY <1>3, <2>1, RequestKeeps DEF PublishLikeEvent, redis, history
<1>4. CASE MarkDirty(r)
  <2>1. /\ req[r].pc = "mark"
        /\ req' = [req EXCEPT ![r] = ReqIdle]
        /\ UNCHANGED <<cnt, wrk, synced>>
        /\ Mark(req[r].c) \/ (Lose({req[r].c}) /\ UNCHANGED dirty)
    BY <1>4 DEF MarkDirty
  <2>2. Marking(c) => c = req[r].c \/ Marking(c)'
    BY <2>1 DEF Marking, TypeOK
  <2>3. MarkKept(c)
    BY <2>1, <2>2 DEF MarkKept, Marked, Mark, Lose
  <2> QED BY <2>1, <2>3, RequestKeeps
<1>5. CASE GetDetail(r) \/ FindDetail(r) \/ FillDetail(r)
  <2>1. UNCHANGED <<dirty, cnt, wrk, synced, lost>>
    BY <1>5 DEF GetDetail, FindDetail, FillDetail, redis, history
  <2>2. req[r].pc \notin {"publish", "mark"} /\ \A q \in Requests \ {r} : req'[q] = req[q]
    BY <1>5 DEF GetDetail, FindDetail, FillDetail, TypeOK, ReqIdle
  <2>3. MarkKept(c)
    BY <2>1, <2>2 DEF MarkKept, Marked, Marking
  <2> QED BY <2>1, <2>3, RequestKeeps
<1>6. CASE Disconnect(r)
  <2>1. Marking(c) => c \in Unmarked(r) \/ Marking(c)'
    BY <1>6 DEF Disconnect, Marking, Unmarked, TypeOK
  <2>2. MarkKept(c)
    BY <1>6, <2>1 DEF Disconnect, MarkKept, Marked, Lose, redis
  <2> QED BY <1>6, <2>2, RequestKeeps DEF Disconnect, redis
<1> QED BY <1>1, <1>2, <1>3, <1>4, <1>5, <1>6 DEF Request

LEMMA ReadStep ==
    ASSUME TypeOK, NEW c \in Comments, Kept(c), NEW w \in Workers, GetLikeCount(w)
    PROVE  Kept(c)'
<1>1. wrk[w].pc = "read" /\ UNCHANGED <<cnt, req, synced>>
  BY DEF GetLikeCount
<1>2. PICK d \in wrk[w].todo :
        LET rest == wrk[w].todo \ {d}
        IN \/ /\ wrk' = [wrk EXCEPT ![w] =
                            [pc |-> "write", todo |-> rest, c |-> d, val |-> cnt[d]]]
              /\ UNCHANGED <<dirty, lost>>
           \/ Requeue(d, "read") /\ wrk' = [wrk EXCEPT ![w] = Resume(rest)]
  BY DEF GetLikeCount
<1>3. CASE /\ wrk' = [wrk EXCEPT ![w] = [pc |-> "write", todo |-> wrk[w].todo \ {d},
                                         c |-> d, val |-> cnt[d]]]
           /\ UNCHANGED <<dirty, lost>>
  <2>1. \A v \in Workers :
           wrk'[v] = IF v = w THEN [pc |-> "write", todo |-> wrk[w].todo \ {d},
                                    c |-> d, val |-> cnt[d]]
                     ELSE wrk[v]
    BY <1>3 DEF TypeOK
  <2>2. CASE c = d
    BY <1>1, <2>1, <2>2 DEF Kept, WritesCount
  <2>3. CASE c # d
    <3>1. Marked(c) => Marked(c)'
      BY <1>1, <1>3, <2>1, <2>3 DEF Marked, Marking
    <3>2. WritesCount(c) => WritesCount(c)'
      BY <1>1, <2>1 DEF WritesCount
    <3>3. Writing(c)' => Writing(c)
      BY <2>1, <2>3 DEF Writing
    <3> QED BY <1>1, <1>3, <3>1, <3>2, <3>3 DEF Kept, Seen
  <2> QED BY <2>2, <2>3
<1>4. CASE Requeue(d, "read") /\ wrk' = [wrk EXCEPT ![w] = Resume(wrk[w].todo \ {d})]
  <2>1. Mark(d) \/ (Lose({d}) /\ UNCHANGED dirty)
    BY <1>4 DEF Requeue
  <2>2. wrk'[w] = Resume(wrk[w].todo \ {d}) /\ \A v \in Workers \ {w} : wrk'[v] = wrk[v]
    BY <1>4 DEF TypeOK
  <2>3. MarkKept(c)
    BY <1>1, <2>1, <2>2, ResumeKeeps DEF MarkKept, Marked, Marking, Mark, Lose
  <2> QED BY <1>1, <1>4, <2>3, ResumeKeeps, WorkerKeeps
<1> QED BY <1>2, <1>3, <1>4

LEMMA WriteStep ==
    ASSUME TypeOK, NEW c \in Comments, Kept(c), NEW w \in Workers, SyncLikeCount(w)
    PROVE  Kept(c)'
<1> DEFINE d == wrk[w].c
<1>1. wrk[w].pc = "write" /\ d \in Comments /\ wrk[w].val \in Nat /\ UNCHANGED <<cnt, req>>
  BY WrkFields DEF SyncLikeCount, TypeOK
<1>2. CASE /\ synced' = [synced EXCEPT ![d] = wrk[w].val]
           /\ wrk' = [wrk EXCEPT ![w] = [pc |-> "invalidate", todo |-> @.todo, c |-> d]]
           /\ Lose(IF Overlapped(w) THEN {d} ELSE {})
           /\ UNCHANGED dirty
  <2>1. \A v \in Workers : wrk'[v] = IF v = w THEN [pc |-> "invalidate", todo |-> wrk[w].todo, c |-> d]
                                     ELSE wrk[v]
    BY <1>2 DEF TypeOK
  <2>2. Marked(c) => Marked(c)'
    BY <1>1, <1>2, <2>1 DEF Marked, Marking
  <2>3. c \in lost => c \in lost'
    BY <1>2 DEF Lose
  <2>4. CASE c # d
    <3>1. WritesCount(c) => WritesCount(c)'
      BY <1>1, <2>1, <2>4 DEF WritesCount
    <3>2. Writing(c)' => Writing(c)
      BY <2>1 DEF Writing
    <3>3. Seen(c)' = Seen(c)
      BY <1>2, <2>4 DEF Seen, TypeOK
    <3> QED BY <1>1, <2>2, <2>3, <3>1, <3>2, <3>3 DEF Kept
  <2>5. CASE c = d /\ ~Marked(c) /\ c \notin lost
    <3>1. WritesCount(c)
      BY <1>1, <2>5 DEF Kept, Writing
    <3>2. Seen(c)' = wrk[w].val
      BY <1>1, <1>2, <2>5, LikeSyncAssumption DEF Seen, TypeOK
    <3>3. CASE Overlapped(w)
      BY <1>2, <2>5, <3>3 DEF Lose, Kept
    <3>4. CASE ~Overlapped(w)
      <4>1. \A v \in Workers : wrk[v].pc = "write" /\ wrk[v].c = c => wrk[v].val = wrk[w].val
        BY <2>5, <3>4 DEF Overlapped
      <4>2. wrk[w].val = cnt[c]
        BY <3>1, <4>1 DEF WritesCount
      <4>3. Writing(c)' => WritesCount(c)'
        BY <1>1, <2>1, <4>1, <4>2 DEF Writing, WritesCount
      <4> QED BY <1>1, <3>2, <4>2, <4>3 DEF Kept
    <3> QED BY <3>3, <3>4
  <2> QED BY <2>2, <2>3, <2>4, <2>5 DEF Kept
<1>3. CASE /\ Requeue(d, "sync") \/ Requeue(d, "written")
           /\ wrk' = [wrk EXCEPT ![w] = Resume(@.todo)]
           /\ \A e \in Comments \ {d} : synced'[e] = synced[e]
  <2>1. Mark(d) \/ (Lose({d}) /\ UNCHANGED dirty)
    BY <1>3 DEF Requeue
  <2>2. \A v \in Workers : wrk'[v] = IF v = w THEN Resume(wrk[w].todo) ELSE wrk[v]
    BY <1>3 DEF TypeOK
  <2>3. MarkKept(c)
    BY <1>1, <2>1, <2>2, ResumeKeeps DEF MarkKept, Marked, Marking, Mark, Lose
  <2>4. CASE c = d
    BY <2>1, <2>4 DEF Kept, Marked, Mark, Lose
  <2>5. CASE c # d
    <3>1. WritesCount(c) => WritesCount(c)'
      BY <1>1, <2>2, <2>5 DEF WritesCount
    <3>2. Writing(c)' => Writing(c)
      BY <2>2, ResumeKeeps DEF Writing
    <3>3. Seen(c)' = Seen(c)
      BY <1>3, <2>5 DEF Seen
    <3> QED BY <1>1, <2>3, <3>1, <3>2, <3>3 DEF Kept, MarkKept
  <2> QED BY <2>4, <2>5
<1>4. synced' = [synced EXCEPT ![d] = wrk[w].val] => \A e \in Comments \ {d} : synced'[e] = synced[e]
  BY DEF TypeOK
<1> QED BY <1>2, <1>3, <1>4 DEF SyncLikeCount

LEMMA WorkerStep ==
    ASSUME TypeOK, NEW c \in Comments, Kept(c), NEW w \in Workers,
           SyncDirtyLikes(w) \/ AbortSync(w)
    PROVE  Kept(c)'
<1>1. CASE PopDirtyBatch(w)
  <2>1. PICK S \in SUBSET dirty :
           /\ dirty' = dirty \ S
           /\ \/ wrk' = [wrk EXCEPT ![w] = Resume(S)] /\ UNCHANGED lost
              \/ Lose(S) /\ UNCHANGED wrk
    BY <1>1 DEF PopDirtyBatch
  <2>2. wrk[w].pc = "idle" /\ UNCHANGED <<cnt, req, synced>>
    BY <1>1 DEF PopDirtyBatch
  <2>3. CASE wrk' = [wrk EXCEPT ![w] = Resume(S)] /\ UNCHANGED lost
    <3>1. wrk'[w] = Resume(S) /\ \A v \in Workers \ {w} : wrk'[v] = wrk[v]
      BY <2>3 DEF TypeOK
    <3>2. MarkKept(c)
      BY <2>1, <2>2, <2>3, <3>1, ResumeKeeps DEF MarkKept, Marked, Marking
    <3> QED BY <2>2, <2>3, <3>2, ResumeKeeps, WorkerKeeps
  <2>4. CASE Lose(S) /\ UNCHANGED wrk
    <3>1. MarkKept(c)
      BY <2>1, <2>2, <2>4 DEF MarkKept, Marked, Marking, Lose
    <3> QED BY <2>2, <2>4, <3>1, RequestKeeps
  <2> QED BY <2>1, <2>3, <2>4
<1>2. CASE GetLikeCount(w)
  BY <1>2, ReadStep
<1>3. CASE SyncLikeCount(w)
  BY <1>3, WriteStep
<1>4. CASE InvalidateDetail(w)
  <2>1. /\ wrk[w].pc = "invalidate" /\ UNCHANGED <<cnt, req, dirty, synced, lost>>
        /\ wrk' = [wrk EXCEPT ![w] = Resume(wrk[w].todo)]
    BY <1>4 DEF InvalidateDetail, redis, history
  <2>2. wrk'[w] = Resume(wrk[w].todo) /\ \A v \in Workers \ {w} : wrk'[v] = wrk[v]
    BY <2>1 DEF TypeOK
  <2>3. MarkKept(c)
    BY <2>1, <2>2, ResumeKeeps DEF MarkKept, Marked, Marking
  <2> QED BY <2>1, <2>3, ResumeKeeps, WorkerKeeps
<1>5. CASE AbortSync(w)
  <2>1. /\ UNCHANGED <<cnt, req, dirty, synced>> /\ Lose(InHand(w))
        /\ \A v \in Workers : wrk'[v] = IF v = w THEN WrkIdle ELSE wrk[v]
    BY <1>5 DEF AbortSync, redis, TypeOK
  <2>2. Marked(c) => c \in lost' \/ Marked(c)'
    BY <2>1 DEF Marked, Marking, Lose, InHand
  <2>3. WritesCount(c) => c \in lost' \/ WritesCount(c)'
    BY <2>1 DEF WritesCount, Lose, InHand
  <2>4. Writing(c)' => Writing(c)
    BY <2>1 DEF Writing, WrkIdle
  <2> QED BY <2>1, <2>2, <2>3, <2>4 DEF Kept, Seen, Lose
<1> QED BY <1>1, <1>2, <1>3, <1>4, <1>5 DEF SyncDirtyLikes

LEMMA MarkerStep == MarkerInv /\ [Next]_vars => MarkerInv'
<1> SUFFICES ASSUME TypeOK, \A c \in Comments : Kept(c), [Next]_vars, NEW c \in Comments
             PROVE  Kept(c)'
  BY TypeStep DEF MarkerInv
<1>1. CASE UNCHANGED <<cnt, dirty, req, wrk, synced, lost>>
  BY <1>1 DEF Kept, Marked, Marking, Writing, WritesCount, Seen
<1>2. ASSUME NEW r \in Requests, Request(r) PROVE Kept(c)'
  BY <1>2, RequestStep
<1>3. ASSUME NEW w \in Workers, SyncDirtyLikes(w) \/ AbortSync(w) PROVE Kept(c)'
  BY <1>3, WorkerStep
<1>4. CASE Consume
  BY <1>1, <1>4
  DEF Consume, Fetch, OnCreateInsert, OnCreateInvalidate, OnLikeIncr, OnLikeFind,
      OnLikeSetDetail, OnLikeUpdateScore, redis, history
<1>5. CASE Crash \/ Shutdown
  <2>1. /\ UNCHANGED <<cnt, dirty, synced>>
        /\ wrk' = [w \in Workers |-> WrkIdle]
        /\ Lose((UNION {Unmarked(r) : r \in Requests}) \cup (UNION {InHand(w) : w \in Workers}))
    BY <1>5 DEF Crash, Shutdown, Restart, redis
  <2>2. Marked(c) => c \in lost' \/ Marked(c)'
    BY <2>1 DEF Marked, Marking, Lose, Unmarked, InHand
  <2>3. WritesCount(c) => c \in lost'
    BY <2>1 DEF WritesCount, Lose, InHand
  <2>4. ~Writing(c)'
    BY <2>1 DEF Writing, WrkIdle
  <2> QED BY <2>1, <2>2, <2>3, <2>4 DEF Kept, Seen, Lose
<1>6. ASSUME NEW d \in Comments, SetPending(d) \/ ExpireDetail(d) PROVE Kept(c)'
  BY <1>1, <1>6 DEF SetPending, ExpireDetail, redis, history
<1>7. CASE UNCHANGED vars
  BY <1>1, <1>7 DEF vars, redis, history
<1> QED BY <1>2, <1>3, <1>4, <1>5, <1>6, <1>7 DEF Next

(* Whatever fails, and however many requests and sync workers interleave: a   *)
(* like or unlike is left out of the sync only where lost records why.        *)
THEOREM NoMarkerIsLost == Spec => []NoLostMarker
<1>1. Init => MarkerInv
  BY TypeInit DEF Init, MarkerInv, Kept, Seen, Writing, WrkIdle
<1>2. MarkerInv => NoLostMarker
  BY DEF MarkerInv, Kept, NoLostMarker, WritesCount
<1> QED BY <1>1, <1>2, MarkerStep, PTL DEF Spec

-------------------------------------------------------------------------------
(* The log, and the order of its events. *)

(* The log only grows, so the consumer's event stays what it is. *)
LEMMA RequestLog ==
    ASSUME TypeOK, NEW r \in Requests, Request(r)
    PROVE  /\ UNCHANGED <<row, con, fetched, synced, uncached, wrk>>
           /\ con.pc # "idle" => Current' = Current
<1>1. UNCHANGED <<row, con, fetched, synced, uncached, wrk>>
  BY DEF Request, Like, Unlike, React, PublishLikeEvent, MarkDirty, GetDetail, FindDetail,
         FillDetail, Disconnect, history
<1>2. CASE UNCHANGED log
  BY <1>1, <1>2 DEF Current
<1>3. CASE PublishLikeEvent(r)
  <2> DEFINE e == [type |-> req[r].type, c |-> req[r].c]
  <2>1. log' \in {log, Append(log, e), log \o <<e, e>>}
    BY <1>3 DEF PublishLikeEvent
  <2>2. e \in Event /\ log \in Seq(Event) /\ fetched \in Nat
    BY <1>3, ReqFields DEF PublishLikeEvent, TypeOK, Event
  <2>3. \A i \in 1..Len(log) : log'[i] = log[i]
    BY <2>1, <2>2
  <2>4. con.pc # "idle" => fetched + 1 \in 1..Len(log)
    BY <2>2 DEF TypeOK
  <2> QED BY <1>1, <2>3, <2>4 DEF Current
<1> QED BY <1>1, <1>2, <1>3
        DEF Request, Like, Unlike, React, MarkDirty, GetDetail, FindDetail, FillDetail,
            Disconnect, kafka

(* A row is never deleted. *)
LEMMA RowStays ==
    ASSUME TypeOK, [Next]_vars, NEW c \in Comments, row[c] # None
    PROVE  row'[c] # None
<1> USE LikeSyncAssumption
<1>1. CASE UNCHANGED row
  BY <1>1
<1>2. ASSUME NEW r \in Requests, Request(r) PROVE UNCHANGED row
  BY <1>2, RequestLog
<1>3. ASSUME NEW w \in Workers, SyncDirtyLikes(w) \/ AbortSync(w) PROVE row'[c] # None
  <2>1. CASE SyncLikeCount(w)
    BY <2>1, WrkFields DEF SyncLikeCount, TypeOK
  <2>2. CASE ~SyncLikeCount(w)
    BY <1>1, <1>3, <2>2
    DEF SyncDirtyLikes, PopDirtyBatch, GetLikeCount, InvalidateDetail, AbortSync
  <2> QED BY <2>1, <2>2
<1>4. CASE Consume
  <2>1. CASE OnLikeIncr
    <3>1. UNCHANGED row \/ row' = [row EXCEPT ![Current.c] = IncrLikeCount(@, Delta(Current))]
      BY <2>1 DEF OnLikeIncr
    <3>2. row[c] \in Nat /\ Delta(Current) \in {1, -1}
      BY DEF TypeOK, Count, Delta
    <3>3. IncrLikeCount(row[c], Delta(Current)) \in Nat
      BY <3>2 DEF IncrLikeCount
    <3> QED BY <1>1, <3>1, <3>3 DEF TypeOK
  <2>2. CASE OnCreateInsert
    BY <1>1, <2>2 DEF OnCreateInsert, TypeOK
  <2>3. CASE ~OnLikeIncr /\ ~OnCreateInsert
    BY <1>1, <1>4, <2>3
    DEF Consume, Fetch, OnCreateInvalidate, OnLikeFind, OnLikeSetDetail, OnLikeUpdateScore
  <2> QED BY <2>1, <2>2, <2>3
<1>5. CASE Crash \/ Shutdown \/ UNCHANGED vars \/ (\E d \in Comments : SetPending(d) \/ ExpireDetail(d))
  BY <1>1, <1>5 DEF Crash, Shutdown, Restart, SetPending, ExpireDetail, vars
<1> QED BY <1>1, <1>2, <1>3, <1>4, <1>5 DEF Next

(* Only a publication changes the log, and appends to it. *)
LEMMA LogStep ==
    ASSUME TypeOK, [Next]_vars
    PROVE  UNCHANGED log \/ \E r \in Requests : PublishLikeEvent(r)
  BY DEF Next, Request, Like, Unlike, React, MarkDirty, GetDetail, FindDetail, FillDetail,
         Disconnect, SyncDirtyLikes, PopDirtyBatch, GetLikeCount, SyncLikeCount, InvalidateDetail,
         AbortSync, Consume, Fetch, OnCreateInsert, OnCreateInvalidate, OnLikeIncr, OnLikeFind,
         OnLikeSetDetail, OnLikeUpdateScore, Crash, Shutdown, Restart, SetPending, ExpireDetail,
         vars, kafka

LEMMA PublishStep ==
    ASSUME TypeOK, NEW r \in Requests, PublishLikeEvent(r)
    PROVE  LET e == [type |-> req[r].type, c |-> req[r].c]
           IN  /\ e.type \in {"like", "unlike"} /\ e.c \in Comments
               /\ Len(log) \in Nat /\ Len(log') \in Nat /\ Len(log) <= Len(log')
               /\ \A i \in 1..Len(log) : log'[i] = log[i]
               /\ \A i \in Len(log) + 1 .. Len(log') : log'[i] = e
               /\ e.c \in skewed' \/ (Len(log') = Len(log) + 1 /\ ~Overtaking(r))
               /\ req' = [req EXCEPT ![r] = [pc |-> "mark", c |-> e.c]]
<1> DEFINE e == [type |-> req[r].type, c |-> req[r].c]
<1>1. e.type \in {"like", "unlike"} /\ e.c \in Comments
  BY ReqFields DEF PublishLikeEvent, TypeOK
<1>2. log \in Seq(Event) /\ e \in Event /\ Len(log) \in Nat
  BY <1>1 DEF TypeOK, Event
<1>3. req' = [req EXCEPT ![r] = [pc |-> "mark", c |-> e.c]]
  BY DEF PublishLikeEvent
<1>4. CASE log' = Append(log, e) /\ Skew(IF Overtaking(r) THEN {e.c} ELSE {})
  <2>1. Len(log') = Len(log) + 1 /\ \A i \in 1..Len(log) : log'[i] = log[i]
    BY <1>2, <1>4
  <2>2. log'[Len(log) + 1] = e
    BY <1>2, <1>4
  <2>3. e.c \in skewed' \/ ~Overtaking(r)
    BY <1>4 DEF Skew
  <2>4. \A i \in Len(log) + 1 .. Len(log') : i = Len(log) + 1
    BY <1>2, <2>1
  <2>5. \A i \in Len(log) + 1 .. Len(log') : log'[i] = e
    BY <2>2, <2>4
  <2>6. Len(log') \in Nat /\ Len(log) <= Len(log')
    BY <1>2, <2>1
  <2> QED BY <1>1, <1>2, <1>3, <2>1, <2>3, <2>5, <2>6
<1>5. CASE UNCHANGED log /\ Skew({e.c})
  BY <1>1, <1>2, <1>3, <1>5 DEF Skew
<1>6. CASE log' = log \o <<e, e>> /\ Skew({e.c})
  <2>1. Len(log') = Len(log) + 2 /\ \A i \in 1..Len(log) : log'[i] = log[i]
    BY <1>2, <1>6
  <2>2. log'[Len(log) + 1] = e /\ log'[Len(log) + 2] = e
    BY <1>2, <1>6
  <2>3. \A i \in Len(log) + 1 .. Len(log') : i = Len(log) + 1 \/ i = Len(log) + 2
    BY <1>2, <2>1
  <2> QED BY <1>1, <1>2, <1>3, <1>6, <2>1, <2>2, <2>3 DEF Skew
<1> QED BY <1>4, <1>5, <1>6 DEF PublishLikeEvent

(* The comments' create events stand before everything else. *)
CreatesFirst ==
    /\ Len(Submitted) <= Len(log)
    /\ \A i \in 1..Len(log) : i <= Len(Submitted) <=> log[i].type = "create"
    /\ con.pc \in {"insert", "invalidate"} => Current.type = "create"
    /\ con.pc \in {"incr", "find", "setdetail", "zadd"} => Current.type # "create"
    /\ con.pc = "invalidate" => row[Current.c] # None

LEMMA CreatesInit == Init => CreatesFirst
  BY LikeSyncAssumption DEF Init, CreatesFirst, ConIdle

LEMMA CreatesStep == TypeOK /\ CreatesFirst /\ [Next]_vars => CreatesFirst'
<1> SUFFICES ASSUME TypeOK, CreatesFirst, [Next]_vars PROVE CreatesFirst'
  OBVIOUS
<1> DEFINE Ordered == /\ Len(Submitted) <= Len(log)
                      /\ \A i \in 1..Len(log) : i <= Len(Submitted) <=> log[i].type = "create"
           Typed == /\ con.pc \in {"insert", "invalidate"} => Current.type = "create"
                    /\ con.pc \in {"incr", "find", "setdetail", "zadd"} => Current.type # "create"
                    /\ con.pc = "invalidate" => row[Current.c] # None
<1>0. Ordered /\ Typed /\ Len(log) \in Nat /\ Len(Submitted) \in Nat
  BY LikeSyncAssumption DEF CreatesFirst, TypeOK
<1>1. Ordered'
  <2>1. CASE UNCHANGED log
    BY <1>0, <2>1
  <2>2. ASSUME NEW r \in Requests, PublishLikeEvent(r) PROVE Ordered'
    <3>1. /\ Len(log) <= Len(log') /\ Len(log') \in Nat
          /\ \A i \in 1..Len(log) : log'[i] = log[i]
          /\ \A i \in Len(log) + 1 .. Len(log') : log'[i].type # "create"
      BY <2>2, PublishStep
    <3> QED BY <1>0, <3>1
  <2> QED BY <2>1, <2>2, LogStep
<1>2. ASSUME UNCHANGED con, con.pc # "idle" => Current' = Current PROVE Typed'
  <2>1. con.pc = "invalidate" => row'[Current.c] # None
    BY <1>0, RowStays, CurrentType
  <2> QED BY <1>0, <1>2, <2>1
<1>3. ASSUME con' = ConIdle PROVE Typed'
  BY <1>3 DEF ConIdle
<1>4. ASSUME con' = [pc |-> Entry, attempt |-> con'.attempt], UNCHANGED <<log, fetched>> PROVE Typed'
  BY <1>4 DEF Entry, Current
<1>5. ASSUME NEW r \in Requests, Request(r) PROVE Typed'
  BY <1>2, <1>5, RequestLog
<1>6. ASSUME NEW w \in Workers, SyncDirtyLikes(w) \/ AbortSync(w) PROVE Typed'
  BY <1>2, <1>6
  DEF SyncDirtyLikes, PopDirtyBatch, GetLikeCount, SyncLikeCount, InvalidateDetail, AbortSync,
      kafka, Current
<1>7. ASSUME Consume PROVE Typed'
  <2>0. UNCHANGED log
    BY <1>7 DEF Consume, Fetch, OnCreateInsert, OnCreateInvalidate, OnLikeIncr, OnLikeFind,
                OnLikeSetDetail, OnLikeUpdateScore, kafka
  <2>1. ASSUME Retry PROVE Typed'
    BY <1>3, <1>4, <2>0, <2>1 DEF Retry, Done
  <2>2. CASE Fetch
    BY <1>4, <2>2 DEF Fetch, kafka
  <2>3. CASE OnCreateInsert
    <3>1. CASE /\ row' = [row EXCEPT ![Current.c] = 0]
               /\ con' = [con EXCEPT !.pc = "invalidate"] /\ UNCHANGED fetched
      <4>1. con.pc = "insert" /\ con'.pc = "invalidate" /\ Current' = Current
        BY <2>0, <2>3, <3>1, ConFields DEF OnCreateInsert, TypeOK, Current
      <4>2. row'[Current.c] # None
        BY <3>1, <4>1, CurrentType, LikeSyncAssumption DEF TypeOK
      <4> QED BY <1>0, <4>1, <4>2
    <3> QED BY <2>1, <2>3, <3>1 DEF OnCreateInsert
  <2>4. CASE OnCreateInvalidate \/ OnLikeUpdateScore
    BY <1>3, <2>4 DEF OnCreateInvalidate, OnLikeUpdateScore, Done
  <2>5. CASE OnLikeIncr
    <3>1. CASE con' = [con EXCEPT !.pc = "find"] /\ UNCHANGED fetched
      <4>1. con.pc = "incr" /\ con'.pc = "find" /\ Current' = Current
        BY <2>0, <2>5, <3>1, ConFields DEF OnLikeIncr, TypeOK, Current
      <4> QED BY <1>0, <4>1
    <3> QED BY <2>1, <2>5, <3>1 DEF OnLikeIncr
  <2>6. CASE OnLikeFind
    <3>1. CASE /\ con' = [pc |-> "setdetail", attempt |-> con.attempt, val |-> row[Current.c]]
               /\ UNCHANGED fetched
      BY <1>0, <2>0, <2>6, <3>1 DEF OnLikeFind, Current
    <3> QED BY <1>3, <2>1, <2>6, <3>1 DEF OnLikeFind, Done
  <2>7. CASE OnLikeSetDetail
    <3>1. con.pc = "setdetail" /\ con'.pc = "zadd" /\ Current' = Current
      BY <2>0, <2>7 DEF OnLikeSetDetail, Current
    <3> QED BY <1>0, <3>1
  <2> QED BY <1>7, <2>2, <2>3, <2>4, <2>5, <2>6, <2>7 DEF Consume
<1>8. ASSUME Crash \/ Shutdown PROVE Typed'
  BY <1>3, <1>8 DEF Crash, Shutdown, Restart
<1>9. ASSUME UNCHANGED vars \/ (\E d \in Comments : SetPending(d) \/ ExpireDetail(d))
      PROVE  Typed'
  BY <1>2, <1>9 DEF SetPending, ExpireDetail, vars, kafka, Current
<1>10. Typed'
  BY <1>5, <1>6, <1>7, <1>8, <1>9 DEF Next
<1> QED BY <1>1, <1>10 DEF CreatesFirst

-------------------------------------------------------------------------------
(* DetailFresh.  Whoever is about to cache a count of a comment that is not    *)
(* stale, be it a reader, the submitter or the consumer, holds MySQL's count;  *)
(* and nobody has cached another one than 0 before the comment has its row.    *)

Carries(c, n) ==
    \/ \E r \in Requests : req[r].pc = "fill" /\ req[r].c = c /\ req[r].val = n
    \/ con.pc = "setdetail" /\ Current.c = c /\ con.val = n
    \/ c \in uncached /\ n = 0

DetailRight(c) ==
    /\ c \notin stale \/ row[c] = None => \A n \in Nat : Carries(c, n) => n = Stored(c)
    /\ c \notin stale => detail[c] \in {None, Stored(c)} \/ Refreshing(c)
    /\ row[c] = None => detail[c] \in {None, 0}

DetailInv == TypeOK /\ CreatesFirst /\ \A c \in Comments : DetailRight(c)

LEMMA HeldCarries ==
    ASSUME TypeOK, NEW c \in Comments
    PROVE  Held(c) <=> \E n \in Nat : Carries(c, n)
<1>1. \A r \in Requests : req[r].pc = "fill" => req[r].val \in Nat
  BY ReqFields DEF TypeOK
<1>2. con.pc = "setdetail" => con.val \in Nat
  BY ConFields DEF TypeOK
<1> QED BY <1>1, <1>2 DEF Held, Carries

LEMMA HeldCarriesNext ==
    ASSUME TypeOK', NEW c \in Comments
    PROVE  Held(c)' <=> \E n \in Nat : Carries(c, n)'
<1>1. \A r \in Requests : req'[r].pc = "fill" => req'[r].val \in Nat
  BY ReqFields DEF TypeOK
<1>2. con'.pc = "setdetail" => con'.val \in Nat
  BY ConFields DEF TypeOK
<1> QED BY <1>1, <1>2 DEF Held, Carries

(* A step that caches nothing and updates no row of c. *)
LEMMA DetailKept ==
    ASSUME TypeOK, NEW c \in Comments, DetailRight(c),
           detail'[c] = detail[c], Stored(c)' = Stored(c), row'[c] = None => row[c] = None,
           \A n \in Nat : Carries(c, n)' => Carries(c, n) \/ n = Stored(c),
           c \in stale => c \in stale',
           c \notin stale' /\ Refreshing(c) => Refreshing(c)' \/ row[c] = None
    PROVE  DetailRight(c)'
<1>1. row[c] = None => Stored(c) = 0
  BY DEF Stored
<1> QED BY <1>1 DEF DetailRight

(* An UPDATE of c, whose handler will refresh the entry. *)
LEMMA DetailUpdated ==
    ASSUME TypeOK, TypeOK', NEW c \in Comments, row'[c] # None,
           c \notin stale' => ~Held(c)' /\ Refreshing(c)'
    PROVE  DetailRight(c)'
<1>1. c \notin stale' => \A n \in Nat : ~Carries(c, n)'
  BY HeldCarriesNext
<1> QED BY <1>1 DEF DetailRight

(* The entry of d becomes n, which somebody carried, or is deleted. *)
LEMMA DetailCached ==
    ASSUME TypeOK, TypeOK', NEW c \in Comments, DetailRight(c),
           row'[c] = row[c], \A n \in Nat : Carries(c, n)' => Carries(c, n),
           NEW d \in Comments, NEW v \in Count, CacheDetail(d, v), v = None \/ Carries(d, v),
           c # d /\ Refreshing(c) => Refreshing(c)'
    PROVE  DetailRight(c)'
<1>1. Stored(c)' = Stored(c)
  BY DEF Stored
<1>2. CASE c # d
  BY <1>1, <1>2, DetailKept DEF CacheDetail, TypeOK
<1>3. CASE c = d
  <2>1. detail'[c] = v
    BY <1>3 DEF CacheDetail, TypeOK
  <2>2. v \in Nat \/ v = None
    BY DEF Count
  <2>3. row[c] = None => v \in {None, 0}
    BY <1>3, <2>2 DEF DetailRight, Stored
  <2>4. CASE c \in stale'
    BY <1>1, <2>1, <2>3, <2>4 DEF DetailRight
  <2>5. CASE c \notin stale' /\ c \notin stale
    BY <1>1, <1>3, <2>1, <2>2, <2>3, <2>5 DEF DetailRight
  <2>6. CASE c \notin stale' /\ c \in stale
    <3>1. v \in {None, Stored(c)} /\ ~Held(c)'
      BY <1>3, <2>6 DEF CacheDetail
    <3>2. \A n \in Nat : ~Carries(c, n)'
      BY <3>1, HeldCarriesNext
    <3> QED BY <1>1, <2>1, <2>3, <3>1, <3>2 DEF DetailRight
  <2> QED BY <2>4, <2>5, <2>6
<1> QED BY <1>2, <1>3

LEMMA DetailRequest ==
    ASSUME TypeOK, TypeOK', NEW c \in Comments, DetailRight(c), NEW r \in Requests, Request(r)
    PROVE  DetailRight(c)'
<1>1. UNCHANGED <<row, con, uncached, wrk>> /\ (con.pc # "idle" => Current' = Current)
  BY RequestLog
<1>2. Refreshing(c) => Refreshing(c)'
  BY <1>1 DEF Refreshing
<1>3. Stored(c)' = Stored(c) /\ row'[c] = row[c]
  BY <1>1 DEF Stored
<1>4. ASSUME \A q \in Requests : req'[q].pc = "fill" => req'[q] = req[q]
      PROVE  \A n \in Nat : Carries(c, n)' => Carries(c, n)
  BY <1>1, <1>4 DEF Carries
<1>5. CASE \/ Like(r) \/ Unlike(r) \/ PublishLikeEvent(r) \/ MarkDirty(r) \/ GetDetail(r)
           \/ Disconnect(r)
  <2>1. UNCHANGED <<detail, stale>>
    BY <1>5 DEF Like, Unlike, React, PublishLikeEvent, MarkDirty, GetDetail, Disconnect, caches,
                history
  <2>2. \A q \in Requests : req'[q].pc = "fill" => req'[q] = req[q]
    <3>1. PICK k : k.pc # "fill" /\ (UNCHANGED req \/ req' = [req EXCEPT ![r] = k])
      <4>1. CASE Like(r) \/ Unlike(r)
        <5>1. PICK d \in Comments, u \in Users, type \in {"like", "unlike"} : React(r, d, type, u)
          BY <4>1 DEF Like, Unlike
        <5>2. [pc |-> "publish", c |-> d, type |-> type, u |-> u].pc # "fill"
          OBVIOUS
        <5> QED BY <5>1, <5>2 DEF React
      <4>2. CASE PublishLikeEvent(r)
        BY <4>2 DEF PublishLikeEvent
      <4>3. CASE MarkDirty(r) \/ Disconnect(r)
        BY <4>3 DEF MarkDirty, Disconnect, ReqIdle
      <4>4. CASE GetDetail(r)
        <5>1. PICK d \in hot : req' = [req EXCEPT ![r] = [pc |-> "find", c |-> d]]
          BY <4>4 DEF GetDetail
        <5>2. [pc |-> "find", c |-> d].pc # "fill"
          OBVIOUS
        <5> QED BY <5>1, <5>2
      <4> QED BY <1>5, <4>1, <4>2, <4>3, <4>4
    <3> QED BY <3>1 DEF TypeOK
  <2> QED BY <1>2, <1>3, <1>4, <2>1, <2>2, DetailKept
<1>6. CASE FindDetail(r)
  <2>1. UNCHANGED <<detail, stale>>
    BY <1>6 DEF FindDetail, caches, history
  <2>2. /\ \A q \in Requests \ {r} : req'[q] = req[q]
        /\ req'[r].pc = "fill" => /\ row[req[r].c] # None
                                  /\ req'[r].c = req[r].c /\ req'[r].val = row[req[r].c]
    BY <1>6 DEF FindDetail, TypeOK, ReqIdle
  <2>3. \A n \in Nat : Carries(c, n)' => Carries(c, n) \/ n = Stored(c)
    BY <1>1, <2>2 DEF Carries, Stored
  <2> QED BY <1>2, <1>3, <2>1, <2>3, DetailKept
<1>7. CASE FillDetail(r)
  <2>1. req[r].c \in Comments /\ req[r].val \in Count /\ Carries(req[r].c, req[r].val)
    BY <1>7, ReqFields DEF FillDetail, TypeOK, Count, Carries
  <2>2. \A n \in Nat : Carries(c, n)' => Carries(c, n)
    BY <1>4, <1>7 DEF FillDetail, TypeOK, ReqIdle
  <2>3. CacheDetail(req[r].c, req[r].val) \/ UNCHANGED <<detail, stale>>
    BY <1>7 DEF FillDetail
  <2> QED BY <1>2, <1>3, <2>1, <2>2, <2>3, DetailCached, DetailKept
<1> QED BY <1>5, <1>6, <1>7 DEF Request

LEMMA DetailWorker ==
    ASSUME TypeOK, TypeOK', NEW c \in Comments, DetailRight(c), NEW w \in Workers,
           SyncDirtyLikes(w) \/ AbortSync(w)
    PROVE  DetailRight(c)'
<1>1. UNCHANGED <<con, log, fetched, req, uncached>> /\ Current' = Current
  BY DEF SyncDirtyLikes, PopDirtyBatch, GetLikeCount, SyncLikeCount, InvalidateDetail, AbortSync,
         kafka, Current
<1>2. (\A n \in Nat : Carries(c, n)' => Carries(c, n)) /\ (Held(c)' => Held(c))
  BY <1>1 DEF Carries, Held
<1>3. ASSUME NEW k, wrk' = [wrk EXCEPT ![w] = k], wrk[w].pc = "invalidate" => wrk[w].c # c
      PROVE  Refreshing(c) => Refreshing(c)'
  BY <1>1, <1>3 DEF Refreshing, TypeOK
<1>4. UNCHANGED row => Stored(c)' = Stored(c) /\ row'[c] = row[c]
  BY DEF Stored
<1>5. CASE PopDirtyBatch(w) \/ GetLikeCount(w)
  <2>1. UNCHANGED <<row, detail, stale>> /\ wrk[w].pc # "invalidate"
    BY <1>5 DEF PopDirtyBatch, GetLikeCount, caches
  <2>2. UNCHANGED wrk \/ \E k : wrk' = [wrk EXCEPT ![w] = k]
    BY <1>5 DEF PopDirtyBatch, GetLikeCount
  <2>3. UNCHANGED wrk => (Refreshing(c) => Refreshing(c)')
    BY <1>1 DEF Refreshing
  <2> QED BY <1>2, <1>3, <1>4, <2>1, <2>2, <2>3, DetailKept
<1>6. CASE SyncLikeCount(w)
  <2> DEFINE d == wrk[w].c
             Write == row' = [row EXCEPT ![d] = IF @ = None THEN None ELSE wrk[w].val]
  <2>1. /\ wrk[w].pc = "write" /\ d \in Comments /\ wrk[w].val \in Nat /\ UNCHANGED detail
    BY <1>6, WrkFields DEF SyncLikeCount, TypeOK, caches
  <2>2. \E k : wrk' = [wrk EXCEPT ![w] = k]
    BY <1>6 DEF SyncLikeCount
  <2>3. Refreshing(c) => Refreshing(c)'
    BY <1>3, <2>1, <2>2
  <2>4. \/ UNCHANGED <<row, stale>>
        \/ Write /\ Outdate({d})
        \/ Write /\ Outdate(Overtaken(d)) /\ wrk' = [wrk EXCEPT ![w] =
                                                [pc |-> "invalidate", todo |-> @.todo, c |-> d]]
    BY <1>6 DEF SyncLikeCount
  <2>5. CASE UNCHANGED <<row, stale>>
    BY <1>2, <1>4, <2>1, <2>3, <2>5, DetailKept
  <2>6. CASE Write /\ (c # d \/ row[c] = None) /\ stale \subseteq stale'
    <3>1. row'[c] = row[c] /\ Stored(c)' = Stored(c)
      BY <2>6 DEF Stored, TypeOK
    <3> QED BY <1>2, <2>1, <2>3, <2>6, <3>1, DetailKept
  <2>7. CASE Write /\ c = d /\ row[c] # None /\ stale \subseteq stale'
    <3>1. row'[c] # None
      BY <2>1, <2>7, LikeSyncAssumption DEF TypeOK
    <3>2. CASE Outdate({d})
      BY <2>7, <3>1, <3>2, DetailUpdated DEF Outdate
    <3>3. CASE /\ Outdate(Overtaken(d))
               /\ wrk' = [wrk EXCEPT ![w] = [pc |-> "invalidate", todo |-> @.todo, c |-> d]]
      <4>1. c \notin stale' => ~Held(c)'
        BY <1>2, <2>7, <3>3 DEF Outdate, Overtaken
      <4>2. wrk'[w].pc = "invalidate" /\ wrk'[w].c = c
        BY <2>7, <3>3 DEF TypeOK
      <4>3. Refreshing(c)'
        BY <4>2 DEF Refreshing
      <4> QED BY <3>1, <4>1, <4>3, DetailUpdated
    <3>4. ~UNCHANGED <<row, stale>> => Outdate({d}) \/ (/\ Outdate(Overtaken(d))
               /\ wrk' = [wrk EXCEPT ![w] = [pc |-> "invalidate", todo |-> @.todo, c |-> d]])
      BY <2>4
    <3> QED BY <2>5, <3>2, <3>3, <3>4
  <2>8. ASSUME NEW S, Outdate(S) PROVE stale \subseteq stale'
    BY <2>8 DEF Outdate
  <2> QED BY <2>4, <2>5, <2>6, <2>7, <2>8
<1>7. CASE InvalidateDetail(w)
  <2>1. wrk[w].c \in Comments /\ UNCHANGED row /\ \E k : wrk' = [wrk EXCEPT ![w] = k]
    BY <1>7, WrkFields DEF InvalidateDetail, TypeOK
  <2>2. CASE CacheDetail(wrk[w].c, None)
    BY <1>2, <1>3, <1>4, <2>1, <2>2, DetailCached DEF Count
  <2>3. CASE UNCHANGED detail /\ Outdate({wrk[w].c})
    BY <1>2, <1>3, <1>4, <2>1, <2>3, DetailKept DEF Outdate
  <2> QED BY <1>7, <2>2, <2>3 DEF InvalidateDetail
<1>8. CASE AbortSync(w)
  <2>1. UNCHANGED <<row, detail>> /\ (\E k : wrk' = [wrk EXCEPT ![w] = k])
        /\ Outdate(IF wrk[w].pc = "invalidate" THEN {wrk[w].c} ELSE {})
    BY <1>8 DEF AbortSync, caches
  <2> QED BY <1>2, <1>3, <1>4, <2>1, DetailKept DEF Outdate
<1> QED BY <1>5, <1>6, <1>7, <1>8 DEF SyncDirtyLikes

LEMMA DetailConsume ==
    ASSUME TypeOK, TypeOK', CreatesFirst, NEW c \in Comments, DetailRight(c), Consume
    PROVE  DetailRight(c)'
<1> USE DEF caches, kafka, history
<1>1. UNCHANGED <<req, wrk, uncached, log>>
  BY DEF Consume, Fetch, OnCreateInsert, OnCreateInvalidate, OnLikeIncr, OnLikeFind,
         OnLikeSetDetail, OnLikeUpdateScore
<1>2. con'.pc # "setdetail" => (\A n \in Nat : Carries(c, n)' => Carries(c, n)) /\ (Held(c)' => Held(c))
  BY <1>1 DEF Carries, Held
<1>3. UNCHANGED row => Stored(c)' = Stored(c) /\ row'[c] = row[c]
  BY DEF Stored
<1>4. ASSUME con.pc = "idle" \/ Current.c # c \/ con.pc \notin {"incr", "find", "setdetail"}
      PROVE  Refreshing(c) => Refreshing(c)'
  BY <1>1, <1>4 DEF Refreshing
<1>5. ASSUME Retry, con.pc # "idle"
      PROVE  /\ con'.pc \in {"idle", "insert", "incr"}
             /\ Current.type # "create" /\ c = Current.c /\ c \notin IfDropped => Refreshing(c)'
  <2>1. CASE con.attempt = MaxRetry /\ Done
    BY <2>1 DEF Done, ConIdle, IfDropped
  <2>2. CASE /\ con.attempt < MaxRetry /\ UNCHANGED fetched
             /\ con' = [pc |-> Entry, attempt |-> con.attempt + 1]
    <3>1. con.attempt + 1 > 1
      BY <1>5, ConFields, LikeSyncAssumption DEF TypeOK
    <3> QED BY <1>1, <2>2, <3>1 DEF Entry, Refreshing, Current
  <2> QED BY <1>5, <2>1, <2>2 DEF Retry
<1>6. CASE Fetch
  <2>1. con'.pc \in {"insert", "incr"} /\ con.pc = "idle" /\ UNCHANGED <<row, detail, stale>>
    BY <1>6 DEF Fetch, Entry, ConIdle
  <2> QED BY <1>2, <1>3, <1>4, <2>1, DetailKept
<1>7. CASE OnCreateInsert
  <2>1. con.pc = "insert" /\ UNCHANGED <<detail, stale>>
    BY <1>7 DEF OnCreateInsert
  <2>2. con'.pc # "setdetail"
    BY <1>5, <1>7, <2>1, ConFields DEF OnCreateInsert, TypeOK
  <2>3. Stored(c)' = Stored(c) /\ (row'[c] = None => row[c] = None)
    BY <1>7, LikeSyncAssumption DEF OnCreateInsert, Stored, TypeOK
  <2> QED BY <1>2, <1>4, <2>1, <2>2, <2>3, DetailKept
<1>8. CASE OnCreateInvalidate
  <2>1. con.pc = "invalidate" /\ con' = ConIdle /\ UNCHANGED row /\ Current.c \in Comments
    BY <1>8, CurrentType DEF OnCreateInvalidate, Done
  <2>2. CacheDetail(Current.c, None) \/ UNCHANGED <<detail, stale>>
    BY <1>8 DEF OnCreateInvalidate
  <2> QED BY <1>2, <1>3, <1>4, <2>1, <2>2, DetailCached, DetailKept DEF ConIdle, Count
<1>9. CASE OnLikeIncr
  <2> DEFINE Updated == row' = [row EXCEPT ![Current.c] = IncrLikeCount(@, Delta(Current))]
  <2>1. con.pc = "incr" /\ Current.type # "create" /\ UNCHANGED detail /\ Current.c \in Comments
    BY <1>9, CurrentType DEF OnLikeIncr, CreatesFirst
  <2>2. \/ /\ Updated /\ Outdate(Overtaken(Current.c))
           /\ con' = [con EXCEPT !.pc = "find"] /\ UNCHANGED fetched
        \/ UNCHANGED row /\ Retry /\ Outdate(IfDropped)
        \/ Updated /\ Retry /\ Outdate(IfDropped \cup Overtaken(Current.c))
    BY <1>9 DEF OnLikeIncr
  <2>3. stale \subseteq stale' /\ con'.pc # "setdetail"
    BY <1>5, <2>1, <2>2, ConFields DEF Outdate, TypeOK
  <2>4. c = Current.c /\ c \notin stale' => Refreshing(c)'
    <3>1. CASE con' = [con EXCEPT !.pc = "find"] /\ UNCHANGED fetched
      <4>1. con'.pc = "find" /\ Current' = Current
        BY <1>1, <2>1, <3>1, ConFields DEF TypeOK, Current
      <4> QED BY <4>1 DEF Refreshing
    <3> QED BY <1>5, <2>1, <2>2, <3>1 DEF Outdate
  <2>5. c # Current.c => (Refreshing(c) => Refreshing(c)')
    BY <1>4
  <2>6. CASE UNCHANGED row
    BY <1>2, <1>3, <2>1, <2>3, <2>4, <2>5, <2>6, DetailKept
  <2>7. CASE Updated /\ (c # Current.c \/ row[c] = None)
    <3>1. row'[c] = row[c] /\ Stored(c)' = Stored(c)
      BY <2>7 DEF Stored, TypeOK, IncrLikeCount
    <3> QED BY <1>2, <2>1, <2>3, <2>4, <2>5, <3>1, DetailKept
  <2>8. CASE Updated /\ c = Current.c /\ row[c] # None /\ ~UNCHANGED row
    <3>1. row'[c] # None
      <4>1. row[c] \in Nat /\ Delta(Current) \in {1, -1}
        BY <2>8 DEF TypeOK, Count, Delta
      <4>2. row'[c] \in Nat
        BY <2>8, <4>1, LikeSyncAssumption DEF TypeOK, IncrLikeCount
      <4> QED BY <4>2, LikeSyncAssumption
    <3>2. c \notin stale' => ~Held(c)'
      BY <1>2, <2>2, <2>3, <2>8 DEF Outdate, Overtaken
    <3> QED BY <2>4, <2>8, <3>1, <3>2, DetailUpdated
  <2> QED BY <2>2, <2>6, <2>7, <2>8
<1>10. CASE OnLikeFind
  <2>1. /\ con.pc = "find" /\ Current.type # "create" /\ Current.c \in Comments
        /\ UNCHANGED <<row, detail>>
    BY <1>10, CurrentType DEF OnLikeFind, CreatesFirst
  <2>2. CASE /\ row[Current.c] # None /\ UNCHANGED <<fetched, stale>>
             /\ con' = [pc |-> "setdetail", attempt |-> con.attempt, val |-> row[Current.c]]
    <3>1. Current' = Current
      BY <1>1, <2>2 DEF Current
    <3>2. \A n \in Nat : Carries(c, n)' => Carries(c, n) \/ n = Stored(c)
      BY <1>1, <2>2, <3>1 DEF Carries, Stored
    <3>3. Refreshing(c) => Refreshing(c)'
      BY <1>1, <2>1, <2>2, <3>1 DEF Refreshing
    <3> QED BY <1>3, <2>1, <2>2, <3>2, <3>3, DetailKept
  <2>3. CASE row[Current.c] = None /\ Done /\ UNCHANGED stale
    <3>1. c # Current.c => (Refreshing(c) => Refreshing(c)')
      BY <1>4
    <3> QED BY <1>2, <1>3, <2>1, <2>3, <3>1, DetailKept DEF Done, ConIdle
  <2>4. CASE Retry /\ Outdate(IfDropped)
    <3>1. c \notin stale' => (Refreshing(c) => Refreshing(c)')
      BY <1>4, <1>5, <2>1, <2>4 DEF Outdate
    <3> QED BY <1>2, <1>3, <1>5, <2>1, <2>4, <3>1, DetailKept DEF Outdate
  <2> QED BY <1>10, <2>2, <2>3, <2>4 DEF OnLikeFind
<1>11. CASE OnLikeSetDetail
  <2>1. /\ con.pc = "setdetail" /\ con'.pc = "zadd" /\ UNCHANGED row
        /\ Current.c \in Comments /\ con.val \in Count /\ Carries(Current.c, con.val)
    BY <1>11, CurrentType, ConFields DEF OnLikeSetDetail, TypeOK, Count, Carries
  <2>2. CASE CacheDetail(Current.c, con.val)
    BY <1>2, <1>3, <1>4, <2>1, <2>2, DetailCached
  <2>3. CASE UNCHANGED detail /\ Outdate({Current.c})
    BY <1>2, <1>3, <1>4, <2>1, <2>3, DetailKept DEF Outdate
  <2> QED BY <1>11, <2>2, <2>3 DEF OnLikeSetDetail
<1>12. CASE OnLikeUpdateScore
  <2>1. con.pc = "zadd" /\ con' = ConIdle /\ UNCHANGED <<row, detail, stale>>
    BY <1>12 DEF OnLikeUpdateScore, Done
  <2> QED BY <1>2, <1>3, <1>4, <2>1, DetailKept DEF ConIdle
<1> QED BY <1>6, <1>7, <1>8, <1>9, <1>10, <1>11, <1>12 DEF Consume

LEMMA DetailStep == DetailInv /\ [Next]_vars => DetailInv'
<1> SUFFICES ASSUME TypeOK, TypeOK', CreatesFirst, [Next]_vars, NEW c \in Comments, DetailRight(c)
             PROVE  DetailRight(c)'
  BY TypeStep, CreatesStep DEF DetailInv
<1>1. CASE Crash \/ Shutdown
  <2>1. UNCHANGED <<row, detail>> /\ Outdate({d \in Comments : Refreshing(d)})
        /\ uncached' = {} /\ con'.pc = "idle" /\ \A r \in Requests : req'[r].pc = "idle"
    BY <1>1 DEF Crash, Shutdown, Restart, caches, ReqIdle, ConIdle
  <2>2. \A n \in Nat : ~Carries(c, n)'
    BY <2>1 DEF Carries
  <2>3. Stored(c)' = Stored(c) /\ stale \subseteq stale' /\ (Refreshing(c) => c \in stale')
    BY <2>1 DEF Stored, Outdate
  <2> QED BY <2>1, <2>2, <2>3, DetailKept
<1>2. CASE UNCHANGED vars
  <2>1. UNCHANGED <<row, detail, stale, con, log, fetched, req, wrk, uncached>>
    BY <1>2 DEF vars, caches, kafka, history
  <2> QED BY <2>1, DetailKept DEF Stored, Carries, Refreshing, Current
<1>3. ASSUME NEW d \in Comments, SetPending(d) \/ ExpireDetail(d) PROVE DetailRight(c)'
  <2>1. UNCHANGED <<row, con, log, fetched, req, wrk>> /\ uncached' \subseteq uncached
    BY <1>3 DEF SetPending, ExpireDetail, kafka
  <2>2. /\ row'[c] = row[c] /\ Stored(c)' = Stored(c)
        /\ \A n \in Nat : Carries(c, n)' => Carries(c, n)
        /\ Refreshing(c) => Refreshing(c)'
    BY <2>1 DEF Stored, Carries, Refreshing, Current
  <2>3. CASE UNCHANGED <<detail, stale>>
    BY <2>2, <2>3, DetailKept
  <2>4. CASE SetPending(d) /\ CacheDetail(d, 0)
    BY <2>2, <2>4, DetailCached DEF SetPending, Carries, Count
  <2>5. CASE CacheDetail(d, None)
    BY <2>2, <2>5, DetailCached DEF Count
  <2> QED BY <1>3, <2>3, <2>4, <2>5 DEF SetPending, ExpireDetail
<1> QED BY <1>1, <1>2, <1>3, DetailRequest, DetailWorker, DetailConsume DEF Next

(* Whatever fails and whoever overtakes whom: the cached count of a comment   *)
(* is MySQL's, but where stale records why, and between an UPDATE and the call *)
(* that refreshes the entry.                                                   *)
THEOREM DetailStaysFresh == Spec => []DetailFresh
<1>1. Init => DetailInv
  <2> SUFFICES ASSUME Init, NEW c \in Comments PROVE DetailRight(c)
    BY TypeInit, CreatesInit DEF DetailInv
  <2>1. Stored(c) = 0
    <3>1. row[c] \in {None, 0}
      BY DEF Init
    <3> QED BY <3>1 DEF Stored
  <2>2. \A n \in Nat : Carries(c, n) => n = 0
    BY DEF Init, Carries, ReqIdle, ConIdle
  <2> QED BY <2>1, <2>2 DEF Init, DetailRight
<1>2. DetailInv => DetailFresh
  BY DEF DetailInv, DetailRight, DetailFresh
<1> QED BY <1>1, <1>2, DetailStep, PTL DEF Spec

-------------------------------------------------------------------------------
(* DeltaExact.                                                                *)
(*                                                                            *)
(* A comment that is not skewed has in the log what the Lua scripts did to    *)
(* its count, but for the events that are not published yet; the row is what  *)
(* the events add up to that the consumer has applied; and no prefix of the   *)
(* log takes it below zero, so the row's clamp never acts.  The last needs    *)
(* Covered: among any set of users, the likes that wait for publication are   *)
(* no more than the users who like the comment and the unlikes that wait.  An *)
(* unlike that is published while no like of its user waits leaves the other  *)
(* users covered, so that what is published then is not below zero.           *)

Likes(s, c, type, k) == {i \in 1..k : s[i] = [type |-> type, c |-> c]}

Balance(s, c, k) == Cardinality(Likes(s, c, "like", k)) - Cardinality(Likes(s, c, "unlike", k))

(* What one event adds to the count of c. *)
Effect(e, c) ==
    IF e = [type |-> "like", c |-> c] THEN 1
    ELSE IF e = [type |-> "unlike", c |-> c] THEN -1
    ELSE 0

(* The requests of these users that have yet to publish an event of c. *)
Asking(f, c, type, S) ==
    {r \in Requests : f[r].pc = "publish" /\ f[r].type = type /\ f[r].c = c /\ f[r].u \in S}

Unsent(f, c) == Cardinality(Asking(f, c, "like", Users)) - Cardinality(Asking(f, c, "unlike", Users))

Covered(f, liked, c) ==
    \A S \in SUBSET Users :
        Cardinality(Asking(f, c, "like", S))
            <= Cardinality(liked \cap S) + Cardinality(Asking(f, c, "unlike", S))

(* How far the log is in MySQL. *)
Applied == IF con.pc \in {"idle", "incr"} THEN fetched ELSE fetched + 1

Balanced(c) ==
    /\ cnt[c] = Balance(log, c, Len(log)) + Unsent(req, c)
    /\ Covered(req, users[c], c)
    /\ \A k \in 0..Len(log) : Balance(log, c, k) >= 0
    /\ row[c] = None => \E i \in fetched + 1 .. Len(log) : log[i] = [type |-> "create", c |-> c]
    /\ synced[c] = None => Stored(c) = Balance(log, c, Applied)

BalanceInv ==
    /\ TypeOK /\ CountMatchesUsers
    /\ CreatesFirst
    /\ \A c \in Comments \ skewed : Balanced(c)

LEMMA LikesFinite ==
    ASSUME NEW s, NEW c, NEW type, NEW k \in Nat
    PROVE  IsFiniteSet(Likes(s, c, type, k)) /\ Cardinality(Likes(s, c, type, k)) \in Nat
<1>1. IsFiniteSet(1..k)
  BY FS_Interval
<1>2. Likes(s, c, type, k) \subseteq 1..k
  BY DEF Likes
<1> QED BY <1>1, <1>2, FS_Subset, FS_CardinalityType

LEMMA BalanceType ==
    ASSUME NEW s, NEW c, NEW k \in Nat
    PROVE  Balance(s, c, k) \in Int
  BY LikesFinite DEF Balance

LEMMA BalanceZero == ASSUME NEW s, NEW c PROVE Balance(s, c, 0) = 0
<1>1. \A type : Likes(s, c, type, 0) = {}
  BY DEF Likes
<1> QED BY <1>1, FS_EmptySet DEF Balance

LEMMA LikesNext ==
    ASSUME NEW s, NEW c, NEW type, NEW k \in Nat
    PROVE  Cardinality(Likes(s, c, type, k + 1)) =
              Cardinality(Likes(s, c, type, k))
              + IF s[k + 1] = [type |-> type, c |-> c] THEN 1 ELSE 0
<1>1. IsFiniteSet(Likes(s, c, type, k)) /\ Cardinality(Likes(s, c, type, k)) \in Nat
  BY LikesFinite
<1>2. CASE s[k + 1] = [type |-> type, c |-> c]
  <2>1. Likes(s, c, type, k + 1) = Likes(s, c, type, k) \cup {k + 1}
    BY <1>2 DEF Likes
  <2>2. k + 1 \notin Likes(s, c, type, k)
    BY DEF Likes
  <2> QED BY <1>1, <1>2, <2>1, <2>2, FS_AddElement
<1>3. CASE s[k + 1] # [type |-> type, c |-> c]
  <2>1. Likes(s, c, type, k + 1) = Likes(s, c, type, k)
    BY <1>3 DEF Likes
  <2> QED BY <1>1, <1>3, <2>1
<1> QED BY <1>2, <1>3

LEMMA BalanceNext ==
    ASSUME NEW s, NEW c, NEW k \in Nat
    PROVE  Balance(s, c, k + 1) = Balance(s, c, k) + Effect(s[k + 1], c)
<1>1. [type |-> "like", c |-> c] # [type |-> "unlike", c |-> c]
  OBVIOUS
<1> QED BY <1>1, LikesNext, LikesFinite DEF Balance, Effect

(* Only the events up to k count. *)
LEMMA BalanceSame ==
    ASSUME NEW s, NEW t, NEW c, NEW k \in Nat, \A i \in 1..k : t[i] = s[i]
    PROVE  Balance(t, c, k) = Balance(s, c, k)
<1>1. \A type : Likes(t, c, type, k) = Likes(s, c, type, k)
  BY DEF Likes
<1> QED BY <1>1 DEF Balance

(* Events of others, and create events, count nothing. *)
LEMMA BalanceFlat ==
    ASSUME NEW s, NEW c, NEW j \in Nat, NEW k \in Nat, j <= k,
           \A i \in j + 1 .. k : s[i].type = "create" \/ s[i].c # c
    PROVE  Balance(s, c, j) = Balance(s, c, k)
<1>1. \A type \in {"like", "unlike"}, i \in j + 1 .. k : s[i] # [type |-> type, c |-> c]
  OBVIOUS
<1>2. \A type \in {"like", "unlike"} : Likes(s, c, type, j) = Likes(s, c, type, k)
  BY <1>1 DEF Likes
<1> QED BY <1>2 DEF Balance

(* The events beyond j. *)
LEMMA LikesRest ==
    ASSUME NEW s, NEW c, NEW type, NEW j \in Nat, NEW k \in Nat, j <= k,
           NEW R, \A i : i \in R <=> i \in j + 1 .. k /\ s[i] = [type |-> type, c |-> c]
    PROVE  /\ Cardinality(R) \in Nat
           /\ Cardinality(Likes(s, c, type, k)) = Cardinality(Likes(s, c, type, j)) + Cardinality(R)
<1>1. IsFiniteSet(j + 1 .. k)
  BY FS_Interval
<1>2. IsFiniteSet(R) /\ Cardinality(R) \in Nat
  BY <1>1, FS_Subset, FS_CardinalityType
<1>3. Likes(s, c, type, k) = Likes(s, c, type, j) \cup R
  BY DEF Likes
<1>4. Likes(s, c, type, j) \cap R = {}
  BY DEF Likes
<1>5. IsFiniteSet(Likes(s, c, type, j)) /\ Cardinality(Likes(s, c, type, j)) \in Nat
  BY LikesFinite
<1>6. Cardinality(Likes(s, c, type, k)) =
         Cardinality(Likes(s, c, type, j)) + Cardinality(R) - Cardinality({})
  BY <1>2, <1>3, <1>4, <1>5, FS_Union
<1> QED BY <1>2, <1>5, <1>6, FS_EmptySet

-------------------------------------------------------------------------------
(* The requests that have yet to publish. *)

LEMMA AskingFinite ==
    ASSUME NEW f, NEW c, NEW type, NEW S
    PROVE  /\ IsFiniteSet(Asking(f, c, type, S))
           /\ Cardinality(Asking(f, c, type, S)) \in Nat
<1>1. Asking(f, c, type, S) \subseteq Requests
  BY DEF Asking
<1> QED BY <1>1, LikeSyncAssumption, FS_Subset, FS_CardinalityType

LEMMA UnsentType == ASSUME NEW f, NEW c PROVE Unsent(f, c) \in Int
  BY AskingFinite DEF Unsent

(* Request r is one of them in f, and not in g. *)
LEMMA AskingOne ==
    ASSUME NEW f, NEW g, NEW r \in Requests, f[r].pc = "publish", g[r].pc # "publish",
           \A q \in Requests \ {r} : g[q] = f[q],
           NEW c, NEW type, NEW S
    PROVE  Cardinality(Asking(f, c, type, S)) =
              Cardinality(Asking(g, c, type, S))
              + IF f[r].type = type /\ f[r].c = c /\ f[r].u \in S THEN 1 ELSE 0
<1>1. r \notin Asking(g, c, type, S)
  BY DEF Asking
<1>2. CASE f[r].type = type /\ f[r].c = c /\ f[r].u \in S
  <2>1. Asking(f, c, type, S) = Asking(g, c, type, S) \cup {r}
    BY <1>2 DEF Asking
  <2>2. IsFiniteSet(Asking(g, c, type, S))
    BY AskingFinite
  <2>3. Cardinality(Asking(g, c, type, S) \cup {r}) = Cardinality(Asking(g, c, type, S)) + 1
    BY <1>1, <2>2, FS_AddElement
  <2> QED BY <1>2, <2>1, <2>3
<1>3. CASE ~(f[r].type = type /\ f[r].c = c /\ f[r].u \in S)
  <2>1. Asking(f, c, type, S) = Asking(g, c, type, S)
    BY <1>3 DEF Asking
  <2> QED BY <1>3, <2>1, AskingFinite
<1> QED BY <1>2, <1>3

LEMMA UnsentOne ==
    ASSUME NEW f, NEW g, NEW r \in Requests, f[r].pc = "publish", g[r].pc # "publish",
           \A q \in Requests \ {r} : g[q] = f[q],
           f[r].u \in Users, f[r].type \in {"like", "unlike"}, NEW c
    PROVE  Unsent(f, c) = Unsent(g, c) + (IF f[r].c # c THEN 0 ELSE IF f[r].type = "like" THEN 1 ELSE -1)
<1>1. \A type : Cardinality(Asking(f, c, type, Users)) =
                  Cardinality(Asking(g, c, type, Users))
                  + IF f[r].type = type /\ f[r].c = c /\ f[r].u \in Users THEN 1 ELSE 0
  BY AskingOne
<1>2. \A type : Cardinality(Asking(g, c, type, Users)) \in Nat
  BY AskingFinite
<1> QED BY <1>1, <1>2 DEF Unsent

LEMMA AskingSame ==
    ASSUME NEW f, NEW g, NEW c,
           \A r \in Requests : g[r] # f[r] => /\ f[r].pc # "publish" \/ f[r].c # c
                                              /\ g[r].pc # "publish" \/ g[r].c # c
    PROVE  /\ Unsent(g, c) = Unsent(f, c)
           /\ \A liked : Covered(f, liked, c) => Covered(g, liked, c)
<1>1. \A type, S : Asking(g, c, type, S) = Asking(f, c, type, S)
  BY DEF Asking
<1> QED BY <1>1 DEF Unsent, Covered

LEMMA NoneAsking ==
    ASSUME NEW f, NEW c, \A r \in Requests : f[r].pc # "publish" \/ f[r].c # c
    PROVE  /\ Unsent(f, c) = 0
           /\ \A liked \in SUBSET Users : Covered(f, liked, c)
<1>1. \A type, S : Asking(f, c, type, S) = {}
  BY DEF Asking
<1>2. ASSUME NEW liked \in SUBSET Users PROVE Covered(f, liked, c)
  <2>1. \A S \in SUBSET Users : Cardinality(liked \cap S) \in Nat
    BY LikeSyncAssumption, FS_Subset, FS_CardinalityType
  <2>2. \A type, S : Cardinality(Asking(f, c, type, S)) = 0
    BY <1>1, FS_EmptySet
  <2>3. \A S \in SUBSET Users : 0 <= Cardinality(liked \cap S) + 0
    BY <2>1
  <2> QED BY <2>2, <2>3 DEF Covered
<1>3. Unsent(f, c) = 0
  BY <1>1, FS_EmptySet DEF Unsent
<1> QED BY <1>2, <1>3

(* A script ran, and r has yet to publish what it did. *)
LEMMA CoveredReact ==
    ASSUME NEW f, NEW g, NEW r \in Requests, f[r].pc = "publish", g[r].pc # "publish",
           \A q \in Requests \ {r} : g[q] = f[q],
           NEW c, NEW liked \in SUBSET Users, NEW u \in Users,
           f[r].c = c, f[r].u = u, Covered(g, liked, c),
           NEW after,
           \/ f[r].type = "like" /\ u \notin liked /\ after = liked \cup {u}
           \/ f[r].type = "unlike" /\ u \in liked /\ after = liked \ {u}
    PROVE  Covered(f, after, c)
<1> SUFFICES ASSUME NEW S \in SUBSET Users
             PROVE  Cardinality(Asking(f, c, "like", S))
                       <= Cardinality(after \cap S) + Cardinality(Asking(f, c, "unlike", S))
  BY DEF Covered
<1>1. /\ Cardinality(Asking(g, c, "like", S))
            <= Cardinality(liked \cap S) + Cardinality(Asking(g, c, "unlike", S))
      /\ Cardinality(Asking(g, c, "like", S)) \in Nat
      /\ Cardinality(Asking(g, c, "unlike", S)) \in Nat
  BY AskingFinite DEF Covered
<1>2. IsFiniteSet(liked \cap S) /\ Cardinality(liked \cap S) \in Nat
  BY LikeSyncAssumption, FS_Subset, FS_CardinalityType
<1>3. \A type : Cardinality(Asking(f, c, type, S)) =
                  Cardinality(Asking(g, c, type, S))
                  + IF f[r].type = type /\ f[r].c = c /\ f[r].u \in S THEN 1 ELSE 0
  BY AskingOne
<1>4. CASE u \notin S
  <2>1. after \cap S = liked \cap S
    BY <1>4
  <2> QED BY <1>1, <1>3, <1>4, <2>1
<1>5. CASE u \in S /\ f[r].type = "like"
  <2>1. after \cap S = (liked \cap S) \cup {u} /\ u \notin liked \cap S
    BY <1>5
  <2>2. Cardinality(after \cap S) = Cardinality(liked \cap S) + 1
    BY <1>2, <2>1, FS_AddElement
  <2> QED BY <1>1, <1>2, <1>3, <1>5, <2>2
<1>6. CASE u \in S /\ f[r].type = "unlike"
  <2>1. PICK A : A = liked \cap S
    OBVIOUS
  <2>2. after \cap S = A \ {u} /\ u \in A
    BY <1>6, <2>1
  <2>3. Cardinality(A \ {u}) = Cardinality(A) - 1
    <3>1. IsFiniteSet(A) /\ u \in A
      BY <1>2, <2>1, <2>2
    <3> QED BY ONLY <3>1, FS_RemoveElement
  <2>4. Cardinality(after \cap S) = Cardinality(liked \cap S) - 1
    BY <2>1, <2>2, <2>3
  <2> QED BY <1>1, <1>2, <1>3, <1>6, <2>4
<1> QED BY <1>4, <1>5, <1>6

(* Request r publishes, and overtakes no like of its user. *)
LEMMA CoveredPublish ==
    ASSUME NEW f, NEW g, NEW r \in Requests, f[r].pc = "publish", g[r].pc # "publish",
           \A q \in Requests \ {r} : g[q] = f[q],
           NEW c, NEW liked \in SUBSET Users, f[r].u \in Users, f[r].type \in {"like", "unlike"},
           f[r].c = c, Covered(f, liked, c),
           f[r].type = "unlike" => Asking(f, c, "like", {f[r].u}) = {}
    PROVE  /\ Covered(g, liked, c)
           /\ Cardinality(liked) - Unsent(g, c) >= 0
<1> DEFINE u == f[r].u
           Waiting(S) == Cardinality(Asking(f, c, "like", S))
           Taking(S) == Cardinality(Asking(f, c, "unlike", S))
           WaitingNow(S) == Cardinality(Asking(g, c, "like", S))
           TakingNow(S) == Cardinality(Asking(g, c, "unlike", S))
           Liking(S) == Cardinality(liked \cap S)
<1>1. ASSUME NEW S \in SUBSET Users
      PROVE  /\ Waiting(S) \in Nat /\ Taking(S) \in Nat /\ WaitingNow(S) \in Nat /\ TakingNow(S) \in Nat
             /\ IsFiniteSet(liked \cap S) /\ Liking(S) \in Nat
             /\ Waiting(S) <= Liking(S) + Taking(S)
             /\ Waiting(S) = WaitingNow(S) + IF f[r].type = "like" /\ u \in S THEN 1 ELSE 0
             /\ Taking(S) = TakingNow(S) + IF f[r].type = "unlike" /\ u \in S THEN 1 ELSE 0
  <2>1. IsFiniteSet(liked \cap S) /\ Liking(S) \in Nat
    BY LikeSyncAssumption, FS_Subset, FS_CardinalityType
  <2>2. Waiting(S) <= Liking(S) + Taking(S)
    BY DEF Covered
  <2>3. /\ Waiting(S) = WaitingNow(S) + IF f[r].type = "like" /\ u \in S THEN 1 ELSE 0
        /\ Taking(S) = TakingNow(S) + IF f[r].type = "unlike" /\ u \in S THEN 1 ELSE 0
    BY AskingOne
  <2> QED BY <2>1, <2>2, <2>3, AskingFinite
<1>2. ASSUME NEW S \in SUBSET Users PROVE WaitingNow(S) <= Liking(S) + TakingNow(S)
  <2>1. /\ Waiting(S) \in Nat /\ Taking(S) \in Nat /\ WaitingNow(S) \in Nat /\ TakingNow(S) \in Nat
        /\ Liking(S) \in Nat
        /\ Waiting(S) <= Liking(S) + Taking(S)
        /\ Waiting(S) = WaitingNow(S) + IF f[r].type = "like" /\ u \in S THEN 1 ELSE 0
        /\ Taking(S) = TakingNow(S) + IF f[r].type = "unlike" /\ u \in S THEN 1 ELSE 0
    BY <1>1
  <2>2. CASE u \notin S \/ f[r].type = "like"
    <3>1. ~(f[r].type = "unlike" /\ u \in S)
      BY <2>2
    <3> HIDE DEF u, Waiting, Taking, WaitingNow, TakingNow, Liking
    <3> QED BY <2>1, <3>1
  <2>3. CASE u \in S /\ f[r].type = "unlike"
    <3> DEFINE T == S \ {u}
    <3>1. T \in SUBSET Users /\ u \notin T
      OBVIOUS
    <3>2. Waiting(S) = Waiting(T)
      <4>1. Asking(f, c, "like", S) = Asking(f, c, "like", T)
        BY <2>3 DEF Asking
      <4> QED BY <4>1
    <3>3. TakingNow(T) <= TakingNow(S)
      <4>1. Asking(g, c, "unlike", T) \subseteq Asking(g, c, "unlike", S)
        BY DEF Asking
      <4> QED BY <4>1, AskingFinite, FS_Subset
    <3>4. Liking(T) <= Liking(S)
      <4>1. liked \cap T \subseteq liked \cap S
        OBVIOUS
      <4> QED BY <1>1, <4>1, FS_Subset
    <3>5. Waiting(T) <= Liking(T) + Taking(T) /\ Taking(T) = TakingNow(T)
          /\ Liking(T) \in Nat /\ TakingNow(T) \in Nat
      <4>1. /\ Waiting(T) <= Liking(T) + Taking(T)
            /\ Taking(T) = TakingNow(T) + IF f[r].type = "unlike" /\ u \in T THEN 1 ELSE 0
            /\ Liking(T) \in Nat /\ TakingNow(T) \in Nat
        BY <1>1, <3>1
      <4> HIDE DEF u, T, Waiting, Taking, WaitingNow, TakingNow, Liking
      <4> QED BY <3>1, <4>1
    <3>6. Waiting(S) = WaitingNow(S)
      BY <2>1, <2>3
    <3> HIDE DEF u, T, Waiting, Taking, WaitingNow, TakingNow, Liking
    <3> QED BY <2>1, <3>2, <3>3, <3>4, <3>5, <3>6
  <2> QED BY <2>2, <2>3
<1>3. Covered(g, liked, c)
  BY <1>2 DEF Covered
<1>4. Liking(Users) = Cardinality(liked)
  <2>1. liked \cap Users = liked
    OBVIOUS
  <2> QED BY <2>1
<1>5. Cardinality(liked) - (WaitingNow(Users) - TakingNow(Users)) >= 0
  <2>1. WaitingNow(Users) <= Liking(Users) + TakingNow(Users)
        /\ WaitingNow(Users) \in Nat /\ TakingNow(Users) \in Nat /\ Liking(Users) \in Nat
    BY <1>1, <1>2
  <2> HIDE DEF Waiting, Taking, WaitingNow, TakingNow, Liking
  <2> QED BY <1>4, <2>1
<1> QED BY <1>3, <1>5 DEF Unsent

-------------------------------------------------------------------------------
LEMMA BalanceInit == Init => \A c \in Comments : Balanced(c)
<1> SUFFICES ASSUME Init, NEW c \in Comments PROVE Balanced(c)
  OBVIOUS
<1>1. Len(log) = Len(Submitted) /\ Len(log) \in Nat /\ Applied = 0 /\ fetched = 0 /\ cnt[c] = 0
  BY LikeSyncAssumption DEF Init, Applied, ConIdle
<1>2. \A i \in 1..Len(log) : log[i] = [type |-> "create", c |-> Submitted[i]]
  BY LikeSyncAssumption DEF Init
<1>3. \A k \in 0..Len(log) : Balance(log, c, k) = 0
  <2> SUFFICES ASSUME NEW k \in 0..Len(log) PROVE Balance(log, c, k) = 0
    OBVIOUS
  <2>1. \A i \in 0 + 1 .. k : log[i].type = "create" \/ log[i].c # c
    <3> SUFFICES ASSUME NEW i \in 0 + 1 .. k PROVE log[i].type = "create"
      OBVIOUS
    <3>1. i \in 1..Len(log)
      BY <1>1
    <3>2. log[i] = [type |-> "create", c |-> Submitted[i]]
      BY <1>2, <3>1
    <3> QED BY <3>2
  <2>2. Balance(log, c, 0) = Balance(log, c, k)
    BY <1>1, <2>1, BalanceFlat
  <2> QED BY <2>2, BalanceZero
<1>4. Unsent(req, c) = 0 /\ Covered(req, users[c], c)
  BY NoneAsking DEF Init, ReqIdle
<1>5. row[c] = None => \E i \in fetched + 1 .. Len(log) : log[i] = [type |-> "create", c |-> c]
  <2>1. row[c] = None => c \in Unstored
    BY LikeSyncAssumption DEF Init
  <2>2. c \in Unstored => \E i \in 1..Len(Submitted) : Submitted[i] = c
    BY LikeSyncAssumption DEF Unstored
  <2> QED BY <1>1, <1>2, <2>1, <2>2
<1>6. Stored(c) = 0
  BY DEF Init, Stored
<1> QED BY <1>1, <1>3, <1>4, <1>5, <1>6 DEF Balanced

(* A step that leaves the log, the scripts' count and the publications alone. *)
LEMMA BalancedSame ==
    ASSUME NEW c \in Comments, Balanced(c), UNCHANGED log, cnt'[c] = cnt[c], users'[c] = users[c],
           Unsent(req', c) = Unsent(req, c),
           Covered(req, users[c], c) => Covered(req', users[c], c),
           row'[c] = None => \E i \in fetched' + 1 .. Len(log) : log[i] = [type |-> "create", c |-> c],
           synced'[c] = None => Stored(c)' = Balance(log, c, Applied')
    PROVE  Balanced(c)'
<1>1. Unsent(req, c)' = Unsent(req', c) /\ Covered(req, users[c], c)' = Covered(req', users'[c], c)
  BY DEF Unsent, Covered, Asking
<1> QED BY <1>1 DEF Balanced

LEMMA ReactBalanced ==
    ASSUME TypeOK, TypeOK', CountMatchesUsers, NEW c \in Comments, Balanced(c), c \notin skewed',
           NEW r \in Requests, Like(r) \/ Unlike(r)
    PROVE  Balanced(c)'
<1>1. PICK d \in Comments, u \in Users, type \in {"like", "unlike"} :
         /\ IF type = "like" THEN IncrLike(d, u) ELSE DecrLike(d, u)
         /\ React(r, d, type, u)
  BY DEF Like, Unlike
<1> DEFINE p == [pc |-> "publish", c |-> d, type |-> type, u |-> u]
<1>2. req[r] = ReqIdle /\ UNCHANGED <<row, log, fetched, con, synced>>
  BY <1>1 DEF React, kafka
<1>3. cnt'[c] = cnt[c] + IF c # d THEN 0 ELSE IF type = "like" THEN 1 ELSE -1
  <2>1. users[d] # {} => cnt[d] # 0
    <3>1. IsFiniteSet(users[d])
      BY LikeSyncAssumption, FS_Subset DEF TypeOK
    <3>2. Cardinality(users[d]) = 0 <=> users[d] = {}
      BY <3>1, FS_EmptySet
    <3> QED BY <3>2 DEF CountMatchesUsers
  <2>2. cnt[c] \in Nat /\ cnt[d] \in Nat
    BY DEF TypeOK
  <2>3. CASE type = "like"
    BY <1>1, <2>2, <2>3 DEF IncrLike, TypeOK
  <2>4. CASE type = "unlike"
    <3>1. cnt' = [cnt EXCEPT ![d] = cnt[d] - 1]
      BY <1>1, <2>1, <2>2, <2>4 DEF DecrLike
    <3> QED BY <2>2, <2>4, <3>1 DEF TypeOK
  <2> QED BY <2>3, <2>4
<1>4. /\ users[c] \in SUBSET Users /\ users'[c] \in SUBSET Users
      /\ c # d => users'[c] = users[c]
      /\ \/ type = "like" /\ u \notin users[d] /\ users'[d] = users[d] \cup {u}
         \/ type = "unlike" /\ u \in users[d] /\ users'[d] = users[d] \ {u}
  BY <1>1 DEF IncrLike, DecrLike, TypeOK
<1>5. /\ Unsent(req', c) = Unsent(req, c) + IF c # d THEN 0 ELSE IF type = "like" THEN 1 ELSE -1
      /\ Covered(req', users'[c], c)
  <2>1. CASE req' = [req EXCEPT ![r] = p]
    <3>1. /\ req'[r] = p /\ req'[r].pc = "publish" /\ req[r].pc # "publish"
          /\ req'[r].c = d /\ req'[r].u = u /\ req'[r].type = type
          /\ \A q \in Requests \ {r} : req'[q] = req[q]
      BY <1>2, <2>1 DEF TypeOK, ReqIdle
    <3>2. Unsent(req', c) = Unsent(req, c)
                             + IF req'[r].c # c THEN 0 ELSE IF req'[r].type = "like" THEN 1 ELSE -1
      BY <3>1, UnsentOne
    <3>3. CASE c = d
      <4>1. Covered(req, users[c], c)
        BY DEF Balanced
      <4> HIDE DEF p
      <4>2. Covered(req', users'[c], c)
        <5>1. PICK liked, after : liked = users[c] /\ after = users'[c]
          OBVIOUS
        <5>2. PICK f, g : f = req' /\ g = req
          OBVIOUS
        <5>3. /\ liked \in SUBSET Users /\ Covered(g, liked, c)
              /\ f[r].pc = "publish" /\ g[r].pc # "publish" /\ \A q \in Requests \ {r} : g[q] = f[q]
              /\ f[r].c = c /\ f[r].u = u
              /\ \/ f[r].type = "like" /\ u \notin liked /\ after = liked \cup {u}
                 \/ f[r].type = "unlike" /\ u \in liked /\ after = liked \ {u}
          BY <1>4, <3>1, <3>3, <4>1, <5>1, <5>2
        <5>4. Covered(f, after, c)
          BY ONLY <5>3, CoveredReact, c \in Comments, u \in Users, r \in Requests
        <5> QED BY <5>1, <5>2, <5>4
      <4> QED BY <3>1, <3>2, <3>3, <4>2
    <3>4. CASE c # d
      <4>1. \A q \in Requests : req'[q] # req[q] => /\ req[q].pc # "publish" \/ req[q].c # c
                                                    /\ req'[q].pc # "publish" \/ req'[q].c # c
        BY <3>1, <3>4
      <4>2. Covered(req', users[c], c)
        BY <4>1, AskingSame DEF Balanced
      <4> QED BY <1>4, <3>1, <3>2, <3>4, <4>2
    <3> QED BY <3>3, <3>4
  <2>2. CASE UNCHANGED req /\ Skew({d})
    <3>1. c # d
      BY <2>2 DEF Skew
    <3>2. Unsent(req', c) = Unsent(req, c) /\ Covered(req', users'[c], c)
      BY <1>4, <2>2, <3>1 DEF Balanced
    <3>3. Unsent(req, c) \in Int
      BY UnsentType
    <3> QED BY <3>1, <3>2, <3>3
  <2> QED BY <1>1, <2>1, <2>2 DEF React
<1>6. Stored(c)' = Stored(c) /\ Applied' = Applied
  BY <1>2 DEF Stored, Applied
<1>7. cnt[c] = Balance(log, c, Len(log)) + Unsent(req, c) /\ Balance(log, c, Len(log)) \in Int
      /\ Unsent(req, c) \in Int
  BY BalanceType, UnsentType DEF Balanced, TypeOK
<1>8. cnt'[c] = Balance(log', c, Len(log')) + Unsent(req', c)
  BY <1>2, <1>3, <1>5, <1>7
<1>9. Unsent(req, c)' = Unsent(req', c) /\ Covered(req, users[c], c)' = Covered(req', users'[c], c)
  BY DEF Unsent, Covered, Asking
<1> QED BY <1>2, <1>5, <1>6, <1>8, <1>9 DEF Balanced

LEMMA PublishBalanced ==
    ASSUME TypeOK, CountMatchesUsers, NEW c \in Comments, Balanced(c), c \notin skewed',
           NEW r \in Requests, PublishLikeEvent(r)
    PROVE  Balanced(c)'
<1> DEFINE n == Len(log)
           e == [type |-> req[r].type, c |-> req[r].c]
<1>1. /\ e.type \in {"like", "unlike"} /\ e.c \in Comments
      /\ n \in Nat /\ Len(log') \in Nat /\ n <= Len(log')
      /\ \A i \in 1..n : log'[i] = log[i]
      /\ \A i \in n + 1 .. Len(log') : log'[i] = e
      /\ e.c \in skewed' \/ (Len(log') = n + 1 /\ ~Overtaking(r))
      /\ req' = [req EXCEPT ![r] = [pc |-> "mark", c |-> e.c]]
  BY PublishStep
<1>2. req[r].pc = "publish" /\ UNCHANGED <<users, cnt, row, fetched, con, synced>>
  BY DEF PublishLikeEvent, redis
<1>3. /\ req'[r].pc # "publish" /\ \A q \in Requests \ {r} : req'[q] = req[q]
      /\ req[r].type \in {"like", "unlike"} /\ req[r].u \in Users
  BY <1>1, <1>2, ReqFields DEF TypeOK
<1>4. Unsent(req, c) = Unsent(req', c)
                        + IF req[r].c # c THEN 0 ELSE IF req[r].type = "like" THEN 1 ELSE -1
  BY <1>2, <1>3, UnsentOne
<1>5. \A k \in 0..n : Balance(log', c, k) = Balance(log, c, k)
  BY <1>1, BalanceSame
<1>6. /\ cnt[c] = Balance(log, c, n) + Unsent(req, c) /\ Balance(log, c, n) \in Int /\ cnt[c] \in Nat
      /\ Unsent(req, c) \in Int /\ Unsent(req', c) \in Int
  BY <1>1, BalanceType, UnsentType DEF Balanced, TypeOK
<1>7. /\ cnt'[c] = Balance(log', c, Len(log')) + Unsent(req', c)
      /\ Covered(req', users'[c], c)
      /\ \A k \in 0..Len(log') : Balance(log', c, k) >= 0
  <2>1. CASE c # e.c
    <3>1. /\ Unsent(req', c) = Unsent(req, c)
          /\ Covered(req', users[c], c)
      <4>1. \A q \in Requests : req'[q] # req[q] => /\ req[q].pc # "publish" \/ req[q].c # c
                                                    /\ req'[q].pc # "publish" \/ req'[q].c # c
        BY <1>3, <2>1
      <4> QED BY <4>1, AskingSame DEF Balanced
    <3>2. \A k \in n..Len(log') : Balance(log', c, n) = Balance(log', c, k)
      BY <1>1, <2>1, BalanceFlat
    <3>3. \A k \in 0..Len(log') : k \in 0..n \/ k \in n..Len(log')
      BY <1>1
    <3>4. n \in 0..n /\ Len(log') \in n..Len(log')
      BY <1>1
    <3>5. \A k \in 0..n : Balance(log, c, k) >= 0
      BY DEF Balanced
    <3> QED BY <1>2, <1>5, <1>6, <3>1, <3>2, <3>3, <3>4, <3>5
  <2>2. CASE c = e.c
    <3>1. Len(log') = n + 1 /\ log'[n + 1] = e /\ ~Overtaking(r)
      BY <1>1, <2>2
    <3>2. Balance(log', c, n + 1) = Balance(log', c, n) + Effect(e, c)
      BY <1>1, <3>1, BalanceNext
    <3>3. Effect(e, c) = IF req[r].type = "like" THEN 1 ELSE -1
      BY <1>1, <2>2 DEF Effect
    <3>4. Balance(log', c, n + 1) = cnt[c] - Unsent(req', c)
      <4>1. Unsent(req, c) = Unsent(req', c) + Effect(e, c) /\ Effect(e, c) \in Int
        BY <1>4, <2>2, <3>3
      <4>2. Balance(log', c, n + 1) = Balance(log, c, n) + Effect(e, c)
        <5>1. n \in 0..n
          BY <1>1
        <5> QED BY <1>5, <3>2, <5>1
      <4> HIDE DEF e, n
      <4> QED BY <1>6, <4>1, <4>2
    <3>5. req[r].type = "unlike" => Asking(req, c, "like", {req[r].u}) = {}
      <4> SUFFICES ASSUME req[r].type = "unlike", NEW q \in Asking(req, c, "like", {req[r].u})
                   PROVE  Overtaking(r)
        BY <3>1
      <4>1. /\ q \in Requests /\ req[q].pc = "publish" /\ req[q].type = "like"
            /\ req[q].c = c /\ req[q].u = req[r].u
        BY DEF Asking
      <4>2. /\ req[q] = [pc |-> "publish", c |-> c, type |-> "like", u |-> req[r].u]
            /\ req[r] = [pc |-> "publish", c |-> c, type |-> "unlike", u |-> req[r].u]
        BY <1>2, <2>2, <4>1, ReqFields DEF TypeOK
      <4>3. req[q] = [req[r] EXCEPT !.type = "like"]
        BY <4>2
      <4> QED BY <4>1, <4>3 DEF Overtaking, Publishing
    <3>6. users[c] \in SUBSET Users /\ Covered(req, users[c], c) /\ req[r].c = c
      BY <2>2 DEF TypeOK, Balanced
    <3>7. Covered(req', users[c], c) /\ Cardinality(users[c]) - Unsent(req', c) >= 0
      BY <1>2, <1>3, <3>5, <3>6, CoveredPublish
    <3>8. Balance(log', c, n + 1) >= 0
      BY <3>4, <3>7 DEF CountMatchesUsers
    <3>9. \A k \in 0..n + 1 : k \in 0..n \/ k = n + 1
      BY <1>1
    <3>10. \A k \in 0..n : Balance(log, c, k) >= 0
      BY DEF Balanced
    <3> QED BY <1>2, <1>5, <1>6, <3>1, <3>4, <3>7, <3>8, <3>9, <3>10
  <2> QED BY <2>1, <2>2
<1>8. row'[c] = None => \E i \in fetched' + 1 .. Len(log') : log'[i] = [type |-> "create", c |-> c]
  <2> SUFFICES ASSUME row[c] = None
               PROVE  \E i \in fetched + 1 .. Len(log') : log'[i] = [type |-> "create", c |-> c]
    BY <1>2
  <2>1. PICK i \in fetched + 1 .. n : log[i] = [type |-> "create", c |-> c]
    BY DEF Balanced
  <2>2. i \in fetched + 1 .. Len(log') /\ i \in 1..n
    BY <1>1 DEF TypeOK
  <2> QED BY <1>1, <2>1, <2>2
<1>9. synced'[c] = None => Stored(c)' = Balance(log', c, Applied')
  <2>1. Applied \in 0..n
    BY ConFields DEF TypeOK, Applied
  <2>2. Applied' = Applied /\ Stored(c)' = Stored(c)
    BY <1>2 DEF Applied, Stored
  <2> QED BY <1>2, <1>5, <2>1, <2>2 DEF Balanced
<1>10. Unsent(req, c)' = Unsent(req', c) /\ Covered(req, users[c], c)' = Covered(req', users'[c], c)
  BY DEF Unsent, Covered, Asking
<1> QED BY <1>7, <1>8, <1>9, <1>10 DEF Balanced

LEMMA RequestBalanced ==
    ASSUME TypeOK, TypeOK', CountMatchesUsers, NEW c \in Comments, Balanced(c), c \notin skewed',
           NEW r \in Requests, Request(r)
    PROVE  Balanced(c)'
<1>1. CASE MarkDirty(r) \/ GetDetail(r) \/ FindDetail(r) \/ FillDetail(r) \/ Disconnect(r)
  <2>1. UNCHANGED <<log, users, cnt, row, fetched, con, synced>>
    BY <1>1 DEF MarkDirty, GetDetail, FindDetail, FillDetail, Disconnect, redis, kafka, history
  <2>2. \A q \in Requests \ {r} : req'[q] = req[q]
    BY <1>1 DEF MarkDirty, GetDetail, FindDetail, FillDetail, Disconnect, TypeOK
  <2>3. req'[r].pc # "publish" /\ (req[r].pc # "publish" \/ req[r].c # c)
    <3>1. CASE Disconnect(r)
      BY <3>1 DEF Disconnect, Skew, Unpublished, TypeOK, ReqIdle
    <3>2. CASE MarkDirty(r) \/ FindDetail(r) \/ FillDetail(r)
      BY <3>2 DEF MarkDirty, FindDetail, FillDetail, TypeOK, ReqIdle
    <3>3. CASE GetDetail(r)
      <4>1. PICK d \in hot : req' = [req EXCEPT ![r] = [pc |-> "find", c |-> d]]
        BY <3>3 DEF GetDetail
      <4> QED BY <3>3, <4>1 DEF GetDetail, TypeOK, ReqIdle
    <3> QED BY <1>1, <3>1, <3>2, <3>3
  <2>4. Unsent(req', c) = Unsent(req, c) /\ (Covered(req, users[c], c) => Covered(req', users[c], c))
    BY <2>2, <2>3, AskingSame
  <2>5. Applied' = Applied /\ Stored(c)' = Stored(c)
    BY <2>1 DEF Applied, Stored
  <2> QED BY <2>1, <2>4, <2>5, BalancedSame DEF Balanced
<1> QED BY <1>1, ReactBalanced, PublishBalanced DEF Request

LEMMA WorkerBalanced ==
    ASSUME TypeOK, NEW c \in Comments, Balanced(c), NEW w \in Workers,
           SyncDirtyLikes(w) \/ AbortSync(w)
    PROVE  Balanced(c)'
<1>1. UNCHANGED <<log, users, cnt, req, fetched, con>>
  BY DEF SyncDirtyLikes, PopDirtyBatch, GetLikeCount, SyncLikeCount, InvalidateDetail, AbortSync,
         redis, kafka
<1>2. Unsent(req', c) = Unsent(req, c)
  BY <1>1
<1>3. row'[c] = None => row[c] = None
  <2>1. CASE SyncLikeCount(w)
    BY <2>1, WrkFields, LikeSyncAssumption DEF SyncLikeCount, TypeOK
  <2>2. CASE ~SyncLikeCount(w)
    BY <2>2 DEF SyncDirtyLikes, PopDirtyBatch, GetLikeCount, InvalidateDetail, AbortSync
  <2> QED BY <2>1, <2>2
<1>4. synced'[c] = None => synced[c] = None /\ row'[c] = row[c]
  <2>1. CASE SyncLikeCount(w)
    <3>1. wrk[w].val # None /\ wrk[w].c \in Comments
      BY <2>1, WrkFields, LikeSyncAssumption DEF SyncLikeCount, TypeOK
    <3> QED BY <2>1, <3>1 DEF SyncLikeCount, TypeOK
  <2>2. CASE ~SyncLikeCount(w)
    BY <2>2 DEF SyncDirtyLikes, PopDirtyBatch, GetLikeCount, InvalidateDetail, AbortSync, history
  <2> QED BY <2>1, <2>2
<1>5. Applied' = Applied /\ (row'[c] = row[c] => Stored(c)' = Stored(c))
  BY <1>1 DEF Applied, Stored
<1> QED BY <1>1, <1>2, <1>3, <1>4, <1>5, BalancedSame DEF Balanced

(* A handler's end: the event is done, and another one than c's create event. *)
LEMMA NoRowLater ==
    ASSUME TypeOK, NEW c \in Comments, Balanced(c), row'[c] = None => row[c] = None,
           \/ fetched' = fetched
           \/ fetched' = fetched + 1 /\ (row[c] = None => Current # [type |-> "create", c |-> c])
    PROVE  row'[c] = None => \E i \in fetched' + 1 .. Len(log) : log[i] = [type |-> "create", c |-> c]
<1> SUFFICES ASSUME row'[c] = None
             PROVE  \E i \in fetched' + 1 .. Len(log) : log[i] = [type |-> "create", c |-> c]
  OBVIOUS
<1>1. PICK i \in fetched + 1 .. Len(log) : log[i] = [type |-> "create", c |-> c]
  BY DEF Balanced
<1>2. fetched' = fetched \/ i # fetched + 1
  BY <1>1 DEF Current, Balanced
<1>3. i \in fetched' + 1 .. Len(log)
  BY <1>2 DEF TypeOK
<1> QED BY <1>1, <1>3

(* The event in hand adds nothing to c, or what it says. *)
LEMMA BalanceCurrent ==
    ASSUME TypeOK, CreatesFirst, NEW c \in Comments, Balanced(c), con.pc # "idle"
    PROVE  /\ fetched \in Nat /\ fetched + 1 \in 0..Len(log) /\ Current \in Event
           /\ Balance(log, c, fetched) \in Int
           /\ Balance(log, c, fetched + 1) = Balance(log, c, fetched) + Effect(Current, c)
           /\ Balance(log, c, fetched + 1) >= 0
           /\ Current.type = "create" \/ Current.c # c => Effect(Current, c) = 0
           /\ Current.type # "create" /\ Current.c = c =>
                 Effect(Current, c) = Delta(Current) /\ row[c] # None
<1>1. fetched \in Nat /\ fetched + 1 \in 1..Len(log) /\ fetched + 1 \in 0..Len(log) /\ Current \in Event
  BY DEF TypeOK, Current
<1>2. Balance(log, c, fetched + 1) = Balance(log, c, fetched) + Effect(Current, c)
  BY <1>1, BalanceNext DEF Current
<1>3. Current.type = "create" \/ Current.c # c => Effect(Current, c) = 0
  BY DEF Effect
<1>4. ASSUME Current.type # "create", Current.c = c
      PROVE  Effect(Current, c) = Delta(Current) /\ row[c] # None
  <2>1. Current = [type |-> Current.type, c |-> c] /\ Current.type \in {"like", "unlike"}
    BY <1>1, <1>4 DEF Event
  <2>2. Effect(Current, c) = Delta(Current)
    BY <2>1 DEF Effect, Delta
  <2>3. fetched + 1 > Len(Submitted)
    BY <1>1, <1>4, LikeSyncAssumption DEF CreatesFirst, Current
  <2>4. \A i \in fetched + 1 .. Len(log) : log[i].type # "create"
    <3> SUFFICES ASSUME NEW i \in fetched + 1 .. Len(log) PROVE log[i].type # "create"
      OBVIOUS
    <3>1. i \in 1..Len(log) /\ i > Len(Submitted)
      BY <1>1, <2>3, LikeSyncAssumption
    <3> QED BY <3>1, LikeSyncAssumption DEF CreatesFirst
  <2>5. row[c] # None
    BY <2>4 DEF Balanced
  <2> QED BY <2>2, <2>5
<1> QED BY <1>1, <1>2, <1>3, <1>4, BalanceType DEF Balanced

(* The row after the UPDATE of onLikeDelta: GREATEST never cuts. *)
LEMMA IncrBalanced ==
    ASSUME TypeOK, CreatesFirst, NEW c \in Comments, Balanced(c), con.pc = "incr",
           row' = [row EXCEPT ![Current.c] = IncrLikeCount(@, Delta(Current))]
    PROVE  /\ row'[c] = None => row[c] = None
           /\ synced[c] = None => Stored(c)' = Balance(log, c, fetched + 1)
<1>1. con.pc # "idle" /\ Current.type # "create" /\ Applied = fetched
  BY DEF CreatesFirst, Applied
<1>2. CASE Current.c # c
  <2>1. row'[c] = row[c] /\ Stored(c)' = Stored(c)
    BY <1>2 DEF TypeOK, Stored
  <2>2. Balance(log, c, fetched + 1) = Balance(log, c, fetched)
    BY <1>1, <1>2, BalanceCurrent
  <2> QED BY <1>1, <2>1, <2>2 DEF Balanced
<1>3. CASE Current.c = c
  <2>1. row[c] \in Nat /\ Delta(Current) \in {1, -1}
    BY <1>1, <1>3, BalanceCurrent DEF TypeOK, Count, Delta
  <2>2. row'[c] = IF row[c] + Delta(Current) < 0 THEN 0 ELSE row[c] + Delta(Current)
    BY <2>1, <1>3, LikeSyncAssumption DEF IncrLikeCount, TypeOK
  <2>3. row'[c] # None /\ Stored(c)' = row'[c] /\ Stored(c) = row[c]
    BY <2>1, <2>2, LikeSyncAssumption DEF Stored
  <2>4. synced[c] = None => Balance(log, c, fetched + 1) = row[c] + Delta(Current)
    BY <1>1, <1>3, <2>3, BalanceCurrent DEF Balanced
  <2> QED BY <1>1, <2>1, <2>2, <2>3, <2>4, BalanceCurrent
<1> QED BY <1>2, <1>3

LEMMA ConsumeBalanced ==
    ASSUME TypeOK, CreatesFirst, NEW c \in Comments, Balanced(c), c \notin skewed', Consume
    PROVE  Balanced(c)'
<1>1. UNCHANGED <<log, users, cnt, req, synced>>
  BY DEF Consume, Fetch, OnCreateInsert, OnCreateInvalidate, OnLikeIncr, OnLikeFind,
         OnLikeSetDetail, OnLikeUpdateScore, redis, kafka, history
<1>2. Unsent(req', c) = Unsent(req, c) /\ fetched \in Nat
  BY <1>1 DEF TypeOK
<1>3. SUFFICES /\ row'[c] = None =>
                     \E i \in fetched' + 1 .. Len(log) : log[i] = [type |-> "create", c |-> c]
               /\ synced[c] = None => Stored(c)' = Balance(log, c, Applied')
  BY <1>1, <1>2, BalancedSame
<1>4. Current.type # "create" => Current # [type |-> "create", c |-> c]
  OBVIOUS
<1>5. synced[c] = None => Stored(c) = Balance(log, c, Applied)
  BY DEF Balanced
<1>6. ASSUME Retry, con.pc # "idle"
      PROVE  \/ /\ con.attempt < MaxRetry /\ fetched' = fetched
                /\ Applied' = IF Current.type = "create" THEN fetched + 1 ELSE fetched
             \/ /\ con.attempt = MaxRetry /\ fetched' = fetched + 1
                /\ Applied' = fetched + 1
  BY <1>6 DEF Retry, Done, Entry, Applied, ConIdle
<1>7. CASE Fetch
  <2>1. con.pc = "idle" /\ UNCHANGED <<row, fetched>> /\ Applied = fetched
    BY <1>7 DEF Fetch, ConIdle, Applied
  <2>2. Applied' = IF Current.type = "create" THEN fetched + 1 ELSE fetched
    BY <1>7, <2>1 DEF Fetch, Entry, Applied
  <2>3. Current.type = "create" => Balance(log, c, fetched + 1) = Balance(log, c, fetched)
    <3>1. Current.type = "create" => Effect(Current, c) = 0
      BY DEF Effect
    <3> QED BY <1>2, <3>1, BalanceNext, BalanceType DEF Current
  <2>4. Stored(c)' = Stored(c)
    BY <2>1 DEF Stored
  <2> QED BY <1>5, <2>1, <2>2, <2>3, <2>4, NoRowLater
<1>8. CASE OnCreateInsert
  <2>1. con.pc = "insert" /\ Current.type = "create" /\ Applied = fetched + 1 /\ Current.c \in Comments
    BY <1>8, CurrentType DEF OnCreateInsert, CreatesFirst, Applied
  <2>2. CASE /\ row[Current.c] = None /\ row' = [row EXCEPT ![Current.c] = 0]
             /\ con' = [con EXCEPT !.pc = "invalidate"] /\ UNCHANGED fetched
    <3>1. Stored(c)' = Stored(c) /\ (row'[c] = None => row[c] = None)
      BY <2>2, LikeSyncAssumption DEF Stored, TypeOK
    <3>2. Applied' = Applied
      BY <2>1, <2>2, ConFields DEF Applied, TypeOK
    <3> QED BY <1>5, <2>2, <3>1, <3>2, NoRowLater
  <2>3. CASE /\ Retry /\ UNCHANGED row
             /\ row[Current.c] # None \/ Skew(IfDropped \ {d \in Comments : row[d] # None})
    <3>1. fetched' = fetched + 1 /\ row[c] = None => Current # [type |-> "create", c |-> c]
      <4>1. fetched' = fetched + 1 => con.attempt = MaxRetry
        BY <1>2, <1>6, <2>1, <2>3
      <4> QED BY <2>1, <2>3, <4>1 DEF Skew, IfDropped
    <3>2. Stored(c)' = Stored(c) /\ Applied' = Applied
      BY <1>6, <2>1, <2>3 DEF Stored
    <3>3. fetched' = fetched \/ fetched' = fetched + 1
      BY <1>6, <2>1, <2>3
    <3> QED BY <1>5, <2>3, <3>1, <3>2, <3>3, NoRowLater
  <2> QED BY <1>8, <2>2, <2>3 DEF OnCreateInsert
<1>9. CASE OnCreateInvalidate
  <2>1. /\ con.pc = "invalidate" /\ row[Current.c] # None /\ UNCHANGED row
        /\ fetched' = fetched + 1 /\ con' = ConIdle
    BY <1>9 DEF OnCreateInvalidate, CreatesFirst, Done
  <2>2. Stored(c)' = Stored(c) /\ Applied' = Applied
    BY <2>1 DEF Stored, Applied, ConIdle
  <2>3. row[c] = None => Current # [type |-> "create", c |-> c]
    BY <2>1
  <2> QED BY <1>5, <2>1, <2>2, <2>3, NoRowLater
<1>10. CASE OnLikeIncr
  <2>1. con.pc = "incr" /\ Current.type # "create" /\ Applied = fetched /\ con.pc # "idle"
    BY <1>10 DEF OnLikeIncr, CreatesFirst, Applied
  <2> DEFINE Updated == row' = [row EXCEPT ![Current.c] = IncrLikeCount(@, Delta(Current))]
  <2>2. CASE Updated /\ con' = [con EXCEPT !.pc = "find"] /\ UNCHANGED fetched
    <3>1. Applied' = fetched + 1
      BY <2>1, <2>2, ConFields DEF Applied, TypeOK
    <3> QED BY <2>1, <2>2, <3>1, IncrBalanced, NoRowLater
  <2>3. CASE Retry /\ UNCHANGED row /\ Skew(IfDropped)
    <3>1. fetched' = fetched + 1 => Current.c # c
      BY <1>2, <1>6, <2>1, <2>3 DEF Skew, IfDropped
    <3>2. Stored(c)' = Stored(c)
      BY <2>3 DEF Stored
    <3>3. Balance(log, c, Applied') = Balance(log, c, Applied)
      BY <1>2, <1>6, <2>1, <2>3, <3>1, BalanceCurrent
    <3> QED BY <1>4, <1>5, <1>6, <2>1, <2>3, <3>2, <3>3, NoRowLater
  <2>4. CASE Retry /\ Updated /\ Skew(IfRepeated)
    <3>1. CASE con.attempt = MaxRetry /\ fetched' = fetched + 1 /\ Applied' = fetched + 1
      BY <1>4, <2>1, <2>4, <3>1, IncrBalanced, NoRowLater
    <3>2. CASE con.attempt < MaxRetry /\ fetched' = fetched /\ Applied' = fetched
      <4>1. con.attempt # MaxRetry
        BY <2>1, <3>2, ConFields, LikeSyncAssumption DEF TypeOK
      <4>2. Current.c # c
        BY <2>4, <4>1 DEF Skew, IfRepeated, IfDropped
      <4>3. row'[c] = row[c] /\ Stored(c)' = Stored(c)
        BY <2>4, <4>2 DEF Stored, TypeOK
      <4> QED BY <1>5, <2>1, <3>2, <4>3, NoRowLater
    <3> QED BY <1>6, <2>1, <2>4, <3>1, <3>2
  <2> QED BY <1>10, <2>2, <2>3, <2>4 DEF OnLikeIncr
<1>11. CASE OnLikeFind
  <2>1. /\ con.pc = "find" /\ Current.type # "create" /\ Applied = fetched + 1 /\ con.pc # "idle"
        /\ UNCHANGED row
    BY <1>11 DEF OnLikeFind, CreatesFirst, Applied
  <2>2. Stored(c)' = Stored(c)
    BY <2>1 DEF Stored
  <2>3. CASE con'.pc = "setdetail" /\ UNCHANGED fetched
    <3>1. Applied' = Applied
      BY <2>1, <2>3 DEF Applied
    <3> QED BY <1>5, <2>1, <2>2, <2>3, <3>1, NoRowLater
  <2>4. CASE Done
    <3>1. Applied' = Applied /\ fetched' = fetched + 1
      BY <2>1, <2>4 DEF Applied, Done, ConIdle
    <3> QED BY <1>4, <1>5, <2>1, <2>2, <3>1, NoRowLater
  <2>5. CASE Retry /\ Skew(IfRepeated)
    <3>1. CASE con.attempt = MaxRetry /\ fetched' = fetched + 1 /\ Applied' = fetched + 1
      BY <1>4, <1>5, <2>1, <2>2, <3>1, NoRowLater
    <3>2. CASE con.attempt < MaxRetry /\ fetched' = fetched /\ Applied' = fetched
      <4>1. con.attempt # MaxRetry
        BY <2>1, <3>2, ConFields, LikeSyncAssumption DEF TypeOK
      <4>2. Current.c # c
        BY <2>5, <4>1 DEF Skew, IfRepeated, IfDropped
      <4>3. Balance(log, c, Applied') = Balance(log, c, Applied)
        BY <2>1, <3>2, <4>2, BalanceCurrent
      <4> QED BY <1>5, <2>1, <2>2, <3>2, <4>3, NoRowLater
    <3> QED BY <1>6, <2>1, <2>5, <3>1, <3>2
  <2> QED BY <1>11, <2>3, <2>4, <2>5 DEF OnLikeFind
<1>12. CASE OnLikeSetDetail
  <2>1. UNCHANGED <<row, fetched>> /\ con.pc = "setdetail" /\ con'.pc = "zadd"
    BY <1>12 DEF OnLikeSetDetail
  <2>2. Stored(c)' = Stored(c) /\ Applied' = Applied
    BY <2>1 DEF Stored, Applied
  <2> QED BY <1>5, <2>1, <2>2, NoRowLater
<1>13. CASE OnLikeUpdateScore
  <2>1. /\ con.pc = "zadd" /\ Current.type # "create" /\ UNCHANGED row
        /\ fetched' = fetched + 1 /\ con' = ConIdle
    BY <1>13 DEF OnLikeUpdateScore, CreatesFirst, Done
  <2>2. Stored(c)' = Stored(c) /\ Applied' = Applied
    BY <2>1 DEF Stored, Applied, ConIdle
  <2> QED BY <1>4, <1>5, <2>1, <2>2, NoRowLater
<1> QED BY <1>7, <1>8, <1>9, <1>10, <1>11, <1>12, <1>13 DEF Consume

(* After a stop the consumer begins again where the offset says: what it does *)
(* again, or leaves out, is skewed.                                            *)
LEMMA RestartBalanced ==
    ASSUME TypeOK, CreatesFirst, NEW c \in Comments, Balanced(c), c \notin skewed', Restart,
           committed' \in 0..fetched \/ (con # ConIdle /\ committed' = fetched + 1)
    PROVE  Balanced(c)'
<1> DEFINE o == committed'
<1>1. UNCHANGED <<row, log, users, cnt, synced>> /\ fetched' = o /\ con' = ConIdle
      /\ \A r \in Requests : req'[r] = ReqIdle
  BY DEF Restart, redis
<1>2. /\ \A r \in Requests : c \notin Unpublished(r)
      /\ c \notin Redone(o) /\ c \notin Cut(o)
  BY DEF Restart, Skew
<1>3. Unsent(req', c) = Unsent(req, c) /\ (Covered(req, users[c], c) => Covered(req', users[c], c))
  <2>1. \A r \in Requests : /\ req[r].pc # "publish" \/ req[r].c # c
                            /\ req'[r].pc # "publish"
    BY <1>1, <1>2 DEF Unpublished, ReqIdle
  <2> QED BY <2>1, AskingSame
<1>4. fetched \in Nat /\ o \in Nat /\ Applied' = o /\ Stored(c)' = Stored(c)
  BY <1>1 DEF TypeOK, Applied, ConIdle, Stored
<1>5. con # ConIdle => con.pc # "idle"
  BY ConFields DEF TypeOK
<1>6. con.pc \in {"idle", "insert", "invalidate", "incr", "find", "setdetail", "zadd"}
  BY ConFields DEF TypeOK
<1>7. CASE o <= fetched
  <2>1. Balance(log, c, o) = Balance(log, c, fetched)
    <3>1. \A i \in o + 1 .. fetched : log[i].type = "create" \/ log[i].c # c
      BY <1>2 DEF Redone
    <3> QED BY <1>4, <1>7, <3>1, BalanceFlat
  <2>2. Balance(log, c, Applied) = Balance(log, c, fetched)
    <3>1. CASE con.pc \in {"idle", "incr"}
      BY <3>1 DEF Applied
    <3>2. CASE con.pc \in {"insert", "invalidate"}
      BY <3>2, BalanceCurrent DEF CreatesFirst, Applied
    <3>3. CASE con.pc \in {"find", "setdetail", "zadd"}
      <4>1. Current.c # c
        BY <1>2, <1>7, <3>3 DEF Cut, ConIdle
      <4> QED BY <3>3, <4>1, BalanceCurrent DEF Applied
    <3> QED BY <1>6, <3>1, <3>2, <3>3
  <2>3. row'[c] = None => \E i \in fetched' + 1 .. Len(log) : log[i] = [type |-> "create", c |-> c]
    <3> SUFFICES ASSUME row[c] = None
                 PROVE  \E i \in o + 1 .. Len(log) : log[i] = [type |-> "create", c |-> c]
      BY <1>1
    <3>1. PICK i \in fetched + 1 .. Len(log) : log[i] = [type |-> "create", c |-> c]
      BY DEF Balanced
    <3>2. i \in o + 1 .. Len(log)
      <4>1. Len(log) \in Nat
        BY DEF TypeOK
      <4>2. i \in Nat /\ fetched + 1 <= i /\ i <= Len(log)
        BY <1>4, <3>1, <4>1
      <4>3. o \in Nat /\ o <= fetched /\ fetched \in Nat
        BY <1>4, <1>7
      <4> HIDE DEF o
      <4> QED BY <4>1, <4>2, <4>3
    <3> QED BY <3>1, <3>2
  <2> QED BY <1>1, <1>3, <1>4, <2>1, <2>2, <2>3, BalancedSame DEF Balanced
<1>8. CASE con # ConIdle /\ o = fetched + 1
  <2>1. con.pc # "idle"
    BY <1>5, <1>8
  <2>2. Balance(log, c, Applied) = Balance(log, c, fetched + 1)
    <3>1. CASE con.pc = "incr"
      <4>1. Current.c # c
        BY <1>2, <1>4, <1>8, <3>1 DEF Cut
      <4> QED BY <3>1, <4>1, <2>1, BalanceCurrent DEF Applied
    <3>2. CASE con.pc # "incr"
      BY <2>1, <3>2 DEF Applied
    <3> QED BY <3>1, <3>2
  <2>3. row[c] = None => Current # [type |-> "create", c |-> c]
    <3>1. CASE con.pc = "insert"
      BY <1>2, <1>4, <1>8, <3>1 DEF Cut
    <3>2. CASE con.pc # "insert"
      BY <1>6, <2>1, <3>2 DEF CreatesFirst
    <3> QED BY <3>1, <3>2
  <2> QED BY <1>1, <1>3, <1>4, <1>8, <2>2, <2>3, NoRowLater, BalancedSame DEF Balanced
<1>9. o \in 0..fetched => o <= fetched
  BY <1>4
<1> QED BY <1>7, <1>8, <1>9

LEMMA BalanceStep ==
    ASSUME BalanceInv, [Next]_vars
    PROVE  BalanceInv'
<1>0. TypeOK' /\ CountMatchesUsers' /\ CreatesFirst'
  BY TypeStep, CountStep, CreatesStep DEF BalanceInv
<1> SUFFICES ASSUME NEW c \in Comments, c \notin skewed' PROVE Balanced(c)'
  BY <1>0 DEF BalanceInv
<1>2. skewed \subseteq skewed'
  <2>1. CASE \E r \in Requests : Request(r)
    BY <2>1 DEF Request, Like, Unlike, React, PublishLikeEvent, MarkDirty, GetDetail, FindDetail,
                FillDetail, Disconnect, history, Skew
  <2>2. CASE \E w \in Workers : SyncDirtyLikes(w) \/ AbortSync(w)
    BY <2>2 DEF SyncDirtyLikes, PopDirtyBatch, GetLikeCount, SyncLikeCount, InvalidateDetail,
                AbortSync, history
  <2>3. CASE Consume
    BY <2>3 DEF Consume, Fetch, OnCreateInsert, OnCreateInvalidate, OnLikeIncr, OnLikeFind,
                OnLikeSetDetail, OnLikeUpdateScore, history, Skew
  <2>4. CASE Crash \/ Shutdown \/ UNCHANGED vars \/ (\E d \in Comments : SetPending(d) \/ ExpireDetail(d))
    BY <2>4 DEF Crash, Shutdown, Restart, SetPending, ExpireDetail, vars, history, Skew
  <2> QED BY <2>1, <2>2, <2>3, <2>4 DEF Next
<1>3. TypeOK /\ CountMatchesUsers /\ CreatesFirst /\ Balanced(c)
  BY <1>2 DEF BalanceInv
<1>4. CASE Crash \/ Shutdown
  <2>1. Restart /\ committed \in 0..fetched /\ fetched \in Nat
    BY <1>3, <1>4 DEF Crash, Shutdown, TypeOK
  <2>2. committed' \in 0..fetched \/ (con # ConIdle /\ committed' = fetched + 1)
    BY <1>4, <2>1 DEF Crash, Shutdown, Flushed
  <2> QED BY <1>3, <2>1, <2>2, RestartBalanced
<1>5. CASE UNCHANGED vars \/ (\E d \in Comments : SetPending(d) \/ ExpireDetail(d))
  <2>1. UNCHANGED <<log, users, cnt, row, req, fetched, con, synced>>
    BY <1>5 DEF SetPending, ExpireDetail, vars, redis, kafka, history
  <2>2. Applied' = Applied /\ Stored(c)' = Stored(c)
    BY <2>1 DEF Applied, Stored
  <2> QED BY <1>3, <2>1, <2>2, BalancedSame DEF Balanced
<1> QED BY <1>0, <1>3, <1>4, <1>5, RequestBalanced, WorkerBalanced, ConsumeBalanced DEF Next

(* What DeltaExact calls unapplied is what the rest of the log adds up to. *)
LEMMA UnappliedRest ==
    ASSUME TypeOK, CreatesFirst, NEW c \in Comments
    PROVE  Unapplied(c) = Balance(log, c, Len(log)) - Balance(log, c, Applied) + Unsent(req, c)
<1>1. Applied \in Nat /\ Len(log) \in Nat /\ Applied <= Len(log) /\ fetched \in Nat
  BY DEF TypeOK, Applied
<1> DEFINE Rest(type) == {i \in Applied + 1 .. Len(log) : log[i] = [type |-> type, c |-> c]}
           Open(type) == {i \in fetched + 1 .. Len(log) :
                             /\ log[i] = [type |-> type, c |-> c]
                             /\ i = fetched + 1 => con.pc \in {"idle", "incr"}}
           Asks(type) == {r \in Publishing : req[r].type = type /\ req[r].c = c}
<1>2. \A type \in {"like", "unlike"} : Open(type) = Rest(type)
  BY <1>1 DEF Applied
<1>3. \A type : Asks(type) = Asking(req, c, type, Users)
  BY ReqFields DEF Asking, Publishing, TypeOK
<1>4. Unapplied(c) = (Cardinality(Open("like")) + Cardinality(Asks("like")))
                     - (Cardinality(Open("unlike")) + Cardinality(Asks("unlike")))
  BY DEF Unapplied
<1>5. ASSUME NEW type
      PROVE  /\ Cardinality(Rest(type)) \in Nat
             /\ Cardinality(Likes(log, c, type, Len(log))) =
                   Cardinality(Likes(log, c, type, Applied)) + Cardinality(Rest(type))
             /\ Cardinality(Likes(log, c, type, Applied)) \in Nat
             /\ Cardinality(Asks(type)) \in Nat
  <2>1. Cardinality(Rest(type)) \in Nat
        /\ Cardinality(Likes(log, c, type, Len(log))) =
              Cardinality(Likes(log, c, type, Applied)) + Cardinality(Rest(type))
    <3>1. PICK R : R = Rest(type)
      OBVIOUS
    <3>2. \A i : i \in R <=> i \in Applied + 1 .. Len(log) /\ log[i] = [type |-> type, c |-> c]
      BY <3>1
    <3> HIDE DEF Rest, Open, Asks
    <3>3. /\ Cardinality(R) \in Nat
          /\ Cardinality(Likes(log, c, type, Len(log))) =
                Cardinality(Likes(log, c, type, Applied)) + Cardinality(R)
      BY ONLY <1>1, <3>2, LikesRest
    <3> QED BY <3>1, <3>3
  <2>2. Cardinality(Likes(log, c, type, Applied)) \in Nat
    BY <1>1, LikesFinite
  <2>3. Cardinality(Asks(type)) \in Nat
    <3>1. Cardinality(Asking(req, c, type, Users)) \in Nat
      BY AskingFinite
    <3> HIDE DEF Rest, Open, Asks
    <3> QED BY <1>3, <3>1
  <2> QED BY <2>1, <2>2, <2>3
<1>6. Open("like") = Rest("like") /\ Open("unlike") = Rest("unlike")
  BY <1>2
<1> HIDE DEF Rest, Open, Asks
<1> QED BY <1>3, <1>4, <1>5, <1>6 DEF Balance, Unsent

(* Whatever fails, and however many requests overlap, the events alone keep   *)
(* MySQL right but where skewed records why: what is not skewed adds up, and  *)
(* the clamp at zero never acts.                                              *)
THEOREM DeltaIsExact == Spec => []DeltaExact
<1>1. Init => BalanceInv
  <2>1. Init => CountMatchesUsers
    BY FS_EmptySet DEF Init, CountMatchesUsers
  <2> QED BY <2>1, TypeInit, CreatesInit, BalanceInit DEF BalanceInv
<1>2. BalanceInv => DeltaExact
  <2> SUFFICES ASSUME BalanceInv, NEW c \in Comments \ skewed, synced[c] = None
               PROVE  cnt[c] = Stored(c) + Unapplied(c)
    BY DEF DeltaExact
  <2>1. TypeOK /\ CreatesFirst /\ Balanced(c)
    BY DEF BalanceInv
  <2>2. Applied \in Nat /\ Len(log) \in Nat
    BY <2>1 DEF TypeOK, Applied
  <2>3. Balance(log, c, Applied) \in Int /\ Balance(log, c, Len(log)) \in Int
    BY <2>2, BalanceType
  <2>4. cnt[c] = Balance(log, c, Len(log)) + Unsent(req, c) /\ Stored(c) = Balance(log, c, Applied)
    BY <2>1 DEF Balanced
  <2>5. Unsent(req, c) \in Int
    BY UnsentType
  <2> QED BY <2>1, <2>3, <2>4, <2>5, UnappliedRest
<1> QED BY <1>1, <1>2, BalanceStep, PTL DEF Spec
===============================================================================
