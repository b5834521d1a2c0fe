--------------------------- MODULE HaloReview_proofs ---------------------------
(* Theorems about the two comment plugins, for any number of edits, polls and *)
(* failures and any settings.                                                 *)
EXTENDS HaloReview, FiniteSetTheorems, TLAPS

-------------------------------------------------------------------------------
(* Types.  That a version never leaves Versions takes a count: while the      *)
(* comment has no status only edits write it, so at most edits + 1 moderations *)
(* start, and each of them writes once.                                       *)

Finished == {m \in Versions : mod[m].pc = "done"}

Counted ==
    /\ comment.ver <= edits + Cardinality(Finished)
    /\ ~HasStatus(comment) => comment.ver <= edits
    /\ \A m \in Versions : mod[m].pc # "none" => m <= edits /\ m <= comment.ver
    /\ \A n \in modInbox :
          /\ n.new.ver <= comment.ver
          /\ ~HasStatus(n.new) => n.new.ver <= edits
          /\ mod[n.new.ver].pc = "none"
    /\ \A n, o \in modInbox : n.new.ver = o.new.ver => n = o

Typed == TypeOK /\ Counted

LEMMA VersionsAreNat ==
    /\ \A v \in Versions : v \in Nat
    /\ 0 \in Versions
    /\ \A n \in Nat : n <= 2 * MaxEdits + 1 => n \in Versions
<1>1. 2 * MaxEdits + 1 \in Nat
  BY HaloReviewAssumption
<1> QED BY <1>1 DEF Versions

LEMMA FinishedCount ==
    ASSUME TypeOK, \A m \in Versions : mod[m].pc # "none" => m <= edits
    PROVE  /\ IsFiniteSet(Finished) /\ Cardinality(Finished) \in Nat
           /\ Cardinality(Finished) <= edits + 1
<1>1. edits \in Nat
  BY HaloReviewAssumption DEF TypeOK
<1>2. Finished \subseteq 0..edits
  BY <1>1, VersionsAreNat DEF Finished
<1>3. IsFiniteSet(0..edits) /\ Cardinality(0..edits) = edits + 1
  BY <1>1, FS_Interval
<1> QED BY <1>1, <1>2, <1>3, FS_Subset, FS_CardinalityType

LEMMA TypedInit == Init => Typed
<1> SUFFICES ASSUME Init PROVE Typed
  OBVIOUS
<1>1. comment \in Comment /\ comment.ver = 0 /\ comment.status = "none"
  <2>1. PICK approved \in BornApproved : comment = Born(approved)
    BY DEF Init
  <2>2. approved \in BOOLEAN
    BY <2>1, HaloReviewAssumption
  <2> QED BY <2>1, <2>2, VersionsAreNat DEF Born, Comment
<1>2. TypeOK
  <2>1. modInbox \subseteq Notice /\ replyInbox \subseteq Notice
    BY <1>1 DEF Init, Notice
  <2>2. mod \in [Versions -> ModState] /\ run \in [Versions -> RunState]
    BY DEF Init, ModState, RunState
  <2>3. past \subseteq Events
    BY DEF Init, Events
  <2>4. edits \in 0..MaxEdits /\ faults \in 0..MaxFaults /\ replies \in Nat
    BY HaloReviewAssumption DEF Init
  <2>5. sensitive \in BOOLEAN /\ processing \in BOOLEAN
    BY DEF Init
  <2> QED BY <1>1, <2>1, <2>2, <2>3, <2>4, <2>5 DEF TypeOK
<1>3. Finished = {}
  BY DEF Init, Finished
<1>4. Counted
  BY <1>1, <1>3, VersionsAreNat, FS_EmptySet DEF Init, Counted, HasStatus
<1> QED BY <1>2, <1>4 DEF Typed

(* The stored comment after a write. *)
LEMMA StoreType ==
    ASSUME TypeOK, NEW c \in Comment, comment.ver + 1 \in Versions, Store(c)
    PROVE  /\ comment' \in Comment /\ comment'.ver = comment.ver + 1
           /\ comment'.status = c.status /\ comment'.approved = c.approved
           /\ comment'.hidden = c.hidden
           /\ modInbox' \subseteq Notice /\ replyInbox' \subseteq Notice
           /\ \A n \in modInbox' \ modInbox : n.new = comment'
<1> DEFINE new == [c EXCEPT !.ver = comment.ver + 1]
<1>1. new \in Comment /\ new.ver = comment.ver + 1 /\ new.status = c.status
      /\ new.approved = c.approved /\ new.hidden = c.hidden
  BY DEF Comment
<1>2. comment' = new
  BY DEF Store
<1>3. [kind |-> "update", old |-> comment, new |-> new] \in Notice
  BY <1>1 DEF TypeOK, Notice
<1> QED BY <1>1, <1>2, <1>3 DEF Store, TypeOK

LEMMA ModRecords ==
    /\ [pc |-> "filter"] \in ModState /\ [pc |-> "done"] \in ModState
    /\ \A b \in BOOLEAN : [pc |-> "fetch", pass |-> b] \in ModState
    /\ \A b \in BOOLEAN, v \in Versions : [pc |-> "write", pass |-> b, seen |-> v] \in ModState
  BY DEF ModState

LEMMA ModFields ==
    ASSUME NEW s \in ModState
    PROVE  /\ s.pc \in {"fetch", "write"} => s.pass \in BOOLEAN
           /\ s.pc = "write" => s.seen \in Versions
  BY DEF ModState

LEMMA FailType ==
    ASSUME TypeOK, NEW f, Fail(f) \/ UNCHANGED faults
    PROVE  faults' \in 0..MaxFaults
  BY HaloReviewAssumption DEF TypeOK, Fail

LEMMA EventType ==
    ASSUME TypeOK, NEW e \in Events, Record(e) \/ UNCHANGED past
    PROVE  past' \subseteq Events
  BY DEF TypeOK, Record

(* A write by others. *)
LEMMA EditTyped == ASSUME Typed, NEW kind \in Edits, Edit(kind) PROVE Typed'
<1> USE DEF Typed
<1> DEFINE c == CASE kind = "touch"   -> comment
                  [] kind = "approve" -> [comment EXCEPT !.approved = TRUE]
                  [] kind = "hide"    -> [comment EXCEPT !.hidden = TRUE]
<1>0. /\ comment \in Comment /\ comment.ver \in Nat /\ edits \in Nat /\ edits < MaxEdits
      /\ MaxEdits \in Nat /\ edits' = edits + 1
  BY VersionsAreNat, HaloReviewAssumption DEF Edit, TypeOK, Comment
<1>1. c \in Comment /\ c.status = comment.status
  BY <1>0, HaloReviewAssumption DEF Comment
<1>2. comment.ver + 1 \in Versions
  BY <1>0, FinishedCount DEF Counted, Versions
<1>3. Store(c)
  BY DEF Edit
<1>4. past' \subseteq Events
  BY EventType DEF Edit, Events
<1>5. TypeOK'
  <2>1. comment' \in Comment /\ modInbox' \subseteq Notice /\ replyInbox' \subseteq Notice
    BY <1>1, <1>2, <1>3, StoreType
  <2>2. edits' \in 0..MaxEdits
    BY <1>0
  <2>3. UNCHANGED <<sensitive, mod, run, processing, replies, faults>>
    BY DEF Edit
  <2> QED BY <1>4, <2>1, <2>2, <2>3 DEF TypeOK
<1>6. Cardinality(Finished)' = Cardinality(Finished) /\ Cardinality(Finished) \in Nat
  BY FinishedCount DEF Edit, Finished, Counted
<1>7. comment'.ver = comment.ver + 1 /\ comment'.status = comment.status
  BY <1>1, <1>2, <1>3, StoreType
<1>8. mod' = mod /\ \A m \in Versions : mod[m].pc # "none" => m <= comment.ver
  BY DEF Edit, Counted
<1>9. mod[comment.ver + 1].pc = "none"
  BY <1>0, <1>2, <1>8
<1>10. \A n \in modInbox' : n \in modInbox \/ n.new = comment'
  BY <1>1, <1>2, <1>3, StoreType
<1>11. modInbox' = modInbox \cup {[kind |-> "update", old |-> comment, new |-> comment']}
  BY <1>3 DEF Store
<1>12. \A n \in modInbox : n.new.ver \in Nat /\ n.new.ver <= comment.ver
  BY VersionsAreNat DEF Counted, TypeOK, Notice, Comment
<1>13. \A n, o \in modInbox' : n.new.ver = o.new.ver => n = o
  BY <1>0, <1>7, <1>11, <1>12 DEF Counted
<1>14. \A n \in modInbox' :
          /\ n.new.ver <= comment'.ver
          /\ ~HasStatus(n.new) => n.new.ver <= edits'
          /\ mod'[n.new.ver].pc = "none"
  BY <1>0, <1>7, <1>8, <1>9, <1>10, <1>12 DEF Counted, HasStatus
<1>15. Counted'
  BY <1>0, <1>6, <1>7, <1>8, <1>13, <1>14, VersionsAreNat DEF Counted, HasStatus
<1> QED BY <1>5, <1>15

LEMMA NotifiedTyped == ASSUME Typed, NEW n \in modInbox, Notified(n) PROVE Typed'
<1> USE DEF Typed
<1>1. n.new.ver \in Versions /\ n.new.ver \in Nat /\ edits \in Nat /\ comment.ver \in Nat
  BY VersionsAreNat DEF TypeOK, Notice, Comment
<1>2. TypeOK'
  BY <1>1, ModRecords DEF Notified, SetMod, TypeOK, replier
<1>3. mod[n.new.ver].pc = "none" /\ n.new.ver <= comment.ver
  BY DEF Counted
<1>4. \A m \in Versions : mod'[m] = mod[m]
                          \/ (m = n.new.ver /\ mod'[m].pc = "filter" /\ ~HasStatus(n.new))
  BY <1>1 DEF Notified, SetMod, TypeOK
<1>5. Finished' = Finished
  BY <1>3, <1>4 DEF Finished
<1>6. \A m \in Versions : mod'[m].pc # "none" => m <= edits /\ m <= comment.ver
  BY <1>3, <1>4 DEF Counted
<1>7. \A o \in modInbox' : o \in modInbox /\ o.new.ver # n.new.ver /\ o.new.ver \in Versions
  BY DEF Notified, Counted, TypeOK, Notice, Comment
<1>8. \A o \in modInbox' : mod'[o.new.ver].pc = "none"
  BY <1>4, <1>7 DEF Counted
<1> QED BY <1>2, <1>5, <1>6, <1>7, <1>8 DEF Counted, Notified

(* A moderation that goes on without writing. *)
LEMMA QuietTyped ==
    ASSUME Typed, NEW m \in Versions, NEW s \in ModState, mod' = [mod EXCEPT ![m] = s],
           s.pc # "none", mod[m].pc \notin {"none", "done"},
           UNCHANGED <<comment, sensitive, modInbox, replier, edits>>,
           faults' \in 0..MaxFaults, past' \subseteq Events
    PROVE  Typed'
<1> USE DEF Typed
<1>1. TypeOK'
  BY DEF TypeOK, replier
<1>2. \A v \in Versions : (mod[v].pc = "none" <=> mod'[v].pc = "none")
  BY DEF TypeOK
<1>3. Finished \subseteq Finished' /\ \A v \in Versions : mod'[v].pc # "none" => v <= edits
  BY <1>2 DEF Finished, TypeOK, Counted
<1>4. IsFiniteSet(Finished') /\ Cardinality(Finished') \in Nat /\ Cardinality(Finished) \in Nat
  <2>1. IsFiniteSet(Finished) /\ Cardinality(Finished) \in Nat
    BY FinishedCount DEF Counted
  <2>2. edits \in Nat /\ IsFiniteSet(0..edits)
    BY FS_Interval DEF TypeOK
  <2>3. Finished' \subseteq 0..edits
    BY <1>3, <2>2, VersionsAreNat DEF Finished
  <2> QED BY <2>1, <2>2, <2>3, FS_Subset, FS_CardinalityType
<1>5. Cardinality(Finished) <= Cardinality(Finished')
  BY <1>3, <1>4, FS_Subset
<1>6. comment.ver \in Nat /\ edits \in Nat
  BY VersionsAreNat DEF TypeOK, Comment
<1>7. \A n \in modInbox : n.new.ver \in Versions
  BY DEF TypeOK, Notice, Comment
<1> QED BY <1>1, <1>2, <1>3, <1>4, <1>5, <1>6, <1>7 DEF Counted

LEMMA ModerateTyped == ASSUME Typed, NEW m \in Versions, Moderate(m) PROVE Typed'
<1> USE DEF Typed
<1>0. mod[m] \in ModState /\ comment \in Comment /\ comment.ver \in Nat /\ edits \in Nat
      /\ edits <= MaxEdits /\ MaxEdits \in Nat /\ comment.ver \in Versions
  BY VersionsAreNat, HaloReviewAssumption DEF TypeOK, Comment
<1>1. CASE PassThrough(m)
  <2>1. faults' \in 0..MaxFaults /\ past' \subseteq Events
    BY <1>1, FailType, EventType DEF PassThrough, Events
  <2>2. [pc |-> "fetch", pass |-> TRUE] \in ModState
    BY ModRecords
  <2> QED BY <1>1, <2>1, <2>2, QuietTyped DEF PassThrough, SetMod
<1>2. CASE \E verdict \in {"allow", "deny", "error"} : Filter(m, verdict)
  <2>1. PICK verdict \in {"allow", "deny", "error"} : Filter(m, verdict)
    BY <1>2
  <2>2. faults' \in 0..MaxFaults /\ past' \subseteq Events
    BY <2>1, FailType, EventType DEF Filter, Events
  <2>3. Passes(verdict) \in BOOLEAN
    BY HaloReviewAssumption DEF Passes, TypeOK
  <2>4. [pc |-> "fetch", pass |-> Passes(verdict)] \in ModState
    BY <2>3, ModRecords
  <2> QED BY <2>1, <2>2, <2>4, QuietTyped DEF Filter, SetMod
<1>3. CASE FetchLatest(m)
  <2>1. [pc |-> "write", pass |-> mod[m].pass, seen |-> comment.ver] \in ModState
    BY <1>0, <1>3, ModFields, ModRecords DEF FetchLatest
  <2> QED BY <1>3, <2>1, QuietTyped DEF FetchLatest, SetMod, TypeOK
<1>4. CASE WriteDecision(m)
  <2>1. mod' = [mod EXCEPT ![m] = [pc |-> "done"]] /\ [pc |-> "done"] \in ModState
        /\ mod[m].pc = "write"
    BY <1>4, ModRecords DEF WriteDecision, SetMod
  <2>2. faults' \in 0..MaxFaults /\ past' \subseteq Events
    <3>1. UNCHANGED faults \/ Fail("update")
      BY <1>4 DEF WriteDecision
    <3>2. UNCHANGED past \/ Record("passed") \/ Record("unsaved")
      BY <1>4 DEF WriteDecision
    <3> QED BY <3>1, <3>2, FailType, EventType DEF Events
  <2>3. CASE UNCHANGED <<comment, modInbox, replyInbox>>
    BY <1>4, <2>1, <2>2, <2>3, QuietTyped DEF WriteDecision, replier
  <2>4. CASE Store(Passed) \/ \E strategy \in Strategies : Store(Caught(strategy))
    <3>1. PICK c \in Comment : Store(c) /\ c.status # "none"
      <4>1. Passed \in Comment /\ Passed.status # "none"
        BY <1>0 DEF Passed, Comment, Decisions
      <4>2. \A strategy \in Strategies :
               Caught(strategy) \in Comment /\ Caught(strategy).status # "none"
        BY <1>0, HaloReviewAssumption DEF Caught, Comment, Decisions
      <4> QED BY <2>4, <4>1, <4>2
    <3>2. m <= edits /\ m <= comment.ver /\ m \notin Finished
      BY <2>1 DEF Counted, Finished
    <3>3. Finished' = Finished \cup {m}
      BY <2>1 DEF Finished, TypeOK
    <3>4. IsFiniteSet(Finished) /\ Cardinality(Finished) \in Nat
      BY FinishedCount DEF Counted
    <3>5. Cardinality(Finished') = Cardinality(Finished) + 1
      BY <3>2, <3>3, <3>4, FS_AddElement
    <3>6. Finished' \subseteq 0..edits /\ IsFiniteSet(0..edits) /\ Cardinality(0..edits) = edits + 1
      <4>1. Finished \subseteq 0..edits
        BY <1>0, VersionsAreNat DEF Finished, Counted
      <4>2. m \in 0..edits
        BY <1>0, <3>2, VersionsAreNat
      <4>3. IsFiniteSet(0..edits) /\ Cardinality(0..edits) = edits + 1
        BY <1>0, FS_Interval
      <4> QED BY <3>3, <4>1, <4>2, <4>3
    <3>7. Cardinality(Finished') <= edits + 1
      BY <3>6, FS_Subset
    <3>8. comment.ver + 1 \in Versions
      BY <1>0, <3>4, <3>5, <3>7 DEF Counted, Versions
    <3>9. comment' \in Comment /\ comment'.ver = comment.ver + 1 /\ comment'.status # "none"
          /\ modInbox' \subseteq Notice /\ replyInbox' \subseteq Notice
      BY <3>1, <3>8, StoreType
    <3>10. TypeOK'
      BY <1>4, <2>1, <2>2, <3>9 DEF WriteDecision, TypeOK
    <3>11. modInbox' = modInbox \cup {[kind |-> "update", old |-> comment, new |-> comment']}
      BY <3>1 DEF Store
    <3>12. \A n \in modInbox : n.new.ver \in Nat /\ n.new.ver \in Versions /\ n.new.ver <= comment.ver
      BY VersionsAreNat DEF Counted, TypeOK, Notice, Comment
    <3>13. \A v \in Versions : (mod[v].pc = "none" <=> mod'[v].pc = "none")
      BY <2>1 DEF TypeOK
    <3>14. mod[comment.ver + 1].pc = "none"
      BY <1>0, <3>8 DEF Counted
    <3>15. \A n, o \in modInbox' : n.new.ver = o.new.ver => n = o
      BY <1>0, <3>9, <3>11, <3>12 DEF Counted
    <3>16. \A n \in modInbox' :
              /\ n.new.ver <= comment'.ver
              /\ ~HasStatus(n.new) => n.new.ver <= edits
              /\ mod'[n.new.ver].pc = "none"
      BY <1>0, <3>8, <3>9, <3>11, <3>12, <3>13, <3>14 DEF Counted, HasStatus
    <3>17. \A v \in Versions : mod'[v].pc # "none" => v <= edits /\ v <= comment'.ver
      BY <1>0, <3>9, <3>13, VersionsAreNat DEF Counted
    <3>18. edits' = edits
      BY <1>4 DEF WriteDecision
    <3>19. comment'.ver <= edits' + Cardinality(Finished')
      BY <1>0, <3>4, <3>5, <3>9, <3>18 DEF Counted
    <3> QED BY <3>9, <3>10, <3>15, <3>16, <3>17, <3>18, <3>19 DEF Counted, HasStatus
  <2> QED BY <1>4, <2>3, <2>4 DEF WriteDecision
<1> QED BY <1>1, <1>2, <1>3, <1>4 DEF Moderate

(* The steps of plugin-auto-reply. *)
LEMMA RunRecords ==
    /\ \A pc \in {"none", "ask", "check", "recheck", "create", "release", "done"} :
          [pc |-> pc] \in RunState
    /\ \A n \in 0..(MaxPolls - 1) : [pc |-> "wait", polls |-> n] \in RunState
  BY DEF RunState

LEMMA RunFields == ASSUME NEW s \in RunState PROVE s.pc = "wait" => s.polls \in 0..(MaxPolls - 1)
  BY DEF RunState

LEMMA ReplierTyped ==
    ASSUME Typed, UNCHANGED <<comment, sensitive, moderator, edits, past>>,
           replyInbox' \subseteq Notice, run' \in [Versions -> RunState], processing' \in BOOLEAN,
           replies' \in Nat, faults' \in 0..MaxFaults
    PROVE  Typed'
  BY DEF Typed, TypeOK, Counted, Finished, moderator

LEMMA ReplyTyped ==
    ASSUME Typed, (\E n \in replyInbox : Trigger(n)) \/ (\E r \in Versions : Reply(r))
    PROVE  Typed'
<1>0. TypeOK /\ run \in [Versions -> RunState] /\ MaxPolls \in Nat \ {0}
  BY HaloReviewAssumption DEF Typed, TypeOK
<1>1. CASE \E n \in replyInbox : Trigger(n)
  <2>1. PICK n \in replyInbox : Trigger(n)
    BY <1>1
  <2>2. n.new.ver \in Versions /\ 0 \in 0..(MaxPolls - 1)
    BY <1>0 DEF TypeOK, Notice, Comment
  <2>3. run' \in [Versions -> RunState] /\ processing' \in BOOLEAN /\ faults' \in 0..MaxFaults
    BY <1>0, <2>1, <2>2, RunRecords DEF Trigger, SetRun, TypeOK
  <2> QED BY <1>0, <2>1, <2>3, ReplierTyped DEF Trigger, TypeOK
<1>2. CASE \E r \in Versions : Reply(r)
  <2>1. PICK r \in Versions : Reply(r)
    BY <1>2
  <2>2. faults' \in 0..MaxFaults
    <3>1. UNCHANGED faults \/ Fail("poll") \/ Fail("list") \/ Fail("create")
      BY <2>1
         DEF Reply, Poll, Ask, CheckBeforeDelay, CheckAfterDelay, Check, CreateReply, Release
    <3> QED BY <1>0, <3>1, FailType
  <2>3. run' \in [Versions -> RunState]
    <3>1. CASE Poll(r)
      <4>1. run[r].polls + 1 < MaxPolls => run[r].polls + 1 \in 0..(MaxPolls - 1)
        BY <1>0, <3>1, RunFields DEF Poll
      <4>2. run[r].polls + 1 \in Int
        BY <1>0, <3>1, RunFields DEF Poll
      <4> QED BY <1>0, <3>1, <4>1, <4>2, RunRecords DEF Poll, SetRun
    <3>2. CASE CheckBeforeDelay(r) \/ CheckAfterDelay(r)
      BY <1>0, <3>2, RunRecords DEF CheckBeforeDelay, CheckAfterDelay, Check, SetRun
    <3>3. CASE (\E shouldReply \in BOOLEAN : Ask(r, shouldReply)) \/ CreateReply(r) \/ Release(r)
      BY <1>0, <3>3, RunRecords DEF Ask, CreateReply, Release, SetRun
    <3> QED BY <2>1, <3>1, <3>2, <3>3 DEF Reply
  <2>4. replies' = replies \/ replies' = replies + 1
    BY <2>1
       DEF Reply, Poll, Ask, CheckBeforeDelay, CheckAfterDelay, Check, CreateReply, Release
  <2>5. processing' = processing \/ processing' = FALSE
    BY <2>1
       DEF Reply, Poll, Ask, CheckBeforeDelay, CheckAfterDelay, Check, CreateReply, Release
  <2>6. UNCHANGED <<comment, sensitive, moderator, edits, past, replyInbox>>
    BY <2>1
       DEF Reply, Poll, Ask, CheckBeforeDelay, CheckAfterDelay, Check, CreateReply, Release
  <2>7. replies' \in Nat /\ processing' \in BOOLEAN /\ replyInbox' \subseteq Notice
    <3>1. replies \in Nat /\ processing \in BOOLEAN /\ replyInbox \subseteq Notice
      BY <1>0 DEF TypeOK
    <3>2. processing' \in BOOLEAN
      BY <2>5, <3>1
    <3> QED BY <2>4, <2>6, <3>1, <3>2
  <2> QED BY <2>2, <2>3, <2>6, <2>7, ReplierTyped
<1> QED BY <1>1, <1>2

LEMMA TypedStep == ASSUME Typed, [Next]_vars PROVE Typed'
<1>1. CASE UNCHANGED vars
  BY <1>1 DEF Typed, TypeOK, Counted, Finished, vars, moderator, replier
<1>2. CASE Next
  BY <1>2, EditTyped, NotifiedTyped, ModerateTyped, ReplyTyped DEF Next
<1> QED BY <1>1, <1>2

(* TypeOK for any number of edits and failures, and with it the bound of the   *)
(* versions: every moderation, however many race, writes at most once.         *)
THEOREM TypeCorrect == Spec => []TypeOK
<1>1. Typed => TypeOK
  BY DEF Typed
<1> QED BY <1>1, TypedInit, TypedStep, PTL DEF Spec

-------------------------------------------------------------------------------
(* OneReply.  processingComments admits one pipeline at a time, and what that *)
(* pipeline still has to do is as good as the number of checks left to it.    *)

Active(r) == run[r].pc \notin {"none", "done"}

OneRun ==
    /\ \A r \in Versions : Active(r) => processing
    /\ \A r, s \in Versions : Active(r) /\ Active(s) => r = s
    /\ replies > 0 => \A r \in Versions : run[r].pc = "recheck" => faults > 0
    /\ \A r \in Versions : run[r].pc = "create" => replies = 0
    /\ replies <= 1

LEMMA OneRunInit == Init => OneRun
  BY DEF Init, OneRun, Active

LEMMA OneRunQuiet ==
    ASSUME OneRun, TypeOK, UNCHANGED <<run, processing, replies>>,
           UNCHANGED faults \/ (\E f : Fail(f))
    PROVE  OneRun'
<1>1. faults > 0 => faults' > 0
  BY DEF TypeOK, Fail
<1> QED BY <1>1 DEF OneRun, Active

LEMMA OneRunTrigger ==
    ASSUME OneRun, TypeOK, NEW n \in replyInbox, Trigger(n)
    PROVE  OneRun'
<1>1. CASE Starts(n)
  <2>1. \A r \in Versions : ~Active(r)
    BY <1>1 DEF Starts, OneRun
  <2>2. \A r \in Versions : r # n.new.ver => run'[r] = run[r]
    BY <1>1 DEF Trigger, SetRun, TypeOK
  <2>3. n.new.ver \in Versions => run'[n.new.ver].pc = "wait"
    BY <1>1 DEF Trigger, SetRun, TypeOK
  <2>4. processing' /\ UNCHANGED <<replies, faults>>
    BY <1>1 DEF Trigger
  <2> QED BY <2>1, <2>2, <2>3, <2>4 DEF OneRun, Active
<1>2. CASE ~Starts(n)
  BY <1>2, OneRunQuiet DEF Trigger
<1> QED BY <1>1, <1>2

LEMMA OneRunReply ==
    ASSUME OneRun, TypeOK, MaxFaults <= 1, NEW r \in Versions, Reply(r)
    PROVE  OneRun'
<1>0. /\ run \in [Versions -> RunState] /\ faults \in Nat /\ MaxFaults \in Nat /\ replies \in Nat
      /\ replies <= 1
  BY HaloReviewAssumption DEF TypeOK, OneRun
<1>1. Active(r) /\ processing
  BY DEF Reply, Poll, Ask, CheckBeforeDelay, CheckAfterDelay, Check, CreateReply, Release, Active,
         OneRun
<1>2. \A s \in Versions : s # r => run'[s] = run[s] /\ ~Active(s)
  BY <1>0, <1>1
     DEF Reply, Poll, Ask, CheckBeforeDelay, CheckAfterDelay, Check, CreateReply, Release, SetRun,
         OneRun
<1>3. CASE Poll(r)
  <2>1. run'[r].pc \in {"wait", "ask", "release"} /\ UNCHANGED <<processing, replies>>
    BY <1>0, <1>3 DEF Poll, SetRun
  <2> QED BY <1>0, <1>1, <1>2, <2>1 DEF OneRun, Active
<1>4. CASE \E shouldReply \in BOOLEAN : Ask(r, shouldReply)
  <2>1. run'[r].pc \in {"check", "release"} /\ UNCHANGED <<processing, replies>>
    BY <1>0, <1>4 DEF Ask, SetRun
  <2> QED BY <1>0, <1>1, <1>2, <2>1 DEF OneRun, Active
<1>5. CASE CheckBeforeDelay(r)
  <2>1. UNCHANGED <<processing, replies>>
    BY <1>5 DEF CheckBeforeDelay, Check
  <2>2. run'[r].pc = "release" \/ (run'[r].pc = "recheck" /\ (replies = 0 \/ faults' > 0))
    BY <1>0, <1>5 DEF CheckBeforeDelay, Check, SetRun, Fail
  <2> QED BY <1>0, <1>1, <1>2, <2>1, <2>2 DEF OneRun, Active
<1>6. CASE CheckAfterDelay(r)
  <2>1. UNCHANGED <<processing, replies>>
    BY <1>6 DEF CheckAfterDelay, Check
  <2>2. replies > 0 => faults > 0
    BY <1>6 DEF CheckAfterDelay, Check, OneRun
  <2>3. run'[r].pc = "release" \/ (run'[r].pc = "create" /\ replies = 0)
    BY <1>0, <1>6, <2>2 DEF CheckAfterDelay, Check, SetRun, Fail
  <2> QED BY <1>0, <1>1, <1>2, <2>1, <2>3 DEF OneRun, Active
<1>7. CASE CreateReply(r)
  <2>1. run'[r].pc = "release" /\ processing' = processing /\ replies = 0
    BY <1>0, <1>7 DEF CreateReply, SetRun, OneRun
  <2>2. replies' \in 0..1
    BY <1>7, <2>1 DEF CreateReply
  <2> QED BY <1>1, <1>2, <2>1, <2>2 DEF OneRun, Active
<1>8. CASE Release(r)
  <2>1. run'[r].pc = "done" /\ UNCHANGED replies
    BY <1>0, <1>8 DEF Release, SetRun
  <2> QED BY <1>0, <1>2, <2>1 DEF OneRun, Active
<1> QED BY <1>3, <1>4, <1>5, <1>6, <1>7, <1>8 DEF Reply

LEMMA OneRunStep == ASSUME MaxFaults <= 1, Typed, OneRun, [Next]_vars PROVE OneRun'
<1> USE DEF Typed, replier
<1>1. CASE UNCHANGED vars
  BY <1>1, OneRunQuiet DEF vars
<1>2. CASE \E kind \in Edits : Edit(kind)
  BY <1>2, OneRunQuiet DEF Edit
<1>3. CASE \E n \in modInbox : Notified(n)
  BY <1>3, OneRunQuiet DEF Notified
<1>4. CASE \E m \in Versions : Moderate(m)
  BY <1>4, OneRunQuiet DEF Moderate, PassThrough, Filter, FetchLatest, WriteDecision
<1>5. CASE \E n \in replyInbox : Trigger(n)
  BY <1>5, OneRunTrigger
<1>6. CASE \E r \in Versions : Reply(r)
  BY <1>6, OneRunReply
<1> QED BY <1>1, <1>2, <1>3, <1>4, <1>5, <1>6 DEF Next

(* A comment gets at most one auto-reply, for any number of edits and any      *)
(* number of pipelines, as long as at most one call fails: with two failed     *)
(* listings the two checks before a second reply both see none.                *)
THEOREM OneReplyHolds == ASSUME MaxFaults <= 1 PROVE Spec => []OneReply
<1>1. OneRun => OneReply
  BY DEF OneRun, OneReply
<1>2. Typed /\ OneRun /\ [Next]_vars => OneRun'
  BY OneRunStep
<1> QED BY <1>1, <1>2, TypedInit, TypedStep, OneRunInit, PTL DEF Spec

-------------------------------------------------------------------------------
(* ReplyOnlyToAdmitted: an approved comment has been admitted, and so has one  *)
(* whose pipeline is past the wait.                                            *)

Admitted == "passed" \in past \/ "admitted" \in past

AdmittedInv ==
    /\ comment.approved => Admitted
    /\ \A r \in Versions : run[r].pc \in {"ask", "check", "recheck", "create"} => Admitted
    /\ replies > 0 => Admitted

LEMMA AdmittedInit == Init => AdmittedInv
  BY DEF Init, AdmittedInv, Admitted

LEMMA AdmittedEdit == ASSUME Typed, AdmittedInv, NEW kind \in Edits, Edit(kind) PROVE AdmittedInv'
<1>0. comment \in Comment
  BY DEF Typed, TypeOK
<1>1. comment'.approved => comment.approved \/ "admitted" \in past'
  BY <1>0, HaloReviewAssumption DEF Edit, Store, Record, Comment
<1>2. past \subseteq past' /\ UNCHANGED <<run, replies>>
  BY DEF Edit, Record
<1> QED BY <1>1, <1>2 DEF AdmittedInv, Admitted

LEMMA AdmittedModerate ==
    ASSUME Typed, AdmittedInv, NEW m \in Versions, Moderate(m)
    PROVE  AdmittedInv'
<1>0. comment \in Comment
  BY DEF Typed, TypeOK
<1>1. past \subseteq past' /\ UNCHANGED <<run, replies>>
  BY DEF Moderate, PassThrough, Filter, FetchLatest, WriteDecision, Record, replier
<1>2. comment'.approved => comment.approved \/ "passed" \in past'
  <2>1. CASE WriteDecision(m)
    <3>1. CASE Store(Passed) /\ Record("passed")
      BY <3>1 DEF Record
    <3>2. CASE \E strategy \in Strategies : Store(Caught(strategy))
      BY <1>0, <3>2, HaloReviewAssumption DEF Store, Caught, Comment
    <3>3. CASE UNCHANGED comment
      BY <3>3
    <3> QED BY <2>1, <3>1, <3>2, <3>3 DEF WriteDecision
  <2>2. CASE ~WriteDecision(m)
    BY <2>2 DEF Moderate, PassThrough, Filter, FetchLatest
  <2> QED BY <2>1, <2>2
<1> QED BY <1>1, <1>2 DEF AdmittedInv, Admitted

LEMMA AdmittedReply ==
    ASSUME Typed, AdmittedInv, NEW r \in Versions, Reply(r)
    PROVE  AdmittedInv'
<1>0. run \in [Versions -> RunState] /\ UNCHANGED <<comment, past>> /\ replies \in Nat
  BY DEF Reply, Poll, Ask, CheckBeforeDelay, CheckAfterDelay, Check, CreateReply, Release, Typed,
         TypeOK
<1>1. \A s \in Versions : s # r => run'[s] = run[s]
  BY <1>0
     DEF Reply, Poll, Ask, CheckBeforeDelay, CheckAfterDelay, Check, CreateReply, Release, SetRun
<1>2. CASE Poll(r)
  <2>1. run'[r].pc = "ask" => comment.approved
    BY <1>0, <1>2 DEF Poll, SetRun, MayReply, Visible
  <2>2. run'[r].pc \in {"wait", "ask", "release"} /\ UNCHANGED replies
    BY <1>0, <1>2 DEF Poll, SetRun
  <2> QED BY <1>0, <1>1, <2>1, <2>2 DEF AdmittedInv, Admitted
<1>3. CASE ~Poll(r) /\ ~Release(r)
  <2>1. Admitted
    BY <1>3 DEF Reply, Ask, CheckBeforeDelay, CheckAfterDelay, Check, CreateReply, AdmittedInv
  <2> QED BY <1>0, <2>1 DEF AdmittedInv, Admitted
<1>4. CASE Release(r)
  <2>1. run'[r].pc = "done" /\ UNCHANGED replies
    BY <1>0, <1>4 DEF Release, SetRun
  <2> QED BY <1>0, <1>1, <2>1 DEF AdmittedInv, Admitted
<1> QED BY <1>2, <1>3, <1>4

LEMMA AdmittedStep == ASSUME Typed, AdmittedInv, [Next]_vars PROVE AdmittedInv'
<1>1. CASE UNCHANGED vars
  BY <1>1 DEF vars, replier, AdmittedInv, Admitted
<1>2. CASE \E n \in modInbox : Notified(n)
  BY <1>2 DEF Notified, replier, AdmittedInv, Admitted
<1>3. CASE \E n \in replyInbox : Trigger(n)
  <2>1. PICK n \in replyInbox : Trigger(n)
    BY <1>3
  <2>2. \A s \in Versions : run'[s] = run[s] \/ run'[s].pc = "wait"
    BY <2>1 DEF Trigger, SetRun, Typed, TypeOK
  <2> QED BY <2>1, <2>2 DEF Trigger, AdmittedInv, Admitted
<1> QED BY <1>1, <1>2, <1>3, AdmittedEdit, AdmittedModerate, AdmittedReply DEF Next

(* Only a comment that a moderation passed or that somebody else approved gets *)
(* an auto-reply, for any edits, failures and interleavings of the pipelines.  *)
THEOREM OnlyAdmittedAnswered == Spec => []ReplyOnlyToAdmitted
<1>1. AdmittedInv => ReplyOnlyToAdmitted
  BY DEF AdmittedInv, Admitted, ReplyOnlyToAdmitted
<1>2. Typed /\ AdmittedInv /\ [Next]_vars => AdmittedInv'
  BY AdmittedStep
<1> QED BY <1>1, <1>2, TypedInit, TypedStep, AdmittedInit, PTL DEF Spec

-------------------------------------------------------------------------------
(* PassNeedsReason: a moderation on its way to PASS has its reason already.    *)

Excused == "allowed" \in past \/ "bypassed" \in past

ReasonInv ==
    sensitive =>
        /\ comment.status = "PASS" => Excused
        /\ \A m \in Versions : mod[m].pc \in {"fetch", "write"} /\ mod[m].pass => Excused

LEMMA ReasonInit == Init => ReasonInv
  BY DEF Init, ReasonInv, Born

LEMMA ReasonModerate ==
    ASSUME Typed, ReasonInv, NEW m \in Versions, Moderate(m)
    PROVE  ReasonInv'
<1> SUFFICES ASSUME sensitive
             PROVE  /\ comment'.status = "PASS" => Excused'
                    /\ \A v \in Versions :
                          mod'[v].pc \in {"fetch", "write"} /\ mod'[v].pass => Excused'
  BY DEF ReasonInv, Moderate, PassThrough, Filter, FetchLatest, WriteDecision
<1>0. /\ comment \in Comment /\ mod \in [Versions -> ModState] /\ past \subseteq past'
      /\ \A v \in Versions : v # m => mod'[v] = mod[v]
  BY DEF Typed, TypeOK, Moderate, PassThrough, Filter, FetchLatest, WriteDecision, SetMod, Record
<1>a. Excused => Excused'
  BY <1>0 DEF Excused
<1>1. CASE PassThrough(m)
  BY <1>1 DEF PassThrough, Record, Excused
<1>2. CASE \E verdict \in {"allow", "deny", "error"} : Filter(m, verdict)
  <2>1. PICK verdict \in {"allow", "deny", "error"} : Filter(m, verdict)
    BY <1>2
  <2>2. mod'[m].pass => Excused'
    BY <1>0, <2>1 DEF Filter, SetMod, Passes, Consulted, Record, Excused
  <2> QED BY <1>0, <1>a, <2>1, <2>2 DEF Filter, ReasonInv
<1>3. CASE FetchLatest(m)
  <2>1. mod'[m].pass = mod[m].pass /\ mod[m].pc = "fetch" /\ UNCHANGED comment
    BY <1>0, <1>3 DEF FetchLatest, SetMod
  <2> QED BY <1>0, <1>a, <2>1 DEF ReasonInv
<1>4. CASE WriteDecision(m)
  <2>1. mod'[m].pc = "done"
    BY <1>0, <1>4 DEF WriteDecision, SetMod
  <2>2. CASE Store(Passed) /\ mod[m].pass
    BY <1>0, <1>4, <1>a, <2>2 DEF WriteDecision, ReasonInv, Excused
  <2>3. CASE \E strategy \in Strategies : Store(Caught(strategy))
    <3>1. comment'.status # "PASS"
      BY <1>0, <2>3, HaloReviewAssumption DEF Store, Caught, Comment
    <3> QED BY <1>0, <1>a, <2>1, <3>1 DEF ReasonInv
  <2>4. CASE UNCHANGED comment
    BY <1>0, <1>a, <2>1, <2>4 DEF ReasonInv
  <2> QED BY <1>4, <2>2, <2>3, <2>4 DEF WriteDecision
<1> QED BY <1>1, <1>2, <1>3, <1>4 DEF Moderate

LEMMA ReasonStep == ASSUME Typed, ReasonInv, [Next]_vars PROVE ReasonInv'
<1>1. CASE UNCHANGED vars
  BY <1>1 DEF vars, moderator, ReasonInv, Excused
<1>2. CASE \E kind \in Edits : Edit(kind)
  <2>1. PICK kind \in Edits : Edit(kind)
    BY <1>2
  <2>2. comment'.status = comment.status
    BY <2>1, HaloReviewAssumption DEF Edit, Store, Typed, TypeOK, Comment
  <2>3. past \subseteq past' /\ UNCHANGED <<mod, sensitive>>
    BY <2>1 DEF Edit, Record
  <2> QED BY <2>2, <2>3 DEF ReasonInv, Excused
<1>3. CASE \E n \in modInbox : Notified(n)
  <2>1. PICK n \in modInbox : Notified(n)
    BY <1>3
  <2>2. \A v \in Versions : mod'[v] = mod[v] \/ mod'[v].pc = "filter"
    BY <2>1 DEF Notified, SetMod, Typed, TypeOK
  <2> QED BY <2>1, <2>2 DEF Notified, ReasonInv, Excused
<1>4. CASE \E n \in replyInbox : Trigger(n)
  BY <1>4 DEF Trigger, moderator, ReasonInv, Excused
<1>5. CASE \E r \in Versions : Reply(r)
  BY <1>5
     DEF Reply, Poll, Ask, CheckBeforeDelay, CheckAfterDelay, Check, CreateReply, Release, moderator,
         ReasonInv, Excused
<1> QED BY <1>1, <1>2, <1>3, <1>4, <1>5, ReasonModerate DEF Next

(* A comment with a sensitive word is stored as PASS only after the AI reviewer *)
(* allowed it or the client gave up on the filter, for any edits and failures. *)
THEOREM PassHasReason == Spec => []PassNeedsReason
<1>1. ReasonInv => PassNeedsReason
  BY DEF ReasonInv, Excused, PassNeedsReason
<1>2. Typed /\ ReasonInv /\ [Next]_vars => ReasonInv'
  BY ReasonStep
<1> QED BY <1>1, <1>2, TypedInit, TypedStep, ReasonInit, PTL DEF Spec
===============================================================================
