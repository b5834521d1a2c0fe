------------------------ MODULE CommentPipeline_proofs ------------------------
(* Theorems about submission, moderation and the caches, for any number of   *)
(* comments, requests, events, attempts and failures.                        *)
EXTENDS CommentPipeline, FiniteSetTheorems, TLAPS

-------------------------------------------------------------------------------
(* The records of requests and consumer. *)

LEMMA ReqRecords ==
    /\ Idle \in ReqState
    /\ \A pc \in {"setpending", "hotread", "hotwrite"}, c \in Comments :
          [pc |-> pc, c |-> c] \in ReqState
    /\ [pc |-> "listquery"] \in ReqState
    /\ \A pc \in {"getcount", "countquery"}, S \in SUBSET Comments :
          [pc |-> pc, shown |-> S] \in ReqState
    /\ \A pc \in {"setcount", "setpage"}, S \in SUBSET Comments, n \in Nat :
          [pc |-> pc, shown |-> S, total |-> n] \in ReqState
    /\ \A S \in SUBSET Comments : NextHot(S) \in ReqState
    /\ \A S \in SUBSET Comments, c \in Comments :
          [pc |-> "find", todo |-> S, c |-> c] \in ReqState
    /\ \A S \in SUBSET Comments, c \in Comments, s \in Status :
          [pc |-> "fill", todo |-> S, c |-> c, status |-> s] \in ReqState
  BY DEF ReqState, Idle, NextHot

LEMMA ReqFields ==
    ASSUME NEW q \in ReqState
    PROVE  /\ q.pc = "idle" <=> q = Idle
           /\ q.pc \in {"setpending", "hotread", "hotwrite", "find", "fill"} => q.c \in Comments
           /\ q.pc \in {"getcount", "countquery", "setcount", "setpage"} => q.shown \subseteq Comments
           /\ q.pc \in {"setcount", "setpage"} => q.total \in Nat
           /\ q.pc \in {"hot", "find", "fill"} => q.todo \subseteq Comments
           /\ q.pc = "fill" => q.status \in Status
  BY DEF ReqState, Idle

LEMMA ConRecords ==
    /\ Idle \in ConState
    /\ \A pc \in {"insert", "update", "incr", "invpage", "invcount", "invdetail", "zrem", "find"},
          n \in 1..MaxRetry : At(pc, n) \in ConState
    /\ \A pc \in {"setdetail", "zadd"}, n \in 1..MaxRetry, s \in Status :
          [pc |-> pc, attempt |-> n, status |-> s] \in ConState
  BY DEF ConState, Idle, At

LEMMA ConFields ==
    ASSUME NEW k \in ConState
    PROVE  /\ k.pc = "idle" <=> k = Idle
           /\ k.pc # "idle" => k.attempt \in 1..MaxRetry
           /\ k.pc \in {"setdetail", "zadd"} =>
                 k.status \in Status /\ k = [pc |-> k.pc, attempt |-> k.attempt, status |-> k.status]
  BY DEF ConState, Idle

LEMMA ConPcs ==
    ASSUME NEW k \in ConState, k # Idle
    PROVE  k.pc \in {"insert", "update", "incr", "invpage", "invcount", "invdetail", "zrem", "find",
                     "setdetail", "zadd"}
  BY DEF ConState, Idle

LEMMA EventFields ==
    ASSUME NEW e \in Event
    PROVE  /\ e.c \in Comments
           /\ e.type \in {"create", "like", "update_status"}
           /\ e.type = "update_status" =>
                 /\ e.status \in {"approved", "rejected"}
                 /\ e = [type |-> "update_status", c |-> e.c, status |-> e.status]
  BY DEF Event

(* The event in hand. *)
LEMMA CurrentEvent ==
    ASSUME TypeOK, con # Idle
    PROVE  /\ Current \in Event /\ Current = log[fetched + 1]
           /\ fetched + 1 \in 1..Len(log) /\ fetched + 1 \in DOMAIN log
  BY DEF TypeOK, Current

-------------------------------------------------------------------------------
(* Outcomes of a call. *)

LEMMA FaultsType ==
    ASSUME faults \in 0..MaxFaults, NEW call, Ok \/ Fail(call)
    PROVE  faults' \in 0..MaxFaults
  BY PipelineAssumption DEF Ok, Fail

LEMMA MissesType ==
    ASSUME faults \in 0..MaxFaults, NEW empty, Misses(empty)
    PROVE  faults' \in 0..MaxFaults
  BY FaultsType DEF Misses

LEMMA WriteType ==
    ASSUME faults \in 0..MaxFaults, NEW cache, NEW new, NEW old, Write(cache, new, old)
    PROVE  cache \in {new, old} /\ faults' \in 0..MaxFaults
  BY FaultsType DEF Write

LEMMA NoneStatus == None # "approved" /\ None \notin Status
  BY PipelineAssumption DEF Status

(* The detail cache takes one status, or stays. *)
LEMMA WriteDetail ==
    ASSUME TypeOK, NEW c \in Comments, NEW s \in Status \cup {None},
           Write(detail', [detail EXCEPT ![c] = s], detail)
    PROVE  /\ detail' \in [Comments -> Status \cup {None}]
           /\ detail'[c] \in {s, detail[c]}
           /\ \A d \in Comments \ {c} : detail'[d] = detail[d]
           /\ faults' \in 0..MaxFaults
<1>1. detail' = [detail EXCEPT ![c] = s] \/ detail' = detail
  BY DEF Write
<1>2. faults' \in 0..MaxFaults
  BY FaultsType DEF Write, TypeOK
<1> QED BY <1>1, <1>2 DEF TypeOK

LEMMA ApprovedCount == Cardinality(Approved) \in Nat
<1>1. Approved \subseteq Comments
  BY DEF Approved
<1> QED BY <1>1, PipelineAssumption, FS_Subset, FS_CardinalityType

(* The log only grows. *)
Grows == /\ log' \in Seq(Event) /\ Len(log) <= Len(log')
         /\ \A i \in 1..Len(log) : log'[i] = log[i]

LEMMA AppendGrows ==
    ASSUME log \in Seq(Event), NEW e \in Event, log' = Append(log, e)
    PROVE  Grows /\ Len(log') = Len(log) + 1 /\ log'[Len(log')] = e
  BY DEF Grows

LEMMA PublishGrows ==
    ASSUME TypeOK, NEW e \in Event, Publish(e)
    PROVE  Grows /\ faults' \in 0..MaxFaults
<1>1. faults' \in 0..MaxFaults
  BY FaultsType DEF Publish, TypeOK
<1>2. CASE log' = Append(log, e)
  BY <1>1, <1>2, AppendGrows DEF TypeOK
<1>3. CASE log' = log \o <<e, e>>
  <2>1. log \in Seq(Event) /\ <<e, e>> \in Seq(Event) /\ Len(log) \in Nat
    BY DEF TypeOK
  <2>2. Len(log') = Len(log) + 2
    BY <1>3, <2>1
  <2>3. log' \in Seq(Event)
    BY <1>3, <2>1
  <2>4. \A i \in 1..Len(log) : log'[i] = log[i]
    BY <1>3, <2>1
  <2> QED BY <1>1, <2>1, <2>2, <2>3, <2>4 DEF Grows
<1> QED BY <1>2, <1>3 DEF Publish

(* What a growing log leaves of the types. *)
LEMMA GrowsType ==
    ASSUME TypeOK, Grows, UNCHANGED <<fetched, committed, con, missed>>
    PROVE  /\ log' \in Seq(Event)
           /\ fetched' \in 0..Len(log') /\ committed' \in 0..fetched'
           /\ con' \in ConState /\ (con' # Idle => fetched' < Len(log'))
           /\ missed' \subseteq 1..Len(log')
  BY DEF TypeOK, Grows

-------------------------------------------------------------------------------
(* Types. *)

LEMMA TypeInit == Init => TypeOK
  BY PipelineAssumption, ReqRecords, ConRecords DEF Init, TypeOK, Page, NoPage, Idle

(* A step that leaves log and consumer alone: what is left to show. *)
LEMMA QuietType ==
    ASSUME TypeOK, UNCHANGED <<row, kafka, fetched, con, missed>>,
           detail' \in [Comments -> Status \cup {None}], hot' \subseteq Comments,
           page' \in Page, count' \in Nat \cup {None},
           req' \in [Requests -> ReqState], faults' \in 0..MaxFaults
    PROVE  TypeOK'
  BY DEF TypeOK, kafka

LEMMA StartType == ASSUME TypeOK, NEW r \in Requests, Start(r) PROVE TypeOK'
<1> USE DEF caches
<1>1. CASE Submit(r)
  <2>1. PICK c \in Comments :
           LET e == [type |-> "create", c |-> c]
           IN \/ Publish(e) /\ req' = [req EXCEPT ![r] = [pc |-> "setpending", c |-> c]]
              \/ Fail("ghost") /\ log' = Append(log, e) /\ UNCHANGED req
    BY <1>1 DEF Submit
  <2>2. [type |-> "create", c |-> c] \in Event
    BY DEF Event
  <2>3. Grows /\ faults' \in 0..MaxFaults
    BY <2>1, <2>2, PublishGrows, AppendGrows, FaultsType DEF TypeOK
  <2>4. req' \in [Requests -> ReqState]
    BY <2>1, ReqRecords DEF TypeOK
  <2> QED BY <1>1, <2>3, <2>4, GrowsType DEF Submit, TypeOK
<1>2. CASE UpdateStatus
  <2>1. PICK c \in Comments, status \in {"approved", "rejected"} :
           Publish([type |-> "update_status", c |-> c, status |-> status])
    BY <1>2 DEF UpdateStatus
  <2>2. [type |-> "update_status", c |-> c, status |-> status] \in Event
    BY DEF Event
  <2>3. Grows /\ faults' \in 0..MaxFaults
    BY <2>1, <2>2, PublishGrows
  <2> QED BY <1>2, <2>3, GrowsType DEF UpdateStatus, TypeOK
<1>3. CASE Like(r)
  <2>1. PICK c \in Comments :
           /\ Publish([type |-> "like", c |-> c]) \/ (Fail("publish") /\ UNCHANGED log)
           /\ req' = [req EXCEPT ![r] = [pc |-> "hotread", c |-> c]]
    BY <1>3 DEF Like
  <2>2. [type |-> "like", c |-> c] \in Event
    BY DEF Event
  <2>3. Grows /\ faults' \in 0..MaxFaults
    <3>1. CASE Publish([type |-> "like", c |-> c])
      BY <2>2, <3>1, PublishGrows
    <3>2. CASE Fail("publish") /\ UNCHANGED log
      BY <3>2, FaultsType DEF TypeOK, Grows
    <3> QED BY <2>1, <3>1, <3>2
  <2>4. req' \in [Requests -> ReqState]
    BY <2>1, ReqRecords DEF TypeOK
  <2> QED BY <1>3, <2>3, <2>4, GrowsType DEF Like, TypeOK
<1>4. CASE ListComments(r)
  <2>1. faults' \in 0..MaxFaults
    BY <1>4, MissesType DEF ListComments, TypeOK
  <2>2. req' \in [Requests -> ReqState]
    BY <1>4, ReqRecords DEF ListComments, TypeOK
  <2> QED BY <1>4, <2>1, <2>2 DEF ListComments, TypeOK, kafka
<1>5. CASE GetHotComments(r)
  <2>1. req' \in [Requests -> ReqState]
    BY <1>5, ReqRecords DEF GetHotComments, TypeOK
  <2> QED BY <1>5, <2>1 DEF GetHotComments, TypeOK, kafka
<1> QED BY <1>1, <1>2, <1>3, <1>4, <1>5 DEF Start

LEMMA ContinueType == ASSUME TypeOK, NEW r \in Requests, Continue(r) PROVE TypeOK'
<1> USE DEF caches
<1>0. /\ req[r] \in ReqState
      /\ detail \in [Comments -> Status \cup {None}] /\ hot \subseteq Comments
      /\ page \in Page /\ count \in Nat \cup {None} /\ faults \in 0..MaxFaults
      /\ row \in [Comments -> Status \cup {None}]
  BY DEF TypeOK
<1>1. CASE SetPending(r)
  <2>1. req[r].c \in Comments
    BY <1>0, <1>1, ReqFields DEF SetPending
  <2>2. detail' \in [Comments -> Status \cup {None}] /\ faults' \in 0..MaxFaults
    BY <1>1, <2>1, WriteDetail DEF SetPending, Status
  <2>3. req' \in [Requests -> ReqState]
    BY <1>1, ReqRecords DEF SetPending, TypeOK
  <2> QED BY <1>0, <1>1, <2>2, <2>3, QuietType DEF SetPending
<1>2. CASE HotRead(r)
  <2>1. req[r].c \in Comments
    BY <1>0, <1>2, ReqFields DEF HotRead
  <2>2. req' \in [Requests -> ReqState]
    BY <1>2, <2>1, ReqRecords DEF HotRead, TypeOK
  <2>3. faults' \in 0..MaxFaults
    BY <1>0, <1>2, FaultsType DEF HotRead
  <2> QED BY <1>0, <1>2, <2>2, <2>3, QuietType DEF HotRead
<1>3. CASE HotWrite(r)
  <2>1. req[r].c \in Comments
    BY <1>0, <1>3, ReqFields DEF HotWrite
  <2>2. hot' \subseteq Comments /\ faults' \in 0..MaxFaults
    BY <1>0, <1>3, <2>1, WriteType DEF HotWrite
  <2>3. req' \in [Requests -> ReqState]
    BY <1>3, ReqRecords DEF HotWrite, TypeOK
  <2> QED BY <1>0, <1>3, <2>2, <2>3, QuietType DEF HotWrite
<1>11. CASE FindByPostID(r)
  <2>1. Approved \subseteq Comments
    BY DEF Approved
  <2>2. req' \in [Requests -> ReqState]
    BY <1>11, <2>1, ReqRecords DEF FindByPostID, TypeOK
  <2>3. faults' \in 0..MaxFaults
    BY <1>0, <1>11, FaultsType DEF FindByPostID
  <2> QED BY <1>0, <1>11, <2>2, <2>3, QuietType DEF FindByPostID
<1>4. CASE GetCount(r)
  <2>1. req[r].shown \subseteq Comments
    BY <1>0, <1>4, ReqFields DEF GetCount
  <2>2. req' \in [Requests -> ReqState]
    BY <1>0, <1>4, <2>1, ReqRecords DEF GetCount, TypeOK
  <2>3. faults' \in 0..MaxFaults
    BY <1>0, <1>4, FaultsType, MissesType DEF GetCount
  <2> QED BY <1>0, <1>4, <2>2, <2>3, QuietType DEF GetCount
<1>5. CASE CountByPostID(r)
  <2>1. req[r].shown \subseteq Comments
    BY <1>0, <1>5, ReqFields DEF CountByPostID
  <2>n. PICK n \in Nat : n = Cardinality(Approved)
    BY ApprovedCount
  <2>4. [pc |-> "setcount", shown |-> req[r].shown, total |-> n] \in ReqState
    BY <2>1, ReqRecords
  <2>2. req' \in [Requests -> ReqState]
    BY <1>5, <2>n, <2>4, ReqRecords DEF CountByPostID, TypeOK
  <2>3. faults' \in 0..MaxFaults
    BY <1>0, <1>5, FaultsType DEF CountByPostID
  <2> QED BY <1>0, <1>5, <2>2, <2>3, QuietType DEF CountByPostID
<1>6. CASE SetCount(r)
  <2>1. req[r].shown \subseteq Comments /\ req[r].total \in Nat
    BY <1>0, <1>6, ReqFields DEF SetCount
  <2>2. count' \in Nat \cup {None} /\ faults' \in 0..MaxFaults
    BY <1>0, <1>6, <2>1, WriteType DEF SetCount
  <2>3. req' \in [Requests -> ReqState]
    BY <1>6, <2>1, ReqRecords DEF SetCount, TypeOK
  <2> QED BY <1>0, <1>6, <2>2, <2>3, QuietType DEF SetCount
<1>7. CASE SetPage(r)
  <2>1. [cached |-> TRUE, shown |-> req[r].shown, total |-> req[r].total] \in Page
    BY <1>0, <1>7, ReqFields DEF SetPage, Page
  <2>2. page' \in Page /\ faults' \in 0..MaxFaults
    BY <1>0, <1>7, <2>1, WriteType DEF SetPage
  <2>3. req' \in [Requests -> ReqState]
    BY <1>7, ReqRecords DEF SetPage, TypeOK
  <2> QED BY <1>0, <1>7, <2>2, <2>3, QuietType DEF SetPage
<1>8. CASE GetDetail(r)
  <2>1. req[r].todo \subseteq Comments
    BY <1>0, <1>8, ReqFields DEF GetDetail
  <2>2. PICK c \in req[r].todo :
           \/ Ok /\ req' = [req EXCEPT ![r] = NextHot(req[r].todo \ {c})]
           \/ /\ Misses(detail[c] = None)
              /\ req' = [req EXCEPT ![r] = [pc |-> "find", todo |-> req[r].todo \ {c}, c |-> c]]
    BY <1>8 DEF GetDetail
  <2>3. req' \in [Requests -> ReqState]
    BY <2>1, <2>2, ReqRecords DEF TypeOK
  <2>4. faults' \in 0..MaxFaults
    BY <1>0, <2>2, FaultsType, MissesType
  <2> QED BY <1>0, <1>8, <2>3, <2>4, QuietType DEF GetDetail
<1>9. CASE FindDetail(r)
  <2>1. req[r].todo \subseteq Comments /\ req[r].c \in Comments
    BY <1>0, <1>9, ReqFields DEF FindDetail
  <2>2. row[req[r].c] # None => row[req[r].c] \in Status
    BY <1>0, <2>1
  <2>3. req' \in [Requests -> ReqState]
    BY <1>9, <2>1, <2>2, ReqRecords DEF FindDetail, TypeOK
  <2>4. faults' \in 0..MaxFaults
    BY <1>0, <1>9, FaultsType DEF FindDetail
  <2> QED BY <1>0, <1>9, <2>3, <2>4, QuietType DEF FindDetail
<1>10. CASE FillDetail(r)
  <2>1. req[r].todo \subseteq Comments /\ req[r].c \in Comments /\ req[r].status \in Status
    BY <1>0, <1>10, ReqFields DEF FillDetail
  <2>2. detail' \in [Comments -> Status \cup {None}] /\ faults' \in 0..MaxFaults
    BY <1>10, <2>1, WriteDetail DEF FillDetail
  <2>3. req' \in [Requests -> ReqState]
    BY <1>10, <2>1, ReqRecords DEF FillDetail, TypeOK
  <2> QED BY <1>0, <1>10, <2>2, <2>3, QuietType DEF FillDetail
<1> QED BY <1>1, <1>2, <1>3, <1>4, <1>5, <1>6, <1>7, <1>8, <1>9, <1>10, <1>11 DEF Continue

(* What a step of the consumer on the event in hand does to its own state. *)
Move ==
    /\ con' \in ConState
    /\ fetched' = fetched \/ (con' = Idle /\ fetched' = fetched + 1)
    /\ missed' \subseteq 1..Len(log)

LEMMA MoveType ==
    ASSUME TypeOK, con # Idle, Move, UNCHANGED <<kafka, req>>,
           row' \in [Comments -> Status \cup {None}],
           detail' \in [Comments -> Status \cup {None}], hot' \subseteq Comments,
           page' \in Page, count' \in Nat \cup {None}, faults' \in 0..MaxFaults
    PROVE  TypeOK'
<1>1. /\ Len(log) \in Nat /\ fetched \in 0..Len(log) /\ committed \in 0..fetched
      /\ fetched < Len(log)
  BY DEF TypeOK
<1>2. fetched' \in 0..Len(log) /\ committed \in 0..fetched'
  BY <1>1 DEF Move
<1>3. con' # Idle => fetched' < Len(log)
  BY <1>1 DEF Move
<1> QED BY <1>1, <1>2, <1>3 DEF TypeOK, Move, kafka

LEMMA GiveUpType ==
    ASSUME TypeOK, con # Idle, GiveUp \/ Applied \/ UNCHANGED missed
    PROVE  missed' \subseteq 1..Len(log)
  BY CurrentEvent DEF TypeOK, GiveUp, Applied

LEMMA GotoMove ==
    ASSUME TypeOK, con # Idle, Applied \/ UNCHANGED missed,
           NEW pc \in {"insert", "update", "incr", "invpage", "invcount", "invdetail", "zrem", "find"},
           Goto(pc)
    PROVE  Move
<1>1. con.attempt \in 1..MaxRetry
  BY ConFields DEF TypeOK
<1> QED BY <1>1, ConRecords, GiveUpType DEF Goto, Move

LEMMA DoneMove ==
    ASSUME TypeOK, con # Idle, GiveUp \/ UNCHANGED missed, Done
    PROVE  Move
  BY GiveUpType, ConRecords DEF Done, Move

LEMMA EntryPc == ASSUME TypeOK, con # Idle \/ fetched < Len(log)
                 PROVE  Entry \in {"insert", "update", "incr"}
<1>1. Current \in Event
  BY DEF Current, TypeOK
<1> QED BY <1>1, EventFields DEF Entry

LEMMA RetryMove == ASSUME TypeOK, con # Idle, Retry PROVE Move
<1>1. con.attempt \in 1..MaxRetry
  BY ConFields DEF TypeOK
<1>2. CASE con.attempt < MaxRetry /\ con' = At(Entry, con.attempt + 1) /\ UNCHANGED <<fetched, missed>>
  <2>1. con.attempt + 1 \in 1..MaxRetry
    BY <1>1, <1>2, PipelineAssumption
  <2>2. con' \in ConState
    BY <1>2, <2>1, EntryPc, ConRecords
  <2> QED BY <1>2, <2>2 DEF Move, TypeOK
<1>3. CASE con.attempt = MaxRetry /\ Done /\ GiveUp
  BY <1>3, DoneMove
<1> QED BY <1>2, <1>3 DEF Retry

LEMMA WrittenMove == ASSUME TypeOK, con # Idle, RetryWritten PROVE Move
<1>1. con.attempt \in 1..MaxRetry
  BY ConFields DEF TypeOK
<1>2. missed' \subseteq 1..Len(log)
  BY GiveUpType DEF RetryWritten
<1>3. CASE con.attempt < MaxRetry /\ con' = At(Entry, con.attempt + 1) /\ UNCHANGED fetched
  <2>1. con.attempt + 1 \in 1..MaxRetry
    BY <1>1, <1>3, PipelineAssumption
  <2>2. con' \in ConState
    BY <1>3, <2>1, EntryPc, ConRecords
  <2> QED BY <1>2, <1>3, <2>2 DEF Move
<1>4. CASE Done
  BY <1>2, <1>4, ConRecords DEF Done, Move
<1> QED BY <1>3, <1>4 DEF RetryWritten

(* The consumer makes the calls of the handler of the event in hand. *)
LikeCalls == {"incr", "find", "setdetail", "zadd"}

Fits(pc, type) ==
    /\ pc = "insert" => type = "create"
    /\ pc = "update" => type = "update_status"
    /\ pc \in LikeCalls => type = "like"

ConFits == con # Idle => Fits(con.pc, Current.type)

(* The UPDATE gives a row that exists the status of the event. *)
LEMMA StatusApplied ==
    ASSUME TypeOK, ConFits, con # Idle, con.pc = "update",
           row' = [row EXCEPT ![Current.c] = IF @ = None THEN None ELSE Current.status]
    PROVE  /\ row' \in [Comments -> Status \cup {None}]
           /\ row'[Current.c] \in {None, Current.status}
           /\ \A d \in Comments \ {Current.c} : row'[d] = row[d]
<1>1. Current.c \in Comments /\ Current.status \in {"approved", "rejected"}
  BY CurrentEvent, EventFields DEF ConFits, Fits
<1> QED BY <1>1 DEF TypeOK, Status

LEMMA ConsumeType == ASSUME TypeOK, ConFits, Consume PROVE TypeOK'
<1> USE DEF caches
<1>0. /\ con \in ConState
      /\ row \in [Comments -> Status \cup {None}]
      /\ detail \in [Comments -> Status \cup {None}] /\ hot \subseteq Comments
      /\ page \in Page /\ count \in Nat \cup {None} /\ faults \in 0..MaxFaults
  BY DEF TypeOK
<1>a. con # Idle => Current \in Event /\ Current.c \in Comments
  BY CurrentEvent, EventFields
<1>1. CASE Fetch
  <2>1. 1 \in 1..MaxRetry
    BY PipelineAssumption
  <2>2. con' \in ConState
    BY <1>1, <2>1, EntryPc, ConRecords DEF Fetch
  <2> QED BY <1>1, <2>2 DEF Fetch, TypeOK, kafka
<1>2. CASE Insert
  <2>1. con # Idle
    BY <1>0, <1>2, ConFields DEF Insert
  <2>2. Move
    BY <1>2, <2>1, GotoMove, RetryMove, WrittenMove DEF Insert
  <2>3. row' \in [Comments -> Status \cup {None}]
    BY <1>0, <1>2 DEF Insert, Status
  <2>4. faults' \in 0..MaxFaults
    BY <1>0, <1>2, FaultsType DEF Insert
  <2> QED BY <1>0, <1>2, <2>1, <2>2, <2>3, <2>4, MoveType DEF Insert
<1>3. CASE ApplyStatus
  <2>1. con # Idle
    BY <1>0, <1>3, ConFields DEF ApplyStatus
  <2>2. Move
    BY <1>3, <2>1, GotoMove, RetryMove, WrittenMove DEF ApplyStatus
  <2>3. row' \in [Comments -> Status \cup {None}]
    BY <1>0, <1>3, <2>1, StatusApplied DEF ApplyStatus
  <2>4. faults' \in 0..MaxFaults
    BY <1>0, <1>3, FaultsType DEF ApplyStatus
  <2> QED BY <1>0, <1>3, <2>1, <2>2, <2>3, <2>4, MoveType DEF ApplyStatus
<1>4. CASE InvalidatePages
  <2>1. con # Idle
    BY <1>0, <1>4, ConFields DEF InvalidatePages
  <2>2. Move
    BY <1>4, <2>1, GotoMove DEF InvalidatePages
  <2>3. page' \in Page /\ faults' \in 0..MaxFaults
    <3>1. (page' = NoPage \/ page' = page) /\ faults' \in 0..MaxFaults
      BY <1>0, <1>4, FaultsType DEF InvalidatePages, Write
    <3> QED BY <1>0, <3>1 DEF Page
  <2> QED BY <1>0, <1>4, <2>1, <2>2, <2>3, MoveType DEF InvalidatePages
<1>5. CASE InvalidateCount
  <2>1. con # Idle
    BY <1>0, <1>5, ConFields DEF InvalidateCount
  <2>2. Move
    BY <1>5, <2>1, GotoMove DEF InvalidateCount
  <2>3. count' \in Nat \cup {None} /\ faults' \in 0..MaxFaults
    BY <1>0, <1>5, WriteType DEF InvalidateCount
  <2> QED BY <1>0, <1>5, <2>1, <2>2, <2>3, MoveType DEF InvalidateCount
<1>6. CASE InvalidateDetail
  <2>1. con # Idle
    BY <1>0, <1>6, ConFields DEF InvalidateDetail
  <2>2. Move
    BY <1>6, <2>1, GotoMove, DoneMove DEF InvalidateDetail
  <2>3. detail' \in [Comments -> Status \cup {None}] /\ faults' \in 0..MaxFaults
    BY <1>6, <1>a, <2>1, WriteDetail DEF InvalidateDetail
  <2> QED BY <1>0, <1>6, <2>1, <2>2, <2>3, MoveType DEF InvalidateDetail
<1>7. CASE RemoveMember
  <2>1. con # Idle
    BY <1>0, <1>7, ConFields DEF RemoveMember
  <2>2. Move
    BY <1>7, <2>1, DoneMove DEF RemoveMember
  <2>3. hot' \subseteq Comments /\ faults' \in 0..MaxFaults
    BY <1>0, <1>7, WriteType DEF RemoveMember
  <2> QED BY <1>0, <1>7, <2>1, <2>2, <2>3, MoveType DEF RemoveMember
<1>8. CASE IncrLikeCount
  <2>1. con # Idle
    BY <1>0, <1>8, ConFields DEF IncrLikeCount
  <2>2. Move
    BY <1>8, <2>1, GotoMove, RetryMove DEF IncrLikeCount
  <2>3. faults' \in 0..MaxFaults
    BY <1>0, <1>8, FaultsType DEF IncrLikeCount
  <2> QED BY <1>0, <1>8, <2>1, <2>2, <2>3, MoveType DEF IncrLikeCount
<1>9. CASE FindLiked
  <2>1. con # Idle
    BY <1>0, <1>9, ConFields DEF FindLiked
  <2>2. Move
    <3>1. CASE /\ row[Current.c] # None
               /\ con' = [pc |-> "setdetail", attempt |-> con.attempt, status |-> row[Current.c]]
               /\ UNCHANGED <<fetched, missed>>
      <4>1. row[Current.c] \in Status /\ con.attempt \in 1..MaxRetry
        BY <1>0, <1>a, <2>1, <3>1, ConFields
      <4> QED BY <3>1, <4>1, ConRecords DEF Move, TypeOK
    <3> QED BY <1>9, <2>1, <3>1, DoneMove, RetryMove DEF FindLiked
  <2>3. faults' \in 0..MaxFaults
    BY <1>0, <1>9, FaultsType DEF FindLiked
  <2> QED BY <1>0, <1>9, <2>1, <2>2, <2>3, MoveType DEF FindLiked
<1>10. CASE SetLikedDetail
  <2>1. con # Idle /\ con.status \in Status
    BY <1>0, <1>10, ConFields DEF SetLikedDetail
  <2>2. con' = [pc |-> "zadd", attempt |-> con.attempt, status |-> con.status]
    <3>1. con = [pc |-> con.pc, attempt |-> con.attempt, status |-> con.status]
      BY <1>0, <1>10, ConFields DEF SetLikedDetail
    <3> QED BY <1>10, <3>1 DEF SetLikedDetail
  <2>3. Move
    <3>1. con.attempt \in 1..MaxRetry
      BY <1>0, <2>1, ConFields
    <3>2. con' \in ConState
      BY <2>1, <2>2, <3>1, ConRecords
    <3>3. UNCHANGED <<fetched, missed>>
      BY <1>10 DEF SetLikedDetail
    <3> QED BY <3>2, <3>3 DEF Move, TypeOK
  <2>4. detail' \in [Comments -> Status \cup {None}] /\ faults' \in 0..MaxFaults
    BY <1>10, <1>a, <2>1, WriteDetail DEF SetLikedDetail
  <2> QED BY <1>0, <1>10, <2>1, <2>3, <2>4, MoveType DEF SetLikedDetail
<1>11. CASE UpdateScore
  <2>1. con # Idle
    BY <1>0, <1>11, ConFields DEF UpdateScore
  <2>2. Move
    BY <1>11, <2>1, DoneMove DEF UpdateScore
  <2>3. hot' \subseteq Comments /\ faults' \in 0..MaxFaults
    BY <1>0, <1>11, <1>a, <2>1, WriteType DEF UpdateScore
  <2> QED BY <1>0, <1>11, <2>1, <2>2, <2>3, MoveType DEF UpdateScore
<1> QED BY <1>1, <1>2, <1>3, <1>4, <1>5, <1>6, <1>7, <1>8, <1>9, <1>10, <1>11 DEF Consume

LEMMA OtherType ==
    ASSUME TypeOK,
           \/ Crash \/ Shutdown
           \/ \E c \in Comments : ExpireDetail(c)
           \/ ExpirePage \/ ExpireCount
    PROVE  TypeOK'
<1> USE DEF caches, kafka
<1>2. CASE Crash
  <2>1. faults' \in 0..MaxFaults
    BY <1>2, FaultsType DEF Crash, TypeOK
  <2>2. committed' \in 0..Len(log)
    BY <1>2 DEF Crash, Flushed, TypeOK
  <2> QED BY <1>2, <2>1, <2>2, ReqRecords, ConRecords DEF Crash, Restart, TypeOK
<1>3. CASE Shutdown
  <2>1. faults' \in 0..MaxFaults
    BY <1>3, FaultsType DEF Shutdown, TypeOK
  <2>2. committed' \in 0..Len(log) /\ missed' \subseteq 1..Len(log)
    <3>1. CASE committed' \in Flushed /\ UNCHANGED missed
      BY <3>1 DEF Flushed, TypeOK
    <3>2. CASE con # Idle /\ committed' = fetched + 1 /\ GiveUp
      BY <3>2, GiveUpType DEF TypeOK
    <3> QED BY <1>3, <3>1, <3>2 DEF Shutdown
  <2> QED BY <1>3, <2>1, <2>2, ReqRecords, ConRecords DEF Shutdown, Restart, TypeOK
<1>4. CASE \E c \in Comments : ExpireDetail(c)
  BY <1>4 DEF ExpireDetail, TypeOK
<1>5. CASE ExpirePage
  BY <1>5 DEF ExpirePage, TypeOK, Page
<1>6. CASE ExpireCount
  BY <1>6 DEF ExpireCount, TypeOK
<1> QED BY <1>2, <1>3, <1>4, <1>5, <1>6

(* The event in hand is the same one after a step that leaves the offset alone. *)
LEMMA SameEvent ==
    ASSUME TypeOK, Grows \/ UNCHANGED log, UNCHANGED fetched, fetched < Len(log)
    PROVE  Current' = Current
<1>1. fetched + 1 \in 1..Len(log)
  BY DEF TypeOK
<1> QED BY <1>1 DEF Grows, Current

LEMMA FitsEntry == ASSUME TypeOK, fetched < Len(log) PROVE Fits(Entry, Current.type)
<1>1. Current \in Event
  BY DEF Current, TypeOK
<1> QED BY <1>1, EventFields DEF Entry, Fits, LikeCalls

(* The steps that send the consumer to another call. *)
LEMMA FitsMove ==
    ASSUME TypeOK, ConFits, con # Idle, UNCHANGED log,
           \/ Done \/ Retry \/ RetryWritten
           \/ \E pc \in {"invpage", "invcount", "invdetail", "zrem"} : Goto(pc)
           \/ UNCHANGED fetched /\ con.pc \in LikeCalls /\ con'.pc \in LikeCalls
    PROVE  ConFits'
<1>1. fetched < Len(log)
  BY DEF TypeOK
<1>2. CASE Done
  BY <1>2 DEF Done, ConFits
<1>3. CASE Retry \/ RetryWritten
  BY <1>1, <1>2, <1>3, FitsEntry, SameEvent DEF Retry, RetryWritten, At, ConFits
<1>4. CASE UNCHANGED fetched /\ con.pc \in LikeCalls /\ con'.pc \in LikeCalls
  BY <1>1, <1>4, SameEvent DEF ConFits, Fits, LikeCalls
<1>5. CASE \E pc \in {"invpage", "invcount", "invdetail", "zrem"} : Goto(pc)
  BY <1>5 DEF Goto, At, ConFits, Fits, LikeCalls
<1> QED BY <1>2, <1>3, <1>4, <1>5

LEMMA FitsConsume == ASSUME TypeOK, ConFits, Consume PROVE ConFits'
<1> USE DEF kafka
<1>1. CASE Fetch
  BY <1>1, FitsEntry, SameEvent DEF Fetch, At, ConFits, Idle
<1>2. CASE con # Idle /\ (Insert \/ ApplyStatus)
  BY <1>2, FitsMove DEF Insert, ApplyStatus
<1>3. CASE con # Idle /\ (InvalidatePages \/ InvalidateCount \/ InvalidateDetail \/ RemoveMember)
  BY <1>3, FitsMove DEF InvalidatePages, InvalidateCount, InvalidateDetail, RemoveMember
<1>4. CASE con # Idle /\ (IncrLikeCount \/ UpdateScore)
  BY <1>4, FitsMove DEF IncrLikeCount, UpdateScore, Goto, At, LikeCalls
<1>5. CASE con # Idle /\ FindLiked
  BY <1>5, FitsMove DEF FindLiked, LikeCalls
<1>6. CASE con # Idle /\ SetLikedDetail
  <2>1. con'.pc = "zadd"
    BY <1>6, ConFields DEF SetLikedDetail, TypeOK
  <2> QED BY <1>6, <2>1, FitsMove DEF SetLikedDetail, LikeCalls
<1> QED BY <1>1, <1>2, <1>3, <1>4, <1>5, <1>6, ConFields DEF Consume, TypeOK, Idle, Insert,
         ApplyStatus, InvalidatePages, InvalidateCount, InvalidateDetail, RemoveMember,
         IncrLikeCount, FindLiked, SetLikedDetail, UpdateScore

LEMMA FitsOther ==
    ASSUME TypeOK, ConFits, Grows \/ UNCHANGED log,
           UNCHANGED <<fetched, con>> \/ Restart
    PROVE  ConFits'
<1>1. CASE Restart
  BY <1>1 DEF Restart, ConFits
<1>2. CASE UNCHANGED <<fetched, con>>
  BY <1>2, SameEvent DEF ConFits, TypeOK
<1> QED BY <1>1, <1>2

(* Only a request publishes; only the consumer and a restart touch its state. *)
LEMMA StartGrows ==
    ASSUME TypeOK, NEW r \in Requests, Start(r)
    PROVE  (Grows \/ UNCHANGED log) /\ UNCHANGED <<row, caches, fetched, con>>
<1>1. CASE Submit(r)
  <2>1. PICK c \in Comments :
           LET e == [type |-> "create", c |-> c]
           IN Publish(e) \/ (log' = Append(log, e))
    BY <1>1 DEF Submit
  <2>2. [type |-> "create", c |-> c] \in Event
    BY DEF Event
  <2> QED BY <1>1, <2>1, <2>2, PublishGrows, AppendGrows DEF Submit, TypeOK
<1>2. CASE UpdateStatus
  <2>1. PICK c \in Comments, status \in {"approved", "rejected"} :
           Publish([type |-> "update_status", c |-> c, status |-> status])
    BY <1>2 DEF UpdateStatus
  <2>2. [type |-> "update_status", c |-> c, status |-> status] \in Event
    BY DEF Event
  <2> QED BY <1>2, <2>1, <2>2, PublishGrows DEF UpdateStatus
<1>3. CASE Like(r)
  <2>1. PICK c \in Comments : Publish([type |-> "like", c |-> c]) \/ UNCHANGED log
    BY <1>3 DEF Like
  <2>2. [type |-> "like", c |-> c] \in Event
    BY DEF Event
  <2> QED BY <1>3, <2>1, <2>2, PublishGrows DEF Like
<1>4. CASE ListComments(r) \/ GetHotComments(r)
  BY <1>4 DEF ListComments, GetHotComments, kafka
<1> QED BY <1>1, <1>2, <1>3, <1>4 DEF Start

LEMMA FitsStep == ASSUME TypeOK, ConFits, [Next]_vars PROVE ConFits'
<1> USE DEF kafka
<1>1. CASE UNCHANGED vars
  BY <1>1, FitsOther DEF vars
<1>2. CASE \E r \in Requests : Start(r)
  BY <1>2, StartGrows, FitsOther
<1>3. CASE \E r \in Requests : Continue(r)
  BY <1>3, FitsOther
     DEF Continue, SetPending, HotRead, HotWrite, FindByPostID, GetCount, CountByPostID, SetCount, SetPage,
         GetDetail, FindDetail, FillDetail
<1>4. CASE Consume
  BY <1>4, FitsConsume
<1>5. CASE Crash \/ Shutdown
  BY <1>5, FitsOther DEF Crash, Shutdown, Restart
<1>6. CASE (\E c \in Comments : ExpireDetail(c)) \/ ExpirePage \/ ExpireCount
  BY <1>6, FitsOther DEF ExpireDetail, ExpirePage, ExpireCount
<1> QED BY <1>1, <1>2, <1>3, <1>4, <1>5, <1>6 DEF Next

Typed == TypeOK /\ ConFits

LEMMA TypedInit == Init => Typed
  BY TypeInit DEF Init, Typed, ConFits

LEMMA TypedStep == ASSUME Typed, [Next]_vars PROVE Typed'
<1>1. CASE UNCHANGED vars
  BY <1>1 DEF Typed, TypeOK, ConFits, Current, vars, caches, kafka
<1>2. CASE Next
  BY <1>2, StartType, ContinueType, ConsumeType, OtherType, FitsStep DEF Next, Typed
<1> QED BY <1>1, <1>2

(* TypeOK for every value of the constants: the records of the requests and  *)
(* of the consumer, and the order committed <= fetched <= length of the log. *)
THEOREM TypeCorrect == Spec => []TypeOK
<1>1. Typed => TypeOK
  BY DEF Typed
<1> QED BY <1>1, TypedInit, TypedStep, PTL DEF Spec

-------------------------------------------------------------------------------
(* NothingUnapproved.  It becomes inductive with the status the consumer is   *)
(* about to write into the detail cache.                                      *)

ReqHides(c, r) ==
    /\ req[r].pc \in {"getcount", "countquery", "setcount", "setpage"} => c \notin req[r].shown
    /\ req[r].pc = "fill" /\ req[r].c = c => req[r].status # "approved"

ConHides(c) == con.pc = "setdetail" /\ Current.c = c => con.status # "approved"

PageHides(c) == page # NoPage => c \notin page.shown

Hidden(c) ==
    /\ row[c] # "approved" /\ detail[c] # "approved"
    /\ PageHides(c) /\ ConHides(c)
    /\ \A r \in Requests : ReqHides(c, r)

UnapprovedHidden == \A c \in Comments : ~ApprovedOnce(c) => Hidden(c)

LEMMA HiddenInit == Init => UnapprovedHidden
  BY PipelineAssumption
     DEF Init, UnapprovedHidden, Hidden, PageHides, ConHides, ReqHides, Idle

(* An approval stays in the log. *)
LEMMA ApprovalStays ==
    ASSUME TypeOK, Grows \/ UNCHANGED log, NEW c \in Comments, ApprovedOnce(c)
    PROVE  ApprovedOnce(c)'
<1>1. CASE UNCHANGED log
  BY <1>1 DEF ApprovedOnce
<1>2. CASE Grows
  <2>1. PICK i \in DOMAIN log :
           log[i] = [type |-> "update_status", c |-> c, status |-> "approved"]
    BY DEF ApprovedOnce
  <2>2. i \in 1..Len(log) /\ Len(log) \in Nat /\ Len(log') \in Nat
    BY <1>2 DEF TypeOK, Grows
  <2>3. i \in DOMAIN log' /\ log'[i] = log[i]
    BY <1>2, <2>2 DEF Grows
  <2> QED BY <2>1, <2>3 DEF ApprovedOnce
<1> QED BY <1>1, <1>2

LEMMA ConStays ==
    ASSUME TypeOK, Grows \/ UNCHANGED log, UNCHANGED <<fetched, con>>,
           NEW c \in Comments, ConHides(c)
    PROVE  ConHides(c)'
<1>1. CASE con = Idle
  BY <1>1 DEF ConHides, Idle
<1>2. CASE con # Idle
  <2>1. fetched < Len(log)
    BY <1>2 DEF TypeOK
  <2> QED BY <2>1, SameEvent DEF ConHides
<1> QED BY <1>1, <1>2

LEMMA StartHides ==
    ASSUME TypeOK, NEW c \in Comments, Hidden(c), NEW r \in Requests, Start(r)
    PROVE  Hidden(c)'
<1>1. ConHides(c)' /\ PageHides(c)' /\ row'[c] # "approved" /\ detail'[c] # "approved"
  BY StartGrows, ConStays DEF Hidden, PageHides, caches
<1>2. ASSUME NEW s \in Requests PROVE ReqHides(c, s)'
  <2>1. ReqHides(c, s) /\ req \in [Requests -> ReqState]
    BY DEF Hidden, TypeOK
  <2>2. CASE Submit(r)
    BY <2>1, <2>2 DEF Submit, ReqHides
  <2>3. CASE UpdateStatus
    BY <2>1, <2>3 DEF UpdateStatus, ReqHides
  <2>4. CASE Like(r)
    BY <2>1, <2>4 DEF Like, ReqHides
  <2>5. CASE ListComments(r)
    BY <2>1, <2>5 DEF ListComments, ReqHides
  <2>6. CASE GetHotComments(r)
    BY <2>1, <2>6 DEF GetHotComments, NextHot, Idle, ReqHides
  <2> QED BY <2>2, <2>3, <2>4, <2>5, <2>6 DEF Start
<1> QED BY <1>1, <1>2 DEF Hidden

LEMMA ContinueHides ==
    ASSUME TypeOK, NEW c \in Comments, Hidden(c), NEW r \in Requests, Continue(r)
    PROVE  Hidden(c)'
<1> USE DEF caches, kafka
<1>0. /\ req \in [Requests -> ReqState] /\ req[r] \in ReqState
      /\ row[c] # "approved" /\ detail[c] # "approved"
      /\ ReqHides(c, r)
  BY DEF Hidden, TypeOK
<1>1. row' = row /\ UNCHANGED <<log, fetched, con>>
  BY DEF Continue, SetPending, HotRead, HotWrite, FindByPostID, GetCount, CountByPostID,
         SetCount, SetPage, GetDetail, FindDetail, FillDetail
<1>2. ConHides(c)'
  BY <1>1, ConStays DEF Hidden
<1>3. detail'[c] # "approved"
  <2>1. CASE SetPending(r)
    <3>1. req[r].c \in Comments
      BY <1>0, <2>1, ReqFields DEF SetPending
    <3> QED BY <1>0, <2>1, <3>1, WriteDetail DEF SetPending, Status
  <2>2. CASE FillDetail(r)
    <3>1. req[r].c \in Comments /\ req[r].status \in Status
      BY <1>0, <2>2, ReqFields DEF FillDetail
    <3> QED BY <1>0, <2>2, <3>1, WriteDetail DEF FillDetail, ReqHides
  <2>3. CASE UNCHANGED detail
    BY <1>0, <2>3
  <2> QED BY <2>1, <2>2, <2>3
          DEF Continue, HotRead, HotWrite, FindByPostID, GetCount, CountByPostID, SetCount, SetPage, GetDetail,
              FindDetail
<1>4. PageHides(c)'
  <2>1. CASE SetPage(r)
    <3>1. c \notin req[r].shown
      BY <1>0, <2>1 DEF SetPage, ReqHides
    <3>2. \/ page' = [cached |-> TRUE, shown |-> req[r].shown, total |-> req[r].total]
          \/ page' = page
      BY <2>1 DEF SetPage, Write
    <3> QED BY <3>1, <3>2 DEF PageHides, Hidden
  <2>2. CASE UNCHANGED page
    BY <2>2 DEF PageHides, Hidden
  <2> QED BY <2>1, <2>2
          DEF Continue, SetPending, HotRead, HotWrite, FindByPostID, GetCount, CountByPostID, SetCount, GetDetail,
              FindDetail, FillDetail
<1>5. ASSUME NEW s \in Requests PROVE ReqHides(c, s)'
  <2>1. CASE s # r
    <3>1. req'[s] = req[s]
      BY <1>0, <2>1
         DEF Continue, SetPending, HotRead, HotWrite, FindByPostID, GetCount, CountByPostID, SetCount, SetPage,
             GetDetail, FindDetail, FillDetail
    <3> QED BY <3>1 DEF Hidden, ReqHides
  <2>2. CASE s = r
    <3>1. CASE SetPending(r) \/ HotWrite(r) \/ SetPage(r) \/ FillDetail(r)
      BY <1>0, <2>2, <3>1
         DEF SetPending, HotWrite, SetPage, FillDetail, NextHot, Idle, ReqHides
    <3>2. CASE HotRead(r)
      BY <1>0, <2>2, <3>2 DEF HotRead, Idle, ReqHides
    <3>8. CASE FindByPostID(r)
      <4>1. c \notin Approved
        BY <1>0 DEF Approved
      <4> QED BY <1>0, <2>2, <3>8, <4>1 DEF FindByPostID, Idle, ReqHides
    <3>3. CASE GetCount(r)
      BY <1>0, <2>2, <3>3 DEF GetCount, ReqHides
    <3>4. CASE CountByPostID(r)
      BY <1>0, <2>2, <3>4 DEF CountByPostID, Idle, ReqHides
    <3>5. CASE SetCount(r)
      BY <1>0, <2>2, <3>5 DEF SetCount, ReqHides
    <3>6. CASE GetDetail(r)
      BY <1>0, <2>2, <3>6 DEF GetDetail, NextHot, Idle, ReqHides
    <3>7. CASE FindDetail(r)
      BY <1>0, <2>2, <3>7 DEF FindDetail, NextHot, Idle, ReqHides
    <3> QED BY <3>1, <3>2, <3>3, <3>4, <3>5, <3>6, <3>7, <3>8 DEF Continue
  <2> QED BY <2>1, <2>2
<1> QED BY <1>0, <1>1, <1>2, <1>3, <1>4, <1>5 DEF Hidden

(* The consumer writes "approved" into MySQL only for an approval in the log. *)
LEMMA ApprovalInHand ==
    ASSUME TypeOK, ConFits, con # Idle, con.pc = "update", Current.status = "approved"
    PROVE  ApprovedOnce(Current.c)
  BY CurrentEvent, EventFields DEF ConFits, Fits, ApprovedOnce

(* The consumer leaves behind another pc than "setdetail". *)
LEMMA MoveHides ==
    ASSUME \/ Done \/ Retry \/ RetryWritten
           \/ \E pc \in {"invpage", "invcount", "invdetail", "zrem", "find"} : Goto(pc),
           TypeOK, con # Idle, NEW c
    PROVE  ConHides(c)'
<1>1. Entry # "setdetail"
  BY EntryPc
<1> QED BY <1>1 DEF Done, Retry, RetryWritten, Goto, At, Idle, ConHides

LEMMA ConsumeHides ==
    ASSUME TypeOK, ConFits, NEW c \in Comments, ~ApprovedOnce(c), Hidden(c), Consume
    PROVE  Hidden(c)'
<1> USE DEF caches, kafka
<1>0. /\ con \in ConState /\ UNCHANGED <<log, req>>
      /\ row[c] # "approved" /\ detail[c] # "approved" /\ PageHides(c) /\ ConHides(c)
      /\ row \in [Comments -> Status \cup {None}]
  BY DEF Hidden, TypeOK, Consume, Fetch, Insert, ApplyStatus, InvalidatePages, InvalidateCount,
         InvalidateDetail, RemoveMember, IncrLikeCount, FindLiked, SetLikedDetail, UpdateScore
<1>1. \A r \in Requests : ReqHides(c, r)'
  BY <1>0 DEF Hidden, ReqHides
<1>2. ~Fetch => con # Idle
  BY <1>0, ConFields
     DEF Consume, Insert, ApplyStatus, InvalidatePages, InvalidateCount, InvalidateDetail,
         RemoveMember, IncrLikeCount, FindLiked, SetLikedDetail, UpdateScore
<1>a. con # Idle => Current \in Event /\ Current.c \in Comments
  BY CurrentEvent, EventFields
<1>3. row'[c] # "approved"
  <2>1. CASE Insert
    BY <1>0, <2>1 DEF Insert
  <2>2. CASE ApplyStatus
    <3>1. con # Idle /\ con.pc = "update"
      BY <1>0, <2>2, ConFields DEF ApplyStatus
    <3>2. CASE row' = row
      BY <1>0, <3>2
    <3>3. CASE row' = [row EXCEPT ![Current.c] = IF @ = None THEN None ELSE Current.status]
      <4>1. CASE Current.c = c
        <5>1. Current.status # "approved"
          BY <3>1, <4>1, ApprovalInHand
        <5> QED BY <3>1, <3>3, <4>1, <5>1, StatusApplied, PipelineAssumption, NoneStatus
      <4>2. CASE Current.c # c
        BY <1>0, <3>1, <3>3, <4>2, StatusApplied
      <4> QED BY <4>1, <4>2
    <3> QED BY <2>2, <3>2, <3>3 DEF ApplyStatus
  <2>3. CASE UNCHANGED row
    BY <1>0, <2>3
  <2> QED BY <2>1, <2>2, <2>3
          DEF Consume, Fetch, InvalidatePages, InvalidateCount, InvalidateDetail, RemoveMember,
              IncrLikeCount, FindLiked, SetLikedDetail, UpdateScore
<1>4. detail'[c] # "approved"
  <2>1. CASE InvalidateDetail
    <3>1. con # Idle
      BY <1>0, <2>1, ConFields DEF InvalidateDetail
    <3> QED BY <1>0, <1>a, <2>1, <3>1, WriteDetail, NoneStatus DEF InvalidateDetail
  <2>2. CASE SetLikedDetail
    <3>1. con # Idle /\ con.status \in Status /\ con.pc = "setdetail"
      BY <1>0, <2>2, ConFields DEF SetLikedDetail
    <3> QED BY <1>0, <1>a, <2>2, <3>1, WriteDetail DEF SetLikedDetail, ConHides
  <2>3. CASE UNCHANGED detail
    BY <1>0, <2>3
  <2> QED BY <2>1, <2>2, <2>3
          DEF Consume, Fetch, Insert, ApplyStatus, InvalidatePages, InvalidateCount, RemoveMember,
              IncrLikeCount, FindLiked, UpdateScore
<1>5. PageHides(c)'
  <2>1. page' = NoPage \/ page' = page
    BY DEF Consume, Fetch, Insert, ApplyStatus, InvalidatePages, InvalidateCount,
           InvalidateDetail, RemoveMember, IncrLikeCount, FindLiked, SetLikedDetail, UpdateScore,
               Write
  <2> QED BY <1>0, <2>1 DEF PageHides
<1>6. ConHides(c)'
  <2>1. CASE Fetch
    <3>1. Entry # "setdetail"
      BY <2>1, EntryPc DEF Fetch
    <3> QED BY <2>1, <3>1 DEF Fetch, At, ConHides
  <2>2. CASE Insert \/ ApplyStatus
    BY <1>2, <2>2, MoveHides DEF Insert, ApplyStatus, Fetch, Idle
  <2>3. CASE InvalidatePages \/ InvalidateCount \/ InvalidateDetail \/ RemoveMember
    BY <1>2, <2>3, MoveHides
       DEF InvalidatePages, InvalidateCount, InvalidateDetail, RemoveMember, Fetch, Idle
  <2>4. CASE IncrLikeCount \/ UpdateScore
    BY <1>2, <2>4, MoveHides DEF IncrLikeCount, UpdateScore, Fetch, Idle
  <2>5. CASE FindLiked
    <3>1. CASE /\ UNCHANGED fetched
               /\ con' = [pc |-> "setdetail", attempt |-> con.attempt, status |-> row[Current.c]]
      BY <1>0, <3>1 DEF ConHides, Current
    <3>2. CASE Done \/ Retry
      BY <1>2, <2>5, <3>2, MoveHides DEF FindLiked, Fetch, Idle
    <3> QED BY <2>5, <3>1, <3>2 DEF FindLiked
  <2>6. CASE SetLikedDetail
    <3>1. con'.pc = "zadd"
      BY <1>0, <2>6, ConFields DEF SetLikedDetail
    <3> QED BY <3>1 DEF ConHides
  <2> QED BY <2>1, <2>2, <2>3, <2>4, <2>5, <2>6 DEF Consume
<1> QED BY <1>1, <1>3, <1>4, <1>5, <1>6 DEF Hidden

LEMMA OtherHides ==
    ASSUME TypeOK, NEW c \in Comments, Hidden(c),
           \/ Crash \/ Shutdown
           \/ \E d \in Comments : ExpireDetail(d)
           \/ ExpirePage \/ ExpireCount
    PROVE  Hidden(c)'
<1> USE DEF caches, kafka
<1>1. CASE Crash \/ Shutdown
  BY <1>1 DEF Crash, Shutdown, Restart, Hidden, PageHides, ConHides, ReqHides, Idle
<1>2. CASE ExpireCount
  BY <1>2 DEF ExpireCount, Hidden, PageHides, ConHides, ReqHides, Current
<1>3. CASE ExpirePage
  BY <1>3 DEF ExpirePage, Hidden, PageHides, ConHides, ReqHides, Current
<1>4. CASE \E d \in Comments : ExpireDetail(d)
  <2>1. detail'[c] # "approved"
    BY <1>4, NoneStatus DEF ExpireDetail, Hidden, TypeOK
  <2> QED BY <1>4, <2>1 DEF ExpireDetail, Hidden, PageHides, ConHides, ReqHides, Current
<1> QED BY <1>1, <1>2, <1>3, <1>4

LEMMA NextGrows == ASSUME TypeOK, [Next]_vars PROVE Grows \/ UNCHANGED log
<1>1. CASE \E r \in Requests : Start(r)
  BY <1>1, StartGrows
<1>2. CASE \A r \in Requests : ~Start(r)
  BY <1>2
     DEF vars, kafka, Next, Continue, SetPending, HotRead, HotWrite, FindByPostID, GetCount,
         CountByPostID, SetCount, SetPage, GetDetail, FindDetail, FillDetail, Consume, Fetch,
         Insert, ApplyStatus, InvalidatePages, InvalidateCount, InvalidateDetail, RemoveMember,
         IncrLikeCount, FindLiked, SetLikedDetail, UpdateScore, Crash, Shutdown, Restart,
         ExpireDetail, ExpirePage, ExpireCount
<1> QED BY <1>1, <1>2

LEMMA HiddenStep ==
    ASSUME Typed, UnapprovedHidden, [Next]_vars
    PROVE  UnapprovedHidden'
<1> SUFFICES ASSUME NEW c \in Comments, ~ApprovedOnce(c)'
             PROVE  Hidden(c)'
  BY DEF UnapprovedHidden
<1> USE DEF Typed, caches, kafka
<1>1. CASE UNCHANGED vars
  BY <1>1 DEF vars, UnapprovedHidden, ApprovedOnce, Hidden, PageHides, ConHides, ReqHides, Current
<1>2. CASE Next
  <2>2. ~ApprovedOnce(c) /\ Hidden(c)
    BY NextGrows, ApprovalStays DEF UnapprovedHidden
  <2> QED BY <1>2, <2>2, StartHides, ContinueHides, ConsumeHides, OtherHides DEF Next
<1> QED BY <1>1, <1>2

(* The totals.  The comments an admin approved only grow in number, and a     *)
(* total that is read from MySQL counts none but them.                        *)

AdminApproved == {c \in Comments : ApprovedOnce(c)}

TotalsCovered ==
    /\ count # None => count <= Cardinality(AdminApproved)
    /\ page # NoPage => page.total <= Cardinality(AdminApproved)
    /\ \A r \in Requests :
          req[r].pc \in {"setcount", "setpage"} => req[r].total <= Cardinality(AdminApproved)

LEMMA TotalsInit == Init => TotalsCovered
  BY DEF Init, TotalsCovered, Idle

LEMMA CommentCount ==
    ASSUME NEW S, S \subseteq Comments, NEW T, T \subseteq S
    PROVE  /\ Cardinality(S) \in Nat /\ Cardinality(T) \in Nat
           /\ Cardinality(T) <= Cardinality(S)
  BY PipelineAssumption, FS_Subset, FS_CardinalityType

LEMMA AdminGrows ==
    ASSUME TypeOK, [Next]_vars
    PROVE  /\ Cardinality(AdminApproved) \in Nat /\ Cardinality(AdminApproved)' \in Nat
           /\ Cardinality(AdminApproved) <= Cardinality(AdminApproved)'
<1>1. PICK S : S = AdminApproved
  OBVIOUS
<1>2. PICK T : T = AdminApproved'
  OBVIOUS
<1>3. S \subseteq Comments /\ T \subseteq Comments
  BY <1>1, <1>2 DEF AdminApproved
<1>4. S \subseteq T
  BY <1>1, <1>2, NextGrows, ApprovalStays DEF AdminApproved
<1>5. Cardinality(S) \in Nat /\ Cardinality(T) \in Nat /\ Cardinality(S) <= Cardinality(T)
  BY ONLY <1>3, <1>4, CommentCount
<1> QED BY <1>1, <1>2, <1>5

(* A count that MySQL answers. *)
LEMMA CountCovered ==
    ASSUME TypeOK, UnapprovedHidden
    PROVE  Cardinality(Approved) <= Cardinality(AdminApproved)
<1>1. Approved \subseteq AdminApproved /\ AdminApproved \subseteq Comments
  BY DEF Approved, AdminApproved, UnapprovedHidden, Hidden
<1> QED BY <1>1, CommentCount

LEMMA TotalsStep ==
    ASSUME Typed, UnapprovedHidden, TotalsCovered, [Next]_vars
    PROVE  TotalsCovered'
<1> USE DEF caches, kafka
<1>0. /\ TypeOK /\ req \in [Requests -> ReqState] /\ page \in Page /\ count \in Nat \cup {None}
      /\ None \notin Nat
  BY PipelineAssumption DEF Typed, TypeOK
<1>n. PICK n \in Nat : n = Cardinality(AdminApproved)
  BY <1>0, AdminGrows
<1>m. PICK m \in Nat : m = Cardinality(AdminApproved)' /\ n <= m
  BY <1>0, <1>n, AdminGrows
<1>1. /\ count # None => count \in Nat /\ count <= n
      /\ page # NoPage => page.total \in Nat /\ page.total <= n
      /\ \A r \in Requests :
            req[r].pc \in {"setcount", "setpage"} => req[r].total \in Nat /\ req[r].total <= n
  BY <1>0, <1>n, ReqFields DEF TotalsCovered, Page
<1>2. count' # None => count' \in Nat /\ count' <= n
  <2>1. ASSUME NEW r \in Requests, SetCount(r) PROVE count' \in {req[r].total, count}
    BY <2>1 DEF SetCount, Write
  <2>2. CASE \E r \in Requests : SetCount(r)
    BY <1>1, <2>1, <2>2 DEF SetCount
  <2>3. CASE count' \in {count, None}
    BY <1>1, <2>3
  <2>4. CASE Consume
    BY <2>3, <2>4
       DEF Consume, Fetch, Insert, ApplyStatus, InvalidatePages, InvalidateCount, InvalidateDetail,
           RemoveMember, IncrLikeCount, FindLiked, SetLikedDetail, UpdateScore, Write
  <2> QED BY <2>2, <2>3, <2>4
          DEF vars, Next, Start, Submit, UpdateStatus, Like, ListComments, GetHotComments, Continue,
              SetPending, HotRead, HotWrite, FindByPostID, GetCount, CountByPostID, SetPage,
              GetDetail, FindDetail, FillDetail, Crash, Shutdown, Restart, ExpireDetail, ExpirePage,
              ExpireCount
<1>3. page' # NoPage => page'.total \in Nat /\ page'.total <= n
  <2>1. ASSUME NEW r \in Requests, SetPage(r)
        PROVE  page' = page \/ page'.total = req[r].total
    BY <2>1 DEF SetPage, Write
  <2>2. CASE \E r \in Requests : SetPage(r)
    BY <1>1, <2>1, <2>2 DEF SetPage
  <2>3. CASE page' \in {page, NoPage}
    BY <1>1, <2>3
  <2>4. CASE Consume
    BY <2>3, <2>4
       DEF Consume, Fetch, Insert, ApplyStatus, InvalidatePages, InvalidateCount, InvalidateDetail,
           RemoveMember, IncrLikeCount, FindLiked, SetLikedDetail, UpdateScore, Write
  <2> QED BY <2>2, <2>3, <2>4
          DEF vars, Next, Start, Submit, UpdateStatus, Like, ListComments, GetHotComments, Continue,
              SetPending, HotRead, HotWrite, FindByPostID, GetCount, CountByPostID, SetCount,
              GetDetail, FindDetail, FillDetail, Crash, Shutdown, Restart, ExpireDetail, ExpirePage,
              ExpireCount
<1>4. ASSUME NEW r \in Requests, req'[r].pc \in {"setcount", "setpage"}
      PROVE  req'[r].total \in Nat /\ req'[r].total <= n
  <2>1. CASE req'[r] = req[r]
    BY <1>1, <1>4, <2>1
  <2>2. CASE GetCount(r)
    <3>1. count # None /\ req'[r].total = count
      BY <1>0, <1>4, <2>2 DEF GetCount
    <3> QED BY <1>1, <3>1
  <2>3. CASE CountByPostID(r)
    <3>1. req'[r].total = Cardinality(Approved)
      BY <1>0, <1>4, <2>3 DEF CountByPostID, Idle
    <3> QED BY <1>0, <1>n, <3>1, CountCovered, ApprovedCount
  <2>4. CASE SetCount(r)
    <3>1. req[r].pc = "setcount" /\ req'[r].total = req[r].total
      BY <1>0, <2>4 DEF SetCount
    <3> QED BY <1>1, <3>1
  <2>5. ASSUME NEW s \in Requests, Start(s) PROVE req'[r] = req[r]
    <3>1. CASE r # s \/ UpdateStatus
      BY <1>0, <2>5, <3>1
         DEF Start, Submit, UpdateStatus, Like, ListComments, GetHotComments
    <3>2. CASE r = s /\ Submit(s)
      <4>1. \/ req' = req
            \/ \E c \in Comments : req' = [req EXCEPT ![r] = [pc |-> "setpending", c |-> c]]
        BY <3>2 DEF Submit
      <4> QED BY <1>0, <1>4, <4>1
    <3>4. CASE r = s /\ Like(s)
      BY <1>0, <1>4, <3>4 DEF Like
    <3>5. CASE r = s /\ ListComments(s)
      BY <1>0, <1>4, <3>5 DEF ListComments
    <3>3. CASE r = s /\ GetHotComments(s)
      BY <1>0, <1>4, <3>3 DEF GetHotComments, NextHot, Idle
    <3> QED BY <2>5, <3>1, <3>2, <3>3, <3>4, <3>5 DEF Start
  <2>6. ASSUME NEW s \in Requests, Continue(s)
        PROVE  \/ req'[r] = req[r]
               \/ GetCount(r) \/ CountByPostID(r) \/ SetCount(r)
    BY <1>0, <1>4, <2>6
       DEF Continue, SetPending, HotRead, HotWrite, FindByPostID, GetCount, CountByPostID, SetCount,
           SetPage, GetDetail, FindDetail, FillDetail, NextHot, Idle
  <2>7. CASE Consume
    BY <2>1, <2>7
       DEF Consume, Fetch, Insert, ApplyStatus, InvalidatePages, InvalidateCount, InvalidateDetail,
           RemoveMember, IncrLikeCount, FindLiked, SetLikedDetail, UpdateScore
  <2>8. CASE Crash \/ Shutdown
    BY <1>4, <2>8 DEF Crash, Shutdown, Restart, Idle
  <2> QED BY <2>1, <2>2, <2>3, <2>4, <2>5, <2>6, <2>7, <2>8
          DEF vars, Next, ExpireDetail, ExpirePage, ExpireCount
<1> QED BY <1>n, <1>m, <1>2, <1>3, <1>4 DEF TotalsCovered

(* No reader sees a comment that no admin ever approved, for any number of    *)
(* comments, requests, failures and restarts: what a request or the consumer  *)
(* carries on its way to a cache is as hidden as what the stores hold, and no *)
(* total exceeds the number of comments some admin approved.                  *)
THEOREM NothingUnapprovedHolds == Spec => []NothingUnapproved
<1>1. ASSUME Typed, UnapprovedHidden, TotalsCovered PROVE NothingUnapproved
  <2>1. \A c \in Comments \ AdminApproved : Hidden(c)
    BY <1>1 DEF AdminApproved, UnapprovedHidden
  <2>2. page # NoPage => page.shown \subseteq AdminApproved
    BY <1>1, <2>1 DEF Typed, TypeOK, Page, Hidden, PageHides
  <2>3. ASSUME NEW r \in Requests
        PROVE  /\ req[r].pc \in {"getcount", "countquery", "setcount", "setpage"} =>
                     req[r].shown \subseteq AdminApproved
               /\ req[r].pc = "fill" /\ req[r].status = "approved" => req[r].c \in AdminApproved
    <3>1. req[r] \in ReqState
      BY <1>1 DEF Typed, TypeOK
    <3> QED BY <2>1, <3>1, ReqFields DEF Hidden, ReqHides
  <2> QED BY <1>1, <2>1, <2>2, <2>3 DEF NothingUnapproved, TotalsCovered, Hidden, AdminApproved
<1> QED BY <1>1, TypedInit, TypedStep, HiddenInit, HiddenStep, TotalsInit, TotalsStep, PTL DEF Spec

-------------------------------------------------------------------------------
(* RowFollowsLog.  What the log holds: a comment is announced before anything *)
(* else is said of it.                                                        *)

Ordered ==
    /\ \A i \in 1..Len(log) : Published(log[i].c)
    /\ \A i, j \in 1..Len(log) :
          i < j /\ log[j].type = "create" /\ log[i].c = log[j].c => log[i].type = "create"

(* The step added e, once or twice. *)
Adds(e) ==
    /\ Grows /\ Len(log) < Len(log')
    /\ \A i \in 1..Len(log') : i > Len(log) => log'[i] = e

LEMMA PublishAdds ==
    ASSUME TypeOK, NEW e \in Event, Publish(e) \/ log' = Append(log, e)
    PROVE  Adds(e)
<1>0. log \in Seq(Event) /\ Len(log) \in Nat
  BY DEF TypeOK
<1>1. CASE log' = Append(log, e)
  BY <1>0, <1>1, AppendGrows DEF Adds
<1>2. CASE log' = log \o <<e, e>>
  <2>1. <<e, e>> \in Seq(Event) /\ log' \in Seq(Event)
    BY <1>0, <1>2
  <2>2. Len(log') = Len(log) + 2
    BY <1>0, <1>2, <2>1
  <2>3. \A i \in 1..Len(log) : log'[i] = log[i]
    BY <1>0, <1>2, <2>1
  <2>4. \A i \in 1..Len(log') : i > Len(log) => log'[i] = e
    BY <1>0, <1>2, <2>1, <2>2
  <2> QED BY <1>0, <2>1, <2>2, <2>3, <2>4 DEF Adds, Grows
<1> QED BY <1>1, <1>2 DEF Publish

LEMMA PublishedStays ==
    ASSUME TypeOK, Grows, NEW c, Published(c)
    PROVE  Published(c)'
<1>1. PICK i \in DOMAIN log : log[i] = [type |-> "create", c |-> c]
  BY DEF Published
<1>2. i \in 1..Len(log) /\ Len(log) \in Nat /\ Len(log') \in Nat
  BY DEF TypeOK, Grows
<1>3. i \in DOMAIN log' /\ log'[i] = log[i]
  BY <1>2 DEF Grows
<1> QED BY <1>1, <1>3 DEF Published

LEMMA AddsOrdered ==
    ASSUME TypeOK, Ordered, NEW e \in Event, Adds(e),
           \/ e = [type |-> "create", c |-> e.c] /\ ~Published(e.c)
           \/ e.type # "create" /\ Published(e.c)
    PROVE  Ordered'
<1>0. Len(log) \in Nat /\ Len(log') \in Nat /\ log' \in Seq(Event)
  BY DEF TypeOK, Adds, Grows
<1>1. Published(e.c)'
  <2>1. CASE e = [type |-> "create", c |-> e.c]
    <3>1. Len(log') \in DOMAIN log' /\ log'[Len(log')] = e
      BY <1>0 DEF Adds
    <3> QED BY <2>1, <3>1 DEF Published
  <2>2. CASE Published(e.c)
    BY <2>2, PublishedStays DEF Adds
  <2> QED BY <2>1, <2>2
<1>2. ASSUME NEW i \in 1..Len(log'), NEW c, log'[i].c = c PROVE Published(c)'
  <2>1. CASE i > Len(log)
    BY <1>1, <1>2, <2>1 DEF Adds
  <2>2. CASE i <= Len(log)
    <3>1. i \in 1..Len(log) /\ log'[i] = log[i]
      BY <1>0, <2>2 DEF Adds, Grows
    <3>2. Published(c)
      BY <1>2, <3>1 DEF Ordered
    <3> QED BY <3>2, PublishedStays DEF Adds
  <2> QED BY <1>0, <2>1, <2>2
<1>3. ASSUME NEW i \in 1..Len(log'), NEW j \in 1..Len(log'),
             i < j, log'[j].type = "create", log'[i].c = log'[j].c
      PROVE  log'[i].type = "create"
  <2>1. CASE i > Len(log)
    BY <1>0, <1>3, <2>1 DEF Adds
  <2>2. CASE j <= Len(log)
    <3>1. i \in 1..Len(log) /\ j \in 1..Len(log)
      BY <1>0, <1>3, <2>2
    <3> QED BY <1>3, <3>1 DEF Ordered, Adds, Grows
  <2>3. CASE i <= Len(log) /\ j > Len(log)
    <3>1. i \in 1..Len(log) /\ log'[i] = log[i] /\ log'[j] = e
      BY <1>0, <2>3 DEF Adds, Grows
    <3>2. Published(e.c)
      BY <1>3, <3>1 DEF Ordered
    <3> QED BY <1>3, <3>1, <3>2
  <2> QED BY <1>0, <2>1, <2>2, <2>3
<1> QED BY <1>0, <1>2, <1>3 DEF Ordered, Published

LEMMA StartAdds ==
    ASSUME TypeOK, NEW r \in Requests, Start(r)
    PROVE  \/ UNCHANGED log
           \/ \E e \in Event :
                 /\ Adds(e)
                 /\ \/ e = [type |-> "create", c |-> e.c] /\ ~Published(e.c)
                    \/ e.type # "create" /\ Published(e.c)
<1>1. CASE Submit(r)
  <2>1. PICK c \in Comments :
           LET e == [type |-> "create", c |-> c]
           IN ~Published(c) /\ (Publish(e) \/ log' = Append(log, e))
    BY <1>1 DEF Submit
  <2>2. [type |-> "create", c |-> c] \in Event
    BY DEF Event
  <2> QED BY <2>1, <2>2, PublishAdds
<1>2. CASE UpdateStatus
  <2>1. PICK c \in Comments, status \in {"approved", "rejected"} :
           Published(c) /\ Publish([type |-> "update_status", c |-> c, status |-> status])
    BY <1>2 DEF UpdateStatus
  <2>2. [type |-> "update_status", c |-> c, status |-> status] \in Event
    BY DEF Event
  <2> QED BY <2>1, <2>2, PublishAdds
<1>3. CASE Like(r)
  <2>1. PICK c \in Comments :
           Published(c) /\ (Publish([type |-> "like", c |-> c]) \/ UNCHANGED log)
    BY <1>3 DEF Like
  <2>2. [type |-> "like", c |-> c] \in Event
    BY DEF Event
  <2> QED BY <2>1, <2>2, PublishAdds
<1>4. CASE ListComments(r) \/ GetHotComments(r)
  BY <1>4 DEF ListComments, GetHotComments, kafka
<1> QED BY <1>1, <1>2, <1>3, <1>4 DEF Start

(* Every other action leaves the log alone. *)
LEMMA LogSteps ==
    ASSUME [Next]_vars, \A r \in Requests : ~Start(r)
    PROVE  UNCHANGED log
  BY DEF vars, kafka, Next, Continue, SetPending, HotRead, HotWrite, FindByPostID, GetCount,
         CountByPostID, SetCount, SetPage, GetDetail, FindDetail, FillDetail, Consume, Fetch,
             Insert, ApplyStatus, InvalidatePages, InvalidateCount, InvalidateDetail,
                 RemoveMember, IncrLikeCount, FindLiked, SetLikedDetail, UpdateScore, Crash,
                     Shutdown, Restart, ExpireDetail, ExpirePage, ExpireCount

LEMMA OrderedStep == ASSUME Typed, Ordered, [Next]_vars PROVE Ordered'
<1>1. CASE UNCHANGED log
  BY <1>1 DEF Ordered, Published
<1>2. CASE \E r \in Requests : Start(r)
  BY <1>1, <1>2, StartAdds, AddsOrdered DEF Typed
<1> QED BY <1>1, <1>2, LogSteps

(* MySQL against a prefix of the log.  The row of c holds what the first k     *)
(* events say, for some k no less than what the consumer has applied: a crash  *)
(* takes the consumer back, never the row.                                     *)

Creates(c, k) == {i \in (1..k) \ missed : log[i].type = "create" /\ log[i].c = c}
Updates(c, k) == {i \in (1..k) \ missed : log[i].type = "update_status" /\ log[i].c = c}

Follows(c, k) ==
    \/ Creates(c, k) = {} /\ row[c] = None
    \/ Creates(c, k) # {} /\ Updates(c, k) = {} /\ row[c] = "pending"
    \/ /\ Creates(c, k) # {}
       /\ \E i \in Updates(c, k) :
             row[c] = log[i].status /\ \A j \in Updates(c, k) : j <= i

Invalidating == {"invpage", "invcount", "invdetail", "zrem"}

UpTo == IF con.pc \in Invalidating THEN fetched + 1 ELSE fetched

RowInv == \A c \in Comments : \E k \in UpTo..Len(log) : Follows(c, k)

LEMMA RowInit == Init => Ordered /\ RowInv
  BY PipelineAssumption
     DEF Init, Ordered, RowInv, UpTo, Invalidating, Idle, Follows, Creates, Updates

LEMMA FollowsEq ==
    ASSUME NEW c, NEW k, NEW m, Follows(c, k), row'[c] = row[c],
           Creates(c, m)' = Creates(c, k), Updates(c, m)' = Updates(c, k),
           \A i \in Updates(c, k) : log'[i] = log[i]
    PROVE  Follows(c, m)'
  BY DEF Follows

(* A step that writes no row and gives nothing up. *)
LEMMA RowQuiet ==
    ASSUME TypeOK, RowInv, Grows \/ UNCHANGED log, UNCHANGED <<row, missed>>,
           UpTo' <= UpTo, UpTo' \in Nat
    PROVE  RowInv'
<1> SUFFICES ASSUME NEW c \in Comments PROVE \E k \in UpTo'..Len(log') : Follows(c, k)'
  BY DEF RowInv
<1>0. /\ Len(log) \in Nat /\ Len(log') \in Nat /\ Len(log) <= Len(log')
      /\ \A i \in 1..Len(log) : log'[i] = log[i]
  BY DEF TypeOK, Grows
<1>1. UpTo \in Nat
  BY DEF TypeOK, UpTo
<1>2. PICK k \in UpTo..Len(log) : Follows(c, k)
  BY DEF RowInv
<1>3. \A i \in 1..k : log'[i] = log[i]
  BY <1>0, <1>1, <1>2
<1>4. Creates(c, k)' = Creates(c, k) /\ Updates(c, k)' = Updates(c, k)
  BY <1>3 DEF Creates, Updates
<1>5. Follows(c, k)'
  BY <1>2, <1>3, <1>4, FollowsEq DEF Updates
<1>6. k \in UpTo'..Len(log')
  BY <1>0, <1>1, <1>2
<1> QED BY <1>5, <1>6

(* What is known of the event in hand while its row is still to be written. *)
LEMMA InHand ==
    ASSUME TypeOK, RowInv, con # Idle, con.pc \notin Invalidating, NEW c \in Comments
    PROVE  /\ fetched \in Nat /\ fetched + 1 \in 1..Len(log) /\ Len(log) \in Nat
           /\ Current = log[fetched + 1] /\ Current \in Event
           /\ \E k \in fetched..Len(log) : Follows(c, k)
  BY CurrentEvent DEF TypeOK, RowInv, UpTo

(* The event in hand says nothing of the row of c. *)
LEMMA OtherRow ==
    ASSUME TypeOK, RowInv, con # Idle, con.pc \notin Invalidating, NEW c \in Comments,
           Current.c # c \/ Current.type = "like",
           UNCHANGED log, row'[c] = row[c], missed' \ {fetched + 1} = missed \ {fetched + 1}
    PROVE  \E k \in fetched + 1..Len(log) : Follows(c, k)'
<1> DEFINE n == fetched + 1
<1>0. PICK k \in fetched..Len(log) : Follows(c, k)
  BY InHand
<1>1. /\ fetched \in Nat /\ n \in 1..Len(log) /\ Len(log) \in Nat
      /\ log[n].c # c \/ log[n].type = "like"
  BY InHand
<1>m. PICK m \in Nat : m = IF k = fetched THEN n ELSE k
  BY <1>0, <1>1
<1>2. m \in n..Len(log)
  BY <1>0, <1>1, <1>m
<1>3. (1..m) \ {n} = (1..k) \ {n}
  BY <1>0, <1>1, <1>m
<1>4. \A i \in Nat : i \in (1..m) \ missed' /\ i # n <=> i \in (1..k) \ missed /\ i # n
  BY <1>3
<1>5. Creates(c, m)' = Creates(c, k) /\ Updates(c, m)' = Updates(c, k)
  BY <1>1, <1>4 DEF Creates, Updates
<1>6. Follows(c, m)'
  BY <1>0, <1>5, FollowsEq
<1> QED BY <1>2, <1>6

(* No row: no announcement of c is kept in the prefix. *)
LEMMA NoRow ==
    ASSUME NEW c, NEW k \in Nat, k <= Len(log), TypeOK, Follows(c, k), row[c] = None
    PROVE  Creates(c, k) = {}
<1>1. \A i \in Updates(c, k) : log[i].status \in Status
  <2>1. \A i \in 1..k : log[i] \in Event
    BY DEF TypeOK
  <2> QED BY <2>1, EventFields DEF Updates, Status
<1> QED BY <1>1, NoneStatus DEF Follows, Status

(* The event in hand is dropped. *)
LEMMA RowSkip ==
    ASSUME TypeOK, ConFits, RowInv, con # Idle, con.pc \notin Invalidating,
           con.pc \in {"insert", "update"} \cup LikeCalls, UNCHANGED <<row, log>>,
           GiveUp \/ (con.pc \in LikeCalls /\ UNCHANGED missed),
           NEW c \in Comments
    PROVE  \E k \in fetched + 1..Len(log) : Follows(c, k)'
<1> DEFINE n == fetched + 1
<1>0. PICK k \in fetched..Len(log) : Follows(c, k)
  BY InHand
<1>1. /\ fetched \in Nat /\ n \in 1..Len(log) /\ Len(log) \in Nat
      /\ Current = log[n] /\ Current \in Event
  BY InHand
<1>2. Fits(con.pc, log[n].type)
  BY <1>1 DEF ConFits
<1>3. /\ missed' = missed \/ missed' = missed \cup {n}
      /\ con.pc \notin LikeCalls => missed' = IF Unapplied THEN missed \cup {n} ELSE missed
  BY DEF GiveUp, LikeCalls
<1>4. CASE Current.c # c \/ con.pc \in LikeCalls
  BY <1>1, <1>2, <1>3, <1>4, OtherRow DEF Fits
<1>5. CASE Current.c = c /\ con.pc = "insert"
  <2>1. log[n].type = "create" /\ log[n].c = c
    BY <1>1, <1>2, <1>5 DEF Fits
  <2>2. CASE row[c] = None
    <3>1. missed' = missed \cup {n}
      BY <1>3, <1>5, <2>2 DEF Unapplied, LikeCalls
    <3>2. Creates(c, k) = {}
      BY <1>0, <1>1, <2>2, NoRow
    <3>m. PICK m \in Nat : m = IF k = fetched THEN n ELSE k
      BY <1>0, <1>1
    <3>3. m \in n..Len(log) /\ \A i \in (1..m) \ missed' : i \in (1..k) \ missed
      BY <1>0, <1>1, <3>m, <3>1
    <3>4. Creates(c, m)' = {}
      BY <3>2, <3>3 DEF Creates
    <3> QED BY <2>2, <3>3, <3>4 DEF Follows
  <2>3. CASE row[c] # None
    <3>1. missed' = missed
      BY <1>3, <1>5, <2>3 DEF Unapplied, LikeCalls
    <3>2. Creates(c, k) # {}
      BY <1>0, <2>3 DEF Follows
    <3>m. PICK m \in Nat : m = IF k = fetched THEN n ELSE k
      BY <1>0, <1>1
    <3>3. m \in n..Len(log) /\ k <= m /\ (1..m) \ {n} = (1..k) \ {n}
      BY <1>0, <1>1, <3>m
    <3>4. Creates(c, m)' # {}
      BY <1>0, <1>1, <3>1, <3>2, <3>3 DEF Creates
    <3>5. Updates(c, m)' = Updates(c, k)
      BY <2>1, <3>1, <3>3 DEF Updates
    <3> QED BY <1>0, <2>3, <3>3, <3>4, <3>5 DEF Follows
  <2> QED BY <2>2, <2>3
<1>6. CASE Current.c = c /\ con.pc = "update"
  <2>1. log[n].type = "update_status" /\ log[n].c = c /\ log[n].status \in Status
    BY <1>1, <1>2, <1>6, EventFields DEF Fits, Status
  <2>m. PICK m \in Nat : m = IF k = fetched THEN n ELSE k
    BY <1>0, <1>1
  <2>2. m \in n..Len(log) /\ (1..m) \ {n} = (1..k) \ {n}
    BY <1>0, <1>1, <2>m
  <2>3. Creates(c, m)' = Creates(c, k)
    BY <1>3, <2>1, <2>2 DEF Creates
  <2>4. CASE row[c] # log[n].status
    <3>1. missed' = missed \cup {n}
      BY <1>1, <1>3, <1>6, <2>4 DEF Unapplied, LikeCalls
    <3>2. Updates(c, m)' = Updates(c, k) \ {n}
      BY <2>2, <3>1 DEF Updates
    <3> QED BY <1>0, <2>2, <2>3, <2>4, <3>2 DEF Follows
  <2>5. CASE row[c] = log[n].status
    <3>1. missed' = missed
      BY <1>1, <1>3, <1>6, <2>5 DEF Unapplied, LikeCalls
    <3>2. Creates(c, k) # {}
      BY <1>0, <2>1, <2>5, NoneStatus DEF Follows
    <3>3. CASE k # fetched \/ n \in missed
      <4>1. Updates(c, m)' = Updates(c, k)
        BY <1>0, <1>1, <2>m, <2>2, <3>1, <3>3 DEF Updates
      <4> QED BY <1>0, <2>2, <2>3, <4>1, FollowsEq
    <3>4. CASE k = fetched /\ n \notin missed
      <4>1. m = n /\ log'[m] = log[n]
        BY <2>m, <3>4
      <4>2. m \in Updates(c, m)' /\ \A j \in Updates(c, m)' : j <= m
        BY <1>1, <2>1, <3>1, <3>4, <4>1 DEF Updates
      <4> QED BY <2>2, <2>3, <2>5, <3>2, <4>1, <4>2 DEF Follows
    <3> QED BY <3>3, <3>4
  <2> QED BY <2>4, <2>5
<1> QED BY <1>4, <1>5, <1>6

(* The INSERT. *)
LEMMA RowInserted ==
    ASSUME TypeOK, ConFits, Ordered, RowInv, con # Idle, con.pc = "insert", UNCHANGED log,
           row[Current.c] = None, row' = [row EXCEPT ![Current.c] = "pending"], Applied,
           NEW c \in Comments
    PROVE  \E k \in fetched + 1..Len(log) : Follows(c, k)'
<1> DEFINE n == fetched + 1
<1>1. /\ fetched \in Nat /\ n \in 1..Len(log) /\ Len(log) \in Nat
      /\ Current = log[n] /\ Current \in Event
  BY InHand DEF Invalidating
<1>2. log[n].type = "create"
  BY <1>1 DEF ConFits, Fits
<1>3. missed' = missed \ {n} /\ row \in [Comments -> Status \cup {None}]
  BY DEF Applied, TypeOK
<1>4. CASE Current.c # c
  BY <1>3, <1>4, OtherRow DEF Invalidating
<1>5. CASE Current.c = c
  <2>m. PICK m \in Nat : m = n
    BY <1>1
  <2>1. row'[c] = "pending"
    BY <1>3, <1>5
  <2>2. m \in Creates(c, m)'
    BY <1>1, <1>2, <1>3, <1>5, <2>m DEF Creates
  <2>3. ASSUME NEW i \in Updates(c, m)' PROVE FALSE
    <3>1. i \in 1..m /\ log[i].type = "update_status" /\ log[i].c = c
      BY <2>3 DEF Updates
    <3>2. i \in 1..Len(log) /\ i < n
      BY <1>1, <1>2, <2>m, <3>1
    <3> QED BY <1>1, <1>2, <1>5, <3>1, <3>2 DEF Ordered
  <2>4. Follows(c, m)'
    BY <2>1, <2>2, <2>3 DEF Follows
  <2> QED BY <1>1, <2>m, <2>4
<1> QED BY <1>4, <1>5

(* The UPDATE. *)
LEMMA RowUpdated ==
    ASSUME TypeOK, ConFits, Ordered, RowInv, con # Idle, con.pc = "update", UNCHANGED log,
           row' = [row EXCEPT ![Current.c] = IF @ = None THEN None ELSE Current.status], Applied,
           NEW c \in Comments
    PROVE  \E k \in fetched + 1..Len(log) : Follows(c, k)'
<1> DEFINE n == fetched + 1
<1>1. /\ fetched \in Nat /\ n \in 1..Len(log) /\ Len(log) \in Nat
      /\ Current = log[n] /\ Current \in Event
  BY InHand DEF Invalidating
<1>2. log[n].type = "update_status"
  BY <1>1 DEF ConFits, Fits
<1>3. missed' = missed \ {n} /\ row \in [Comments -> Status \cup {None}]
  BY DEF Applied, TypeOK
<1>4. CASE Current.c # c
  BY <1>3, <1>4, OtherRow DEF Invalidating
<1>5. CASE Current.c = c
  <2>m. PICK m \in Nat : m = n
    BY <1>1
  <2>0. PICK k \in fetched..Len(log) : Follows(c, k)
    BY InHand DEF Invalidating
  <2>1. k \in Nat /\ k <= Len(log) /\ m \in 1..Len(log) /\ \A i \in 1..m : i \in 1..k \/ i = n
    BY <1>1, <2>m, <2>0
  <2>2. CASE row[c] = None
    <3>1. Creates(c, k) = {}
      BY <2>0, <2>1, <2>2, NoRow
    <3>2. Creates(c, m)' = {}
      BY <1>2, <1>3, <2>1, <3>1 DEF Creates
    <3>3. row'[c] = None
      BY <1>3, <1>5, <2>2
    <3> QED BY <1>1, <2>m, <3>2, <3>3 DEF Follows
  <2>3. CASE row[c] # None
    <3>1. row'[c] = log[n].status
      BY <1>1, <1>3, <1>5, <2>3
    <3>2. PICK i \in Creates(c, k) : TRUE
      BY <2>0, <2>3 DEF Follows
    <3>3. i \in 1..Len(log) /\ i \notin missed /\ log[i].type = "create" /\ log[i].c = c
      BY <2>1, <3>2 DEF Creates
    <3>4. ~(n < i)
      BY <1>1, <1>2, <1>5, <3>3 DEF Ordered
    <3>5. i \in Creates(c, m)'
      BY <1>1, <1>3, <2>m, <3>3, <3>4 DEF Creates
    <3>6. m \in Updates(c, m)' /\ \A j \in Updates(c, m)' : j <= m
      BY <1>1, <1>2, <1>3, <1>5, <2>m, <2>1 DEF Updates
    <3>7. row'[c] = log'[m].status
      BY <2>m, <3>1
    <3>8. Follows(c, m)'
      BY <3>5, <3>6, <3>7 DEF Follows
    <3> QED BY <1>1, <2>m, <3>8
  <2> QED BY <2>2, <2>3
<1> QED BY <1>4, <1>5

(* Where a step leaves the consumer. *)
LEMMA UpToRetry == ASSUME TypeOK, con # Idle, Retry, con.pc \notin Invalidating
                   PROVE  \/ UpTo' = UpTo /\ UNCHANGED missed
                          \/ UpTo' = fetched + 1 /\ GiveUp
<1>1. Entry \notin Invalidating
  BY EntryPc DEF Invalidating
<1> QED BY <1>1 DEF Retry, Done, At, Idle, UpTo, Invalidating

LEMMA RowRetry ==
    ASSUME TypeOK, ConFits, RowInv, con # Idle, Retry, UNCHANGED <<row, log>>,
           con.pc \in {"insert", "update"} \cup LikeCalls
    PROVE  RowInv'
<1>1. con.pc \notin Invalidating
  BY DEF Invalidating, LikeCalls
<1>2. CASE UpTo' = UpTo /\ UNCHANGED missed
  <2>1. UpTo \in Nat
    BY DEF UpTo, TypeOK
  <2> QED BY <1>2, <2>1, RowQuiet
<1>3. CASE UpTo' = fetched + 1 /\ GiveUp
  BY <1>1, <1>3, RowSkip DEF RowInv
<1> QED BY <1>1, <1>2, <1>3, UpToRetry

LEMMA RowLikeDone ==
    ASSUME TypeOK, ConFits, RowInv, con # Idle, Done, UNCHANGED <<row, log, missed>>,
           con.pc \in LikeCalls
    PROVE  RowInv'
<1>1. con.pc \notin Invalidating
  BY DEF Invalidating, LikeCalls
<1>2. UpTo' = fetched + 1
  BY DEF Done, UpTo, Idle, Invalidating
<1> QED BY <1>1, <1>2, RowSkip DEF RowInv

LEMMA RowApplied ==
    ASSUME TypeOK, con # Idle, Goto("invpage") \/ RetryWritten, UNCHANGED log,
           \A c \in Comments : \E k \in fetched + 1..Len(log) : Follows(c, k)'
    PROVE  RowInv'
<1>0. fetched \in Nat /\ Len(log) \in Nat /\ Entry \notin Invalidating
  BY EntryPc DEF TypeOK, Invalidating
<1>1. UpTo' \in {fetched, fetched + 1}
  BY <1>0 DEF Goto, RetryWritten, Done, At, Idle, UpTo, Invalidating
<1>2. \A c \in Comments : \E k \in UpTo'..Len(log) : Follows(c, k)'
  BY <1>0, <1>1
<1> QED BY <1>2 DEF RowInv

LEMMA RowConsume ==
    ASSUME Typed, Ordered, RowInv, Consume
    PROVE  RowInv'
<1> USE DEF kafka, Typed
<1>0. con \in ConState /\ fetched \in Nat /\ UpTo \in Nat
  BY DEF TypeOK, UpTo
<1>1. CASE Fetch
  <2>1. UpTo' = fetched /\ UpTo = fetched
    BY <1>1, EntryPc DEF Fetch, At, UpTo, Idle, Invalidating
  <2> QED BY <1>0, <1>1, <2>1, RowQuiet DEF Fetch
<1>2. CASE Insert
  <2>0. con # Idle
    BY <1>0, <1>2, ConFields DEF Insert
  <2>1. CASE Retry /\ UNCHANGED row
    BY <1>2, <2>0, <2>1, RowRetry DEF Insert
  <2>2. CASE Goto("invpage") \/ RetryWritten
    BY <1>2, <2>0, <2>1, <2>2, RowInserted, RowApplied DEF Insert, RetryWritten
  <2> QED BY <1>2, <2>1, <2>2 DEF Insert
<1>3. CASE ApplyStatus
  <2>0. con # Idle
    BY <1>0, <1>3, ConFields DEF ApplyStatus
  <2>1. CASE Retry /\ UNCHANGED row
    BY <1>3, <2>0, <2>1, RowRetry DEF ApplyStatus
  <2>2. CASE Goto("invpage") \/ RetryWritten
    BY <1>3, <2>0, <2>1, <2>2, RowUpdated, RowApplied DEF ApplyStatus, RetryWritten
  <2> QED BY <1>3, <2>1, <2>2 DEF ApplyStatus
<1>4. CASE InvalidatePages \/ InvalidateCount \/ InvalidateDetail \/ RemoveMember
  <2>1. UpTo' = fetched + 1 /\ UpTo = fetched + 1
    BY <1>4
       DEF InvalidatePages, InvalidateCount, InvalidateDetail, RemoveMember, Goto, Done, At, UpTo,
           Invalidating, Idle
  <2> QED BY <1>0, <1>4, <2>1, RowQuiet
          DEF InvalidatePages, InvalidateCount, InvalidateDetail, RemoveMember
<1>5. CASE IncrLikeCount
  <2>0. con # Idle /\ con.pc \in LikeCalls
    BY <1>0, <1>5, ConFields DEF IncrLikeCount, LikeCalls
  <2>1. CASE Goto("find") /\ UNCHANGED missed
    <3>1. UpTo' = fetched /\ UpTo = fetched
      BY <1>5, <2>1 DEF IncrLikeCount, Goto, At, UpTo, Invalidating
    <3> QED BY <1>0, <1>5, <2>1, <3>1, RowQuiet DEF IncrLikeCount
  <2> QED BY <1>5, <2>0, <2>1, RowRetry DEF IncrLikeCount
<1>6. CASE FindLiked
  <2>0. con # Idle /\ con.pc \in LikeCalls
    BY <1>0, <1>6, ConFields DEF FindLiked, LikeCalls
  <2>1. CASE Retry
    BY <1>6, <2>0, <2>1, RowRetry DEF FindLiked
  <2>2. CASE Done /\ UNCHANGED missed
    BY <1>6, <2>0, <2>2, RowLikeDone DEF FindLiked
  <2>3. CASE con'.pc = "setdetail" /\ UNCHANGED <<fetched, missed>>
    <3>1. UpTo' = fetched /\ UpTo = fetched
      BY <1>6, <2>3 DEF FindLiked, UpTo, Invalidating
    <3> QED BY <1>0, <1>6, <2>3, <3>1, RowQuiet DEF FindLiked
  <2> QED BY <1>6, <2>1, <2>2, <2>3 DEF FindLiked
<1>7. CASE SetLikedDetail
  <2>1. con'.pc = "zadd"
    BY <1>0, <1>7, ConFields DEF SetLikedDetail
  <2>2. UpTo' = fetched /\ UpTo = fetched
    BY <1>7, <2>1 DEF SetLikedDetail, UpTo, Invalidating
  <2> QED BY <1>0, <1>7, <2>2, RowQuiet DEF SetLikedDetail
<1>8. CASE UpdateScore
  <2>0. con # Idle /\ con.pc \in LikeCalls
    BY <1>0, <1>8, ConFields DEF UpdateScore, LikeCalls
  <2> QED BY <1>8, <2>0, RowLikeDone DEF UpdateScore
<1> QED BY <1>1, <1>2, <1>3, <1>4, <1>5, <1>6, <1>7, <1>8 DEF Consume

(* A restart takes the consumer back, but for the event a SIGTERM gave up. *)
LEMMA RowRestart ==
    ASSUME Typed, RowInv, Crash \/ Shutdown
    PROVE  RowInv'
<1> USE DEF kafka, Typed
<1>0. fetched \in Nat /\ committed \in Nat /\ committed <= fetched /\ UpTo \in Nat
  BY DEF TypeOK, UpTo
<1>1. UpTo' = committed' /\ UNCHANGED <<row, log>> /\ fetched <= UpTo
  BY <1>0 DEF Crash, Shutdown, Restart, UpTo, Idle, Invalidating
<1>2. CASE committed' \in Flushed /\ UNCHANGED missed
  <2>1. committed' \in Nat /\ committed' <= fetched
    BY <1>0, <1>2 DEF Flushed
  <2> QED BY <1>0, <1>1, <1>2, <2>1, RowQuiet
<1>3. CASE con # Idle /\ committed' = fetched + 1 /\ GiveUp
  <2>1. CASE con.pc \in Invalidating
    <3>1. UpTo = fetched + 1 /\ UNCHANGED missed
      BY <1>3, <2>1 DEF UpTo, Invalidating, GiveUp, Unapplied
    <3> QED BY <1>0, <1>1, <1>3, <3>1, RowQuiet
  <2>2. CASE con.pc \notin Invalidating
    <3>1. con.pc \in {"insert", "update"} \cup LikeCalls
      BY <1>3, <2>2, ConPcs DEF TypeOK, Invalidating, LikeCalls
    <3> QED BY <1>1, <1>3, <2>2, <3>1, RowSkip DEF RowInv
  <2> QED BY <2>1, <2>2
<1> QED BY <1>2, <1>3 DEF Crash, Shutdown

LEMMA RowStep == ASSUME Typed, Ordered, RowInv, [Next]_vars PROVE RowInv'
<1> USE DEF caches, kafka
<1>0. TypeOK /\ UpTo \in Nat
  BY DEF Typed, TypeOK, UpTo
<1>1. CASE UNCHANGED vars
  <2>1. UpTo' = UpTo
    BY <1>1 DEF vars, UpTo
  <2> QED BY <1>0, <1>1, <2>1, RowQuiet DEF vars
<1>2. CASE \E r \in Requests : Start(r)
  <2>1. PICK r \in Requests : Start(r)
    BY <1>2
  <2>2. UNCHANGED <<row, fetched, con>> /\ (Grows \/ UNCHANGED log)
    BY <1>0, <2>1, StartGrows
  <2>3. UNCHANGED missed
    BY <2>1 DEF Start, Submit, UpdateStatus, Like, ListComments, GetHotComments
  <2>4. UpTo' = UpTo
    BY <2>2 DEF UpTo
  <2> QED BY <1>0, <2>2, <2>3, <2>4, RowQuiet
<1>3. CASE \E r \in Requests : Continue(r)
  <2>1. UNCHANGED <<row, log, fetched, con, missed>>
    BY <1>3
       DEF Continue, SetPending, HotRead, HotWrite, FindByPostID, GetCount, CountByPostID, SetCount, SetPage,
           GetDetail, FindDetail, FillDetail
  <2>2. UpTo' = UpTo
    BY <2>1 DEF UpTo
  <2> QED BY <1>0, <2>1, <2>2, RowQuiet
<1>4. CASE Consume
  BY <1>4, RowConsume
<1>5. CASE Crash \/ Shutdown
  BY <1>5, RowRestart
<1>6. CASE (\E c \in Comments : ExpireDetail(c)) \/ ExpirePage \/ ExpireCount
  <2>1. UNCHANGED <<row, log, fetched, con, missed>>
    BY <1>6 DEF ExpireDetail, ExpirePage, ExpireCount
  <2>2. UpTo' = UpTo
    BY <2>1 DEF UpTo
  <2> QED BY <1>0, <2>1, <2>2, RowQuiet
<1> QED BY <1>1, <1>2, <1>3, <1>4, <1>5, <1>6 DEF Next

LEMMA RowImplies == ASSUME TypeOK, RowInv PROVE RowFollowsLog
<1> SUFFICES ASSUME CaughtUp, NEW c \in Comments PROVE row[c] = LogStatus(c)
  BY DEF RowFollowsLog
<1> DEFINE n == Len(log)
<1>1. n \in Nat /\ DOMAIN log = 1..n /\ \A i \in 1..n : log[i] \in Event
  BY DEF TypeOK
<1>2. Follows(c, n)
  BY <1>1 DEF RowInv, UpTo, CaughtUp, Idle, Invalidating
<1>3. \A i \in 1..n : log[i].type = "create" /\ log[i].c = c
                         <=> log[i] = [type |-> "create", c |-> c]
  BY <1>1 DEF Event
<1>4. Creates(c, n) = {} <=> ~ \E i \in DOMAIN log \ missed : log[i] = [type |-> "create", c |-> c]
  BY <1>1, <1>3 DEF Creates
<1>5. Updates(c, n) = {i \in DOMAIN log \ missed : log[i].type = "update_status" /\ log[i].c = c}
  BY <1>1 DEF Updates
<1>6. CASE Creates(c, n) = {}
  BY <1>2, <1>4, <1>6 DEF Follows, LogStatus
<1>7. CASE Creates(c, n) # {} /\ Updates(c, n) = {}
  BY <1>2, <1>4, <1>5, <1>7 DEF Follows, LogStatus
<1>8. CASE Creates(c, n) # {} /\ Updates(c, n) # {}
  <2>1. PICK i \in Updates(c, n) :
           row[c] = log[i].status /\ \A j \in Updates(c, n) : j <= i
    BY <1>2, <1>8 DEF Follows
  <2>2. \A j \in Updates(c, n) : j \in Nat
    BY DEF Updates
  <2>3. (CHOOSE k \in Updates(c, n) : \A j \in Updates(c, n) : j <= k) = i
    BY <2>1, <2>2
  <2>4. LogStatus(c) = log[CHOOSE k \in Updates(c, n) : \A j \in Updates(c, n) : j <= k].status
    BY <1>4, <1>5, <1>8 DEF LogStatus
  <2> QED BY <2>1, <2>3, <2>4
<1> QED BY <1>6, <1>7, <1>8

(* Whenever the consumer has caught up, MySQL holds what the log says, for     *)
(* any number of comments, events, duplicates, failures, crashes and restarts, *)
(* but for the events given up.                                                *)
THEOREM RowFollowsLogHolds == Spec => []RowFollowsLog
<1>1. Typed /\ RowInv => RowFollowsLog
  BY RowImplies DEF Typed
<1>2. Typed /\ Ordered /\ RowInv /\ [Next]_vars => Ordered' /\ RowInv'
  BY OrderedStep, RowStep
<1> QED BY <1>1, <1>2, TypedInit, TypedStep, RowInit, PTL DEF Spec
===============================================================================
