--------------------------- MODULE AutoReply_proofs ---------------------------
(* Theorems about auto-reply: the rule store and its engine for any rules,    *)
(* patches and requests, the limiter for any limits, authors and restarts,    *)
(* and the service that joins them, which implements both.                    *)
EXTENDS AutoReply, FiniteSetTheorems, WellFoundedInduction, TLAPS

-------------------------------------------------------------------------------
(* The helpers. *)

\* Storing one rule changes what is stored under that id only.
LEMMA WithStores ==
    ASSUME NEW bodies, NEW i, NEW body, NEW j
    PROVE  Stored(With(bodies, i, body), j) = IF j = i THEN body ELSE Stored(bodies, j)
  BY DEF Stored, With

\* So does removing one.
LEMMA WithoutStores ==
    ASSUME NEW bodies, NEW i, NEW j
    PROVE  Stored(Without(bodies, i), j) = IF j = i THEN None ELSE Stored(bodies, j)
  BY DEF Stored, Without

\* A stored rule is a rule.
LEMMA StoredBody ==
    ASSUME NEW bodies, IsRules(bodies), NEW i
    PROVE  i \in DOMAIN bodies <=> Stored(bodies, i) # None
  BY RuleStoreAssumption DEF IsRules, Stored

\* A patch leaves a rule a rule.
LEMMA PatchedBody ==
    ASSUME NEW body \in Body, NEW patch \in Patches
    PROVE  Patched(body, patch) \in Body
<1> DEFINE new == Patched(body, patch)
<1>1. DOMAIN body = {"priority", "window", "keywords", "enabled", "broken"}
  BY DEF Body
<1>2. /\ body["priority"] \in Int /\ body["window"] \in Window
      /\ body["keywords"] \in SUBSET Keywords
      /\ body["enabled"] \in BOOLEAN /\ body["broken"] \in BOOLEAN
  BY DEF Body
<1>3. /\ Field["priority"] = Int /\ Field["window"] = Window
      /\ Field["keywords"] = SUBSET Keywords
      /\ Field["enabled"] = BOOLEAN /\ Field["broken"] = BOOLEAN
  BY DEF Field
<1>4. \A f \in DOMAIN patch : patch[f] \in Field[f]
  BY RuleStoreAssumption
<1>5. new = [f \in DOMAIN body |-> IF f \in DOMAIN patch THEN patch[f] ELSE body[f]]
  BY DEF Patched
<1>6. new["priority"] \in Int
  BY <1>1, <1>2, <1>3, <1>4, <1>5
<1>7. new["window"] \in Window
  BY <1>1, <1>2, <1>3, <1>4, <1>5
<1>8. new["keywords"] \in SUBSET Keywords
  BY <1>1, <1>2, <1>3, <1>4, <1>5
<1>9. new["enabled"] \in BOOLEAN
  BY <1>1, <1>2, <1>3, <1>4, <1>5
<1>10. new["broken"] \in BOOLEAN
  BY <1>1, <1>2, <1>3, <1>4, <1>5
<1>11. new = [priority |-> new["priority"], window |-> new["window"],
              keywords |-> new["keywords"], enabled |-> new["enabled"],
              broken |-> new["broken"]]
  BY <1>1, <1>5
<1> HIDE DEF new
<1>12. new \in Body
  BY <1>6, <1>7, <1>8, <1>9, <1>10, <1>11 DEF Body
<1> QED
  BY <1>12 DEF new

\* The list of rules stays one when a rule is stored or removed.
LEMMA WithRules ==
    ASSUME NEW bodies, IsRules(bodies), NEW i \in Ids, NEW body \in Body
    PROVE  IsRules(With(bodies, i, body))
  BY DEF IsRules, With

LEMMA WithoutRules ==
    ASSUME NEW bodies, IsRules(bodies), NEW i \in Ids
    PROVE  IsRules(Without(bodies, i))
  BY DEF IsRules, Without

-------------------------------------------------------------------------------
(* Every change goes through Saved. *)

IInv == TypeOK /\ Acknowledged

\* A save of a list that differs in one rule keeps the types.
LEMMA SavedTypes ==
    ASSUME TypeOK, NEW new, IsRules(new), NEW i \in Ids, Saved(new, i)
    PROVE  /\ IsRules(rules') /\ IsRules(file')
           /\ faults' \in 0..MaxFaults
           /\ promised' \in [Ids -> Body \cup {None, Unknown}]
           /\ faults' = 0 => rules' = file'
<1> USE RuleStoreAssumption DEF TypeOK, Saved
<1>1. Stored(new, i) \in Body \cup {None}
  BY DEF IsRules, Stored
<1>2. CASE /\ file' = new
           /\ promised' = [promised EXCEPT ![i] = Stored(new, i)]
           /\ UNCHANGED faults
  BY <1>1, <1>2
<1>3. CASE /\ faults < MaxFaults /\ faults' = faults + 1
           /\ promised' = [promised EXCEPT ![i] = Unknown]
           /\ UNCHANGED file
  BY <1>3
<1> QED
  BY <1>2, <1>3

\* It keeps what is acknowledged, of that rule and of the others.
LEMMA SavedAcknowledged ==
    ASSUME TypeOK, Acknowledged, NEW new, NEW i \in Ids, Saved(new, i),
           \A j \in Ids \ {i} : Stored(new, j) = Stored(rules, j)
    PROVE  Acknowledged'
<1> SUFFICES ASSUME NEW j \in Ids, promised'[j] # Unknown
             PROVE  Stored(rules', j) = promised'[j] /\ Stored(file', j) = promised'[j]
  BY DEF Acknowledged
<1>1. rules' = new /\ promised \in [Ids -> Body \cup {None, Unknown}]
  BY DEF Saved, TypeOK
<1>2. CASE /\ file' = new
           /\ promised' = [promised EXCEPT ![i] = Stored(new, i)]
  BY <1>1, <1>2 DEF Acknowledged
<1>3. CASE /\ promised' = [promised EXCEPT ![i] = Unknown]
           /\ UNCHANGED file
  BY <1>1, <1>3 DEF Acknowledged
<1> QED
  BY <1>2, <1>3 DEF Saved

-------------------------------------------------------------------------------
LEMMA InitIInv == Init => IInv
<1> SUFFICES ASSUME Init PROVE IInv
  OBVIOUS
<1>1. TypeOK
  <2>1. IsRules(FirstRules) /\ IsRules(<<>>)
    BY RuleStoreAssumption DEF IsRules
  <2>2. \A i \in Ids : Stored(FirstRules, i) \in Body \cup {None}
    BY <2>1 DEF IsRules, Stored
  <2> QED
    BY <2>1, <2>2, RuleStoreAssumption DEF Init, TypeOK, ReplyTypes, Decided, NoReply
<1>2. Acknowledged
  BY DEF Init, Acknowledged
<1> QED
  BY <1>1, <1>2 DEF IInv

LEMMA NextIInv == IInv /\ [Next]_vars => IInv'
<1> SUFFICES ASSUME IInv, [Next]_vars PROVE IInv'
  OBVIOUS
<1> USE DEF IInv
<1>0. UNCHANGED reply => ReplyTypes'
  BY DEF TypeOK, ReplyTypes, Decided
<1>1. ASSUME NEW i \in Ids, NEW body \in Bodies, Create(i, body)
      PROVE  IInv'
  <2>1. body \in Body /\ Saved(With(rules, i, body), i)
    BY <1>1, RuleStoreAssumption DEF Create
  <2>2. IsRules(With(rules, i, body))
    BY <2>1, WithRules DEF TypeOK
  <2>3. TypeOK'
    BY <1>0, <1>1, <2>1, <2>2, SavedTypes, RuleStoreAssumption DEF TypeOK, Create, Begin
  <2>4. Acknowledged'
    BY <2>1, WithStores, SavedAcknowledged
  <2> QED
    BY <2>3, <2>4
<1>2. ASSUME NEW i \in Ids, Delete(i)
      PROVE  IInv'
  <2>1. Saved(Without(rules, i), i)
    BY <1>2 DEF Delete
  <2>2. IsRules(Without(rules, i))
    BY WithoutRules DEF TypeOK
  <2>3. TypeOK'
    BY <1>0, <1>2, <2>1, <2>2, SavedTypes, RuleStoreAssumption DEF TypeOK, Delete, Begin
  <2>4. Acknowledged'
    BY <2>1, WithoutStores, SavedAcknowledged
  <2> QED
    BY <2>3, <2>4
<1>3. ASSUME NEW r \in Requests, NEW i \in Ids, NEW patch \in Patches, Get(r, i, patch)
      PROVE  IInv'
  <2>1. Patched(rules[i], patch) \in Body
    BY <1>3, PatchedBody DEF Get, TypeOK, IsRules
  <2>2. TypeOK'
    BY <1>0, <1>3, <2>1, RuleStoreAssumption DEF TypeOK, Get, Begin
  <2>3. Acknowledged'
    BY <1>3 DEF Acknowledged, Get
  <2> QED
    BY <2>2, <2>3
<1>4. ASSUME NEW r \in Requests, Update(r)
      PROVE  IInv'
  <2>1. puts[r].id \in Ids /\ puts[r].body \in Body
    BY <1>4 DEF Update, TypeOK
  <2>2. puts' \in [Requests -> [id : Ids, body : Body] \cup {None}]
    BY <1>4 DEF Update, TypeOK
  <2>3. CASE Saved(With(rules, puts[r].id, puts[r].body), puts[r].id)
    <3>1. IsRules(With(rules, puts[r].id, puts[r].body))
      BY <2>1, WithRules DEF TypeOK
    <3>2. TypeOK'
      BY <1>0, <1>4, <2>1, <2>2, <2>3, <3>1, SavedTypes DEF TypeOK, Update
    <3>3. Acknowledged'
      BY <2>1, <2>3, WithStores, SavedAcknowledged
    <3> QED
      BY <3>2, <3>3
  <2>4. CASE UNCHANGED <<rules, file, faults, promised>>
    BY <1>0, <1>4, <2>2, <2>4 DEF TypeOK, Acknowledged, Update
  <2> QED
    BY <1>4, <2>3, <2>4 DEF Update
<1>5. CASE Restart
  <2>1. TypeOK'
    BY <1>5 DEF TypeOK, ReplyTypes, Restart, NoReply, Decided
  <2>2. Acknowledged'
    BY <1>5 DEF Acknowledged, Restart
  <2> QED
    BY <2>1, <2>2
<1>6. ASSUME NEW q \in Replies, List(q) \/ Leave(q)
      PROVE  IInv'
  <2>1. PICK k : /\ reply' = [reply EXCEPT ![q] = k]
                 /\ k # NoReply => k.pc # "decided" /\ IsRules(k.bodies)
    BY <1>6 DEF List, Leave, NoReply, TypeOK
  <2>2. UNCHANGED <<rules, file, puts, changes, faults, promised>>
    BY <1>6 DEF List, Leave
  <2>3. /\ DOMAIN reply' = Replies
        /\ \A x \in Replies : reply'[x] = IF x = q THEN k ELSE reply[x]
    BY <2>1 DEF TypeOK, ReplyTypes
  <2>4. /\ \A x \in Replies : reply'[x] # NoReply => IsRules(reply'[x].bodies)
        /\ \A x \in Replies : Decided(x)' =>
              reply'[x].now \in Clock /\ reply'[x].words \subseteq Keywords
    BY <2>1, <2>3 DEF TypeOK, ReplyTypes, Decided, NoReply
  <2> QED
    BY <2>2, <2>3, <2>4 DEF TypeOK, ReplyTypes, Acknowledged
<1>7. ASSUME NEW q \in Replies, NEW now \in Clock, NEW words \in SUBSET Keywords,
             Evaluate(q, now, words)
      PROVE  IInv'
  <2>1. PICK first, rendered :
          reply' = [reply EXCEPT ![q] =
                       [pc |-> "decided", bodies |-> reply[q].bodies, now |-> now,
                        words |-> words, matched |-> first, rendered |-> rendered]]
    BY <1>7, Zenon DEF Evaluate
  <2>2. UNCHANGED <<rules, file, puts, changes, faults, promised>> /\ reply[q] # NoReply
    BY <1>7 DEF Evaluate, Listed, NoReply
  <2>3. /\ DOMAIN reply' = Replies
        /\ \A x \in Replies \ {q} : reply'[x] = reply[x]
        /\ reply'[q].bodies = reply[q].bodies
        /\ reply'[q].now = now /\ reply'[q].words = words
    BY <2>1 DEF TypeOK, ReplyTypes
  <2>4. /\ \A x \in Replies : reply'[x] # NoReply => IsRules(reply'[x].bodies)
        /\ \A x \in Replies : Decided(x)' =>
              reply'[x].now \in Clock /\ reply'[x].words \subseteq Keywords
    BY <2>2, <2>3 DEF TypeOK, ReplyTypes, Decided
  <2> QED
    BY <2>2, <2>3, <2>4 DEF TypeOK, ReplyTypes, Acknowledged
<1>8. CASE UNCHANGED vars
  BY <1>0, <1>8 DEF vars, TypeOK, Acknowledged
<1> QED
  BY <1>1, <1>2, <1>3, <1>4, <1>5, <1>6, <1>7, <1>8 DEF Next

\* The variables keep their types, and memory and file agree until a save fails.
THEOREM TypeCorrect == Spec => []TypeOK
<1>1. IInv => TypeOK
  BY DEF IInv
<1> QED
  BY <1>1, InitIInv, NextIInv, PTL DEF Spec

\* What the API acknowledged is in memory and in the file, whatever the order of
\* requests, failed saves and restarts, and for any number of rules.
THEOREM AcknowledgedKept == Spec => []Acknowledged
<1>1. IInv => Acknowledged
  BY DEF IInv
<1> QED
  BY <1>1, InitIInv, NextIInv, PTL DEF Spec

\* A rule whose deletion was acknowledged comes back with a POST only.
THEOREM DeletionKept == Spec => DeletedStaysDeleted
<1> DEFINE Step == \A i \in Ids : promised[i] = None /\ i \in DOMAIN rules' =>
                                      \E body \in Bodies : Create(i, body)
<1>1. ASSUME IInv, Next PROVE Step
  <2> SUFFICES ASSUME NEW i \in Ids, promised[i] = None, i \in DOMAIN rules'
               PROVE  \E body \in Bodies : Create(i, body)
    OBVIOUS
  <2>1. i \notin DOMAIN rules /\ i \notin DOMAIN file
    <3>1. None # Unknown
      BY RuleStoreAssumption
    <3>2. Stored(rules, i) = None /\ Stored(file, i) = None
      BY <1>1, <3>1 DEF IInv, Acknowledged
    <3> QED
      BY <1>1, <3>2, StoredBody DEF IInv, TypeOK
  <2>2. ASSUME NEW j \in Ids, NEW body \in Bodies, Create(j, body)
        PROVE  \E b \in Bodies : Create(i, b)
    BY <2>1, <2>2 DEF Create, Saved, With
  <2>3. ASSUME NEW j \in Ids, Delete(j) PROVE FALSE
    BY <2>1, <2>3 DEF Delete, Saved, Without
  <2>4. ASSUME NEW r \in Requests, Update(r) PROVE FALSE
    BY <2>1, <2>4 DEF Update, Saved, With
  <2>5. ~Restart
    BY <2>1 DEF Restart
  <2>6. ASSUME UNCHANGED rules PROVE FALSE
    BY <2>1, <2>6
  <2> QED
    BY <1>1, <2>2, <2>3, <2>4, <2>5, <2>6 DEF Next, Get, List, Leave, Evaluate
<1>2. IInv /\ [Next]_vars => [Step]_vars
  BY <1>1
<1> QED
  BY <1>2, InitIInv, NextIInv, PTL DEF Spec, DeletedStaysDeleted

-------------------------------------------------------------------------------
(* The engine.                                                                 *)
(*                                                                             *)
(* The sort finds an order: a rule's place is how many rules come before it,   *)
(* and one more.  Places differ, as Before is total and transitive, so they    *)
(* are all the numbers up to the number of rules.                              *)

LEMMA Smallest ==
    ASSUME NEW S \in SUBSET Nat, S # {}
    PROVE  Min(S) \in S /\ \A m \in S : Min(S) <= m
<1> DEFINE R == {ss \in Nat \X Nat : ss[1] < ss[2]}
<1>1. IsWellFoundedOn(R, Nat)
  BY NatLessThanWellFounded DEF OpToRel
<1>2. PICK n \in S : \A m \in S : ~(<<m, n>> \in R)
  <2> HIDE DEF R
  <2> QED BY <1>1, WFMin
<1>3. ASSUME NEW m \in S, m < n PROVE <<m, n>> \in R
  <2>1. <<m, n>> \in Nat \X Nat
    OBVIOUS
  <2>2. <<m, n>>[1] < <<m, n>>[2]
    BY <1>3
  <2> QED BY <2>1, <2>2
<1>4. \A m \in S : n =< m
  <2>1. \A m \in S : ~(m < n)
    <3> HIDE DEF R
    <3> QED BY <1>2, <1>3
  <2> QED BY <2>1
<1> QED BY <1>4 DEF Min

LEMMA RulesFinite ==
    ASSUME NEW bodies, IsRules(bodies)
    PROVE  /\ IsFiniteSet(DOMAIN bodies) /\ Cardinality(DOMAIN bodies) \in Nat
           /\ \A i \in DOMAIN bodies : i \in Int /\ bodies[i].priority \in Int /\ i # None
<1>1. DOMAIN bodies \subseteq Ids /\ IsFiniteSet(Ids) /\ Ids \subseteq Int /\ None \notin Ids
  BY RuleStoreAssumption DEF IsRules
<1>2. IsFiniteSet(DOMAIN bodies) /\ Cardinality(DOMAIN bodies) \in Nat
  BY <1>1, FS_Subset, FS_CardinalityType
<1> QED BY <1>1, <1>2 DEF IsRules, Body

LEMMA BeforeOrder ==
    ASSUME NEW bodies, IsRules(bodies)
    PROVE  /\ \A i \in DOMAIN bodies : ~Before(bodies, i, i)
           /\ \A i, j \in DOMAIN bodies : i = j \/ Before(bodies, i, j) \/ Before(bodies, j, i)
           /\ \A i, j, k \in DOMAIN bodies :
                 Before(bodies, i, j) /\ Before(bodies, j, k) => Before(bodies, i, k)
  BY RulesFinite DEF Before

Earlier(bodies, i) == {j \in DOMAIN bodies : Before(bodies, j, i)}
Place(bodies, i)   == Cardinality(Earlier(bodies, i)) + 1

LEMMA PlaceBounds ==
    ASSUME NEW bodies, IsRules(bodies), NEW i \in DOMAIN bodies
    PROVE  /\ IsFiniteSet(Earlier(bodies, i)) /\ Cardinality(Earlier(bodies, i)) \in Nat
           /\ Place(bodies, i) \in 1..Cardinality(DOMAIN bodies)
<1>1. Earlier(bodies, i) \subseteq DOMAIN bodies /\ i \notin Earlier(bodies, i)
  BY BeforeOrder DEF Earlier
<1>2. /\ IsFiniteSet(Earlier(bodies, i)) /\ Cardinality(Earlier(bodies, i)) \in Nat
      /\ Cardinality(Earlier(bodies, i)) <= Cardinality(DOMAIN bodies)
      /\ Cardinality(DOMAIN bodies) \in Nat
  BY <1>1, RulesFinite, FS_Subset, FS_CardinalityType
<1>3. Cardinality(Earlier(bodies, i)) # Cardinality(DOMAIN bodies)
  BY <1>1, RulesFinite, FS_Subset
<1> QED BY <1>2, <1>3 DEF Place

LEMMA PlaceGrows ==
    ASSUME NEW bodies, IsRules(bodies), NEW i \in DOMAIN bodies, NEW j \in DOMAIN bodies,
           Before(bodies, i, j)
    PROVE  Place(bodies, i) < Place(bodies, j)
<1>1. Earlier(bodies, i) \subseteq Earlier(bodies, j) /\ i \in Earlier(bodies, j)
      /\ i \notin Earlier(bodies, i)
  BY BeforeOrder DEF Earlier
<1>2. /\ IsFiniteSet(Earlier(bodies, j)) /\ Cardinality(Earlier(bodies, j)) \in Nat
      /\ Cardinality(Earlier(bodies, i)) \in Nat
  BY PlaceBounds
<1>3. Cardinality(Earlier(bodies, i)) <= Cardinality(Earlier(bodies, j))
      /\ Cardinality(Earlier(bodies, i)) # Cardinality(Earlier(bodies, j))
  BY <1>1, <1>2, FS_Subset
<1> QED BY <1>2, <1>3 DEF Place

LEMMA PlacesFilled ==
    ASSUME NEW bodies, IsRules(bodies), NEW n \in 1..Cardinality(DOMAIN bodies)
    PROVE  \E i \in DOMAIN bodies : Place(bodies, i) = n
<1> DEFINE N     == Cardinality(DOMAIN bodies)
           place == [i \in DOMAIN bodies |-> Place(bodies, i)]
<1>1. place \in [DOMAIN bodies -> 1..N]
  BY PlaceBounds
<1>2. ASSUME NEW i \in DOMAIN bodies, NEW j \in DOMAIN bodies, place[i] = place[j] PROVE i = j
  <2>1. Place(bodies, i) = Place(bodies, j) /\ Place(bodies, i) \in Int /\ Place(bodies, j) \in Int
    BY <1>2, PlaceBounds
  <2>2. ~(Place(bodies, i) < Place(bodies, j)) /\ ~(Place(bodies, j) < Place(bodies, i))
    BY <2>1
  <2> QED BY <2>2, PlaceGrows, BeforeOrder
<1>3. place \in Injection(DOMAIN bodies, 1..N)
  BY <1>1, <1>2 DEF Injection, IsInjective
<1>4. N \in Nat /\ IsFiniteSet(1..N) /\ Cardinality(1..N) = N
  <2>1. N \in Nat
    BY RulesFinite
  <2>2. IsFiniteSet(1..N) /\ Cardinality(1..N) = IF 1 > N THEN 0 ELSE N - 1 + 1
    BY <2>1, FS_Interval
  <2> QED BY <2>1, <2>2
<1>5. place \in Surjection(DOMAIN bodies, 1..N)
  BY <1>3, <1>4, FS_Injection
<1>6. PICK i \in DOMAIN bodies : place[i] = n
  BY <1>5 DEF Surjection
<1> QED BY <1>6

(* What the sort returns lists every rule once, in the engine's order. *)
LEMMA SortedLists ==
    ASSUME NEW bodies, IsRules(bodies)
    PROVE  /\ Sorted(bodies) \in [1..Cardinality(DOMAIN bodies) -> DOMAIN bodies]
           /\ \A i \in DOMAIN bodies : \E n \in DOMAIN Sorted(bodies) : Sorted(bodies)[n] = i
           /\ \A m, n \in DOMAIN Sorted(bodies) :
                 m < n => Before(bodies, Sorted(bodies)[m], Sorted(bodies)[n])
<1> DEFINE N     == Cardinality(DOMAIN bodies)
           order == [n \in 1..N |-> CHOOSE i \in DOMAIN bodies : Place(bodies, i) = n]
<1>1. \A n \in 1..N : order[n] \in DOMAIN bodies /\ Place(bodies, order[n]) = n
  BY PlacesFilled
<1>2. order \in [1..N -> DOMAIN bodies] /\ DOMAIN order = 1..N
  BY <1>1
<1> HIDE DEF order
<1>3. ASSUME NEW m \in 1..N, NEW n \in 1..N, m < n PROVE Before(bodies, order[m], order[n])
  <2>1. order[m] \in DOMAIN bodies /\ order[n] \in DOMAIN bodies
    BY <1>1
  <2>2. Place(bodies, order[m]) = m /\ Place(bodies, order[n]) = n /\ m \in Int /\ n \in Int
    BY <1>1, RulesFinite
  <2>3. ~(Place(bodies, order[n]) < Place(bodies, order[m])) /\ order[m] # order[n]
    BY <1>3, <2>2
  <2> QED BY <2>1, <2>3, PlaceGrows, BeforeOrder
<1>4. ASSUME NEW i \in DOMAIN bodies PROVE \E n \in 1..N : order[n] = i
  <2>1. Place(bodies, i) \in 1..N
    BY PlaceBounds
  <2> PICK n \in 1..N : n = Place(bodies, i)
    BY <2>1
  <2>2. order[n] \in DOMAIN bodies /\ Place(bodies, order[n]) = Place(bodies, i)
    BY <1>1
  <2>3. ~(Place(bodies, order[n]) < Place(bodies, i)) /\ ~(Place(bodies, i) < Place(bodies, order[n]))
    BY <2>1, <2>2
  <2>4. order[n] = i
    BY <2>2, <2>3, PlaceGrows, BeforeOrder
  <2> QED BY <2>4
<1>5. \E o \in [1..N -> DOMAIN bodies] :
         /\ \A i \in DOMAIN bodies : \E n \in DOMAIN o : o[n] = i
         /\ \A m, n \in DOMAIN o : m < n => Before(bodies, o[m], o[n])
  BY <1>2, <1>3, <1>4
<1> QED BY <1>5 DEF Sorted

(* A window is open from its start for its length, also across midnight. *)
LEMMA WindowOpen ==
    ASSUME NEW now \in Clock, NEW w \in Window
    PROVE  InTimeWindow(now, w) <=> Open(now, w)
<1>1. CASE w = None
  BY <1>1 DEF InTimeWindow, Open
<1>2. CASE w # None
  <2>1. Day \in Nat \ {0} /\ w.from \in Clock /\ w.to \in Clock
    BY <1>2, RuleStoreAssumption DEF Window
  <2> PICK from : from = w.from
    OBVIOUS
  <2> PICK to : to = w.to
    OBVIOUS
  <2>2. /\ now \in Int /\ 0 <= now /\ now < Day /\ from \in Int /\ 0 <= from /\ from < Day
        /\ to \in Int /\ 0 <= to /\ to < Day
    BY <2>1 DEF Clock
  <2>3. ASSUME NEW a \in Int, -Day < a, a < Day
        PROVE  a % Day = IF a >= 0 THEN a ELSE a + Day
    BY <2>1, <2>3
  <2>4. /\ (now - from) % Day = IF now - from >= 0 THEN now - from ELSE now - from + Day
        /\ (to - from) % Day = IF to - from >= 0 THEN to - from ELSE to - from + Day
    BY <2>1, <2>2, <2>3
  <2>5. (now - from) % Day < (to - from) % Day /\ from # to <=>
           (from < to /\ now >= from /\ now < to) \/ (from > to /\ (now >= from \/ now < to))
    BY <2>1, <2>2, <2>4
  <2> QED BY <1>2, <2>2, <2>5 DEF InTimeWindow, Open
<1> QED BY <1>1, <1>2

(* The first match is the best of the eligible rules. *)
LEMMA FirstIsBest ==
    ASSUME NEW bodies, IsRules(bodies), NEW now \in Clock, NEW words,
           NEW first, first = FirstMatch(bodies, now, words)
    PROVE  /\ first = None <=> Eligible(bodies, now, words) = {}
           /\ first # None =>
                 /\ first \in Eligible(bodies, now, words)
                 /\ \A i \in Eligible(bodies, now, words) \ {first} : Before(bodies, first, i)
<1> PICK order : order = Sorted(bodies)
  OBVIOUS
<1> PICK found : found = {n \in DOMAIN order : Matches(bodies[order[n]], now, words)}
  OBVIOUS
<1>1. /\ order \in [1..Cardinality(DOMAIN bodies) -> DOMAIN bodies]
      /\ \A i \in DOMAIN bodies : \E n \in DOMAIN order : order[n] = i
      /\ \A m, n \in DOMAIN order : m < n => Before(bodies, order[m], order[n])
  BY SortedLists
<1>2. first = IF found = {} THEN None ELSE order[Min(found)]
  BY DEF FirstMatch
<1>3. \A i \in DOMAIN bodies : i \in Eligible(bodies, now, words) <=> Matches(bodies[i], now, words)
  <2> SUFFICES ASSUME NEW i \in DOMAIN bodies
               PROVE  i \in Eligible(bodies, now, words) <=> Matches(bodies[i], now, words)
    OBVIOUS
  <2>1. bodies[i].window \in Window
    BY DEF IsRules, Body
  <2>2. InTimeWindow(now, bodies[i].window) <=> Open(now, bodies[i].window)
    BY <2>1, WindowOpen
  <2> QED BY <2>2 DEF Eligible, Matches, KeywordMatch
<1>4. \A i \in Eligible(bodies, now, words) : i \in DOMAIN bodies /\ \E n \in found : order[n] = i
  <2>1. \A i \in Eligible(bodies, now, words) : i \in DOMAIN bodies
    BY DEF Eligible
  <2> QED BY <1>1, <1>3, <2>1
<1>5. CASE found = {}
  BY <1>2, <1>4, <1>5
<1>6. CASE found # {}
  <2>1. found \subseteq Nat /\ \A n \in found : n \in DOMAIN order /\ order[n] \in DOMAIN bodies
    BY <1>1, RulesFinite
  <2>2. Min(found) \in found /\ \A m \in found : Min(found) <= m
    BY <1>6, <2>1, Smallest
  <2>3. first \in DOMAIN bodies /\ Matches(bodies[first], now, words)
    BY <1>2, <1>6, <2>1, <2>2
  <2>4. first # None /\ first \in Eligible(bodies, now, words)
    BY <1>3, <2>3, RulesFinite
  <2>5. ASSUME NEW i \in Eligible(bodies, now, words), i # first PROVE Before(bodies, first, i)
    <3>1. PICK n \in found : order[n] = i
      BY <1>4
    <3>2. Min(found) <= n /\ Min(found) # n /\ Min(found) \in Nat /\ n \in Nat
      BY <1>2, <1>6, <2>1, <2>2, <2>5, <3>1
    <3>3. Min(found) < n
      BY <3>2
    <3> QED BY <1>1, <1>2, <1>6, <2>1, <2>2, <3>1, <3>3
  <2> QED BY <2>4, <2>5
<1> QED BY <1>5, <1>6

(* What is decided stays what the engine found in the copied rules. *)
DecidedFirst ==
    \A q \in Replies : Decided(q) =>
        reply[q].matched = FirstMatch(reply[q].bodies, reply[q].now, reply[q].words)

LEMMA DecidedStep == TypeOK /\ DecidedFirst /\ [Next]_vars => DecidedFirst'
<1> SUFFICES ASSUME TypeOK, DecidedFirst, [Next]_vars PROVE DecidedFirst'
  OBVIOUS
<1>1. DOMAIN reply = Replies
  BY DEF TypeOK, ReplyTypes
<1>2. ASSUME NEW q \in Replies, NEW now \in Clock, NEW words \in SUBSET Keywords,
             Evaluate(q, now, words)
      PROVE  DecidedFirst'
  <2>1. PICK rendered :
          reply' = [reply EXCEPT ![q] =
                       [pc |-> "decided", bodies |-> reply[q].bodies, now |-> now, words |-> words,
                        matched |-> FirstMatch(reply[q].bodies, now, words), rendered |-> rendered]]
    BY <1>2, Zenon DEF Evaluate
  <2>2. \A x \in Replies \ {q} : reply'[x] = reply[x]
    BY <1>1, <2>1
  <2>3. /\ reply'[q].bodies = reply[q].bodies /\ reply'[q].now = now /\ reply'[q].words = words
        /\ reply'[q].matched = FirstMatch(reply[q].bodies, now, words)
    BY <1>1, <2>1
  <2> QED BY <2>2, <2>3 DEF DecidedFirst, Decided
<1>3. ASSUME NEW q \in Replies, List(q) \/ Leave(q) PROVE DecidedFirst'
  <2>1. PICK state : reply' = [reply EXCEPT ![q] = state] /\ state.pc # "decided"
    BY <1>3 DEF List, Leave, NoReply
  <2> QED BY <1>1, <2>1 DEF DecidedFirst, Decided
<1>4. CASE Restart
  BY <1>4 DEF Restart, DecidedFirst, Decided, NoReply
<1>5. CASE UNCHANGED reply
  BY <1>5 DEF DecidedFirst, Decided
<1> QED BY <1>2, <1>3, <1>4, <1>5 DEF Next, vars, Create, Delete, Get, Update

LEMMA DecidedBest == ASSUME TypeOK, DecidedFirst PROVE BestRule
<1> SUFFICES ASSUME NEW q \in Replies, Decided(q)
             PROVE  LET bodies   == reply[q].bodies
                        matched  == reply[q].matched
                        eligible == Eligible(bodies, reply[q].now, reply[q].words)
                    IN  /\ matched = None <=> eligible = {}
                        /\ matched # None =>
                              /\ matched \in eligible
                              /\ \A i \in eligible \ {matched} : Before(bodies, matched, i)
  BY DEF BestRule, Before
<1>1. IsRules(reply[q].bodies) /\ reply[q].now \in Clock
  BY DEF TypeOK, ReplyTypes, Decided, NoReply
<1> QED BY <1>1, FirstIsBest DEF DecidedFirst

(* The reply follows the eligible rule of the highest priority, with the lowest *)
(* id among equals, for any rules, windows, keywords and length of a day.       *)
THEOREM BestRuleHolds == Spec => []BestRule
<1>1. Init => DecidedFirst
  BY DEF Init, DecidedFirst, Decided, NoReply
<1>2. IInv /\ DecidedFirst /\ [Next]_vars => DecidedFirst'
  BY DecidedStep DEF IInv
<1>3. IInv /\ DecidedFirst => BestRule
  BY DecidedBest DEF IInv
<1> QED BY <1>1, <1>2, <1>3, InitIInv, NextIInv, PTL DEF Spec

-------------------------------------------------------------------------------
(* Records and days. *)

LEMMA ReqFields ==
    ASSUME NEW q \in Quota!ReqState
    PROVE  q.pc = "lock" => q.author \in Authors /\ q.stamp \in Quota!Ticks
  BY DEF Quota!ReqState

LEMMA ReqRecords ==
    /\ Quota!Idle \in Quota!ReqState /\ Quota!Done \in Quota!ReqState
    /\ \A a \in Authors, t \in Quota!Ticks :
          [pc |-> "lock", author |-> a, stamp |-> t] \in Quota!ReqState
    /\ \A pc \in {"new", "done", "ai", "mark"} : [pc |-> pc] \in Quota!ReqState
  BY DEF Quota!ReqState, Quota!Idle, Quota!Done

LEMMA DaysAreNat ==
    Quota!Days \subseteq Nat /\ \A t \in Quota!Ticks : Quota!DayOf(t) \in Quota!Days
<1>1. \A t \in Quota!Ticks : Quota!DayOf(t) \in Nat
  BY LimiterAssumption DEF Quota!LimiterConstants, Quota!Ticks, Quota!DayOf
<1> QED BY <1>1 DEF Quota!Days

LEMMA SettingsAreNat ==
    ASSUME Quota!TypeOK
    PROVE  /\ Quota!DailyGlobalLimit \in Nat /\ Quota!DailyPerAuthor \in Nat
           /\ Quota!AuthorCooldown \in Nat
  BY LimiterAssumption DEF Quota!LimiterConstants, Quota!TypeOK, Quota!DailyGlobalLimit,
                           Quota!DailyPerAuthor, Quota!AuthorCooldown

-------------------------------------------------------------------------------
(* Types. *)

LEMMA LimiterTypeInit == ASSUME Quota!Init PROVE Quota!TypeOK
<1>1. 0 \in Quota!Upto(Quota!DailyGlobalLimit) /\ 0 \in Quota!Upto(Quota!DailyPerAuthor)
  BY LimiterAssumption DEF Quota!LimiterConstants, Quota!Init, Quota!Upto,
                           Quota!DailyGlobalLimit, Quota!DailyPerAuthor
<1>2. /\ globalCount \in Quota!Upto(Quota!DailyGlobalLimit)
      /\ authorCount \in [Authors -> Quota!Upto(Quota!DailyPerAuthor)]
  BY <1>1 DEF Quota!Init
<1>3. req \in [Replies -> Quota!ReqState]
  BY ReqRecords DEF Quota!Init
<1>4. clock \in Quota!Ticks /\ restarts \in 0..MaxRestarts
  BY LimiterAssumption DEF Quota!LimiterConstants, Quota!Init, Quota!Ticks
<1> QED BY <1>2, <1>3, <1>4 DEF Quota!Init, Quota!TypeOK

(* The limiter's own part of the types after Allow. *)
LEMMA AllowType ==
    ASSUME Quota!TypeOK, NEW r \in Replies, Quota!Allow(r)
    PROVE  /\ dayKey' \in Nat /\ dayKey' = Quota!DayOf(req[r].stamp)
           /\ globalCount' \in Quota!Upto(Quota!DailyGlobalLimit)
           /\ authorCount' \in [Authors -> Quota!Upto(Quota!DailyPerAuthor)]
           /\ authorLastReq' \in [Authors -> Quota!Ticks \cup {None}]
           /\ quotaLocked' \in BOOLEAN
           /\ req' \in [Replies -> Quota!ReqState]
           /\ opening' \in Nat /\ stale' \in Nat
           /\ calls' \subseteq Quota!Call
<1> DEFINE author == req[r].author
           stamp  == req[r].stamp
           day    == Quota!DayOf(stamp)
           yes    == Quota!Allows(author, stamp)
           one    == IF yes THEN 1 ELSE 0
<1>1. author \in Authors /\ stamp \in Quota!Ticks
  BY ReqFields DEF Quota!Allow, Quota!TypeOK
<1>2. day \in Nat
  BY <1>1, DaysAreNat
<1>3. /\ Quota!Global(day) \in Quota!Upto(Quota!DailyGlobalLimit)
      /\ Quota!Author(day) \in [Authors -> Quota!Upto(Quota!DailyPerAuthor)]
  BY SettingsAreNat DEF Quota!TypeOK, Quota!Global, Quota!Author, Quota!Upto
<1>4. Quota!Global(day) + one \in Quota!Upto(Quota!DailyGlobalLimit)
  <2>1. CASE yes
    BY <2>1, <1>3, SettingsAreNat DEF Quota!Allows, Quota!HasGlobalRoom, Quota!Upto
  <2>2. CASE ~yes
    BY <2>2, <1>3, SettingsAreNat DEF Quota!Upto
  <2> QED BY <2>1, <2>2
<1>5. Quota!Author(day)[author] + one \in Quota!Upto(Quota!DailyPerAuthor)
  <2>0. Quota!Author(day)[author] \in Quota!Upto(Quota!DailyPerAuthor)
    BY <1>1, <1>3
  <2>1. CASE yes
    BY <2>0, <2>1, SettingsAreNat DEF Quota!Allows, Quota!HasAuthorRoom, Quota!Upto
  <2>2. CASE ~yes
    BY <2>0, <2>2, SettingsAreNat DEF Quota!Upto
  <2> QED BY <2>1, <2>2
<1>6. Quota!LastReq(day) \in [Authors -> Quota!Ticks \cup {None}]
  BY DEF Quota!TypeOK, Quota!LastReq
<1>7. Quota!Locked(day) \in BOOLEAN
  BY DEF Quota!TypeOK, Quota!Locked
<1>8. opening' \in Nat /\ stale' \in Nat
  BY <1>2 DEF Quota!Allow, Quota!TypeOK
<1>9. calls' \subseteq Quota!Call
  <2>1. [r |-> r, author |-> author, stamp |-> stamp, opening |-> opening'] \in Quota!Call
    BY <1>1, <1>8 DEF Quota!Call
  <2> QED BY <2>1 DEF Quota!Allow, Quota!TypeOK
<1>10. req' \in [Replies -> Quota!ReqState]
  <2>1. [pc |-> IF yes THEN "ai" ELSE "done"] \in Quota!ReqState
    BY ReqRecords
  <2> QED BY <2>1 DEF Quota!Allow, Quota!TypeOK
<1>11. authorCount' \in [Authors -> Quota!Upto(Quota!DailyPerAuthor)]
  <2>1. authorCount' = [Quota!Author(day) EXCEPT ![author] = @ + one]
    BY DEF Quota!Allow
  <2> HIDE DEF one, day, author
  <2> QED BY <2>1, <1>3, <1>5
<1>12. authorLastReq' \in [Authors -> Quota!Ticks \cup {None}]
  <2>1. authorLastReq' = [Quota!LastReq(day) EXCEPT ![author] = IF yes THEN stamp ELSE @]
    BY DEF Quota!Allow
  <2> HIDE DEF yes, day, author, stamp
  <2> QED BY <2>1, <1>1, <1>6
<1> QED BY <1>2, <1>4, <1>7, <1>8, <1>9, <1>10, <1>11, <1>12 DEF Quota!Allow

LEMMA LimiterTypeStep == ASSUME Quota!TypeOK, [Quota!Next]_(Quota!vars) PROVE Quota!TypeOK'
<1>1. ASSUME NEW r \in Replies, Quota!Arrive(r) PROVE Quota!TypeOK'
  <2>1. req' \in [Replies -> Quota!ReqState]
    BY <1>1, ReqRecords DEF Quota!Arrive, Quota!TypeOK
  <2> QED BY <1>1, <2>1 DEF Quota!Arrive, Quota!TypeOK, Quota!limiter, Quota!history, Quota!Upto,
                            Quota!DailyGlobalLimit, Quota!DailyPerAuthor
<1>2. ASSUME NEW r \in Replies, Quota!Allow(r) PROVE Quota!TypeOK'
  BY <1>2, AllowType DEF Quota!Allow, Quota!TypeOK, Quota!Upto, Quota!DailyGlobalLimit,
                         Quota!DailyPerAuthor
<1>3. ASSUME NEW r \in Replies, Quota!GenerateReply(r) \/ Quota!MarkQuotaExhausted(r)
      PROVE  Quota!TypeOK'
  <2>1. req' \in [Replies -> Quota!ReqState]
    BY <1>3, ReqRecords DEF Quota!GenerateReply, Quota!MarkQuotaExhausted, Quota!TypeOK
  <2> QED BY <1>3, <2>1 DEF Quota!GenerateReply, Quota!MarkQuotaExhausted, Quota!TypeOK,
                            Quota!limiter, Quota!history, Quota!Upto, Quota!DailyGlobalLimit,
                                Quota!DailyPerAuthor
<1>4. CASE Quota!Tick
  BY <1>4, LimiterAssumption DEF Quota!LimiterConstants, Quota!Tick, Quota!TypeOK, Quota!Ticks,
                                 Quota!limiter, Quota!history, Quota!Upto,
                                     Quota!DailyGlobalLimit, Quota!DailyPerAuthor
<1>5. CASE Quota!Restart
  <2>1. /\ settings' \in Settings /\ 0 \in Quota!Upto(Quota!DailyGlobalLimit)'
        /\ 0 \in Quota!Upto(Quota!DailyPerAuthor)'
    BY <1>5, LimiterAssumption DEF Quota!LimiterConstants, Quota!Restart, Quota!TypeOK,
                                   Quota!Upto, Quota!DailyGlobalLimit, Quota!DailyPerAuthor
  <2>2. req' \in [Replies -> Quota!ReqState]
    BY <1>5, ReqRecords DEF Quota!Restart
  <2>3. restarts' \in 0..MaxRestarts
    BY <1>5, LimiterAssumption DEF Quota!LimiterConstants, Quota!Restart, Quota!TypeOK
  <2> QED BY <1>5, <2>1, <2>2, <2>3 DEF Quota!Restart, Quota!TypeOK, Quota!history
<1>6. CASE UNCHANGED Quota!vars
  BY <1>6 DEF Quota!vars, Quota!TypeOK, Quota!limiter, Quota!history, Quota!Upto,
              Quota!DailyGlobalLimit, Quota!DailyPerAuthor
<1> QED BY <1>1, <1>2, <1>3, <1>4, <1>5, <1>6 DEF Quota!Next

(* Every variable has its type, and no counter passes its limit. *)
THEOREM LimiterTypeCorrect == Quota!Spec => []Quota!TypeOK
  BY LimiterTypeInit, LimiterTypeStep, PTL DEF Quota!Spec

-------------------------------------------------------------------------------
(* The cooldown: since the counters were last cleared, authorLastReq is no    *)
(* earlier than any of the author's calls, in whatever order they came.       *)

CoolInv ==
    /\ \A x \in calls : x.opening <= opening
    /\ dayKey # None /\ Quota!AuthorCooldown > 0 =>
          \A x \in calls : x.opening = opening =>
              authorLastReq[x.author] # None /\ x.stamp <= authorLastReq[x.author]
    /\ Quota!CooldownKept

LEMMA CoolStep ==
    ASSUME Quota!TypeOK, CoolInv, [Quota!Next]_(Quota!vars)
    PROVE  CoolInv'
<1> USE DEF CoolInv
<1>1. ASSUME NEW r \in Replies, Quota!Allow(r) PROVE CoolInv'
  <2> DEFINE author == req[r].author
             stamp  == req[r].stamp
             day    == Quota!DayOf(stamp)
             yes    == Quota!Allows(author, stamp)
             new    == [r |-> r, author |-> author, stamp |-> stamp, opening |-> opening']
  <2>1. /\ author \in Authors /\ stamp \in Quota!Ticks /\ stamp \in Nat
        /\ Quota!AuthorCooldown \in Nat /\ opening \in Nat /\ opening' \in Nat
        /\ \A x \in calls : x.author \in Authors /\ x.stamp \in Nat /\ x.opening \in Nat
    BY <1>1, ReqFields, SettingsAreNat, AllowType DEF Quota!Allow, Quota!TypeOK, Quota!Call,
                                                      Quota!Ticks
  <2>2. /\ opening' = opening + (IF Quota!Reset(day) THEN 1 ELSE 0)
        /\ calls' = IF yes THEN calls \cup {new} ELSE calls
        /\ authorLastReq' = [Quota!LastReq(day) EXCEPT ![author] = IF yes THEN stamp ELSE @]
        /\ dayKey' = day /\ UNCHANGED settings
    BY <1>1 DEF Quota!Allow
  <2>3. \A x \in calls' : x.opening <= opening' /\ x.opening \in Nat
    BY <2>1, <2>2
  \* An earlier call of this opening: the counters were not cleared.
  <2>4. ASSUME Quota!AuthorCooldown > 0, NEW x \in calls, x.opening = opening'
        PROVE  /\ ~Quota!Reset(day) /\ Quota!LastReq(day) = authorLastReq
               /\ authorLastReq[x.author] # None /\ x.stamp <= authorLastReq[x.author]
               /\ authorLastReq[x.author] \in Nat
    <3>1. ~Quota!Reset(day) /\ x.opening = opening
      BY <2>1, <2>2, <2>4
    <3>2. dayKey # None
      BY <1>1, <3>1, AllowType, LimiterAssumption DEF Quota!Reset, Quota!LimiterConstants
    <3>3. authorLastReq[x.author] \in Quota!Ticks \cup {None}
      BY <2>1 DEF Quota!TypeOK
    <3>4. authorLastReq[x.author] # None /\ x.stamp <= authorLastReq[x.author]
      BY <2>4, <3>1, <3>2
    <3> QED BY <3>1, <3>3, <3>4 DEF Quota!LastReq, Quota!Ticks
  <2>5. ASSUME Quota!AuthorCooldown > 0, yes,
               NEW x \in calls, x.opening = opening', x.author = author
        PROVE  stamp - x.stamp >= Quota!AuthorCooldown /\ x.stamp <= stamp
    <3>1. Quota!CooledOff(authorLastReq[author], stamp)
      BY <2>4, <2>5 DEF Quota!Allows
    <3> QED BY <2>1, <2>4, <2>5, <3>1 DEF Quota!CooledOff
  <2>6. Quota!AuthorCooldown > 0 => \A x \in calls' : x.opening = opening' =>
            authorLastReq'[x.author] # None /\ x.stamp <= authorLastReq'[x.author]
    <3> SUFFICES ASSUME Quota!AuthorCooldown > 0, NEW x \in calls', x.opening = opening'
                 PROVE  authorLastReq'[x.author] # None /\ x.stamp <= authorLastReq'[x.author]
      OBVIOUS
    <3>0. Quota!LastReq(day) \in [Authors -> Quota!Ticks \cup {None}] /\ stamp # None
      BY <2>1, LimiterAssumption DEF Quota!TypeOK, Quota!LastReq, Quota!LimiterConstants
    <3>1. CASE x \in calls /\ ~(yes /\ x.author = author)
      <4>1. authorLastReq'[x.author] = Quota!LastReq(day)[x.author]
        BY <2>1, <2>2, <3>0, <3>1
      <4> QED BY <2>4, <3>1, <4>1
    <3>2. CASE yes /\ x.author = author
      <4>1. authorLastReq'[x.author] = stamp
        BY <2>1, <2>2, <3>0, <3>2
      <4>2. x.stamp <= stamp
        <5>1. CASE x \in calls
          BY <2>5, <3>2, <5>1
        <5>2. CASE x = new
          BY <2>1, <5>2
        <5> QED BY <2>2, <3>2, <5>1, <5>2
      <4> QED BY <3>0, <4>1, <4>2
    <3> QED BY <2>2, <3>1, <3>2
  <2>7. Quota!CooldownKept'
    <3> SUFFICES ASSUME NEW x \in calls', NEW y \in calls', x.r # y.r, x.author = y.author,
                        x.opening = y.opening
                 PROVE  \/ x.stamp - y.stamp >= Quota!AuthorCooldown
                        \/ y.stamp - x.stamp >= Quota!AuthorCooldown
      BY <2>2 DEF Quota!CooldownKept, Quota!AuthorCooldown
    <3>1. CASE x \in calls /\ y \in calls
      BY <3>1 DEF Quota!CooldownKept
    <3>2. CASE yes /\ x = new /\ y \in calls /\ Quota!AuthorCooldown > 0
      BY <2>5, <3>2
    <3>3. CASE yes /\ y = new /\ x \in calls /\ Quota!AuthorCooldown > 0
      BY <2>5, <3>3
    <3>4. CASE Quota!AuthorCooldown = 0
      <4>1. x.stamp \in Nat /\ y.stamp \in Nat
        BY <2>1, <2>2
      <4> QED BY <3>4, <4>1
    <3> QED BY <2>1, <2>2, <3>1, <3>2, <3>3, <3>4
  <2>8. Quota!AuthorCooldown' = Quota!AuthorCooldown
    BY <2>2 DEF Quota!AuthorCooldown
  <2> QED BY <2>3, <2>6, <2>7, <2>8
<1>2. CASE UNCHANGED <<settings, dayKey, authorLastReq, opening, calls>>
  BY <1>2 DEF Quota!CooldownKept, Quota!AuthorCooldown
<1>3. CASE Quota!Restart
  BY <1>3 DEF Quota!Restart, Quota!history, Quota!CooldownKept, Quota!AuthorCooldown
<1>4. CASE Quota!Tick \/ UNCHANGED Quota!vars \/ (\E r \in Replies :
                Quota!Arrive(r) \/ Quota!GenerateReply(r) \/ Quota!MarkQuotaExhausted(r))
  BY <1>2, <1>4 DEF Quota!Tick, Quota!vars, Quota!Arrive, Quota!GenerateReply,
                    Quota!MarkQuotaExhausted, Quota!limiter, Quota!history
<1> QED BY <1>1, <1>3, <1>4 DEF Quota!Next

(* Between two clearings of the counters any two calls of an author are a      *)
(* cooldown apart, also when their requests overtake one another.              *)
THEOREM CooldownHolds == Quota!Spec => []Quota!CooldownKept
<1>1. Quota!Init => Quota!TypeOK /\ CoolInv
  BY LimiterTypeInit DEF Quota!Init, CoolInv, Quota!CooldownKept
<1>2. Quota!TypeOK /\ CoolInv /\ [Quota!Next]_(Quota!vars) => Quota!TypeOK' /\ CoolInv'
  BY LimiterTypeStep, CoolStep
<1>3. CoolInv => Quota!CooldownKept
  BY DEF CoolInv
<1> QED BY <1>1, <1>2, <1>3, PTL DEF Quota!Spec

-------------------------------------------------------------------------------
(* The day's limits.  Of a set S of calls under one limit, a day later than   *)
(* the counters' day can have a full limit for each of the n restarts and      *)
(* stale requests so far, the counters' day also what they hold, and an        *)
(* earlier day a limit more.                                                   *)

Allowance(limit, used, key, n, d) ==
    limit * n + (IF key = None THEN 0
                 ELSE IF d > key THEN 0
                 ELSE IF d = key THEN used ELSE limit)

On(S, d) == {x \in S : Quota!DayOf(x.stamp) = d}

Within(S, limit, used, key, n) ==
    \A d \in Quota!Days : Cardinality(On(S, d)) <= Allowance(limit, used, key, n, d)

LEMMA Times ==
    ASSUME NEW limit \in Nat, NEW n \in Nat
    PROVE  limit * n \in Nat /\ limit * (n + 1) = limit * n + limit
  OBVIOUS

LEMMA OnFinite ==
    ASSUME NEW S, IsFiniteSet(S), NEW d
    PROVE  IsFiniteSet(On(S, d)) /\ Cardinality(On(S, d)) \in Nat
<1>1. On(S, d) \subseteq S
  BY DEF On
<1> QED BY <1>1, FS_Subset, FS_CardinalityType

(* The counters see a request of the given day, and clear what is of another; *)
(* to set them back to an earlier day costs a limit more.                      *)
LEMMA WithinReset ==
    ASSUME NEW S, IsFiniteSet(S), NEW limit \in Nat, NEW used \in 0..limit,
           NEW key \in Nat \cup {None}, NEW n \in Nat, NEW day \in Nat,
           Within(S, limit, used, key, n)
    PROVE  Within(S, limit, IF key # day THEN 0 ELSE used, day,
                  n + IF key # None /\ day < key THEN 1 ELSE 0)
<1> SUFFICES ASSUME NEW d \in Quota!Days
             PROVE  Cardinality(On(S, d)) <=
                       Allowance(limit, IF key # day THEN 0 ELSE used, day,
                                 n + IF key # None /\ day < key THEN 1 ELSE 0, d)
  BY DEF Within
<1>1. d \in Nat /\ Cardinality(On(S, d)) \in Nat
  BY DaysAreNat, OnFinite
<1>2. limit * n \in Nat /\ limit * (n + 1) = limit * n + limit
  BY Times
<1>3. Cardinality(On(S, d)) <= Allowance(limit, used, key, n, d)
  BY DEF Within
<1>4. None \notin Nat
  BY LimiterAssumption DEF Quota!LimiterConstants
<1>5. CASE key = None
  BY <1>1, <1>2, <1>3, <1>4, <1>5 DEF Allowance
<1>6. CASE key \in Nat /\ day < key
  BY <1>1, <1>2, <1>3, <1>4, <1>6 DEF Allowance
<1>7. CASE key \in Nat /\ ~(day < key)
  BY <1>1, <1>2, <1>3, <1>4, <1>7 DEF Allowance
<1> QED BY <1>5, <1>6, <1>7

(* One call more on the counters' day. *)
LEMMA WithinCall ==
    ASSUME NEW S, IsFiniteSet(S), NEW limit \in Nat, NEW used \in Nat,
           NEW day \in Nat, NEW n \in Nat, NEW new, Quota!DayOf(new.stamp) = day,
           Within(S, limit, used, day, n)
    PROVE  Within(S \cup {new}, limit, used + 1, day, n)
<1> SUFFICES ASSUME NEW d \in Quota!Days
             PROVE  Cardinality(On(S \cup {new}, d)) <= Allowance(limit, used + 1, day, n, d)
  BY DEF Within
<1>1. /\ Cardinality(On(S, d)) <= Allowance(limit, used, day, n, d)
      /\ IsFiniteSet(On(S, d)) /\ Cardinality(On(S, d)) \in Nat
  BY OnFinite DEF Within
<1>2. /\ limit * n \in Nat /\ day # None
  BY Times, LimiterAssumption DEF Quota!LimiterConstants
<1>3. CASE d = day
  <2>1. On(S \cup {new}, d) = On(S, d) \cup {new}
    BY <1>3 DEF On
  <2>2. \/ Cardinality(On(S, d) \cup {new}) = Cardinality(On(S, d))
        \/ Cardinality(On(S, d) \cup {new}) = Cardinality(On(S, d)) + 1
    <3> DEFINE T == On(S, d)
    <3>1. IsFiniteSet(T)
      BY <1>1
    <3> HIDE DEF T
    <3>2. Cardinality(T \cup {new}) = IF new \in T THEN Cardinality(T) ELSE Cardinality(T) + 1
      BY <3>1, FS_AddElement
    <3> QED BY <3>2 DEF T
  <2>4. /\ Allowance(limit, used, day, n, d) = limit * n + used
        /\ Allowance(limit, used + 1, day, n, d) = limit * n + (used + 1)
    BY <1>2, <1>3, DaysAreNat DEF Allowance
  <2> DEFINE before == Cardinality(On(S, d))
             after  == Cardinality(On(S \cup {new}, d))
             full   == limit * n
  <2>5. /\ before \in Nat /\ full \in Nat /\ before <= full + used
        /\ after = before \/ after = before + 1
    BY <1>1, <1>2, <2>1, <2>2, <2>4
  <2>6. after <= full + (used + 1)
    <3> HIDE DEF before, after, full
    <3> QED BY <2>5
  <2> QED BY <2>4, <2>6
<1>4. CASE d # day
  <2>1. On(S \cup {new}, d) = On(S, d)
    BY <1>4 DEF On
  <2> QED BY <1>1, <1>2, <1>4, <2>1 DEF Allowance
<1> QED BY <1>3, <1>4

LEMMA WithinRestart ==
    ASSUME NEW S, IsFiniteSet(S), NEW limit \in Nat, NEW used \in 0..limit,
           NEW key \in Nat \cup {None}, NEW n \in Nat,
           Within(S, limit, used, key, n)
    PROVE  Within(S, limit, 0, None, n + 1)
<1> SUFFICES ASSUME NEW d \in Quota!Days
             PROVE  Cardinality(On(S, d)) <= Allowance(limit, 0, None, n + 1, d)
  BY DEF Within
<1> QED BY Times, DaysAreNat, OnFinite DEF Within, Allowance

(* What Within says of every day. *)
LEMMA WithinBound ==
    ASSUME NEW S, IsFiniteSet(S), NEW limit \in Nat, NEW used \in 0..limit,
           NEW key \in Nat \cup {None}, NEW n \in Nat,
           Within(S, limit, used, key, n), NEW d \in Quota!Days
    PROVE  Cardinality(On(S, d)) <= limit * (1 + n)
<1>1. limit * (1 + n) = limit * n + limit /\ limit * n \in Nat
  BY Times
<1>2. Cardinality(On(S, d)) <= Allowance(limit, used, key, n, d) /\ Cardinality(On(S, d)) \in Nat
  BY OnFinite DEF Within
<1> QED BY <1>1, <1>2, DaysAreNat DEF Allowance

-------------------------------------------------------------------------------
(* The invariant: the day's calls and each author's share of them are within  *)
(* what the counters, the restarts and the stale requests allow.               *)

By(author) == {x \in calls : x.author = author}

BudgetInv ==
    /\ IsFiniteSet(calls)
    /\ Quota!DailyGlobalLimit > 0 =>
          Within(calls, Quota!DailyGlobalLimit, globalCount, dayKey, restarts + stale)
    /\ Quota!DailyPerAuthor > 0 =>
          \A a \in Authors :
              Within(By(a), Quota!DailyPerAuthor, authorCount[a], dayKey, restarts + stale)

LEMMA ByFinite == ASSUME IsFiniteSet(calls), NEW a PROVE IsFiniteSet(By(a))
<1>1. By(a) \subseteq calls
  BY DEF By
<1> QED BY <1>1, FS_Subset

LEMMA BudgetInit == ASSUME Quota!Init PROVE BudgetInv
<1>1. calls = {} /\ restarts + stale = 0 /\ dayKey = None
  BY DEF Quota!Init
<1>2. \A d : On(calls, d) = {} /\ \A a : On(By(a), d) = {}
  BY <1>1 DEF On, By
<1>3. Quota!DailyGlobalLimit * 0 = 0 /\ Quota!DailyPerAuthor * 0 = 0
  BY LimiterTypeInit, SettingsAreNat
<1> QED BY <1>1, <1>2, <1>3, FS_EmptySet DEF BudgetInv, Within, Allowance

LEMMA BudgetStep ==
    ASSUME Quota!TypeOK, BudgetInv, [Quota!Next]_(Quota!vars)
    PROVE  BudgetInv'
<1> DEFINE n == restarts + stale
<1>0. /\ Quota!DailyGlobalLimit \in Nat /\ Quota!DailyPerAuthor \in Nat
      /\ dayKey \in Nat \cup {None} /\ restarts \in Nat /\ stale \in Nat /\ n \in Nat
      /\ Quota!DailyGlobalLimit > 0 => globalCount \in 0..Quota!DailyGlobalLimit
      /\ Quota!DailyPerAuthor > 0 => \A a \in Authors : authorCount[a] \in 0..Quota!DailyPerAuthor
  <2>1. restarts \in Nat
    BY LimiterAssumption DEF Quota!LimiterConstants, Quota!TypeOK
  <2>2. Quota!DailyPerAuthor > 0 => \A a \in Authors : authorCount[a] \in 0..Quota!DailyPerAuthor
    BY DEF Quota!TypeOK, Quota!Upto
  <2> QED BY <2>1, <2>2, SettingsAreNat DEF Quota!TypeOK, Quota!Upto
<1>1. ASSUME NEW r \in Replies, Quota!Allow(r) PROVE BudgetInv'
  <2> DEFINE author == req[r].author
             stamp  == req[r].stamp
             day    == Quota!DayOf(stamp)
             yes    == Quota!Allows(author, stamp)
             new    == [r |-> r, author |-> author, stamp |-> stamp, opening |-> opening']
             m      == n + IF dayKey # None /\ day < dayKey THEN 1 ELSE 0
  <2>1. author \in Authors /\ day \in Nat /\ dayKey' = day
    BY <1>1, ReqFields, AllowType DEF Quota!Allow, Quota!TypeOK
  <2>2. restarts' + stale' = m /\ m \in Nat
    <3>1. restarts' = restarts /\ stale' = stale + IF dayKey # None /\ day < dayKey THEN 1 ELSE 0
      BY <1>1 DEF Quota!Allow
    <3> QED BY <1>0, <3>1
  <2>3. /\ calls' = IF yes THEN calls \cup {new} ELSE calls
        /\ UNCHANGED settings
        /\ Quota!DailyGlobalLimit' = Quota!DailyGlobalLimit
        /\ Quota!DailyPerAuthor' = Quota!DailyPerAuthor
    BY <1>1 DEF Quota!Allow, Quota!DailyGlobalLimit, Quota!DailyPerAuthor
  <2>4. IsFiniteSet(calls')
    BY <2>3, FS_AddElement DEF BudgetInv
  <2>5. ASSUME Quota!DailyGlobalLimit > 0
        PROVE  Within(calls', Quota!DailyGlobalLimit, globalCount', day, m)
    <3>1. Within(calls, Quota!DailyGlobalLimit, Quota!Global(day), day, m)
      BY <1>0, <2>1, <2>5, WithinReset DEF BudgetInv, Quota!Global, Quota!Reset
    <3>2. globalCount' = Quota!Global(day) + IF yes THEN 1 ELSE 0
      BY <1>1 DEF Quota!Allow
    <3>3. Quota!Global(day) \in Nat
      BY <1>0, <2>5 DEF Quota!Global
    <3>4. CASE yes
      BY <1>0, <2>1, <2>2, <2>3, <3>1, <3>2, <3>3, <3>4, WithinCall DEF BudgetInv
    <3>5. CASE ~yes
      BY <2>3, <3>1, <3>2, <3>3, <3>5
    <3> QED BY <3>4, <3>5
  <2>6. ASSUME Quota!DailyPerAuthor > 0, NEW a \in Authors
        PROVE  Within(By(a)', Quota!DailyPerAuthor, authorCount'[a], day, m)
    <3>1. /\ Quota!Author(day)[a] = (IF dayKey # day THEN 0 ELSE authorCount[a])
          /\ Quota!Author(day)[a] \in Nat
      BY <1>0, <2>6 DEF Quota!Author, Quota!Reset
    <3>2. Within(By(a), Quota!DailyPerAuthor, Quota!Author(day)[a], day, m)
      <4>1. /\ Within(By(a), Quota!DailyPerAuthor, authorCount[a], dayKey, n)
            /\ IsFiniteSet(By(a)) /\ authorCount[a] \in 0..Quota!DailyPerAuthor
        BY <1>0, <2>6, ByFinite DEF BudgetInv
      <4>2. Within(By(a), Quota!DailyPerAuthor, IF dayKey # day THEN 0 ELSE authorCount[a], day, m)
        <5> HIDE DEF n, day
        <5> QED BY <1>0, <2>1, <4>1, WithinReset
      <4> QED BY <3>1, <4>2
    <3>3. authorCount'[a] = Quota!Author(day)[a] + IF yes /\ a = author THEN 1 ELSE 0
      <4>1. authorCount' = [Quota!Author(day) EXCEPT ![author] = @ + IF yes THEN 1 ELSE 0]
        BY <1>1 DEF Quota!Allow
      <4>2. Quota!Author(day) \in [Authors -> Quota!Upto(Quota!DailyPerAuthor)]
        BY <1>0, <2>6 DEF Quota!Author, Quota!TypeOK, Quota!Upto
      <4> QED BY <2>1, <3>1, <4>1, <4>2
    <3>4. CASE yes /\ a = author
      <4>1. By(a)' = By(a) \cup {new}
        BY <2>3, <3>4 DEF By
      <4>2. IsFiniteSet(By(a)) /\ Quota!DayOf(new.stamp) = day
        BY ByFinite DEF BudgetInv
      <4>3. Within(By(a) \cup {new}, Quota!DailyPerAuthor, Quota!Author(day)[a] + 1, day, m)
        <5> HIDE DEF n, day, m, new
        <5> QED BY <1>0, <2>1, <2>2, <3>1, <3>2, <4>2, WithinCall
      <4> QED BY <3>1, <3>3, <3>4, <4>1, <4>3
    <3>5. CASE ~(yes /\ a = author)
      <4>1. By(a)' = By(a)
        BY <2>3, <3>5 DEF By
      <4> QED BY <3>1, <3>2, <3>3, <3>5, <4>1
    <3> QED BY <3>4, <3>5
  <2> QED BY <2>1, <2>2, <2>3, <2>4, <2>5, <2>6 DEF BudgetInv
<1>2. CASE Quota!Restart
  <2>1. /\ UNCHANGED <<settings, calls, stale>> /\ restarts' = restarts + 1
        /\ dayKey' = None /\ globalCount' = 0 /\ \A a \in Authors : authorCount'[a] = 0
    BY <1>2 DEF Quota!Restart, Quota!history
  <2>2. restarts' + stale' = n + 1
    BY <1>0, <2>1
  <2>3. Quota!DailyGlobalLimit > 0 => Within(calls, Quota!DailyGlobalLimit, 0, None, n + 1)
    BY <1>0, WithinRestart DEF BudgetInv
  <2>4. ASSUME Quota!DailyPerAuthor > 0, NEW a \in Authors
        PROVE  Within(By(a), Quota!DailyPerAuthor, 0, None, n + 1)
    BY <1>0, <2>4, ByFinite, WithinRestart DEF BudgetInv
  <2>5. \A a : By(a)' = By(a)
    BY <2>1 DEF By
  <2> QED BY <2>1, <2>2, <2>3, <2>4, <2>5 DEF BudgetInv, Quota!DailyGlobalLimit,
                                              Quota!DailyPerAuthor
<1>3. CASE UNCHANGED <<settings, dayKey, globalCount, authorCount, restarts, stale, calls>>
  BY <1>3 DEF BudgetInv, By, Quota!DailyGlobalLimit, Quota!DailyPerAuthor
<1>4. CASE Quota!Tick \/ UNCHANGED Quota!vars \/ (\E r \in Replies :
                Quota!Arrive(r) \/ Quota!GenerateReply(r) \/ Quota!MarkQuotaExhausted(r))
  BY <1>3, <1>4 DEF Quota!Tick, Quota!vars, Quota!Arrive, Quota!GenerateReply,
                    Quota!MarkQuotaExhausted, Quota!limiter, Quota!history
<1> QED BY <1>1, <1>2, <1>4 DEF Quota!Next

(* The limiter counts as every module counts. *)
LEMMA SameCount == \A S : Quota!Cardinality(S) = Cardinality(S)
  BY DEF Quota!Cardinality, Cardinality

LEMMA BudgetLimits ==
    ASSUME Quota!TypeOK, BudgetInv
    PROVE  Quota!DailyLimit /\ Quota!AuthorLimit
<1>1. /\ Quota!DailyGlobalLimit \in Nat /\ Quota!DailyPerAuthor \in Nat
      /\ dayKey \in Nat \cup {None} /\ restarts \in Nat /\ stale \in Nat
      /\ restarts + stale \in Nat /\ 1 + restarts + stale = 1 + (restarts + stale)
  <2>1. restarts \in Nat
    BY LimiterAssumption DEF Quota!LimiterConstants, Quota!TypeOK
  <2> QED BY <2>1, SettingsAreNat DEF Quota!TypeOK
<1>2. Quota!DailyLimit
  <2> SUFFICES ASSUME Quota!DailyGlobalLimit > 0, NEW d \in Quota!Days
               PROVE  Cardinality(Quota!CallsOn(d)) <=
                         Quota!DailyGlobalLimit * (1 + restarts + stale)
    BY SameCount DEF Quota!DailyLimit
  <2>1. globalCount \in 0..Quota!DailyGlobalLimit
    BY DEF Quota!TypeOK, Quota!Upto
  <2>2. Quota!CallsOn(d) = On(calls, d)
    BY DEF Quota!CallsOn, On
  <2> QED BY <1>1, <2>1, <2>2, WithinBound DEF BudgetInv
<1>3. Quota!AuthorLimit
  <2> SUFFICES ASSUME Quota!DailyPerAuthor > 0, NEW d \in Quota!Days, NEW a \in Authors
               PROVE  Cardinality(Quota!CallsBy(a, d)) <=
                         Quota!DailyPerAuthor * (1 + restarts + stale)
    BY SameCount DEF Quota!AuthorLimit
  <2>1. authorCount[a] \in 0..Quota!DailyPerAuthor
    BY DEF Quota!TypeOK, Quota!Upto
  <2>2. Quota!CallsBy(a, d) = On(By(a), d)
    BY DEF Quota!CallsBy, Quota!CallsOn, On, By
  <2> QED BY <1>1, <2>1, <2>2, ByFinite, WithinBound DEF BudgetInv
<1> QED BY <1>2, <1>3

(* A day's calls and each author's share of them stay within their limits: the *)
(* limit once, and once more for each restart and each request that came to     *)
(* the lock after one of a later day.                                           *)
THEOREM LimitsHold == Quota!Spec => [](Quota!DailyLimit /\ Quota!AuthorLimit)
<1>1. Quota!Init => Quota!TypeOK /\ BudgetInv
  BY LimiterTypeInit, BudgetInit
<1>2. Quota!TypeOK /\ BudgetInv /\ [Quota!Next]_(Quota!vars) => Quota!TypeOK' /\ BudgetInv'
  BY LimiterTypeStep, BudgetStep
<1>3. Quota!TypeOK /\ BudgetInv => Quota!DailyLimit /\ Quota!AuthorLimit
  BY BudgetLimits
<1> QED BY <1>1, <1>2, <1>3, PTL DEF Quota!Spec

-------------------------------------------------------------------------------
(* The clock the engine reads is a time of day. *)
LEMMA ClockStep == clock \in Nat /\ [AutoReplyNext]_allVars => (clock \in Nat)'
<1> SUFFICES ASSUME clock \in Nat, AutoReplyNext PROVE clock' \in Nat
  BY DEF allVars, quotaVars
<1>1. CASE ChangeRules \/ (\E q \in Replies : ListRules(q) \/ EvaluateRules(q))
  BY <1>1 DEF ChangeRules, ListRules, EvaluateRules, quotaVars
<1>2. ASSUME NEW q \in Replies, Decide(q) \/ AskAI(q) PROVE clock' \in Nat
  BY <1>2 DEF Decide, AskAI, Quota!Arrive, Quota!Allow, Quota!GenerateReply,
              Quota!MarkQuotaExhausted
<1>3. CASE Tick
  BY <1>3 DEF Tick, Quota!Tick
<1>4. CASE RestartService
  BY <1>4 DEF RestartService, Quota!Restart
<1> QED BY <1>1, <1>2, <1>3, <1>4 DEF AutoReplyNext

(* Every step of the service is a step of the rule store, or none of its own. *)
LEMMA RulesStep == clock \in Nat /\ [AutoReplyNext]_allVars => [Next]_vars
<1> SUFFICES ASSUME clock \in Nat, AutoReplyNext PROVE [Next]_vars
  BY DEF allVars
<1>1. CASE ChangeRules
  BY <1>1 DEF ChangeRules, Next
<1>2. ASSUME NEW q \in Replies, ListRules(q) \/ Decide(q) PROVE Next
  BY <1>2 DEF ListRules, Decide, Next
<1>3. ASSUME NEW q \in Replies, EvaluateRules(q) PROVE Next
  <2>1. clock % Day \in Clock
    BY RuleStoreAssumption DEF Clock
  <2> QED BY <1>3, <2>1 DEF EvaluateRules, Next
<1>4. CASE Tick \/ (\E q \in Replies : AskAI(q))
  BY <1>4 DEF Tick, AskAI
<1>5. CASE RestartService
  BY <1>5 DEF RestartService, Next
<1> QED BY <1>1, <1>2, <1>3, <1>4, <1>5 DEF AutoReplyNext

(* The service implements the rule store. *)
THEOREM ServiceImplementsRules == AutoReplySpec => Spec
<1>1. AutoReplyInit => Init /\ clock \in Nat
  BY DEF AutoReplyInit, Quota!Init
<1> QED BY <1>1, ClockStep, RulesStep, PTL DEF AutoReplySpec, Spec

(* So the service keeps what its API acknowledged, and the rules' types.      *)
THEOREM ServiceKeepsRules == AutoReplySpec => [](TypeOK /\ Acknowledged)
  BY ServiceImplementsRules, TypeCorrect, AcknowledgedKept, PTL

(* Every reply of the service follows the best rule of the list it copied,     *)
(* however rules, clock and limiter move on meanwhile.                         *)
THEOREM ServiceRepliesBest == AutoReplySpec => []BestRule
  BY ServiceImplementsRules, BestRuleHolds, PTL

(* And an acknowledged deletion of a rule is undone by a POST only.           *)
THEOREM ServiceKeepsDeletions == AutoReplySpec => DeletedStaysDeleted
  BY ServiceImplementsRules, DeletionKept, PTL

-------------------------------------------------------------------------------
(* Every step of the service is a step of the limiter, or none of its own. *)
LEMMA LimiterStep == [AutoReplyNext]_allVars => [Quota!Next]_(Quota!vars)
<1> SUFFICES ASSUME AutoReplyNext PROVE Quota!Next \/ UNCHANGED Quota!vars
  BY DEF allVars, quotaVars, Quota!vars, Quota!limiter, Quota!history
<1>1. CASE ChangeRules \/ (\E q \in Replies : ListRules(q) \/ EvaluateRules(q))
  <2>1. UNCHANGED quotaVars
    BY <1>1 DEF ChangeRules, ListRules, EvaluateRules
  <2> QED BY <2>1 DEF quotaVars, Quota!vars, Quota!limiter, Quota!history
<1>2. CASE (\E q \in Replies : Decide(q) \/ AskAI(q)) \/ Tick \/ RestartService
  BY <1>2 DEF Decide, AskAI, Tick, RestartService, Quota!Next
<1> QED BY <1>1, <1>2 DEF AutoReplyNext

(* The service implements the limiter. *)
THEOREM ServiceImplementsLimiter == AutoReplySpec => Quota!Spec
<1>1. AutoReplyInit => Quota!Init
  BY DEF AutoReplyInit
<1> QED BY <1>1, LimiterStep, PTL DEF AutoReplySpec, Quota!Spec

(* So the calls of the AI that the rules let through keep the day's limit and  *)
(* each author's share of it, once, and once more for each restart and each    *)
(* request that set the day back.                                              *)
THEOREM ServiceKeepsLimits == AutoReplySpec => []DailyLimits
  BY ServiceImplementsLimiter, LimitsHold, PTL DEF DailyLimits

(* And every author's cooldown. *)
THEOREM ServiceKeepsCooldown == AutoReplySpec => []CooldownKept
<1>1. CooldownKept <=> Quota!CooldownKept
  BY DEF CooldownKept
<1> QED BY <1>1, ServiceImplementsLimiter, CooldownHolds, PTL
===============================================================================
