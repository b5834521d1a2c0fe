------------------------------ MODULE RuleStore ------------------------------
(***************************************************************************)
(* auto-reply: the store of the reply rules, in memory and in a JSON file, *)
(* the HTTP handlers that change it, and the rule engine that picks the    *)
(* rule for a comment.                                                     *)
(*                                                                         *)
(* Every operation of the store is atomic under its lock.  What is not:    *)
(* PUT reads the rule, changes the copy and writes it back, and a reply is *)
(* decided on a copy of the list.  A change is made in memory before it is *)
(* saved, and stays there when the file cannot be written.                 *)
(*                                                                         *)
(* The clock has Day minutes.  A comment is the set of the keywords that   *)
(* occur in it.                                                            *)
(***************************************************************************)
EXTENDS Integers, FiniteSetsExt

CONSTANTS
    Ids,         \* rule ids: numbers, in the order of the names they stand for
    Requests,    \* concurrent PUT requests
    Replies,     \* concurrent POST /reply requests
    Keywords,    \* keywords of the rules
    Day,         \* minutes of a day
    Bodies,      \* rules, without the id, a POST may bring
    Patches,     \* the fields a PUT may bring
    FirstRules,  \* the rules in the file at first
    MaxChanges,  \* bound: how many changes are begun
    MaxFaults,   \* bound: how many saves fail
    None,        \* no rule, no request, no window
    Unknown      \* nothing is promised

Clock  == 0..(Day - 1)
Window == [from : Clock, to : Clock] \cup {None}
\* broken: a template of the rule cannot be rendered; validateRule accepts it.
Field  == [priority |-> Int, window |-> Window, keywords |-> SUBSET Keywords,
           enabled |-> BOOLEAN, broken |-> BOOLEAN]
Body   == [priority : Int, window : Window, keywords : SUBSET Keywords,
           enabled : BOOLEAN, broken : BOOLEAN]

ASSUME RuleStoreAssumption ==
    /\ IsFiniteSet(Ids) /\ Ids \subseteq Int
    /\ Day \in Nat \ {0}
    /\ Bodies \subseteq Body
    /\ \A p \in Patches :
          /\ DOMAIN p \subseteq DOMAIN Field
          /\ \A f \in DOMAIN p : p[f] \in Field[f]
    /\ DOMAIN FirstRules \subseteq Ids /\ \A i \in DOMAIN FirstRules : FirstRules[i] \in Body
    /\ MaxChanges \in Nat /\ MaxFaults \in Nat
    /\ None \notin Ids \cup Body /\ Unknown \notin Body \cup {None}

VARIABLES
    rules,     \* RuleStore.rules: the bodies by id (the slice is sorted by a key)
    file,      \* the rules in the file
    puts,      \* PUT requests between GetRule and UpdateRule
    reply,     \* of each reply request: the rules it copied, then what it decided
    changes,   \* changes begun so far
    faults,    \* failed saves so far
    promised   \* history: what the API last promised of an id

vars == <<rules, file, puts, reply, changes, faults, promised>>

\* A reply request between its steps: what it holds of the rules.
NoReply    == [pc |-> "idle"]
Listed(q)  == reply[q].pc = "listed"
Decided(q) == reply[q].pc = "decided"

With(bodies, i, body) == [j \in DOMAIN bodies \cup {i} |-> IF j = i THEN body ELSE bodies[j]]
Without(bodies, i)    == [j \in DOMAIN bodies \ {i} |-> bodies[j]]
Stored(bodies, i)     == IF i \in DOMAIN bodies THEN bodies[i] ELSE None
Patched(body, patch)  == [f \in DOMAIN body |-> IF f \in DOMAIN patch THEN patch[f] ELSE body[f]]
-----------------------------------------------------------------------------
(* RuleStore *)

\* Mutant: saveLocked writes the file in place, and what fails leaves it empty.
SavedInPlace(new, i) ==
    /\ rules' = new
    /\ \/ /\ file' = new
          /\ promised' = [promised EXCEPT ![i] = Stored(new, i)]
          /\ UNCHANGED faults
       \/ /\ faults < MaxFaults /\ faults' = faults + 1
          /\ file' = <<>>
          /\ promised' = [promised EXCEPT ![i] = Unknown]

\* saveLocked writes a second file and renames it.  When that fails the request
\* fails, but memory keeps the change.
Saved(new, i) ==
    /\ rules' = new
    /\ \/ /\ file' = new
          /\ promised' = [promised EXCEPT ![i] = Stored(new, i)]
          /\ UNCHANGED faults
       \/ /\ faults < MaxFaults /\ faults' = faults + 1
          /\ promised' = [promised EXCEPT ![i] = Unknown]
          /\ UNCHANGED file

\* The id of a new rule, taken from the request or generated.
Free(i) == i \notin DOMAIN rules

Begin == changes < MaxChanges /\ changes' = changes + 1

\* Mutant: the new rule is not saved.
CreateUnsaved(i, body) ==
    /\ Begin
    /\ Free(i)
    /\ rules' = With(rules, i, body)
    /\ promised' = [promised EXCEPT ![i] = body]
    /\ UNCHANGED <<file, puts, reply, faults>>

\* POST; an id that exists is refused, and an id it leaves out is a new one.
Create(i, body) ==
    /\ Begin
    /\ Free(i)
    /\ Saved(With(rules, i, body), i)
    /\ UNCHANGED <<puts, reply>>

Delete(i) ==
    /\ Begin
    /\ i \in DOMAIN rules
    /\ Saved(Without(rules, i), i)
    /\ UNCHANGED <<puts, reply>>

\* Mutant: the store does not look whether the rule is still there.
UpdateOrInsert(r) ==
    /\ puts[r] # None
    /\ puts' = [puts EXCEPT ![r] = None]
    /\ Saved(With(rules, puts[r].id, puts[r].body), puts[r].id)
    /\ UNCHANGED <<reply, changes>>

Update(r) ==
    /\ puts[r] # None
    /\ puts' = [puts EXCEPT ![r] = None]
    /\ \/ /\ puts[r].id \in DOMAIN rules
          /\ Saved(With(rules, puts[r].id, puts[r].body), puts[r].id)
       \/ /\ puts[r].id \notin DOMAIN rules   \* ErrRuleNotFound
          /\ UNCHANGED <<rules, file, faults, promised>>
    /\ UNCHANGED <<reply, changes>>

\* The handler's GetRule, and its changes to the copy.
Get(r, i, patch) ==
    /\ Begin
    /\ puts[r] = None /\ i \in DOMAIN rules
    /\ puts' = [puts EXCEPT ![r] = [id |-> i, body |-> Patched(rules[i], patch)]]
    /\ UNCHANGED <<rules, file, reply, faults, promised>>

\* loadFromFile; the requests under way are lost.
Restart ==
    /\ rules' = file
    /\ puts' = [r \in Requests |-> None]
    /\ reply' = [q \in Replies |-> NoReply]
    /\ UNCHANGED <<file, changes, faults, promised>>
-----------------------------------------------------------------------------
(* RuleEngine *)

\* Mutant: a window across midnight is never open.
InTimeWindowSameDay(now, w) == w = None \/ w.from = w.to \/ (now >= w.from /\ now < w.to)

InTimeWindow(now, w) ==
    \/ w = None \/ w.from = w.to
    \/ w.from < w.to /\ now >= w.from /\ now < w.to
    \/ w.from > w.to /\ (now >= w.from \/ now < w.to)

KeywordMatch(words, keywords) == keywords = {} \/ keywords \cap words # {}

\* The order of the engine's sort; the store keeps its slice in the same order.
Before(bodies, i, j) ==
    \/ bodies[i].priority > bodies[j].priority
    \/ bodies[i].priority = bodies[j].priority /\ i < j

\* The engine's copy of the list, in its order.
Sorted(bodies) ==
    CHOOSE order \in [1..Cardinality(DOMAIN bodies) -> DOMAIN bodies] :
        /\ \A i \in DOMAIN bodies : \E n \in DOMAIN order : order[n] = i
        /\ \A m, n \in DOMAIN order : m < n => Before(bodies, order[m], order[n])

\* What the loop does not skip.
Matches(body, now, words) ==
    /\ body.enabled
    /\ InTimeWindow(now, body.window)
    /\ KeywordMatch(words, body.keywords)

\* The loop ends at the first rule that matches.
FirstMatch(bodies, now, words) ==
    LET order == Sorted(bodies)
        found == {n \in DOMAIN order : Matches(bodies[order[n]], now, words)}
    IN  IF found = {} THEN None ELSE order[Min(found)]

\* One of the rule's templates is picked at random and rendered.
Renders(body) == {TRUE, ~body.broken}

\* ListRules copies the list under the lock ...
List(q) ==
    /\ reply[q] = NoReply
    /\ reply' = [reply EXCEPT ![q] = [pc |-> "listed", bodies |-> rules]]
    /\ UNCHANGED <<rules, file, puts, changes, faults, promised>>

\* ... and Evaluate takes its first match.  A template that cannot be rendered
\* fails the request; the next rule is not tried.
Evaluate(q, now, words) ==
    /\ Listed(q)
    /\ LET bodies == reply[q].bodies
           first  == FirstMatch(bodies, now, words)
       IN  \E rendered \in IF first = None THEN {FALSE} ELSE Renders(bodies[first]) :
              reply' = [reply EXCEPT ![q] =
                           [pc |-> "decided", bodies |-> bodies, now |-> now, words |-> words,
                            matched |-> first, rendered |-> rendered]]
    /\ UNCHANGED <<rules, file, puts, changes, faults, promised>>

\* The handler is done with the rules: it answers, or goes on to the limiter.
Leave(q) ==
    /\ Decided(q)
    /\ reply' = [reply EXCEPT ![q] = NoReply]
    /\ UNCHANGED <<rules, file, puts, changes, faults, promised>>

Init ==
    /\ rules = FirstRules /\ file = FirstRules
    /\ puts = [r \in Requests |-> None]
    /\ reply = [q \in Replies |-> NoReply]
    /\ changes = 0 /\ faults = 0
    /\ promised = [i \in Ids |-> Stored(FirstRules, i)]

Next ==
    \/ \E i \in Ids, body \in Bodies : Create(i, body)
    \/ \E i \in Ids : Delete(i)
    \/ \E r \in Requests, i \in Ids, patch \in Patches : Get(r, i, patch)
    \/ \E r \in Requests : Update(r)
    \/ Restart
    \/ \E q \in Replies : List(q) \/ Leave(q)
    \/ \E q \in Replies, now \in Clock, words \in SUBSET Keywords : Evaluate(q, now, words)

Spec == Init /\ [][Next]_vars
-----------------------------------------------------------------------------
IsRules(bodies) == DOMAIN bodies \subseteq Ids /\ \A i \in DOMAIN bodies : bodies[i] \in Body

ReplyTypes ==
    /\ DOMAIN reply = Replies
    /\ \A q \in Replies : reply[q] # NoReply => IsRules(reply[q].bodies)
    /\ \A q \in Replies : Decided(q) => reply[q].now \in Clock /\ reply[q].words \subseteq Keywords

\* Every variable has its type; memory and file differ only after a failed save.
TypeOK ==
    /\ IsRules(rules) /\ IsRules(file)
    /\ puts \in [Requests -> [id : Ids, body : Body] \cup {None}]
    /\ ReplyTypes
    /\ changes \in 0..MaxChanges /\ faults \in 0..MaxFaults
    /\ promised \in [Ids -> Body \cup {None, Unknown}]
    /\ faults = 0 => rules = file

\* What the API acknowledged holds, in memory and after a restart, until the
\* next change of that rule; a failed save of one rule costs no other.  Of a
\* rule whose change failed nothing is promised.
Acknowledged ==
    \A i \in Ids : promised[i] # Unknown =>
        Stored(rules, i) = promised[i] /\ Stored(file, i) = promised[i]

\* A rule whose deletion was acknowledged comes back with a POST only: not with
\* a PUT that read it before, and not with a restart.
DeletedStaysDeleted ==
    [][\A i \in Ids : promised[i] = None /\ i \in DOMAIN rules' =>
          \E body \in Bodies : Create(i, body)]_vars

\* The reference: a window is open for (to - from) minutes from its start.
Open(now, w) == w = None \/ w.from = w.to \/ (now - w.from) % Day < (w.to - w.from) % Day

Eligible(bodies, now, words) ==
    {i \in DOMAIN bodies : /\ bodies[i].enabled
                           /\ Open(now, bodies[i].window)
                           /\ bodies[i].keywords # {} => bodies[i].keywords \cap words # {}}

\* The reply follows the eligible rule of the highest priority, with the lowest
\* id among equals, whatever the history of the list; windows may cross midnight.
BestRule ==
    \A q \in Replies : Decided(q) =>
        LET bodies   == reply[q].bodies
            matched  == reply[q].matched
            eligible == Eligible(bodies, reply[q].now, reply[q].words)
        IN
        /\ matched = None <=> eligible = {}
        /\ matched # None =>
              /\ matched \in eligible
              /\ \A i \in eligible \ {matched} :
                    \/ bodies[matched].priority > bodies[i].priority
                    \/ bodies[matched].priority = bodies[i].priority /\ matched < i
===============================================================================
