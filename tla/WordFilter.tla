------------------------------ MODULE WordFilter ------------------------------
(***************************************************************************)
(* comment-filter: the word store, the Aho-Corasick automaton it keeps, and *)
(* the filter decision.                                                     *)
(*                                                                          *)
(* The words come from a file when the service starts and change through    *)
(* the words API.  Each change rebuilds the whole automaton under the       *)
(* store's write lock; a comment is matched under the read lock, and        *)
(* reviewed by the AI after the lock is released.  The breadth-first loop   *)
(* that links the trie is modelled edge by edge, because Go iterates over   *)
(* the children of a node in any order.                                     *)
(*                                                                          *)
(* A trie node is named by the characters on its path, so the root is <<>>  *)
(* and the nodes of a trie are the prefixes of its words.                   *)
(***************************************************************************)
EXTENDS Integers, Sequences, FiniteSets, FiniteSetsExt

CONSTANTS
    Chars,       \* the characters of words and comments
    Lower,       \* strings.ToLower on characters
    Blank,       \* the character that TrimSpace cuts off
    Hash,        \* the character that makes a line of the file a comment
    File,        \* the lines of the words file, which nothing writes
    Inputs,      \* what callers of the words API send
    Contents,    \* the comments to be filtered
    Texts,       \* the texts the automaton is compared with the reference on
    Requests,    \* slots for concurrent filter requests
    AIEnabled,   \* COMMENT_REVIEW_AI_ENABLED
    MaxWords,    \* bound: how many words the API lets the store grow to
    MaxRestarts  \* bound: how often the service restarts

ASSUME WordFilterAssumption ==
    /\ {Blank, Hash} \subseteq Chars
    /\ Lower \in [Chars -> Chars]
    /\ \A ch \in Chars : Lower[Lower[ch]] = Lower[ch]
    /\ \A ch \in Chars : Lower[ch] = Blank <=> ch = Blank
    /\ Lower[Hash] = Hash
    /\ IsFiniteSet(File)
    /\ File \cup Inputs \cup Contents \cup Texts \subseteq Seq(Chars)
    /\ AIEnabled \in BOOLEAN
    /\ MaxWords \in Nat /\ MaxRestarts \in Nat

VARIABLES
    words,     \* WordStore.words
    auto,      \* AhoCorasick.root: nodes, fail links and outputs in use
    build,     \* the automaton being built under the write lock, or NotBuilding
    req,       \* what each filter request is doing
    restarts   \* restarts so far

vars == <<words, auto, build, req, restarts>>

Root == <<>>

Lowered(s) == [i \in DOMAIN s |-> Lower[s[i]]]

(* Mutant: TrimSpace is forgotten. *)
NormalizeCaseOnly(word) == Lowered(word)

NormalizeWord(word) ==
    LET kept == {i \in DOMAIN word : word[i] # Blank}
    IN IF kept = {} THEN <<>> ELSE Lowered(SubSeq(word, Min(kept), Max(kept)))

-------------------------------------------------------------------------------
(* AhoCorasick *)

Nodes(W) == {Root} \cup UNION {{SubSeq(w, 1, i) : i \in DOMAIN w} : w \in W}

(* Mutant: looks at the first fail link only. *)
FollowOnce(nodes, fail, node, ch) ==
    IF Append(node, ch) \in nodes THEN Append(node, ch)
    ELSE IF node = Root THEN Root
    ELSE IF Append(fail[node], ch) \in nodes THEN Append(fail[node], ch)
    ELSE Root

(* Follow fail links from node until it has a child on ch; stop at the root. *)
Follow(nodes, fail, node, ch) ==
    LET goto[n \in nodes] ==
          IF Append(n, ch) \in nodes THEN Append(n, ch)
          ELSE IF n = Root THEN Root
          ELSE goto[fail[n]]
    IN goto[node]

(* The state after each character of text, from Root. *)
States(a, text) ==
    LET at[i \in 0 .. Len(text)] ==
          IF i = 0 THEN Root ELSE Follow(a.nodes, a.fail, at[i - 1], text[i])
    IN at

FindAll(a, text) ==
    LET at == States(a, Lowered(text))
    IN UNION {{[word |-> w, first |-> i - Len(w) + 1, last |-> i] : w \in a.out[at[i]]} :
                 i \in DOMAIN text}

NotBuilding == [of |-> "none"]

Children(nodes, n) == {m \in nodes : Len(m) = Len(n) + 1 /\ SubSeq(m, 1, Len(n)) = n}

(* All orders in which the children of a node can come out of its map. *)
Orders(S) == {o \in [1 .. Cardinality(S) -> S] : \A i, j \in DOMAIN o : o[i] = o[j] => i = j}

(* The trie of W, and the root's children with their fail links. *)
Trie(W) ==
    [nodes |-> Nodes(W),
     fail  |-> [n \in Nodes(W) |-> Root],
     out   |-> [n \in Nodes(W) |-> {n} \cap W]]

Building == build # NotBuilding

(* What is to do with the node at the head of the queue. *)
Edges(nodes, queue) == IF queue = <<>> THEN {} ELSE Children(nodes, Head(queue))

(* Build up to its loop: the queue holds the root's children. *)
Started(of, W) ==
    {[of |-> of, queue |-> o, todo |-> Edges(Nodes(W), o), next |-> Trie(W)] :
        o \in Orders(Children(Nodes(W), Root))}

Link(t, node, link) ==
    [t EXCEPT !.fail[node] = link, !.out[node] = @ \cup t.out[link]]

(* One edge of the node at the head of the queue. *)
BuildEdge ==
    /\ Building /\ build.todo # {}
    /\ \E node \in build.todo :
          LET curr == Head(build.queue)
              t    == build.next
              link == Follow(t.nodes, t.fail, t.fail[curr], node[Len(node)])
          IN build' = [build EXCEPT !.queue = Append(@, node),
                                    !.todo  = @ \ {node},
                                    !.next  = Link(@, node, link)]
    /\ UNCHANGED <<words, auto, req, restarts>>

(* The head of the queue is done: the next one. *)
BuildNode ==
    /\ Building /\ build.todo = {} /\ build.queue # <<>>
    /\ build' = [build EXCEPT !.queue = Tail(@),
                              !.todo  = Edges(build.next.nodes, Tail(build.queue))]
    /\ UNCHANGED <<words, auto, req, restarts>>

(* The root is exchanged and the locks are released. *)
BuildDone ==
    /\ Building
    /\ build.queue = <<>>
    /\ auto' = build.next
    /\ build' = NotBuilding
    /\ UNCHANGED <<words, req, restarts>>

-------------------------------------------------------------------------------
(* WordStore and WordHandler *)

(* loadFromFile: blank lines and lines that start with # hold no word. *)
FileWords == {w \in {NormalizeWord(l) : l \in File} : w # <<>> /\ Head(w) # Hash}

Idle == [pc |-> "idle"]

Init ==
    /\ words = FileWords
    /\ auto = Trie({})
    /\ build \in Started("load", FileWords)
    /\ req = [q \in Requests |-> Idle]
    /\ restarts = 0

Store(W) == words' = W /\ build' \in Started("change", W)

(* POST /words.  A blank word is refused, and a word that is there already   *)
(* changes nothing.                                                          *)
AddWord(input) ==
    /\ ~Building
    /\ LET w == NormalizeWord(input)
       IN /\ w # <<>> /\ w \notin words
          /\ Cardinality(words) < MaxWords
          /\ Store(words \cup {w})
    /\ UNCHANGED <<auto, req, restarts>>

(* DELETE /words; an unknown word is 404. *)
RemoveWord(input) ==
    /\ ~Building
    /\ LET w == NormalizeWord(input)
       IN w \in words /\ Store(words \ {w})
    /\ UNCHANGED <<auto, req, restarts>>

(* The service stops; a new process loads the file before it serves. *)
Restart ==
    /\ restarts < MaxRestarts
    /\ restarts' = restarts + 1
    /\ words' = FileWords
    /\ auto' = Trie({})
    /\ build' \in Started("load", FileWords)
    /\ req' = [q \in Requests |-> Idle]

-------------------------------------------------------------------------------
(* FilterHandler and FilterService *)

(* The request arrives and waits for the read lock. *)
Begin(q, text) ==
    /\ build.of # "load"
    /\ req[q] = Idle /\ text # <<>>
    /\ req' = [req EXCEPT ![q] = [pc |-> "match", text |-> text]]
    /\ UNCHANGED <<words, auto, build, restarts>>

Answer(passed, hits, masked) ==
    [pc |-> "answer", passed |-> passed, hits |-> hits, masked |-> masked]

(* Mutant: the last character of a match is not masked. *)
MaskUpToLast(matches) == UNION {m.first .. m.last - 1 : m \in matches}

(* maskByMatches: the positions shown as a star. *)
Mask(matches) == UNION {m.first .. m.last : m \in matches}

Match(q) ==
    /\ ~Building
    /\ req[q].pc = "match"
    /\ LET matches == FindAll(auto, req[q].text)
           hits    == {m.word : m \in matches}
       IN req' = [req EXCEPT ![q] =
                     IF matches = {} THEN Answer(TRUE, {}, {})
                     ELSE [pc |-> "review", hits |-> hits, masked |-> Mask(matches)]]
    /\ UNCHANGED <<words, auto, build, restarts>>

(* Review of a hit: only a consent lets it pass, and then unmasked.          *)
Review(q) ==
    /\ req[q].pc = "review"
    /\ \E verdict \in IF AIEnabled THEN {"allow", "deny", "error"} ELSE {"disabled"} :
          req' = [req EXCEPT ![q] =
                     IF verdict = "allow" THEN Answer(TRUE, @.hits, {})
                     ELSE Answer(FALSE, @.hits, @.masked)]
    /\ UNCHANGED <<words, auto, build, restarts>>

Respond(q) ==
    /\ req[q].pc = "answer"
    /\ req' = [req EXCEPT ![q] = Idle]
    /\ UNCHANGED <<words, auto, build, restarts>>

Next ==
    \/ \E input \in Inputs : AddWord(input) \/ RemoveWord(input)
    \/ BuildEdge \/ BuildNode \/ BuildDone
    \/ Restart
    \/ \E q \in Requests :
          (\E text \in Contents : Begin(q, text)) \/ Match(q) \/ Review(q) \/ Respond(q)

Spec == Init /\ [][Next]_vars

(* Build is a loop without a wait, the AI's client gives up after its       *)
(* timeout, and a writer that releases the lock lets the readers that wait  *)
(* in before the next writer.                                               *)
Fairness ==
    /\ WF_vars(BuildEdge \/ BuildNode \/ BuildDone)
    /\ \A q \in Requests : WF_vars(Review(q) \/ Respond(q)) /\ SF_vars(Match(q))

FairSpec == Spec /\ Fairness

-------------------------------------------------------------------------------
(* Properties *)

(* Lower case, and no blank at either end. *)
IsWord(w) == w # <<>> /\ Lowered(w) = w /\ Blank \notin {w[1], w[Len(w)]}

TypeOK ==
    /\ words \subseteq Seq(Chars) /\ \A w \in words : IsWord(w)
    /\ auto.nodes \subseteq Seq(Chars)
    /\ auto.fail \in [auto.nodes -> auto.nodes]
    /\ auto.out \in [auto.nodes -> SUBSET auto.nodes]
    /\ build.of \in {"none", "load", "change"}
    /\ Building => build.next.fail \in [build.next.nodes -> build.next.nodes]
    /\ \A q \in Requests : req[q].pc \in {"idle", "match", "review", "answer"}
    /\ restarts \in 0 .. MaxRestarts

(* What matching means: every place where a word stands, in either case. *)
Occurrences(W, text) ==
    {m \in [word : W, first : 1 .. Len(text), last : 1 .. Len(text)] :
        SubSeq(Lowered(text), m.first, m.last) = Lowered(m.word)}

(* Whatever words were added and removed and in whatever order the maps gave *)
(* the trie's edges, the automaton that matches comments finds every place   *)
(* of every word, inside and at the end of others too, and nothing else.     *)
FindsAll == ~Building => \A t \in Texts : FindAll(auto, t) = Occurrences(words, t)

(* The words comments are judged by: a change counts from the moment it is   *)
(* done, and a service that is loading has none.                             *)
InForce == IF Building THEN UNION {auto.out[n] : n \in auto.nodes} ELSE words

Promise == INSTANCE FilterPromise WITH inForce <- InForce, fileWords <- FileWords

(* Automaton, locks and loading are invisible to callers: every comment is   *)
(* judged, masked and answered as FilterPromise says, by the words in force  *)
(* at one moment of the call, whatever is rebuilt meanwhile.                 *)
Implements == Promise!Spec
===============================================================================
