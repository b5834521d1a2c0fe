---------------------------- MODULE FilterPromise ----------------------------
(***************************************************************************)
(* What comment-filter promises its callers: at every moment there is one   *)
(* set of words in force, a comment is judged by the words in force at one  *)
(* moment between call and answer, it passes only if it holds none of them  *)
(* or the AI consents, and a comment that does not pass has the characters  *)
(* of every occurrence masked and no others.                                *)
(*                                                                          *)
(* There is no automaton, no lock and no loading here: WordFilter is the    *)
(* implementation.                                                          *)
(***************************************************************************)
EXTENDS Integers, Sequences, FiniteSets

CONSTANTS
    Lower,      \* lower case of a character
    Contents,   \* the comments callers send
    Requests,   \* concurrent calls
    fileWords   \* the words the service starts with

VARIABLES
    inForce,   \* the words comments are judged by
    req        \* what each filter request is doing

vars == <<inForce, req>>

Idle == [pc |-> "idle"]

Lowered(s) == [i \in DOMAIN s |-> Lower[s[i]]]

(* Every place where a word of W stands in text, whatever its case. *)
Places(W, text) ==
    {m \in [word : W, first : 1 .. Len(text), last : 1 .. Len(text)] :
        Lowered(SubSeq(text, m.first, m.last)) = Lowered(m.word)}

Covered(places) == UNION {m.first .. m.last : m \in places}

Init == inForce = {} /\ req = [q \in Requests |-> Idle]

(* The service has started. *)
Load == inForce = {} /\ inForce' = fileWords /\ UNCHANGED req

(* One word is added or removed. *)
Change ==
    /\ \E w \in (inForce' \ inForce) \cup (inForce \ inForce') :
          inForce' \in {inForce \cup {w}, inForce \ {w}}
    /\ UNCHANGED req

Restart == inForce' = {} /\ req' = [q \in Requests |-> Idle]

Call(q) ==
    /\ req[q] = Idle
    /\ \E text \in Contents : req' = [req EXCEPT ![q] = [pc |-> "match", text |-> text]]
    /\ UNCHANGED inForce

Answer(passed, hits, masked) ==
    [pc |-> "answer", passed |-> passed, hits |-> hits, masked |-> masked]

(* The comment is held against the words in force. *)
Judge(q) ==
    /\ req[q].pc = "match"
    /\ LET places == Places(inForce, req[q].text)
           hits   == {m.word : m \in places}
       IN req' = [req EXCEPT ![q] =
                     IF places = {} THEN Answer(TRUE, {}, {})
                     ELSE [pc |-> "review", hits |-> hits, masked |-> Covered(places)]]
    /\ UNCHANGED inForce

(* The AI consents, or it does not and the comment is masked. *)
Review(q) ==
    /\ req[q].pc = "review"
    /\ req' \in {[req EXCEPT ![q] = Answer(TRUE, @.hits, {})],
                 [req EXCEPT ![q] = Answer(FALSE, @.hits, @.masked)]}
    /\ UNCHANGED inForce

Return(q) ==
    /\ req[q].pc = "answer"
    /\ req' = [req EXCEPT ![q] = Idle]
    /\ UNCHANGED inForce

Next ==
    \/ Load \/ Change \/ Restart
    \/ \E q \in Requests : Call(q) \/ Judge(q) \/ Review(q) \/ Return(q)

(* Every call is answered, or the service restarts. *)
Fairness == \A q \in Requests : WF_vars(Judge(q) \/ Review(q) \/ Return(q))

Spec == Init /\ [][Next]_vars /\ Fairness
===============================================================================
