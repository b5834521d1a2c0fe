------------------------------ MODULE HaloReview ------------------------------
(***************************************************************************)
(* The life of one Halo comment between the two comment plugins and the    *)
(* services behind them.                                                   *)
(*                                                                         *)
(* Halo stores the comment under an optimistic lock and notifies both      *)
(* plugins of every write.  plugin-comment-moderation asks comment-filter  *)
(* about a comment without a status annotation and writes the decision;    *)
(* plugin-auto-reply waits for a decision, asks auto-reply for a text and  *)
(* creates a reply.  Each notification may start a pipeline of its own,    *)
(* and all pipelines run concurrently, so one comment may be moderated     *)
(* several times.  Neither plugin shares state between comments, so one    *)
(* comment is enough.                                                      *)
(*                                                                         *)
(* A pipeline is named by the version of the write that started it.        *)
(***************************************************************************)
EXTENDS Integers, FiniteSets

CONSTANTS
    BornApproved,  \* whether Halo may create the comment approved
    Strategies,    \* what the moderation plugin's filterStrategy is set to over time
    AIEnabled,     \* AIReviewer.Enabled of comment-filter
    MaxPolls,      \* MODERATION_MAX_CHECK_ATTEMPTS (80)
    Edits,         \* what others than the plugins write: "touch", "approve", "hide"
    MaxEdits,      \* bound: how many such writes happen
    Faults,        \* the calls that may fail
    MaxFaults      \* bound: how many calls fail

FaultNames == {"filter", "ai", "update", "poll", "list", "create"}

ASSUME HaloReviewAssumption ==
    /\ BornApproved \subseteq BOOLEAN
    /\ Strategies \subseteq {"REJECT", "MARK", "LOG_ONLY"}
    /\ AIEnabled \in BOOLEAN
    /\ MaxPolls \in Nat \ {0} /\ MaxEdits \in Nat /\ MaxFaults \in Nat
    /\ Edits \subseteq {"touch", "approve", "hide"}
    /\ Faults \subseteq FaultNames

VARIABLES
    comment,     \* the stored comment: version, moderation status, approved, hidden
    sensitive,   \* whether the word store matches its content
    modInbox,    \* writes the moderation plugin is not notified of yet
    replyInbox,  \* writes the auto-reply plugin is not notified of yet
    mod,         \* moderation pipeline by starting version
    run,         \* auto-reply pipeline by starting version
    processing,  \* whether processingComments holds the comment
    replies,     \* auto-replies of the comment in Halo
    edits,       \* writes by others so far
    faults,      \* calls that failed so far
    past         \* history: which Events happened to the comment

moderator == <<modInbox, mod>>
replier   == <<replyInbox, run, processing, replies>>
vars      == <<comment, sensitive, moderator, replier, edits, faults, past>>

\* The AI reviewer allowed it; the filter client passed it unseen; a moderation
\* stored PASS; somebody else approved it; storing a decision failed.
Events == {"allowed", "bypassed", "passed", "admitted", "unsaved"}

\* Every edit and every moderation it starts writes at most once.
Versions  == 0..(2 * MaxEdits + 1)

Decisions == {"PASS", "MARK", "REJECT", "LOG_ONLY"}
Comment   == [ver : Versions, status : Decisions \cup {"none"}, approved : BOOLEAN, hidden : BOOLEAN]
Notice    == [kind : {"add", "update"}, old : Comment, new : Comment]

ModState == [pc : {"none", "filter", "done"}]
            \cup [pc : {"fetch"}, pass : BOOLEAN]
            \cup [pc : {"write"}, pass : BOOLEAN, seen : Versions]
RunState == [pc : {"none", "ask", "check", "recheck", "create", "release", "done"}]
            \cup [pc : {"wait"}, polls : 0..(MaxPolls - 1)]

Visible(c)    == c.approved /\ ~c.hidden
HasStatus(c)  == c.status # "none"
Fail(fault)   == fault \in Faults /\ faults < MaxFaults /\ faults' = faults + 1
Record(event) == past' = past \cup {event}
SetMod(m, s)  == mod' = [mod EXCEPT ![m] = s]
SetRun(r, s)  == run' = [run EXCEPT ![r] = s]
-----------------------------------------------------------------------------
(* Halo: every write gets the next version and a notice to both watchers. *)

Store(c) ==
    LET new == [c EXCEPT !.ver = comment.ver + 1]
        notice == [kind |-> "update", old |-> comment, new |-> new]
    IN /\ comment' = new
       /\ modInbox' = modInbox \cup {notice}
       /\ replyInbox' = replyInbox \cup {notice}

\* Halo's own reconciler rewrites the comment, an admin approves or hides it.
Edit(kind) ==
    /\ kind \in Edits /\ edits < MaxEdits
    /\ edits' = edits + 1
    /\ Store(CASE kind = "touch"   -> comment
               [] kind = "approve" -> [comment EXCEPT !.approved = TRUE]
               [] kind = "hide"    -> [comment EXCEPT !.hidden = TRUE])
    /\ IF kind = "approve" THEN Record("admitted") ELSE UNCHANGED past
    /\ UNCHANGED <<sensitive, mod, run, processing, replies, faults>>
-----------------------------------------------------------------------------
(* plugin-comment-moderation and comment-filter *)

(* Mutant: onUpdate forgets about comments it has seen: only onAdd moderates. *)
NotifiedOnAdd(n) ==
    /\ n \in modInbox
    /\ modInbox' = modInbox \ {n}
    /\ IF HasStatus(n.new) \/ n.kind = "update" THEN UNCHANGED mod
       ELSE SetMod(n.new.ver, [pc |-> "filter"])
    /\ UNCHANGED <<comment, sensitive, replier, edits, faults, past>>

\* onAdd, onUpdate: the check reads the notified comment, not the stored one.
Notified(n) ==
    /\ n \in modInbox
    /\ modInbox' = modInbox \ {n}
    /\ IF HasStatus(n.new) THEN UNCHANGED mod ELSE SetMod(n.new.ver, [pc |-> "filter"])
    /\ UNCHANGED <<comment, sensitive, replier, edits, faults, past>>

(* Mutant: A failed AI review passes the comment. *)
PassesOnError(verdict) == ~sensitive \/ (AIEnabled /\ verdict \in {"allow", "error"})

\* FilterService.Filter, given what the AI reviewer would say of a hit.
Passes(verdict) == ~sensitive \/ (AIEnabled /\ verdict = "allow")

Consulted == sensitive /\ AIEnabled

\* The client takes any error, and an answer later than 3s, for a pass.
PassThrough(m) ==
    /\ mod[m].pc = "filter"
    /\ Fail("filter")
    /\ SetMod(m, [pc |-> "fetch", pass |-> TRUE])
    /\ Record("bypassed")
    /\ UNCHANGED <<comment, sensitive, modInbox, replier, edits>>

Filter(m, verdict) ==
    /\ mod[m].pc = "filter"
    /\ verdict = "error" => Consulted
    /\ IF verdict = "error" THEN Fail("ai") ELSE UNCHANGED faults
    /\ SetMod(m, [pc |-> "fetch", pass |-> Passes(verdict)])
    /\ IF Consulted /\ verdict = "allow" THEN Record("allowed") ELSE UNCHANGED past
    /\ UNCHANGED <<comment, sensitive, modInbox, replier, edits>>

FetchLatest(m) ==
    /\ mod[m].pc = "fetch"
    /\ SetMod(m, [pc |-> "write", pass |-> mod[m].pass, seen |-> comment.ver])
    /\ UNCHANGED <<comment, sensitive, modInbox, replier, edits, faults, past>>

\* applyDecision: what the update sets on the fetched comment.
Passed == [comment EXCEPT !.status = "PASS", !.approved = TRUE, !.hidden = FALSE]

Caught(strategy) ==
    CASE strategy = "LOG_ONLY" -> [comment EXCEPT !.status = "LOG_ONLY"]
      [] strategy = "MARK" ->
            [comment EXCEPT !.status = "MARK", !.approved = FALSE, !.hidden = FALSE]
      [] strategy = "REJECT" ->
            [comment EXCEPT !.status = "REJECT", !.approved = FALSE, !.hidden = TRUE]

\* Halo refuses an update of an old version; the plugin logs that and any
\* other error, and does not try again.
WriteDecision(m) ==
    /\ mod[m].pc = "write"
    /\ SetMod(m, [pc |-> "done"])
    /\ \/ /\ mod[m].seen = comment.ver /\ mod[m].pass
          /\ Store(Passed)
          /\ Record("passed")
          /\ UNCHANGED faults
       \/ /\ mod[m].seen = comment.ver /\ ~mod[m].pass
          /\ \E strategy \in Strategies : Store(Caught(strategy))
          /\ UNCHANGED <<past, faults>>
       \/ /\ mod[m].seen # comment.ver
          /\ UNCHANGED <<comment, modInbox, replyInbox, past, faults>>
       \/ /\ Fail("update")
          /\ Record("unsaved")
          /\ UNCHANGED <<comment, modInbox, replyInbox>>
    /\ UNCHANGED <<sensitive, run, processing, replies, edits>>

Moderate(m) ==
    \/ PassThrough(m)
    \/ \E verdict \in {"allow", "deny", "error"} : Filter(m, verdict)
    \/ FetchLatest(m)
    \/ WriteDecision(m)
-----------------------------------------------------------------------------
(* plugin-auto-reply and auto-reply *)

\* shouldProcessOnUpdate, and every onAdd.
Triggers(n) ==
    \/ n.kind = "add"
    \/ ~HasStatus(n.old) /\ HasStatus(n.new)
    \/ ~Visible(n.old) /\ Visible(n.new)

(* Mutant: A trigger does not look at processingComments. *)
StartsAlways(n) == Triggers(n)

\* onAdd, onUpdate: a trigger that finds the comment in processing is dropped.
Starts(n) == Triggers(n) /\ ~processing

Trigger(n) ==
    /\ n \in replyInbox
    /\ replyInbox' = replyInbox \ {n}
    /\ IF Starts(n)
       THEN processing' = TRUE /\ SetRun(n.new.ver, [pc |-> "wait", polls |-> 0])
       ELSE UNCHANGED <<processing, run>>
    /\ UNCHANGED <<comment, sensitive, moderator, replies, edits, faults, past>>

(* Mutant: A comment without a decision is answered whether it is approved or not. *)
MayReplyUnseen == comment.status = "none" \/ (comment.status = "PASS" /\ Visible(comment))

\* resolveModerationState
MayReply == comment.status \in {"none", "PASS"} /\ Visible(comment)
MustNot  == comment.status \in {"MARK", "REJECT", "LOG_ONLY"}

(* Mutant: The wait allows one check too many. *)
PollOnceMore(r) ==
    /\ run[r].pc = "wait"
    /\ SetRun(r, CASE MayReply -> [pc |-> "ask"]
                   [] MustNot -> [pc |-> "release"]
                   [] OTHER -> IF run[r].polls + 1 > MaxPolls
                               THEN [pc |-> "release"]
                               ELSE [pc |-> "wait", polls |-> run[r].polls + 1])
    /\ UNCHANGED <<comment, sensitive, moderator, replyInbox, processing, replies, edits, faults,
                   past>>

(* Mutant: The wait has no limit. *)
PollForever(r) ==
    /\ run[r].pc = "wait"
    /\ SetRun(r, CASE MayReply -> [pc |-> "ask"]
                   [] MustNot -> [pc |-> "release"]
                   [] OTHER -> run[r])
    /\ UNCHANGED <<comment, sensitive, moderator, replyInbox, processing, replies, edits, faults,
                   past>>

\* waitForCommentReviewReady: one check; the last one gives up when undecided.
Poll(r) ==
    /\ run[r].pc = "wait"
    /\ \/ /\ UNCHANGED faults
          /\ SetRun(r, CASE MayReply -> [pc |-> "ask"]
                         [] MustNot -> [pc |-> "release"]
                         [] OTHER -> IF run[r].polls + 1 >= MaxPolls
                                     THEN [pc |-> "release"]
                                     ELSE [pc |-> "wait", polls |-> run[r].polls + 1])
       \/ Fail("poll") /\ SetRun(r, [pc |-> "release"])
    /\ UNCHANGED <<comment, sensitive, moderator, replyInbox, processing, replies, edits, past>>

\* auto-reply has a text, or no rule, quota, answer or time for one.
Ask(r, shouldReply) ==
    /\ run[r].pc = "ask"
    /\ SetRun(r, [pc |-> IF shouldReply THEN "check" ELSE "release"])
    /\ UNCHANGED <<comment, sensitive, moderator, replyInbox, processing, replies, edits, faults,
                   past>>

\* hasAutoReplyForComment; when Halo cannot list the replies there is none.
Check(r, pc, next) ==
    /\ run[r].pc = pc
    /\ \/ UNCHANGED faults /\ SetRun(r, [pc |-> IF replies > 0 THEN "release" ELSE next])
       \/ Fail("list") /\ SetRun(r, [pc |-> next])
    /\ UNCHANGED <<comment, sensitive, moderator, replyInbox, processing, replies, edits, past>>

\* maybeCreateReply checks before and after the reply's delay.
CheckBeforeDelay(r) == Check(r, "check", "recheck")
CheckAfterDelay(r)  == Check(r, "recheck", "create")

CreateReply(r) ==
    /\ run[r].pc = "create"
    /\ \/ replies' = replies + 1 /\ UNCHANGED faults
       \/ Fail("create") /\ UNCHANGED replies
    /\ SetRun(r, [pc |-> "release"])
    /\ UNCHANGED <<comment, sensitive, moderator, replyInbox, processing, edits, past>>

\* doFinally
Release(r) ==
    /\ run[r].pc = "release"
    /\ processing' = FALSE
    /\ SetRun(r, [pc |-> "done"])
    /\ UNCHANGED <<comment, sensitive, moderator, replyInbox, replies, edits, faults, past>>

Reply(r) ==
    \/ Poll(r)
    \/ \E shouldReply \in BOOLEAN : Ask(r, shouldReply)
    \/ CheckBeforeDelay(r)
    \/ CheckAfterDelay(r)
    \/ CreateReply(r)
    \/ Release(r)
-----------------------------------------------------------------------------
Born(approved) == [ver |-> 0, status |-> "none", approved |-> approved, hidden |-> FALSE]

Init ==
    /\ comment \in {Born(approved) : approved \in BornApproved}
    /\ sensitive \in BOOLEAN
    /\ modInbox = {[kind |-> "add", old |-> comment, new |-> comment]}
    /\ replyInbox = modInbox
    /\ mod = [v \in Versions |-> [pc |-> "none"]]
    /\ run = [v \in Versions |-> [pc |-> "none"]]
    /\ processing = FALSE
    /\ replies = 0
    /\ edits = 0
    /\ faults = 0
    /\ past = IF comment.approved THEN {"admitted"} ELSE {}

Next ==
    \/ \E kind \in Edits : Edit(kind)
    \/ \E n \in modInbox : Notified(n)
    \/ \E m \in Versions : Moderate(m)
    \/ \E n \in replyInbox : Trigger(n)
    \/ \E r \in Versions : Reply(r)

Spec == Init /\ [][Next]_vars

\* Halo delivers its notices and the reactive pipelines run on; nobody has to edit.
Fairness ==
    /\ WF_vars(\E n \in modInbox : Notified(n))
    /\ \A m \in Versions : WF_vars(Moderate(m))
    /\ WF_vars(\E n \in replyInbox : Trigger(n))
    /\ \A r \in Versions : WF_vars(Reply(r))

FairSpec == Spec /\ Fairness
-----------------------------------------------------------------------------
\* Every variable has its type.  A pipeline past its first check never lacks
\* the version it was started from.
TypeOK ==
    /\ comment \in Comment
    /\ sensitive \in BOOLEAN
    /\ modInbox \subseteq Notice /\ replyInbox \subseteq Notice
    /\ mod \in [Versions -> ModState]
    /\ run \in [Versions -> RunState]
    /\ processing \in BOOLEAN
    /\ replies \in Nat
    /\ edits \in 0..MaxEdits
    /\ faults \in 0..MaxFaults
    /\ past \subseteq Events

\* A comment gets at most one auto-reply, however many notices start a
\* pipeline and however they interleave: processingComments lets one pipeline
\* run at a time, and of maybeCreateReply's two checks one may fail, though a
\* failed listing counts as "no reply yet".
OneReply == replies <= 1

\* Only a comment that a moderation passed or that somebody else approved gets
\* an auto-reply.  The two plugins share nothing but the stored comment.
ReplyOnlyToAdmitted == replies > 0 => past \cap {"passed", "admitted"} # {}

\* A comment with a sensitive word is stored as PASS only if the AI reviewer
\* allowed it or the filter client gave up on the answer, whichever of the
\* comment's moderations wins the race for the last write.
PassNeedsReason ==
    comment.status = "PASS" /\ sensitive => past \cap {"allowed", "bypassed"} # {}

\* "Auto-reply only runs on moderation-passed comments" (the guide).
ReplyOnlyToPassed == replies > 0 => "passed" \in past

\* "If AI fails, default is reject for safety" (the guide): a comment with a
\* sensitive word is stored as PASS only after the AI reviewer allowed it.
SensitiveNeedsAllow == comment.status = "PASS" /\ sensitive => "allowed" \in past

\* A comment is moderated in the end although the plugin never retries an
\* update refused for its version: the write that won the race notifies it
\* again.  Only an update that fails for another reason leaves it undecided.
Moderated == <>(HasStatus(comment) \/ "unsaved" \in past)

\* The auto-reply plugin does not keep a comment in processing, where every
\* later trigger of it would be dropped.
Released == processing ~> ~processing
===============================================================================
