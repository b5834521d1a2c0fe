----------------------------- MODULE CommentPages -----------------------------
(***************************************************************************)
(* Cursor pagination of comment-service: readers that follow next_cursor    *)
(* from the first page to the last while comments are inserted, approved    *)
(* and rejected, and while pages come from a cache whose key knows the      *)
(* cursor but not the page size.                                            *)
(*                                                                          *)
(* The consumer's writes are reduced to what they do to the rows; when it   *)
(* deletes which cached page is left open (Forget), so everything shown     *)
(* here holds for any invalidation.                                         *)
(***************************************************************************)
EXTENDS Integers, FiniteSets

CONSTANTS
    Comments,     \* comments of one post, each submitted once
    Times,        \* created_at values, in milliseconds
    Readers,      \* clients that list the comments
    Sizes,        \* page_size values clients send
    DefaultSize,  \* page size without a page_size (20)
    MaxSize,      \* largest page size (50)
    MaxChanges,   \* bound: how many approvals and rejections there are
    None          \* no row, no page, no cursor

ASSUME PagesAssumption ==
    /\ IsFiniteSet(Comments)
    /\ Times \subseteq Nat /\ Sizes \subseteq Int
    /\ DefaultSize \in Nat \ {0} /\ MaxSize \in Nat \ {0}
    /\ MaxChanges \in Nat
    /\ None \notin [created : Times, id : Nat]
    /\ None \notin [created : Times, id : Nat, approved : BOOLEAN]

VARIABLES
    row,      \* MySQL: created_at, id and whether status is 1; or None
    page,     \* Redis page cache, by cursor
    reader,   \* what each reader is doing
    changes   \* approvals and rejections so far

vars == <<row, page, reader, changes>>

Ids      == 1 .. Cardinality(Comments)
Position == [created : Times, id : Ids]
Cursor   == Position \cup {None}
Stored   == {c \in Comments : row[c] # None}
Approved == {c \in Stored : row[c].approved}

(* What a list request returns: the comments, and next_cursor, which is      *)
(* there exactly when has_more is.  steady is a history: the comments that   *)
(* have been approved ever since the page was read.                          *)
Page == [shown : SUBSET Comments, next : Cursor, steady : SUBSET Comments]

(* A reader's traversal: the cursor it asks for next, what it was shown, how  *)
(* many comments that were, and (history) the comments that have been         *)
(* approved ever since the oldest of its pages was read.                      *)
Idle   == [pc |-> "idle"]
Walk   == [cursor : Cursor, shown : SUBSET Comments, received : Nat, steady : SUBSET Comments]
Reader == {Idle}
          \cup [pc : {"ask", "end"}, walk : Walk]
          \cup [pc : {"query"}, walk : Walk, size : Nat \ {0}]
          \cup [pc : {"store"}, walk : Walk, got : Page]

TypeOK ==
    /\ row \in [Comments -> [created : Times, id : Ids, approved : BOOLEAN] \cup {None}]
    /\ page \in [Cursor -> Page \cup {None}]
    /\ reader \in [Readers -> Reader]
    /\ changes \in 0 .. MaxChanges

Init ==
    /\ row = [c \in Comments |-> None]
    /\ page = [k \in Cursor |-> None]
    /\ reader = [r \in Readers |-> Idle]
    /\ changes = 0

-------------------------------------------------------------------------------
(* The consumer *)

(* onCreate: created_at was set when the comment was submitted, the id is     *)
(* AUTO_INCREMENT; so a later row may be the older comment.                   *)
Insert(c) ==
    /\ row[c] = None
    /\ \E t \in Times :
          row' = [row EXCEPT ![c] = [created |-> t, id |-> Cardinality(Stored) + 1,
                                     approved |-> FALSE]]
    /\ UNCHANGED <<page, reader, changes>>

(* onStatusUpdate *)
Approve(c) ==
    /\ c \in Stored \ Approved /\ changes < MaxChanges
    /\ row' = [row EXCEPT ![c].approved = TRUE]
    /\ changes' = changes + 1
    /\ UNCHANGED <<page, reader>>

Reject(c) ==
    /\ c \in Approved /\ changes < MaxChanges
    /\ row' = [row EXCEPT ![c].approved = FALSE]
    /\ changes' = changes + 1
    /\ page' = [k \in Cursor |->
                   IF page[k] = None THEN None ELSE [page[k] EXCEPT !.steady = @ \ {c}]]
    /\ reader' = [r \in Readers |->
                     CASE reader[r].pc = "idle"  -> Idle
                       [] reader[r].pc = "store" ->
                             [reader[r] EXCEPT !.walk.steady = @ \ {c}, !.got.steady = @ \ {c}]
                       [] OTHER -> [reader[r] EXCEPT !.walk.steady = @ \ {c}]]

(* InvalidatePost deletes the keys it scans, and Redis those that expire.     *)
Forget(k) ==
    /\ page[k] # None
    /\ page' = [page EXCEPT ![k] = None]
    /\ UNCHANGED <<row, reader, changes>>

-------------------------------------------------------------------------------
(* ListComments *)

Pos(c) == [created |-> row[c].created, id |-> row[c].id]

(* p comes after the cursor k in the list, newest first. *)
Past(p, k) ==
    \/ k = None
    \/ p.created < k.created
    \/ p.created = k.created /\ p.id < k.id

(* The n newest comments of S. *)
Newest(S, n) == {c \in S : Cardinality({d \in S : Past(Pos(c), Pos(d))}) < n}

NormalizePageSize(n) == IF n <= 0 THEN DefaultSize ELSE IF n > MaxSize THEN MaxSize ELSE n

(* Mutant: the cursor is that of the row beyond the page. *)
CursorBeyond(found, shown) ==
    IF shown = found THEN None
    ELSE Pos(CHOOSE c \in found \ shown : TRUE)

(* Mutant: the cursor is that of the first comment shown. *)
CursorOfFirst(found, shown) ==
    IF shown = found THEN None
    ELSE Pos(CHOOSE c \in shown : \A d \in shown \ {c} : Past(Pos(d), Pos(c)))

(* The position of the last comment shown, if there are more. *)
NextCursor(found, shown) ==
    IF shown = found THEN None
    ELSE Pos(CHOOSE c \in shown : \A d \in shown \ {c} : Past(Pos(c), Pos(d)))

Begin(r) ==
    /\ reader[r].pc \in {"idle", "end"}
    /\ reader' = [reader EXCEPT ![r] =
                     [pc |-> "ask", walk |-> [cursor |-> None, shown |-> {}, received |-> 0,
                                              steady |-> Comments]]]
    /\ UNCHANGED <<row, page, changes>>

(* The walk after page p: over when there is no next_cursor. *)
Received(walk, p) ==
    [pc   |-> IF p.next = None THEN "end" ELSE "ask",
     walk |-> [cursor   |-> p.next,
               shown    |-> walk.shown \cup p.shown,
               received |-> walk.received + Cardinality(p.shown),
               steady   |-> walk.steady \cap p.steady]]

(* GetPage finds the page, whatever size it was read for. *)
Hit(r) ==
    /\ reader[r].pc = "ask"
    /\ LET walk == reader[r].walk
       IN /\ page[walk.cursor] # None
          /\ reader' = [reader EXCEPT ![r] = Received(walk, page[walk.cursor])]
    /\ UNCHANGED <<row, page, changes>>

(* GetPage finds nothing; or it fails, which is only logged. *)
Miss(r) ==
    /\ reader[r].pc = "ask"
    /\ \E n \in Sizes :
          reader' = [reader EXCEPT ![r] = [pc |-> "query", walk |-> @.walk,
                                           size |-> NormalizePageSize(n)]]
    /\ UNCHANGED <<row, page, changes>>

(* FindByPostIDWithCursor with one row more than the page holds. *)
Query(r) ==
    /\ reader[r].pc = "query"
    /\ LET walk  == reader[r].walk
           beyond == {c \in Approved : Past(Pos(c), walk.cursor)}
           found == Newest(beyond, reader[r].size + 1)
           shown == Newest(found, reader[r].size)
       IN reader' = [reader EXCEPT ![r] =
                        [pc |-> "store", walk |-> walk,
                         got |-> [shown |-> shown, next |-> NextCursor(found, shown),
                                  steady |-> Approved]]]
    /\ UNCHANGED <<row, page, changes>>

(* SetPage, after the total was read; its failure is only logged. *)
Store(r) ==
    /\ reader[r].pc = "store"
    /\ page' \in {page, [page EXCEPT ![reader[r].walk.cursor] = reader[r].got]}
    /\ reader' = [reader EXCEPT ![r] = Received(@.walk, @.got)]
    /\ UNCHANGED <<row, changes>>

(* The query or the count fails: the reader may ask again or give up. *)
Error(r) ==
    /\ reader[r].pc \in {"query", "store"}
    /\ reader' \in {[reader EXCEPT ![r] = Idle],
                    [reader EXCEPT ![r] = [pc |-> "ask", walk |-> @.walk]]}
    /\ UNCHANGED <<row, page, changes>>

ListComments(r) == Hit(r) \/ Miss(r) \/ Query(r) \/ Store(r)

Next ==
    \/ \E c \in Comments : Insert(c) \/ Approve(c) \/ Reject(c)
    \/ \E k \in Cursor : Forget(k)
    \/ \E r \in Readers : Begin(r) \/ ListComments(r) \/ Error(r)

Spec == Init /\ [][Next]_vars

-------------------------------------------------------------------------------
(* Properties *)

Walking(r) == reader[r].pc # "idle"

(* No comment comes twice on the way from the first page to the last, however *)
(* old the cached pages are and whatever sizes they were read for: each page  *)
(* starts below the last comment of the page before.                          *)
NothingTwice ==
    \A r \in Readers :
        Walking(r) => reader[r].walk.received = Cardinality(reader[r].walk.shown)

(* No comment is skipped: one that has been approved since the oldest page of *)
(* the walk was read is on one of the pages, also when others of the same     *)
(* millisecond stand at the page's end, or older ones are approved meanwhile.  *)
NothingSkipped ==
    \A r \in Readers : reader[r].pc = "end" => reader[r].walk.steady \subseteq reader[r].walk.shown
===============================================================================
