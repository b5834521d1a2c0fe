-------------------------- MODULE CommentPages_proofs --------------------------
(* Theorems about cursor pagination, for any number of comments, readers, page *)
(* sizes and changes.                                                          *)
EXTENDS CommentPages, FiniteSetTheorems, WellFoundedInduction, TLAPS

-------------------------------------------------------------------------------
LEMMA Smallest ==
    ASSUME NEW S \in SUBSET Nat, S # {}
    PROVE  \E n \in S : \A m \in S : n <= m
<1> DEFINE R == {ss \in Nat \X Nat : ss[1] < ss[2]}
<1>1. IsWellFoundedOn(R, Nat)
  BY NatLessThanWellFounded DEF OpToRel
<1>2. \E n \in S : \A m \in S : ~(<<m, n>> \in R)
  <2> HIDE DEF R
  <2> QED BY <1>1, WFMin
<1>3. ASSUME NEW m \in Nat, NEW n \in Nat, m < n
      PROVE  <<m, n>> \in R
  <2>1. <<m, n>> \in Nat \X Nat
    OBVIOUS
  <2>2. <<m, n>>[1] < <<m, n>>[2]
    BY <1>3
  <2> QED BY <2>1, <2>2
<1>4. PICK n \in S : \A m \in S : ~(<<m, n>> \in R)
  BY <1>2
<1>5. \A m \in S : ~(m < n)
  <2> HIDE DEF R
  <2> QED BY <1>3, <1>4
<1> QED BY <1>5

(* The order of the list. *)

LEMMA Positions == ASSUME NEW p \in Position
                   PROVE  p.created \in Nat /\ p.id \in Nat /\ p # None
<1>1. Ids \subseteq Nat
  BY PagesAssumption, FS_CardinalityType DEF Ids
<1> QED BY <1>1, PagesAssumption DEF Position

LEMMA PastOrder ==
    ASSUME NEW p \in Position, NEW q \in Position, NEW k \in Cursor
    PROVE  /\ Past(p, None)
           /\ ~Past(p, p)
           /\ Past(p, q) => ~Past(q, p)
           /\ Past(p, q) /\ Past(q, k) => Past(p, k)
           /\ Past(p, q) \/ Past(q, p) \/ (p.created = q.created /\ p.id = q.id)
<1>1. CASE k = None
  BY <1>1, Positions DEF Past
<1>2. CASE k \in Position
  BY <1>2, Positions DEF Past
<1> QED BY <1>1, <1>2 DEF Cursor

LEMMA NoneNoRow == None \notin [created : Times, id : Ids, approved : BOOLEAN]
<1>1. Ids \subseteq Nat
  BY PagesAssumption, FS_CardinalityType DEF Ids
<1> QED BY <1>1, PagesAssumption

(* What the rows promise: ids are given once, in turn. *)
Numbered ==
    /\ \A c, d \in Stored : row[c].id = row[d].id => c = d
    /\ \A c \in Stored : row[c].id <= Cardinality(Stored)

LEMMA StoredRows ==
    ASSUME TypeOK
    PROVE  /\ Stored \subseteq Comments /\ IsFiniteSet(Stored) /\ Cardinality(Stored) \in Nat
           /\ Approved \subseteq Stored
           /\ \A c \in Stored : Pos(c) \in Position
           /\ \A c \in Stored : Pos(c).created = row[c].created /\ Pos(c).id = row[c].id
<1>1. Stored \subseteq Comments /\ Approved \subseteq Stored
  BY DEF Stored, Approved
<1>2. IsFiniteSet(Stored) /\ Cardinality(Stored) \in Nat
  BY <1>1, PagesAssumption, FS_Subset, FS_CardinalityType
<1>3. \A c \in Stored : row[c] \in [created : Times, id : Ids, approved : BOOLEAN]
  BY DEF Stored, TypeOK
<1> QED BY <1>1, <1>2, <1>3 DEF Pos, Position

(* Two comments of the list stand one after the other. *)
LEMMA Total ==
    ASSUME TypeOK, Numbered, NEW c \in Stored, NEW d \in Stored, c # d
    PROVE  /\ Past(Pos(c), Pos(d)) \/ Past(Pos(d), Pos(c))
           /\ Past(Pos(c), Pos(d)) => ~Past(Pos(d), Pos(c))
<1>1. Pos(c) \in Position /\ Pos(d) \in Position /\ Pos(c).id # Pos(d).id
  BY StoredRows DEF Numbered
<1> QED BY <1>1, PastOrder DEF Cursor

(* A set of comments has a last one and a first one. *)
LEMMA LastExists ==
    ASSUME TypeOK, Numbered, NEW S, S \subseteq Stored, S # {}
    PROVE  \E l \in S : \A d \in S \ {l} : Past(Pos(l), Pos(d))
<1>0. \A c \in S : Pos(c) \in Position /\ Pos(c).created \in Nat /\ Pos(c).id \in Nat
  BY StoredRows, Positions
<1> DEFINE C == {Pos(c).created : c \in S}
<1>1. C \in SUBSET Nat /\ C # {}
  BY <1>0
<1>2. PICK t \in C : \A u \in C : t <= u
  BY <1>1, Smallest
<1> DEFINE I == {Pos(c).id : c \in {d \in S : Pos(d).created = t}}
<1>3. I \in SUBSET Nat /\ I # {}
  BY <1>0, <1>2
<1>4. PICK i \in I : \A j \in I : i <= j
  BY <1>3, Smallest
<1>5. PICK l \in S : Pos(l).created = t /\ Pos(l).id = i
  BY <1>4
<1>6. ASSUME NEW d \in S \ {l} PROVE Past(Pos(l), Pos(d))
  <2>1. Pos(l).id # Pos(d).id
    BY <1>6, StoredRows DEF Numbered
  <2>2. t <= Pos(d).created
    BY <1>2
  <2>3. Pos(d).created = t => i <= Pos(d).id
    BY <1>4
  <2> QED BY <1>0, <1>5, <2>1, <2>2, <2>3 DEF Past
<1> QED BY <1>5, <1>6

Before(S, c) == {d \in S : Past(Pos(c), Pos(d))}

LEMMA BeforeFinite ==
    ASSUME TypeOK, NEW S, S \subseteq Stored, NEW c
    PROVE  IsFiniteSet(Before(S, c)) /\ Cardinality(Before(S, c)) \in Nat
<1>1. Before(S, c) \subseteq Stored
  BY DEF Before
<1> QED BY <1>1, StoredRows, FS_Subset, FS_CardinalityType

(* The later of two comments has more before it. *)
LEMMA LaterHasMore ==
    ASSUME TypeOK, Numbered, NEW S, S \subseteq Stored, NEW c \in S, NEW d \in S,
           Past(Pos(d), Pos(c))
    PROVE  Before(S, c) \subseteq Before(S, d)
           /\ Cardinality(Before(S, c)) < Cardinality(Before(S, d))
<1>0. Pos(c) \in Position /\ Pos(d) \in Position /\ \A e \in S : Pos(e) \in Position
  BY StoredRows
<1>1. Before(S, c) \subseteq Before(S, d)
  BY <1>0, PastOrder DEF Before, Cursor
<1>2. c \in Before(S, d) /\ c \notin Before(S, c)
  BY <1>0, PastOrder DEF Before, Cursor
<1>3. Cardinality(Before(S, c)) <= Cardinality(Before(S, d))
      /\ Cardinality(Before(S, c)) # Cardinality(Before(S, d))
  BY <1>1, <1>2, BeforeFinite, FS_Subset
<1> QED BY <1>1, <1>3, BeforeFinite

LEMMA FirstExists ==
    ASSUME TypeOK, Numbered, NEW S, S \subseteq Stored, S # {}
    PROVE  \E f \in S : \A d \in S \ {f} : Past(Pos(d), Pos(f))
<1> DEFINE N == {Cardinality(Before(S, c)) : c \in S}
<1>1. N \in SUBSET Nat /\ N # {}
  BY BeforeFinite
<1>2. PICK n \in N : \A m \in N : n <= m
  BY <1>1, Smallest
<1>3. PICK f \in S : Cardinality(Before(S, f)) = n
  BY <1>2
<1>4. ASSUME NEW d \in S \ {f} PROVE Past(Pos(d), Pos(f))
  <2>1. SUFFICES ASSUME Past(Pos(f), Pos(d)) PROVE FALSE
    BY Total
  <2>2. Cardinality(Before(S, d)) < Cardinality(Before(S, f))
    BY <2>1, LaterHasMore
  <2> QED BY <1>1, <1>2, <1>3, <2>2
<1> QED BY <1>3, <1>4

(* The n newest are at most n. *)
LEMMA NewestBound ==
    ASSUME TypeOK, Numbered, NEW S, S \subseteq Stored, NEW n \in Nat
    PROVE  IsFiniteSet(Newest(S, n)) /\ Cardinality(Newest(S, n)) <= n
<1> DEFINE T == Newest(S, n)
<1>1. T \subseteq S /\ T \subseteq Stored /\ \A c \in T : Cardinality(Before(S, c)) < n
  BY DEF Newest, Before
<1>2. IsFiniteSet(T)
  BY <1>1, StoredRows, FS_Subset
<1>3. CASE T = {}
  BY <1>2, <1>3, FS_EmptySet
<1>4. CASE T # {}
  <2>1. PICK l \in T : \A d \in T \ {l} : Past(Pos(l), Pos(d))
    BY <1>1, <1>4, LastExists
  <2>2. T \subseteq Before(S, l) \cup {l}
    BY <1>1, <2>1 DEF Before
  <2>3. IsFiniteSet(Before(S, l) \cup {l})
        /\ Cardinality(Before(S, l) \cup {l}) <= Cardinality(Before(S, l)) + 1
    BY <1>1, BeforeFinite, FS_AddElement
  <2>4. Cardinality(T) <= Cardinality(Before(S, l) \cup {l})
    BY <2>2, <2>3, FS_Subset
  <2>5. Cardinality(T) \in Nat /\ Cardinality(Before(S, l)) \in Nat
        /\ Cardinality(Before(S, l) \cup {l}) \in Nat
    BY <1>1, <1>2, <2>3, BeforeFinite, FS_CardinalityType
  <2> QED BY <1>1, <1>2, <2>3, <2>4, <2>5
<1> QED BY <1>3, <1>4

(* Ranks have no gap: behind the n newest comes one with exactly n before it. *)
LEMMA NextRank ==
    ASSUME TypeOK, Numbered, NEW S, S \subseteq Stored, NEW n \in Nat,
           NEW c \in S, Cardinality(Before(S, c)) >= n
    PROVE  \E d \in S : Cardinality(Before(S, d)) = n
<1> DEFINE G == {d \in S : Cardinality(Before(S, d)) >= n}
<1>1. PICK d \in G : \A e \in G \ {d} : Past(Pos(e), Pos(d))
  BY FirstExists
<1>2. Before(S, d) \subseteq Newest(S, n)
  <2> SUFFICES ASSUME NEW e \in Before(S, d) PROVE e \in Newest(S, n)
    OBVIOUS
  <2>1. e \in S /\ Past(Pos(d), Pos(e)) /\ Pos(e) \in Position /\ Pos(d) \in Position
    BY <1>1, StoredRows DEF Before
  <2>2. e \notin G
    BY <1>1, <2>1, PastOrder DEF Cursor
  <2>3. Cardinality(Before(S, e)) \in Nat
    BY BeforeFinite
  <2> QED BY <2>1, <2>2, <2>3 DEF Newest, Before
<1>3. Cardinality(Before(S, d)) <= Cardinality(Newest(S, n))
  BY <1>2, NewestBound, FS_Subset
<1>4. Cardinality(Newest(S, n)) <= n /\ Cardinality(Newest(S, n)) \in Nat
      /\ Cardinality(Before(S, d)) \in Nat
  BY NewestBound, BeforeFinite, FS_CardinalityType
<1> QED BY <1>1, <1>3, <1>4

(* What a query of n rows, with one row more, shows of the comments of B. *)
LEMMA PageOf ==
    ASSUME TypeOK, Numbered, NEW B, B \subseteq Stored, NEW n \in Nat \ {0}, NEW found, NEW shown,
           found = Newest(B, n + 1), shown = Newest(found, n)
    PROVE  /\ shown \subseteq B
           /\ shown = found => NextCursor(found, shown) = None /\ shown = B
           /\ shown # found =>
                 \E l \in shown :
                    /\ NextCursor(found, shown) = Pos(l)
                    /\ \A c \in shown \ {l} : Past(Pos(l), Pos(c))
                    /\ \A c \in B \ shown : Past(Pos(c), Pos(l))
<1>1. found \subseteq B /\ found = {c \in B : Cardinality(Before(B, c)) < n + 1}
  BY DEF Newest, Before
<1>2. \A c \in B : Cardinality(Before(B, c)) \in Nat
  BY BeforeFinite
<1>3. ASSUME NEW c \in found PROVE Before(found, c) = Before(B, c)
  <2> SUFFICES ASSUME NEW d \in Before(B, c) PROVE d \in found
    BY <1>1 DEF Before
  <2>1. d \in B /\ c \in B /\ Past(Pos(c), Pos(d))
    BY <1>1 DEF Before
  <2>2. Cardinality(Before(B, d)) < Cardinality(Before(B, c))
    BY <2>1, LaterHasMore
  <2> QED BY <1>1, <1>2, <2>1, <2>2
<1>4. shown = {c \in B : Cardinality(Before(B, c)) < n}
  <2>1. shown = {c \in found : Cardinality(Before(found, c)) < n}
    BY DEF Newest, Before
  <2> QED BY <1>1, <1>2, <1>3, <2>1
<1>5. ASSUME shown = found PROVE shown = B
  <2> SUFFICES ASSUME NEW c \in B \ shown PROVE FALSE
    BY <1>4
  <2>1. Cardinality(Before(B, c)) >= n
    BY <1>2, <1>4
  <2>2. PICK d \in B : Cardinality(Before(B, d)) = n
    BY <2>1, NextRank
  <2> QED BY <1>1, <1>4, <1>5, <2>2
<1>6. ASSUME shown # found
      PROVE  \E l \in shown :
                /\ NextCursor(found, shown) = Pos(l)
                /\ \A c \in shown \ {l} : Past(Pos(l), Pos(c))
                /\ \A c \in B \ shown : Past(Pos(c), Pos(l))
  <2>1. B # {}
    BY <1>1, <1>4, <1>6
  <2>2. PICK f \in B : \A d \in B \ {f} : Past(Pos(d), Pos(f))
    BY <2>1, FirstExists
  <2>3. Before(B, f) = {}
    <3> SUFFICES ASSUME NEW d \in Before(B, f) PROVE FALSE
      OBVIOUS
    <3>1. d \in B /\ Past(Pos(f), Pos(d)) /\ Pos(d) \in Position /\ Pos(f) \in Position
      BY StoredRows DEF Before
    <3> QED BY <2>2, <3>1, PastOrder DEF Cursor
  <2>4. shown # {} /\ shown \subseteq Stored
    BY <1>4, <2>2, <2>3, FS_EmptySet
  <2>5. \E l \in shown : \A d \in shown \ {l} : Past(Pos(l), Pos(d))
    BY <2>4, LastExists
  <2> DEFINE l == CHOOSE c \in shown : \A d \in shown \ {c} : Past(Pos(c), Pos(d))
  <2>6. l \in shown /\ \A d \in shown \ {l} : Past(Pos(l), Pos(d))
    BY <2>5
  <2>7. NextCursor(found, shown) = Pos(l)
    BY <1>6 DEF NextCursor
  <2> HIDE DEF l
  <2>8. ASSUME NEW c \in B \ shown PROVE Past(Pos(c), Pos(l))
    <3> SUFFICES ASSUME Past(Pos(l), Pos(c)) PROVE FALSE
      BY <1>4, <2>6, Total
    <3>1. Cardinality(Before(B, c)) < Cardinality(Before(B, l))
      BY <1>4, <2>6, LaterHasMore
    <3> QED BY <1>2, <1>4, <2>6, <3>1
  <2> QED BY <2>6, <2>7, <2>8
<1>7. shown = found => NextCursor(found, shown) = None
  BY DEF NextCursor
<1> QED BY <1>4, <1>5, <1>6, <1>7

-------------------------------------------------------------------------------
(* Pages and walks. *)

(* A cursor is where the last comment of S stands. *)
LastOf(k, S) == k # None => \E c \in S : k = Pos(c) /\ \A d \in S : ~Past(Pos(d), k)

(* A page read for cursor k: everything it shows, and its next_cursor, lies   *)
(* beyond k; what lay beyond k then is shown or beyond next_cursor.           *)
PageFits(p, k) ==
    /\ p.shown \subseteq Stored /\ p.steady \subseteq Stored
    /\ LastOf(p.next, p.shown)
    /\ \A c \in p.shown : Past(Pos(c), k) /\ ~(p.next # None /\ Past(Pos(c), p.next))
    /\ p.next # None => k = None \/ Past(p.next, k)
    /\ \A c \in p.steady :
          Past(Pos(c), k) => c \in p.shown \/ (p.next # None /\ Past(Pos(c), p.next))

(* A walk before its next page: what it was shown lies before its cursor, and  *)
(* what it was not lies beyond.                                                *)
WalkFits(w) ==
    /\ w.shown \subseteq Stored
    /\ LastOf(w.cursor, w.shown)
    /\ w.cursor # None => w.steady \subseteq Stored
    /\ \A c \in w.shown : ~Past(Pos(c), w.cursor)
    /\ \A c \in w.steady : c \in w.shown \/ Past(Pos(c), w.cursor)

ReaderFits(s) ==
    /\ s.pc \in {"ask", "query", "store"} => WalkFits(s.walk)
    /\ s.pc = "store" => PageFits(s.got, s.walk.cursor)
    /\ s.pc = "end" => s.walk.steady \subseteq s.walk.shown
    /\ s.pc # "idle" => s.walk.received = Cardinality(s.walk.shown)

Fits ==
    /\ Numbered
    /\ \A k \in Cursor : page[k] # None => PageFits(page[k], k)
    /\ \A r \in Readers : ReaderFits(reader[r])

LEMMA WalkRecords ==
    /\ Idle \in Reader
    /\ \A pc \in {"ask", "end"}, w \in Walk : [pc |-> pc, walk |-> w] \in Reader
    /\ \A w \in Walk, n \in Nat \ {0} : [pc |-> "query", walk |-> w, size |-> n] \in Reader
    /\ \A w \in Walk, p \in Page : [pc |-> "store", walk |-> w, got |-> p] \in Reader
  BY DEF Reader, Idle

LEMMA WalkFields ==
    ASSUME NEW s \in Reader
    PROVE  /\ s.pc \in {"idle", "ask", "end", "query", "store"}
           /\ s.pc = "idle" => s = Idle
           /\ s.pc # "idle" => s.walk \in Walk
           /\ s.pc = "query" => s.size \in Nat \ {0}
           /\ s.pc = "store" => s.got \in Page
  BY DEF Reader, Idle

LEMMA ShownFinite == ASSUME NEW S, S \subseteq Comments
                     PROVE  IsFiniteSet(S) /\ Cardinality(S) \in Nat
  BY PagesAssumption, FS_Subset, FS_CardinalityType

(* A page added to a walk. *)
LEMMA ReceivedFits ==
    ASSUME TypeOK, Fits, NEW w \in Walk, NEW p \in Page, WalkFits(w), PageFits(p, w.cursor),
           w.received = Cardinality(w.shown)
    PROVE  Received(w, p) \in Reader /\ ReaderFits(Received(w, p))
<1> DEFINE v == [cursor |-> p.next, shown |-> w.shown \cup p.shown,
                 received |-> w.received + Cardinality(p.shown), steady |-> w.steady \cap p.steady]
<1>0. /\ w.cursor \in Cursor /\ p.next \in Cursor /\ w.shown \subseteq Comments
      /\ p.shown \subseteq Comments /\ w.received \in Nat
      /\ w.shown \subseteq Stored /\ p.shown \subseteq Stored
  BY DEF Walk, Page, WalkFits, PageFits
<1>1. v \in Walk
  <2>1. Cardinality(p.shown) \in Nat
    BY <1>0, ShownFinite
  <2> QED BY <1>0, <2>1 DEF Walk, Page
<1>2. Received(w, p) = [pc |-> IF p.next = None THEN "end" ELSE "ask", walk |-> v]
  BY DEF Received
<1>3. v.received = Cardinality(v.shown)
  <2>1. w.shown \cap p.shown = {}
    BY DEF WalkFits, PageFits
  <2>2. IsFiniteSet(w.shown) /\ IsFiniteSet(p.shown) /\ Cardinality(w.shown) \in Nat
        /\ Cardinality(p.shown) \in Nat
    BY <1>0, ShownFinite
  <2>3. Cardinality(w.shown \cup p.shown) = Cardinality(w.shown) + Cardinality(p.shown)
    <3>1. Cardinality(w.shown \cup p.shown)
             = Cardinality(w.shown) + Cardinality(p.shown) - Cardinality(w.shown \cap p.shown)
      BY <2>2, FS_Union
    <3>2. Cardinality(w.shown \cap p.shown) = 0
      BY <2>1, FS_EmptySet
    <3> QED BY <2>2, <3>1, <3>2
  <2> QED BY <2>3
<1>4. ASSUME NEW c \in v.steady
      PROVE  c \in v.shown \/ (p.next # None /\ Past(Pos(c), p.next))
  BY <1>4 DEF WalkFits, PageFits
<1>5. CASE p.next = None
  <2>1. v.steady \subseteq v.shown
    BY <1>4, <1>5
  <2> HIDE DEF v
  <2> QED BY <1>1, <1>2, <1>3, <1>5, <2>1, WalkRecords DEF ReaderFits
<1>6. CASE p.next # None
  <2>1. \A c \in v.shown : ~Past(Pos(c), p.next)
    <3>1. ASSUME NEW c \in p.shown PROVE ~Past(Pos(c), p.next)
      BY <1>6 DEF PageFits
    <3>2. ASSUME NEW c \in w.shown PROVE ~Past(Pos(c), p.next)
      <4>1. w.cursor # None /\ Past(p.next, w.cursor) /\ ~Past(Pos(c), w.cursor)
        BY <1>6 DEF WalkFits, PageFits, Past
      <4>2. Pos(c) \in Position /\ p.next \in Position
        BY <1>0, <1>6, StoredRows DEF Cursor
      <4> QED BY <1>0, <4>1, <4>2, PastOrder
    <3> QED BY <3>1, <3>2
  <2>2. WalkFits(v)
    <3>1. LastOf(v.cursor, v.shown)
      BY <1>6, <2>1 DEF PageFits, LastOf
    <3> QED BY <1>0, <1>4, <2>1, <3>1 DEF WalkFits, PageFits
  <2> HIDE DEF v
  <2> QED BY <1>1, <1>2, <1>3, <1>6, <2>2, WalkRecords DEF ReaderFits
<1> QED BY <1>5, <1>6

(* What fits goes on fitting while rows are only added. *)
RowsKept == /\ Stored \subseteq Stored' /\ TypeOK' /\ Numbered'
            /\ \A c \in Stored : Pos(c)' = Pos(c)

LEMMA PageKept ==
    ASSUME TypeOK, RowsKept, NEW p, NEW q, NEW k, PageFits(p, k),
           q.shown = p.shown, q.next = p.next, q.steady \subseteq p.steady
    PROVE  PageFits(q, k)'
<1>1. \A c \in p.shown \cup p.steady : c \in Stored /\ c \in Stored' /\ Pos(c)' = Pos(c)
  BY DEF RowsKept, PageFits
<1>2. \A m : \A c \in p.shown \cup p.steady : Past(Pos(c), m)' <=> Past(Pos(c), m)
  BY <1>1 DEF Past
<1>3. q.next # None => k = None \/ Past(q.next, k)
  BY DEF PageFits
<1>4. LastOf(q.next, q.shown)'
  BY <1>1, <1>2 DEF PageFits, LastOf
<1> QED BY <1>1, <1>2, <1>3, <1>4 DEF PageFits

LEMMA WalkKept ==
    ASSUME TypeOK, RowsKept, NEW w, NEW v, WalkFits(w),
           v.shown = w.shown, v.cursor = w.cursor, v.steady \subseteq w.steady
    PROVE  WalkFits(v)'
<1>1. \A c \in w.shown : c \in Stored /\ c \in Stored' /\ Pos(c)' = Pos(c)
  BY DEF RowsKept, WalkFits
<1>2. \A m : \A c \in w.shown : Past(Pos(c), m)' <=> Past(Pos(c), m)
  BY <1>1 DEF Past
<1>5. LastOf(v.cursor, v.shown)'
  BY <1>1, <1>2 DEF WalkFits, LastOf
<1>3. CASE w.cursor = None
  BY <1>1, <1>2, <1>3, <1>5 DEF WalkFits, Past
<1>4. CASE w.cursor # None
  <2>1. \A c \in w.steady : c \in Stored /\ c \in Stored' /\ Pos(c)' = Pos(c)
    BY <1>4 DEF RowsKept, WalkFits
  <2>2. \A m : \A c \in w.steady : Past(Pos(c), m)' <=> Past(Pos(c), m)
    BY <2>1 DEF Past
  <2> QED BY <1>1, <1>2, <1>4, <1>5, <2>1, <2>2 DEF WalkFits
<1> QED BY <1>3, <1>4

(* A reader that does not move, for whom a comment may have been rejected. *)
Trimmed(t, s) ==
    /\ t.pc = s.pc
    /\ s.pc # "idle" =>
          /\ t.walk.cursor = s.walk.cursor /\ t.walk.shown = s.walk.shown
          /\ t.walk.received = s.walk.received /\ t.walk.steady \subseteq s.walk.steady
    /\ s.pc = "store" =>
          t.got.shown = s.got.shown /\ t.got.next = s.got.next /\ t.got.steady \subseteq s.got.steady

LEMMA ReaderKept ==
    ASSUME TypeOK, RowsKept, NEW s \in Reader, NEW t, ReaderFits(s), Trimmed(t, s)
    PROVE  ReaderFits(t)'
<1>1. s.pc \in {"ask", "query", "store"} => WalkFits(t.walk)'
  BY WalkKept DEF ReaderFits, Trimmed
<1>2. s.pc = "store" => PageFits(t.got, t.walk.cursor)'
  BY PageKept DEF ReaderFits, Trimmed
<1>3. s.pc = "end" => t.walk.steady \subseteq t.walk.shown
  BY DEF ReaderFits, Trimmed
<1>4. s.pc # "idle" => t.walk.received = Cardinality(t.walk.shown)
  BY DEF ReaderFits, Trimmed
<1> QED BY <1>1, <1>2, <1>3, <1>4 DEF ReaderFits, Trimmed

(* A step of the consumer: pages and readers are kept, perhaps trimmed. *)
LEMMA FitsKept ==
    ASSUME TypeOK, Fits, RowsKept,
           \A k \in Cursor : page'[k] # None =>
              /\ page[k] # None /\ page'[k].shown = page[k].shown /\ page'[k].next = page[k].next
              /\ page'[k].steady \subseteq page[k].steady,
           \A r \in Readers : Trimmed(reader'[r], reader[r])
    PROVE  Fits'
<1>1. ASSUME NEW k \in Cursor, page'[k] # None
      PROVE  PageFits(page[k], k)
  BY <1>1 DEF Fits
<1>2. ASSUME NEW k \in Cursor, page'[k] # None, NEW p, NEW q, p = page[k], q = page'[k]
      PROVE  PageFits(q, k)'
  BY <1>1, <1>2, PageKept
<1>3. ASSUME NEW r \in Readers, NEW s, NEW t, s = reader[r], t = reader'[r]
      PROVE  ReaderFits(t)'
  BY <1>3, ReaderKept DEF TypeOK, Fits
<1>4. \A k \in Cursor : page'[k] # None => PageFits(page[k], k)'
  BY <1>2
<1>5. \A r \in Readers : ReaderFits(reader[r])'
  BY <1>3
<1> QED BY <1>4, <1>5 DEF Fits, RowsKept

-------------------------------------------------------------------------------
(* The consumer's steps. *)

LEMMA SameTrimmed == ASSUME NEW s PROVE Trimmed(s, s)
  BY DEF Trimmed

LEMMA InsertFits == ASSUME TypeOK, Fits, NEW c \in Comments, Insert(c) PROVE TypeOK' /\ Fits'
<1>1. PICK t \in Times :
         row' = [row EXCEPT ![c] = [created |-> t, id |-> Cardinality(Stored) + 1, approved |-> FALSE]]
  BY DEF Insert
<1> DEFINE new == [created |-> t, id |-> Cardinality(Stored) + 1, approved |-> FALSE]
<1>0. /\ row \in [Comments -> [created : Times, id : Ids, approved : BOOLEAN] \cup {None}]
      /\ row[c] = None /\ c \notin Stored
  BY DEF TypeOK, Insert, Stored
<1>2. IsFiniteSet(Stored \cup {c}) /\ Cardinality(Stored \cup {c}) = Cardinality(Stored) + 1
  BY <1>0, StoredRows, FS_AddElement
<1>3. Cardinality(Stored) + 1 <= Cardinality(Comments) /\ Cardinality(Stored) \in Nat
      /\ Cardinality(Comments) \in Nat
  <2>1. Stored \cup {c} \subseteq Comments /\ IsFiniteSet(Comments)
    BY StoredRows, PagesAssumption
  <2>2. Cardinality(Stored \cup {c}) <= Cardinality(Comments)
    BY <2>1, FS_Subset
  <2> QED BY <1>2, <2>1, <2>2, StoredRows, FS_CardinalityType
<1>4. new \in [created : Times, id : Ids, approved : BOOLEAN]
  BY <1>3 DEF Ids
<1>5. new # None
  BY <1>4, NoneNoRow
<1>6. row' \in [Comments -> [created : Times, id : Ids, approved : BOOLEAN] \cup {None}]
  BY <1>0, <1>1, <1>4
<1>7. TypeOK'
  BY <1>6 DEF TypeOK, Insert
<1>8. Stored' = Stored \cup {c}
  BY <1>0, <1>1, <1>5 DEF Stored
<1>9. \A d \in Stored : row'[d] = row[d]
  BY <1>0, <1>1 DEF Stored
<1>10. row'[c].id = Cardinality(Stored) + 1
  BY <1>0, <1>1
<1>11. \A d \in Stored : row[d].id \in Nat /\ row[d].id <= Cardinality(Stored)
  BY StoredRows, Positions DEF Fits, Numbered
<1>12. Numbered'
  BY <1>2, <1>3, <1>8, <1>9, <1>10, <1>11 DEF Numbered, Fits
<1>13. RowsKept
  BY <1>7, <1>8, <1>9, <1>12 DEF RowsKept, Pos
<1>14. Fits'
  BY <1>13, FitsKept, SameTrimmed DEF Insert
<1> QED BY <1>7, <1>14

(* Approvals and rejections leave positions alone. *)
LEMMA StatusKept ==
    ASSUME TypeOK, Fits, NEW c \in Stored, NEW b \in BOOLEAN, row' = [row EXCEPT ![c].approved = b],
           TypeOK'
    PROVE  RowsKept
<1>0. /\ row \in [Comments -> [created : Times, id : Ids, approved : BOOLEAN] \cup {None}]
      /\ c \in Comments /\ row[c] \in [created : Times, id : Ids, approved : BOOLEAN]
  BY DEF TypeOK, Stored
<1>1. \A d \in Comments : (row'[d] = None <=> row[d] = None)
  <2>1. row'[c] \in [created : Times, id : Ids, approved : BOOLEAN]
    BY <1>0
  <2>2. [created : Times, id : Ids, approved : BOOLEAN] \cap {None} = {}
    BY NoneNoRow
  <2> QED BY <1>0, <2>1, <2>2
<1>2. Stored' = Stored
  BY <1>1 DEF Stored
<1>3. \A d \in Stored : row'[d].created = row[d].created /\ row'[d].id = row[d].id
  BY <1>0 DEF Stored
<1> QED BY <1>2, <1>3 DEF RowsKept, Pos, Numbered, Fits

LEMMA ApproveFits == ASSUME TypeOK, Fits, NEW c \in Comments, Approve(c) PROVE TypeOK' /\ Fits'
<1>0. /\ row \in [Comments -> [created : Times, id : Ids, approved : BOOLEAN] \cup {None}]
      /\ c \in Stored /\ row' = [row EXCEPT ![c].approved = TRUE]
      /\ UNCHANGED <<page, reader>> /\ changes' \in 0..MaxChanges
  BY PagesAssumption DEF TypeOK, Approve, Stored
<1>1. TypeOK'
  <2>1. row[c] \in [created : Times, id : Ids, approved : BOOLEAN]
    BY <1>0 DEF Stored
  <2>2. row' \in [Comments -> [created : Times, id : Ids, approved : BOOLEAN] \cup {None}]
    BY <1>0, <2>1
  <2> QED BY <1>0, <2>2 DEF TypeOK
<1>2. RowsKept
  BY <1>0, <1>1, StatusKept
<1> QED BY <1>0, <1>1, <1>2, FitsKept, SameTrimmed

(* What a rejection leaves of the readers. *)
LEMMA RejectTrims ==
    ASSUME NEW c, NEW s \in Reader, NEW t,
           t = CASE s.pc = "idle"  -> Idle
                 [] s.pc = "store" -> [s EXCEPT !.walk.steady = @ \ {c}, !.got.steady = @ \ {c}]
                 [] OTHER -> [s EXCEPT !.walk.steady = @ \ {c}]
    PROVE  t \in Reader /\ Trimmed(t, s)
<1>1. CASE s.pc = "idle"
  BY <1>1, WalkFields, WalkRecords DEF Trimmed, Idle
<1>2. CASE s.pc = "store"
  <2>1. PICK w \in Walk, p \in Page : s = [pc |-> "store", walk |-> w, got |-> p]
    BY <1>2 DEF Reader, Idle
  <2>2. t = [pc |-> "store", walk |-> [w EXCEPT !.steady = @ \ {c}],
             got |-> [p EXCEPT !.steady = @ \ {c}]]
    BY <1>2, <2>1
  <2>3. [w EXCEPT !.steady = @ \ {c}] \in Walk /\ [p EXCEPT !.steady = @ \ {c}] \in Page
    BY DEF Walk, Page
  <2>4. t \in Reader
    BY <2>2, <2>3, WalkRecords
  <2> QED BY <2>1, <2>2, <2>4 DEF Trimmed, Walk, Page
<1>3. CASE s.pc \in {"ask", "end"}
  <2>1. PICK w \in Walk : s = [pc |-> s.pc, walk |-> w]
    BY <1>3 DEF Reader, Idle
  <2>2. t = [pc |-> s.pc, walk |-> [w EXCEPT !.steady = @ \ {c}]]
    BY <1>3, <2>1
  <2>3. [w EXCEPT !.steady = @ \ {c}] \in Walk
    BY DEF Walk
  <2>4. t \in Reader
    BY <1>3, <2>2, <2>3, WalkRecords
  <2> QED BY <1>3, <2>1, <2>2, <2>4 DEF Trimmed, Walk
<1>4. CASE s.pc = "query"
  <2>1. PICK w \in Walk, n \in Nat \ {0} : s = [pc |-> "query", walk |-> w, size |-> n]
    BY <1>4 DEF Reader, Idle
  <2>2. t = [pc |-> "query", walk |-> [w EXCEPT !.steady = @ \ {c}], size |-> n]
    BY <1>4, <2>1
  <2>3. [w EXCEPT !.steady = @ \ {c}] \in Walk
    BY DEF Walk
  <2>4. t \in Reader
    BY <2>2, <2>3, WalkRecords
  <2> QED BY <2>1, <2>2, <2>4 DEF Trimmed, Walk
<1> QED BY <1>1, <1>2, <1>3, <1>4, WalkFields

LEMMA RejectFits == ASSUME TypeOK, Fits, NEW c \in Comments, Reject(c) PROVE TypeOK' /\ Fits'
<1>0. /\ row \in [Comments -> [created : Times, id : Ids, approved : BOOLEAN] \cup {None}]
      /\ c \in Stored /\ row' = [row EXCEPT ![c].approved = FALSE]
      /\ changes' \in 0..MaxChanges
      /\ page \in [Cursor -> Page \cup {None}] /\ reader \in [Readers -> Reader]
  <2>1. /\ c \in Approved /\ changes < MaxChanges /\ changes' = changes + 1
        /\ row' = [row EXCEPT ![c].approved = FALSE]
    BY DEF Reject
  <2> QED BY <2>1, PagesAssumption DEF TypeOK, Approved
<1>1. row' \in [Comments -> [created : Times, id : Ids, approved : BOOLEAN] \cup {None}]
  <2>1. row[c] \in [created : Times, id : Ids, approved : BOOLEAN]
    BY <1>0 DEF Stored
  <2> QED BY <1>0, <2>1
<1>2. page' = [k \in Cursor |->
                 IF page[k] = None THEN None ELSE [page[k] EXCEPT !.steady = @ \ {c}]]
  BY DEF Reject
<1>3. ASSUME NEW k \in Cursor, page[k] # None
      PROVE  /\ page'[k] \in Page /\ page'[k].shown = page[k].shown /\ page'[k].next = page[k].next
             /\ page'[k].steady \subseteq page[k].steady
  <2>1. page[k] \in Page /\ page'[k] = [page[k] EXCEPT !.steady = @ \ {c}]
    BY <1>0, <1>2, <1>3
  <2> QED BY <2>1 DEF Page
<1>4. page' \in [Cursor -> Page \cup {None}]
  <2>1. \A k \in Cursor : page'[k] \in Page \cup {None}
    BY <1>2, <1>3
  <2> QED BY <1>2, <2>1
<1>5. ASSUME NEW r \in Readers
      PROVE  reader'[r] \in Reader /\ Trimmed(reader'[r], reader[r])
  <2>1. reader'[r] = CASE reader[r].pc = "idle"  -> Idle
                       [] reader[r].pc = "store" ->
                             [reader[r] EXCEPT !.walk.steady = @ \ {c}, !.got.steady = @ \ {c}]
                       [] OTHER -> [reader[r] EXCEPT !.walk.steady = @ \ {c}]
    BY DEF Reject
  <2>2. ASSUME NEW s, NEW t, s = reader[r], t = reader'[r]
        PROVE  t \in Reader /\ Trimmed(t, s)
    BY <1>0, <2>1, <2>2, RejectTrims
  <2> QED BY <2>2
<1>6. reader' \in [Readers -> Reader]
  BY <1>5 DEF Reject
<1>7. TypeOK'
  BY <1>0, <1>1, <1>4, <1>6 DEF TypeOK
<1>8. RowsKept
  BY <1>0, <1>7, StatusKept
<1>9. \A k \in Cursor : page'[k] # None => page[k] # None
  BY <1>2
<1> QED BY <1>3, <1>5, <1>7, <1>8, <1>9, FitsKept

(* The rows stay: what fits, fits. *)
LEMMA RowsSame == ASSUME TypeOK', Fits, UNCHANGED row PROVE RowsKept
  BY DEF RowsKept, Fits, Numbered, Stored, Pos

LEMMA ForgetFits == ASSUME TypeOK, Fits, NEW k \in Cursor, Forget(k) PROVE TypeOK' /\ Fits'
<1>1. TypeOK'
  BY DEF TypeOK, Forget
<1>2. \A j \in Cursor : page'[j] # None => page'[j] = page[j]
  BY DEF TypeOK, Forget
<1> QED BY <1>1, <1>2, RowsSame, FitsKept, SameTrimmed DEF Forget

-------------------------------------------------------------------------------
(* The readers' steps. *)

(* Reader r goes on to t; the pages stay, or the page of cursor k is replaced. *)
LEMMA ReaderFitsStep ==
    ASSUME TypeOK, Fits, UNCHANGED <<row, changes>>, NEW r \in Readers, NEW t \in Reader,
           reader' = [reader EXCEPT ![r] = t], ReaderFits(t),
           \/ page' = page
           \/ \E k \in Cursor, p \in Page : PageFits(p, k) /\ page' = [page EXCEPT ![k] = p]
    PROVE  TypeOK' /\ Fits'
<1>1. TypeOK'
  BY DEF TypeOK
<1>2. RowsKept
  BY <1>1, RowsSame
<1>3. \A s \in Reader : ReaderFits(s) => ReaderFits(s)'
  BY <1>2, ReaderKept, SameTrimmed
<1>4. ASSUME NEW q \in Readers, NEW s, s = reader'[q] PROVE ReaderFits(s)'
  <2>1. s \in Reader /\ ReaderFits(s)
    BY <1>4 DEF TypeOK, Fits
  <2> QED BY <1>3, <2>1
<1>5. ASSUME NEW k \in Cursor, NEW p, p = page'[k], p # None PROVE PageFits(p, k)'
  <2>1. PageFits(p, k)
    BY <1>5 DEF TypeOK, Fits
  <2> QED BY <1>2, <2>1, PageKept
<1>6. \A q \in Readers : ReaderFits(reader[q])'
  BY <1>4
<1>7. \A k \in Cursor : page'[k] # None => PageFits(page[k], k)'
  BY <1>5
<1> QED BY <1>1, <1>2, <1>6, <1>7 DEF Fits, RowsKept

LEMMA BeginFits == ASSUME TypeOK, Fits, NEW r \in Readers, Begin(r) PROVE TypeOK' /\ Fits'
<1> DEFINE w == [cursor |-> None, shown |-> {}, received |-> 0, steady |-> Comments]
<1>1. w \in Walk
  BY DEF Walk, Cursor
<1>2. WalkFits(w)
  BY DEF WalkFits, LastOf, Past
<1>3. w.received = Cardinality(w.shown)
  BY FS_EmptySet
<1>4. reader' = [reader EXCEPT ![r] = [pc |-> "ask", walk |-> w]] /\ UNCHANGED <<row, page, changes>>
  BY DEF Begin
<1> HIDE DEF w
<1>5. [pc |-> "ask", walk |-> w] \in Reader /\ ReaderFits([pc |-> "ask", walk |-> w])
  BY <1>1, <1>2, <1>3, WalkRecords DEF ReaderFits
<1> QED BY <1>4, <1>5, ReaderFitsStep

LEMMA HitFits == ASSUME TypeOK, Fits, NEW r \in Readers, Hit(r) PROVE TypeOK' /\ Fits'
<1>1. PICK w : w = reader[r].walk
  OBVIOUS
<1>2. PICK p : p = page[w.cursor]
  OBVIOUS
<1>3. /\ reader[r] \in Reader /\ reader[r].pc = "ask" /\ p # None
      /\ reader' = [reader EXCEPT ![r] = Received(w, p)] /\ UNCHANGED <<row, page, changes>>
  BY <1>1, <1>2 DEF Hit, TypeOK
<1>4. w \in Walk /\ w.cursor \in Cursor
  BY <1>1, <1>3, WalkFields DEF Walk
<1>5. p \in Page /\ PageFits(p, w.cursor)
  BY <1>2, <1>3, <1>4 DEF TypeOK, Fits
<1>6. WalkFits(w) /\ w.received = Cardinality(w.shown)
  BY <1>1, <1>3 DEF Fits, ReaderFits
<1>7. Received(w, p) \in Reader /\ ReaderFits(Received(w, p))
  BY <1>4, <1>5, <1>6, ReceivedFits
<1> QED BY <1>3, <1>7, ReaderFitsStep

LEMMA MissFits == ASSUME TypeOK, Fits, NEW r \in Readers, Miss(r) PROVE TypeOK' /\ Fits'
<1>1. PICK w : w = reader[r].walk
  OBVIOUS
<1>2. PICK n \in Sizes :
         reader' = [reader EXCEPT ![r] = [pc |-> "query", walk |-> w, size |-> NormalizePageSize(n)]]
  BY <1>1 DEF Miss
<1>3. reader[r] \in Reader /\ reader[r].pc = "ask" /\ UNCHANGED <<row, page, changes>>
  BY DEF Miss, TypeOK
<1>4. NormalizePageSize(n) \in Nat \ {0}
  BY PagesAssumption DEF NormalizePageSize
<1>5. w \in Walk /\ WalkFits(w) /\ w.received = Cardinality(w.shown)
  BY <1>1, <1>3, WalkFields DEF Fits, ReaderFits
<1> DEFINE t == [pc |-> "query", walk |-> w, size |-> NormalizePageSize(n)]
<1>6. t \in Reader /\ ReaderFits(t)
  BY <1>4, <1>5, WalkRecords DEF ReaderFits
<1> QED BY <1>2, <1>3, <1>6, ReaderFitsStep

LEMMA QueryFits == ASSUME TypeOK, Fits, NEW r \in Readers, Query(r) PROVE TypeOK' /\ Fits'
<1>1. PICK w : w = reader[r].walk
  OBVIOUS
<1>2. PICK n : n = reader[r].size
  OBVIOUS
<1>3. reader[r] \in Reader /\ reader[r].pc = "query" /\ UNCHANGED <<row, page, changes>>
  BY DEF Query, TypeOK
<1>4. w \in Walk /\ w.cursor \in Cursor /\ n \in Nat \ {0}
  BY <1>1, <1>2, <1>3, WalkFields DEF Walk
<1>5. WalkFits(w) /\ w.received = Cardinality(w.shown)
  BY <1>1, <1>3 DEF Fits, ReaderFits
<1>6. PICK B : B = {c \in Approved : Past(Pos(c), w.cursor)}
  OBVIOUS
<1>7. PICK found : found = Newest(B, n + 1)
  OBVIOUS
<1>8. PICK shown : shown = Newest(found, n)
  OBVIOUS
<1>9. PICK next : next = NextCursor(found, shown)
  OBVIOUS
<1>10. PICK p : p = [shown |-> shown, next |-> next, steady |-> Approved]
  OBVIOUS
<1>11. reader' = [reader EXCEPT ![r] = [pc |-> "store", walk |-> w, got |-> p]]
  BY <1>1, <1>2, <1>6, <1>7, <1>8, <1>9, <1>10 DEF Query
<1>12. B \subseteq Approved /\ B \subseteq Stored /\ Approved \subseteq Stored /\ Stored \subseteq Comments
  BY <1>6, StoredRows
<1>13. /\ shown \subseteq B
       /\ shown = found => next = None /\ shown = B
       /\ shown # found =>
            \E l \in shown : /\ next = Pos(l)
                             /\ \A c \in shown \ {l} : Past(Pos(l), Pos(c))
                             /\ \A c \in B \ shown : Past(Pos(c), Pos(l))
  BY <1>4, <1>7, <1>8, <1>9, <1>12, PageOf DEF Fits
<1>14. next \in Cursor
  BY <1>12, <1>13, StoredRows DEF Cursor
<1>15. p \in Page
  BY <1>10, <1>12, <1>13, <1>14 DEF Page
<1>16. PageFits(p, w.cursor)
  <2>1. CASE shown = found
    BY <1>6, <1>10, <1>12, <1>13, <2>1 DEF PageFits, LastOf
  <2>2. CASE shown # found
    <3>1. PICK l \in shown : /\ next = Pos(l)
                             /\ \A c \in shown \ {l} : Past(Pos(l), Pos(c))
                             /\ \A c \in B \ shown : Past(Pos(c), Pos(l))
      BY <1>13, <2>2
    <3>2. \A c \in shown : Pos(c) \in Position
      BY <1>12, <1>13, StoredRows
    <3>3. \A c \in shown : Past(Pos(c), w.cursor) /\ ~Past(Pos(c), next)
      BY <1>6, <1>13, <3>1, <3>2, PastOrder DEF Cursor
    <3>4. next # None /\ Past(next, w.cursor)
      BY <3>1, <3>2, <3>3, Positions
    <3>5. \A c \in Approved : Past(Pos(c), w.cursor) => c \in shown \/ Past(Pos(c), next)
      BY <1>6, <3>1
    <3>6. LastOf(next, shown)
      BY <3>1, <3>3 DEF LastOf
    <3> QED BY <1>10, <1>12, <1>13, <3>3, <3>4, <3>5, <3>6 DEF PageFits
  <2> QED BY <2>1, <2>2
<1> DEFINE t == [pc |-> "store", walk |-> w, got |-> p]
<1>17. t \in Reader /\ ReaderFits(t)
  BY <1>4, <1>5, <1>15, <1>16, WalkRecords DEF ReaderFits
<1> QED BY <1>3, <1>11, <1>17, ReaderFitsStep

LEMMA StoreFits == ASSUME TypeOK, Fits, NEW r \in Readers, Store(r) PROVE TypeOK' /\ Fits'
<1>1. PICK w : w = reader[r].walk
  OBVIOUS
<1>2. PICK p : p = reader[r].got
  OBVIOUS
<1>3. /\ reader[r] \in Reader /\ reader[r].pc = "store" /\ UNCHANGED <<row, changes>>
      /\ page' \in {page, [page EXCEPT ![w.cursor] = p]}
      /\ reader' = [reader EXCEPT ![r] = Received(w, p)]
  BY <1>1, <1>2 DEF Store, TypeOK
<1>4. w \in Walk /\ w.cursor \in Cursor /\ p \in Page
  BY <1>1, <1>2, <1>3, WalkFields DEF Walk
<1>5. WalkFits(w) /\ w.received = Cardinality(w.shown) /\ PageFits(p, w.cursor)
  BY <1>1, <1>2, <1>3 DEF Fits, ReaderFits
<1>6. Received(w, p) \in Reader /\ ReaderFits(Received(w, p))
  BY <1>4, <1>5, ReceivedFits
<1> QED BY <1>3, <1>4, <1>5, <1>6, ReaderFitsStep

LEMMA ErrorFits == ASSUME TypeOK, Fits, NEW r \in Readers, Error(r) PROVE TypeOK' /\ Fits'
<1>1. PICK w : w = reader[r].walk
  OBVIOUS
<1>2. reader[r] \in Reader /\ reader[r].pc \in {"query", "store"} /\ UNCHANGED <<row, page, changes>>
  BY DEF Error, TypeOK
<1>3. w \in Walk /\ WalkFits(w) /\ w.received = Cardinality(w.shown)
  BY <1>1, <1>2, WalkFields DEF Fits, ReaderFits
<1>4. [pc |-> "ask", walk |-> w] \in Reader /\ ReaderFits([pc |-> "ask", walk |-> w])
  BY <1>3, WalkRecords DEF ReaderFits
<1>5. Idle \in Reader /\ ReaderFits(Idle)
  BY WalkRecords DEF ReaderFits, Idle
<1>6. reader' = [reader EXCEPT ![r] = Idle] \/ reader' = [reader EXCEPT ![r] = [pc |-> "ask", walk |-> w]]
  BY <1>1 DEF Error
<1> QED BY <1>2, <1>4, <1>5, <1>6, ReaderFitsStep

-------------------------------------------------------------------------------
LEMMA FitsInit == Init => TypeOK /\ Fits
<1> SUFFICES ASSUME Init PROVE TypeOK /\ Fits
  OBVIOUS
<1>1. TypeOK
  BY PagesAssumption, WalkRecords DEF Init, TypeOK
<1>2. Stored = {}
  BY DEF Init, Stored
<1>3. Numbered
  BY <1>2 DEF Numbered
<1>4. \A r \in Readers : ReaderFits(reader[r])
  BY DEF Init, ReaderFits, Idle
<1> QED BY <1>1, <1>3, <1>4 DEF Init, Fits

LEMMA FitsStep == ASSUME TypeOK, Fits, [Next]_vars PROVE TypeOK' /\ Fits'
<1>1. CASE UNCHANGED vars
  <2>1. TypeOK'
    BY <1>1 DEF TypeOK, vars
  <2> QED BY <1>1, <2>1, RowsSame, FitsKept, SameTrimmed DEF vars
<1> QED BY <1>1, InsertFits, ApproveFits, RejectFits, ForgetFits, BeginFits, HitFits, MissFits,
           QueryFits, StoreFits, ErrorFits
        DEF Next, ListComments

(* Every cursor that a page offers or a reader sends is the position of a row, *)
(* the last of the comments the page or the walk has shown, also when that     *)
(* comment has been rejected since; and pages show only comments with a row.   *)
CursorsAreRows ==
    /\ \A k \in Cursor : page[k] # None =>
          page[k].shown \subseteq Stored /\ LastOf(page[k].next, page[k].shown)
    /\ \A r \in Readers : reader[r].pc \in {"ask", "query", "store"} =>
          /\ reader[r].walk.shown \subseteq Stored
          /\ LastOf(reader[r].walk.cursor, reader[r].walk.shown)

(* A cursor never dangles, for any number of comments, readers and changes: a  *)
(* reader that follows next_cursor asks for what is below a comment it saw.    *)
THEOREM CursorsAreRowsHolds == Spec => [](TypeOK /\ CursorsAreRows)
<1>1. TypeOK /\ Fits => CursorsAreRows
  BY DEF Fits, ReaderFits, PageFits, WalkFits, CursorsAreRows
<1> QED BY <1>1, FitsInit, FitsStep, PTL DEF Spec

(* No comment comes twice on a walk, for any number of comments, any sizes the *)
(* cached pages were read for and any changes meanwhile.                       *)
THEOREM NothingComesTwice == Spec => []NothingTwice
<1>1. Fits => NothingTwice
  BY DEF Fits, ReaderFits, NothingTwice, Walking
<1> QED BY <1>1, FitsInit, FitsStep, PTL DEF Spec

(* No comment that stayed approved is skipped, whatever the sizes and ties.    *)
THEOREM NothingIsSkipped == Spec => []NothingSkipped
<1>1. Fits => NothingSkipped
  BY DEF Fits, ReaderFits, NothingSkipped
<1> QED BY <1>1, FitsInit, FitsStep, PTL DEF Spec
===============================================================================
