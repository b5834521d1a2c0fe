--------------------------- MODULE WordFilter_proofs ---------------------------
(* Theorems about comment-filter: for any alphabet, words, texts and order of *)
(* the trie's edges the automaton finds every word and nothing else.          *)
EXTENDS WordFilter, FiniteSetTheorems, SequenceTheorems, WellFoundedInduction, TLAPS

-------------------------------------------------------------------------------
(* Suffixes *)

Strings == Seq(Chars)

Front(s) == SubSeq(s, 1, Len(s) - 1)

Suffix(v, s) ==
    Len(v) <= Len(s) /\ \A i \in 1 .. Len(v) : v[i] = s[Len(s) - Len(v) + i]

LEMMA SameString ==
    ASSUME NEW u \in Strings, NEW v \in Strings, Len(u) = Len(v),
           \A i \in 1 .. Len(u) : u[i] = v[i]
    PROVE  u = v
  BY DEF Strings

LEMMA Appended ==
    ASSUME NEW s \in Strings, NEW ch \in Chars
    PROVE  /\ Append(s, ch) \in Strings /\ Len(Append(s, ch)) = Len(s) + 1
           /\ \A i \in 1 .. Len(s) : Append(s, ch)[i] = s[i]
           /\ Append(s, ch)[Len(s) + 1] = ch
           /\ Append(s, ch) # Root
           /\ Front(Append(s, ch)) = s
  BY DEF Strings, Front, Root

LEMMA Fronted ==
    ASSUME NEW s \in Strings, s # Root
    PROVE  /\ Len(s) \in Nat \ {0}
           /\ Front(s) \in Strings /\ Len(Front(s)) = Len(s) - 1
           /\ s[Len(s)] \in Chars
           /\ \A i \in 1 .. Len(s) - 1 : Front(s)[i] = s[i]
           /\ s = Append(Front(s), s[Len(s)])
<1>1. Len(s) \in Nat /\ Len(s) # 0 /\ \A i \in 1 .. Len(s) : s[i] \in Chars
  BY DEF Strings, Root
<1>2. Front(s) \in Strings /\ Len(Front(s)) = Len(s) - 1
  <2>1. Front(s) \in Seq(Chars)
    BY <1>1, SubSeqProperties DEF Front
  <2>2. Len(Front(s)) = IF 1 <= Len(s) - 1 THEN Len(s) - 1 - 1 + 1 ELSE 0
    BY <1>1, SubSeqProperties DEF Front
  <2>3. Len(Front(s)) = Len(s) - 1
    BY <1>1, <2>2
  <2> QED BY <2>1, <2>3 DEF Strings
<1>3. \A i \in 1 .. Len(s) - 1 : Front(s)[i] = s[i]
  BY <1>1 DEF Strings, Front
<1>4. s[Len(s)] \in Chars
  BY <1>1
<1>5. Append(Front(s), s[Len(s)]) \in Strings /\ Len(Append(Front(s), s[Len(s)])) = Len(s)
  BY <1>1, <1>2, <1>4, Appended
<1>6. ASSUME NEW i \in 1 .. Len(s) PROVE Append(Front(s), s[Len(s)])[i] = s[i]
  <2>1. CASE i = Len(s)
    BY <1>1, <1>2, <1>4, <2>1, Appended
  <2>2. CASE i # Len(s)
    <3>1. i \in 1 .. Len(Front(s)) /\ i \in 1 .. Len(s) - 1
      BY <1>1, <1>2, <2>2
    <3>2. Append(Front(s), s[Len(s)])[i] = Front(s)[i]
      BY <1>2, <1>4, <3>1, Appended
    <3> QED BY <1>3, <3>1, <3>2
  <2> QED BY <2>1, <2>2
<1>7. s = Append(Front(s), s[Len(s)])
  BY <1>5, <1>6, SameString
<1> QED BY <1>1, <1>2, <1>3, <1>4, <1>7

LEMMA Tailed ==
    ASSUME NEW s \in Strings, s # Root
    PROVE  /\ Tail(s) \in Strings /\ Len(Tail(s)) = Len(s) - 1
           /\ \A i \in 1 .. Len(s) - 1 : Tail(s)[i] = s[i + 1]
           /\ \A ch \in Chars : Tail(Append(s, ch)) = Append(Tail(s), ch)
  BY DEF Strings, Root

LEMMA RootString ==
    /\ Root \in Strings /\ Len(Root) = 0
    /\ \A s \in Strings : Len(s) = 0 => s = Root
    /\ \A s \in Strings : Suffix(Root, s) /\ Suffix(s, s)
  BY DEF Strings, Root, Suffix

LEMMA SuffixTransitive ==
    ASSUME NEW u \in Strings, NEW v \in Strings, NEW s \in Strings, Suffix(u, v), Suffix(v, s)
    PROVE  Suffix(u, s)
<1>1. Len(u) \in Nat /\ Len(v) \in Nat /\ Len(s) \in Nat
  BY DEF Strings
<1>2. ASSUME NEW i \in 1 .. Len(u) PROVE u[i] = s[Len(s) - Len(u) + i]
  <2>1. Len(v) - Len(u) + i \in 1 .. Len(v) /\ u[i] = v[Len(v) - Len(u) + i]
    BY <1>1 DEF Suffix
  <2>2. Len(s) - Len(v) + (Len(v) - Len(u) + i) = Len(s) - Len(u) + i
    BY <1>1
  <2> QED BY <2>1, <2>2 DEF Suffix
<1> QED BY <1>1, <1>2 DEF Suffix

LEMMA SuffixOfSuffix ==
    ASSUME NEW u \in Strings, NEW v \in Strings, NEW s \in Strings,
           Suffix(u, s), Suffix(v, s), Len(u) <= Len(v)
    PROVE  Suffix(u, v) /\ (Len(u) = Len(v) => u = v)
<1>1. Len(u) \in Nat /\ Len(v) \in Nat /\ Len(s) \in Nat
  BY DEF Strings
<1>2. ASSUME NEW i \in 1 .. Len(u) PROVE u[i] = v[Len(v) - Len(u) + i]
  <2>1. Len(v) - Len(u) + i \in 1 .. Len(v)
    BY <1>1
  <2>2. v[Len(v) - Len(u) + i] = s[Len(s) - Len(v) + (Len(v) - Len(u) + i)]
    BY <2>1 DEF Suffix
  <2>3. Len(s) - Len(v) + (Len(v) - Len(u) + i) = Len(s) - Len(u) + i
    BY <1>1
  <2> QED BY <2>2, <2>3 DEF Suffix
<1>3. ASSUME Len(u) = Len(v) PROVE u = v
  <2>1. \A i \in 1 .. Len(u) : u[i] = v[i]
    BY <1>1, <1>2, <1>3
  <2> QED BY <2>1, <1>3, SameString
<1> QED BY <1>2, <1>3 DEF Suffix

LEMMA SuffixAppended ==
    ASSUME NEW u \in Strings, NEW s \in Strings, NEW ch \in Chars, Suffix(u, s)
    PROVE  Suffix(Append(u, ch), Append(s, ch))
  BY DEF Strings, Suffix

LEMMA SuffixFronted ==
    ASSUME NEW v \in Strings, NEW s \in Strings, NEW ch \in Chars, v # Root, Suffix(v, Append(s, ch))
    PROVE  v = Append(Front(v), ch) /\ Suffix(Front(v), s)
<1>1. Len(v) \in Nat \ {0} /\ Len(s) \in Nat /\ Len(v) <= Len(s) + 1
  BY Fronted, Appended DEF Suffix, Strings
<1>2. \A i \in 1 .. Len(v) : v[i] = Append(s, ch)[Len(s) + 1 - Len(v) + i]
  <2>1. Len(Append(s, ch)) = Len(s) + 1
    BY Appended
  <2> QED BY <2>1 DEF Suffix
<1>3. v[Len(v)] = ch
  <2>1. Len(v) \in 1 .. Len(v) /\ Len(s) + 1 - Len(v) + Len(v) = Len(s) + 1
    BY <1>1
  <2>2. v[Len(v)] = Append(s, ch)[Len(s) + 1]
    BY <1>2, <2>1
  <2> QED BY <2>2, Appended
<1>4. ASSUME NEW i \in 1 .. Len(v) - 1 PROVE Front(v)[i] = s[Len(s) - (Len(v) - 1) + i]
  <2>1. Len(s) + 1 - Len(v) + i \in 1 .. Len(s)
    BY <1>1
  <2>2. v[i] = Append(s, ch)[Len(s) + 1 - Len(v) + i]
    BY <1>1, <1>2
  <2>3. Len(s) - (Len(v) - 1) + i = Len(s) + 1 - Len(v) + i
    BY <1>1
  <2> QED BY <2>1, <2>2, <2>3, Appended, Fronted
<1>5. Suffix(Front(v), s)
  <2>1. Len(Front(v)) = Len(v) - 1 /\ Len(v) - 1 <= Len(s)
    BY <1>1, Fronted
  <2> QED BY <1>4, <2>1 DEF Suffix
<1> QED BY <1>3, <1>5, Fronted

LEMMA SuffixTailed ==
    ASSUME NEW v \in Strings, NEW s \in Strings, s # Root
    PROVE  Suffix(v, s) <=> v = s \/ Suffix(v, Tail(s))
<1>1. ASSUME Suffix(v, s), v # s PROVE Suffix(v, Tail(s))
  <2>1. Len(v) # Len(s)
    BY <1>1, SuffixOfSuffix, RootString
  <2> QED BY <2>1, <1>1, Tailed DEF Suffix, Strings
<1>2. ASSUME Suffix(v, Tail(s)) PROVE Suffix(v, s)
  BY <1>2, Tailed DEF Suffix, Strings
<1> QED BY <1>1, <1>2, RootString

-------------------------------------------------------------------------------
(* The longest suffix of a text that is a node of the trie *)

IsTrie(N) == N \subseteq Strings /\ Root \in N /\ \A n \in N \ {Root} : Front(n) \in N

Longest(N, s, v) ==
    /\ v \in N /\ Suffix(v, s)
    /\ \A u \in N : Suffix(u, s) => Len(u) <= Len(v)

LEMMA Smallest ==
    ASSUME NEW S \in SUBSET Nat, S # {}
    PROVE  \E n \in S : \A m \in S : n <= m
<1> DEFINE R == {ss \in Nat \X Nat : ss[1] < ss[2]}
<1>1. IsWellFoundedOn(R, Nat)
  BY NatLessThanWellFounded DEF OpToRel
<1>2. PICK n \in S : \A m \in S : ~(<<m, n>> \in R)
  <2> HIDE DEF R
  <2> QED BY <1>1, WFMin
<1>3. ASSUME NEW m \in S, m < n PROVE <<m, n>> \in R
  <2>1. <<m, n>> \in Nat \X Nat
    OBVIOUS
  <2>2. <<m, n>>[1] < <<m, n>>[2]
    BY <1>3
  <2> QED BY <2>1, <2>2
<1>4. \A m \in S : ~(m < n)
  <2> HIDE DEF R
  <2> QED BY <1>2, <1>3
<1> QED BY <1>4

(* Every text has one: the root is a suffix of it. *)
LEMMA LongestExists ==
    ASSUME NEW N, IsTrie(N), NEW s \in Strings
    PROVE  \E v : Longest(N, s, v)
<1> DEFINE S == {n \in Nat : \E v \in N : Suffix(v, s) /\ n = Len(s) - Len(v)}
<1>1. \A v \in N : v \in Strings /\ Len(v) \in Nat
  BY DEF IsTrie, Strings
<1>2. Len(s) \in Nat
  BY DEF Strings
<1>3. \A v \in N : Suffix(v, s) => Len(s) - Len(v) \in S
  BY <1>1, <1>2 DEF Suffix
<1>4. S # {} /\ S \in SUBSET Nat
  BY <1>3, RootString DEF IsTrie
<1>5. PICK n \in S : \A m \in S : n <= m
  <2> HIDE DEF S
  <2> QED BY <1>4, Smallest
<1>6. PICK v \in N : Suffix(v, s) /\ n = Len(s) - Len(v)
  OBVIOUS
<1>7. ASSUME NEW u \in N, Suffix(u, s) PROVE Len(u) <= Len(v)
  <2>1. Len(s) - Len(v) <= Len(s) - Len(u)
    BY <1>3, <1>5, <1>6, <1>7
  <2> QED BY <1>1, <1>2, <2>1
<1> QED BY <1>6, <1>7 DEF Longest

LEMMA LongestUnique ==
    ASSUME NEW N, IsTrie(N), NEW s \in Strings, NEW u, Longest(N, s, u), NEW v, Longest(N, s, v)
    PROVE  u = v
<1>1. u \in Strings /\ v \in Strings /\ Suffix(u, s) /\ Suffix(v, s)
  BY DEF Longest, IsTrie
<1>2. Len(u) \in Nat /\ Len(v) \in Nat /\ Len(u) <= Len(v) /\ Len(v) <= Len(u)
  BY <1>1 DEF Longest, Strings
<1> QED BY <1>1, <1>2, SuffixOfSuffix

(* A word of the trie is a suffix of the text just when it is one of the *)
(* longest node that is.                                                 *)
LEMMA LongestKnowsSuffixes ==
    ASSUME NEW N, IsTrie(N), NEW s \in Strings, NEW u, Longest(N, s, u), NEW v \in N
    PROVE  Suffix(v, s) <=> Suffix(v, u)
<1>1. u \in Strings /\ v \in Strings /\ Suffix(u, s)
  BY DEF Longest, IsTrie
<1>2. ASSUME Suffix(v, s) PROVE Suffix(v, u)
  BY <1>1, <1>2, SuffixOfSuffix DEF Longest
<1> QED BY <1>1, <1>2, SuffixTransitive

(* The node after one more character depends on the text by its longest *)
(* node alone.                                                          *)
LEMMA LongestOfLongest ==
    ASSUME NEW N, IsTrie(N), NEW s \in Strings, NEW ch \in Chars, NEW u, Longest(N, s, u),
           NEW x, Longest(N, Append(u, ch), x)
    PROVE  Longest(N, Append(s, ch), x)
<1>1. /\ u \in Strings /\ x \in Strings /\ Suffix(u, s)
      /\ Append(u, ch) \in Strings /\ Append(s, ch) \in Strings
  BY Appended DEF Longest, IsTrie
<1>2. Suffix(Append(u, ch), Append(s, ch))
  BY <1>1, SuffixAppended
<1>3. Suffix(x, Append(s, ch))
  BY <1>1, <1>2, SuffixTransitive DEF Longest
<1>4. ASSUME NEW v \in N, Suffix(v, Append(s, ch)) PROVE Len(v) <= Len(x)
  <2>1. CASE v = Root
    BY <1>1, <2>1, RootString DEF Strings
  <2>2. CASE v # Root
    <3>1. v \in Strings /\ Front(v) \in N /\ Front(v) \in Strings
      BY <2>2 DEF IsTrie
    <3>2. v = Append(Front(v), ch) /\ Suffix(Front(v), s)
      BY <1>4, <2>2, <3>1, SuffixFronted
    <3>3. Suffix(Front(v), u)
      BY <3>1, <3>2, LongestKnowsSuffixes
    <3>4. Suffix(v, Append(u, ch))
      BY <1>1, <3>1, <3>2, <3>3, SuffixAppended
    <3> QED BY <3>4 DEF Longest
  <2> QED BY <2>1, <2>2
<1> QED BY <1>3, <1>4 DEF Longest

-------------------------------------------------------------------------------
(* Follow *)

LEMMA LongestOfChild ==
    ASSUME NEW N, IsTrie(N), NEW n \in N, NEW ch \in Chars, Append(n, ch) \in N
    PROVE  Longest(N, Append(n, ch), Append(n, ch))
<1>1. Append(n, ch) \in Strings
  BY DEF IsTrie
<1> QED BY <1>1, RootString DEF Longest, Suffix

LEMMA LongestOfRoot ==
    ASSUME NEW N, IsTrie(N), NEW ch \in Chars, Append(Root, ch) \notin N
    PROVE  Longest(N, Append(Root, ch), Root)
<1>1. Append(Root, ch) \in Strings /\ Root \in N
  BY RootString, Appended DEF IsTrie
<1>2. ASSUME NEW v \in N, Suffix(v, Append(Root, ch)) PROVE v = Root
  <2> SUFFICES ASSUME v # Root PROVE FALSE
    OBVIOUS
  <2>1. v \in Strings /\ Front(v) \in Strings
    BY Fronted DEF IsTrie
  <2>2. v = Append(Front(v), ch) /\ Suffix(Front(v), Root)
    BY <1>2, <2>1, RootString, SuffixFronted
  <2>3. Len(Front(v)) = 0
    BY <2>1, <2>2, RootString DEF Suffix, Strings
  <2>4. Front(v) = Root
    BY <2>1, <2>3, RootString
  <2> QED BY <2>2, <2>4
<1> QED BY <1>1, <1>2, RootString DEF Longest

LEMMA LongestOfBorder ==
    ASSUME NEW N, IsTrie(N), NEW n \in N, n # Root, NEW ch \in Chars, Append(n, ch) \notin N,
           NEW b, Longest(N, Tail(n), b), NEW x, Longest(N, Append(b, ch), x)
    PROVE  Longest(N, Append(n, ch), x)
<1>1. n \in Strings /\ Tail(n) \in Strings
  BY Tailed DEF IsTrie
<1>2. Longest(N, Append(Tail(n), ch), x)
  BY <1>1, LongestOfLongest
<1>3. Append(n, ch) \in Strings /\ Append(n, ch) # Root /\ Tail(Append(n, ch)) = Append(Tail(n), ch)
  BY <1>1, Appended, Tailed
<1>4. \A v \in N : Suffix(v, Append(n, ch)) <=> Suffix(v, Append(Tail(n), ch))
  <2> SUFFICES ASSUME NEW v \in N
               PROVE  Suffix(v, Append(n, ch)) <=> Suffix(v, Append(Tail(n), ch))
    OBVIOUS
  <2>1. v \in Strings /\ v # Append(n, ch)
    BY DEF IsTrie
  <2> QED BY <1>3, <2>1, SuffixTailed
<1> QED BY <1>2, <1>4 DEF Longest

(* The fail links of the nodes of G are right, and no link leads out of G. *)
Linked(N, fail, G) ==
    /\ G \subseteq N /\ Root \in G
    /\ fail \in [N -> G]
    /\ \A n \in G \ {Root} : Longest(N, Tail(n), fail[n])

(* Follow is the only function that satisfies its equation: from a node of G *)
(* it leads to the longest suffix.                                           *)
LEMMA FollowRight ==
    ASSUME NEW N, IsTrie(N), NEW fail, NEW G, Linked(N, fail, G), NEW u \in G, NEW ch \in Chars
    PROVE  Longest(N, Append(u, ch), Follow(N, fail, u, ch))
<1> DEFINE Goes(n) == CHOOSE x : Longest(N, Append(n, ch), x)
           IsGoto(g) == g = [n \in N |-> IF Append(n, ch) \in N THEN Append(n, ch)
                                         ELSE IF n = Root THEN Root
                                         ELSE g[fail[n]]]
           h == [n \in N |-> IF n \in G THEN Goes(n)
                             ELSE IF Append(n, ch) \in N THEN Append(n, ch)
                             ELSE Goes(fail[n])]
<1>1. ASSUME NEW n \in N PROVE Longest(N, Append(n, ch), Goes(n))
  <2>1. Append(n, ch) \in Strings
    BY Appended DEF IsTrie
  <2> QED BY <2>1, LongestExists
<1>2. ASSUME NEW n \in N, NEW x, Longest(N, Append(n, ch), x) PROVE Goes(n) = x
  <2>1. Append(n, ch) \in Strings
    BY Appended DEF IsTrie
  <2> QED BY <1>1, <1>2, <2>1, LongestUnique
<1>3. \A n \in N : Append(n, ch) \in N => Goes(n) = Append(n, ch)
  BY <1>2, LongestOfChild
<1>4. Append(Root, ch) \notin N => Goes(Root) = Root
  BY <1>2, LongestOfRoot DEF IsTrie
<1>5. ASSUME NEW n \in G, n # Root, Append(n, ch) \notin N PROVE Goes(n) = Goes(fail[n])
  <2>1. Longest(N, Tail(n), fail[n]) /\ n \in N /\ fail[n] \in N
    BY <1>5 DEF Linked
  <2>2. Longest(N, Append(fail[n], ch), Goes(fail[n]))
    BY <1>1, <2>1
  <2>3. Longest(N, Append(n, ch), Goes(fail[n]))
    BY <1>5, <2>1, <2>2, LongestOfBorder
  <2> QED BY <1>2, <2>1, <2>3
<1> HIDE DEF Goes
<1>6. IsGoto(h)
  <2>1. ASSUME NEW n \in N
        PROVE  h[n] = IF Append(n, ch) \in N THEN Append(n, ch)
                      ELSE IF n = Root THEN Root
                      ELSE h[fail[n]]
    <3>1. fail[n] \in G /\ fail[n] \in N /\ Root \in G
      BY DEF Linked
    <3>2. h[fail[n]] = Goes(fail[n])
      BY <3>1
    <3>3. CASE n \in G
      BY <1>3, <1>4, <1>5, <3>2, <3>3
    <3>4. CASE n \notin G
      BY <3>1, <3>2, <3>4
    <3> QED BY <3>3, <3>4
  <2> QED BY <2>1
<1>7. ASSUME NEW g, IsGoto(g) PROVE \A n \in G : g[n] = Goes(n)
  <2> SUFFICES ASSUME NEW n0 \in G, g[n0] # Goes(n0) PROVE FALSE
    OBVIOUS
  <2> DEFINE S == {l \in Nat : \E n \in G : g[n] # Goes(n) /\ l = Len(n)}
  <2>0. \A n \in G : n \in Strings /\ n \in N /\ Len(n) \in Nat
    BY DEF Linked, IsTrie, Strings
  <2>1. S # {} /\ S \in SUBSET Nat
    BY <2>0
  <2>2. PICK l \in S : \A m \in S : l <= m
    <3> HIDE DEF S
    <3> QED BY <2>1, Smallest
  <2>3. PICK n \in G : g[n] # Goes(n) /\ l = Len(n)
    OBVIOUS
  <2>4. n \in N /\ n \in Strings
    BY <2>0
  <2>5. g[n] = IF Append(n, ch) \in N THEN Append(n, ch)
               ELSE IF n = Root THEN Root
               ELSE g[fail[n]]
    BY <1>7, <2>4
  <2>6. Append(n, ch) \notin N /\ n # Root
    BY <1>3, <1>4, <2>3, <2>4, <2>5
  <2>7. g[n] = g[fail[n]] /\ Goes(n) = Goes(fail[n])
    BY <1>5, <2>5, <2>6
  <2>8. Longest(N, Tail(n), fail[n]) /\ fail[n] \in G
    BY <2>4, <2>6 DEF Linked
  <2>9. Len(fail[n]) <= Len(n) - 1
    BY <2>4, <2>6, <2>8, Tailed DEF Longest, Suffix
  <2>10. Len(fail[n]) \in S
    BY <2>0, <2>3, <2>7, <2>8
  <2> QED BY <2>0, <2>2, <2>3, <2>8, <2>9, <2>10
<1> DEFINE goto == CHOOSE g : IsGoto(g)
<1>8. IsGoto(goto)
  <2> HIDE DEF IsGoto, h
  <2> QED BY <1>6
<1>9. Follow(N, fail, u, ch) = goto[u]
  BY DEF Follow
<1>10. goto[u] = Goes(u)
  <2> HIDE DEF IsGoto, goto
  <2> QED BY <1>7, <1>8
<1>11. u \in N
  BY DEF Linked
<1> QED BY <1>1, <1>9, <1>10, <1>11

-------------------------------------------------------------------------------
(* FindAll *)

Prefix(s, i) == SubSeq(s, 1, i)

Ending(W, n) == {w \in W : Suffix(w, n)}

(* An automaton that is built: every fail link leads to the longest proper    *)
(* suffix that is a node, every output holds the words that end at its node.  *)
Complete(W, a) ==
    /\ IsTrie(a.nodes) /\ W \subseteq a.nodes
    /\ Linked(a.nodes, a.fail, a.nodes)
    /\ a.out = [n \in a.nodes |-> Ending(W, n)]

LEMMA Prefixed ==
    ASSUME NEW s \in Strings, NEW i \in 0 .. Len(s)
    PROVE  /\ Prefix(s, i) \in Strings /\ Len(Prefix(s, i)) = i
           /\ \A j \in 1 .. i : Prefix(s, i)[j] = s[j]
           /\ i = 0 => Prefix(s, i) = Root
<1>1. Len(s) \in Nat /\ i \in Nat /\ i <= Len(s) /\ \A j \in 1 .. Len(s) : s[j] \in Chars
  BY DEF Strings
<1>2. Prefix(s, i) \in Seq(Chars)
  BY <1>1, SubSeqProperties DEF Prefix
<1>3. Len(Prefix(s, i)) = IF 1 <= i THEN i - 1 + 1 ELSE 0
  BY <1>1, SubSeqProperties DEF Prefix
<1>4. Len(Prefix(s, i)) = i
  BY <1>1, <1>3
<1>5. \A j \in 1 .. i : Prefix(s, i)[j] = s[j]
  BY <1>1, SubSeqProperties DEF Prefix
<1> QED BY <1>2, <1>4, <1>5, RootString DEF Strings

LEMMA PrefixGrows ==
    ASSUME NEW s \in Strings, NEW i \in 1 .. Len(s)
    PROVE  /\ s[i] \in Chars
           /\ Prefix(s, i) = Append(Prefix(s, i - 1), s[i])
<1>1. Len(s) \in Nat /\ i - 1 \in 0 .. Len(s) /\ i \in 0 .. Len(s) /\ s[i] \in Chars
  BY DEF Strings
<1>2. Append(Prefix(s, i - 1), s[i]) \in Strings /\ Len(Append(Prefix(s, i - 1), s[i])) = i
  <2>1. Prefix(s, i - 1) \in Strings /\ Len(Prefix(s, i - 1)) = i - 1
    BY <1>1, Prefixed
  <2> QED BY <1>1, <2>1, Appended
<1>3. ASSUME NEW j \in 1 .. i PROVE Prefix(s, i)[j] = Append(Prefix(s, i - 1), s[i])[j]
  <2>1. CASE j = i
    BY <1>1, <2>1, Prefixed, Appended
  <2>2. CASE j # i
    <3>1. j \in 1 .. i - 1
      BY <2>2
    <3>2. Prefix(s, i - 1) \in Strings /\ Len(Prefix(s, i - 1)) = i - 1
      BY <1>1, Prefixed
    <3>3. Append(Prefix(s, i - 1), s[i])[j] = Prefix(s, i - 1)[j]
      BY <1>1, <3>1, <3>2, Appended
    <3>4. Prefix(s, i - 1)[j] = s[j] /\ Prefix(s, i)[j] = s[j]
      BY <1>1, <3>1, Prefixed
    <3> QED BY <3>3, <3>4
  <2> QED BY <2>1, <2>2
<1>4. Prefix(s, i) \in Strings /\ Len(Prefix(s, i)) = i
  BY <1>1, Prefixed
<1> QED BY <1>1, <1>2, <1>3, <1>4, SameString

(* After i characters the automaton stands at the longest node the text up to *)
(* there ends with.                                                           *)
LEMMA StatesRight ==
    ASSUME NEW W, NEW a, Complete(W, a), NEW text \in Strings, NEW i \in 0 .. Len(text)
    PROVE  Longest(a.nodes, Prefix(text, i), States(a, text)[i])
<1> DEFINE N == a.nodes
           At(j) == CHOOSE x : Longest(N, Prefix(text, j), x)
           IsAt(g) == g = [j \in 0 .. Len(text) |->
                             IF j = 0 THEN Root ELSE Follow(N, a.fail, g[j - 1], text[j])]
           h == [j \in 0 .. Len(text) |-> At(j)]
<1>0. IsTrie(N) /\ Linked(N, a.fail, N) /\ Len(text) \in Nat
  BY DEF Complete, Strings
<1>1. ASSUME NEW j \in 0 .. Len(text) PROVE Longest(N, Prefix(text, j), At(j))
  BY <1>0, Prefixed, LongestExists
<1>2. ASSUME NEW j \in 0 .. Len(text), NEW x, Longest(N, Prefix(text, j), x) PROVE At(j) = x
  BY <1>0, <1>1, <1>2, Prefixed, LongestUnique
<1>3. At(0) = Root
  <2>1. Longest(N, Root, Root)
    BY <1>0, RootString DEF Longest, IsTrie, Suffix
  <2> QED BY <1>0, <1>2, <2>1, Prefixed
<1>4. ASSUME NEW j \in 1 .. Len(text) PROVE At(j) = Follow(N, a.fail, At(j - 1), text[j])
  <2>1. j - 1 \in 0 .. Len(text) /\ j \in 0 .. Len(text)
    OBVIOUS
  <2>2. At(j - 1) \in N /\ Longest(N, Prefix(text, j - 1), At(j - 1))
    BY <1>1, <2>1 DEF Longest
  <2>3. text[j] \in Chars /\ Prefix(text, j) = Append(Prefix(text, j - 1), text[j])
    BY PrefixGrows
  <2>4. Longest(N, Append(At(j - 1), text[j]), Follow(N, a.fail, At(j - 1), text[j]))
    BY <1>0, <2>2, <2>3, FollowRight
  <2>5. Longest(N, Prefix(text, j), Follow(N, a.fail, At(j - 1), text[j]))
    BY <1>0, <2>1, <2>2, <2>3, <2>4, Prefixed, LongestOfLongest
  <2> QED BY <1>2, <2>1, <2>5
<1> HIDE DEF At
<1>5. IsAt(h)
  <2>1. ASSUME NEW j \in 0 .. Len(text)
        PROVE  h[j] = IF j = 0 THEN Root ELSE Follow(N, a.fail, h[j - 1], text[j])
    <3>1. CASE j = 0
      BY <1>3, <3>1
    <3>2. CASE j # 0
      <4>1. j \in 1 .. Len(text) /\ j - 1 \in 0 .. Len(text)
        BY <1>0, <3>2
      <4> QED BY <1>4, <3>2, <4>1
    <3> QED BY <3>1, <3>2
  <2> QED BY <2>1
<1>6. ASSUME NEW g, IsAt(g) PROVE \A j \in 0 .. Len(text) : g[j] = At(j)
  <2> SUFFICES ASSUME NEW j0 \in 0 .. Len(text), g[j0] # At(j0) PROVE FALSE
    OBVIOUS
  <2> DEFINE S == {j \in 0 .. Len(text) : g[j] # At(j)}
  <2>1. S # {} /\ S \in SUBSET Nat
    OBVIOUS
  <2>2. PICK j \in S : \A m \in S : j <= m
    <3> HIDE DEF S
    <3> QED BY <2>1, Smallest
  <2>3. j \in 0 .. Len(text) /\ g[j] # At(j)
    OBVIOUS
  <2>4. g[j] = IF j = 0 THEN Root ELSE Follow(N, a.fail, g[j - 1], text[j])
    BY <1>6, <2>3
  <2>5. j # 0
    BY <1>3, <2>3, <2>4
  <2>6. j \in 1 .. Len(text) /\ j - 1 \in 0 .. Len(text)
    BY <1>0, <2>3, <2>5
  <2>7. g[j - 1] # At(j - 1)
    BY <1>4, <2>3, <2>4, <2>5, <2>6
  <2>8. j <= j - 1
    BY <2>2, <2>6, <2>7
  <2> QED BY <2>6, <2>8
<1> DEFINE at == CHOOSE g : IsAt(g)
<1>7. IsAt(at)
  <2> HIDE DEF IsAt, h
  <2> QED BY <1>5
<1>8. States(a, text) = at
  BY DEF States
<1>9. at[i] = At(i)
  <2> HIDE DEF IsAt, at
  <2> QED BY <1>6, <1>7
<1> QED BY <1>1, <1>8, <1>9

LEMMA LoweredString ==
    ASSUME NEW s \in Strings
    PROVE  /\ Lowered(s) \in Strings /\ Len(Lowered(s)) = Len(s)
           /\ DOMAIN s = 1 .. Len(s)
           /\ \A i \in 1 .. Len(s) : Lowered(s)[i] = Lower[s[i]]
  BY WordFilterAssumption DEF Strings, Lowered

LEMMA Sliced ==
    ASSUME NEW s \in Strings, NEW i \in 1 .. Len(s), NEW j \in 1 .. Len(s)
    PROVE  /\ SubSeq(s, i, j) \in Strings
           /\ i <= j => Len(SubSeq(s, i, j)) = j - i + 1
           /\ i > j => SubSeq(s, i, j) = Root
           /\ \A k \in 1 .. j - i + 1 : SubSeq(s, i, j)[k] = s[i + k - 1]
<1>1. Len(s) \in Nat /\ \A k \in 1 .. Len(s) : s[k] \in Chars
  BY DEF Strings
<1>2. SubSeq(s, i, j) \in Seq(Chars)
  BY <1>1, SubSeqProperties
<1>3. Len(SubSeq(s, i, j)) = IF i <= j THEN j - i + 1 ELSE 0
  BY <1>1, SubSeqProperties
<1>4. \A k \in 1 .. j - i + 1 : SubSeq(s, i, j)[k] = s[i + k - 1]
  BY <1>1, SubSeqProperties
<1>5. ASSUME i > j PROVE SubSeq(s, i, j) = Root
  <2>1. Len(SubSeq(s, i, j)) = 0
    BY <1>3, <1>5
  <2> QED BY <1>2, <2>1, RootString DEF Strings
<1> QED BY <1>2, <1>3, <1>4, <1>5 DEF Strings

(* A word stands in a text where it is a suffix of the text up to its end. *)
LEMMA StandsAtEnd ==
    ASSUME NEW s \in Strings, NEW w \in Strings, w # Root, NEW i \in 1 .. Len(s)
    PROVE  Suffix(w, Prefix(s, i)) <=>
              \E f \in 1 .. Len(s) : f = i - Len(w) + 1 /\ SubSeq(s, f, i) = w
<1>1. Len(s) \in Nat /\ Len(w) \in Nat /\ Len(w) # 0 /\ i \in Nat /\ i \in 0 .. Len(s)
  BY RootString DEF Strings
<1>2. Len(Prefix(s, i)) = i /\ \A j \in 1 .. i : Prefix(s, i)[j] = s[j]
  BY <1>1, Prefixed
<1>3. ASSUME Suffix(w, Prefix(s, i))
      PROVE  \E f \in 1 .. Len(s) : f = i - Len(w) + 1 /\ SubSeq(s, f, i) = w
  <2> DEFINE f == i - Len(w) + 1
  <2>1. Len(w) <= i /\ f \in 1 .. Len(s) /\ f <= i /\ i - f + 1 = Len(w)
    BY <1>1, <1>2, <1>3 DEF Suffix
  <2>2. SubSeq(s, f, i) \in Strings /\ Len(SubSeq(s, f, i)) = Len(w)
    BY <2>1, Sliced
  <2>3. ASSUME NEW k \in 1 .. Len(w) PROVE SubSeq(s, f, i)[k] = w[k]
    <3>1. SubSeq(s, f, i)[k] = s[f + k - 1]
      BY <2>1, Sliced
    <3>2. w[k] = Prefix(s, i)[i - Len(w) + k]
      BY <1>2, <1>3 DEF Suffix
    <3>3. i - Len(w) + k \in 1 .. i /\ f + k - 1 = i - Len(w) + k
      BY <1>1, <2>1
    <3> QED BY <1>2, <3>1, <3>2, <3>3
  <2>4. SubSeq(s, f, i) = w
    BY <2>2, <2>3, SameString
  <2> QED BY <2>1, <2>4
<1>4. ASSUME NEW f \in 1 .. Len(s), f = i - Len(w) + 1, SubSeq(s, f, i) = w
      PROVE  Suffix(w, Prefix(s, i))
  <2>1. f <= i /\ i - f + 1 = Len(w) /\ Len(w) <= i
    BY <1>1, <1>4
  <2>2. ASSUME NEW k \in 1 .. Len(w) PROVE w[k] = Prefix(s, i)[i - Len(w) + k]
    <3>1. w[k] = s[f + k - 1]
      <4>1. k \in 1 .. i - f + 1
        BY <2>1
      <4>2. SubSeq(s, f, i)[k] = s[f + k - 1]
        BY <4>1, Sliced
      <4> QED BY <1>4, <4>2
    <3>2. i - Len(w) + k \in 1 .. i /\ f + k - 1 = i - Len(w) + k
      BY <1>1, <1>4, <2>1
    <3> QED BY <1>2, <3>1, <3>2
  <2> QED BY <1>2, <2>1, <2>2 DEF Suffix
<1> QED BY <1>3, <1>4

LEMMA FindAllRight ==
    ASSUME NEW W, NEW a, Complete(W, a), \A w \in W : IsWord(w), NEW text \in Strings
    PROVE  FindAll(a, text) = Occurrences(W, text)
<1> DEFINE low == Lowered(text)
           at  == States(a, low)
           Hit(w, i) == [word |-> w, first |-> i - Len(w) + 1, last |-> i]
<1>1. /\ low \in Strings /\ Len(low) = Len(text) /\ DOMAIN text = 1 .. Len(text)
      /\ Len(text) \in Nat
  BY LoweredString DEF Strings
<1>2. \A w \in W : w \in a.nodes /\ w \in Strings /\ w # Root /\ Lowered(w) = w
  BY DEF Complete, IsTrie, IsWord, Root
<1>3. ASSUME NEW i \in 1 .. Len(text), NEW w \in W
      PROVE  w \in a.out[at[i]] <=>
                \E f \in 1 .. Len(text) : f = i - Len(w) + 1 /\ SubSeq(low, f, i) = w
  <2>1. i \in 0 .. Len(low) /\ i \in 1 .. Len(low) /\ Prefix(low, i) \in Strings
    BY <1>1, Prefixed
  <2>2. Longest(a.nodes, Prefix(low, i), at[i])
    BY <1>1, <2>1, StatesRight
  <2>3. w \in a.out[at[i]] <=> Suffix(w, at[i])
    BY <2>2 DEF Complete, Longest, Ending
  <2>4. Suffix(w, Prefix(low, i)) <=> Suffix(w, at[i])
    BY <1>2, <2>1, <2>2, LongestKnowsSuffixes DEF Complete
  <2> QED BY <1>1, <1>2, <2>1, <2>3, <2>4, StandsAtEnd
<1>4. \A i \in 1 .. Len(text) : a.out[at[i]] \subseteq W
  <2> SUFFICES ASSUME NEW i \in 1 .. Len(text) PROVE a.out[at[i]] \subseteq W
    OBVIOUS
  <2>1. i \in 0 .. Len(low)
    BY <1>1
  <2>2. at[i] \in a.nodes
    BY <1>1, <2>1, StatesRight DEF Longest
  <2> QED BY <2>2 DEF Complete, Ending
<1>5. FindAll(a, text) = UNION {{Hit(w, i) : w \in a.out[at[i]]} : i \in 1 .. Len(text)}
  BY <1>1 DEF FindAll
<1> HIDE DEF low, at
<1>6. ASSUME NEW m \in FindAll(a, text) PROVE m \in Occurrences(W, text)
  <2>1. PICK i \in 1 .. Len(text) : \E w \in a.out[at[i]] : m = Hit(w, i)
    BY <1>5
  <2>2. PICK w \in a.out[at[i]] : m = Hit(w, i)
    BY <2>1
  <2>3. w \in W
    BY <1>4
  <2>4. PICK f \in 1 .. Len(text) : f = i - Len(w) + 1 /\ SubSeq(low, f, i) = w
    BY <1>3, <2>3
  <2>5. m \in [word : W, first : 1 .. Len(text), last : 1 .. Len(text)]
    BY <2>2, <2>3, <2>4
  <2>6. SubSeq(Lowered(text), m.first, m.last) = Lowered(m.word)
    BY <1>2, <2>2, <2>3, <2>4 DEF low
  <2> QED BY <2>5, <2>6 DEF Occurrences
<1>7. ASSUME NEW m \in Occurrences(W, text) PROVE m \in FindAll(a, text)
  <2> DEFINE w == m.word
             i == m.last
             f == m.first
  <2>1. /\ w \in W /\ i \in 1 .. Len(text) /\ f \in 1 .. Len(text)
        /\ m = [word |-> w, first |-> f, last |-> i]
        /\ SubSeq(Lowered(text), f, i) = Lowered(w)
    BY DEF Occurrences
  <2>2. SubSeq(low, f, i) = w
    BY <1>2, <2>1 DEF low
  <2>3. f <= i /\ Len(w) = i - f + 1
    <3>1. f \in 1 .. Len(low) /\ i \in 1 .. Len(low)
      BY <1>1, <2>1
    <3>2. w # Root
      BY <1>2, <2>1
    <3>3. f > i => SubSeq(low, f, i) = Root
      BY <1>1, <3>1, Sliced
    <3>4. f <= i
      BY <1>1, <2>1, <2>2, <3>2, <3>3
    <3>5. Len(SubSeq(low, f, i)) = i - f + 1
      BY <1>1, <3>1, <3>4, Sliced
    <3> QED BY <2>2, <3>4, <3>5
  <2>4. f = i - Len(w) + 1
    BY <2>1, <2>3
  <2>5. w \in a.out[at[i]]
    BY <1>3, <2>1, <2>2, <2>4
  <2>6. m = Hit(w, i)
    BY <2>1, <2>4
  <2> QED BY <1>5, <2>1, <2>5, <2>6
<1> QED BY <1>6, <1>7

-------------------------------------------------------------------------------
(* Build                                                                      *)
(*                                                                            *)
(* done are the nodes whose link and output are right; the others have an     *)
(* output of their own word at most, and every link leads into done.  The     *)
(* queue holds nodes that are done, in order of their length and with at most *)
(* two lengths.  A node that is not done has an ancestor whose parent is the  *)
(* head of the queue, and is to do, or waits further behind: so every node    *)
(* that is no longer than the head is done, and with it every node a link of  *)
(* the head's children can lead to.                                           *)

Linking(W, b, done) ==
    /\ b = [of |-> b.of, queue |-> b.queue, todo |-> b.todo, next |-> b.next]
    /\ b.next = [nodes |-> b.next.nodes, fail |-> b.next.fail, out |-> b.next.out]
    /\ IsTrie(b.next.nodes) /\ W \subseteq b.next.nodes
    /\ Linked(b.next.nodes, b.next.fail, done)
    /\ \A n \in done \ {Root} : Front(n) \in done
    /\ b.next.out = [n \in b.next.nodes |-> IF n \in done THEN Ending(W, n) ELSE {n} \cap W]
    /\ b.queue \in Seq(done \ {Root})
    /\ \A i, j \in 1 .. Len(b.queue) : i < j => /\ b.queue[i] # b.queue[j]
                                                /\ Len(b.queue[i]) <= Len(b.queue[j])
    /\ \A i \in 1 .. Len(b.queue) : Len(b.queue[i]) <= Len(b.queue[1]) + 1
    /\ b.todo \subseteq Edges(b.next.nodes, b.queue) \ done
    /\ \A n \in b.next.nodes \ done : Front(n) \in done =>
          n \in b.todo \/ \E i \in 2 .. Len(b.queue) : Front(n) = b.queue[i]
    /\ \A i \in 2 .. Len(b.queue) : Children(b.next.nodes, b.queue[i]) \cap done = {}

LEMMA ChildrenFront ==
    ASSUME NEW N, IsTrie(N), NEW n \in Strings, NEW m \in N
    PROVE  m \in Children(N, n) <=> m # Root /\ Front(m) = n
<1>1. m \in Strings /\ Len(m) \in Nat /\ Len(n) \in Nat
  BY DEF IsTrie, Strings
<1>2. ASSUME m \in Children(N, n) PROVE m # Root /\ Front(m) = n
  <2>1. Len(m) = Len(n) + 1 /\ SubSeq(m, 1, Len(n)) = n
    BY <1>2 DEF Children
  <2>2. Len(m) - 1 = Len(n)
    BY <1>1, <2>1
  <2> QED BY <1>1, <2>1, <2>2, RootString DEF Front
<1>3. ASSUME m # Root, Front(m) = n PROVE m \in Children(N, n)
  <2>1. Len(m) - 1 = Len(n)
    BY <1>1, <1>3, Fronted
  <2>2. Len(m) = Len(n) + 1
    BY <1>1, <2>1
  <2> QED BY <1>3, <2>1, <2>2 DEF Children, Front
<1> QED BY <1>2, <1>3

LEMMA NodesTrie ==
    ASSUME NEW W \in SUBSET (Strings \ {Root})
    PROVE  IsTrie(Nodes(W)) /\ W \subseteq Nodes(W)
<1>1. \A w \in W : w \in Strings /\ w # Root /\ Len(w) \in Nat /\ DOMAIN w = 1 .. Len(w)
  BY DEF Strings
<1>2. ASSUME NEW n
      PROVE  n \in Nodes(W) <=> n = Root \/ \E w \in W : \E i \in 1 .. Len(w) : n = Prefix(w, i)
  BY <1>1 DEF Nodes, Prefix
<1>3. ASSUME NEW n \in Nodes(W) PROVE n \in Strings
  <2>1. CASE n = Root
    BY <2>1, RootString
  <2>2. ASSUME NEW w \in W, NEW i \in 1 .. Len(w), n = Prefix(w, i) PROVE n \in Strings
    BY <1>1, <2>2, Prefixed
  <2> QED BY <1>2, <2>1, <2>2
<1>4. ASSUME NEW n \in Nodes(W), n # Root PROVE Front(n) \in Nodes(W)
  <2>1. PICK w \in W : \E i \in 1 .. Len(w) : n = Prefix(w, i)
    BY <1>2, <1>4
  <2>2. PICK i \in 1 .. Len(w) : n = Prefix(w, i)
    BY <2>1
  <2>3. w \in Strings /\ i - 1 \in 0 .. Len(w) /\ Prefix(w, i - 1) \in Strings
    BY <1>1, Prefixed
  <2>4. Front(n) = Prefix(w, i - 1)
    <3>1. n = Append(Prefix(w, i - 1), w[i]) /\ w[i] \in Chars
      BY <2>2, <2>3, PrefixGrows
    <3> QED BY <2>3, <3>1, Appended
  <2>5. CASE i = 1
    BY <1>2, <2>3, <2>4, <2>5, Prefixed
  <2>6. CASE i # 1
    <3>1. i - 1 \in 1 .. Len(w)
      BY <1>1, <2>6
    <3> QED BY <1>2, <2>4, <3>1
  <2> QED BY <2>5, <2>6
<1>5. ASSUME NEW w \in W PROVE w \in Nodes(W)
  <2>1. w \in Strings /\ Len(w) \in 1 .. Len(w) /\ Len(w) \in 0 .. Len(w)
    BY <1>1, RootString
  <2>2. Prefix(w, Len(w)) = w
    BY <2>1, Prefixed, SameString
  <2> QED BY <1>2, <2>1, <2>2
<1>6. Root \in Nodes(W)
  BY <1>2
<1> QED BY <1>3, <1>4, <1>5, <1>6 DEF IsTrie

LEMMA LevelDone ==
    ASSUME NEW W, NEW b, NEW done, Linking(W, b, done)
    PROVE  \A n \in b.next.nodes : b.queue = <<>> \/ Len(n) <= Len(Head(b.queue)) => n \in done
<1> DEFINE N == b.next.nodes
           S == {l \in Nat : \E n \in N \ done : l = Len(n)}
<1> SUFFICES ASSUME NEW n0 \in N, b.queue = <<>> \/ Len(n0) <= Len(Head(b.queue)), n0 \notin done
             PROVE  FALSE
  OBVIOUS
<1>0. IsTrie(N) /\ Root \in done /\ done \subseteq N
  BY DEF Linking, Linked
<1>1. \A n \in N : n \in Strings /\ Len(n) \in Nat
  BY <1>0 DEF IsTrie, Strings
<1>2. S # {} /\ S \in SUBSET Nat
  BY <1>1
<1>3. PICK l \in S : \A m \in S : l <= m
  <2> HIDE DEF S
  <2> QED BY <1>2, Smallest
<1>4. PICK n \in N \ done : l = Len(n)
  OBVIOUS
<1>5. Len(n) <= Len(n0)
  BY <1>1, <1>3, <1>4
<1>6. n # Root /\ Front(n) \in N /\ Len(Front(n)) = Len(n) - 1 /\ Len(Front(n)) \in Nat
  BY <1>0, <1>1, <1>4, Fronted DEF IsTrie
<1>7. Front(n) \in done
  <2> SUFFICES ASSUME Front(n) \notin done PROVE FALSE
    OBVIOUS
  <2>1. Len(Front(n)) \in S
    BY <1>6
  <2> QED BY <1>1, <1>3, <1>4, <1>6, <2>1
<1>8. n \in b.todo \/ \E i \in 2 .. Len(b.queue) : Front(n) = b.queue[i]
  BY <1>4, <1>7 DEF Linking
<1>9. b.queue \in Seq(done \ {Root}) /\ b.todo \subseteq Edges(N, b.queue)
  BY DEF Linking
<1>10. b.queue # <<>>
  BY <1>8, <1>9 DEF Edges
<1>11. Head(b.queue) = b.queue[1] /\ b.queue[1] \in done /\ Len(b.queue) \in Nat \ {0}
  BY <1>9, <1>10
<1>12. Len(n) <= Len(b.queue[1])
  BY <1>0, <1>1, <1>5, <1>10, <1>11
<1>13. CASE n \in b.todo
  <2>1. n \in Children(N, b.queue[1])
    BY <1>9, <1>10, <1>11, <1>13 DEF Edges
  <2>2. Len(n) = Len(b.queue[1]) + 1
    BY <2>1 DEF Children
  <2> QED BY <1>0, <1>1, <1>11, <1>12, <2>2
<1>14. ASSUME NEW i \in 2 .. Len(b.queue), Front(n) = b.queue[i] PROVE FALSE
  <2>1. 1 \in 1 .. Len(b.queue) /\ i \in 1 .. Len(b.queue) /\ 1 < i
    BY <1>11
  <2>2. Len(b.queue[1]) <= Len(b.queue[i])
    BY <2>1 DEF Linking
  <2>3. Len(b.queue[1]) \in Nat
    BY <1>0, <1>1, <1>11
  <2> QED BY <1>1, <1>6, <1>12, <1>14, <2>2, <2>3
<1> QED BY <1>8, <1>13, <1>14

(* The edge's node gets its longest proper suffix for a link, and the words *)
(* of the link's output besides its own.                                    *)
LEMMA LinkRight ==
    ASSUME NEW W, NEW b, NEW done, Linking(W, b, done), NEW node \in b.todo
    PROVE  LET t    == b.next
               curr == Head(b.queue)
               link == Follow(t.nodes, t.fail, t.fail[curr], node[Len(node)])
           IN /\ b.queue # <<>> /\ curr = b.queue[1] /\ curr \in done \ {Root}
              /\ node \in t.nodes \ done /\ node # Root /\ node \in Strings
              /\ Front(node) = curr /\ Len(node) = Len(curr) + 1
              /\ link \in done
              /\ Longest(t.nodes, Tail(node), link)
              /\ t.out[node] \cup t.out[link] = Ending(W, node)
<1> DEFINE t    == b.next
           N    == t.nodes
           curr == Head(b.queue)
           ch   == node[Len(node)]
           link == Follow(N, t.fail, t.fail[curr], ch)
<1>0. IsTrie(N) /\ W \subseteq N /\ Linked(N, t.fail, done) /\ done \subseteq N
  BY DEF Linking, Linked
<1>1. b.queue \in Seq(done \ {Root}) /\ b.todo \subseteq Edges(N, b.queue) \ done
  BY DEF Linking
<1>2. b.queue # <<>>
  BY <1>1 DEF Edges
<1>3. curr = b.queue[1] /\ curr \in done \ {Root} /\ curr \in N /\ curr \in Strings
  BY <1>0, <1>1, <1>2 DEF IsTrie
<1>4. node \in Children(N, curr) /\ node \in N \ done
  BY <1>1, <1>2 DEF Edges, Children
<1>5. node # Root /\ Front(node) = curr /\ node \in Strings
  BY <1>0, <1>3, <1>4, ChildrenFront DEF IsTrie
<1>6. ch \in Chars /\ node = Append(curr, ch) /\ Len(node) = Len(curr) + 1
  BY <1>3, <1>5, Fronted, Appended
<1>7. Tail(node) = Append(Tail(curr), ch) /\ Tail(node) \in Strings /\ Tail(curr) \in Strings
  BY <1>3, <1>5, <1>6, Tailed
<1>8. Longest(N, Tail(curr), t.fail[curr]) /\ t.fail[curr] \in done
  BY <1>0, <1>3 DEF Linked
<1>9. Longest(N, Append(t.fail[curr], ch), link)
  BY <1>0, <1>6, <1>8, FollowRight
<1>10. Longest(N, Tail(node), link)
  BY <1>0, <1>6, <1>7, <1>8, <1>9, LongestOfLongest
<1>11. link \in done
  <2>1. link \in N /\ Len(link) <= Len(Tail(node))
    BY <1>10 DEF Longest, Suffix
  <2>2. Len(Tail(node)) = Len(curr)
    BY <1>3, <1>5, <1>6, Tailed DEF Strings
  <2> QED BY <2>1, <2>2, LevelDone
<1>12. t.out[node] \cup t.out[link] = Ending(W, node)
  <2>1. t.out[node] = {node} \cap W /\ t.out[link] = Ending(W, link)
    BY <1>0, <1>4, <1>11 DEF Linking
  <2>2. ASSUME NEW w \in W
        PROVE  Suffix(w, node) <=> w = node \/ Suffix(w, link)
    <3>1. w \in N /\ w \in Strings
      BY <1>0 DEF IsTrie
    <3>2. Suffix(w, node) <=> w = node \/ Suffix(w, Tail(node))
      BY <1>5, <3>1, SuffixTailed
    <3> QED BY <1>0, <1>7, <1>10, <3>1, <3>2, LongestKnowsSuffixes
  <2> QED BY <2>1, <2>2 DEF Ending
<1> HIDE DEF link
<1>13. /\ b.queue # <<>> /\ curr = b.queue[1] /\ curr \in done \ {Root}
       /\ node \in t.nodes \ done /\ node # Root /\ node \in Strings
       /\ Front(node) = curr /\ Len(node) = Len(curr) + 1
       /\ link \in done
       /\ Longest(t.nodes, Tail(node), link)
       /\ t.out[node] \cup t.out[link] = Ending(W, node)
  BY <1>2, <1>3, <1>4, <1>5, <1>6, <1>10, <1>11, <1>12
<1> QED BY <1>13 DEF link

LEMMA BuildEdgeRight ==
    ASSUME NEW W, NEW done, Linking(W, build, done), BuildEdge
    PROVE  build'.of = build.of /\ \E more : Linking(W, build', more)
<1>1. PICK node \in build.todo :
         LET t    == build.next
             curr == Head(build.queue)
             link == Follow(t.nodes, t.fail, t.fail[curr], node[Len(node)])
         IN build' = [build EXCEPT !.queue = Append(@, node),
                                   !.todo  = @ \ {node},
                                   !.next  = Link(@, node, link)]
  BY DEF BuildEdge
<1> DEFINE t    == build.next
           N    == t.nodes
           q    == build.queue
           curr == Head(q)
           link == Follow(N, t.fail, t.fail[curr], node[Len(node)])
           more == done \cup {node}
<1>2. /\ q # <<>> /\ curr = q[1] /\ curr \in done \ {Root}
      /\ node \in N \ done /\ node # Root /\ node \in Strings
      /\ Front(node) = curr /\ Len(node) = Len(curr) + 1
      /\ link \in done
      /\ Longest(N, Tail(node), link)
      /\ t.out[node] \cup t.out[link] = Ending(W, node)
  BY LinkRight
<1> HIDE DEF link
<1>3. /\ build' = [of |-> build.of, queue |-> Append(q, node), todo |-> build.todo \ {node},
                   next |-> Link(t, node, link)]
      /\ Link(t, node, link) = [nodes |-> N, fail |-> [t.fail EXCEPT ![node] = link],
                                out |-> [t.out EXCEPT ![node] = @ \cup t.out[link]]]
  <2>1. build = [of |-> build.of, queue |-> q, todo |-> build.todo, next |-> t]
    BY DEF Linking
  <2>2. t = [nodes |-> N, fail |-> t.fail, out |-> t.out]
    BY DEF Linking
  <2>3. build' = [build EXCEPT !.queue = Append(@, node),
                               !.todo  = @ \ {node},
                               !.next  = Link(@, node, link)]
    BY <1>1 DEF link
  <2>4. build' = [of |-> build.of, queue |-> Append(q, node), todo |-> build.todo \ {node},
                  next |-> Link(t, node, link)]
    BY <2>1, <2>3
  <2>5. Link(t, node, link) = [t EXCEPT !.fail = [t.fail EXCEPT ![node] = link],
                                        !.out = [t.out EXCEPT ![node] = @ \cup t.out[link]]]
    BY DEF Link
  <2>6. Link(t, node, link) = [nodes |-> N, fail |-> [t.fail EXCEPT ![node] = link],
                               out |-> [t.out EXCEPT ![node] = @ \cup t.out[link]]]
    BY <2>2, <2>5
  <2> QED BY <2>4, <2>6
<1>4. /\ build'.queue = Append(q, node) /\ build'.todo = build.todo \ {node}
      /\ build'.next.nodes = N /\ build'.next.fail = [t.fail EXCEPT ![node] = link]
      /\ build'.next.out = [t.out EXCEPT ![node] = Ending(W, node)]
  <2>1. [t.out EXCEPT ![node] = @ \cup t.out[link]] = [t.out EXCEPT ![node] = Ending(W, node)]
    BY <1>2
  <2>2. /\ build'.queue = Append(q, node) /\ build'.todo = build.todo \ {node}
        /\ build'.next = Link(t, node, link)
    BY <1>3
  <2>3. /\ Link(t, node, link).nodes = N
        /\ Link(t, node, link).fail = [t.fail EXCEPT ![node] = link]
        /\ Link(t, node, link).out = [t.out EXCEPT ![node] = Ending(W, node)]
    <3> HIDE DEF q, curr
    <3> QED BY <1>3, <2>1
  <2> QED BY <2>2, <2>3
<1>5. IsTrie(N) /\ W \subseteq N /\ Linked(N, t.fail, done) /\ done \subseteq N /\ Root \in done
  BY DEF Linking, Linked
<1>6. /\ build' = [of |-> build'.of, queue |-> build'.queue, todo |-> build'.todo,
                   next |-> build'.next]
      /\ build'.next = [nodes |-> build'.next.nodes, fail |-> build'.next.fail,
                        out |-> build'.next.out]
  BY <1>3
<1>7. Linked(N, build'.next.fail, more)
  <2>1. t.fail \in [N -> done] /\ build'.next.fail \in [N -> more]
    BY <1>2, <1>4, <1>5 DEF Linked
  <2>2. ASSUME NEW n \in more, n # Root PROVE Longest(N, Tail(n), build'.next.fail[n])
    <3>1. CASE n = node
      BY <1>2, <1>4, <2>1, <3>1
    <3>2. CASE n # node
      BY <1>4, <1>5, <2>1, <2>2, <3>2 DEF Linked
    <3> QED BY <3>1, <3>2
  <2> QED BY <1>2, <1>5, <2>1, <2>2 DEF Linked
<1>8. \A n \in more \ {Root} : Front(n) \in more
  BY <1>2 DEF Linking
<1>9. build'.next.out = [n \in N |-> IF n \in more THEN Ending(W, n) ELSE {n} \cap W]
  <2> DEFINE before == [n \in N |-> IF n \in done THEN Ending(W, n) ELSE {n} \cap W]
             after  == [n \in N |-> IF n \in more THEN Ending(W, n) ELSE {n} \cap W]
  <2>1. build'.next.out = [before EXCEPT ![node] = Ending(W, node)]
    BY <1>4 DEF Linking
  <2>2. \A n \in N : [before EXCEPT ![node] = Ending(W, node)][n] = after[n]
    BY <1>2
  <2>3. [before EXCEPT ![node] = Ending(W, node)] = after
    BY <2>2
  <2> QED BY <2>1, <2>3
<1>10. q \in Seq(done \ {Root}) /\ Len(q) \in Nat \ {0}
  BY <1>2 DEF Linking
<1>11. /\ build'.queue \in Seq(more \ {Root}) /\ Len(build'.queue) = Len(q) + 1
       /\ \A i \in 1 .. Len(q) : build'.queue[i] = q[i]
       /\ build'.queue[Len(q) + 1] = node
  BY <1>2, <1>4, <1>10
<1>12. \A i \in 1 .. Len(q) : q[i] \in done /\ q[i] \in Strings /\ Len(q[i]) \in Nat
  BY <1>5, <1>10 DEF IsTrie, Strings
<1>13. \A i \in 1 .. Len(q) : Len(q[i]) <= Len(q[1]) + 1
  BY DEF Linking
<1>14. \A i, j \in 1 .. Len(q) : i < j => q[i] # q[j] /\ Len(q[i]) <= Len(q[j])
  BY DEF Linking
<1>15. ASSUME NEW i \in 1 .. Len(q) + 1, NEW j \in 1 .. Len(q) + 1, i < j
       PROVE  build'.queue[i] # build'.queue[j] /\ Len(build'.queue[i]) <= Len(build'.queue[j])
  <2>1. i \in 1 .. Len(q)
    BY <1>10, <1>15
  <2>2. CASE j = Len(q) + 1
    <3>1. build'.queue[i] = q[i] /\ build'.queue[j] = node
      BY <1>11, <2>1, <2>2
    <3>2. q[i] # node /\ Len(q[i]) <= Len(node)
      BY <1>2, <1>12, <1>13, <2>1
    <3> QED BY <3>1, <3>2
  <2>3. CASE j # Len(q) + 1
    <3>1. j \in 1 .. Len(q)
      BY <1>10, <2>3
    <3> QED BY <1>11, <1>14, <1>15, <2>1, <3>1
  <2> QED BY <2>2, <2>3
<1>16. \A i \in 1 .. Len(q) + 1 : Len(build'.queue[i]) <= Len(build'.queue[1]) + 1
  <2> SUFFICES ASSUME NEW i \in 1 .. Len(q) + 1
               PROVE  Len(build'.queue[i]) <= Len(build'.queue[1]) + 1
    OBVIOUS
  <2>1. 1 \in 1 .. Len(q) /\ build'.queue[1] = q[1]
    BY <1>10, <1>11
  <2>2. CASE i = Len(q) + 1
    <3>1. build'.queue[i] = node /\ Len(node) = Len(q[1]) + 1 /\ Len(q[1]) \in Nat
      BY <1>2, <1>11, <1>12, <2>1, <2>2
    <3> QED BY <2>1, <3>1
  <2>3. CASE i # Len(q) + 1
    <3>1. i \in 1 .. Len(q)
      BY <1>10, <2>3
    <3> QED BY <1>11, <1>13, <2>1, <3>1
  <2> QED BY <2>2, <2>3
<1>17. build'.todo \subseteq Edges(N, build'.queue) \ more
  <2>1. build'.queue # <<>> /\ Head(build'.queue) = Head(q)
    BY <1>2, <1>10, <1>11
  <2>2. build.todo \subseteq Children(N, Head(q)) \ done
    BY <1>2 DEF Linking, Edges
  <2> QED BY <1>4, <2>1, <2>2 DEF Edges
<1>18. ASSUME NEW n \in N \ more, Front(n) \in more
       PROVE  n \in build'.todo \/ \E i \in 2 .. Len(q) + 1 : Front(n) = build'.queue[i]
  <2>1. CASE Front(n) = node
    <3>1. Len(q) + 1 \in 2 .. Len(q) + 1
      BY <1>10
    <3> QED BY <1>11, <2>1, <3>1
  <2>2. CASE Front(n) # node
    <3>1. n \in N \ done /\ Front(n) \in done
      BY <1>18, <2>2
    <3>2. n \in build.todo \/ \E i \in 2 .. Len(q) : Front(n) = q[i]
      BY <3>1 DEF Linking
    <3>3. CASE n \in build.todo
      BY <1>4, <3>3
    <3>4. ASSUME NEW i \in 2 .. Len(q), Front(n) = q[i]
          PROVE  \E j \in 2 .. Len(q) + 1 : Front(n) = build'.queue[j]
      <4>1. i \in 1 .. Len(q) /\ i \in 2 .. Len(q) + 1
        BY <1>10
      <4> QED BY <1>11, <3>4, <4>1
    <3> QED BY <3>2, <3>3, <3>4
  <2> QED BY <2>1, <2>2
<1>19. ASSUME NEW i \in 2 .. Len(q) + 1, NEW n \in Children(N, build'.queue[i]), n \in more
       PROVE  FALSE
  <2>0. n \in N
    BY DEF Children
  <2>1. CASE i = Len(q) + 1
    <3>1. n # Root /\ Front(n) = node
      BY <1>2, <1>5, <1>11, <1>19, <2>0, <2>1, ChildrenFront
    <3>2. n # node
      BY <1>2, <1>12, <3>1, Fronted DEF Strings
    <3>3. n \in done \ {Root}
      BY <1>19, <3>1, <3>2
    <3> QED BY <1>2, <3>1, <3>3 DEF Linking
  <2>2. CASE i # Len(q) + 1
    <3>1. i \in 1 .. Len(q) /\ i \in 2 .. Len(q) /\ 1 \in 1 .. Len(q) /\ 1 < i
      BY <1>10, <2>2
    <3>2. n \in Children(N, q[i])
      BY <1>11, <1>19, <3>1
    <3>3. n \notin done
      BY <3>1, <3>2 DEF Linking
    <3>4. Front(n) = q[i]
      BY <1>5, <1>12, <2>0, <3>1, <3>2, ChildrenFront
    <3>5. q[1] # q[i]
      BY <1>14, <3>1
    <3> QED BY <1>2, <1>19, <3>3, <3>4, <3>5
  <2> QED BY <2>1, <2>2
<1>20. build'.of = build.of
  BY <1>3
<1>21. Linking(W, build', more)
  BY <1>4, <1>5, <1>6, <1>7, <1>8, <1>9, <1>11, <1>15, <1>16, <1>17, <1>18, <1>19 DEF Linking
<1> QED BY <1>20, <1>21

LEMMA TailLength ==
    ASSUME NEW S, NEW s \in Seq(S), s # Root, Tail(s) = Root
    PROVE  Len(s) = 1
<1>1. Len(Tail(s)) = Len(s) - 1 /\ Len(s) \in Nat
  BY DEF Root
<1>2. Len(s) - 1 = 0
  BY <1>1, RootString
<1> QED BY <1>1, <1>2

LEMMA BuildNodeRight ==
    ASSUME NEW W, NEW done, Linking(W, build, done), BuildNode
    PROVE  build'.of = build.of /\ Linking(W, build', done)
<1> DEFINE N == build.next.nodes
           q == build.queue
<1>1. build.todo = {} /\ q # <<>>
  BY DEF BuildNode
<1>2. build' = [of |-> build.of, queue |-> Tail(q), todo |-> Edges(N, Tail(q)), next |-> build.next]
  BY DEF BuildNode, Linking
<1>3. /\ build'.queue = Tail(q) /\ build'.todo = Edges(N, Tail(q)) /\ build'.next = build.next
      /\ build' = [of |-> build'.of, queue |-> build'.queue, todo |-> build'.todo,
                   next |-> build'.next]
      /\ build'.of = build.of
  BY <1>2
<1>4. IsTrie(N) /\ done \subseteq N /\ Root \in done
  BY DEF Linking, Linked
<1>5. q \in Seq(done \ {Root}) /\ Len(q) \in Nat \ {0}
  BY <1>1 DEF Linking
<1>6. /\ Tail(q) \in Seq(done \ {Root}) /\ Len(Tail(q)) = Len(q) - 1
      /\ \A i \in 1 .. Len(q) - 1 : Tail(q)[i] = q[i + 1]
  BY <1>1, <1>5
<1>7. \A i \in 1 .. Len(q) : q[i] \in Strings /\ Len(q[i]) \in Nat
  BY <1>4, <1>5 DEF IsTrie, Strings
<1>8. ASSUME NEW i \in 1 .. Len(q) - 1, NEW j \in 1 .. Len(q) - 1, i < j
      PROVE  Tail(q)[i] # Tail(q)[j] /\ Len(Tail(q)[i]) <= Len(Tail(q)[j])
  <2>1. i + 1 \in 1 .. Len(q) /\ j + 1 \in 1 .. Len(q) /\ i + 1 < j + 1
    BY <1>5, <1>8
  <2> QED BY <1>6, <2>1 DEF Linking
<1>9. ASSUME NEW i \in 1 .. Len(q) - 1 PROVE Len(Tail(q)[i]) <= Len(Tail(q)[1]) + 1
  <2>1. i + 1 \in 1 .. Len(q) /\ 1 \in 1 .. Len(q) - 1 /\ 2 \in 1 .. Len(q) /\ 1 \in 1 .. Len(q)
    BY <1>5
  <2>2. Len(q[i + 1]) <= Len(q[1]) + 1 /\ Len(q[1]) <= Len(q[2])
    BY <2>1 DEF Linking
  <2>3. Tail(q)[i] = q[i + 1] /\ Tail(q)[1] = q[2]
    BY <1>6, <2>1
  <2> QED BY <1>7, <2>1, <2>2, <2>3
<1>10. \A i \in 2 .. Len(q) : Children(N, q[i]) \cap done = {}
  BY DEF Linking
<1>11. Tail(q) # <<>> => 2 \in 2 .. Len(q) /\ Head(Tail(q)) = q[2]
  BY <1>5, <1>6
<1>12. build'.todo \subseteq Edges(N, Tail(q)) \ done
  BY <1>3, <1>10, <1>11 DEF Edges
<1>13. ASSUME NEW n \in N \ done, Front(n) \in done
       PROVE  n \in build'.todo \/ \E i \in 2 .. Len(q) - 1 : Front(n) = Tail(q)[i]
  <2>1. PICK i \in 2 .. Len(q) : Front(n) = q[i]
    BY <1>1, <1>13 DEF Linking
  <2>2. CASE i = 2
    <3>0. 2 \in 2 .. Len(q) /\ 2 \in 1 .. Len(q)
      BY <1>5, <2>2
    <3>1. Tail(q) # Root
      <4>1. q # Root
        BY <1>1 DEF Root
      <4> QED BY <1>5, <3>0, <4>1, TailLength
    <3>2. n # Root /\ q[2] \in Strings
      BY <1>4, <1>7, <1>13, <3>0
    <3>3. n \in Children(N, q[2])
      BY <1>4, <2>1, <2>2, <3>2, ChildrenFront
    <3> QED BY <1>3, <1>11, <3>1, <3>3 DEF Edges, Root
  <2>3. CASE i # 2
    <3>1. i - 1 \in 2 .. Len(q) - 1 /\ i - 1 \in 1 .. Len(q) - 1 /\ (i - 1) + 1 = i
      BY <1>5, <2>3
    <3>2. Tail(q)[i - 1] = q[i]
      BY <1>6, <3>1
    <3> QED BY <2>1, <3>1, <3>2
  <2> QED BY <2>2, <2>3
<1>14. ASSUME NEW i \in 2 .. Len(q) - 1 PROVE Children(N, Tail(q)[i]) \cap done = {}
  <2>1. i + 1 \in 2 .. Len(q) /\ i \in 1 .. Len(q) - 1
    BY <1>5
  <2> QED BY <1>6, <1>10, <2>1
<1> QED BY <1>3, <1>6, <1>8, <1>9, <1>12, <1>13, <1>14 DEF Linking

(* An empty queue: every node is done. *)
LEMMA LinkedComplete ==
    ASSUME NEW W, NEW b, NEW done, Linking(W, b, done), b.queue = <<>>
    PROVE  Complete(W, b.next)
<1>1. done = b.next.nodes
  BY LevelDone DEF Linking, Linked
<1>2. b.next.out = [n \in b.next.nodes |-> Ending(W, n)]
  BY <1>1 DEF Linking
<1> QED BY <1>1, <1>2 DEF Linking, Complete

(* The orders of a finite set hold all of it. *)
LEMMA OrdersAll ==
    ASSUME NEW S, IsFiniteSet(S), NEW o \in Orders(S)
    PROVE  /\ o \in Seq(S) /\ Len(o) = Cardinality(S)
           /\ \A i, j \in 1 .. Len(o) : o[i] = o[j] => i = j
           /\ \A x \in S : \E i \in 1 .. Len(o) : o[i] = x
<1>1. Cardinality(S) \in Nat
  BY FS_CardinalityType
<1>2. o \in [1 .. Cardinality(S) -> S] /\ \A i, j \in 1 .. Cardinality(S) : o[i] = o[j] => i = j
  BY DEF Orders
<1>3. o \in Seq(S) /\ Len(o) = Cardinality(S)
  BY <1>1, <1>2
<1>4. o \in Injection(1 .. Cardinality(S), S)
  BY <1>2 DEF Injection, IsInjective
<1>5. Cardinality(1 .. Cardinality(S)) = Cardinality(S)
  BY <1>1, FS_Interval
<1>6. o \in Surjection(1 .. Cardinality(S), S)
  BY <1>4, <1>5, FS_Injection
<1> QED BY <1>2, <1>3, <1>6 DEF Surjection

LEMMA RootChildrenFinite ==
    ASSUME NEW W \in SUBSET (Strings \ {Root}), IsFiniteSet(W)
    PROVE  IsFiniteSet(Children(Nodes(W), Root))
<1> DEFINE S == Children(Nodes(W), Root)
           f == [m \in S |-> CHOOSE w \in W : Prefix(w, 1) = m]
<1>1. ASSUME NEW m \in S PROVE \E w \in W : Prefix(w, 1) = m
  <2>1. m \in Nodes(W) /\ m \in Strings /\ Len(m) = 1
    BY NodesTrie, RootString DEF Children, IsTrie
  <2>2. m # Root
    BY <2>1, RootString
  <2>3. PICK w \in W : \E i \in DOMAIN w : m = Prefix(w, i)
    BY <2>1, <2>2 DEF Nodes, Prefix
  <2>4. PICK i \in 1 .. Len(w) : m = Prefix(w, i)
    BY <2>3 DEF Strings
  <2>5. i \in 0 .. Len(w) /\ w \in Strings
    BY DEF Strings
  <2>6. i = 1
    BY <2>1, <2>4, <2>5, Prefixed
  <2> QED BY <2>4, <2>6
<1>2. \A m \in S : f[m] \in W /\ Prefix(f[m], 1) = m
  BY <1>1
<1>3. f \in Injection(S, W)
  BY <1>2 DEF Injection, IsInjective
<1> QED BY <1>3, FS_Injection

(* Before the loop the root and its children are done. *)
LEMMA StartedRight ==
    ASSUME NEW W \in SUBSET (Strings \ {Root}), IsFiniteSet(W), NEW of, NEW b \in Started(of, W)
    PROVE  b.of = of /\ \E done : Linking(W, b, done)
<1> DEFINE N == Nodes(W)
           S == Children(N, Root)
           done == {Root} \cup S
<1>1. PICK o \in Orders(S) :
         b = [of |-> of, queue |-> o, todo |-> Edges(N, o), next |-> Trie(W)]
  BY DEF Started
<1>2. IsTrie(N) /\ W \subseteq N
  BY NodesTrie
<1>3. /\ o \in Seq(S)
      /\ \A i, j \in 1 .. Len(o) : o[i] = o[j] => i = j
      /\ \A x \in S : \E i \in 1 .. Len(o) : o[i] = x
  BY RootChildrenFinite, OrdersAll
<1>4. \A n \in S : /\ n \in N /\ n \in Strings /\ n # Root /\ Front(n) = Root
                   /\ Len(n) = 1 /\ Tail(n) = Root
  <2> SUFFICES ASSUME NEW n \in S
               PROVE  /\ n \in N /\ n \in Strings /\ n # Root /\ Front(n) = Root
                      /\ Len(n) = 1 /\ Tail(n) = Root
    OBVIOUS
  <2>1. n \in N /\ Len(n) = 1
    BY RootString DEF Children
  <2>2. n \in Strings /\ n # Root /\ Front(n) = Root
    BY <1>2, <2>1, RootString, ChildrenFront DEF IsTrie
  <2>3. Tail(n) = Root
    <3>1. Tail(n) \in Strings /\ Len(Tail(n)) = Len(n) - 1
      BY <2>2, Tailed
    <3>2. Len(Tail(n)) = 0
      BY <2>1, <3>1
    <3> QED BY <3>1, <3>2, RootString
  <2> QED BY <2>1, <2>2, <2>3
<1>5. Root \in N /\ done \subseteq N
  BY <1>2, <1>4 DEF IsTrie
<1>6. /\ b.of = of /\ b.queue = o /\ b.todo = Edges(N, o)
      /\ b.next = [nodes |-> N, fail |-> [n \in N |-> Root], out |-> [n \in N |-> {n} \cap W]]
      /\ b = [of |-> b.of, queue |-> b.queue, todo |-> b.todo, next |-> b.next]
  BY <1>1 DEF Trie
<1>7. /\ b.next.nodes = N /\ b.next.fail = [n \in N |-> Root]
      /\ b.next.out = [n \in N |-> {n} \cap W]
      /\ b.next = [nodes |-> b.next.nodes, fail |-> b.next.fail, out |-> b.next.out]
  BY <1>6
<1>8. Linked(N, b.next.fail, done)
  <2>1. \A v \in N : Suffix(v, Root) => Len(v) <= 0
    BY RootString DEF Suffix
  <2>2. Longest(N, Root, Root)
    BY <1>5, <2>1, RootString DEF Longest
  <2> QED BY <1>4, <1>5, <1>7, <2>2 DEF Linked
<1>9. b.next.out = [n \in N |-> IF n \in done THEN Ending(W, n) ELSE {n} \cap W]
  <2>1. ASSUME NEW n \in done PROVE {n} \cap W = Ending(W, n)
    <3>1. \A w \in W : w \in Strings /\ Len(w) \in Nat \ {0}
      BY Fronted
    <3>2. n \in Strings /\ Len(n) <= 1 /\ Len(n) \in Nat
      <4>1. CASE n = Root
        BY <4>1, RootString
      <4>2. CASE n # Root
        BY <1>4, <4>2
      <4> QED BY <4>1, <4>2
    <3>3. ASSUME NEW w \in W, Suffix(w, n) PROVE w = n
      <4>1. Len(w) = Len(n) /\ Suffix(n, n)
        BY <3>1, <3>2, <3>3, RootString DEF Suffix
      <4> QED BY <3>1, <3>2, <3>3, <4>1, SuffixOfSuffix
    <3>4. Suffix(n, n)
      BY <3>2, RootString
    <3> QED BY <3>3, <3>4 DEF Ending
  <2>2. \A n \in N : {n} \cap W = IF n \in done THEN Ending(W, n) ELSE {n} \cap W
    BY <2>1
  <2> HIDE DEF done, N
  <2> QED BY <1>7, <2>2
<1>10. o \in Seq(done \ {Root}) /\ Len(o) \in Nat
  <2>1. S \subseteq done \ {Root}
    BY <1>4
  <2> HIDE DEF S, done
  <2> QED BY <1>3, <2>1
<1>11. \A i \in 1 .. Len(o) : o[i] \in S
  BY <1>3
<1>12. \A i, j \in 1 .. Len(o) : i < j => o[i] # o[j] /\ Len(o[i]) <= Len(o[j])
  <2> SUFFICES ASSUME NEW i \in 1 .. Len(o), NEW j \in 1 .. Len(o), i < j
               PROVE  o[i] # o[j] /\ Len(o[i]) <= Len(o[j])
    OBVIOUS
  <2>1. i # j
    BY <1>10
  <2>2. Len(o[i]) = 1 /\ Len(o[j]) = 1
    BY <1>4, <1>11
  <2> QED BY <1>3, <2>1, <2>2
<1>13. \A i \in 1 .. Len(o) : Len(o[i]) <= Len(o[1]) + 1
  <2> SUFFICES ASSUME NEW i \in 1 .. Len(o) PROVE Len(o[i]) <= Len(o[1]) + 1
    OBVIOUS
  <2>1. 1 \in 1 .. Len(o)
    BY <1>10
  <2> QED BY <1>4, <1>11, <2>1
<1>14. \A n \in S : Children(N, n) \cap done = {}
  <2> SUFFICES ASSUME NEW n \in S, NEW m \in Children(N, n), m \in done PROVE FALSE
    OBVIOUS
  <2>1. Len(m) = 2
    BY <1>4 DEF Children
  <2> QED BY <1>4, <2>1, RootString
<1>15. Edges(N, o) \subseteq Edges(N, o) \ done
  <2>1. CASE o = <<>>
    BY <2>1 DEF Edges
  <2>2. CASE o # <<>>
    <3>1. Head(o) \in S
      BY <1>3, <2>2
    <3> QED BY <1>14, <2>2, <3>1 DEF Edges
  <2> QED BY <2>1, <2>2
<1>16. ASSUME NEW n \in N \ done, Front(n) \in done
       PROVE  n \in Edges(N, o) \/ \E i \in 2 .. Len(o) : Front(n) = o[i]
  <2>1. n # Root /\ n \notin S
    OBVIOUS
  <2>2. Front(n) # Root
    BY <1>2, <1>16, <2>1, RootString, ChildrenFront
  <2>3. PICK i \in 1 .. Len(o) : Front(n) = o[i]
    BY <1>3, <1>16, <2>2
  <2>4. CASE i = 1
    <3>1. o # <<>> /\ Head(o) = o[1]
      BY <1>3, <2>3, <2>4
    <3>2. n \in Children(N, o[1])
      BY <1>2, <1>4, <1>11, <2>1, <2>3, <2>4, ChildrenFront
    <3> QED BY <3>1, <3>2 DEF Edges
  <2>5. CASE i # 1
    BY <1>10, <2>3, <2>5
  <2> QED BY <2>4, <2>5
<1>17. \A n \in done \ {Root} : Front(n) \in done
  BY <1>4
<1>18. \A i \in 2 .. Len(o) : Children(N, o[i]) \cap done = {}
  BY <1>10, <1>11, <1>14
<1> HIDE DEF done, S, N
<1>19. Linking(W, b, done)
  BY <1>2, <1>6, <1>7, <1>8, <1>9, <1>10, <1>12, <1>13, <1>15, <1>16, <1>17, <1>18 DEF Linking
<1> QED BY <1>6, <1>19

-------------------------------------------------------------------------------
(* Words *)

LEMMA SmallestAndLargest ==
    ASSUME NEW n \in Nat, NEW S \in SUBSET (1 .. n), S # {}
    PROVE  /\ Min(S) \in S /\ \A m \in S : Min(S) <= m
           /\ Max(S) \in S /\ \A m \in S : m <= Max(S)
<1>1. S \in SUBSET Nat
  OBVIOUS
<1>2. \E x \in S : \A m \in S : x <= m
  BY <1>1, Smallest
<1>3. \E x \in S : \A m \in S : m <= x
  <2> DEFINE T == {n - m : m \in S}
  <2>0. \A m \in S : n - m \in Nat
    OBVIOUS
  <2>1. T # {} /\ T \in SUBSET Nat
    BY <2>0
  <2>2. PICK y \in T : \A z \in T : y <= z
    <3> HIDE DEF T
    <3> QED BY <2>1, Smallest
  <2>3. PICK x \in S : y = n - x
    OBVIOUS
  <2>4. ASSUME NEW m \in S PROVE m <= x
    <3>1. n - x <= n - m
      BY <2>2, <2>3
    <3> QED BY <1>1, <3>1
  <2> QED BY <2>4
<1> QED BY <1>2, <1>3 DEF Min, Max

LEMMA Normalized ==
    ASSUME NEW word \in Strings, NormalizeWord(word) # Root
    PROVE  NormalizeWord(word) \in Strings \ {Root} /\ IsWord(NormalizeWord(word))
<1> DEFINE kept == {i \in DOMAIN word : word[i] # Blank}
           cut  == SubSeq(word, Min(kept), Max(kept))
<1>1. Len(word) \in Nat /\ DOMAIN word = 1 .. Len(word) /\ \A i \in 1 .. Len(word) : word[i] \in Chars
  BY DEF Strings
<1>2. kept # {} /\ NormalizeWord(word) = Lowered(cut)
  BY DEF NormalizeWord, Root
<1>3. /\ Min(kept) \in kept /\ Max(kept) \in kept
      /\ \A i \in kept : Min(kept) <= i /\ i <= Max(kept)
  <2>1. kept \in SUBSET (1 .. Len(word))
    BY <1>1
  <2> HIDE DEF kept
  <2> QED BY <1>1, <1>2, <2>1, SmallestAndLargest
<1>4. PICK f, l \in 1 .. Len(word) : /\ f = Min(kept) /\ l = Max(kept) /\ f <= l
                                     /\ word[f] # Blank /\ word[l] # Blank
  BY <1>1, <1>3
<1>5. /\ cut \in Strings /\ Len(cut) = l - f + 1
      /\ \A k \in 1 .. l - f + 1 : cut[k] = word[f + k - 1]
  BY <1>4, Sliced
<1> DEFINE w == Lowered(cut)
<1> HIDE DEF cut, kept
<1>6. /\ w \in Strings /\ Len(w) = l - f + 1
      /\ \A i \in 1 .. l - f + 1 : w[i] = Lower[cut[i]] /\ cut[i] \in Chars
  BY <1>5, LoweredString DEF Strings
<1>7. w[1] # Blank /\ w[Len(w)] # Blank
  <2>1. 1 \in 1 .. l - f + 1 /\ l - f + 1 \in 1 .. l - f + 1
    BY <1>4
  <2>2. cut[1] = word[f] /\ cut[l - f + 1] = word[l]
    <3>1. f + 1 - 1 = f /\ f + (l - f + 1) - 1 = l
      BY <1>4
    <3> QED BY <1>5, <2>1, <3>1
  <2> QED BY <1>4, <1>6, <2>1, <2>2, WordFilterAssumption
<1>8. Lowered(w) = w
  <2>1. Lowered(w) \in Strings /\ Len(Lowered(w)) = Len(w)
    BY <1>6, LoweredString
  <2>2. ASSUME NEW i \in 1 .. Len(w) PROVE Lowered(w)[i] = w[i]
    BY <1>6, <2>2, LoweredString, WordFilterAssumption
  <2> QED BY <1>6, <2>1, <2>2, SameString
<1>9. w # Root
  BY <1>2
<1> QED BY <1>2, <1>6, <1>7, <1>8, <1>9 DEF IsWord, Root

LEMMA FileWordsRight ==
    FileWords \in SUBSET (Strings \ {Root}) /\ IsFiniteSet(FileWords) /\ \A w \in FileWords : IsWord(w)
<1> DEFINE all == {NormalizeWord(l) : l \in File}
           f   == [l \in File |-> NormalizeWord(l)]
<1>1. f \in Surjection(File, all)
  <2>1. f \in [File -> all]
    OBVIOUS
  <2>2. \A w \in all : \E l \in File : f[l] = w
    OBVIOUS
  <2> QED BY <2>1, <2>2 DEF Surjection
<1>2. IsFiniteSet(all)
  BY <1>1, FS_Surjection, WordFilterAssumption
<1>3. FileWords \subseteq all /\ \A w \in FileWords : w # Root
  BY DEF FileWords, Root
<1>4. \A w \in FileWords : \E l \in Strings : w = NormalizeWord(l)
  BY WordFilterAssumption DEF FileWords, Strings
<1>5. IsFiniteSet(FileWords)
  BY <1>2, <1>3, FS_Subset
<1> QED BY <1>3, <1>4, <1>5, Normalized

-------------------------------------------------------------------------------
(* The automaton in use is built for the words in force; the one that is being *)
(* built is for the words of the store, which are one change ahead of it.      *)

Served == UNION {auto.out[n] : n \in auto.nodes}

WordsRight == words \in SUBSET (Strings \ {Root}) /\ IsFiniteSet(words) /\ \A w \in words : IsWord(w)

AutoRight == Complete(Served, auto) /\ \A w \in Served : IsWord(w)

BuildRight ==
    /\ Building => build.of \in {"load", "change"} /\ \E done : Linking(words, build, done)
    /\ ~Building => Served = words
    /\ build.of = "load" => Served = {} /\ words = FileWords
    /\ build.of = "change" => \E w : words \in {Served \cup {w}, Served \ {w}}

ReqRight ==
    /\ req = [q \in Requests |-> req[q]]
    /\ \A q \in Requests : /\ req[q].pc \in {"idle", "match", "review", "answer"}
                           /\ req[q].pc = "match" => req[q].text \in Contents

FilterInv ==
    /\ WordsRight /\ AutoRight /\ BuildRight /\ ReqRight
    /\ restarts \in 0 .. MaxRestarts

LEMMA CompleteServes ==
    ASSUME NEW W, NEW a, Complete(W, a)
    PROVE  UNION {a.out[n] : n \in a.nodes} = W
<1>1. \A n \in a.nodes : a.out[n] = Ending(W, n)
  BY DEF Complete
<1>2. \A w \in W : w \in a.nodes /\ w \in Ending(W, w)
  BY RootString DEF Complete, IsTrie, Ending
<1> QED BY <1>1, <1>2 DEF Ending

LEMMA EmptyTrie == Complete({}, Trie({})) /\ UNION {Trie({}).out[n] : n \in Trie({}).nodes} = {}
<1> DEFINE a == Trie({})
<1>1. /\ a.nodes = {Root} /\ a.fail = [n \in {Root} |-> Root]
      /\ a.out = [n \in {Root} |-> {n} \cap {}]
  <2>1. Nodes({}) = {Root}
    BY DEF Nodes
  <2> QED BY <2>1 DEF Trie
<1>2. IsTrie(a.nodes)
  BY <1>1, RootString DEF IsTrie
<1>3. Linked(a.nodes, a.fail, a.nodes)
  BY <1>1 DEF Linked
<1>4. a.out = [n \in a.nodes |-> Ending({}, n)]
  BY <1>1 DEF Ending
<1>5. Complete({}, a)
  BY <1>2, <1>3, <1>4 DEF Complete
<1> QED BY <1>5, CompleteServes

LEMMA LoadRight ==
    ASSUME NEW W, W = FileWords, NEW a, a = Trie({}), NEW b, b \in Started("load", FileWords)
    PROVE  /\ W \in SUBSET (Strings \ {Root}) /\ IsFiniteSet(W) /\ \A w \in W : IsWord(w)
           /\ UNION {a.out[n] : n \in a.nodes} = {} /\ Complete({}, a)
           /\ b # NotBuilding /\ b.of = "load" /\ \E done : Linking(W, b, done)
<1>1. b.of = "load" /\ \E done : Linking(FileWords, b, done)
  BY FileWordsRight, StartedRight
<1> QED BY <1>1, FileWordsRight, EmptyTrie DEF NotBuilding

LEMMA FilterInit == Init => FilterInv
<1> SUFFICES ASSUME Init PROVE FilterInv
  OBVIOUS
<1>1. words = FileWords /\ auto = Trie({}) /\ build \in Started("load", FileWords)
  BY DEF Init
<1>2. /\ WordsRight /\ Served = {} /\ Complete({}, auto)
      /\ Building /\ build.of = "load" /\ \E done : Linking(words, build, done)
  BY <1>1, LoadRight DEF WordsRight, Served, Building
<1>3. AutoRight /\ BuildRight
  BY <1>1, <1>2 DEF AutoRight, BuildRight
<1>4. ReqRight /\ restarts \in 0 .. MaxRestarts
  BY WordFilterAssumption DEF Init, ReqRight, Idle
<1> QED BY <1>2, <1>3, <1>4 DEF FilterInv

LEMMA StoreRight ==
    ASSUME FilterInv, ~Building, UNCHANGED auto,
           NEW W \in SUBSET (Strings \ {Root}), IsFiniteSet(W), \A w \in W : IsWord(w),
           Store(W), \E w : W \in {words \cup {w}, words \ {w}}
    PROVE  WordsRight' /\ AutoRight' /\ BuildRight'
<1>1. words' = W /\ build'.of = "change" /\ \E done : Linking(W, build', done)
  BY StartedRight DEF Store
<1>2. Building'
  BY <1>1 DEF Building, NotBuilding
<1>3. Served = words /\ Served' = Served
  BY DEF FilterInv, BuildRight, Served
<1>4. WordsRight'
  BY <1>1 DEF WordsRight
<1>5. AutoRight'
  BY <1>3 DEF FilterInv, AutoRight
<1>6. \E w : words' \in {Served' \cup {w}, Served' \ {w}}
  BY <1>1, <1>3
<1> QED BY <1>1, <1>2, <1>4, <1>5, <1>6 DEF BuildRight

LEMMA BuildingRight ==
    ASSUME FilterInv, BuildEdge \/ BuildNode
    PROVE  WordsRight' /\ AutoRight' /\ BuildRight' /\ Building'
<1>1. Building /\ UNCHANGED <<words, auto>>
  BY DEF BuildEdge, BuildNode
<1>2. PICK done : Linking(words, build, done)
  BY <1>1 DEF FilterInv, BuildRight
<1>3. build'.of = build.of /\ \E more : Linking(words, build', more)
  BY <1>2, BuildEdgeRight, BuildNodeRight
<1>4. build.of \in {"load", "change"}
  BY <1>1 DEF FilterInv, BuildRight
<1>5. Building'
  BY <1>3, <1>4 DEF Building, NotBuilding
<1>6. Served' = Served
  BY <1>1 DEF Served
<1>7. WordsRight' /\ AutoRight'
  BY <1>1, <1>6 DEF FilterInv, WordsRight, AutoRight
<1> QED BY <1>1, <1>3, <1>4, <1>5, <1>6, <1>7 DEF FilterInv, BuildRight

LEMMA DoneRight ==
    ASSUME FilterInv, BuildDone
    PROVE  WordsRight' /\ AutoRight' /\ BuildRight' /\ ~Building' /\ Served' = words
<1>1. /\ Building /\ build.queue = <<>> /\ auto' = build.next /\ build' = NotBuilding
      /\ words' = words
  BY DEF BuildDone
<1>2. Complete(words, auto')
  BY <1>1, LinkedComplete DEF FilterInv, BuildRight
<1>3. Served' = words
  BY <1>2, CompleteServes DEF Served
<1>4. ~Building' /\ build'.of = "none"
  BY <1>1 DEF Building, NotBuilding
<1>5. WordsRight' /\ AutoRight'
  BY <1>1, <1>2, <1>3 DEF FilterInv, WordsRight, AutoRight
<1> QED BY <1>1, <1>3, <1>4, <1>5 DEF BuildRight

LEMMA AddRight ==
    ASSUME FilterInv, NEW input \in Inputs, AddWord(input)
    PROVE  WordsRight' /\ AutoRight' /\ BuildRight'
<1> DEFINE w == NormalizeWord(input)
           W == words \cup {w}
<1>1. ~Building /\ w # Root /\ Store(W) /\ UNCHANGED auto
  BY DEF AddWord, Root
<1>2. w \in Strings \ {Root} /\ IsWord(w)
  BY <1>1, Normalized, WordFilterAssumption DEF Strings
<1> HIDE DEF w
<1>3. W \in SUBSET (Strings \ {Root}) /\ IsFiniteSet(W) /\ \A x \in W : IsWord(x)
  BY <1>2, FS_AddElement DEF FilterInv, WordsRight
<1>4. \E x : W \in {words \cup {x}, words \ {x}}
  OBVIOUS
<1> QED BY <1>1, <1>3, <1>4, StoreRight

LEMMA RemoveRight ==
    ASSUME FilterInv, NEW input \in Inputs, RemoveWord(input)
    PROVE  WordsRight' /\ AutoRight' /\ BuildRight'
<1> DEFINE w == NormalizeWord(input)
           W == words \ {w}
<1>1. ~Building /\ Store(W) /\ UNCHANGED auto
  BY DEF RemoveWord
<1> HIDE DEF w
<1>2. W \in SUBSET (Strings \ {Root}) /\ IsFiniteSet(W) /\ \A x \in W : IsWord(x)
  BY FS_RemoveElement DEF FilterInv, WordsRight
<1>3. \E x : W \in {words \cup {x}, words \ {x}}
  OBVIOUS
<1> QED BY <1>1, <1>2, <1>3, StoreRight

LEMMA RestartRight ==
    ASSUME Restart
    PROVE  WordsRight' /\ AutoRight' /\ BuildRight' /\ Building' /\ Served' = {}
<1>1. words' = FileWords /\ auto' = Trie({}) /\ build' \in Started("load", FileWords)
  BY DEF Restart
<1>2. /\ WordsRight' /\ Served' = {} /\ Complete({}, auto')
      /\ Building' /\ build'.of = "load" /\ \E done : Linking(words', build', done)
  BY <1>1, LoadRight DEF WordsRight, Served, Building
<1> QED BY <1>1, <1>2 DEF AutoRight, BuildRight

(* A step that touches neither store nor automaton. *)
LEMMA ElsewhereRight ==
    ASSUME FilterInv, UNCHANGED <<words, auto, build>>
    PROVE  WordsRight' /\ AutoRight' /\ BuildRight' /\ Served' = Served /\ Building' = Building
<1>1. Served' = Served /\ Building' = Building
  BY DEF Served, Building
<1> QED BY <1>1 DEF FilterInv, WordsRight, AutoRight, BuildRight

LEMMA RequestRight ==
    ASSUME FilterInv, NEW q \in Requests,
           (\E text \in Contents : Begin(q, text)) \/ Match(q) \/ Review(q) \/ Respond(q)
    PROVE  UNCHANGED <<words, auto, build, restarts>> /\ ReqRight'
<1>1. ReqRight
  BY DEF FilterInv
<1>2. ASSUME NEW text \in Contents, Begin(q, text)
      PROVE  UNCHANGED <<words, auto, build, restarts>> /\ ReqRight'
  BY <1>1, <1>2 DEF ReqRight, Begin
<1>3. ASSUME Match(q) PROVE UNCHANGED <<words, auto, build, restarts>> /\ ReqRight'
  BY <1>1, <1>3 DEF ReqRight, Match, Answer
<1>4. ASSUME Review(q) PROVE UNCHANGED <<words, auto, build, restarts>> /\ ReqRight'
  <2>1. PICK passed, masked : req' = [req EXCEPT ![q] = Answer(passed, req[q].hits, masked)]
    BY <1>4 DEF Review
  <2>2. UNCHANGED <<words, auto, build, restarts>>
    BY <1>4 DEF Review
  <2> QED BY <1>1, <2>1, <2>2 DEF ReqRight, Answer
<1>5. ASSUME Respond(q) PROVE UNCHANGED <<words, auto, build, restarts>> /\ ReqRight'
  BY <1>1, <1>5 DEF ReqRight, Respond, Idle
<1> QED BY <1>2, <1>3, <1>4, <1>5

LEMMA FilterStep == FilterInv /\ [Next]_vars => FilterInv'
<1> SUFFICES ASSUME FilterInv, [Next]_vars PROVE FilterInv'
  OBVIOUS
<1>0. ReqRight /\ restarts \in 0 .. MaxRestarts
  BY DEF FilterInv
<1>1. ASSUME UNCHANGED <<req, restarts>> PROVE ReqRight' /\ (restarts \in 0 .. MaxRestarts)'
  BY <1>0, <1>1 DEF ReqRight
<1>2. ASSUME NEW input \in Inputs, AddWord(input) \/ RemoveWord(input) PROVE FilterInv'
  <2>1. UNCHANGED <<req, restarts>>
    BY <1>2 DEF AddWord, RemoveWord
  <2> QED BY <1>1, <1>2, <2>1, AddRight, RemoveRight DEF FilterInv
<1>3. CASE BuildEdge \/ BuildNode \/ BuildDone
  <2>1. UNCHANGED <<req, restarts>>
    BY <1>3 DEF BuildEdge, BuildNode, BuildDone
  <2> QED BY <1>1, <1>3, <2>1, BuildingRight, DoneRight DEF FilterInv
<1>4. CASE Restart
  <2>1. ReqRight' /\ (restarts \in 0 .. MaxRestarts)'
    BY <1>0, <1>4, WordFilterAssumption DEF Restart, ReqRight, Idle
  <2> QED BY <1>4, <2>1, RestartRight DEF FilterInv
<1>5. ASSUME NEW q \in Requests,
             (\E text \in Contents : Begin(q, text)) \/ Match(q) \/ Review(q) \/ Respond(q)
      PROVE  FilterInv'
  <2>1. UNCHANGED <<words, auto, build, restarts>> /\ ReqRight'
    BY <1>5, RequestRight
  <2> QED BY <1>0, <2>1, ElsewhereRight DEF FilterInv
<1>6. CASE UNCHANGED vars
  <2>1. UNCHANGED <<words, auto, build>> /\ UNCHANGED <<req, restarts>>
    BY <1>6 DEF vars
  <2> QED BY <1>1, <2>1, ElsewhereRight DEF FilterInv
<1> QED BY <1>2, <1>3, <1>4, <1>5, <1>6 DEF Next

LEMMA FilterAlways == Spec => []FilterInv
  BY FilterInit, FilterStep, PTL DEF Spec

-------------------------------------------------------------------------------
(* Every variable keeps its type, words are in lower case and without blanks *)
(* at their ends, and every fail link leads to a node.                        *)
THEOREM TypeCorrect == Spec => []TypeOK
<1>1. FilterInv => TypeOK
  <2> SUFFICES ASSUME FilterInv PROVE TypeOK
    OBVIOUS
  <2>1. words \subseteq Seq(Chars) /\ \A w \in words : IsWord(w)
    BY DEF FilterInv, WordsRight, Strings
  <2>2. Complete(Served, auto)
    BY DEF FilterInv, AutoRight
  <2>3. /\ auto.nodes \subseteq Seq(Chars)
        /\ auto.fail \in [auto.nodes -> auto.nodes]
        /\ auto.out \in [auto.nodes -> SUBSET auto.nodes]
    <3>1. \A n \in auto.nodes : Ending(Served, n) \subseteq auto.nodes
      BY <2>2 DEF Complete, Ending
    <3> QED BY <2>2, <3>1 DEF Complete, IsTrie, Strings, Linked
  <2>4. ASSUME Building PROVE build.next.fail \in [build.next.nodes -> build.next.nodes]
    <3>1. PICK done : Linking(words, build, done)
      BY <2>4 DEF FilterInv, BuildRight
    <3> QED BY <3>1 DEF Linking, Linked
  <2>5. build.of \in {"none", "load", "change"}
    BY DEF FilterInv, BuildRight, Building, NotBuilding
  <2> QED BY <2>1, <2>3, <2>4, <2>5 DEF TypeOK, FilterInv, ReqRight
<1> QED BY <1>1, FilterAlways, PTL

(* Whatever words were added and removed, and in whatever order the maps gave *)
(* the edges, the automaton that matches comments finds every place of every  *)
(* word and nothing else: for any alphabet and all texts, of any length.      *)
THEOREM EveryWordFound == Spec => []FindsAll
<1>1. FilterInv => FindsAll
  <2> SUFFICES ASSUME FilterInv, ~Building, NEW text \in Texts
               PROVE  FindAll(auto, text) = Occurrences(words, text)
    BY DEF FindsAll
  <2>1. text \in Strings
    BY WordFilterAssumption DEF Strings
  <2>2. Complete(words, auto) /\ \A w \in words : IsWord(w)
    BY DEF FilterInv, AutoRight, BuildRight, WordsRight
  <2> QED BY <2>1, <2>2, FindAllRight
<1> QED BY <1>1, FilterAlways, PTL

-------------------------------------------------------------------------------
(* FilterPromise *)

LEMMA PlacesFound ==
    ASSUME NEW W \in SUBSET Strings, NEW text \in Strings
    PROVE  Promise!Places(W, text) = Occurrences(W, text)
<1>1. ASSUME NEW i \in 1 .. Len(text), NEW j \in 1 .. Len(text)
      PROVE  Promise!Lowered(SubSeq(text, i, j)) = SubSeq(Lowered(text), i, j)
  <2> DEFINE s == SubSeq(text, i, j)
             t == SubSeq(Lowered(text), i, j)
  <2>1. Promise!Lowered(s) = Lowered(s)
    BY DEF Promise!Lowered, Lowered
  <2>2. Lowered(text) \in Strings /\ Len(Lowered(text)) = Len(text) /\ Len(text) \in Nat
    BY LoweredString DEF Strings
  <2>3. CASE i > j
    <3>1. s = Root /\ t = Root
      BY <2>2, <2>3, Sliced
    <3>2. Lowered(Root) = Root
      BY LoweredString, RootString
    <3> QED BY <2>1, <3>1, <3>2
  <2>4. CASE i <= j
    <3>1. /\ s \in Strings /\ Len(s) = j - i + 1
          /\ \A k \in 1 .. j - i + 1 : s[k] = text[i + k - 1]
      BY <2>4, Sliced
    <3>2. /\ t \in Strings /\ Len(t) = j - i + 1
          /\ \A k \in 1 .. j - i + 1 : t[k] = Lowered(text)[i + k - 1]
      BY <2>2, <2>4, Sliced
    <3> HIDE DEF s, t
    <3>3. Lowered(s) \in Strings /\ Len(Lowered(s)) = Len(s)
      BY <3>1, LoweredString
    <3>4. ASSUME NEW k \in 1 .. j - i + 1 PROVE Lowered(s)[k] = t[k]
      <4>1. Lowered(s)[k] = Lower[s[k]]
        BY <3>1, LoweredString
      <4>2. i + k - 1 \in 1 .. Len(text)
        BY <2>2
      <4>3. Lowered(text)[i + k - 1] = Lower[text[i + k - 1]]
        BY <4>2, LoweredString
      <4> QED BY <3>1, <3>2, <4>1, <4>3
    <3>5. Lowered(s) = t
      BY <3>1, <3>2, <3>3, <3>4, SameString
    <3> QED BY <2>1, <3>5 DEF s, t
  <2> QED BY <2>2, <2>3, <2>4
<1>2. \A w \in W : Promise!Lowered(w) = Lowered(w)
  BY DEF Promise!Lowered, Lowered
<1> QED BY <1>1, <1>2 DEF Promise!Places, Occurrences

LEMMA InForceServed == ASSUME FilterInv PROVE InForce = Served
  BY DEF FilterInv, BuildRight, InForce, Served

LEMMA PromiseInit == Init => Promise!Init
<1> SUFFICES ASSUME Init PROVE Promise!Init
  OBVIOUS
<1>1. auto = Trie({}) /\ Building
  BY LoadRight DEF Init, Building
<1>2. InForce = {}
  BY <1>1, EmptyTrie DEF InForce
<1> QED BY <1>2 DEF Init, Promise!Init, Idle, Promise!Idle

LEMMA JudgeRight ==
    ASSUME FilterInv, NEW q \in Requests, Match(q)
    PROVE  Promise!Judge(q)
<1>1. ~Building /\ req[q].pc = "match" /\ UNCHANGED <<words, auto, build>>
  BY DEF Match
<1>2. req[q].text \in Strings
  BY <1>1, WordFilterAssumption DEF FilterInv, ReqRight, Strings
<1>3. Complete(words, auto) /\ \A w \in words : IsWord(w)
  BY <1>1 DEF FilterInv, AutoRight, BuildRight, WordsRight
<1>4. InForce = words /\ UNCHANGED InForce
  BY <1>1 DEF InForce, Building
<1>5. FindAll(auto, req[q].text) = Promise!Places(InForce, req[q].text)
  BY <1>2, <1>3, <1>4, FindAllRight, PlacesFound DEF FilterInv, WordsRight
<1> QED BY <1>1, <1>4, <1>5
        DEF Match, Promise!Judge, Mask, Promise!Covered, Answer, Promise!Answer

LEMMA PromiseStep == FilterInv /\ [Next]_vars => [Promise!Next]_(Promise!vars)
<1> SUFFICES ASSUME FilterInv, [Next]_vars PROVE [Promise!Next]_(Promise!vars)
  OBVIOUS
<1>1. FilterInv' /\ InForce = Served /\ InForce' = Served'
  <2>1. FilterInv'
    BY FilterStep
  <2> QED BY <2>1, InForceServed DEF FilterInv, BuildRight, InForce, Served
<1>2. ASSUME NEW input \in Inputs, AddWord(input) \/ RemoveWord(input)
      PROVE  UNCHANGED Promise!vars
  BY <1>1, <1>2 DEF AddWord, RemoveWord, Served, Promise!vars
<1>3. CASE BuildEdge \/ BuildNode
  BY <1>1, <1>3 DEF BuildEdge, BuildNode, Served, Promise!vars
<1>4. CASE BuildDone
  <2>1. InForce' = words /\ Building /\ UNCHANGED <<words, req>>
    BY <1>1, <1>4, DoneRight DEF BuildDone
  <2>2. CASE build.of = "load"
    <3>1. InForce = {} /\ words = FileWords
      BY <1>1, <2>2 DEF FilterInv, BuildRight
    <3> QED BY <2>1, <3>1 DEF Promise!Next, Promise!Load
  <2>3. CASE build.of = "change"
    <3>1. PICK w : words \in {InForce \cup {w}, InForce \ {w}}
      BY <1>1, <2>3 DEF FilterInv, BuildRight
    <3>2. CASE words = InForce
      BY <2>1, <3>2 DEF Promise!vars
    <3>3. CASE words # InForce
      <4>1. w \in (InForce' \ InForce) \cup (InForce \ InForce')
        BY <2>1, <3>1, <3>3
      <4> QED BY <2>1, <3>1, <4>1 DEF Promise!Next, Promise!Change
    <3> QED BY <3>2, <3>3
  <2> QED BY <2>1, <2>2, <2>3 DEF FilterInv, BuildRight
<1>5. CASE Restart
  BY <1>1, <1>5, RestartRight DEF Restart, Promise!Next, Promise!Restart, Idle, Promise!Idle
<1>6. ASSUME NEW q \in Requests,
             (\E text \in Contents : Begin(q, text)) \/ Match(q) \/ Review(q) \/ Respond(q)
      PROVE  Promise!Next
  <2>1. UNCHANGED InForce
    BY <1>1, <1>6, RequestRight, ElsewhereRight
  <2>2. ASSUME NEW text \in Contents, Begin(q, text) PROVE Promise!Call(q)
    BY <2>1, <2>2 DEF Begin, Promise!Call, Idle, Promise!Idle
  <2>3. ASSUME Match(q) PROVE Promise!Judge(q)
    BY <2>3, JudgeRight
  <2>4. ASSUME Review(q) PROVE Promise!Review(q)
    BY <2>1, <2>4 DEF Review, Promise!Review, Answer, Promise!Answer
  <2>5. ASSUME Respond(q) PROVE Promise!Return(q)
    BY <2>1, <2>5 DEF Respond, Promise!Return, Idle, Promise!Idle
  <2> QED BY <1>6, <2>2, <2>3, <2>4, <2>5 DEF Promise!Next
<1>7. CASE UNCHANGED vars
  BY <1>7 DEF vars, InForce, Building, Promise!vars
<1> QED BY <1>2, <1>3, <1>4, <1>5, <1>6, <1>7 DEF Next

(* What comment-filter promises its callers, but for the promise that every   *)
(* call is answered: each step is one of FilterPromise or invisible.           *)
THEOREM FilterImplementsPromise == Spec => Promise!Init /\ [][Promise!Next]_(Promise!vars)
  BY PromiseInit, PromiseStep, FilterAlways, PTL DEF Spec
===============================================================================
