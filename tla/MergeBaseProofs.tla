--------------------------- MODULE MergeBaseProofs ---------------------------
(***************************************************************************)
(* Proofs about MergeBase, for every commit graph, ladder and pull request.*)
(*                                                                         *)
(* Ancestors are defined as the intersection of the closed sets around a   *)
(* commit, so each fact about them is shown with one such set.  The        *)
(* inductive invariant is in layers: the clone (CloneOK), which every      *)
(* fetch and pruning keeps readable; what is known at each point of the    *)
(* search (SearchOK); and on these what is reported or found absent.       *)
(***************************************************************************)
EXTENDS MergeBase, SequenceTheorems, FiniteSetTheorems, WellFoundedInduction, TLAPS

-----------------------------------------------------------------------------
(***************************************************************************)
(* Constants.                                                              *)
(***************************************************************************)

LEMMA HistoryFacts ==
    ASSUME NEW h \in Histories
    PROVE  /\ h.parents \in [Commits -> SUBSET Commits]
           /\ h.head \in Commits /\ h.base \in Commits
           /\ \A c \in Commits : h.parents[c] \subseteq 1 .. c - 1
           /\ \A W \in SUBSET Commits : NearOK(h.parents, W)
  BY MergeBaseAssumption DEF History

LEMMA SeqElements ==
    ASSUME NEW T, NEW s \in Seq(T)
    PROVE  \A i \in 1 .. Len(s) : s[i] \in T
  OBVIOUS

LEMMA LadderFacts ==
    /\ Len(HeadLadder) \in Nat \ {0} /\ DOMAIN HeadLadder = 1 .. Len(HeadLadder)
    /\ Len(InitialLadder) = Len(HeadLadder) + 1
    /\ DOMAIN InitialLadder = 1 .. Len(HeadLadder) + 1
    /\ \A i \in 1 .. Len(HeadLadder) : HeadLadder[i] \in 1 .. MaxDepth
    /\ \A i \in 1 .. Len(HeadLadder) + 1 : InitialLadder[i] \in 1 .. MaxDepth
    /\ MaxDepth \in Nat \ {0}
<1>1. HeadLadder \in Seq(1 .. MaxDepth) /\ HeadLadder # << >> /\ MaxDepth \in Nat
  BY MergeBaseAssumption
<1>2. Len(HeadLadder) \in Nat \ {0} /\ DOMAIN HeadLadder = 1 .. Len(HeadLadder)
  BY <1>1, EmptySeq
<1>3. \A i \in 1 .. Len(HeadLadder) : HeadLadder[i] \in 1 .. MaxDepth
  BY <1>1
<1>4. MaxDepth \in Nat \ {0}
  BY <1>1, <1>2, <1>3
<1>5. <<1>> \in Seq(1 .. MaxDepth) /\ Len(<<1>>) = 1
  BY <1>4
<1>6. /\ InitialLadder \in Seq(1 .. MaxDepth)
      /\ Len(InitialLadder) = Len(HeadLadder) + 1
  BY <1>1, <1>2, <1>5 DEF InitialLadder
<1>7. \A i \in 1 .. Len(HeadLadder) + 1 : InitialLadder[i] \in 1 .. MaxDepth
  <2>1. \A i \in 1 .. Len(InitialLadder) : InitialLadder[i] \in 1 .. MaxDepth
    BY <1>6, SeqElements
  <2>. QED
    BY <1>6, <2>1
<1>8. DOMAIN InitialLadder = 1 .. Len(HeadLadder) + 1
  BY <1>6
<1>. QED
  BY <1>2, <1>3, <1>4, <1>6, <1>7, <1>8

-----------------------------------------------------------------------------
(***************************************************************************)
(* Commit graphs.                                                          *)
(***************************************************************************)

\* A commit is one of its ancestors.
LEMMA AncestorsSelf ==
    ASSUME NEW par, NEW c \in Commits
    PROVE  c \in Ancestors(par, c)
  BY DEF Ancestors

\* A closed set around a commit holds all its ancestors.
LEMMA AncestorsWithin ==
    ASSUME NEW par, NEW S \in SUBSET Commits, NEW c \in S, Closed(par, S)
    PROVE  Ancestors(par, c) \subseteq S
  BY DEF Ancestors

\* Ancestors are closed.
LEMMA AncestorsClosed ==
    ASSUME NEW par \in [Commits -> SUBSET Commits], NEW c \in Commits
    PROVE  Closed(par, Ancestors(par, c))
  BY DEF Ancestors, Closed

\* Fewer links lead to fewer ancestors.
LEMMA AncestorsMono ==
    ASSUME NEW p, NEW q, NEW c, \A x \in Commits : p[x] \subseteq q[x]
    PROVE  Ancestors(p, c) \subseteq Ancestors(q, c)
<1>1. \A S \in SUBSET Commits : Closed(q, S) => Closed(p, S)
  BY DEF Closed
<1>. QED
  BY <1>1 DEF Ancestors

\* Ancestors have no higher number.
LEMMA AncestorsBelow ==
    ASSUME NEW par, \A x \in Commits : par[x] \subseteq 1 .. x - 1, NEW c \in Commits
    PROVE  Ancestors(par, c) \subseteq 1 .. c
<1>1. 1 .. c \in SUBSET Commits /\ c \in 1 .. c
  BY MergeBaseAssumption DEF Commits
<1>2. ASSUME NEW x \in 1 .. c
      PROVE  par[x] \subseteq 1 .. c
  <2>1. x \in Commits
    BY <1>1, <1>2
  <2>2. 1 .. x - 1 \subseteq 1 .. c
    BY <1>2, MergeBaseAssumption DEF Commits
  <2>. QED
    BY <2>1, <2>2
<1>3. Closed(par, 1 .. c)
  BY <1>2 DEF Closed
<1>. QED
  BY <1>1, <1>3, AncestorsWithin

\* The git binary sees a part of the history.
LEMMA SeenBelow ==
    ASSUME NEW h \in Histories, NEW sh
    PROVE  /\ Seen(h.parents, sh) \in [Commits -> SUBSET Commits]
           /\ \A c \in Commits : Seen(h.parents, sh)[c] \subseteq h.parents[c]
           /\ \A c \in Commits : Seen(h.parents, sh)[c] \subseteq 1 .. c - 1
  BY HistoryFacts DEF Seen

\* A commit seen in the history of another is their merge base.
LEMMA AncestorIsMergeBase ==
    ASSUME NEW h \in Histories, NEW sh, NEW c \in Commits, NEW mb \in Ancestors(Seen(h.parents, sh), c)
    PROVE  mb \in BestCommon(Seen(h.parents, sh), c, mb)
<1>1. mb \in Commits
  BY DEF Ancestors
<1>2. mb \in Common(Seen(h.parents, sh), c, mb)
  BY <1>1, AncestorsSelf DEF Common
<1>3. ASSUME NEW d \in Common(Seen(h.parents, sh), c, mb) \ {mb}
      PROVE  mb \notin Ancestors(Seen(h.parents, sh), d)
  <2>1. d \in Ancestors(Seen(h.parents, sh), mb) /\ d \in Commits
    BY <1>3 DEF Common, Ancestors
  <2>2. d \in 1 .. mb
    BY <1>1, <2>1, SeenBelow, AncestorsBelow
  <2>3. Ancestors(Seen(h.parents, sh), d) \subseteq 1 .. d
    BY <2>1, SeenBelow, AncestorsBelow
  <2>. QED
    BY <1>1, <1>3, <2>1, <2>2, <2>3, MergeBaseAssumption DEF Commits
<1>. QED
  BY <1>2, <1>3 DEF BestCommon

\* What the git binary answers is common to both in the whole history too.
LEMMA SeenIsCommon ==
    ASSUME NEW h \in Histories, NEW sh, NEW a, NEW b, NEW mb \in BestCommon(Seen(h.parents, sh), a, b)
    PROVE  mb \in Common(h.parents, a, b)
<1>1. /\ Ancestors(Seen(h.parents, sh), a) \subseteq Ancestors(h.parents, a)
      /\ Ancestors(Seen(h.parents, sh), b) \subseteq Ancestors(h.parents, b)
  BY SeenBelow, AncestorsMono
<1>. QED
  BY <1>1 DEF BestCommon, Common
-----------------------------------------------------------------------------
(***************************************************************************)
(* Induction over numbers, stated of sets.                                 *)
(***************************************************************************)

LEMMA Smallest ==
    ASSUME NEW T \in SUBSET Nat, T # {}
    PROVE  \E x \in T : \A y \in T : x <= y
<1>. DEFINE R == OpToRel(<, Nat)
<1>1. IsWellFoundedOn(R, Nat)
  BY NatLessThanWellFounded
<1>2. \A x, y \in Nat : y < x => <<y, x>> \in R
  BY DEF OpToRel
<1>. HIDE DEF R
<1>3. PICK x \in T : \A y \in T : ~ (<<y, x>> \in R)
  BY <1>1, WFMin
<1>4. \A y \in T : ~ (y < x)
  BY <1>2, <1>3
<1>. QED
  BY <1>4

LEMMA Largest ==
    ASSUME NEW n \in Nat, NEW T \in SUBSET (1 .. n), T # {}
    PROVE  \E x \in T : \A y \in T : y <= x
<1>. DEFINE U == { k \in Nat : n - k \in T }
<1>1. PICK t \in T : TRUE
  OBVIOUS
<1>2. n - t \in Nat /\ n - (n - t) = t
  OBVIOUS
<1>3. n - t \in U
  BY <1>2
<1>4. PICK u \in U : \A v \in U : u <= v
  BY <1>3, Smallest
<1>5. ASSUME NEW y \in T
      PROVE  y <= n - u
  <2>1. n - y \in Nat /\ n - (n - y) = y /\ y \in Nat
    OBVIOUS
  <2>2. n - y \in U
    BY <2>1
  <2>3. u <= n - y /\ u \in Nat
    BY <1>4, <2>2
  <2>. QED
    BY <2>1, <2>3
<1>. QED
  BY <1>4, <1>5

LEMMA UpTo ==
    ASSUME NEW n \in Nat, NEW S, n >= 1 => 1 \in S,
           \A d \in 1 .. n : d # n /\ d \in S => d + 1 \in S
    PROVE  1 .. n \subseteq S
<1>. DEFINE T == (1 .. n) \ S
<1>1. SUFFICES ASSUME T # {} PROVE FALSE
  OBVIOUS
<1>2. T \in SUBSET Nat
  OBVIOUS
<1>3. PICK m \in T : \A y \in T : m <= y
  BY <1>1, <1>2, Smallest
<1>4. m \in 1 .. n /\ m # 1 /\ m \notin S
  OBVIOUS
<1>5. m - 1 \in 1 .. n /\ m - 1 # n /\ m - 1 + 1 = m /\ ~(m <= m - 1)
  BY <1>4
<1>6. m - 1 \in S
  BY <1>3, <1>5
<1>. QED
  BY <1>4, <1>5, <1>6

-----------------------------------------------------------------------------
(***************************************************************************)
(* The answers of git merge-base, in histories that are cut.               *)
(***************************************************************************)

\* The ancestors of an ancestor are ancestors.
LEMMA AncestorsTrans ==
    ASSUME NEW par \in [Commits -> SUBSET Commits], NEW c \in Commits, NEW a \in Ancestors(par, c)
    PROVE  Ancestors(par, a) \subseteq Ancestors(par, c)
<1>1. Ancestors(par, c) \in SUBSET Commits
  BY DEF Ancestors
<1>. QED
  BY <1>1, AncestorsClosed, AncestorsWithin

\* An ancestor other than the commit itself is reached through a parent.
LEMMA AncestorsStep ==
    ASSUME NEW par \in [Commits -> SUBSET Commits], NEW x \in Commits,
           NEW c \in Ancestors(par, x), c # x
    PROVE  \E y \in par[x] : c \in Ancestors(par, y)
<1>. DEFINE S == {x} \cup { a \in Commits : \E y \in par[x] : a \in Ancestors(par, y) }
<1>1. S \in SUBSET Commits /\ x \in S
  OBVIOUS
<1>2. ASSUME NEW s \in S
      PROVE  par[s] \subseteq S
  <2>1. CASE s = x
    BY <2>1, AncestorsSelf
  <2>2. CASE \E y \in par[x] : s \in Ancestors(par, y)
    <3>1. PICK y \in par[x] : s \in Ancestors(par, y)
      BY <2>2
    <3>2. y \in Commits /\ s \in Commits
      BY <1>1
    <3>3. par[s] \subseteq Ancestors(par, y)
      BY <3>1, <3>2, AncestorsClosed DEF Closed
    <3>4. par[s] \subseteq Commits
      BY <3>2
    <3>. QED
      BY <3>1, <3>3, <3>4
  <2>. QED
    BY <2>1, <2>2
<1>3. Closed(par, S)
  BY <1>2 DEF Closed
<1>4. c \in S
  BY <1>1, <1>3, AncestorsWithin
<1>. QED
  BY <1>4

\* Two commits with a common ancestor have a best one: the one of the highest
\* number is an ancestor of no other.
LEMMA BestExists ==
    ASSUME NEW par, \A x \in Commits : par[x] \subseteq 1 .. x - 1, NEW a, NEW b,
           Common(par, a, b) # {}
    PROVE  BestCommon(par, a, b) # {}
<1>1. Common(par, a, b) \in SUBSET (1 .. MaxCommit) /\ MaxCommit \in Nat
  BY MergeBaseAssumption DEF Common, Ancestors, Commits
<1>2. PICK m \in Common(par, a, b) : \A y \in Common(par, a, b) : y <= m
  BY <1>1, Largest
<1>3. ASSUME NEW d \in Common(par, a, b) \ {m}
      PROVE  m \notin Ancestors(par, d)
  <2>1. d \in Commits /\ d \in Nat /\ m \in Nat /\ d <= m /\ d # m
    BY <1>1, <1>2, <1>3 DEF Commits
  <2>2. Ancestors(par, d) \subseteq 1 .. d
    BY <2>1, AncestorsBelow
  <2>. QED
    BY <2>1, <2>2
<1>. QED
  BY <1>3 DEF BestCommon

\* One parent at the most.
LEMMA OneParent ==
    ASSUME NEW h \in Histories, NEW c \in Commits, Cardinality(h.parents[c]) <= 1,
           NEW x \in h.parents[c], NEW y \in h.parents[c]
    PROVE  x = y
<1>1. h.parents[c] \subseteq 1 .. c - 1 /\ c \in Int
  BY HistoryFacts, MergeBaseAssumption DEF Commits
<1>2. IsFiniteSet(1 .. c - 1)
  BY <1>1, FS_Interval
<1>3. IsFiniteSet(h.parents[c])
  BY <1>1, <1>2, FS_Subset
<1>4. Cardinality(h.parents[c]) \in Nat /\ Cardinality(h.parents[c]) # 0
  BY <1>3, FS_CardinalityType, FS_EmptySet
<1>5. Cardinality(h.parents[c]) = 1
  BY <1>4
<1>. QED
  BY <1>3, <1>5, FS_Singleton

\* In a history without merges, a part of it that reaches a commit reaches every
\* commit in between, and the commit from there.
LEMMA NothingBetween ==
    ASSUME NEW p \in [Commits -> SUBSET Commits], NEW q \in [Commits -> SUBSET Commits],
           \A x \in Commits : q[x] \subseteq p[x] /\ p[x] \subseteq 1 .. x - 1,
           \A x \in Commits : \A y, z \in p[x] : y = z,
           NEW a \in Commits, NEW c \in Ancestors(q, a), NEW d \in Ancestors(p, a),
           c \in Ancestors(p, d)
    PROVE  d \in Ancestors(q, a) /\ c \in Ancestors(q, d)
<1>. DEFINE Way == { x \in Ancestors(q, a) : c \in Ancestors(q, x) }
            K   == Way \cup Ancestors(p, c)
<1>1. a \in K /\ K \in SUBSET Commits /\ c \in Commits /\ d \in Commits
  BY AncestorsSelf DEF Ancestors
<1>2. ASSUME NEW x \in Way
      PROVE  p[x] \subseteq K
  <2>1. x \in Commits
    BY <1>1
  <2>2. CASE x = c
    <3>1. c \in Ancestors(p, c)
      BY <1>1, AncestorsSelf
    <3>2. p[c] \subseteq Ancestors(p, c)
      BY <1>1, <3>1, AncestorsClosed DEF Closed
    <3>. QED
      BY <2>2, <3>2
  <2>3. CASE x # c
    <3>1. PICK y \in q[x] : c \in Ancestors(q, y)
      BY <2>1, <2>3, AncestorsStep
    <3>2. y \in Ancestors(q, a)
      BY <2>1, AncestorsClosed DEF Closed
    <3>3. \A z \in p[x] : z = y
      BY <2>1, <3>1
    <3>. QED
      BY <3>1, <3>2, <3>3
  <2>. QED
    BY <2>2, <2>3
<1>3. Closed(p, Ancestors(p, c))
  BY <1>1, AncestorsClosed
<1>4. Closed(p, K)
  BY <1>2, <1>3 DEF Closed
<1>5. d \in K
  <2>. HIDE DEF K
  <2>. QED
    BY <1>1, <1>4, AncestorsWithin
<1>6. CASE d \in Ancestors(p, c)
  <2>1. d \in 1 .. c /\ c \in 1 .. d
    BY <1>1, <1>6, AncestorsBelow
  <2>2. d = c
    BY <2>1
  <2>. QED
    BY <1>1, <2>2, AncestorsSelf
<1>. QED
  BY <1>5, <1>6

\* So the fork point seen in a cut history without merges is the fork point.
LEMMA SeenIsBest ==
    ASSUME NEW h \in Histories, NEW sh, \A x \in Commits : Cardinality(h.parents[x]) <= 1,
           NEW mb \in BestCommon(Seen(h.parents, sh), h.head, h.base)
    PROVE  mb \in BestCommon(h.parents, h.head, h.base)
<1>. DEFINE p == h.parents
            q == Seen(h.parents, sh)
<1>1. /\ p \in [Commits -> SUBSET Commits] /\ h.head \in Commits /\ h.base \in Commits
      /\ q \in [Commits -> SUBSET Commits]
      /\ \A x \in Commits : q[x] \subseteq p[x] /\ p[x] \subseteq 1 .. x - 1
  BY HistoryFacts, SeenBelow
<1>2. \A x \in Commits : \A y, z \in p[x] : y = z
  BY OneParent
<1>3. mb \in Common(p, h.head, h.base)
  BY SeenIsCommon
<1>4. mb \in Ancestors(q, h.head) /\ mb \in Ancestors(q, h.base)
  BY DEF BestCommon, Common
<1>5. ASSUME NEW d \in Common(p, h.head, h.base) \ {mb}, mb \in Ancestors(p, d)
      PROVE  FALSE
  <2>1. d \in Ancestors(p, h.head) /\ d \in Ancestors(p, h.base)
    BY <1>5 DEF Common
  <2>. HIDE DEF p, q
  <2>2. d \in Ancestors(q, h.head) /\ mb \in Ancestors(q, d)
    BY <1>1, <1>2, <1>4, <1>5, <2>1, NothingBetween
  <2>3. d \in Ancestors(q, h.base)
    BY <1>1, <1>2, <1>4, <1>5, <2>1, NothingBetween
  <2>. USE DEF q
  <2>. QED
    BY <1>5, <2>2, <2>3 DEF BestCommon, Common
<1>. QED
  BY <1>3, <1>5 DEF BestCommon

-----------------------------------------------------------------------------
(***************************************************************************)
(* What a fetch brings, by its depth.                                      *)
(***************************************************************************)

LEMMA NearFacts ==
    ASSUME NEW h \in Histories, NEW W \in SUBSET Commits
    PROVE  NearOK(h.parents, W)
  BY HistoryFacts

LEMMA DepthFacts ==
    ASSUME NEW n \in 1 .. MaxDepth
    PROVE  n \in Nat /\ n >= 1 /\ \A d \in 1 .. n : d \in Nat /\ d <= n /\ d \in 1 .. MaxDepth
<1>1. MaxDepth \in Nat
  BY MergeBaseAssumption
<1>. QED
  BY <1>1

\* More to ask for brings more.
LEMMA NearMono ==
    ASSUME NEW h \in Histories, NEW V \in SUBSET Commits, NEW W \in SUBSET V,
           NEW n \in 1 .. MaxDepth
    PROVE  Near(h.parents, W, n) \subseteq Near(h.parents, V, n)
<1>. DEFINE S == { d \in 1 .. n : Near(h.parents, W, d) \subseteq Near(h.parents, V, d) }
<1>1. /\ NearOK(h.parents, W) /\ NearOK(h.parents, V) /\ n \in Nat
      /\ \A d \in 1 .. n : d \in 1 .. MaxDepth
  <2>1. W \in SUBSET Commits
    OBVIOUS
  <2>. QED
    BY <2>1, NearFacts, DepthFacts
<1>2. 1 \in S
  BY <1>1 DEF NearOK
<1>3. ASSUME NEW d \in 1 .. n, d # n, d \in S
      PROVE  d + 1 \in S
  <2>1. /\ Near(h.parents, W, d + 1) =
               Near(h.parents, W, d) \cup UNION { h.parents[c] : c \in Near(h.parents, W, d) }
        /\ Near(h.parents, V, d + 1) =
               Near(h.parents, V, d) \cup UNION { h.parents[c] : c \in Near(h.parents, V, d) }
    BY <1>1 DEF NearOK
  <2>2. Near(h.parents, W, d) \subseteq Near(h.parents, V, d)
    BY <1>3
  <2>3. Near(h.parents, W, d + 1) \subseteq Near(h.parents, V, d + 1)
    BY <2>1, <2>2
  <2>. QED
    BY <1>1, <1>3, <2>3
<1>. HIDE DEF S
<1>4. 1 .. n \subseteq S
  BY <1>1, <1>2, <1>3, UpTo
<1>. QED
  BY <1>1, <1>4 DEF S

\* The commits near one are its ancestors in a graph that has the parents of all
\* but the farthest.
LEMMA NearIsReached ==
    ASSUME NEW h \in Histories, NEW a \in Commits, NEW q \in [Commits -> SUBSET Commits],
           NEW n \in 1 .. MaxDepth,
           \A d \in 1 .. n : d # n =>
               \A c \in Near(h.parents, {a}, d) : h.parents[c] \subseteq q[c]
    PROVE  Near(h.parents, {a}, n) \subseteq Ancestors(q, a)
<1>. DEFINE S == { d \in 1 .. n : Near(h.parents, {a}, d) \subseteq Ancestors(q, a) }
<1>1. /\ NearOK(h.parents, {a}) /\ n \in Nat
      /\ \A d \in 1 .. n : d \in 1 .. MaxDepth
  <2>1. {a} \in SUBSET Commits
    OBVIOUS
  <2>. QED
    BY <2>1, NearFacts, DepthFacts
<1>2. 1 \in S
  <2>1. Near(h.parents, {a}, 1) = {a}
    BY <1>1 DEF NearOK
  <2>2. 1 \in 1 .. n
    BY <1>1, DepthFacts
  <2>3. a \in Ancestors(q, a)
    BY AncestorsSelf
  <2>. QED
    BY <2>1, <2>2, <2>3
<1>3. ASSUME NEW d \in 1 .. n, d # n, d \in S
      PROVE  d + 1 \in S
  <2>1. Near(h.parents, {a}, d + 1) =
            Near(h.parents, {a}, d) \cup UNION { h.parents[c] : c \in Near(h.parents, {a}, d) }
    BY <1>1 DEF NearOK
  <2>2. \A c \in Near(h.parents, {a}, d) : h.parents[c] \subseteq q[c]
    BY <1>3
  <2>3. Near(h.parents, {a}, d) \subseteq Ancestors(q, a)
    BY <1>3
  <2>4. Closed(q, Ancestors(q, a))
    BY AncestorsClosed
  <2>5. Near(h.parents, {a}, d + 1) \subseteq Ancestors(q, a)
    BY <2>1, <2>2, <2>3, <2>4 DEF Closed
  <2>. QED
    BY <1>1, <1>3, <2>5
<1>. HIDE DEF S
<1>4. 1 .. n \subseteq S
  BY <1>1, <1>2, <1>3, UpTo
<1>5. n \in S
  BY <1>1, <1>4, DepthFacts
<1>. QED
  BY <1>5 DEF S

\* A smaller depth brings less.
LEMMA NearGrows ==
    ASSUME NEW h \in Histories, NEW W \in SUBSET Commits, NEW n \in 1 .. MaxDepth, NEW d \in 1 .. n
    PROVE  Near(h.parents, W, d) \subseteq Near(h.parents, W, n)
<1>. DEFINE S == { e \in 1 .. n : d <= e => Near(h.parents, W, d) \subseteq Near(h.parents, W, e) }
<1>1. /\ NearOK(h.parents, W) /\ n \in Nat /\ d \in Nat /\ d <= n
      /\ \A e \in 1 .. n : e \in 1 .. MaxDepth
  BY NearFacts, DepthFacts
<1>2. 1 \in S
  <2>1. d <= 1 => d = 1
    BY <1>1
  <2>. QED
    BY <1>1, <2>1
<1>3. ASSUME NEW e \in 1 .. n, e # n, e \in S
      PROVE  e + 1 \in S
  <2>1. Near(h.parents, W, e) \subseteq Near(h.parents, W, e + 1)
    BY <1>1 DEF NearOK
  <2>2. d <= e + 1 => d <= e \/ d = e + 1
    BY <1>1, <1>3
  <2>3. d <= e + 1 => Near(h.parents, W, d) \subseteq Near(h.parents, W, e + 1)
    BY <1>3, <2>1, <2>2
  <2>. QED
    BY <1>1, <1>3, <2>3
<1>. HIDE DEF S
<1>4. 1 .. n \subseteq S
  BY <1>1, <1>2, <1>3, UpTo
<1>5. n \in S
  BY <1>1, <1>4
<1>. QED
  BY <1>1, <1>5 DEF S

-----------------------------------------------------------------------------
(***************************************************************************)
(* The clone: a parent is missing only behind an entry of .git/shallow.    *)
(***************************************************************************)

StoreOK(h, obj, sh) ==
    /\ obj \subseteq Commits /\ sh \subseteq obj /\ h.head \in obj
    /\ \A c \in obj \ sh : h.parents[c] \subseteq obj

\* A fetch brings the parents of what it does not mark as its boundary.
LEMMA BroughtFacts ==
    ASSUME pr \in Histories, NEW W \in SUBSET Commits, NEW d \in 1 .. MaxDepth
    PROVE  /\ Brought(W, d) \subseteq Commits /\ W \subseteq Brought(W, d)
           /\ Boundary(W, d) \subseteq Brought(W, d)
           /\ \A c \in Brought(W, d) \ Boundary(W, d) : pr.parents[c] \subseteq Brought(W, d)
<1>1. NearOK(pr.parents, W)
  BY MergeBaseAssumption
<1>2. d \in Nat /\ d >= 1 /\ d <= MaxDepth /\ MaxDepth \in Nat
  BY MergeBaseAssumption
<1>3. Brought(W, d) \subseteq Commits /\ W \subseteq Brought(W, d)
  BY <1>1 DEF NearOK, Brought
<1>4. CASE d = 1
  BY <1>1, <1>3, <1>4 DEF NearOK, Brought, Boundary
<1>5. CASE d # 1
  <2>1. d - 1 \in 1 .. MaxDepth /\ d - 1 + 1 = d
    BY <1>2, <1>5
  <2>2. Brought(W, d) = Brought(W, d - 1) \cup UNION { pr.parents[c] : c \in Brought(W, d - 1) }
    BY <1>1, <2>1 DEF NearOK, Brought
  <2>. QED
    BY <1>3, <1>5, <2>2 DEF Boundary
<1>. QED
  BY <1>4, <1>5, <1>3

\* Pruning, and a fetch by either tool, keep the clone readable.
LEMMA PrunedKeeps ==
    ASSUME NEW obj, NEW sh, StoreOK(pr, obj, sh)
    PROVE  StoreOK(pr, obj, Pruned(obj, sh))
  BY DEF StoreOK, Pruned

LEMMA GoGitKeeps ==
    ASSUME pr \in Histories, NEW d \in 1 .. MaxDepth, StoreOK(pr, objects, shallow)
    PROVE  StoreOK(pr, objects \cup Brought({pr.head}, d), GoGitShallow(d))
<1>1. {pr.head} \in SUBSET Commits
  BY HistoryFacts
<1>. QED
  BY <1>1, BroughtFacts DEF StoreOK, GoGitShallow

LEMMA CLIKeeps ==
    ASSUME pr \in Histories, NEW W \in SUBSET Commits, NEW d \in 1 .. MaxDepth,
           StoreOK(pr, objects, shallow)
    PROVE  StoreOK(pr, objects \cup Brought(W, d), CLIShallow(W, d))
<1>1. /\ Brought(W, d) \subseteq Commits /\ Boundary(W, d) \subseteq Brought(W, d)
      /\ \A c \in Brought(W, d) \ Boundary(W, d) : pr.parents[c] \subseteq Brought(W, d)
  BY BroughtFacts
<1>. QED
  BY <1>1 DEF StoreOK, CLIShallow

\* What is seen from a commit that is there, is there.
LEMMA SeenIsThere ==
    ASSUME NEW h \in Histories, NEW obj, NEW sh, StoreOK(h, obj, sh), NEW c \in obj
    PROVE  Ancestors(Seen(h.parents, sh), c) \subseteq obj
<1>1. Closed(Seen(h.parents, sh), obj)
  BY DEF Closed, Seen, StoreOK
<1>. QED
  BY <1>1, AncestorsWithin DEF StoreOK

\* So a merge base the git binary answers is a merge base of the head and itself.
LEMMA AnswerUsable ==
    ASSUME NEW h \in Histories, NEW obj, NEW sh, StoreOK(h, obj, sh), NEW b,
           NEW mb \in CLIMergeBase(h, obj, sh, b)
    PROVE  mb \in CLIMergeBase(h, obj, sh, mb) /\ mb \in Commits
<1>1. mb \in Ancestors(Seen(h.parents, sh), h.head)
  BY DEF CLIMergeBase, BestCommon, Common
<1>2. mb \in obj /\ mb \in Commits /\ h.head \in obj /\ h.head \in Commits
  BY <1>1, SeenIsThere DEF StoreOK
<1>. QED
  BY <1>1, <1>2, AncestorIsMergeBase DEF CLIMergeBase

-----------------------------------------------------------------------------
(***************************************************************************)
(* The inductive invariant.                                                *)
(***************************************************************************)

CloneOK == StoreOK(pr, objects, shallow)

Probing == {"check", "gogit", "cli", "accepted", "refused"}

\* What the provider said, as far as it is about these commits.
SaidOK ==
    /\ AnswerOK
    /\ pc \in Probing => answer.kind = "sha"
    /\ answer.kind = "sha" => answer.sha \in Commits
    /\ answer.kind = "sha" /\ ~answer.moved => answer.sha \in BestCommon(pr.parents, pr.head, pr.base)

RungOK == pc \in {"gogit", "cli"} => rung \in 1 .. Len(HeadLadder)

\* The references that are left, by the loop that makes them.
RefsOK ==
    tmpRefs \subseteq IF pc = "both" THEN {pr.head, pr.base}
                      ELSE IF pc \in Probing \ {"check"} THEN {pr.head}
                      ELSE {}

AcceptedOK == pc = "accepted" => CLIMergeBase(pr, objects, shallow, answer.sha) # {}

PendingOK == pc # "done" => result = None

SearchOK ==
    SaidOK /\ RungOK /\ RefsOK /\ AcceptedOK /\ PendingOK /\ BaselineUsable /\ BaselineCommon

Inv == StateOK /\ CloneOK /\ SearchOK

\* An answer about these commits is common to head and base.
LEMMA SaidIsCommon ==
    ASSUME SaidOK, answer.kind = "sha", ~answer.moved
    PROVE  answer.sha \in Common(pr.parents, pr.head, pr.base)
  BY DEF SaidOK, BestCommon

\* The provider's answers have the type of answers, and name commits.
LEMMA AnswersFacts ==
    ASSUME pr \in Histories, NEW a \in Answers
    PROVE  /\ a \in [kind : {"sha", "none", "empty"}, sha : Commits \cup {None}, moved : BOOLEAN]
           /\ a.kind = "sha" => a.sha \in Commits
           /\ a.kind = "sha" /\ ~a.moved => a.sha \in BestCommon(pr.parents, pr.head, pr.base)
<1>1. BestCommon(pr.parents, pr.head, pr.base) \subseteq Commits
  BY DEF BestCommon, Common, Ancestors
<1>. QED
  BY <1>1 DEF Answers

-----------------------------------------------------------------------------
(***************************************************************************)
(* Initial states.                                                         *)
(***************************************************************************)

\* A clone of any depth is readable.
LEMMA ClonedOK ==
    ASSUME NEW h \in Histories, NEW d \in CloneDepths
    PROVE  StoreOK(h, Cloned(h, d), ClonedShallow(h, d))
<1>1. d \in 0 .. MaxDepth /\ MaxDepth \in Nat
  BY MergeBaseAssumption
<1>2. /\ h.head \in Commits /\ {h.head} \in SUBSET Commits
      /\ h.parents \in [Commits -> SUBSET Commits]
      /\ NearOK(h.parents, {h.head})
  BY HistoryFacts
<1>3. CASE d = 0
  <2>1. Ancestors(h.parents, h.head) \subseteq Commits
    BY DEF Ancestors
  <2>2. h.head \in Ancestors(h.parents, h.head)
    BY <1>2, AncestorsSelf
  <2>3. Closed(h.parents, Ancestors(h.parents, h.head))
    BY <1>2, AncestorsClosed
  <2>. QED
    BY <1>3, <2>1, <2>2, <2>3 DEF StoreOK, Cloned, ClonedShallow, Closed
<1>4. CASE d = 1
  <2>1. Near(h.parents, {h.head}, d) = {h.head}
    BY <1>2, <1>4 DEF NearOK
  <2>2. Cloned(h, d) = {h.head} /\ ClonedShallow(h, d) = {h.head}
    BY <1>4, <2>1 DEF Cloned, ClonedShallow
  <2>. QED
    BY <1>2, <2>2 DEF StoreOK
<1>5. CASE d \in 2 .. MaxDepth
  <2>1. d \in 1 .. MaxDepth /\ d - 1 \in 1 .. MaxDepth /\ d - 1 + 1 = d /\ d # 0 /\ d # 1 /\ d - 1 # 0
    BY <1>1, <1>5
  <2>2. /\ Near(h.parents, {h.head}, d) \subseteq Commits
        /\ {h.head} \subseteq Near(h.parents, {h.head}, d)
    BY <1>2, <2>1 DEF NearOK
  <2>3. Near(h.parents, {h.head}, d) =
            Near(h.parents, {h.head}, d - 1)
            \cup UNION { h.parents[c] : c \in Near(h.parents, {h.head}, d - 1) }
    BY <1>2, <2>1 DEF NearOK
  <2>4. /\ Cloned(h, d) = Near(h.parents, {h.head}, d)
        /\ ClonedShallow(h, d) =
               Near(h.parents, {h.head}, d) \ Near(h.parents, {h.head}, d - 1)
    BY <2>1 DEF Cloned, ClonedShallow
  <2>. QED
    BY <2>2, <2>3, <2>4 DEF StoreOK
<1>. QED
  BY <1>1, <1>3, <1>4, <1>5

LEMMA InitInv == Init => Inv
<1>. SUFFICES ASSUME Init PROVE Inv
  OBVIOUS
<1>1. PICK d \in CloneDepths : objects = Cloned(pr, d) /\ shallow = ClonedShallow(pr, d)
  BY DEF Init
<1>2. CloneOK
  BY <1>1, ClonedOK DEF Init, CloneOK
<1>3. StateOK
  BY <1>2, LadderFacts, MergeBaseAssumption DEF Init, StateOK, CloneOK, StoreOK, Ended
<1>4. SearchOK
  BY DEF Init, SearchOK, SaidOK, AnswerOK, RungOK, RefsOK, AcceptedOK, PendingOK,
         BaselineUsable, BaselineCommon, Probing, None
<1>. QED
  BY <1>2, <1>3, <1>4 DEF Inv

-----------------------------------------------------------------------------
(***************************************************************************)
(* The clone: one fact for all steps.                                      *)
(***************************************************************************)

LEMMA CloneKept ==
    ASSUME Inv, [Next]_vars
    PROVE  CloneOK' /\ pr' = pr
<1>. USE DEF Inv, StateOK, CloneOK
<1>1. pr \in Histories /\ pr.head \in Commits /\ pr.base \in Commits
  BY HistoryFacts
<1>2. CASE UNCHANGED <<pr, objects, shallow>>
  BY <1>2 DEF StoreOK
<1>3. CASE EnsureBase
  BY <1>1, <1>3 DEF EnsureBase, StoreOK, given
<1>4. CASE Check
  <2>1. shallow' = Pruned(objects, shallow) \/ shallow' = shallow
    BY <1>4 DEF Check
  <2>2. objects' = objects /\ pr' = pr
    BY <1>4 DEF Check, given
  <2>. QED
    BY <2>1, <2>2, PrunedKeeps
<1>5. CASE GoGitDeepen
  <2>1. pc = "gogit" /\ HeadLadder[rung] \in 1 .. MaxDepth
    BY <1>5, LadderFacts DEF GoGitDeepen, SearchOK, RungOK
  <2>2. StoreOK(pr, objects \cup Brought({pr.head}, HeadLadder[rung]), GoGitShallow(HeadLadder[rung]))
    BY <1>1, <2>1, GoGitKeeps
  <2>3. CASE shallow = {}
    <3>1. objects' = objects /\ shallow' = Pruned(objects, shallow) /\ pr' = pr
      BY <1>5, <2>3 DEF GoGitDeepen, given
    <3>. QED
      BY <3>1, PrunedKeeps
  <2>4. CASE shallow # {}
    <3>1. /\ objects' = objects \cup Brought({pr.head}, HeadLadder[rung])
          /\ shallow' = Pruned(objects', GoGitShallow(HeadLadder[rung]))
          /\ pr' = pr
      BY <1>5, <2>4 DEF GoGitDeepen, given
    <3>. QED
      BY <2>2, <3>1, PrunedKeeps
  <2>. QED
    BY <2>3, <2>4
<1>6. CASE GoGitFail
  <2>1. pc = "gogit" /\ HeadLadder[rung] \in 1 .. MaxDepth
    BY <1>6, LadderFacts DEF GoGitFail, SearchOK, RungOK
  <2>2. StoreOK(pr, objects \cup Brought({pr.head}, HeadLadder[rung]), GoGitShallow(HeadLadder[rung]))
    BY <1>1, <2>1, GoGitKeeps
  <2>. QED
    BY <1>6, <2>2 DEF GoGitFail, given, clone
<1>7. CASE CLIDeepen
  <2>1. pc = "cli" /\ HeadLadder[rung] \in 1 .. MaxDepth
    BY <1>7, LadderFacts DEF CLIDeepen, SearchOK, RungOK
  <2>2. {pr.head} \in SUBSET Commits
    BY <1>1
  <2>3. /\ objects' = objects \cup Brought({pr.head}, HeadLadder[rung])
        /\ shallow' = CLIShallow({pr.head}, HeadLadder[rung])
        /\ pr' = pr
    BY <1>7 DEF CLIDeepen, given
  <2>. QED
    BY <1>1, <2>1, <2>2, <2>3, CLIKeeps
<1>8. CASE DeepenBoth
  <2>1. InitialLadder[rung] \in 1 .. MaxDepth
    BY LadderFacts
  <2>2. {pr.head, pr.base} \in SUBSET Commits
    BY <1>1
  <2>3. /\ objects' = objects \cup Brought({pr.head, pr.base}, InitialLadder[rung])
        /\ shallow' = CLIShallow({pr.head, pr.base}, InitialLadder[rung])
        /\ pr' = pr
    BY <1>8 DEF DeepenBoth, given
  <2>. QED
    BY <1>1, <2>1, <2>2, <2>3, CLIKeeps
<1>9. ASSUME \/ Start \/ AskAPI \/ CLIFail \/ LeaveEnsure \/ Compute \/ DeepenBothFail
             \/ UNCHANGED vars
      PROVE  UNCHANGED <<pr, objects, shallow>>
  BY <1>9 DEF Start, AskAPI, CLIFail, LeaveEnsure, Compute, DeepenBothFail, vars, given, clone
<1>. QED
  BY <1>2, <1>3, <1>4, <1>5, <1>6, <1>7, <1>8, <1>9 DEF Next

-----------------------------------------------------------------------------
(***************************************************************************)
(* The search: one step per action.                                        *)
(***************************************************************************)

\* A baseline that was accepted is the provider's answer, probed in the clone.
LEMMA AcceptKeeps ==
    ASSUME Inv, pr' = pr, answer' = answer, pc \in Probing,
           CLIMergeBase(pr, objects', shallow', answer.sha) # {}, Accept(answer.sha)
    PROVE  BaselineUsable' /\ BaselineCommon' /\ result' \in Commits
<1>1. result' = answer.sha /\ answer.kind = "sha" /\ answer.sha \in Commits
  BY DEF Accept, Inv, SearchOK, SaidOK
<1>2. ~answer.moved => answer.sha \in Common(pr.parents, pr.head, pr.base)
  BY <1>1, SaidIsCommon DEF Inv, SearchOK
<1>. QED
  BY <1>1, <1>2 DEF BaselineUsable, BaselineCommon

\* So is one that was computed, for what it was computed from.
LEMMA ComputedKeeps ==
    ASSUME Inv, pr' = pr, CloneOK',
           NEW mb \in CLIMergeBase(pr, objects', shallow', pr.base), Accept(mb)
    PROVE  BaselineUsable' /\ BaselineCommon' /\ result' \in Commits
<1>1. pr \in Histories /\ StoreOK(pr, objects', shallow') /\ result' = mb
  BY DEF Inv, StateOK, CloneOK, Accept
<1>2. mb \in CLIMergeBase(pr, objects', shallow', mb) /\ mb \in Commits
  BY <1>1, AnswerUsable
<1>3. mb \in BestCommon(Seen(pr.parents, shallow'), pr.head, pr.base)
  BY DEF CLIMergeBase
<1>4. mb \in Common(pr.parents, pr.head, pr.base)
  BY <1>1, <1>3, SeenIsCommon
<1>. QED
  BY <1>1, <1>2, <1>4 DEF BaselineUsable, BaselineCommon

\* Nothing is claimed of a baseline that is absent, or not yet known.
LEMMA NothingClaimed ==
    ASSUME pc' # "done" \/ result' = None
    PROVE  BaselineUsable' /\ BaselineCommon'
  BY DEF BaselineUsable, BaselineCommon

LEMMA StepInv ==
    ASSUME Inv, [Next]_vars
    PROVE  Inv'
<1>. USE DEF Inv, StateOK, SearchOK
<1>1. CloneOK' /\ pr' = pr /\ pr \in Histories
  BY CloneKept
<1>2. shallow' \subseteq objects' /\ objects' \subseteq Commits
  BY <1>1 DEF CloneOK, StoreOK
<1>3. /\ DOMAIN InitialLadder = 1 .. Len(HeadLadder) + 1
      /\ Len(HeadLadder) \in Nat \ {0} /\ Len(InitialLadder) = Len(HeadLadder) + 1
      /\ MaxFaults \in Nat /\ MaxRuns \in Nat /\ None \notin Commits
  BY LadderFacts, MergeBaseAssumption DEF Commits, None
<1>4. ASSUME answer' = answer, pc' \in Probing => answer.kind = "sha"
      PROVE  SaidOK'
  BY <1>1, <1>4 DEF SaidOK, AnswerOK
<1>5. Fault \/ NoFault => faults' \in 0 .. MaxFaults
  BY <1>3 DEF Fault, NoFault
<1>6. CASE UNCHANGED vars
  BY <1>1, <1>2, <1>6 DEF vars, given, clone, SaidOK, AnswerOK, RungOK, RefsOK, AcceptedOK,
        PendingOK, BaselineUsable, BaselineCommon
<1>7. CASE Start
  <2>1. /\ pc' = "base" /\ tmpRefs = {} /\ tmpRefs' = {} /\ answer' = answer
        /\ result' = None /\ rung' = rung /\ faults' = faults
        /\ runs' = runs + 1 /\ runs < MaxRuns
    BY <1>7 DEF Start, clone, RefsOK, Ended, Probing
  <2>2. SaidOK' /\ RungOK' /\ RefsOK' /\ AcceptedOK' /\ PendingOK'
    BY <1>4, <2>1 DEF Probing, RungOK, RefsOK, AcceptedOK, PendingOK
  <2>3. StateOK'
    BY <1>1, <1>2, <1>3, <2>1
  <2>. QED
    BY <1>1, <2>1, <2>2, <2>3, NothingClaimed
<1>8. CASE EnsureBase
  <2>1. /\ pc' \in {"api", "failed"} /\ tmpRefs = {} /\ tmpRefs' = {} /\ answer' = answer
        /\ result = None /\ result' = None /\ rung' = rung /\ runs' = runs /\ (Fault \/ NoFault)
    BY <1>8 DEF EnsureBase, given, RefsOK, PendingOK, Probing
  <2>2. SaidOK' /\ RungOK' /\ RefsOK' /\ AcceptedOK' /\ PendingOK'
    BY <1>4, <2>1 DEF Probing, RungOK, RefsOK, AcceptedOK, PendingOK
  <2>3. StateOK'
    BY <1>1, <1>2, <1>3, <1>5, <2>1 DEF Ended
  <2>. QED
    BY <1>1, <2>1, <2>2, <2>3, NothingClaimed
<1>9. CASE AskAPI
  <2>1. /\ pc' \in {"check", "compute", "done"} /\ tmpRefs = {} /\ tmpRefs' = {}
        /\ result = None /\ result' = None /\ rung' = rung /\ runs' = runs /\ (Fault \/ NoFault)
    BY <1>9 DEF AskAPI, given, clone, RefsOK, PendingOK, Probing
  <2>2. SaidOK'
    <3>1. CASE answer' \in Answers /\ (pc' = "check" => answer'.kind = "sha")
      BY <1>1, <2>1, <3>1, AnswersFacts DEF SaidOK, AnswerOK, Probing
    <3>2. CASE answer' = [kind |-> "none", sha |-> None, moved |-> FALSE] /\ pc' = "compute"
      BY <3>2 DEF SaidOK, AnswerOK, Probing
    <3>3. pc' = "check" => answer' \in Answers /\ answer'.kind = "sha"
      BY <1>9 DEF AskAPI
    <3>. QED
      BY <1>9, <3>1, <3>2 DEF AskAPI
  <2>3. RungOK' /\ RefsOK' /\ AcceptedOK' /\ PendingOK'
    BY <2>1 DEF Probing, RungOK, RefsOK, AcceptedOK, PendingOK
  <2>4. StateOK'
    BY <1>1, <1>2, <1>3, <1>5, <2>1 DEF Ended
  <2>. QED
    BY <1>1, <2>1, <2>2, <2>3, <2>4, NothingClaimed
<1>10. CASE Check
  <2>1. /\ pc = "check" /\ result = None /\ tmpRefs = {} /\ tmpRefs' = {} /\ answer' = answer
        /\ objects' = objects /\ runs' = runs /\ (Fault \/ NoFault)
    BY <1>10 DEF Check, given, RefsOK, PendingOK, Probing
  <2>2. SaidOK'
    BY <1>4, <2>1 DEF Probing, SaidOK
  <2>3. CASE Reachable(objects, shallow')
    <3>1. Accept(answer.sha) /\ rung' = rung
      BY <1>10, <2>3 DEF Check
    <3>2. BaselineUsable' /\ BaselineCommon' /\ result' \in Commits
      BY <1>1, <2>1, <2>3, <3>1, AcceptKeeps DEF Reachable, Probing
    <3>3. RungOK' /\ RefsOK' /\ AcceptedOK' /\ PendingOK'
      BY <2>1, <3>1 DEF Accept, Probing, RungOK, RefsOK, AcceptedOK, PendingOK
    <3>4. StateOK'
      BY <1>1, <1>2, <1>3, <1>5, <2>1, <3>1, <3>2 DEF Accept, Ended
    <3>. QED
      BY <1>1, <2>2, <3>2, <3>3, <3>4
  <2>4. CASE ~Reachable(objects, shallow')
    <3>1. pc' = "gogit" /\ rung' = 1 /\ result' = None
      BY <1>10, <2>1, <2>4 DEF Check, Leave
    <3>2. RungOK' /\ RefsOK' /\ AcceptedOK' /\ PendingOK'
      BY <1>3, <2>1, <3>1 DEF Probing, RungOK, RefsOK, AcceptedOK, PendingOK
    <3>3. StateOK'
      BY <1>1, <1>2, <1>3, <1>5, <2>1, <3>1
    <3>. QED
      BY <1>1, <2>2, <3>1, <3>2, <3>3, NothingClaimed
  <2>. QED
    BY <2>3, <2>4
<1>11. CASE GoGitDeepen
  <2>1. /\ pc = "gogit" /\ result = None /\ tmpRefs \subseteq {pr.head} /\ answer' = answer
        /\ rung \in 1 .. Len(HeadLadder) /\ runs' = runs /\ NoFault
    BY <1>11 DEF GoGitDeepen, given, RefsOK, RungOK, PendingOK, Probing
  <2>2. SaidOK'
    BY <1>4, <2>1 DEF Probing, SaidOK
  <2>3. CASE Reachable(objects', shallow')
    <3>1. Accept(answer.sha) /\ rung' = rung /\ tmpRefs' = {}
      BY <1>11, <2>1, <2>3 DEF GoGitDeepen
    <3>2. BaselineUsable' /\ BaselineCommon' /\ result' \in Commits
      BY <1>1, <2>1, <2>3, <3>1, AcceptKeeps DEF Reachable, Probing
    <3>3. RungOK' /\ RefsOK' /\ AcceptedOK' /\ PendingOK'
      BY <2>1, <3>1 DEF Accept, Probing, RungOK, RefsOK, AcceptedOK, PendingOK
    <3>4. StateOK'
      BY <1>1, <1>2, <1>3, <1>5, <2>1, <3>1, <3>2 DEF Accept, Ended
    <3>. QED
      BY <1>1, <2>2, <3>2, <3>3, <3>4
  <2>4. CASE ~Reachable(objects', shallow')
    <3>1. /\ tmpRefs' \subseteq {pr.head} /\ result' = None
          /\ \/ pc' = "cli" /\ rung' = 1
             \/ pc' = "gogit" /\ rung' = rung + 1 /\ rung # Len(HeadLadder)
      BY <1>11, <2>1, <2>4 DEF GoGitDeepen, Leave, LastRung
    <3>2. RungOK' /\ RefsOK' /\ AcceptedOK' /\ PendingOK'
      BY <1>1, <1>3, <2>1, <3>1 DEF Probing, RungOK, RefsOK, AcceptedOK, PendingOK
    <3>3. StateOK'
      BY <1>1, <1>2, <1>3, <1>5, <2>1, <3>1
    <3>. QED
      BY <1>1, <2>2, <3>1, <3>2, <3>3, NothingClaimed
  <2>. QED
    BY <2>3, <2>4
<1>12. CASE GoGitFail
  <2>1. /\ pc = "gogit" /\ pc' = "cli" /\ rung' = 1 /\ result' = None /\ answer' = answer
        /\ tmpRefs' \subseteq {pr.head} /\ runs' = runs /\ Fault
    BY <1>12 DEF GoGitFail, Leave, clone, given, RefsOK, PendingOK, Probing
  <2>2. SaidOK' /\ RungOK' /\ RefsOK' /\ AcceptedOK' /\ PendingOK'
    BY <1>1, <1>3, <1>4, <2>1 DEF Probing, SaidOK, RungOK, RefsOK, AcceptedOK, PendingOK
  <2>3. StateOK'
    BY <1>1, <1>2, <1>3, <1>5, <2>1
  <2>. QED
    BY <1>1, <2>1, <2>2, <2>3, NothingClaimed
<1>13. CASE CLIDeepen
  <2>1. /\ pc = "cli" /\ result' = None /\ answer' = answer
        /\ tmpRefs' \subseteq {pr.head} /\ rung \in 1 .. Len(HeadLadder) /\ runs' = runs /\ NoFault
    BY <1>13 DEF CLIDeepen, Leave, given, RefsOK, RungOK, PendingOK, Probing
  <2>2. /\ pc' \in {"accepted", "refused", "cli"}
        /\ \/ rung' = 1
           \/ rung' = rung + 1 /\ rung # Len(HeadLadder)
        /\ pc' = "accepted" => answer.sha \in CLIMergeBase(pr, objects', shallow', answer.sha)
    BY <1>13 DEF CLIDeepen, Leave, LastRung
  <2>3. SaidOK'
    BY <1>4, <2>1 DEF Probing, SaidOK
  <2>4. RungOK' /\ RefsOK' /\ AcceptedOK' /\ PendingOK'
    BY <1>1, <1>3, <2>1, <2>2 DEF Probing, RungOK, RefsOK, AcceptedOK, PendingOK
  <2>5. StateOK'
    BY <1>1, <1>2, <1>3, <1>5, <2>1, <2>2
  <2>. QED
    BY <1>1, <2>1, <2>2, <2>3, <2>4, <2>5, NothingClaimed
<1>14. CASE CLIFail
  <2>1. /\ pc = "cli" /\ pc' = "refused" /\ rung' = 1 /\ result' = None /\ answer' = answer
        /\ tmpRefs' \subseteq {pr.head} /\ runs' = runs /\ (Fault \/ NoFault)
    BY <1>14 DEF CLIFail, Leave, clone, given, RefsOK, PendingOK, Probing
  <2>2. SaidOK' /\ RungOK' /\ RefsOK' /\ AcceptedOK' /\ PendingOK'
    BY <1>1, <1>3, <1>4, <2>1 DEF Probing, SaidOK, RungOK, RefsOK, AcceptedOK, PendingOK
  <2>3. StateOK'
    BY <1>1, <1>2, <1>3, <1>5, <2>1
  <2>. QED
    BY <1>1, <2>1, <2>2, <2>3, NothingClaimed
<1>15. CASE LeaveEnsure
  <2>1. /\ pc \in {"accepted", "refused"} /\ tmpRefs' = {} /\ result = None /\ answer' = answer
        /\ objects' = objects /\ shallow' = shallow /\ rung' = rung /\ runs' = runs /\ NoFault
    BY <1>15 DEF LeaveEnsure, given, RefsOK, PendingOK, Probing
  <2>2. SaidOK'
    BY <1>4, <2>1 DEF Probing, SaidOK
  <2>3. CASE pc = "accepted"
    <3>1. Accept(answer.sha)
      BY <1>15, <2>3 DEF LeaveEnsure
    <3>2. BaselineUsable' /\ BaselineCommon' /\ result' \in Commits
      BY <1>1, <2>1, <2>3, <3>1, AcceptKeeps DEF AcceptedOK, Probing
    <3>3. RungOK' /\ RefsOK' /\ AcceptedOK' /\ PendingOK'
      BY <2>1, <3>1 DEF Accept, Probing, RungOK, RefsOK, AcceptedOK, PendingOK
    <3>4. StateOK'
      BY <1>1, <1>2, <1>3, <1>5, <2>1, <3>1, <3>2 DEF Accept, Ended
    <3>. QED
      BY <1>1, <2>2, <3>2, <3>3, <3>4
  <2>4. CASE pc = "refused"
    <3>1. pc' = "compute" /\ result' = None
      BY <1>15, <2>1, <2>4 DEF LeaveEnsure
    <3>2. RungOK' /\ RefsOK' /\ AcceptedOK' /\ PendingOK'
      BY <2>1, <3>1 DEF Probing, RungOK, RefsOK, AcceptedOK, PendingOK
    <3>3. StateOK'
      BY <1>1, <1>2, <1>3, <1>5, <2>1, <3>1
    <3>. QED
      BY <1>1, <2>2, <3>1, <3>2, <3>3, NothingClaimed
  <2>. QED
    BY <2>1, <2>3, <2>4
<1>16. CASE Compute
  <2>1. /\ pc = "compute" /\ tmpRefs' = {} /\ result = None /\ answer' = answer
        /\ objects' = objects /\ shallow' = shallow /\ rung' = 1 /\ runs' = runs /\ (Fault \/ NoFault)
        /\ pc' \in {"done", "both"}
    BY <1>16 DEF Compute, Accept, given, clone, RefsOK, PendingOK, Probing
  <2>2. SaidOK' /\ RungOK' /\ RefsOK' /\ AcceptedOK'
    BY <1>4, <2>1 DEF Probing, RungOK, RefsOK, AcceptedOK
  <2>3. \/ Accept(None)
        \/ \E mb \in CLIMergeBase(pr, objects', shallow', pr.base) : Accept(mb)
        \/ pc' = "both" /\ result' = None
    BY <1>16, <2>1 DEF Compute
  <2>4. BaselineUsable' /\ BaselineCommon' /\ result' \in Commits \cup {None} /\ PendingOK'
    <3>1. CASE Accept(None) \/ (pc' = "both" /\ result' = None)
      BY <3>1, NothingClaimed DEF Accept, PendingOK
    <3>2. CASE \E mb \in CLIMergeBase(pr, objects', shallow', pr.base) : Accept(mb)
      BY <1>1, <3>2, ComputedKeeps DEF Accept, PendingOK
    <3>. QED
      BY <2>3, <3>1, <3>2
  <2>5. StateOK'
    BY <1>1, <1>2, <1>3, <1>5, <2>1, <2>4 DEF Ended
  <2>. QED
    BY <1>1, <2>2, <2>4, <2>5
<1>17. CASE DeepenBoth
  <2>1. /\ pc = "both" /\ tmpRefs \subseteq {pr.head, pr.base} /\ result = None
        /\ answer' = answer /\ runs' = runs /\ NoFault
    BY <1>17 DEF DeepenBoth, given, RefsOK, PendingOK, Probing
  <2>2. \/ /\ \/ Accept(None)
              \/ \E mb \in CLIMergeBase(pr, objects', shallow', pr.base) : Accept(mb)
           /\ tmpRefs' = {} /\ rung' = rung
        \/ /\ pc' = "both" /\ result' = None /\ tmpRefs' \subseteq {pr.head, pr.base}
           /\ rung' = rung + 1 /\ rung # Len(InitialLadder)
    BY <1>17, <2>1 DEF DeepenBoth, Outcome, LastRung
  <2>3. pc' \in {"done", "both"}
    BY <2>2 DEF Accept
  <2>4. SaidOK' /\ RungOK' /\ AcceptedOK'
    BY <1>4, <2>1, <2>3 DEF Probing, RungOK, AcceptedOK
  <2>5. RefsOK'
    BY <1>1, <2>2, <2>3 DEF Accept, RefsOK
  <2>6. BaselineUsable' /\ BaselineCommon' /\ result' \in Commits \cup {None} /\ PendingOK'
    <3>1. CASE Accept(None) \/ (pc' = "both" /\ result' = None)
      BY <3>1, NothingClaimed DEF Accept, PendingOK
    <3>2. CASE \E mb \in CLIMergeBase(pr, objects', shallow', pr.base) : Accept(mb)
      BY <1>1, <3>2, ComputedKeeps DEF Accept, PendingOK
    <3>. QED
      BY <2>2, <3>1, <3>2
  <2>7. StateOK'
    BY <1>1, <1>2, <1>3, <1>5, <2>1, <2>2, <2>3, <2>6 DEF Ended
  <2>. QED
    BY <1>1, <2>4, <2>5, <2>6, <2>7
<1>18. CASE DeepenBothFail
  <2>1. /\ pc' = "done" /\ tmpRefs' = {} /\ result' = None /\ answer' = answer
        /\ rung' = rung /\ runs' = runs /\ Fault
    BY <1>18 DEF DeepenBothFail, Accept, given, RefsOK, Probing
  <2>2. SaidOK' /\ RungOK' /\ RefsOK' /\ AcceptedOK' /\ PendingOK'
    BY <1>4, <2>1 DEF Probing, RungOK, RefsOK, AcceptedOK, PendingOK
  <2>3. StateOK'
    BY <1>1, <1>2, <1>3, <1>5, <2>1 DEF Ended
  <2>. QED
    BY <1>1, <2>1, <2>2, <2>3, NothingClaimed
<1>. QED
  BY <1>6, <1>7, <1>8, <1>9, <1>10, <1>11, <1>12, <1>13, <1>14, <1>15, <1>16, <1>17, <1>18
     DEF Next

-----------------------------------------------------------------------------
(***************************************************************************)
(* The results.                                                            *)
(***************************************************************************)

\* The inductive invariant holds in every reachable state.
LEMMA Invariant == Spec => []Inv
<1>1. Inv /\ [Next]_vars => Inv'
  BY StepInv
<1>. QED
  BY InitInv, <1>1, PTL DEF Spec

\* The two flags stay Boolean.
LEMMA Flags == Spec => []FlagsOK
<1>1. Init => FlagsOK
  BY DEF Init, FlagsOK
<1>2. ASSUME FlagsOK, [Next]_vars
      PROVE  FlagsOK'
  <2>1. cliAuth' = cliAuth
    BY <1>2 DEF Next, Start, EnsureBase, AskAPI, Check, GoGitDeepen, GoGitFail, CLIDeepen, CLIFail,
           LeaveEnsure, Compute, DeepenBoth, DeepenBothFail, vars, given
  <2>2. disturbed' \in {disturbed, TRUE, FALSE}
    BY <1>2 DEF Next, Start, EnsureBase, AskAPI, Check, GoGitDeepen, GoGitFail, CLIDeepen, CLIFail,
           LeaveEnsure, Compute, DeepenBoth, DeepenBothFail, vars, NoFault, Fault
  <2>. QED
    BY <1>2, <2>1, <2>2 DEF FlagsOK
<1>3. FlagsOK /\ [Next]_vars => FlagsOK'
  BY <1>2
<1>. QED
  BY <1>1, <1>3, PTL DEF Spec

(***************************************************************************)
(* Type correctness: among others, the search never leaves its ladders and *)
(* the shallow file never lists a commit that is not there.                *)
(***************************************************************************)
THEOREM TypeCorrect == Spec => []TypeOK
<1>1. Inv /\ FlagsOK => TypeOK
  BY DEF Inv, SearchOK, SaidOK, TypeOK
<1>. QED
  BY Invariant, Flags, <1>1, PTL

(***************************************************************************)
(* In whatever order the go-git and git fetches, the prunings and their    *)
(* failures follow, and over any number of runs in the same folder, a      *)
(* parent is missing only behind an entry of .git/shallow.                 *)
(***************************************************************************)
THEOREM CloneReadable == Spec => []NoBrokenLink
<1>1. Inv => NoBrokenLink
  BY DEF Inv, CloneOK, StoreOK, NoBrokenLink
<1>. QED
  BY Invariant, <1>1, PTL

(***************************************************************************)
(* A baseline that is reported can be used: git finds a merge base of it   *)
(* and the head in the clone that is left, whichever way it was found.     *)
(***************************************************************************)
THEOREM ReportedUsable == Spec => []BaselineUsable
<1>1. Inv => BaselineUsable
  BY DEF Inv, SearchOK
<1>. QED
  BY Invariant, <1>1, PTL

(***************************************************************************)
(* A baseline that is reported is in the history of both head and base,    *)
(* unless one of them moved while the provider was asked.                  *)
(***************************************************************************)
THEOREM ReportedCommon == Spec => []BaselineCommon
<1>1. Inv => BaselineCommon
  BY DEF Inv, SearchOK
<1>. QED
  BY Invariant, <1>1, PTL

(***************************************************************************)
(* No temporary reference outlives a run, wherever it failed.              *)
(***************************************************************************)
THEOREM RefsGone == Spec => []NoTmpRefs
<1>1. Inv => NoTmpRefs
  BY DEF Inv, SearchOK, RefsOK, NoTmpRefs, Ended, Probing
<1>. QED
  BY Invariant, <1>1, PTL

-----------------------------------------------------------------------------
(***************************************************************************)
(* Which baseline is reported.                                             *)
(***************************************************************************)

\* A step that reports a baseline takes the provider's answer or computes one.
LEMMA Reports ==
    ASSUME Inv, [Next]_vars, pc' = "done", result' # None
    PROVE  /\ answer' = answer
           /\ \/ pc = "done" /\ result' = result
              \/ answer.kind = "sha" /\ result' = answer.sha
              \/ result' \in CLIMergeBase(pr, objects', shallow', pr.base)
<1>. USE DEF Inv, SearchOK
<1>1. CASE UNCHANGED vars
  BY <1>1 DEF vars
<1>2. CASE Start
  BY <1>2 DEF Start
<1>3. CASE EnsureBase
  BY <1>3 DEF EnsureBase
<1>4. CASE AskAPI
  BY <1>4 DEF AskAPI, PendingOK
<1>5. CASE Check
  BY <1>5 DEF Check, Accept, Leave, SaidOK, Probing
<1>6. CASE GoGitDeepen
  <2>1. pc = "gogit" /\ answer' = answer
    BY <1>6 DEF GoGitDeepen
  <2>2. CASE Accept(answer.sha)
    BY <2>1, <2>2 DEF Accept, SaidOK, Probing
  <2>3. CASE pc' \in {"gogit", "cli"}
    BY <2>3
  <2>4. pc' \in {"gogit", "cli"} \/ Accept(answer.sha)
    BY <1>6, <2>1 DEF GoGitDeepen, Leave
  <2>. QED
    BY <2>2, <2>3, <2>4
<1>7. CASE GoGitFail
  BY <1>7 DEF GoGitFail, Leave
<1>8. CASE CLIDeepen
  BY <1>8 DEF CLIDeepen, Leave
<1>9. CASE CLIFail
  BY <1>9 DEF CLIFail, Leave
<1>10. CASE LeaveEnsure
  BY <1>10 DEF LeaveEnsure, Accept, SaidOK, Probing
<1>11. CASE Compute
  <2>1. answer' = answer /\ objects' = objects /\ shallow' = shallow
    BY <1>11 DEF Compute, clone
  <2>. QED
    BY <1>11, <2>1 DEF Compute, Accept
<1>12. CASE DeepenBoth
  <2>1. answer' = answer
    BY <1>12 DEF DeepenBoth
  <2>. QED
    BY <1>12, <2>1 DEF DeepenBoth, Accept, Outcome, PendingOK
<1>13. CASE DeepenBothFail
  BY <1>13 DEF DeepenBothFail, Accept
<1>. QED
  BY <1>1, <1>2, <1>3, <1>4, <1>5, <1>6, <1>7, <1>8, <1>9, <1>10, <1>11, <1>12, <1>13 DEF Next

\* The provider's answer is a merge base by what it says; a computed one by what
\* a cut history without merges shows.
LEMMA StepExact ==
    ASSUME Inv, ForkPointExact, [Next]_vars
    PROVE  ForkPointExact'
<1>1. pr' = pr /\ pr \in Histories
  BY CloneKept DEF Inv, StateOK
<1>2. SUFFICES ASSUME pc' = "done", result' # None, ~answer'.moved,
                      \A c \in Commits : Cardinality(pr.parents[c]) <= 1
               PROVE  result' \in BestCommon(pr.parents, pr.head, pr.base)
  BY <1>1 DEF ForkPointExact, Linear
<1>3. /\ answer' = answer
      /\ \/ pc = "done" /\ result' = result
         \/ answer.kind = "sha" /\ result' = answer.sha
         \/ result' \in CLIMergeBase(pr, objects', shallow', pr.base)
  BY <1>2, Reports
<1>4. CASE pc = "done" /\ result' = result
  BY <1>2, <1>3, <1>4 DEF ForkPointExact, Linear
<1>5. CASE answer.kind = "sha" /\ result' = answer.sha
  BY <1>2, <1>3, <1>5 DEF Inv, SearchOK, SaidOK
<1>6. CASE result' \in CLIMergeBase(pr, objects', shallow', pr.base)
  <2>1. result' \in BestCommon(Seen(pr.parents, shallow'), pr.head, pr.base)
    BY <1>6 DEF CLIMergeBase
  <2>. QED
    BY <1>1, <1>2, <2>1, SeenIsBest
<1>. QED
  BY <1>3, <1>4, <1>5, <1>6

(***************************************************************************)
(* In a history without merges a reported baseline is the fork point       *)
(* itself, though it may have been computed from histories that are cut at *)
(* different depths and by different tools.                                *)
(***************************************************************************)
THEOREM ReportedExact == Spec => []ForkPointExact
<1>1. Init => ForkPointExact
  BY DEF Init, ForkPointExact
<1>2. Inv /\ ForkPointExact /\ [Next]_vars => ForkPointExact'
  BY StepExact
<1>. QED
  BY Invariant, <1>1, <1>2, PTL DEF Spec

-----------------------------------------------------------------------------
(***************************************************************************)
(* When no baseline is reported.                                           *)
(***************************************************************************)

\* Commits are never lost; past the first step the base is there.
BaseThere == pc \in Probing \cup {"api", "compute", "both"} => pr.base \in objects

LEMMA ObjectsKept ==
    ASSUME [Next]_vars
    PROVE  objects \subseteq objects'
<1>1. CASE EnsureBase
  BY <1>1 DEF EnsureBase
<1>2. CASE GoGitDeepen
  BY <1>2 DEF GoGitDeepen
<1>3. CASE GoGitFail
  BY <1>3 DEF GoGitFail, clone
<1>4. CASE CLIDeepen
  BY <1>4 DEF CLIDeepen
<1>5. CASE DeepenBoth
  BY <1>5 DEF DeepenBoth
<1>6. CASE \/ Start \/ AskAPI \/ Check \/ CLIFail \/ LeaveEnsure \/ Compute \/ DeepenBothFail
           \/ UNCHANGED vars
  BY <1>6 DEF Start, AskAPI, Check, CLIFail, LeaveEnsure, Compute, DeepenBothFail, vars, clone
<1>. QED
  BY <1>1, <1>2, <1>3, <1>4, <1>5, <1>6 DEF Next

LEMMA StepBase ==
    ASSUME Inv, BaseThere, [Next]_vars
    PROVE  BaseThere'
<1>1. pr' = pr /\ objects \subseteq objects'
  BY CloneKept, ObjectsKept
<1>2. CASE EnsureBase
  BY <1>1, <1>2 DEF EnsureBase, BaseThere, Probing
<1>3. CASE Start
  BY <1>3 DEF Start, BaseThere, Probing
<1>4. ASSUME \/ AskAPI \/ Check \/ GoGitDeepen \/ GoGitFail \/ CLIDeepen \/ CLIFail \/ LeaveEnsure
             \/ Compute \/ DeepenBoth \/ DeepenBothFail
      PROVE  pc \in Probing \cup {"api", "compute", "both"}
  BY <1>4 DEF AskAPI, Check, GoGitDeepen, GoGitFail, CLIDeepen, CLIFail, LeaveEnsure, Compute,
         DeepenBoth, DeepenBothFail, Probing
<1>5. CASE UNCHANGED vars
  BY <1>1, <1>5 DEF vars, BaseThere
<1>. QED
  BY <1>1, <1>2, <1>3, <1>4, <1>5 DEF Next, BaseThere

\* A reason for which no baseline is reported.
Apart == Brought({pr.head}, Deepest) \cap Brought({pr.base}, Deepest) = {}

LEMMA DeepestFacts == Deepest \in 1 .. MaxDepth /\ Deepest = InitialLadder[Len(InitialLadder)]
  BY LadderFacts DEF Deepest

\* Where no merge base is seen and the parents of all commits but the deepest
\* are, the two histories do not meet.
LEMMA NoneIsApart ==
    ASSUME pr \in Histories, NEW sh,
           BestCommon(Seen(pr.parents, sh), pr.head, pr.base) = {},
           \A a \in {pr.head, pr.base} : \A d \in 1 .. Deepest : d # Deepest =>
               Near(pr.parents, {a}, d) \cap sh = {}
    PROVE  Apart
<1>. DEFINE q == Seen(pr.parents, sh)
<1>1. /\ q \in [Commits -> SUBSET Commits]
      /\ \A c \in Commits : q[c] \subseteq 1 .. c - 1
  BY SeenBelow
<1>2. pr.head \in Commits /\ pr.base \in Commits /\ Deepest \in 1 .. MaxDepth
  BY HistoryFacts, DeepestFacts
<1>3. ASSUME NEW a \in {pr.head, pr.base}
      PROVE  Brought({a}, Deepest) \subseteq Ancestors(q, a)
  <2>1. a \in Commits /\ NearOK(pr.parents, {a})
    <3>1. a \in Commits /\ {a} \in SUBSET Commits
      BY <1>2
    <3>. QED
      BY <3>1, NearFacts
  <2>2. ASSUME NEW d \in 1 .. Deepest, d # Deepest, NEW c \in Near(pr.parents, {a}, d)
        PROVE  pr.parents[c] \subseteq q[c]
    <3>1. d \in 1 .. MaxDepth
      BY <1>2, MergeBaseAssumption
    <3>2. c \in Commits /\ c \notin sh
      BY <2>1, <2>2, <3>1 DEF NearOK
    <3>. QED
      BY <3>2 DEF Seen
  <2>. HIDE DEF q
  <2>3. Near(pr.parents, {a}, Deepest) \subseteq Ancestors(q, a)
    BY <1>1, <1>2, <2>1, <2>2, NearIsReached
  <2>. QED
    BY <2>3 DEF Brought
<1>4. Common(q, pr.head, pr.base) = {}
  <2>. HIDE DEF q
  <2>. SUFFICES ASSUME Common(q, pr.head, pr.base) # {} PROVE FALSE
    OBVIOUS
  <2>1. BestCommon(q, pr.head, pr.base) # {}
    BY <1>1, BestExists
  <2>. QED
    BY <2>1 DEF q
<1>. QED
  BY <1>3, <1>4 DEF Apart, Common

\* A clone without entries shows the whole history.
LEMMA WholeIsApart ==
    ASSUME Inv, BaseThere, pc = "compute", shallow = {},
           CLIMergeBase(pr, objects, shallow, pr.base) = {}
    PROVE  Apart
<1>1. pr \in Histories /\ {pr.head, pr.base} \subseteq objects
  BY DEF Inv, StateOK, CloneOK, StoreOK, BaseThere
<1>2. BestCommon(Seen(pr.parents, shallow), pr.head, pr.base) = {}
  BY <1>1 DEF CLIMergeBase
<1>. QED
  BY <1>1, <1>2, NoneIsApart

\* After the deepest fetch of head and base only the commits at its edge, and
\* those beyond, are without their parents.
LEMMA DeepestIsApart ==
    ASSUME Inv, [Next]_vars, DeepenBoth, LastRung(InitialLadder),
           CLIMergeBase(pr, objects', shallow', pr.base) = {}
    PROVE  Apart
<1>. DEFINE W == {pr.head, pr.base}
<1>1. /\ pr \in Histories /\ W \in SUBSET Commits
      /\ rung = Len(InitialLadder) /\ InitialLadder[rung] = Deepest /\ Deepest \in 1 .. MaxDepth
  BY HistoryFacts, DeepestFacts DEF Inv, StateOK, LastRung
<1>2. /\ objects' = objects \cup Brought(W, Deepest)
      /\ shallow' = CLIShallow(W, Deepest)
  BY <1>1 DEF DeepenBoth
<1>3. W \subseteq objects'
  BY <1>1, <1>2, BroughtFacts
<1>4. BestCommon(Seen(pr.parents, shallow'), pr.head, pr.base) = {}
  BY <1>3 DEF CLIMergeBase
<1>5. ASSUME NEW a \in W, NEW d \in 1 .. Deepest, d # Deepest
      PROVE  Near(pr.parents, {a}, d) \cap shallow' = {}
  <2>1. /\ Deepest - 1 \in 1 .. MaxDepth /\ d \in 1 .. Deepest - 1 /\ Deepest # 1
        /\ Deepest - 1 \in 1 .. Deepest /\ d \in 1 .. MaxDepth
    BY <1>1, <1>5, MergeBaseAssumption
  <2>2. Near(pr.parents, {a}, d) \subseteq Near(pr.parents, W, d)
    BY <1>1, <2>1, NearMono
  <2>3. Near(pr.parents, W, d) \subseteq Near(pr.parents, W, Deepest - 1)
    BY <1>1, <2>1, NearGrows
  <2>4. Near(pr.parents, W, Deepest - 1) \subseteq Near(pr.parents, W, Deepest)
    BY <1>1, <2>1, NearGrows
  <2>. QED
    BY <1>2, <2>1, <2>2, <2>3, <2>4 DEF CLIShallow, Boundary, Brought
<1>. QED
  BY <1>1, <1>4, <1>5, NoneIsApart

LEMMA StepCause ==
    ASSUME Inv, BaseThere, AbsentForCause, [Next]_vars
    PROVE  AbsentForCause'
<1>. USE DEF Inv, SearchOK
<1>1. pr' = pr
  BY CloneKept
<1>2. SUFFICES ASSUME pc' = "done", result' = None, ~disturbed', cliAuth', answer'.kind # "empty"
               PROVE  Apart
  BY <1>1 DEF AbsentForCause, Apart, Brought
<1>3. CASE UNCHANGED vars
  BY <1>2, <1>3 DEF vars, given, AbsentForCause, Apart
<1>4. CASE Start
  BY <1>2, <1>4 DEF Start
<1>5. CASE EnsureBase
  BY <1>2, <1>5 DEF EnsureBase
<1>6. CASE AskAPI
  BY <1>2, <1>6 DEF AskAPI
<1>7. CASE Check
  BY <1>2, <1>7 DEF Check, Accept, Leave, SaidOK, Probing, None, Commits
<1>8. CASE GoGitDeepen
  <2>1. /\ pc = "gogit" /\ answer.sha # None
        /\ pc' \in {"gogit", "cli"} \/ Accept(answer.sha)
    BY <1>8 DEF GoGitDeepen, Leave, SaidOK, Probing, None, Commits
  <2>. QED
    BY <1>2, <2>1 DEF Accept
<1>9. CASE GoGitFail
  BY <1>2, <1>9 DEF GoGitFail, Leave
<1>10. CASE CLIDeepen
  BY <1>2, <1>10 DEF CLIDeepen, Leave
<1>11. CASE CLIFail
  BY <1>2, <1>11 DEF CLIFail, Leave
<1>12. CASE LeaveEnsure
  BY <1>2, <1>12 DEF LeaveEnsure, Accept, SaidOK, Probing, None, Commits
<1>13. CASE Compute
  <2>1. pc = "compute" /\ cliAuth' = cliAuth
    BY <1>13 DEF Compute, given
  <2>2. ~Fault
    BY <1>2 DEF Fault
  <2>3. shallow = {}
    BY <1>2, <1>13, <2>1, <2>2 DEF Compute
  <2>4. ASSUME NEW mb \in CLIMergeBase(pr, objects, shallow, pr.base)
        PROVE  mb # None
    BY MergeBaseAssumption DEF CLIMergeBase, BestCommon, Common, Ancestors, Commits, None
  <2>5. CLIMergeBase(pr, objects, shallow, pr.base) = {}
    BY <1>2, <1>13, <2>1, <2>2, <2>4 DEF Compute, Accept
  <2>. QED
    BY <2>1, <2>3, <2>5, WholeIsApart
<1>14. CASE DeepenBoth
  <2>1. ASSUME NEW mb \in CLIMergeBase(pr, objects', shallow', pr.base)
        PROVE  mb # None
    BY MergeBaseAssumption DEF CLIMergeBase, BestCommon, Common, Ancestors, Commits, None
  <2>2. pc = "both"
    BY <1>14 DEF DeepenBoth
  <2>3. CLIMergeBase(pr, objects', shallow', pr.base) = {} /\ LastRung(InitialLadder)
    BY <1>2, <1>14, <2>1, <2>2 DEF DeepenBoth, Accept, Outcome
  <2>. QED
    BY <1>14, <2>3, DeepestIsApart
<1>15. CASE DeepenBothFail
  BY <1>2, <1>15 DEF DeepenBothFail, Fault
<1>. QED
  BY <1>3, <1>4, <1>5, <1>6, <1>7, <1>8, <1>9, <1>10, <1>11, <1>12, <1>13, <1>14, <1>15 DEF Next

(***************************************************************************)
(* A baseline is absent only for cause: without a failed call, a key the   *)
(* git binary cannot use or a provider that says there is none, head and   *)
(* base do not meet within the deepest rung of the ladder.                 *)
(***************************************************************************)
THEOREM AbsentOnlyForCause == Spec => []AbsentForCause
<1>1. Init => BaseThere /\ AbsentForCause
  BY DEF Init, BaseThere, AbsentForCause, Probing
<1>2. Inv /\ BaseThere /\ [Next]_vars => BaseThere'
  BY StepBase
<1>3. Inv /\ BaseThere /\ AbsentForCause /\ [Next]_vars => AbsentForCause'
  BY StepCause
<1>. QED
  BY Invariant, <1>1, <1>2, <1>3, PTL DEF Spec
=============================================================================
